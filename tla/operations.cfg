SPECIFICATION PartSpec
CONSTANTS
  Keys = {k1, k2}
  Reasons = {r1, r2}
  Addresses = {a1, a2}
  CheckEvery = 1
  GraceSeconds = 2
  SendWindow = 2
  ProviderWindow = 3
  Timeout = 1
  MaxTime = 8
  None = None
  Plans = {"script", "film", "retake", "article", "managed"}
  RequestedPlans = {"script", "film", "retake", "article", "managed"}
  FilmPlans = {"script", "film", "managed"}
  ArticlePlans = {"retake", "article"}
  PaidEpisodes = {"e1", "e2", "m"}
  Calls <- PaidCalls
  Plan <- PlanOf
  Most <- MostOf
  Charges <- ChargesOf
  Operation <- PlanOf
  Episode <- EpisodeOf
  Category <- CategoryOf
  Provider <- ProviderOf
  Allowance <- AllowanceOf
  NoCall = "none"
  Early = {"film", "retake"}
  Defaults <- FirstCaps
  CapChoices <- SomeCaps
  AppCaps = {0, 4}
  LocalMonth <- LateMonth
  AppMonth <- EarlyMonth
  MaxSaves = 1
  Leagues = {y1, y2}
  YahooLeagues = {y1, y2}
  Members = {m}
  Workers = {w1, w2}
  ImportRequests <- SomeRequests
  RequestKeys = {k}
  NoKey = NoKey
  Interval = 1
  PolicyInterval = 2
  ImportLease = 1
  Delays <- OneThenTwo
  MaxWait = 2
  MaxJobs = 2
  MaxChanges = 1
  MaxImportGeneration = 4
  ImportEnd = 2
  Weeks = {1}
  Trades = {trade}
  ReleaseTimes <- FirstRelease
  Stable = 1
  MaxAge = 1
  MaxFacts = 2
  MaxConnections = 2
  MaxCommands = 2
  MaxObservations = 3
  PlanEnd = 3
  Jobs = {j}
  MaxEpoch = 3
  MaxRevision = 2
  MaxArticle = 2
  MaxRestores = 2
  MaxTakes = 2
  Frames = {1}
  Runs = {b}
  Grace = 1
  FailedAge = 2
  Expiry = 2
  StoreEnd = 3
  Requests = {q1, q2}
  Listed = {y1}
  Accounts = {a, b}
  Joined <- OneJoined
  Lifetime = 1
  MaxStarts = 2
  YahooEnd = 1
  Replicas = {p1, p2}
  Owners = {o1, o2}
  Hour = 2
  Lease = 2
  CollectTime = 1
  MailLease = 1
  Retry = 1
  Window = 2
  Memory = 4
  Stall = 2
  MaxGeneration = 3
  MaxRelease = 2
  MonitorEnd = 5
INVARIANTS
    TypesOK
    MailedOnce
    RestoreForgetsNothing
    MediaIsKept
    MonitorAsksOnce
PROPERTIES
    ToTheOwner
    LimitsKept
    ImportsInTurn
    OnlyNewsIsBought
    ConnectionFollowsConsent
CONSTRAINT Few
CHECK_DEADLOCK FALSE
