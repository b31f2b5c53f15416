SPECIFICATION EitherSpec
CONSTANTS
  u1 = u1  w1 = w1
  Jobs = {j1}
  Automatic = {j1}
  Subjects = {u1}
  SubjectOf <- Subject
  Workers = {w1, w2}
  MaxCalls = 1
  Ceiling = 1
  Answers = {"ok", "unpriced", "throttled", "server_error"}
  Prices = {1}
  Invoices = {1}
  BreakerFailures = 1
  MaxFence = 3
  Legacy = {}
  Imported = Imported
  None = None
  Episodes = {e1}
  Chunks = 1
  Revisions = 1
  Price = 1
  MediaAnswers = {"ok", "broken", "unmetered", "lost"}
  Decisions = {"recover", "dependency", "skip"}
  MaxFailures = 0
  MaxGeneration = 3
  MaxLookups = 1
PROPERTIES
    LapsedWorkRecovers
    SavedReceiptIsCharged
    ReceiptsSettle
    OutcomesDecided
CHECK_DEADLOCK FALSE
