----------------------------- MODULE MCOperations -----------------------------
(* Small instances of the modules beside the ledger and the media, one of  *)
(* them in a behaviour: the part is chosen once, the others stand still.   *)
(* Some have two scenarios, which start in the same state and have the     *)
(* same properties.                                                        *)
EXTENDS RecapWatchdog, Sequences, FiniteSets

CONSTANTS Plans, RequestedPlans, FilmPlans, ArticlePlans, PaidEpisodes,    \* of the budgets
          Calls, Plan, Most, Charges, Operation, Episode, Category, Provider, Allowance,
          NoCall, Early, Defaults, CapChoices, AppCaps, LocalMonth, AppMonth, MaxSaves,
          Leagues, YahooLeagues, Members, Workers, ImportRequests,         \* of the imports
          RequestKeys, NoKey, Interval, PolicyInterval, ImportLease, Delays,
          MaxWait, MaxJobs, MaxChanges, MaxImportGeneration, ImportEnd,
          Weeks, Trades, ReleaseTimes, Stable, MaxAge, MaxFacts,            \* of the planning
          MaxConnections, MaxCommands, MaxObservations, PlanEnd,
          Jobs, MaxEpoch, MaxRevision, MaxArticle, MaxRestores,              \* of the restore
          MaxTakes, Frames, Runs, Grace, FailedAge, Expiry, StoreEnd,        \* of the retention
          Requests, Listed, Accounts, Joined, Lifetime, MaxStarts, YahooEnd, \* of Yahoo
          Replicas, Owners, Hour, Lease, CollectTime, MailLease, Retry, Window,  \* of the monitor
          Memory, Stall, MaxGeneration, MaxRelease, MonitorEnd

VARIABLES part,
          allocations, plans, caps, appCap, holds, today, saves,
          jobs, answers, running, accounts, memberships, changes, told, queueTime,
          facts, traded, latestWeek, paused, mode, series, episode, candidate,
          job, automatic, connection, renewed, commands, seen, backlog, planTime,
          config, evidence, database, active, backup, truth, sent,
          stage, stored, storedAt, assets, published, deletion, listed, point,
          bucket, uploader, storeTime,
          starts, cancelled, pending, link, generations, grants, lock, requests,
          membership, heard, opened, yahooTime,
          work, owner, row, alerts, replicas, resumed, accepted, mailed, monitorTime

-------------------------------------------------------------------------------
(* A script with an allowance for its narration, the film made from it and *)
(* a retake; an article of another episode; work the owner pays for.       *)
Budget == INSTANCE RecapBudget WITH Requested <- RequestedPlans, Episodes <- PaidEpisodes

PlanOf == [script |-> "script", allowance |-> "script", film |-> "film",
           retake |-> "retake", article |-> "article", managed |-> "managed"]
PaidCalls == DOMAIN PlanOf
MostOf == [c \in PaidCalls |-> IF c = "article" THEN 2 ELSE 1]
ChargesOf == [c \in PaidCalls |->
                CASE c = "article" -> {2, 3} [] c = "film" -> {1, 2}
                  [] c = "allowance" -> {} [] OTHER -> {1}]
EpisodeOf == [p \in Plans |->
                CASE p = "article" -> "e2" [] p = "managed" -> "m" [] OTHER -> "e1"]
CategoryOf == [p \in Plans |->
                 CASE p = "article" -> "written" [] p = "managed" -> "managed"
                   [] OTHER -> "video"]
ProviderOf == [p \in Plans |-> IF p \in {"film", "retake"} THEN "elevenlabs" ELSE "anthropic"]
AllowanceOf == [p \in Plans |-> IF p = "film" THEN "allowance" ELSE "none"]
CapsOf(episode_cap, month_cap) ==
    [video_episode |-> episode_cap, video_month |-> episode_cap,
     combined_episode |-> episode_cap, combined_month |-> month_cap]
FirstCaps == CapsOf(3, 4)
SomeCaps == {FirstCaps, CapsOf(2, 3)}
LateMonth == <<1, 1, 2>>
EarlyMonth == <<1, 2, 2>>

Films == Budget!Next /\ plans' \subseteq FilmPlans /\ saves' = 0
Articles == Budget!Next /\ plans' \subseteq ArticlePlans

-------------------------------------------------------------------------------
(* The scheduler imports two Yahoo leagues, or a member asks for one of    *)
(* them while its results are due.                                         *)
Queue == INSTANCE RefreshQueue WITH
    clock <- queueTime, Yahoo <- YahooLeagues, Keys <- RequestKeys, Requested <- ImportRequests,
    Lease <- ImportLease, MaxTime <- ImportEnd, MaxGeneration <- MaxImportGeneration

Scheduled == {[league |-> l, kind |-> "refresh", by |-> "scheduler"] : l \in Leagues}
Asked ==
    LET l == CHOOSE l \in Leagues : TRUE IN
    {[league |-> l, kind |-> "refresh", by |-> "member"],
     [league |-> l, kind |-> "analyst_refresh", by |-> "scheduler"]}
SomeRequests == Scheduled \cup Asked
OneThenTwo == <<1, 2>>

Of(requested) ==
    \A n \in DOMAIN jobs' : LET j == jobs'[n] IN
        [league |-> j.league, kind |-> j.kind, by |-> j.by] \in requested
Schedules ==
    /\ Queue!Next /\ Of(Scheduled) /\ <<answers, changes>>' = <<answers, changes>>
    /\ \A n \in DOMAIN jobs' : jobs'[n].generation <= 3
Asks == Queue!Next /\ Of(Asked) /\ \A n \in DOMAIN jobs' : jobs'[n].generation <= 2

-------------------------------------------------------------------------------
(* A week whose facts change, or a trade and a connection that do.         *)
Planning == INSTANCE AutomaticPlanning WITH
    clock <- planTime, Release <- ReleaseTimes, MaxTime <- PlanEnd

FirstRelease == [w \in Weeks |-> 2]

WeekPlanned == Planning!Next /\ <<traded, connection>>' = <<traded, connection>>
TradePlanned == Planning!Next /\ <<facts, seen>>' = <<facts, seen>>

-------------------------------------------------------------------------------
(* A database restored from a backup.  This instance and the next two are  *)
(* of the modules with the proofs, so that OperationsProofs may cite them. *)
Restores == INSTANCE GenerationRestoreProofs

(* A picture, and a video made from it.                                    *)
Retention == INSTANCE MediaRetentionProofs WITH
    now <- storeTime, at <- storedAt, MaxTime <- StoreEnd

(* Two requests of a user of two accounts, one of which is in the league.  *)
Yahoo == INSTANCE YahooConnectionProofs WITH
    clock <- yahooTime, connection <- link, Leagues <- Listed, MaxTime <- YahooEnd

OneJoined == [a \in Accounts |-> IF a = CHOOSE any \in Accounts : TRUE THEN Listed ELSE {}]

-------------------------------------------------------------------------------
(* Two replicas mail an owner, who may move, about work that is blocked,   *)
(* in wake-ups that are short; or resume work that is held, which fails    *)
(* again, in ones that may outlast their lease.                            *)
Monitor == INSTANCE RecapMonitor WITH
    clock <- monitorTime, Collect <- CollectTime, ProviderWindow <- Memory,
    MaxTime <- MonitorEnd

First == CHOOSE r \in Replicas : TRUE
At(r, places) == replicas'[r].at \in places
Helps ==
    /\ Monitor!Next
    /\ work'.generation = 0 /\ work'.state # "running"
    /\ row'.seen["source"] = Monitor!Unseen
    /\ work.state = "held" => \A r \in Replicas : At(r, {"asleep"})
    /\ owner' # owner =>
         /\ owner = CHOOSE o \in Owners : TRUE
         /\ alerts["blocked"] # Monitor!NoAlert /\ replicas[First].release = 1
    /\ \A r \in Replicas :
          /\ r # First => ~At(r, {"collects"})
          /\ ~At(r, {"asleep"}) => monitorTime' <= replicas'[r].now + 1
          /\ replicas[r].at \in {"collects", "reports"} => ~At(r, {"asleep"})
          /\ replicas'[r].release > replicas[r].release =>
               /\ r = First /\ owner = CHOOSE o \in Owners : TRUE
               /\ alerts["blocked"].state = "sending"
Heals ==
    /\ Monitor!Next
    /\ owner' = owner /\ work'.state # "blocked"
    /\ \A r \in Replicas :
          /\ replicas[First].at = "asleep" /\ replicas[r].at = "asleep" =>
               r = First \/ At(r, {"asleep"})
          /\ ~At(r, {"sends"}) /\ replicas'[r].release = 1
          /\ replicas[r].at = "asleep" => ~At(r, {"mails"})
          /\ replicas[r].at = "mails" => At(r, {"asleep"})

ASSUME InstancesAssumption ==
    /\ Budget!BudgetAssumption /\ Queue!RefreshQueueAssumption /\ Planning!PlanningAssumption
    /\ Restores!RestoreAssumption /\ Retention!RetentionAssumption
    /\ Yahoo!YahooAssumption
    /\ Monitor!MonitorAssumption

(* Bounds.  A week the operator commands has facts that did not change to  *)
(* their second value yet, and fewer than three observations.  The second  *)
(* restore comes after sharing was revoked and little else changed; a      *)
(* snapshot holds few authorities, and a corrected article one token.      *)
Few ==
    /\ part = "week" =>
         \/ commands = 0
         \/ \A w \in Weeks : /\ facts[w] # 2 /\ Len(seen[w]) < 3
                            /\ \A n \in DOMAIN seen[w] : seen[w][n].facts # 2
    /\ part = "restores" =>
         /\ config.restores = 2 => /\ truth.article = 1 /\ truth.token = 1 /\ ~truth.withdrawn
                                    /\ ~truth.allowed
         /\ config.restores < 2 => config.epoch < 3
         /\ backup # Restores!Empty => backup.row.authority < 3
         /\ truth.article = 2 => truth.token = 1

-------------------------------------------------------------------------------
budgetVars == <<allocations, plans, caps, appCap, holds, today, saves>>
queueVars == <<jobs, answers, running, accounts, memberships, changes, told, queueTime>>
planningVars == <<facts, traded, latestWeek, paused, mode, series, episode, candidate,
                  job, automatic, connection, renewed, commands, seen, backlog, planTime>>
restoreVars == <<config, evidence, database, active, backup, truth, sent>>
retentionVars == <<stage, stored, storedAt, assets, published, deletion, listed,
                   point, bucket, uploader, storeTime>>
yahooVars == <<starts, cancelled, pending, link, generations, grants, lock, requests,
               membership, heard, opened, yahooTime>>
monitorVars == <<work, owner, row, alerts, replicas, resumed, accepted, mailed, monitorTime>>

Parts == {"watchdog", "films", "articles", "scheduled", "asked", "week", "trade",
          "restores", "retention", "yahoo", "helps", "heals"}

(* What is not looked at is left out of the states.                        *)
NoBudget ==
    /\ allocations = 0 /\ plans = 0 /\ caps = 0 /\ appCap = 0 /\ holds = 0 /\ today = 0 /\ saves = 0
NoQueue ==
    /\ jobs = 0 /\ answers = 0 /\ running = 0 /\ accounts = 0 /\ memberships = 0 /\ changes = 0
    /\ told = 0 /\ queueTime = 0
NoPlanning ==
    /\ facts = 0 /\ traded = 0 /\ latestWeek = 0 /\ paused = 0 /\ mode = 0 /\ series = 0
    /\ episode = 0 /\ candidate = 0 /\ job = 0 /\ automatic = 0 /\ connection = 0 /\ renewed = 0
    /\ commands = 0 /\ seen = 0 /\ backlog = 0 /\ planTime = 0
NoRestore ==
    /\ config = 0 /\ evidence = 0 /\ database = 0 /\ active = 0 /\ backup = 0 /\ truth = 0
    /\ sent = 0
NoRetention ==
    /\ stage = 0 /\ stored = 0 /\ storedAt = 0 /\ assets = 0 /\ published = 0 /\ deletion = 0
    /\ listed = 0 /\ point = 0 /\ bucket = 0 /\ uploader = 0 /\ storeTime = 0
NoYahoo ==
    /\ starts = 0 /\ cancelled = 0 /\ pending = 0 /\ link = 0 /\ generations = 0 /\ grants = 0
    /\ lock = 0 /\ requests = 0 /\ membership = 0 /\ heard = 0 /\ opened = 0 /\ yahooTime = 0
NoMonitor ==
    /\ work = 0 /\ owner = 0 /\ row = 0 /\ alerts = 0 /\ replicas = 0 /\ resumed = 0
    /\ accepted = 0 /\ mailed = 0 /\ monitorTime = 0

Budgeting == part \in {"films", "articles"}
Importing == part \in {"scheduled", "asked"}
Collecting == part \in {"week", "trade"}
Restoring == part = "restores"
Storing == part = "retention"
Connecting == part = "yahoo"
Monitoring == part \in {"helps", "heals"}

PartInit ==
    /\ part \in Parts /\ Init
    /\ part # "watchdog" => recipient = CHOOSE a \in Addresses : TRUE
    /\ IF Budgeting THEN Budget!Init ELSE NoBudget
    /\ IF Importing THEN Queue!Init ELSE NoQueue
    /\ IF Collecting THEN Planning!Init ELSE NoPlanning
    /\ IF Restoring THEN Restores!Init ELSE NoRestore
    /\ IF Storing THEN Retention!Init ELSE NoRetention
    /\ IF Connecting THEN Yahoo!Init ELSE NoYahoo
    /\ IF Monitoring THEN Monitor!Init /\ owner = CHOOSE o \in Owners : TRUE ELSE NoMonitor

PartNext ==
    /\ UNCHANGED part
    /\ \/ /\ part = "watchdog" /\ Next
          /\ UNCHANGED <<budgetVars, queueVars, planningVars, restoreVars, retentionVars, yahooVars,
                         monitorVars>>
       \/ /\ \/ part = "films" /\ Films
             \/ part = "articles" /\ Articles
          /\ UNCHANGED <<vars, queueVars, planningVars, restoreVars, retentionVars, yahooVars,
                         monitorVars>>
       \/ /\ \/ part = "scheduled" /\ Schedules
             \/ part = "asked" /\ Asks
          /\ UNCHANGED <<vars, budgetVars, planningVars, restoreVars, retentionVars, yahooVars,
                         monitorVars>>
       \/ /\ \/ part = "week" /\ WeekPlanned
             \/ part = "trade" /\ TradePlanned
          /\ UNCHANGED <<vars, budgetVars, queueVars, restoreVars, retentionVars, yahooVars,
                         monitorVars>>
       \/ /\ part = "restores" /\ Restores!Next
          /\ UNCHANGED <<vars, budgetVars, queueVars, planningVars, retentionVars, yahooVars,
                         monitorVars>>
       \/ /\ part = "retention" /\ Retention!Next
          /\ UNCHANGED <<vars, budgetVars, queueVars, planningVars, restoreVars, yahooVars,
                         monitorVars>>
       \/ /\ part = "yahoo" /\ Yahoo!Next
          /\ UNCHANGED <<vars, budgetVars, queueVars, planningVars, restoreVars, retentionVars,
                         monitorVars>>
       \/ /\ \/ part = "helps" /\ Helps
             \/ part = "heals" /\ Heals
          /\ UNCHANGED <<vars, budgetVars, queueVars, planningVars, restoreVars, retentionVars,
                         yahooVars>>

operationsVars == <<vars, budgetVars, queueVars, planningVars, restoreVars, retentionVars,
                    yahooVars, monitorVars, part>>

PartSpec == PartInit /\ [][PartNext]_operationsVars

-------------------------------------------------------------------------------
(* The state of the part that runs has its type.                           *)
TypesOK ==
    /\ TypeOK
    /\ Budgeting => Budget!TypeOK
    /\ Importing => Queue!TypeOK
    /\ Collecting => Planning!TypeOK
    /\ Restoring => Restores!TypeOK
    /\ Storing => Retention!TypeOK
    /\ Connecting => Yahoo!TypeOK
    /\ Monitoring => Monitor!TypeOK

(* What is reserved and spent goes over a limit only after the limit was   *)
(* lowered or a provider overcharged, and is then not added to, even when  *)
(* a month ends between admission and dispatch (recap_budget.py).          *)
LimitsKept == [][Budgeting => Budget!KeepsLimits]_budgetVars

(* A league has one import of a kind under way, owned by one worker, which *)
(* finishes for a member still connected as when it was asked for, and     *)
(* none starts while Yahoo asked for a pause (generation/commands.py).     *)
ImportsInTurn == [][Importing => Queue!TakesTurns]_queueVars

(* What is bought without the owner is news: settled facts, observed last, *)
(* on a verified connection, and never what had been collected when        *)
(* writing was resumed, but for a week admitted before (planner.py).       *)
OnlyNewsIsBought == [][Collecting => Planning!BuysOnlyNews]_planningVars

(* A database restored from a backup shows, sends and executes only what   *)
(* agrees with everything that was decided and sent after the backup       *)
(* (generation/recovery.py): see GenerationRestore.                        *)
RestoreForgetsNothing == Restoring => Restores!RestoreForgetsNothing

(* A cleanup never removes an object that is registered, published, still  *)
(* worked on or named by a backup (recap_video/retention.py): see          *)
(* MediaRetention.                                                         *)
MediaIsKept == Storing => Retention!MediaIsKept

(* A user's account is connected by the newest consent only, and a league  *)
(* is opened on a fresh listing to the account that is connected, although *)
(* it was disconnected or replaced while a request talked to Yahoo         *)
(* (yahoo_connection.py): see YahooConnection.                             *)
ConnectionFollowsConsent == [][Connecting => Yahoo!FollowsConsent]_yahooVars

(* However replicas, crashes and lost answers interleave, the monitor      *)
(* mails a blocker once, and resumes held work twice at most               *)
(* (recap_monitor): see RecapMonitor.                                      *)
MonitorAsksOnce == Monitoring => Monitor!AsksOnce
===============================================================================
