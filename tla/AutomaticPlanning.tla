-------------------------- MODULE AutomaticPlanning --------------------------
(***************************************************************************)
(* How free imports become paid writing on their own: weeks of results are *)
(* observed until they are stable and then admitted, weeks and trades are  *)
(* collected as candidates, and a worker authorizes the eligible ones.     *)
(* Pauses stop this, and what piled up meanwhile waits for the owner.      *)
(*                                                                         *)
(* One series whose owner is a member of its Yahoo league.  An import      *)
(* observes weeks and collects candidates in transactions of their own; a  *)
(* worker reads the candidates and verifies the owner's Yahoo grant before *)
(* it takes the control lock to authorize them.                            *)
(*                                                                         *)
(* Simplifications.  The facts of a week are a version, 0 while they are   *)
(* incomplete or fail a check.  One pause stands for those of the app, the *)
(* profile, the series and the feature.  Of a job this module keeps what   *)
(* decides whether it may be authorized and taken; its calls and its lease *)
(* are the GenerationLedger's, progress of a film and the correction of    *)
(* published weeks are MediaStages' and Publication's.  The minute by      *)
(* which an unfit candidate is put off is shorter than the unit of time.   *)
(***************************************************************************)
EXTENDS Integers, Sequences, FiniteSetsExt

CONSTANTS Weeks,      \* their numbers
          Trades,
          Release,    \* when a week may be written about
          Stable,     \* how long facts must stay the same
          MaxAge,     \* the age up to which a trade is news
          MaxFacts, MaxTime, MaxConnections, MaxCommands, MaxObservations  \* bounds

PlanningAssumption ==
  /\ Weeks \subseteq Nat \ {0} /\ Trades \cap Weeks = {}
  /\ Release \in [Weeks -> Nat \ {0}]
  /\ {Stable, MaxAge, MaxFacts, MaxConnections, MaxCommands, MaxObservations} \subseteq Nat
  /\ MaxTime \in Nat \ {0}

Subjects == Weeks \cup Trades

VARIABLES clock,
          facts,      \* the facts the provider has of each week
          traded,     \* when each trade was made, 0 before
          latestWeek, \* the latest week the registry knows
          paused,     \* the control or a policy stops writing
          mode,       \* whether writing is automatic
          series,     \* the time and week after which events are new
          episode,    \* what was observed of each week
          candidate,  \* what was collected of each subject
          job,        \* the latest job of each subject
          automatic,  \* the subjects that were authorized automatically
          connection, \* the owner's Yahoo connection
          renewed,    \* the candidates and connection a worker verified
          commands,   \* pauses, resumes and changes of mode so far
          seen,       \* every observation of a week
          backlog     \* what was collected when writing was last resumed,
                      \* without what was bought or approved since

inputs == <<facts, traded>>
controls == <<latestWeek, paused, mode, series, connection, commands>>
history == <<seen, backlog>>
planningVars == <<clock, inputs, controls, episode, candidate, job, automatic, renewed, history>>

NoJob == [state |-> "none", by |-> "", facts |-> 0, connection |-> 0]
Unknown == [known |-> FALSE, hold |-> "", eligible |-> 0, event |-> 0, facts |-> 0]

Init ==
  /\ clock = 1
  /\ facts = [w \in Weeks |-> 0] /\ traded = [t \in Trades |-> 0]
  /\ latestWeek = 0 /\ paused = FALSE /\ mode \in {"manual", "automatic"}
  /\ series = [activated |-> 1, week |-> 0]
  /\ episode = [w \in Weeks |-> [facts |-> 0, latest |-> 0, since |-> 0, admitted |-> 0,
                                 ready |-> FALSE, hold |-> ""]]
  /\ candidate = [c \in Subjects |-> Unknown]
  /\ job = [c \in Subjects |-> NoJob]
  /\ automatic = {} /\ renewed = {} /\ connection = 1 /\ commands = 0
  /\ seen = [w \in Weeks |-> <<>>] /\ backlog = {}

-----------------------------------------------------------------------------
(* Observations (recap_video/readiness.py).                                *)

\* evaluate_readiness of an observation made at the time now.
Evaluated(w, latest, since, previous, now) ==
  IF latest = 0 THEN "incomplete"
  ELSE IF since = 0 \/ previous # latest \/ now - since < Stable THEN "facts_unstable"
  ELSE IF now < Release[w] THEN "release_not_due"
  ELSE "ready"

\* _authority_reason: admission never stands for a permission.
Authority(asAutomatic) ==
  IF paused THEN "paused"
  ELSE IF asAutomatic /\ mode # "automatic" THEN "manual_approval_required"
  ELSE ""

\* _admission_reason
Admission(w, asAutomatic) ==
  IF Authority(asAutomatic) # "" THEN Authority(asAutomatic)
  ELSE IF w < latestWeek \/ w <= series.week \/ Release[w] <= series.activated
       THEN "historical_approval_required"
  ELSE ""

\* Observation times start again with every other or incomplete observation.
StableSince(e, f) ==
  IF f = 0 THEN 0 ELSE IF e.since # 0 /\ e.latest = f THEN e.since ELSE clock

(* observe_period *)
Observe(w) ==
  LET e == episode[w]
      f == facts[w]
      code == Evaluated(w, f, e.since, e.latest, clock)
      admission == IF e.admitted # 0 THEN Authority(FALSE) ELSE Admission(w, TRUE)
  IN
  /\ Len(seen[w]) < MaxObservations
  /\ episode' = [episode EXCEPT ![w] =
       [facts |-> IF f = 0 THEN e.facts ELSE f,
        latest |-> f,
        since |-> StableSince(e, f),
        admitted |-> IF code = "ready" /\ admission = "" /\ e.admitted = 0 THEN clock ELSE e.admitted,
        ready |-> code = "ready" /\ admission = "",
        hold |-> IF f = 0 THEN code
                 ELSE IF admission # "" THEN admission
                 ELSE IF code = "ready" THEN "" ELSE code]]
  /\ seen' = [seen EXCEPT ![w] = Append(@, [at |-> clock, facts |-> f])]
  /\ UNCHANGED <<clock, inputs, controls, candidate, job, automatic, renewed, backlog>>

\* source_ready: what was observed was stable then, whoever may approve it.
SourceReady(w) ==
  /\ episode[w].since # 0
  /\ \E k \in DOMAIN seen[w] :
       /\ k = Len(seen[w])
       /\ Evaluated(w, episode[w].latest, episode[w].since, episode[w].latest, seen[w][k].at) = "ready"

\* require_readiness: why a text on facts f of the week may not be written.
Readiness(w, f, asAutomatic) ==
  LET e == episode[w] IN
  IF Authority(asAutomatic) # "" THEN Authority(asAutomatic)
  ELSE IF e.admitted # 0 /\ e.hold \in {"", "facts_unstable"} /\ f # 0 /\ f = e.latest THEN ""
  ELSE IF e.hold # "" THEN e.hold
  ELSE IF ~e.ready \/ e.admitted = 0 THEN "not_ready"
  ELSE IF f # e.facts THEN "facts_changed"
  ELSE ""

-----------------------------------------------------------------------------
(* Candidates (planner.py).                                                *)

Historical(c, event) ==
  event <= series.activated \/ (c \in Weeks /\ c <= series.week)

\* observe: the time of an event stays that of its first collection.
Collected(c, event, f) ==
  LET old == candidate[c]
      at == IF old.known THEN old.event ELSE event
      hold == IF job[c].state = "held" THEN "subject_needs_attention"
              ELSE IF Historical(c, at) THEN "historical_approval_required" ELSE ""
  IN [known |-> TRUE, hold |-> hold, event |-> at, facts |-> f,
      eligible |-> IF hold = "" THEN clock ELSE old.eligible]

\* An edition of the week's results is there once it was ready.
Written(w) ==
  candidate[w].known \/ episode[w].ready \/ (episode[w].hold = "manual_approval_required" /\ SourceReady(w))
Bound(w) ==
  IF (episode[w].ready \/ episode[w].hold = "manual_approval_required") /\ SourceReady(w)
  THEN episode[w].facts ELSE 0

\* collect_analyst: the readiness of a week decides over its hold.
CollectedWeek(w) ==
  LET row == Collected(w, IF episode[w].admitted # 0 THEN episode[w].admitted ELSE clock, Bound(w))
      reason == Readiness(w, row.facts, FALSE)
  IN IF reason # "" THEN [row EXCEPT !.hold = reason]
     ELSE IF row.hold = "historical_approval_required" THEN [row EXCEPT !.hold = ""]
     ELSE row

CollectWeeks ==
  /\ \E w \in Weeks : Written(w)
  /\ candidate' = [c \in Subjects |->
       IF c \in Weeks /\ Written(c) THEN CollectedWeek(c) ELSE candidate[c]]
  /\ UNCHANGED <<clock, inputs, controls, episode, job, automatic, renewed, history>>

\* collect: the registry learns of the latest week, and trades come along.
Collect ==
  /\ latestWeek' = Max({w \in Weeks : facts[w] # 0} \cup {latestWeek})
  /\ candidate' = [c \in Subjects |->
       IF c \in Trades /\ traded[c] # 0 THEN Collected(c, traded[c], 1)
       ELSE IF c \in Weeks /\ Written(c) THEN CollectedWeek(c)
       ELSE candidate[c]]
  /\ UNCHANGED <<clock, inputs, paused, mode, series, connection, commands,
                 episode, job, automatic, renewed, history>>

-----------------------------------------------------------------------------
(* Automatic authorization (worker.py, yahoo_authorization.py).            *)

Completed(c) == job[c].state = "succeeded"

\* automatic_eligibility: an admitted week stays usable.
AutomaticReason(c) ==
  IF c \in Weeks THEN Readiness(c, candidate[c].facts, TRUE)
  ELSE IF candidate[c].event <= series.activated \/ candidate[c].event < clock - MaxAge
       THEN "historical_approval_required"
  ELSE ""

\* automatic_candidates
Eligible(c) ==
  /\ candidate[c].known /\ candidate[c].hold = "" /\ candidate[c].eligible \in 1 .. clock
  /\ ~Completed(c)
  /\ ~paused /\ mode = "automatic"
  /\ AutomaticReason(c) = ""
  /\ c \notin automatic

Proof(c) == [subject |-> c, facts |-> candidate[c].facts, connection |-> connection]

\* The pass begins: grants are renewed outside the lock.
Renew ==
  /\ renewed' = {Proof(c) : c \in {s \in Subjects : Eligible(s)}}
  /\ renewed' # renewed
  /\ UNCHANGED <<clock, inputs, controls, episode, candidate, job, automatic, history>>

\* Yahoo refuses: the candidate is held, when it is still what was read.
RenewFails(c) ==
  /\ Eligible(c)
  /\ candidate' = [candidate EXCEPT ![c].hold = "yahoo_authorization_unavailable", ![c].eligible = 0]
  /\ UNCHANGED <<clock, inputs, controls, episode, job, automatic, renewed, history>>

Pending(c) == job[c].state \in {"queued", "running", "held"}

\* authorize_candidate; an existing job for the same facts is the answer.
Authorizable(c) == Pending(c) => job[c].facts = candidate[c].facts

\* The pass ends: every candidate is read again under the lock.  Some are
\* refused, for the provider account, the budget or a draft without proof.
Admit(refused) ==
  LET admitted == {c \in Subjects \ refused : Eligible(c) /\ Proof(c) \in renewed /\ Authorizable(c)}
      bought == {c \in admitted : ~Pending(c)}
  IN
  /\ renewed # {}
  /\ job' = [c \in Subjects |->
       IF c \in bought THEN [state |-> "queued", by |-> "scheduler", facts |-> candidate[c].facts,
                             connection |-> connection]
       ELSE job[c]]
  /\ automatic' = automatic \cup bought
  /\ candidate' = [c \in Subjects |->
       IF c \in admitted \/ (candidate[c].hold = "" /\ (Completed(c) \/ c \in automatic))
       THEN [candidate[c] EXCEPT !.eligible = 0] ELSE candidate[c]]
  /\ renewed' = {}
  /\ backlog' = backlog \ bought
  /\ UNCHANGED <<clock, inputs, controls, episode, seen>>

-----------------------------------------------------------------------------
(* SubjectJobs.                                                                   *)

Take(c) ==
  /\ job[c].state = "queued" /\ ~paused
  /\ job' = [job EXCEPT ![c].state = "running"]
  /\ UNCHANGED <<clock, inputs, controls, episode, candidate, automatic, renewed, history>>

\* Every stage asks again whether it may go on.
Permitted(c) ==
  /\ ~paused /\ job[c].connection = connection
  /\ c \in Weeks => Readiness(c, job[c].facts, job[c].by = "scheduler") = ""
  /\ job[c].by = "scheduler" => mode = "automatic"

Work(c) ==
  /\ job[c].state = "running"
  /\ job' = [job EXCEPT ![c].state = IF Permitted(c) THEN "succeeded" ELSE "held"]
  /\ UNCHANGED <<clock, inputs, controls, episode, candidate, automatic, renewed, history>>

Cancel(c) ==
  /\ Pending(c)
  /\ job' = [job EXCEPT ![c].state = "cancelled"]
  /\ UNCHANGED <<clock, inputs, controls, episode, candidate, automatic, renewed, history>>

\* job_action: the owner has looked at a held job.
ResumeJob(c) ==
  /\ job[c].state = "held"
  /\ job' = [job EXCEPT ![c].state = "queued"]
  /\ backlog' = backlog \ {c}
  /\ UNCHANGED <<clock, inputs, controls, episode, candidate, automatic, renewed, seen>>

\* apply_campaign: the owner approves what was collected, which may admit a week.
Approve(c) ==
  /\ candidate[c].known /\ ~Pending(c) /\ ~Completed(c)
  /\ candidate[c].hold \in {"", "historical_approval_required", "manual_approval_required"}
  /\ ~paused
  /\ c \in Weeks =>
       \/ Readiness(c, candidate[c].facts, FALSE) = ""
       \/ /\ episode[c].admitted = 0 /\ SourceReady(c) /\ candidate[c].facts = episode[c].facts
          /\ Admission(c, FALSE) = ""
  /\ job' = [job EXCEPT ![c] = [state |-> "queued", by |-> "admin", facts |-> candidate[c].facts,
                                connection |-> connection]]
  /\ episode' = IF c \in Weeks /\ episode[c].admitted = 0
                THEN [episode EXCEPT ![c].admitted = clock, ![c].ready = TRUE, ![c].hold = ""]
                ELSE episode
  /\ backlog' = backlog \ {c}
  /\ UNCHANGED <<clock, inputs, controls, candidate, automatic, renewed, seen>>

-----------------------------------------------------------------------------
(* Pauses (administration.py).                                             *)

(* A fault: jobs that were already authorized are not held.                *)
FaultyBacklogJobs == job

BacklogJobs ==
  [c \in Subjects |-> IF job[c].state = "queued" /\ job[c].by = "scheduler"
                      THEN [job[c] EXCEPT !.state = "held"] ELSE job[c]]

\* hold_backlog: resuming does not authorize what accumulated.
HoldBacklog ==
  /\ series' = [activated |-> clock, week |-> latestWeek]
  /\ candidate' = [c \in Subjects |->
       IF candidate[c].known /\ candidate[c].hold = ""
       THEN [candidate[c] EXCEPT !.hold = "historical_approval_required", !.eligible = 0]
       ELSE candidate[c]]
  /\ job' = BacklogJobs
  /\ backlog' = {c \in Subjects : candidate[c].known}

Command ==
  /\ commands < MaxCommands
  /\ commands' = commands + 1
  /\ UNCHANGED <<clock, inputs, latestWeek, connection, episode, automatic, renewed, seen>>

Pause ==
  /\ ~paused /\ paused' = TRUE
  /\ UNCHANGED <<mode, series, candidate, job, backlog>>
  /\ Command

\* control_action or update_policy
Resume ==
  /\ paused /\ paused' = FALSE
  /\ HoldBacklog
  /\ UNCHANGED mode
  /\ Command

\* update_policy: writing becomes automatic, which is a resumption too.
SaveMode(new) ==
  /\ new # mode /\ mode' = new
  /\ IF new = "automatic" THEN HoldBacklog ELSE UNCHANGED <<series, candidate, job, backlog>>
  /\ UNCHANGED paused
  /\ Command

-----------------------------------------------------------------------------
(* The world.                                                              *)

NewFacts(w) ==
  /\ \A v \in Weeks : v < w => facts[v] # 0
  /\ \E f \in (0 .. MaxFacts) \ {facts[w]} : facts' = [facts EXCEPT ![w] = f]
  /\ UNCHANGED <<clock, traded, controls, episode, candidate, job, automatic, renewed, history>>

Trade(t) ==
  /\ traded[t] = 0
  /\ traded' = [traded EXCEPT ![t] = clock]
  /\ UNCHANGED <<clock, facts, controls, episode, candidate, job, automatic, renewed, history>>

Reconnect ==
  /\ connection < MaxConnections
  /\ connection' = connection + 1
  /\ UNCHANGED <<clock, inputs, latestWeek, paused, mode, series, commands,
                 episode, candidate, job, automatic, renewed, history>>

Tick ==
  /\ clock < MaxTime
  /\ clock' = clock + 1
  /\ UNCHANGED <<inputs, controls, episode, candidate, job, automatic, renewed, history>>

Next ==
  \/ \E w \in Weeks : Observe(w) \/ NewFacts(w)
  \/ \E t \in Trades : Trade(t)
  \/ CollectWeeks \/ Collect
  \/ Renew \/ \E refused \in SUBSET Subjects : Admit(refused)
  \/ \E c \in Subjects : RenewFails(c) \/ Take(c) \/ Work(c) \/ Cancel(c) \/ ResumeJob(c) \/ Approve(c)
  \/ Pause \/ Resume \/ \E new \in {"manual", "automatic"} : SaveMode(new)
  \/ Reconnect \/ Tick

Spec == Init /\ [][Next]_planningVars

-----------------------------------------------------------------------------
(* Properties.                                                             *)

WeekHolds == {"", "incomplete", "facts_unstable", "release_not_due", "paused",
              "manual_approval_required", "historical_approval_required"}
CandidateHolds == WeekHolds \cup {"not_ready", "facts_changed", "subject_needs_attention",
                                  "yahoo_authorization_unavailable"}
Episodes == [facts : Nat, latest : Nat, since : Nat, admitted : Nat, ready : BOOLEAN,
             hold : WeekHolds]
Candidates == [known : BOOLEAN, hold : CandidateHolds, eligible : Nat, event : Nat, facts : Nat]
SubjectJobs == [state : {"none", "queued", "running", "held", "succeeded", "cancelled"},
                by : {"", "scheduler", "admin"}, facts : Nat, connection : Nat]
Observations == [at : Nat, facts : Nat]

TypeOK ==
  /\ clock \in 1 .. MaxTime
  /\ facts \in [Weeks -> 0 .. MaxFacts] /\ traded \in [Trades -> 0 .. clock]
  /\ mode \in {"manual", "automatic"} /\ paused \in BOOLEAN
  /\ series.activated \in 1 .. clock /\ connection \in Nat
  /\ episode \in [Weeks -> Episodes] /\ candidate \in [Subjects -> Candidates]
  /\ job \in [Subjects -> SubjectJobs] /\ seen \in [Weeks -> Seq(Observations)]
  /\ automatic \subseteq Subjects /\ backlog \subseteq Subjects

\* Facts that were all that was observed for as long as they must be stable.
Settled(w, f) ==
  \E i, k \in DOMAIN seen[w] :
    /\ i <= k /\ seen[w][k].at - seen[w][i].at >= Stable
    /\ \A n \in i .. k : seen[w][n].facts = f

Bought(c) == c \in automatic' \ automatic
Started(c) == job[c].by = "scheduler" /\ job[c].state = "queued" /\ job'[c].state = "running"

(* What is bought on its own is news: a week is bought on facts that were  *)
(* settled once and were observed last, on the connection that was         *)
(* verified for these very facts, once for ever; and nothing that had been *)
(* collected when writing was resumed is bought or started without the     *)
(* owner, unless it is a week that was admitted before.                    *)
BuysOnlyNews ==
  \A c \in Subjects :
    /\ Bought(c) =>
         /\ ~paused /\ mode = "automatic"
         /\ Proof(c) \in renewed
         /\ c \in Weeks => /\ Settled(c, candidate[c].facts)
                           /\ seen[c][Len(seen[c])].facts = candidate[c].facts
    /\ Started(c) => c \notin backlog
    /\ (Bought(c) /\ c \in backlog) =>
         c \in Weeks /\ episode[c].admitted \in 1 .. series.activated

OnlyNewsIsBought == [][BuysOnlyNews]_planningVars

(* Activation and resumption never authorize a backlog: nothing that had   *)
(* been collected then is bought without the owner.                        *)
ResumeNeverBuys ==
  [][\A c \in Subjects : Bought(c) => c \notin backlog]_planningVars

-----------------------------------------------------------------------------
(* Why only news is bought: the inductive invariant.                       *)

\* What is kept of a week is what was observed last, since the first of the
\* observations that agree with it, and a week that is ready was admitted.
Observed(w) ==
  LET e == episode[w]
      n == Len(seen[w])
  IN
  /\ e.latest = IF n = 0 THEN 0 ELSE seen[w][n].facts
  /\ e.latest # 0 => e.facts = e.latest
  /\ e.since # 0 => \E i \in 1 .. n : /\ seen[w][i].at = e.since
                                      /\ \A m \in i .. n : seen[w][m].facts = e.latest
  /\ e.ready => e.latest # 0 /\ e.admitted # 0
  /\ e.admitted <= clock
  /\ \A m \in 1 .. n : seen[w][m].at <= clock

\* A week is collected when it may be written about, on settled facts, and a
\* trade when it was made.
WeekCollected(w) ==
  /\ candidate[w].facts # 0 => Settled(w, candidate[w].facts)
  /\ candidate[w].known => episode[w].admitted # 0 \/ Release[w] <= clock

TradeCollected(t) == candidate[t].known => candidate[t].event \in 1 .. clock

\* What had been collected when writing was resumed stays as old as it was.
Waits(c) ==
  /\ candidate[c].known
  /\ ~(job[c].by = "scheduler" /\ job[c].state = "queued")
  /\ c \in Weeks => \/ episode[c].admitted \in 1 .. series.activated
                    \/ episode[c].admitted = 0 /\ Release[c] <= series.activated
  /\ c \in Trades => candidate[c].event <= series.activated

PlanningInvariant ==
  /\ TypeOK
  /\ \A w \in Weeks : Observed(w) /\ WeekCollected(w)
  /\ \A t \in Trades : TradeCollected(t)
  /\ \A c \in backlog : Waits(c)
=============================================================================
