----------------------------- MODULE RefreshQueue -----------------------------
(***************************************************************************)
(* The imports of league data: members and the scheduler ask for them,     *)
(* workers take them from one queue under leases, and Yahoo, results that  *)
(* are not complete, crashes, shutdowns and the owner put them off or stop *)
(* them.                                                                   *)
(*                                                                         *)
(* Every action but Crash is one transaction under the control lock.  A    *)
(* worker keeps the job and the generation it took, and the rest of what   *)
(* it does is fenced by them.                                              *)
(*                                                                         *)
(* Simplifications.  What an import collects and writes is left out, and   *)
(* so are paid jobs (GenerationLedger), which share the queue but never    *)
(* wait for an import.  A reconnected account has its grants renewed.      *)
(* Leases of jobs nobody runs and retry times that have come mean nothing, *)
(* and are kept as 0; so are marks of a wait that was broken off.          *)
(***************************************************************************)
EXTENDS Integers, Sequences, FiniteSetsExt

CONSTANTS Leagues,
          Yahoo,            \* the leagues of Yahoo
          Members, Workers,
          Requested,        \* what is asked for: the league, the kind, by whom
          Keys, NoKey,      \* the idempotency keys of requests
          Interval,         \* how long a finished import answers requests
          PolicyInterval,   \* the same for the scheduler's data imports
          Lease,
          Delays,           \* how long the n-th retry waits
          MaxWait,          \* how long incomplete results are waited for
          MaxJobs, MaxTime, MaxChanges, MaxGeneration  \* bounds

Kinds == {"refresh", "analyst_refresh"}

RefreshQueueAssumption ==
  /\ Yahoo \subseteq Leagues /\ NoKey \notin Keys
  /\ Requested \subseteq {r \in [league : Leagues, kind : Kinds, by : {"member", "scheduler"}] :
                           r.by = "member" => r.kind = "refresh"}
  /\ {Interval, PolicyInterval, Lease, MaxWait, MaxJobs, MaxTime, MaxChanges, MaxGeneration} \subseteq Nat
  /\ Lease > 0 /\ Delays \in Seq(Nat \ {0}) /\ Delays # <<>>

VARIABLES jobs,         \* the imports, the oldest first
          answers,      \* the requests remembered under a key
          running,      \* the job and generation each worker took
          accounts,     \* the Yahoo connection of each member
          memberships,  \* who is a member of which league
          clock,
          changes,      \* changes of accounts and memberships so far
          told          \* when Yahoo asked to be left alone until, and in which job

refreshVars == <<jobs, answers, running, accounts, memberships, clock, changes, told>>

Active == {"queued", "running", "held", "needs_attention"}
Idle == [job |-> 0, generation |-> 0]

Init ==
  /\ jobs = <<>> /\ answers = {} /\ told = {}
  /\ running = [w \in Workers |-> Idle]
  /\ accounts = [m \in Members |-> [generation |-> 1, connected |-> TRUE]]
  /\ memberships = Leagues \X Members
  /\ clock = 0 /\ changes = 0

-----------------------------------------------------------------------------
(* Requests.                                                               *)

Imports(league, kind) == {j \in DOMAIN jobs : jobs[j].league = league /\ jobs[j].kind = kind}

\* A prior answer to the same key is returned as it is, or conflicts.
Answered(actor, key) == \E a \in answers : a.actor = actor /\ a.key = key

Remember(actor, key, j) ==
  answers' = IF key = NoKey THEN answers ELSE answers \cup {[actor |-> actor, key |-> key, job |-> j]}

Connection(league, actor) == IF league \in Yahoo THEN accounts[actor].generation ELSE 0

New(league, kind, actor, by) ==
  [league |-> league, kind |-> kind, actor |-> actor, by |-> by, created |-> clock,
   connection |-> Connection(league, actor), state |-> "queued", reason |-> "",
   generation |-> 1, lease |-> 0, next |-> 0, retries |-> 0, since |-> 0, waiting |-> FALSE]

Recent(j, kind, by) ==
  clock - jobs[j].created < IF by = "scheduler" /\ kind = "refresh" THEN PolicyInterval ELSE Interval

\* The last import answers for a while, but not for data that is gone, and
\* a member need not wait for one that was cancelled.
Joins(j, kind, by, missing) ==
  /\ Recent(j, kind, by)
  /\ ~(missing /\ jobs[j].state = "succeeded")
  /\ ~(by = "member" /\ jobs[j].state = "cancelled")

UnderWay(league, kind) == {j \in Imports(league, kind) : jobs[j].state \in Active}

(***************************************************************************)
(* submit_refresh.  The route lets in members whose Yahoo account is       *)
(* connected; the scheduler picks such a member.                           *)
(***************************************************************************)
Submit(league, kind, actor, by, key, missing) ==
  LET all == Imports(league, kind) IN
  /\ <<league, actor>> \in memberships
  /\ league \in Yahoo => accounts[actor].connected
  /\ ~Answered(actor, key)
  /\ \/ /\ UnderWay(league, kind) # {}
        /\ Remember(actor, key, Max(UnderWay(league, kind)))
        /\ UNCHANGED jobs
     \/ /\ UnderWay(league, kind) = {}
        /\ all # {} /\ Joins(Max(all), kind, by, missing)
        /\ Remember(actor, key, Max(all))
        /\ UNCHANGED jobs
     \/ /\ UnderWay(league, kind) = {}
        /\ all # {} => ~Joins(Max(all), kind, by, missing)
        /\ Len(jobs) < MaxJobs
        /\ jobs' = Append(jobs, New(league, kind, actor, by))
        /\ Remember(actor, key, Len(jobs'))
  /\ UNCHANGED <<running, accounts, memberships, clock, changes, told>>

-----------------------------------------------------------------------------
(* Workers.                                                                *)

\* require_actor: still a member, on the connection the request was made with.
Permitted(j) ==
  LET job == jobs[j] IN
  /\ <<job.league, job.actor>> \in memberships
  /\ job.league \in Yahoo => /\ accounts[job.actor].connected
                             /\ accounts[job.actor].generation = job.connection

\* require_owner
Owns(w) ==
  LET j == running[w].job IN
  /\ running[w] # Idle
  /\ jobs[j].state = "running" /\ jobs[j].lease > clock
  /\ jobs[j].generation = running[w].generation

\* A lease that ran out puts its job back in the queue.
Expired(job) == job.state = "running" /\ job.lease <= clock
Recovered == [j \in DOMAIN jobs |->
  IF Expired(jobs[j]) THEN [jobs[j] EXCEPT !.generation = @ + 1, !.state = "queued", !.lease = 0] ELSE jobs[j]]

(* A fault: only the job that Yahoo turned away waits.                     *)
FaultyCoolingDown == FALSE

\* Yahoo may mean the whole application: no other import goes to it either.
CoolingDown ==
  \E j \in DOMAIN jobs : /\ jobs[j].reason = "yahoo_rate_limited" /\ jobs[j].league \in Yahoo
                         /\ jobs[j].next > clock

\* One import runs at a time.
Claimable(queue) ==
  {j \in DOMAIN queue : /\ queue[j].state = "queued" /\ queue[j].next <= clock
                        /\ queue[j].league \in Yahoo => ~CoolingDown
                        /\ \A k \in DOMAIN queue : queue[k].state # "running"}

\* claim_operation, which also commits when there is nothing to take.
Claim(w) ==
  /\ running[w] = Idle
  /\ \/ /\ Claimable(Recovered) = {}
        /\ Recovered # jobs
        /\ jobs' = Recovered
        /\ UNCHANGED running
     \/ /\ Claimable(Recovered) # {}
        /\ LET j == Min(Claimable(Recovered)) IN
           /\ jobs[j].generation < MaxGeneration
           /\ jobs' = [Recovered EXCEPT ![j].state = "running", ![j].generation = @ + 1,
                                        ![j].lease = clock + Lease, ![j].next = 0]
           /\ running' = [running EXCEPT ![w] = [job |-> j, generation |-> jobs'[j].generation]]
  /\ UNCHANGED <<answers, accounts, memberships, clock, changes, told>>

Heartbeat(w) ==
  /\ Owns(w)
  /\ jobs' = [jobs EXCEPT ![running[w].job].lease = clock + Lease]
  /\ UNCHANGED <<answers, running, accounts, memberships, clock, changes, told>>

\* What a worker that still owns its job records when it ends.
Ends(w, job) ==
  /\ Owns(w)
  /\ jobs' = [jobs EXCEPT ![running[w].job] = [job EXCEPT !.lease = 0]]
  /\ running' = [running EXCEPT ![w] = Idle]
  /\ UNCHANGED <<answers, accounts, memberships, clock, changes>>

Job(w) == jobs[running[w].job]

Finish(w) ==
  /\ running[w] # Idle /\ Permitted(running[w].job)
  /\ Ends(w, [Job(w) EXCEPT !.state = "succeeded"])
  /\ UNCHANGED told

\* The member left, or the account changed.
NotPermitted(w) ==
  /\ running[w] # Idle /\ ~Permitted(running[w].job)
  /\ Ends(w, [Job(w) EXCEPT !.state = "held", !.reason = "provider_grant_changed"])
  /\ UNCHANGED told

Fail(w) ==
  /\ running[w] # Idle
  /\ Ends(w, [Job(w) EXCEPT !.state = "needs_attention", !.reason = "execution_failed"])
  /\ UNCHANGED told

Delay(n) == Delays[Min({n, Len(Delays)})]

\* defer_refresh: Yahoo asked for a pause, which is at least the backoff.
Throttled(w, retryAfter) ==
  LET until == clock + Max({Delay(Job(w).retries + 1), retryAfter}) IN
  /\ running[w] # Idle /\ Job(w).league \in Yahoo
  /\ Ends(w, [Job(w) EXCEPT !.state = "queued", !.reason = "yahoo_rate_limited",
                            !.retries = Min({@ + 1, Len(Delays)}), !.next = until,
                            !.since = 0, !.waiting = FALSE])
  /\ told' = told \cup {[job |-> running[w].job, until |-> until]}

\* defer_results: the free import comes back until it has waited MaxWait.
NotReady(w) ==
  LET since == IF Job(w).waiting THEN Job(w).since ELSE clock
      expired == clock - since >= MaxWait
  IN
  /\ running[w] # Idle /\ Job(w).kind = "analyst_refresh"
  /\ Ends(w, [Job(w) EXCEPT !.state = IF expired THEN "needs_attention" ELSE "queued",
                            !.reason = "results_not_ready",
                            !.retries = Min({@ + 1, Len(Delays)}),
                            !.next = IF expired THEN 0 ELSE clock + Delay(Job(w).retries + 1),
                            !.since = since, !.waiting = TRUE])
  /\ UNCHANGED told

\* A worker whose job was taken from it ends and records nothing.
Lost(w) ==
  /\ running[w] # Idle /\ ~Owns(w)
  /\ running' = [running EXCEPT ![w] = Idle]
  /\ UNCHANGED <<jobs, answers, accounts, memberships, clock, changes, told>>

\* A shutdown is recorded even when the lease has run out.
Shutdown(w) ==
  /\ running[w] # Idle
  /\ jobs' = IF Job(w).state = "running" /\ Job(w).generation = running[w].generation
             THEN [jobs EXCEPT ![running[w].job] =
                     [Job(w) EXCEPT !.state = "held", !.reason = "worker_shutdown",
                                    !.generation = @ + 1, !.lease = 0]]
             ELSE jobs
  /\ running' = [running EXCEPT ![w] = Idle]
  /\ UNCHANGED <<answers, accounts, memberships, clock, changes, told>>

Crash(w) ==
  /\ running[w] # Idle
  /\ running' = [running EXCEPT ![w] = Idle]
  /\ UNCHANGED <<jobs, answers, accounts, memberships, clock, changes, told>>

-----------------------------------------------------------------------------
(* The owner, the members, the clock.                                      *)

Cancel(j) ==
  /\ jobs[j].state \in Active
  /\ jobs' = [jobs EXCEPT ![j].state = "cancelled", ![j].reason = "owner_cancelled",
                          ![j].generation = @ + 1, ![j].lease = 0, ![j].next = 0]
  /\ UNCHANGED <<answers, running, accounts, memberships, clock, changes, told>>

\* job_action: a held import, or one that failed.
Resume(j) ==
  /\ \/ jobs[j].state = "held"
     \/ jobs[j].state = "needs_attention" /\ jobs[j].reason = "execution_failed"
  /\ Permitted(j)
  /\ jobs' = [jobs EXCEPT ![j].state = "queued", ![j].reason = "", ![j].since = 0, ![j].waiting = FALSE]
  /\ UNCHANGED <<answers, running, accounts, memberships, clock, changes, told>>

Reconnect(m) ==
  /\ changes < MaxChanges /\ changes' = changes + 1
  /\ accounts' = [accounts EXCEPT ![m] = [generation |-> @.generation + 1, connected |-> TRUE]]
  /\ UNCHANGED <<jobs, answers, running, memberships, clock, told>>

Disconnect(m) ==
  /\ changes < MaxChanges /\ changes' = changes + 1
  /\ accounts[m].connected
  /\ accounts' = [accounts EXCEPT ![m].connected = FALSE]
  /\ UNCHANGED <<jobs, answers, running, memberships, clock, told>>

Leave(league, m) ==
  /\ changes < MaxChanges /\ changes' = changes + 1
  /\ <<league, m>> \in memberships
  /\ memberships' = memberships \ {<<league, m>>}
  /\ UNCHANGED <<jobs, answers, running, accounts, clock, told>>

Tick ==
  /\ clock < MaxTime
  /\ clock' = clock + 1
  /\ told' = {t \in told : t.until > clock'}
  /\ UNCHANGED <<jobs, answers, running, accounts, memberships, changes>>

Next ==
  \/ \E r \in Requested, actor \in Members :
       \/ /\ r.by = "member"
          /\ \E missing \in BOOLEAN, key \in Keys \cup {NoKey} :
               Submit(r.league, r.kind, actor, r.by, key, missing)
       \/ /\ r.by = "scheduler"
          /\ Submit(r.league, r.kind, actor, r.by, NoKey, FALSE)
  \/ \E w \in Workers : \/ Claim(w) \/ Heartbeat(w) \/ Finish(w) \/ NotPermitted(w) \/ Fail(w)
                        \/ NotReady(w) \/ Lost(w) \/ Shutdown(w) \/ Crash(w)
                        \/ \E retryAfter \in {0, Max({Delays[n] : n \in DOMAIN Delays}) + 1} :
                             Throttled(w, retryAfter)
  \/ \E j \in DOMAIN jobs : Cancel(j) \/ Resume(j)
  \/ \E m \in Members : Reconnect(m) \/ Disconnect(m)
  \/ \E league \in Leagues, m \in Members : Leave(league, m)
  \/ Tick

Spec == Init /\ [][Next]_refreshVars

-----------------------------------------------------------------------------
(* Properties.                                                             *)

JobStates == Active \cup {"succeeded", "cancelled"}
JobReasons == {"", "provider_grant_changed", "execution_failed", "yahoo_rate_limited",
               "results_not_ready", "worker_shutdown", "owner_cancelled"}
ImportJobs == [league : Leagues, kind : Kinds, actor : Members, by : {"member", "scheduler"},
               created : Nat, connection : Nat, state : JobStates, reason : JobReasons,
               generation : Nat \ {0}, lease : Nat, next : Nat, retries : 0 .. Len(Delays),
               since : Nat, waiting : BOOLEAN]

TypeOK ==
  /\ jobs \in Seq(ImportJobs)
  /\ answers \subseteq [actor : Members, key : Keys, job : DOMAIN jobs]
  /\ running \in [Workers -> [job : DOMAIN jobs \cup {0}, generation : Nat]]
  /\ accounts \in [Members -> [generation : Nat, connected : BOOLEAN]]
  /\ memberships \subseteq Leagues \X Members
  /\ clock \in 0 .. MaxTime
  /\ told \subseteq [job : DOMAIN jobs, until : Nat]

\* One import of a league and kind is under way.
OneUnderWay ==
  \A i, j \in DOMAIN jobs :
    /\ jobs[i].league = jobs[j].league /\ jobs[i].kind = jobs[j].kind
    /\ jobs[i].state \in Active /\ jobs[j].state \in Active
    => i = j

\* Nobody waits for Yahoo, but for an import that the owner cancelled.
Quiet == \A t \in told : t.until <= clock \/ jobs[t.job].state = "cancelled"

\* An import ends well for a member who may see the league on the connection
\* of the request, and starts when it may.
InTurn(j) ==
  /\ jobs[j].state # "succeeded" /\ jobs'[j].state = "succeeded" =>
       /\ <<jobs[j].league, jobs[j].actor>> \in memberships
       /\ jobs[j].connection = Connection(jobs[j].league, jobs[j].actor)
  /\ jobs[j].state # "running" /\ jobs'[j].state = "running" /\ jobs[j].league \in Yahoo =>
       Quiet

(* Imports come one at a time: of one league and kind at most one is       *)
(* under way, of several workers, some of them with leases that ran out,   *)
(* at most one owns a job, and the one that finishes is still asked for    *)
(* on the connection its member had from the request on.  No import of     *)
(* Yahoo starts while Yahoo asked for a pause, unless the owner cancelled  *)
(* the import that was told so.                                            *)
TakesTurns ==
  /\ OneUnderWay'
  /\ \A v, w \in Workers : Owns(v)' /\ Owns(w)' => v = w
  /\ \A j \in DOMAIN jobs : InTurn(j)

ImportsInTurn == [][TakesTurns]_refreshVars

-----------------------------------------------------------------------------
(* Why imports come one at a time: the inductive invariant.                *)

\* One import runs of all.
OneRuns ==
  \A i, j \in DOMAIN jobs : jobs[i].state = "running" /\ jobs[j].state = "running" => i = j

\* Of the workers that took a job each has a generation of its own, and what
\* is done to the job afterwards makes it older than the job.
Fenced(w) ==
  running[w] # Idle =>
    /\ running[w].job # 0
    /\ running[w].generation <= jobs[running[w].job].generation
    /\ \A v \in Workers \ {w} :
         running[v].job = running[w].job => running[v].generation # running[w].generation

\* Who is told to leave Yahoo alone waits for it, unless the owner cancels.
LeftAlone(t) ==
  LET job == jobs[t.job] IN
  t.until > clock =>
    \/ job.state = "cancelled"
    \/ /\ job.state = "queued" /\ job.reason = "yahoo_rate_limited"
       /\ job.league \in Yahoo /\ job.next >= t.until

QueueInvariant ==
  /\ TypeOK /\ OneUnderWay /\ OneRuns
  /\ \A j \in DOMAIN jobs : jobs[j].league \notin Yahoo => jobs[j].connection = 0
  /\ \A w \in Workers : Fenced(w)
  /\ \A t \in told : LeftAlone(t)
=============================================================================
