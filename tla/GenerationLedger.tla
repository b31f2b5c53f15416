--------------------------- MODULE GenerationLedger ---------------------------
(***************************************************************************)
(* The durable ledger of paid writing jobs: authorization, claiming under  *)
(* a lease and a fence, admission of each provider call, receipts, owner   *)
(* decisions about uncertain calls and publication of the result           *)
(* (api/app/services/generation: commands, gateway, worker, artifacts,     *)
(* administration, recap_budget).                                          *)
(*                                                                         *)
(* Every transaction of the code first locks the global control row, so a  *)
(* transaction is one step here; the interleaving is between transactions  *)
(* and at every await between them.                                        *)
(*                                                                         *)
(* Abstractions.                                                           *)
(*  - A provider call is identified by job and stage; its text is left out *)
(*    (the replay of a stage sends the same request).                      *)
(*  - A lease is live or lapsed; a heartbeat only keeps it live.           *)
(*  - One series and one provider account, both with concurrency one.      *)
(*  - Gates that read state outside the ledger (actor, grant, policy,      *)
(*    capability, model, budget caps) may refuse at any time.              *)
(*  - Claiming takes any eligible job (the code takes the oldest).         *)
(*                                                                         *)
(* A definition named Faulty... is not part of the model: it is a mistake  *)
(* the code could contain, kept to check that a property notices it.       *)
(***************************************************************************)
EXTENDS Integers, FiniteSets

CONSTANTS
    Jobs,             \* identities of generation_operations rows
    Automatic,        \* the jobs whose actor_kind is "scheduler"
    Subjects,         \* content slots (ArtifactHead.subject)
    SubjectOf,        \* the subject a job is authorized for
    Workers,          \* worker processes
    MaxCalls,         \* max_calls of a job
    Ceiling,          \* max_microusd reserved for one call
    Answers,          \* kinds of answer the provider gives
    Prices,           \* amounts a priced receipt may cost
    Invoices,         \* amounts an operator may reconcile
    BreakerFailures,  \* failures that open the feature breaker
    MaxFence,         \* bound on a job's fence, for model checking
    Legacy,           \* subjects whose prose is also imported
    Imported,         \* an artifact no job wrote
    None              \* no value

Stages == 1 .. MaxCalls
Artifacts == Jobs \cup {Imported}

ASSUME ConstantsAssumption ==
    /\ MaxCalls \in Nat \ {0} /\ Ceiling \in Nat /\ MaxFence \in Nat
    /\ BreakerFailures \in Nat \ {0}
    /\ Prices \subseteq Nat /\ Invoices \subseteq Nat
    /\ Answers \subseteq {"ok", "invalid", "unpriced", "refused", "throttled",
                          "server_error"}
    /\ Automatic \subseteq Jobs /\ Legacy \subseteq Subjects
    /\ SubjectOf \in [Jobs -> Subjects]
    /\ None \notin Nat /\ None \notin Artifacts /\ Imported \notin Jobs

-----------------------------------------------------------------------------
ActiveStates == {"queued", "running", "held", "needs_attention"}
JobStates == ActiveStates \cup {"absent", "succeeded", "cancelled"}

Unresolved == {"dispatching", "unknown"}
UnresolvedOutcomes == Unresolved \cup {"abandoned"}
AttemptStates == UnresolvedOutcomes \cup {"none", "received", "rejected", "not_sent"}

(* Why a run of a job stopped, as far as what happens next depends on it.  *)
(* "none" stands for the code's empty string or NULL.                      *)
Errors == {"none", "provider_outcome_unknown", "response_invalid",
           "provider_rejected", "reservation_exceeded"}
Codes == Errors \cup {"busy", "refused", "execution_failed",
                      "attempt_allowance_exhausted", "worker_shutdown"}
AttentionCodes == {"provider_outcome_unknown", "response_invalid",
                   "provider_rejected", "attempt_allowance_exhausted",
                   "execution_failed"}

Amounts == Nat \cup {None}
Usages == {"none", "known", "unknown", "not_billed", "financially_reconciled"}

(* What the provider may answer, with the price its usage proves.          *)
Receipts ==
    [kind : Answers \cap {"ok"}, price : Prices]
        \cup [kind : Answers \cap {"invalid"}, price : {0}]
        \cup [kind : Answers \ {"ok", "invalid"}, price : {None}]

ASSUME ReceiptAssumption == None \notin Receipts

AttemptRecord == [state : AttemptStates, receipt : Receipts \cup {None},
                  settled : BOOLEAN, usage : Usages, cost : Amounts,
                  error : Errors]
NoAttempt == [state |-> "none", receipt |-> None, settled |-> FALSE,
              usage |-> "none", cost |-> None, error |-> "none"]

JobRecord == [state : JobStates, fence : Nat, live : BOOLEAN, calls : Nat,
              reason : Codes, expected : Artifacts \cup {None}]
NoJob == [state |-> "absent", fence |-> 0, live |-> FALSE, calls |-> 0,
          reason |-> "none", expected |-> None]

AllocationRecord == [phase : {"none", "reserved", "bound"}, actual : Amounts]

Holding == {"run", "send", "answered", "saved", "settled", "failed"}
WorkerRecord == [pc : Holding \cup {"idle", "reconcile"},
                 job : Jobs \cup {None}, fence : Nat, stage : Nat,
                 receipt : Receipts \cup {None}, code : Codes,
                 todo : SUBSET (Jobs \X Stages)]
IdleWorker == [pc |-> "idle", job |-> None, fence |-> 0, stage |-> 0,
               receipt |-> None, code |-> "none", todo |-> {}]

VARIABLES
    job,       \* generation_operations
    attempt,   \* provider_attempts, at most one for each stage of a job
    alloc,     \* recap_budget_allocations of those stages
    head,      \* artifact_heads: the current artifact of each subject
    hold,      \* GenerationControl.hold is set
    account,   \* ProviderAccountControl of the one account
    failures,  \* breaker counter of the one feature
    worker,    \* memory of each worker process, lost when it crashes
    sends      \* history: how often the request of each stage was submitted

vars == <<job, attempt, alloc, head, hold, account, failures, worker, sends>>

Account == [hold : {"none", "attention", "reservation_exceeded"}, cooling : BOOLEAN]

TypeOK ==
    /\ job \in [Jobs -> JobRecord]
    /\ attempt \in [Jobs -> [Stages -> AttemptRecord]]
    /\ alloc \in [Jobs -> [Stages -> AllocationRecord]]
    /\ head \in [Subjects -> Artifacts \cup {None}]
    /\ hold \in BOOLEAN
    /\ account \in Account
    /\ failures \in 0 .. BreakerFailures
    /\ worker \in [Workers -> WorkerRecord]
    /\ sends \in [Jobs -> [Stages -> Nat]]

Init ==
    /\ job = [j \in Jobs |-> NoJob]
    /\ attempt = [j \in Jobs |-> [s \in Stages |-> NoAttempt]]
    /\ alloc = [j \in Jobs |-> [s \in Stages |-> [phase |-> "none", actual |-> None]]]
    /\ head = [u \in Subjects |-> None]
    /\ hold = FALSE
    /\ account = [hold |-> "none", cooling |-> FALSE]
    /\ failures = 0
    /\ worker = [w \in Workers |-> IdleWorker]
    /\ sends = [j \in Jobs |-> [s \in Stages |-> 0]]

-----------------------------------------------------------------------------
(* What several transactions decide on.                                    *)

Some(states) == \E j \in Jobs, s \in Stages : attempt[j][s].state \in states

(* Forgets calls whose worker vanished.                                    *)
FaultyProviderReady ==
    ~hold /\ account.hold = "none" /\ ~account.cooling /\ ~Some({"dispatching"})

(* require_provider_ready: nothing uncertain is outstanding on the account. *)
ProviderReady == ~hold /\ account.hold = "none" /\ ~account.cooling /\ ~Some(Unresolved)

(* Accepts any worker that once claimed the job.                           *)
FaultyOwns(w) ==
    /\ worker[w].job \in Jobs
    /\ job[worker[w].job].state = "running" /\ job[worker[w].job].live

(* require_owner: the job still runs under the worker's fence and lease.   *)
Owns(w) ==
    LET m == worker[w] IN
    /\ m.job \in Jobs
    /\ job[m.job].state = "running" /\ job[m.job].live
    /\ job[m.job].fence = m.fence

Checkpointed(j, s) ==
    attempt[j][s].state = "received" /\ attempt[j][s].usage = "known"

(* Publishes over a disputed charge.                                       *)
FaultyAllCheckpointed(j) ==
    \A s \in Stages : attempt[j][s].state # "none" => Checkpointed(j, s)

(* Every call of the job is a paid, known, undisputed checkpoint.          *)
AllCheckpointed(j) ==
    \A s \in Stages : attempt[j][s].state # "none" =>
                        Checkpointed(j, s) /\ attempt[j][s].error = "none"

(* Overwrites a settled amount.                                            *)
FaultyCanSettle(j, s, amount) == TRUE

(* settle_allocation raises Conflict when another amount is already final. *)
CanSettle(j, s, amount) == alloc[j][s].actual \in {None, amount}

Overruns(j, s, amount) ==
    alloc[j][s].actual = None /\ amount \in Nat /\ amount > Ceiling

(* Releases the exposure of submitted calls, too.                          *)
FaultyReleased(j) ==
    [s \in Stages |-> IF alloc[j][s].phase # "none" /\ alloc[j][s].actual = None
                      THEN [alloc[j][s] EXCEPT !.actual = 0]
                      ELSE alloc[j][s]]

(* release_unsubmitted: calls never bound to an attempt cost nothing.      *)
Released(j) ==
    [s \in Stages |-> IF alloc[j][s].phase = "reserved" /\ alloc[j][s].actual = None
                      THEN [alloc[j][s] EXCEPT !.actual = 0]
                      ELSE alloc[j][s]]

Stop(w, code) ==
    worker' = [worker EXCEPT ![w] = [@ EXCEPT !.pc = "failed", !.code = code,
                                              !.receipt = None]]

Idle(w) == worker' = [worker EXCEPT ![w] = IdleWorker]

-----------------------------------------------------------------------------
(* record_receipt, second transaction: price the saved receipt and settle. *)

StateOf(r) ==
    CASE r.kind \in {"ok", "unpriced"} -> "received"
      [] r.kind = "server_error" -> "unknown"
      [] OTHER -> "rejected"

UsageOf(r) ==
    CASE r.kind = "ok" -> "known"
      [] r.kind = "invalid" -> "not_billed"
      [] OTHER -> "unknown"

(* Files a throttled call under the code of a busy provider.               *)
FaultyErrorOf(r) == IF r.kind = "throttled" THEN "busy" ELSE "provider_rejected"

ErrorOf(r) ==
    CASE r.kind = "ok" -> "none"
      [] r.kind = "unpriced" -> "response_invalid"
      [] r.kind = "server_error" -> "provider_outcome_unknown"
      [] OTHER -> "provider_rejected"

AccountAfter(j, s, r) ==
    [account EXCEPT
        !.hold = IF Overruns(j, s, r.price) THEN "reservation_exceeded"
                 ELSE IF r.kind \in {"refused", "unpriced"} THEN "attention" ELSE @,
        !.cooling = @ \/ r.kind = "throttled"]

Settled(j, s) ==
    LET r == attempt[j][s].receipt IN
    [attempt[j][s] EXCEPT
        !.state = StateOf(r), !.usage = UsageOf(r), !.cost = r.price, !.settled = TRUE,
        !.error = IF AccountAfter(j, s, r).hold = "reservation_exceeded"
                  THEN "reservation_exceeded" ELSE ErrorOf(r)]

Settle(j, s) ==
    LET r == attempt[j][s].receipt IN
    IF attempt[j][s].settled
    THEN UNCHANGED <<attempt, alloc, account>>
    ELSE /\ CanSettle(j, s, r.price)
         /\ attempt' = [attempt EXCEPT ![j][s] = Settled(j, s)]
         /\ alloc' = [alloc EXCEPT ![j][s].actual = r.price]
         /\ account' = AccountAfter(j, s, r)

-----------------------------------------------------------------------------
(* Worker.tick up to the claim.                                            *)

Saved(j, s) == attempt[j][s].receipt # None /\ ~attempt[j][s].settled

(* Overlooks the late answers of calls already given up as unknown.        *)
FaultyUnsettled ==
    {a \in Jobs \X Stages : Saved(a[1], a[2]) /\ attempt[a[1]][a[2]].state = "dispatching"}

Unsettled == {a \in Jobs \X Stages : Saved(a[1], a[2])}

(* reconcile_receipts reads the receipts a crash left unsettled ...        *)
BeginTick(w) ==
    /\ worker[w].pc = "idle"
    /\ worker' = [worker EXCEPT ![w] = [@ EXCEPT !.pc = "reconcile", !.todo = Unsettled]]
    /\ UNCHANGED <<job, attempt, alloc, head, hold, account, failures, sends>>

(* ... and settles them one transaction each;                              *)
ReconcileReceipt(w) ==
    /\ worker[w].pc = "reconcile"
    /\ \E a \in worker[w].todo :
        /\ Settle(a[1], a[2])
        /\ worker' = [worker EXCEPT ![w].todo = @ \ {a}]
    /\ UNCHANGED <<job, head, hold, failures, sends>>

(* a receipt that contradicts its allocation raises and ends the tick.     *)
ReconcileConflict(w) ==
    /\ worker[w].pc = "reconcile"
    /\ \E a \in worker[w].todo :
        /\ ~attempt[a[1]][a[2]].settled
        /\ ~CanSettle(a[1], a[2], attempt[a[1]][a[2]].receipt.price)
    /\ Idle(w)
    /\ UNCHANGED <<job, attempt, alloc, head, hold, account, failures, sends>>

(* claim_operation: give up every lapsed lease, then take one eligible job. *)
Lapsed(j) == job[j].state = "running" /\ ~job[j].live

Uncertain(j, states) == \E s \in Stages : attempt[j][s].state \in states

(* Waits for the lost worker of an uncertain call.                         *)
FaultyAfterLapse(j) ==
    IF ~Lapsed(j) \/ Uncertain(j, Unresolved) THEN job[j]
    ELSE [job[j] EXCEPT !.fence = @ + 1, !.state = "queued"]

AfterLapse(j) ==
    IF ~Lapsed(j) THEN job[j]
    ELSE IF Uncertain(j, Unresolved)
         THEN [job[j] EXCEPT !.fence = @ + 1, !.state = "needs_attention",
                             !.reason = "provider_outcome_unknown"]
         ELSE [job[j] EXCEPT !.fence = @ + 1, !.state = "queued"]

Eligible(j) ==
    /\ AfterLapse(j).state = "queued"
    /\ AfterLapse(j).fence < MaxFence
    /\ ~hold /\ account.hold = "none" /\ ~account.cooling

Claimed(j) ==
    [AfterLapse(j) EXCEPT !.state = "running", !.live = TRUE, !.fence = @ + 1]

Claim(w) ==
    /\ worker[w].pc = "reconcile" /\ worker[w].todo = {}
    /\ attempt' = [j \in Jobs |-> [s \in Stages |->
            IF Lapsed(j) /\ attempt[j][s].state \in Unresolved
            THEN [attempt[j][s] EXCEPT !.state = "unknown"] ELSE attempt[j][s]]]
    /\ \/ /\ \A j \in Jobs : ~Eligible(j)
          /\ job' = [j \in Jobs |-> AfterLapse(j)]
          /\ Idle(w)
       \/ \E k \in Jobs :
            /\ Eligible(k)
            /\ job' = [j \in Jobs |-> IF j = k THEN Claimed(k) ELSE AfterLapse(j)]
            /\ worker' = [worker EXCEPT ![w] =
                    [IdleWorker EXCEPT !.pc = "run", !.job = k,
                                       !.fence = Claimed(k).fence, !.stage = 1]]
    /\ UNCHANGED <<alloc, head, hold, account, failures, sends>>

-----------------------------------------------------------------------------
(* Gateway.invoke, called for stage 1, 2, ... by the writers.              *)

(* Every transaction of a run starts with require_owner; a worker that has *)
(* lost the job stops without writing.                                     *)
LoseOwnership(w) ==
    /\ worker[w].pc \in {"run", "settled", "failed"}
    /\ ~Owns(w)
    /\ Idle(w)
    /\ UNCHANGED <<job, attempt, alloc, head, hold, account, failures, sends>>

(* A saved stage is replayed from its receipt, never sent again.           *)
Replay(w) ==
    LET j == worker[w].job
        s == worker[w].stage IN
    /\ worker[w].pc = "run" /\ Owns(w) /\ s \in Stages
    /\ attempt[j][s].state # "none"
    /\ IF Checkpointed(j, s)
       THEN worker' = [worker EXCEPT ![w].stage = s + 1]
       ELSE Stop(w, IF attempt[j][s].error = "none" THEN "provider_outcome_unknown"
                                                ELSE attempt[j][s].error)
    /\ UNCHANGED <<job, attempt, alloc, head, hold, account, failures, sends>>

(* Retries a call the provider rejected.                                   *)
FaultyAdmissible(w) ==
    LET j == worker[w].job
        s == worker[w].stage IN
    /\ s \in Stages /\ attempt[j][s].state \in {"none", "rejected"}
    /\ ProviderReady /\ failures < BreakerFailures
    /\ s \in {job[j].calls, job[j].calls + 1}

Admissible(w) ==
    LET j == worker[w].job
        s == worker[w].stage IN
    /\ s \in Stages /\ attempt[j][s].state = "none"
    /\ ProviderReady
    /\ failures < BreakerFailures
    /\ s = job[j].calls + 1
    /\ alloc[j][s].phase # "bound" /\ alloc[j][s].actual = None

(* The gates that hold a new stage back: the account is busy or cooling or *)
(* the service drains, an approval is missing, the calls are used up. As   *)
(* the gates outside the ledger may refuse whatever the ledger says, so    *)
(* may these.                                                              *)
Refuse(w) ==
    LET j == worker[w].job
        s == worker[w].stage IN
    /\ worker[w].pc = "run" /\ Owns(w)
    /\ s \in Stages => attempt[j][s].state = "none"
    /\ \/ Stop(w, "busy")
       \/ Stop(w, "refused")
       \/ /\ s > job[j].calls
          /\ Stop(w, "attempt_allowance_exhausted")
    /\ UNCHANGED <<job, attempt, alloc, head, hold, account, failures, sends>>

(* Admission: the whole plan of the job is reserved before its first call, *)
(* the attempt and the call count are durable before anything is sent.     *)
Reserved(j, s) ==
    [t \in Stages |->
        IF t = s THEN [alloc[j][t] EXCEPT !.phase = "bound"]
        ELSE IF alloc[j][s].phase = "none" /\ t > job[j].calls
             THEN [alloc[j][t] EXCEPT !.phase = "reserved"]
             ELSE alloc[j][t]]

Dispatch(w) ==
    LET j == worker[w].job
        s == worker[w].stage IN
    /\ worker[w].pc = "run" /\ Owns(w) /\ Admissible(w)
    /\ attempt' = [attempt EXCEPT ![j][s] = [NoAttempt EXCEPT !.state = "dispatching"]]
    /\ job' = [job EXCEPT ![j].calls = @ + 1]
    /\ alloc' = [alloc EXCEPT ![j] = Reserved(j, s)]
    /\ sends' = [sends EXCEPT ![j][s] = @ + 1]
    /\ worker' = [worker EXCEPT ![w].pc = "send"]
    /\ UNCHANGED <<head, hold, account, failures>>

(* transport.send returns an answer, ...                                   *)
Answer(w) ==
    /\ worker[w].pc = "send"
    /\ \E r \in Receipts :
        worker' = [worker EXCEPT ![w] = [@ EXCEPT !.pc = "answered", !.receipt = r]]
    /\ UNCHANGED <<job, attempt, alloc, head, hold, account, failures, sends>>

(* ... or fails: the outcome is unknown, if that can be written at all.    *)
SendFails(w) ==
    LET j == worker[w].job
        s == worker[w].stage IN
    /\ worker[w].pc = "send"
    /\ \/ /\ CanSettle(j, s, attempt[j][s].cost)
          /\ attempt' = [attempt EXCEPT ![j][s] =
                [@ EXCEPT !.state = "unknown", !.error = "provider_outcome_unknown"]]
          /\ alloc' = [alloc EXCEPT ![j][s].actual = attempt[j][s].cost]
       \/ UNCHANGED <<attempt, alloc>>
    /\ Stop(w, "provider_outcome_unknown")
    /\ UNCHANGED <<job, head, hold, account, failures, sends>>

(* record_receipt, first transaction: the raw answer, before any decoding. *)
SaveReceipt(w) ==
    LET j == worker[w].job
        s == worker[w].stage IN
    /\ worker[w].pc = "answered"
    /\ attempt[j][s].receipt \in {None, worker[w].receipt}
    /\ attempt' = [attempt EXCEPT ![j][s].receipt = worker[w].receipt]
    /\ worker' = [worker EXCEPT ![w] = [@ EXCEPT !.pc = "saved", !.receipt = None]]
    /\ UNCHANGED <<job, alloc, head, hold, account, failures, sends>>

(* record_receipt, second transaction.                                     *)
SettleReceipt(w) ==
    /\ worker[w].pc = "saved"
    /\ Settle(worker[w].job, worker[w].stage)
    /\ worker' = [worker EXCEPT ![w].pc = "settled"]
    /\ UNCHANGED <<job, head, hold, failures, sends>>

(* Either transaction may fail: the call stays on record, unresolved.      *)
ReceiptNotRecorded(w) ==
    /\ worker[w].pc \in {"answered", "saved"}
    /\ Stop(w, "refused")
    /\ UNCHANGED <<job, attempt, alloc, head, hold, account, failures, sends>>

(* The third transaction: only the current owner may use the answer.       *)
UseReceipt(w) ==
    LET j == worker[w].job
        s == worker[w].stage IN
    /\ worker[w].pc = "settled" /\ Owns(w)
    /\ IF attempt[j][s].error # "none"
       THEN Stop(w, attempt[j][s].error)
       ELSE worker' = [worker EXCEPT ![w] = [@ EXCEPT !.pc = "run", !.stage = s + 1]]
    /\ UNCHANGED <<job, attempt, alloc, head, hold, account, failures, sends>>

-----------------------------------------------------------------------------
(* Worker.tick after the writers returned or raised.                       *)

(* A job leaves "running"; its lease is not read again.                    *)
Leave(j, state, code) ==
    job' = [job EXCEPT ![j] = [@ EXCEPT !.state = state, !.reason = code,
                                        !.live = FALSE]]

(* The writers raise: the saved input is unusable, or the text did not     *)
(* validate within the bounded corrections.                                *)
GenerateFails(w) ==
    /\ worker[w].pc = "run"
    /\ Stop(w, "execution_failed")
    /\ UNCHANGED <<job, attempt, alloc, head, hold, account, failures, sends>>

(* Publishes into whatever the slot holds by now.                          *)
FaultyPublishable(w) ==
    LET j == worker[w].job IN
    /\ worker[w].stage > 1 /\ worker[w].stage = job[j].calls + 1
    /\ AllCheckpointed(j)
    /\ ~hold

(* save_artifact.                                                          *)
Publishable(w) ==
    LET j == worker[w].job IN
    /\ worker[w].stage > 1 /\ worker[w].stage = job[j].calls + 1
    /\ AllCheckpointed(j)
    /\ ~hold
    /\ head[SubjectOf[j]] = job[j].expected

Publish(w) ==
    LET j == worker[w].job IN
    /\ worker[w].pc = "run" /\ Owns(w) /\ Publishable(w)
    /\ head' = [head EXCEPT ![SubjectOf[j]] = j]
    /\ Leave(j, "succeeded", job[j].reason)
    /\ alloc' = [alloc EXCEPT ![j] = Released(j)]
    /\ failures' = IF failures < BreakerFailures THEN 0 ELSE failures
    /\ Idle(w)
    /\ UNCHANGED <<attempt, hold, account, sends>>

PublishRefused(w) ==
    /\ worker[w].pc = "run" /\ worker[w].stage > 1 /\ Owns(w)
    /\ Stop(w, "refused")
    /\ UNCHANGED <<job, attempt, alloc, head, hold, account, failures, sends>>

(* Records the failure of a worker that lost the job.                      *)
FaultyHandleFailure(w) ==
    /\ worker[w].pc = "failed"
    /\ Leave(worker[w].job, "held", worker[w].code)
    /\ Idle(w)
    /\ UNCHANGED <<attempt, alloc, head, hold, account, failures, sends>>

(* The handler of whatever stopped the run.                                *)
HandleFailure(w) ==
    LET j == worker[w].job
        code == worker[w].code IN
    /\ worker[w].pc = "failed" /\ Owns(w)
    /\ Leave(j, IF code = "busy" THEN "queued"
                ELSE IF code \in AttentionCodes THEN "needs_attention" ELSE "held",
             code)
    /\ failures' = IF code \in AttentionCodes /\ failures < BreakerFailures
                   THEN failures + 1 ELSE failures
    /\ Idle(w)
    /\ UNCHANGED <<attempt, alloc, head, hold, account, sends>>

GivenUp(j) ==
    [job[j] EXCEPT !.state = "held", !.reason = "worker_shutdown",
                   !.fence = @ + 1, !.live = FALSE]

(* The service stops: tick is cancelled and gives the job up, while the    *)
(* writer thread and its gateway call run on until the process exits.      *)
Shutdown(w) ==
    /\ worker[w].pc \in Holding
    /\ job[worker[w].job].state = "running"
    /\ job[worker[w].job].fence = worker[w].fence
    /\ job' = [job EXCEPT ![worker[w].job] = GivenUp(worker[w].job)]
    /\ UNCHANGED <<attempt, alloc, head, hold, account, failures, worker, sends>>

(* The process dies; only the database survives.                           *)
Crash(w) ==
    /\ worker[w].pc # "idle"
    /\ Idle(w)
    /\ UNCHANGED <<job, attempt, alloc, head, hold, account, failures, sends>>

-----------------------------------------------------------------------------
(* Time.                                                                   *)

(* No heartbeat arrived for LEASE_SECONDS; the worker may still be alive.  *)
LeaseLapses(j) ==
    /\ job[j].state = "running" /\ job[j].live
    /\ job' = [job EXCEPT ![j].live = FALSE]
    /\ UNCHANGED <<attempt, alloc, head, hold, account, failures, worker, sends>>

CooldownEnds ==
    /\ account.cooling
    /\ account' = [account EXCEPT !.cooling = FALSE]
    /\ UNCHANGED <<job, attempt, alloc, head, hold, failures, worker, sends>>

-----------------------------------------------------------------------------
(* Owner and scheduler.                                                    *)

(* Takes a call the owner gave up for one that never happened.             *)
FaultyReplaceable(u) ==
    \A k \in Jobs : SubjectOf[k] = u =>
        job[k].state \notin ActiveStates /\ ~Uncertain(k, Unresolved)

SubjectFree(u) ==
    \A k \in Jobs : SubjectOf[k] = u =>
        job[k].state \notin ActiveStates /\ ~Uncertain(k, UnresolvedOutcomes)

(* authorize_candidate for a subject no active job works on. A job whose   *)
(* identity is still unused stands for the row it inserts.                 *)
Authorize(j) ==
    /\ job[j].state = "absent"
    /\ ProviderReady /\ SubjectFree(SubjectOf[j])
    /\ job' = [job EXCEPT ![j] =
            [NoJob EXCEPT !.state = "queued", !.expected = head[SubjectOf[j]]]]
    /\ UNCHANGED <<attempt, alloc, head, hold, account, failures, worker, sends>>

Withdrawn(j) ==
    [job[j] EXCEPT !.state = "cancelled", !.reason = "refused",
                   !.fence = @ + 1, !.live = FALSE]

(* Keeps the reservation of a cancelled job.                               *)
FaultyCancel(j) ==
    /\ job[j].state \notin {"absent", "succeeded"}
    /\ job[j].fence <= MaxFence
    /\ job' = [job EXCEPT ![j] = Withdrawn(j)]
    /\ UNCHANGED <<attempt, alloc, head, hold, account, failures, worker, sends>>

(* cancel: what was already sent stays on record.                          *)
Cancel(j) ==
    /\ job[j].state \notin {"absent", "succeeded"}
    /\ job[j].fence <= MaxFence
    /\ job' = [job EXCEPT ![j] = Withdrawn(j)]
    /\ alloc' = [alloc EXCEPT ![j] = Released(j)]
    /\ UNCHANGED <<attempt, head, hold, account, failures, worker, sends>>

(* job_action "resume".                                                    *)
ReceiptReview(j) ==
    job[j].state = "needs_attention" /\ job[j].reason = "provider_outcome_unknown"

ResumeJob(j) ==
    /\ job[j].state = "held" \/ ReceiptReview(j)
    /\ ~Uncertain(j, Unresolved)
    /\ ReceiptReview(j) \/ job[j].calls >= MaxCalls => AllCheckpointed(j)
    /\ job' = [job EXCEPT ![j] = [@ EXCEPT !.state = "queued", !.reason = "none"]]
    /\ UNCHANGED <<attempt, alloc, head, hold, account, failures, worker, sends>>

(* resolve_attempt: the owner attests that the sending worker stopped and  *)
(* gives the call up, or declares that it never went out. The attestation  *)
(* is taken as truthful about the worker; the declaration may be wrong.    *)
SenderStopped(j, s) ==
    \A w \in Workers : worker[w].job = j /\ worker[w].stage = s =>
        worker[w].pc \notin {"send", "answered", "saved"}

Decided(j, s, action) ==
    IF action = "not_sent"
    THEN [attempt[j][s] EXCEPT !.state = "not_sent", !.usage = "not_billed", !.cost = 0]
    ELSE [attempt[j][s] EXCEPT !.state = "abandoned"]

ResolveAttempt(j, s, action) ==
    LET cost == Decided(j, s, action).cost IN
    /\ attempt[j][s].state # "none"
    /\ SenderStopped(j, s)
    /\ attempt[j][s].cost = None /\ attempt[j][s].usage # "known"
    /\ job[j].fence <= MaxFence
    /\ CanSettle(j, s, cost)
    /\ attempt' = [attempt EXCEPT ![j][s] = Decided(j, s, action)]
    /\ alloc' = [alloc EXCEPT ![j] = [Released(j) EXCEPT ![s].actual = cost]]
    /\ job' = [job EXCEPT ![j] = Withdrawn(j)]
    /\ UNCHANGED <<head, hold, account, failures, worker, sends>>

(* reconcile_allocation: an invoice settles the money of one call.         *)
ReconcileAllocation(j, s, amount) ==
    /\ alloc[j][s].phase # "none"
    /\ alloc[j][s].phase = "bound" => attempt[j][s].cost \in {None, amount}
    /\ CanSettle(j, s, amount)
    /\ alloc' = [alloc EXCEPT ![j][s].actual = amount]
    /\ IF alloc[j][s].phase = "bound" /\ attempt[j][s].cost = None
       THEN attempt' = [attempt EXCEPT ![j][s] =
                [@ EXCEPT !.cost = amount, !.usage = "financially_reconciled"]]
       ELSE UNCHANGED attempt
    /\ IF ~Overruns(j, s, amount) THEN UNCHANGED <<account, hold>>
       ELSE IF alloc[j][s].phase = "bound"
            THEN account' = [account EXCEPT !.hold = "reservation_exceeded"]
                 /\ UNCHANGED hold
            ELSE hold' = TRUE /\ UNCHANGED account
    /\ UNCHANGED <<job, head, failures, worker, sends>>

(* control_action "pause".                                                  *)
Pause ==
    /\ hold' = TRUE
    /\ UNCHANGED <<job, attempt, alloc, head, account, failures, worker, sends>>

(* hold_backlog: what the scheduler queued before waits for a review.       *)
HoldBacklog ==
    job' = [j \in Jobs |->
            IF j \in Automatic /\ job[j].state = "queued"
            THEN [job[j] EXCEPT !.state = "held", !.reason = "refused"] ELSE job[j]]

(* control_action "resume", and update_policy unpausing a feature.          *)
ResumeControl ==
    /\ hold' = FALSE
    /\ HoldBacklog
    /\ UNCHANGED <<attempt, alloc, head, account, failures, worker, sends>>

ResumePolicy ==
    /\ HoldBacklog
    /\ UNCHANGED <<attempt, alloc, head, hold, account, failures, worker, sends>>

(* control_action "reset_breaker"                                          *)
ResetBreaker ==
    /\ failures' = 0
    /\ UNCHANGED <<job, attempt, alloc, head, hold, account, worker, sends>>

ResetProvider ==
    /\ ~Some(UnresolvedOutcomes)
    /\ account' = [hold |-> "none", cooling |-> FALSE]
    /\ UNCHANGED <<job, attempt, alloc, head, hold, failures, worker, sends>>

(* import_artifact: newer saved prose arrives from outside the ledger.     *)
ImportArtifact(u) ==
    /\ head[u] # Imported
    /\ head' = [head EXCEPT ![u] = Imported]
    /\ UNCHANGED <<job, attempt, alloc, hold, account, failures, worker, sends>>

-----------------------------------------------------------------------------
WorkerStep(w) ==
    \/ BeginTick(w) \/ ReconcileReceipt(w) \/ ReconcileConflict(w) \/ Claim(w)
    \/ LoseOwnership(w) \/ Replay(w) \/ Refuse(w) \/ Dispatch(w)
    \/ Answer(w) \/ SendFails(w)
    \/ SaveReceipt(w) \/ SettleReceipt(w) \/ ReceiptNotRecorded(w) \/ UseReceipt(w)
    \/ GenerateFails(w) \/ Publish(w) \/ PublishRefused(w) \/ HandleFailure(w)

OwnerStep ==
    \/ \E j \in Jobs : Authorize(j) \/ Cancel(j) \/ ResumeJob(j)
    \/ \E j \in Jobs, s \in Stages :
        \/ \E action \in {"abandon_unknown", "not_sent"} : ResolveAttempt(j, s, action)
        \/ \E amount \in Invoices : ReconcileAllocation(j, s, amount)
    \/ Pause \/ ResumeControl \/ ResumePolicy \/ ResetBreaker \/ ResetProvider
    \/ \E u \in Legacy : ImportArtifact(u)

Next ==
    \/ \E w \in Workers : WorkerStep(w) \/ Shutdown(w) \/ Crash(w)
    \/ \E j \in Jobs : LeaseLapses(j)
    \/ CooldownEnds
    \/ OwnerStep

Spec == Init /\ [][Next]_vars

-----------------------------------------------------------------------------
(* Safety.                                                                 *)

(* Gateway.invoke: no crash, lapsed lease, resumed job or owner decision   *)
(* ever makes the request of a stage go out a second time.                 *)
NoResend == \A j \in Jobs, s \in Stages : sends[j][s] <= 1

(* claim_operation and require_owner: whatever became of earlier workers,  *)
(* at most one of them can still advance a job.                            *)
ExclusiveOwner ==
    \A v, w \in Workers :
        v # w /\ Owns(v) /\ Owns(w) => worker[v].job # worker[w].job

(* active_attempts: a request whose worker is still waiting for the answer *)
(* is the only one on the provider account, even after its lease lapsed or *)
(* its job was cancelled.                                                  *)
OneInFlight ==
    \A v, w \in Workers : worker[v].pc = "send" /\ worker[w].pc = "send" => v = w

(* A call that went out and whose fate no answer has decided.              *)
Undecided(j) ==
    \E s \in Stages :
        LET a == attempt[j][s] IN
        a.state \in UnresolvedOutcomes /\ (a.settled => StateOf(a.receipt) = "unknown")

(* authorize_candidate, cancel and resolve_attempt: a job with an          *)
(* undecided call, or still active, excludes every other active job for    *)
(* the same content; giving the call up does not authorize a replacement.  *)
NoBlindReplacement ==
    \A j, k \in Jobs :
        /\ j # k /\ SubjectOf[j] = SubjectOf[k]
        /\ job[j].state \in ActiveStates \/ Undecided(j)
        => job[k].state \notin ActiveStates

(* save_artifact: a published job rests on nothing but answered, priced,   *)
(* undisputed calls, each of them charged, and keeps no money reserved.    *)
PublishedIsPaidInFull ==
    \A j \in Jobs : job[j].state = "succeeded" =>
        /\ job[j].calls > 0
        /\ \A s \in 1 .. job[j].calls :
            /\ Checkpointed(j, s) /\ attempt[j][s].error = "none"
            /\ attempt[j][s].receipt.price = alloc[j][s].actual
        /\ \A s \in Stages : alloc[j][s].phase # "none" => alloc[j][s].actual # None

(* bind_dispatch_allocation, settle_attempt, reconcile_allocation: calls   *)
(* and allocations tell the same story about money; in particular the      *)
(* exposure of a call with an unknown price is never released.             *)
LedgerAgrees ==
    \A j \in Jobs, s \in Stages :
        /\ attempt[j][s].state # "none" <=> alloc[j][s].phase = "bound"
        /\ alloc[j][s].phase = "bound" => attempt[j][s].cost = alloc[j][s].actual

(* finish, cancel, resolve_attempt: a job that can never send again keeps  *)
(* no reservation that would eat the budget of others.                     *)
NoStrandedReserve ==
    \A j \in Jobs, s \in Stages :
        job[j].state \in {"succeeded", "cancelled"} /\ alloc[j][s].phase = "reserved"
            => alloc[j][s].actual # None

(* The plan, the calls and the publication of a job tell one story about   *)
(* money, through crashes, late receipts, invoices and withdrawals.        *)
MoneySound == LedgerAgrees /\ NoStrandedReserve /\ PublishedIsPaidInFull

(* record_receipt: "A late response settles accounting regardless of       *)
(* worker ownership": no saved answer is ever refused by its allocation.   *)
LateReceiptSettles ==
    \A j \in Jobs, s \in Stages :
        Saved(j, s) => CanSettle(j, s, attempt[j][s].receipt.price)

(* What a step may never do.                                               *)

(* save_artifact with expected_artifact: while a job is active, its slot   *)
(* holds what the job was authorized to replace, or an import that         *)
(* overtook it. A job once overtaken stays so, whatever is imported,       *)
(* retried or decided later, and never puts its older text on top.         *)
SlotHeld ==
    \A j \in Jobs : job[j].state \in ActiveStates =>
        head[SubjectOf[j]] \in {job[j].expected, Imported}

Overtaken(j) ==
    job[j].state \in ActiveStates /\ head[SubjectOf[j]] # job[j].expected

StaysOvertaken ==
    \A j \in Jobs : Overtaken(j) =>
        /\ job'[j].state # "succeeded"
        /\ job'[j].state \in ActiveStates => Overtaken(j)'

OnlyImportOvertakes == []SlotHeld /\ [][StaysOvertaken]_vars

(* cancel, finish, tick's handlers: nothing that arrives late brings a     *)
(* finished or cancelled job back, or lets it start another call.          *)
TerminalIsFinal ==
    [][\A j \in Jobs : job[j].state \in {"succeeded", "cancelled"} =>
            job'[j].state = job[j].state /\ job'[j].calls = job[j].calls]_vars

(* settle_allocation: the amount charged for a call is final; receipts,    *)
(* owner decisions and invoices in any order never charge it twice.        *)
MoneyIsFinal ==
    [][\A j \in Jobs, s \in Stages : alloc[j][s].actual # None =>
            alloc'[j][s].actual = alloc[j][s].actual]_vars

-----------------------------------------------------------------------------
(* Liveness. A worker process keeps ticking while it runs and is restarted *)
(* when it stops; it may crash for ever, but not always in the same place. *)

FairSpec ==
    /\ Spec
    /\ \A w \in Workers : /\ WF_vars(WorkerStep(w))
                          /\ SF_vars(ReconcileReceipt(w))
                          /\ SF_vars(Claim(w))

(* claim_operation: a job whose worker vanished does not stay "running".   *)
LapsedWorkRecovers ==
    []LateReceiptSettles => \A j \in Jobs : Lapsed(j) ~> ~Lapsed(j)

(* reconcile_receipts: the answer of a paid call, once saved, is priced    *)
(* and charged, whatever happens to the worker that received it.           *)
SavedReceiptIsCharged ==
    []LateReceiptSettles => \A j \in Jobs : \A s \in Stages :
        attempt[j][s].receipt # None ~> attempt[j][s].settled

-----------------------------------------------------------------------------
(* The ledger keeps the promise of PaidWriting: each stage of a job is a   *)
(* call, and its price is final when its allocation is settled.            *)
OutcomeOf(state) ==
    CASE state = "succeeded" -> "delivered"
      [] state = "cancelled" -> "dropped"
      [] OTHER -> "open"

Outcomes == [j \in Jobs |-> OutcomeOf(job[j].state)]
Charges == [j \in Jobs |-> [s \in Stages |-> alloc[j][s].actual]]

Promise == INSTANCE PaidWriting WITH
    Works <- Jobs, Calls <- Stages, NoPrice <- None,
    outcome <- Outcomes, sent <- sends, charge <- Charges

(* No interleaving of workers, crashes, lapsed leases, late receipts and   *)
(* owner decisions buys a call twice or after its work was closed, changes *)
(* a final price, or delivers work that is not fully charged.              *)
ImplementsPromise == Promise!Spec
===============================================================================
