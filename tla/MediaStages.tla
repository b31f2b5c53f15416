----------------------------- MODULE MediaStages -----------------------------
(***************************************************************************)
(* The media checkpoints of a recap video: every chunk of the approved     *)
(* script is narrated by a paid provider call, then the free stages check  *)
(* the speech, render and check the film. Workers lease one stage at a     *)
(* time over HTTP; the API keeps leases, attempts, receipts and budget     *)
(* (recap_video/workflow, recovery, corrections, admin_actions,            *)
(* narration_budget, routes/media_worker, media/worker).                   *)
(*                                                                         *)
(* A transaction locks the global control row and is one step; a request   *)
(* that uses two transactions is two steps. A worker that crashes, loses   *)
(* an answer or is refused forgets what it was doing (Forget).             *)
(*                                                                         *)
(* Abstractions.                                                           *)
(*  - One script for each episode, and one provider account.               *)
(*  - A lease is live or lapsed; a back-off has always passed.             *)
(*  - Gates on state kept elsewhere (actor, script head, policy, facts,    *)
(*    preflight, caps, cool-down) may refuse at any time, and a refused    *)
(*    request changes nothing.                                             *)
(*  - Assets are the bytes of the receipt that names them.                 *)
(*  - Episode lifecycle and attention rows only feed pages and are left    *)
(*    out.                                                                 *)
(* A definition named Faulty... is a mistake the code could contain, kept  *)
(* to check that a property notices it.                                    *)
(***************************************************************************)
EXTENDS Integers, FiniteSets

CONSTANTS
    Episodes,
    Chunks,        \* narration chunks of a script
    Revisions,     \* execution revisions: 1 and the approved replacements
    Workers,       \* media worker identities
    Price,         \* what a metered chunk costs, also its reserved maximum
    Invoices,      \* amounts an operator may reconcile for a chunk
    Answers,       \* what the provider may do with a request
    Decisions,     \* operator and source events that happen
    MaxFailures,   \* Len(BACKOFF): free retries before attention
    MaxGeneration, \* bound on a stage's generation, for model checking
    MaxLookups,    \* bound on recovery requests of an attempt
    None

ASSUME ConstantsAssumption ==
    /\ Chunks \in Nat \ {0} /\ Revisions \in Nat \ {0}
    /\ Price \in Nat \ {0} /\ Invoices \subseteq Nat \ {0}
    /\ Answers \subseteq {"ok", "broken", "unmetered", "unpriced", "rejected",
                          "denied", "lost"}
    /\ Decisions \subseteq {"recover", "adopt", "resume", "replace", "reassign",
                            "invoice", "reset", "skip", "dependency", "facts"}
    /\ MaxFailures \in Nat /\ MaxGeneration \in Nat /\ MaxLookups \in Nat
    /\ None \notin Nat /\ None \notin Workers
    /\ None \notin {"ok", "broken", "unmetered", "unpriced", "rejected", "denied", "lost"}
    /\ None \notin Episodes /\ None \notin Episodes \X Nat \X Nat

Last == Chunks + 3
Positions == 1 .. Last
Narrations == 1 .. Chunks
Render == Chunks + 2
Executions == 1 .. Revisions

Stages == Episodes \X Executions \X Positions
Paid == Episodes \X Executions \X Narrations

Free(c) == c[3] > Chunks
Prior(c) == <<c[1], c[2], c[3] - 1>>
RunOf(c) == {d \in Stages : d[1] = c[1] /\ d[2] = c[2]}
Of(e) == {c \in Stages : c[1] = e}

-----------------------------------------------------------------------------
StageRecord == [state : {"absent", "queued", "running", "held", "needs_attention",
                         "succeeded", "cancelled"},
                gen : Nat, live : BOOLEAN, owner : Workers \cup {None},
                failures : 0 .. MaxFailures,
                aged : BOOLEAN]  \* held as media_qualification_expired
NoStage == [state |-> "absent", gen |-> 0, live |-> FALSE, owner |-> None,
            failures |-> 0, aged |-> FALSE]
FreshStage == [NoStage EXCEPT !.state = "queued"]

(* What the provider answered: "ok" is complete, "broken" priced but       *)
(* unusable, "unmetered" usable but unpriced, "unpriced" neither; those    *)
(* name the request and its history item. "denied" is 401 or 403, "lost"   *)
(* no answer.                                                              *)
Identified == {"ok", "broken", "unmetered", "unpriced"}
Priced == {"ok", "broken"}
Receipts == Identified \cup {"rejected", "denied", "lost"}

Active == {"dispatching", "unknown"}
Unresolved == Active \cup {"abandoned"}
AttemptRecord == [state : Unresolved \cup {"none", "received", "rejected"},
                  owner : Workers \cup {None}, identified : BOOLEAN,
                  receipt : Receipts \cup {None}, settled : BOOLEAN,
                  recovered : BOOLEAN, resettled : BOOLEAN,
                  cost : Nat \cup {None},
                  error : {"none", "rejected", "unknown", "invalid"},
                  adopted : {"no", "exact", "stale"}]
NoAttempt == [state |-> "none", owner |-> None, identified |-> FALSE,
              receipt |-> None, settled |-> FALSE, recovered |-> FALSE,
              resettled |-> FALSE, cost |-> None, error |-> "none",
              adopted |-> "no"]

AllocationRecord == [phase : {"none", "reserved", "bound"}, actual : Nat \cup {None}]
NoAllocation == [phase |-> "none", actual |-> None]

LookupRecord == [state : {"none", "pending", "running", "held", "finished"},
                 id : Nat, live : BOOLEAN, owner : Workers \cup {None}]
NoLookup == [state |-> "none", id |-> 0, live |-> FALSE, owner |-> None]

WorkerRecord == [pc : {"idle", "leased", "authorized", "sent", "named", "answered",
                       "posted", "done", "looking", "found", "restored", "retrieved"},
                 at : Stages \cup {None}, gen : Nat, receipt : Receipts \cup {None}]
Idle == [pc |-> "idle", at |-> None, gen |-> 0, receipt |-> None]

VARIABLES
    stage,     \* recap_stages of each execution revision
    attempt,   \* recap_provider_attempts, at most one for each paid stage
    alloc,     \* recap_budget_allocations of the paid stages
    envelope,  \* the narration-envelope allocation made with the script
    waived,    \* the uncertain attempts a replacement was approved despite
    account,   \* ProviderAccountControl.hold
    lookup,    \* recap_recovery_requests: the latest of each attempt
    worker,    \* memory of each worker process
    sends      \* history: requests that reached the provider

vars == <<stage, attempt, alloc, envelope, waived, account, lookup, worker, sends>>

TypeOK ==
    /\ stage \in [Stages -> StageRecord]
    /\ attempt \in [Paid -> AttemptRecord]
    /\ alloc \in [Paid -> AllocationRecord]
    /\ envelope \in [Episodes -> {"reserved", "swapped", "released"}]
    /\ waived \in [Episodes \X Executions -> SUBSET Paid]
    /\ account \in {"none", "accounting", "denied", "exceeded"}
    /\ lookup \in [Paid -> LookupRecord]
    /\ worker \in [Workers -> WorkerRecord]
    /\ sends \in [Paid -> Nat]

(* start_media has bound the approved script to its chain of stages; the   *)
(* envelope was reserved before the script was written.                    *)
Init ==
    /\ stage = [c \in Stages |-> IF c[2] = 1 THEN FreshStage ELSE NoStage]
    /\ attempt = [c \in Paid |-> NoAttempt]
    /\ alloc = [c \in Paid |-> NoAllocation]
    /\ envelope = [e \in Episodes |-> "reserved"]
    /\ waived = [x \in Episodes \X Executions |-> {}]
    /\ account = "none"
    /\ lookup = [c \in Paid |-> NoLookup]
    /\ worker = [w \in Workers |-> Idle]
    /\ sends = [c \in Paid |-> 0]

-----------------------------------------------------------------------------
(* Leases.                                                                 *)

(* require_lease: the stage still runs for this worker, claim and lease.   *)
FaultyHolds(w) == worker[w].at \in Stages /\ stage[worker[w].at].owner = w
Holds(w) ==
    LET m == worker[w] IN
    /\ m.at \in Stages
    /\ stage[m.at].state = "running" /\ stage[m.at].live
    /\ stage[m.at].gen = m.gen /\ stage[m.at].owner = w

FaultyRetryFree(s) == [s EXCEPT !.state = "queued", !.failures = @ + 1, !.live = FALSE]
RetryFree(s) ==
    IF s.failures < MaxFailures
    THEN [s EXCEPT !.state = "queued", !.failures = @ + 1, !.live = FALSE]
    ELSE [s EXCEPT !.state = "needs_attention", !.live = FALSE]

Expired(c) == stage[c].state = "running" /\ ~stage[c].live
Uncertain(c) == c \in Paid /\ attempt[c].state \in Unresolved

(* _expire: free work is tried again, paid work waits for a decision.      *)
FaultyAfterExpiry(c) ==
    IF Expired(c) THEN RetryFree([stage[c] EXCEPT !.gen = @ + 1]) ELSE stage[c]
AfterExpiry(c) ==
    LET s == [stage[c] EXCEPT !.gen = @ + 1] IN
    IF ~Expired(c) THEN stage[c]
    ELSE IF Uncertain(c) THEN [s EXCEPT !.state = "needs_attention"]
    ELSE IF Free(c) THEN RetryFree(s)
    ELSE [s EXCEPT !.state = "held"]

FaultyGivenUp(lost) == attempt
GivenUp(lost) ==
    [c \in Paid |-> IF c \in lost /\ attempt[c].state = "dispatching"
                    THEN [attempt[c] EXCEPT !.state = "unknown"] ELSE attempt[c]]

RenderBusy == \E c \in Stages : /\ c[3] = Render
                                /\ stage[c].state = "running" /\ stage[c].live

FaultyEligible(c) == AfterExpiry(c).state = "queued" /\ stage[c].gen < MaxGeneration
Eligible(c) ==
    /\ AfterExpiry(c).state = "queued" /\ stage[c].gen < MaxGeneration
    /\ c[3] > 1 => AfterExpiry(Prior(c)).state = "succeeded"
    /\ c[3] = Render => ~RenderBusy

Refused(s, old) == [s EXCEPT !.state = "held", !.aged = old]

(* claim_stage: the eligible stages are tried in turn; a gate that refuses *)
(* one holds it, for good or until the next preflight. "taken" is leased.  *)
Allots(w, taken, refused, old) ==
    /\ IF taken = None THEN \A c \in Stages : Eligible(c) => c \in refused
       ELSE Eligible(taken) /\ taken \notin refused
    /\ stage' = [c \in Stages |->
            IF c = taken
            THEN [AfterExpiry(c) EXCEPT !.state = "running", !.live = TRUE,
                                        !.gen = @ + 1, !.owner = w]
            ELSE IF c \in refused THEN Refused(AfterExpiry(c), c \in old)
            ELSE AfterExpiry(c)]
    /\ worker' = IF taken = None THEN worker
                 ELSE [worker EXCEPT ![w] = [Idle EXCEPT !.pc = "leased", !.at = taken,
                                                         !.gen = stage'[taken].gen]]

(* claim_stage, from giving lapsed leases up on.                           *)
Claim(w) ==
    /\ worker[w].pc = "idle"
    /\ \E taken \in Stages \cup {None}, refused \in SUBSET {c \in Stages : Eligible(c)} :
       \E old \in SUBSET refused : Allots(w, taken, refused, old)
    /\ attempt' = GivenUp({c \in Stages : Expired(c)})
    /\ UNCHANGED <<alloc, envelope, waived, account, lookup, sends>>

(* Time passes without a heartbeat.                                        *)
Lapse(c) ==
    /\ stage[c].state = "running" /\ stage[c].live
    /\ stage' = [stage EXCEPT ![c].live = FALSE]
    /\ UNCHANGED <<attempt, alloc, envelope, waived, account, lookup, worker, sends>>

(* A crash, a lost answer, or any refusal: worker.tick starts over.        *)
Forget(w) ==
    /\ worker[w].pc # "idle"
    /\ worker' = [worker EXCEPT ![w] = Idle]
    /\ UNCHANGED <<stage, attempt, alloc, envelope, waived, account, lookup, sends>>

-----------------------------------------------------------------------------
(* complete_stage for free work: it passed, failed for now, or its result  *)
(* or its validation refused the input.                                    *)
CompleteFree(w) ==
    LET c == worker[w].at
        next == [stage[c] EXCEPT !.gen = @ + 1, !.live = FALSE] IN
    /\ worker[w].pc = "leased" /\ Holds(w) /\ Free(c)
    /\ stage' \in {[stage EXCEPT ![c] = s] :
            s \in {[stage[c] EXCEPT !.state = "succeeded", !.live = FALSE],
                   RetryFree(next), [next EXCEPT !.state = "held"]}}
    /\ worker' = [worker EXCEPT ![w] = Idle]
    /\ UNCHANGED <<attempt, alloc, envelope, waived, account, lookup, sends>>
-----------------------------------------------------------------------------
(* The paid call of a narration.                                           *)

(* adopted_audio_resolves_outcome: the one audited adoption still matches  *)
(* the attempt and its stage.                                              *)
Adopted(c) ==
    /\ attempt[c].state = "received" /\ attempt[c].cost # None
    /\ stage[c].state = "succeeded" /\ attempt[c].adopted = "exact"

OutcomeUnknown(c) ==
    \/ attempt[c].state \in Unresolved
    \/ attempt[c].state = "received" /\ attempt[c].error = "invalid" /\ ~Adopted(c)

(* _obligations of an episode that admission refuses to add to.            *)
Doubtful(c) == \/ alloc[c].phase = "bound" /\ alloc[c].actual = None
               \/ OutcomeUnknown(c)

(* replacement_dispositions: what the operator already decided about.      *)
Waived(c) ==
    {a \in waived[<<c[1], c[2]>>] :
        \/ attempt[a].state \in {"abandoned", "unknown"}
        \/ attempt[a].state = "received" /\ attempt[a].error = "invalid"}

(* require_provider_ready and the concurrency gates of dispatch.           *)
ProviderReady(known) ==
    /\ \A a \in Paid \ known : attempt[a].state \notin Active
    /\ \/ account = "none"
       \/ /\ account = "accounting" /\ known # {}
          /\ \E a \in Paid : attempt[a].state \in Unresolved
          /\ {a \in Paid : attempt[a].state \in Unresolved} \subseteq known

(* bind_chunks: the first call of a script swaps its envelope for the plan *)
(* of all its chunks; a replacement has its plan from its approval.        *)
FaultyPlanned(c) ==
    IF c[2] = 1 /\ envelope[c[1]] = "reserved" THEN [alloc EXCEPT ![c].phase = "reserved"]
    ELSE alloc
Planned(c) ==
    IF c[2] = 1 /\ envelope[c[1]] = "reserved"
    THEN [a \in Paid |-> IF a \in RunOf(c) THEN [NoAllocation EXCEPT !.phase = "reserved"]
                                           ELSE alloc[a]]
    ELSE alloc

(* authorize_dispatch: authority for one physical request.                 *)
Authorize(w) ==
    LET c == worker[w].at IN
    /\ worker[w].pc = "leased" /\ Holds(w) /\ c \in Paid
    /\ attempt[c].state = "none"
    /\ ProviderReady(Waived(c))
    /\ \A a \in Paid : a[1] = c[1] /\ Doubtful(a) => a \in Waived(c)
    /\ c[2] = 1 => envelope[c[1]] # "released"
    /\ Planned(c)[c].phase = "reserved" /\ Planned(c)[c].actual = None
    /\ attempt' = [attempt EXCEPT ![c] = [NoAttempt EXCEPT !.state = "dispatching",
                                                           !.owner = w]]
    /\ alloc' = [Planned(c) EXCEPT ![c].phase = "bound"]
    /\ envelope' = IF c[2] = 1 THEN [envelope EXCEPT ![c[1]] = "swapped"] ELSE envelope
    /\ worker' = [worker EXCEPT ![w].pc = "authorized"]
    /\ UNCHANGED <<stage, waived, account, lookup, sends>>

(* ElevenLabsTransport.send.                                               *)
FaultySend(w) ==
    /\ worker[w].pc = "authorized"
    /\ sends' = [sends EXCEPT ![worker[w].at] = @ + 1]
    /\ \E answer \in Answers :
        worker' = IF answer = "lost" THEN worker
                  ELSE [worker EXCEPT ![w] = [@ EXCEPT !.pc = "sent", !.receipt = answer]]
    /\ UNCHANGED <<stage, attempt, alloc, envelope, waived, account, lookup>>
Send(w) ==
    /\ worker[w].pc = "authorized"
    /\ sends' = [sends EXCEPT ![worker[w].at] = @ + 1]
    /\ \E answer \in Answers :
        worker' = [worker EXCEPT ![w] = [@ EXCEPT !.pc = "sent", !.receipt = answer]]
    /\ UNCHANGED <<stage, attempt, alloc, envelope, waived, account, lookup>>

(* Evidence could not be kept: the receipt says less than the answer did.  *)
Degraded(receipt) ==
    CASE receipt \in Priced -> "broken"
      [] receipt \in Identified -> "unpriced"
      [] OTHER -> receipt

Noted(a) == [a EXCEPT !.adopted = IF @ = "exact" THEN "stale" ELSE @]

Owned(w) == worker[w].at \in Paid /\ attempt[worker[w].at].owner = w

(* persist_identity, before the body of the answer is read.                *)
SaveIdentity(w) ==
    LET c == worker[w].at IN
    /\ worker[w].pc = "sent" /\ worker[w].receipt \in Identified
    /\ \/ /\ Owned(w)
          /\ attempt' = [attempt EXCEPT ![c].identified = TRUE]
          /\ worker' = [worker EXCEPT ![w].pc = "named"]
       \/ /\ worker' = [worker EXCEPT ![w].pc = "answered", ![w].receipt = Degraded(@)]
          /\ UNCHANGED attempt
    /\ UNCHANGED <<stage, alloc, envelope, waived, account, lookup, sends>>

(* The audio is uploaded under the lease, or the evidence is degraded.     *)
Upload(w) ==
    /\ \/ worker[w].pc = "named"
       \/ worker[w].pc = "sent" /\ worker[w].receipt \notin Identified
    /\ \E receipt \in {worker[w].receipt, Degraded(worker[w].receipt)} :
        /\ receipt \in {"ok", "unmetered"} => Holds(w)
        /\ worker' = [worker EXCEPT ![w] = [@ EXCEPT !.pc = "answered", !.receipt = receipt]]
    /\ UNCHANGED <<stage, attempt, alloc, envelope, waived, account, lookup, sends>>

(* persist_receipt: raw evidence is immutable once saved.                  *)
SaveReceipt(w) ==
    LET c == worker[w].at
        r == worker[w].receipt IN
    /\ worker[w].pc = "answered" /\ Owned(w)
    /\ attempt[c].receipt \in {None, r}
    /\ attempt' = [attempt EXCEPT ![c].receipt = r,
                                  ![c].identified = @ \/ r \in Identified]
    /\ worker' = [worker EXCEPT ![w].pc = "posted"]
    /\ UNCHANGED <<stage, alloc, envelope, waived, account, lookup, sends>>

-----------------------------------------------------------------------------
(* settle_receipt: every saved receipt of the attempt is priced together.  *)
Pending(a) == (a.receipt # None /\ ~a.settled) \/ (a.recovered /\ ~a.resettled)

KnownAmounts(a) ==
    ({a.cost} \cup {IF a.receipt \in Priced THEN Price ELSE None}) \ {None}

FaultyContradicted(a) == FALSE
Contradicted(a) == Cardinality(KnownAmounts(a)) > 1

Amount(a) == IF KnownAmounts(a) = {} THEN None ELSE CHOOSE m \in KnownAmounts(a) : TRUE

StateOf(a) ==
    IF a.recovered THEN IF Amount(a) = None THEN "unknown" ELSE "received"
    ELSE CASE a.receipt \in Priced -> "received"
           [] a.receipt \in {"rejected", "denied"} -> "rejected"
           [] OTHER -> "unknown"

ErrorOf(a) ==
    CASE StateOf(a) = "unknown" -> "unknown"
      [] StateOf(a) = "rejected" -> "rejected"
      [] a.recovered \/ a.receipt = "broken" -> "invalid"
      [] OTHER -> "none"

Settled(a) ==
    IF ~Pending(a) THEN a
    ELSE Noted([a EXCEPT !.state = StateOf(a), !.error = ErrorOf(a), !.cost = Amount(a),
                         !.settled = @ \/ a.receipt # None,
                         !.resettled = @ \/ a.recovered])

AccountAfter(a) ==
    CASE ~Pending(a) -> account
      [] a.receipt = "denied" /\ ~a.recovered -> "denied"
      [] Amount(a) = None -> "accounting"
      [] OTHER -> account

Settle(c) ==
    LET a == attempt[c] IN
    /\ a.receipt # None \/ a.recovered
    /\ Pending(a) => ~Contradicted(a)
    /\ attempt' = [attempt EXCEPT ![c] = Settled(a)]
    /\ alloc' = [alloc EXCEPT ![c].actual = IF Pending(a) THEN Amount(a) ELSE @]
    /\ account' = AccountAfter(a)

SettleReceipt(w) ==
    /\ worker[w].pc = "posted" /\ Owned(w)
    /\ Settle(worker[w].at)
    /\ worker' = [worker EXCEPT ![w].pc = "done"]
    /\ UNCHANGED <<stage, envelope, waived, lookup, sends>>

(* reconcile_media_receipts, in the API's own loop: what a lost request    *)
(* left unsettled is settled, or set aside when it contradicts a charge.   *)
FaultyReconcileSaved(c) ==
    /\ attempt[c].state = "dispatching" /\ Pending(attempt[c]) /\ Settle(c)
    /\ UNCHANGED <<stage, envelope, waived, lookup, worker, sends>>
ReconcileSaved(c) ==
    /\ Pending(attempt[c]) /\ Settle(c)
    /\ UNCHANGED <<stage, envelope, waived, lookup, worker, sends>>

ReconcileConflict(c) ==
    /\ Pending(attempt[c]) /\ Contradicted(attempt[c])
    /\ attempt' = [attempt EXCEPT ![c] =
            Noted([@ EXCEPT !.state = "unknown", !.error = "invalid"])]
    /\ UNCHANGED <<stage, alloc, envelope, waived, account, lookup, worker, sends>>

(* complete_stage for a narration: only a received, priced and usable      *)
(* answer under the lease that bought it selects its audio.                *)
CompleteNarration(w) ==
    LET c == worker[w].at IN
    /\ worker[w].pc = "done" /\ Holds(w)
    /\ \/ /\ worker[w].receipt \in {"ok", "unmetered"}
          /\ attempt[c].state = "received" /\ attempt[c].cost # None
          /\ attempt[c].error = "none"
          /\ stage' = [stage EXCEPT ![c] = [@ EXCEPT !.state = "succeeded", !.live = FALSE]]
       \/ /\ worker[w].receipt \notin {"ok", "unmetered"}
          /\ stage' = [stage EXCEPT ![c].state = "held", ![c].live = FALSE, ![c].gen = @ + 1]
    /\ worker' = [worker EXCEPT ![w] = Idle]
    /\ UNCHANGED <<attempt, alloc, envelope, waived, account, lookup, sends>>

-----------------------------------------------------------------------------
(* Recovery: the exact history item of a request is looked up, for free.   *)

(* enqueue_recovery after the settlement of what is already saved.         *)
Enqueued(c, a, renew) ==
    LET l == lookup[c] IN
    /\ a.state # "dispatching" /\ a.identified
    /\ IF ~renew /\ (l.state = "pending" \/ (l.state = "running" /\ l.live))
       THEN UNCHANGED lookup
       ELSE /\ l.id < MaxLookups
            /\ lookup' = [lookup EXCEPT ![c] = [state |-> "pending", id |-> l.id + 1,
                                                live |-> FALSE, owner |-> a.owner]]

(* apply_action reconcile_request and reassign_worker.                     *)
ReconcileRequest(c, w) ==
    LET a == attempt[c] IN
    /\ "recover" \in Decisions /\ a.state # "none"
    /\ a.owner = w \/ "reassign" \in Decisions
    /\ (a.receipt # None \/ a.recovered) /\ Pending(a) => ~Contradicted(a)
    /\ attempt' = [attempt EXCEPT ![c] =
            IF a.owner = w THEN Settled(a) ELSE Noted([Settled(a) EXCEPT !.owner = w])]
    /\ alloc' = [alloc EXCEPT ![c].actual = IF Pending(a) THEN Amount(a) ELSE @]
    /\ account' = AccountAfter(a)
    /\ Enqueued(c, attempt'[c], a.owner # w)
    /\ UNCHANGED <<stage, envelope, waived, worker, sends>>

Pursued(w) ==
    {c \in Paid : lookup[c].owner = w /\ (\/ lookup[c].state = "pending"
                                          \/ lookup[c].state = "running" /\ ~lookup[c].live)}

(* claim_recovery: lapsed lookups and those a gate refuses wait for review. *)
ClaimLookup(w) ==
    /\ worker[w].pc = "idle" /\ Pursued(w) # {}
    /\ \E seen \in SUBSET Pursued(w), taken \in Paid \cup {None} :
        /\ IF taken = None THEN seen = Pursued(w)
           ELSE /\ taken \in Pursued(w) \ seen /\ lookup[taken].state = "pending"
                /\ attempt[taken].owner = w /\ attempt[taken].state # "dispatching"
                /\ account \in {"none", "accounting"}
        /\ lookup' = [c \in Paid |->
                IF c = taken THEN [lookup[c] EXCEPT !.state = "running", !.live = TRUE]
                ELSE IF c \in seen THEN [lookup[c] EXCEPT !.state = "held"]
                ELSE lookup[c]]
        /\ worker' = IF taken = None THEN worker
                     ELSE [worker EXCEPT ![w] = [Idle EXCEPT !.pc = "looking", !.at = taken,
                                                             !.gen = lookup[taken].id]]
    /\ UNCHANGED <<stage, attempt, alloc, envelope, waived, account, sends>>

LapseLookup(c) ==
    /\ lookup[c].state = "running" /\ lookup[c].live
    /\ lookup' = [lookup EXCEPT ![c].live = FALSE]
    /\ UNCHANGED <<stage, attempt, alloc, envelope, waived, account, worker, sends>>

(* recover_narration: evidence kept already is not fetched again.          *)
FetchHistory(w) ==
    /\ worker[w].pc = "looking" /\ Owned(w)
    /\ worker' = [worker EXCEPT ![w].pc = IF attempt[worker[w].at].recovered
                                          THEN "retrieved" ELSE "found"]
    /\ UNCHANGED <<stage, attempt, alloc, envelope, waived, account, lookup, sends>>

(* persist_recovery_receipt ...                                            *)
SaveRecovered(w) ==
    LET c == worker[w].at IN
    /\ worker[w].pc = "found" /\ Owned(w)
    /\ attempt[c].identified /\ ~attempt[c].recovered
    /\ attempt' = [attempt EXCEPT ![c] = Noted([@ EXCEPT !.recovered = TRUE])]
    /\ worker' = [worker EXCEPT ![w].pc = "restored"]
    /\ UNCHANGED <<stage, alloc, envelope, waived, account, lookup, sends>>

(* ... and its settlement.                                                 *)
SettleRecovered(w) ==
    /\ worker[w].pc = "restored" /\ Owned(w)
    /\ Settle(worker[w].at)
    /\ worker' = [worker EXCEPT ![w].pc = "retrieved"]
    /\ UNCHANGED <<stage, envelope, waived, lookup, sends>>

(* complete_recovery, with the receipt or with an error.                   *)
FinishLookup(w) ==
    LET c == worker[w].at IN
    /\ worker[w].pc \in {"looking", "found", "restored", "retrieved"}
    /\ lookup[c].state = "running" /\ lookup[c].live
    /\ lookup[c].owner = w /\ lookup[c].id = worker[w].gen
    /\ \/ /\ worker[w].pc = "retrieved" /\ attempt[c].recovered
          /\ lookup' = [lookup EXCEPT ![c] = [@ EXCEPT !.state = "finished", !.live = FALSE]]
          /\ UNCHANGED account
       \/ /\ worker[w].pc # "retrieved"
          /\ lookup' = [lookup EXCEPT ![c] = [@ EXCEPT !.state = "held", !.live = FALSE]]
          /\ account' \in {account} \cup ({"denied"} \cap Answers)
    /\ worker' = [worker EXCEPT ![w] = Idle]
    /\ UNCHANGED <<stage, attempt, alloc, envelope, waived, sends>>
-----------------------------------------------------------------------------
(* Decisions of the operator.                                              *)

Latest(e) ==
    CHOOSE r \in Executions :
        /\ stage[<<e, r, 1>>].state # "absent"
        /\ \A q \in Executions : stage[<<e, q, 1>>].state # "absent" => q <= r

Bounded(e) == \A c \in Of(e) : stage[c].gen < MaxGeneration

Requeued(s) ==
    [s EXCEPT !.state = "queued", !.gen = @ + 1, !.live = FALSE, !.failures = 0,
              !.aged = FALSE]

(* resume_free: the stage and all that depends on it run again.            *)
ResumeFree(c) ==
    /\ "resume" \in Decisions /\ Bounded(c[1])
    /\ Free(c) /\ stage[c].state \in {"held", "needs_attention"}
    /\ \A d \in RunOf(c) : ~Free(d) => stage[d].state = "succeeded"
    /\ stage' = [d \in Stages |-> IF d \in RunOf(c) /\ d[3] >= c[3]
                                  THEN Requeued(stage[d]) ELSE stage[d]]
    /\ UNCHANGED <<attempt, alloc, envelope, waived, account, lookup, worker, sends>>

(* recovered_audio_plan: what can be adopted, and what was never begun.    *)
FaultyRecoverable(c) ==
    /\ c \in Paid /\ stage[c].state \in {"held", "needs_attention"}
    /\ attempt[c].state \notin {"none", "dispatching", "abandoned"} /\ attempt[c].identified
Recoverable(c) ==
    /\ c \in Paid /\ stage[c].state \in {"held", "needs_attention"}
    /\ attempt[c].state \notin {"none", "dispatching", "abandoned"}
    /\ attempt[c].recovered /\ attempt[c].identified

Untouched(c) ==
    /\ stage[c].state = "queued" /\ stage[c].gen = 0
    /\ stage[c].owner = None /\ stage[c].failures = 0

(* adopt_recovered_audio: saved audio completes its narrations; once all   *)
(* are complete the free stages start over.                                *)
Adopt(e) ==
    LET run == RunOf(<<e, Latest(e), 1>>)
        open == {c \in run : ~Free(c) /\ stage[c].state # "succeeded"}
        found == {c \in open : Recoverable(c)}
        partial == found # open IN
    /\ "adopt" \in Decisions /\ Bounded(e)
    /\ found # {}
    /\ \A c \in open \ found : attempt[c].state = "none" /\ Untouched(c)
    /\ stage[<<e, Latest(e), Chunks + 1>>].state # "running"
    /\ partial => \A c \in run : Free(c) => Untouched(c)
    /\ stage' = [c \in Stages |->
            IF c \in found
            THEN [stage[c] EXCEPT !.state = "succeeded", !.gen = @ + 1, !.live = FALSE,
                                  !.aged = FALSE]
            ELSE IF c \in run /\ Free(c) /\ ~partial THEN Requeued(stage[c])
            ELSE stage[c]]
    /\ attempt' = [c \in Paid |->
            IF c \in found
            THEN [attempt[c] EXCEPT !.adopted = IF @ = "no" THEN "exact" ELSE "stale"]
            ELSE attempt[c]]
    /\ UNCHANGED <<alloc, envelope, waived, account, lookup, worker, sends>>

Ended(s, end) == [s EXCEPT !.state = end, !.gen = @ + 1, !.live = FALSE, !.aged = FALSE]
FaultyCancelled(s) == IF s.state \in {"absent", "succeeded", "queued"} THEN s
                      ELSE Ended(s, "cancelled")
Cancelled(s) == IF s.state \in {"absent", "succeeded"} THEN s ELSE Ended(s, "cancelled")

(* approve_replacement: all stages again under a new plan of their own,    *)
(* despite the calls whose outcome is given up for lost.                   *)
Replace(e) ==
    LET r == Latest(e)
        mine == {a \in Paid : a[1] = e}
        given == {a \in mine : attempt[a].state \in {"unknown", "abandoned"}} IN
    /\ "replace" \in Decisions /\ Bounded(e)
    /\ r + 1 \in Executions
    /\ \A a \in mine : attempt[a].state # "dispatching"
    /\ stage' = [c \in Stages |->
            IF c[1] = e /\ c[2] = r + 1 THEN FreshStage
            ELSE IF c[1] = e /\ c[2] = r THEN Cancelled(stage[c])
            ELSE stage[c]]
    /\ attempt' = [a \in Paid |-> IF a \in given
                                  THEN Noted([attempt[a] EXCEPT !.state = "abandoned"])
                                  ELSE attempt[a]]
    /\ alloc' = [a \in Paid |-> IF a[1] = e /\ a[2] = r + 1
                                THEN [NoAllocation EXCEPT !.phase = "reserved"]
                                ELSE alloc[a]]
    /\ waived' = [waived EXCEPT ![<<e, r + 1>>] = given]
    /\ UNCHANGED <<envelope, account, lookup, worker, sends>>

(* release_unsubmitted.                                                    *)
FaultyUnsent(a) == alloc[a].phase # "none" /\ alloc[a].actual = None
Unsent(a) == alloc[a].phase = "reserved" /\ alloc[a].actual = None

(* cancel_media: nothing more is sent, and what was never sent is free.    *)
SkipVideo(e) ==
    LET open == {c \in Of(e) : stage[c].state \notin {"absent", "succeeded"}} IN
    /\ "skip" \in Decisions /\ Bounded(e) /\ open # {}
    /\ stage' = [c \in Stages |-> IF c[1] = e THEN Cancelled(stage[c]) ELSE stage[c]]
    /\ envelope' = [envelope EXCEPT ![e] = IF @ = "reserved" THEN "released" ELSE @]
    /\ alloc' = [a \in Paid |-> IF a \in open /\ Unsent(a)
                                THEN [alloc[a] EXCEPT !.actual = 0] ELSE alloc[a]]
    /\ UNCHANGED <<attempt, waived, account, lookup, worker, sends>>

(* reconcile_allocation: an invoice settles a call that was made.          *)
FaultyInvoice(c, amount) ==
    /\ "invoice" \in Decisions
    /\ alloc[c].phase = "bound" /\ alloc[c].actual = None /\ attempt[c].cost = None
    /\ alloc' = [alloc EXCEPT ![c].actual = amount]
    /\ account' = IF amount > Price THEN "exceeded" ELSE account
    /\ UNCHANGED <<stage, attempt, envelope, waived, lookup, worker, sends>>
Invoice(c, amount) ==
    /\ "invoice" \in Decisions
    /\ alloc[c].phase = "bound" /\ alloc[c].actual = None /\ attempt[c].cost = None
    /\ alloc' = [alloc EXCEPT ![c].actual = amount]
    /\ attempt' = [attempt EXCEPT ![c] = Noted([@ EXCEPT !.cost = amount])]
    /\ account' = IF amount > Price THEN "exceeded" ELSE account
    /\ UNCHANGED <<stage, envelope, waived, lookup, worker, sends>>

(* reset_provider.                                                         *)
ResetProvider ==
    /\ "reset" \in Decisions /\ account # "none"
    /\ \A a \in Paid : attempt[a].state \notin Unresolved
    /\ account' = "none"
    /\ UNCHANGED <<stage, attempt, alloc, envelope, waived, lookup, worker, sends>>

-----------------------------------------------------------------------------
(* Events of the source.                                                   *)

(* A preflight succeeds and releases the stages its age held back.         *)
RenewPreflight(e) ==
    /\ \E passed \in SUBSET {c \in Of(e) : stage[c].aged} :
        /\ passed # {}
        /\ stage' = [c \in Stages |-> IF c \in passed
                        THEN [stage[c] EXCEPT !.state = "queued", !.aged = FALSE]
                        ELSE stage[c]]
    /\ UNCHANGED <<attempt, alloc, envelope, waived, account, lookup, worker, sends>>

Stopped(e, which) ==
    /\ stage' = [c \in Stages |-> IF c \in which THEN Ended(stage[c], "held") ELSE stage[c]]
    /\ attempt' = GivenUp({a \in Paid : a[1] = e})
    /\ UNCHANGED <<alloc, envelope, waived, account, lookup, worker, sends>>

(* invalidate_episode: an earlier week was corrected.                      *)
DependencyChanged(e) ==
    /\ "dependency" \in Decisions /\ Bounded(e)
    /\ Stopped(e, {c \in Of(e) : stage[c].state \notin {"absent", "succeeded"}})

(* observe_period: the week itself was corrected.                          *)
FactsChanged(e) ==
    /\ "facts" \in Decisions /\ Bounded(e)
    /\ Stopped(e, {c \in Of(e) : stage[c].state # "absent"})

-----------------------------------------------------------------------------
Step(w) ==
    \/ CompleteFree(w) \/ Authorize(w) \/ Send(w) \/ SaveIdentity(w) \/ Upload(w)
    \/ SaveReceipt(w) \/ SettleReceipt(w) \/ CompleteNarration(w)
    \/ FetchHistory(w) \/ SaveRecovered(w) \/ SettleRecovered(w) \/ FinishLookup(w)

Worker(w) == Claim(w) \/ ClaimLookup(w) \/ Step(w) \/ Forget(w)

Receipting(c) == ReconcileSaved(c) \/ ReconcileConflict(c)

Operator ==
    \/ \E c \in Paid, w \in Workers : ReconcileRequest(c, w)
    \/ \E c \in Paid, amount \in Invoices : Invoice(c, amount)
    \/ \E c \in Stages : ResumeFree(c)
    \/ \E e \in Episodes : Adopt(e) \/ Replace(e) \/ SkipVideo(e)
    \/ ResetProvider

Source == \E e \in Episodes : RenewPreflight(e) \/ DependencyChanged(e) \/ FactsChanged(e)

Next ==
    \/ \E w \in Workers : Worker(w)
    \/ \E c \in Paid : Receipting(c) \/ LapseLookup(c)
    \/ \E c \in Stages : Lapse(c)
    \/ Operator \/ Source

Spec == Init /\ [][Next]_vars

(* The worker tries again, its requests time out, a lease nobody renews    *)
(* lapses, and the API's loop settles what was saved.                      *)
Orphaned(c) == Lapse(c) /\ \A w \in Workers : worker[w].at # c

Fairness ==
    /\ \A w \in Workers : WF_vars(Claim(w)) /\ WF_vars(Step(w) \/ Forget(w))
    /\ \A c \in Stages : WF_vars(Orphaned(c))
    /\ \A c \in Paid : WF_vars(Receipting(c))

FairSpec == Spec /\ Fairness

-----------------------------------------------------------------------------
(* Properties.                                                             *)

Begun(c) == attempt[c].state # "none"

(* No chunk is sent to the provider twice, whatever happens to the worker, *)
(* its lease or its answers, and none is sent without a budget.            *)
BoughtOnce ==
    \A c \in Paid : /\ sends[c] <= 1
                    /\ sends[c] = 1 => Begun(c) /\ alloc[c].phase = "bound"

(* A narration whose call was authorized is never offered to a worker      *)
(* again: only a decision moves it.                                        *)
NeverOfferedAgain == \A c \in Paid : Begun(c) => stage[c].state # "queued"

(* After a replacement only its own revision can still be bought.          *)
OneBuyer ==
    \A c \in Paid : stage[c].state \in {"queued", "running"} /\ ~Begun(c)
                        => c[2] = Latest(c[1])

(* claim_stage, authorize_dispatch, approve_replacement: a chunk is bought *)
(* once, through crashes, lapsed leases, recoveries and replacements.      *)
PurchasesSound == BoughtOnce /\ NeverOfferedAgain /\ OneBuyer

(* A narration a worker may still buy has its money set aside, in the      *)
(* envelope or in its plan, and never in both.                             *)
Funded ==
    /\ \A c \in Paid :
        stage[c].state \in {"queued", "running"} /\ ~Begun(c) =>
            \/ c[2] = 1 /\ envelope[c[1]] = "reserved"
            \/ alloc[c].phase = "reserved" /\ alloc[c].actual = None
    /\ \A c \in Paid : c[2] = 1 =>
            (envelope[c[1]] = "swapped" <=> alloc[c].phase # "none")

(* The ledger and the budget agree on every charge, and a request whose    *)
(* price is unknown keeps its exposure after cancellation and replacement. *)
ChargesAgree ==
    \A c \in Paid :
        /\ alloc[c].phase = "bound" <=> Begun(c)
        /\ Begun(c) => alloc[c].actual = attempt[c].cost
        /\ ~Begun(c) => alloc[c].actual \in {None, 0}

(* narration_budget, settle_receipt, cancel_media: the money set aside for *)
(* a script and the charges of its calls stay in step.                     *)
MoneySound == Funded /\ ChargesAgree

(* Work on a stage starts, and its result counts, only on top of the       *)
(* finished chain before it, through expiry, corrections, adoption and     *)
(* replacement.                                                            *)
ChainInOrder ==
    \A c \in Stages : stage[c].state \in {"running", "succeeded"} /\ c[3] > 1
                        => stage[Prior(c)].state = "succeeded"

(* The audio of a finished narration is a complete saved answer or an      *)
(* audited adoption of recovered evidence.                                 *)
SelectedAudio ==
    \A c \in Paid : stage[c].state = "succeeded" =>
        \/ attempt[c].receipt = "ok" /\ attempt[c].settled
        \/ attempt[c].recovered /\ attempt[c].adopted # "no"

(* complete_stage, adopt_recovered_audio, observe_period: what counts as   *)
(* finished rests on saved work all the way down.                          *)
ResultsSound == ChainInOrder /\ SelectedAudio

(* A known charge is final, and once a narration was given up or stopped,  *)
(* nothing but an adoption of recovered audio completes it: a late answer  *)
(* settles money and no more.                                              *)
LateAnswersOnlyCharge ==
    [][\A c \in Paid :
        /\ attempt[c].cost # None => attempt'[c].cost = attempt[c].cost
        /\ stage[c].state \in {"held", "needs_attention", "cancelled"}
           /\ stage'[c].state = "succeeded" => Recoverable(c)]_vars

(* What was saved about a call is settled, or set aside as contradictory.  *)
ReceiptsSettle ==
    \A c \in Paid : Pending(attempt[c]) ~>
        ~Pending(attempt[c]) \/ (Contradicted(attempt[c]) /\ attempt[c].state = "unknown")

(* The outcome of a call does not stay open forever: it is known, or the   *)
(* operator is asked to decide, unless the video was skipped meanwhile.    *)
OutcomesDecided ==
    \A c \in Paid : attempt[c].state = "dispatching" ~>
        attempt[c].state # "dispatching" \/ stage[c].state = "cancelled"

(* MediaPipeline: every run of a script keeps the order and the purchases  *)
(* that its checkpoints are for.                                           *)
Finished(x) == {k \in Positions : stage[<<x[1], x[2], k>>].state = "succeeded"}
Pipeline == INSTANCE MediaPipeline WITH
    Runs <- Episodes \X Executions,
    done <- [x \in Episodes \X Executions |-> Cardinality(Finished(x))],
    bought <- [x \in Episodes \X Executions |->
                    {k \in Narrations : Begun(<<x[1], x[2], k>>)}]
PipelineSpec == Pipeline!Spec
===============================================================================
