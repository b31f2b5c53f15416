------------------------ MODULE GenerationLedgerProofs ------------------------
(***************************************************************************)
(* What holds of GenerationLedger for every value of its constants.        *)
(*                                                                         *)
(* LedgerInvariant is inductive: Init implies it (InitSound), and each of  *)
(* its conjuncts has a lemma ("...Step") by which every step preserves it, *)
(* relying on the conjunction. Lemmas called "...Effects" say once, over   *)
(* all actions, what a step can do to one row: to a job, a call, a worker  *)
(* or an allocation. The theorems follow from the invariant or, for what a *)
(* step may never do, from it and the effects.                             *)
(*                                                                         *)
(* Type correctness comes first (TypeStep), with the lemmas about updates  *)
(* of functions and records it rests on. A step may rely on the whole      *)
(* LedgerInvariant: a worker that settles a receipt, for one, has to find  *)
(* one.                                                                    *)
(***************************************************************************)
EXTENDS GenerationLedgerInvariant, TLAPS

-----------------------------------------------------------------------------
(* Updates of functions and records stay within their types.               *)

(* A function stays within its type when one value is replaced.            *)
LEMMA Put ==
    ASSUME NEW D, NEW R, NEW f \in [D -> R], NEW x, NEW v \in R
    PROVE  [f EXCEPT ![x] = v] \in [D -> R]
  OBVIOUS

(* The same for a function of functions.                                   *)
LEMMA PutInner ==
    ASSUME NEW D, NEW E, NEW R, NEW f \in [D -> [E -> R]],
           NEW x \in D, NEW y, NEW v \in R
    PROVE  [f EXCEPT ![x][y] = v] \in [D -> [E -> R]]
  OBVIOUS

Places == Holding \cup {"idle", "reconcile"}

(* Every update of a worker's memory is well typed.                        *)
LEMMA WorkerUpdates ==
    ASSUME NEW m \in WorkerRecord
    PROVE  /\ \A p \in Places : [m EXCEPT !.pc = p] \in WorkerRecord
           /\ \A p \in Places, c \in Codes, r \in Receipts \cup {None} :
                [m EXCEPT !.pc = p, !.code = c, !.receipt = r] \in WorkerRecord
           /\ \A p \in Places, r \in Receipts \cup {None} :
                [m EXCEPT !.pc = p, !.receipt = r] \in WorkerRecord
           /\ \A p \in Places, n \in Nat : [m EXCEPT !.pc = p, !.stage = n] \in WorkerRecord
           /\ \A p \in Places, t \in SUBSET (Jobs \X Stages) :
                [m EXCEPT !.pc = p, !.todo = t] \in WorkerRecord
           /\ \A n \in Nat : [m EXCEPT !.stage = n] \in WorkerRecord
           /\ \A t \in SUBSET (Jobs \X Stages) : [m EXCEPT !.todo = t] \in WorkerRecord
           /\ \A p \in Places, j \in Jobs, f \in Nat, n \in Nat :
                [m EXCEPT !.pc = p, !.job = j, !.fence = f, !.stage = n] \in WorkerRecord
  BY Zenon DEF WorkerRecord, Places

(* Every update of a job is well typed.                                    *)
LEMMA JobUpdates ==
    ASSUME NEW m \in JobRecord, NEW x \in JobStates, NEW c \in Codes,
           NEW n \in Nat, NEW b \in BOOLEAN
    PROVE  /\ [m EXCEPT !.calls = n] \in JobRecord
           /\ [m EXCEPT !.live = b] \in JobRecord
           /\ [m EXCEPT !.state = x, !.reason = c] \in JobRecord
           /\ [m EXCEPT !.fence = n, !.state = x] \in JobRecord
           /\ [m EXCEPT !.fence = n, !.state = x, !.reason = c] \in JobRecord
           /\ [m EXCEPT !.state = x, !.reason = c, !.live = b] \in JobRecord
           /\ [m EXCEPT !.state = x, !.reason = c, !.fence = n, !.live = b] \in JobRecord
           /\ [m EXCEPT !.state = x, !.live = b, !.fence = n] \in JobRecord
  BY Zenon DEF JobRecord

(* Every update of the provider account is well typed.                     *)
LEMMA AccountUpdates ==
    ASSUME NEW m \in Account
    PROVE  /\ [m EXCEPT !.cooling = FALSE] \in Account
           /\ [m EXCEPT !.hold = "reservation_exceeded"] \in Account
           /\ [hold |-> "none", cooling |-> FALSE] \in Account
<1>1. "reservation_exceeded" \in {"none", "attention", "reservation_exceeded"}
  OBVIOUS
<1>2. FALSE \in BOOLEAN
  OBVIOUS
<1>3. [m EXCEPT !.cooling = FALSE] \in Account
  BY <1>2, Zenon DEF Account
<1>4. [m EXCEPT !.hold = "reservation_exceeded"] \in Account
  BY <1>1, Zenon DEF Account
<1>5. [hold |-> "none", cooling |-> FALSE] \in Account
  BY DEF Account
<1>6. QED
  BY <1>3, <1>4, <1>5

(* Every update of an attempt is well typed.                               *)
LEMMA AttemptUpdates ==
    ASSUME NEW m \in AttemptRecord, NEW x \in AttemptStates, NEW u \in Usages,
           NEW c \in Amounts, NEW e \in Errors, NEW b \in BOOLEAN,
           NEW r \in Receipts \cup {None}
    PROVE  /\ [m EXCEPT !.state = x] \in AttemptRecord
           /\ [m EXCEPT !.receipt = r] \in AttemptRecord
           /\ [m EXCEPT !.state = x, !.error = e] \in AttemptRecord
           /\ [m EXCEPT !.cost = c, !.usage = u] \in AttemptRecord
           /\ [m EXCEPT !.state = x, !.usage = u, !.cost = c] \in AttemptRecord
           /\ [m EXCEPT !.state = x, !.usage = u, !.cost = c, !.settled = b,
                        !.error = e] \in AttemptRecord
  BY Zenon DEF AttemptRecord

(* The names of states and codes the actions use.                          *)
LEMMA Names ==
    /\ {"dispatching", "unknown", "abandoned", "none", "received", "rejected",
        "not_sent"} \subseteq AttemptStates
    /\ {"absent", "queued", "running", "held", "needs_attention", "succeeded",
        "cancelled"} \subseteq JobStates
    /\ {"busy", "refused", "execution_failed", "attempt_allowance_exhausted",
        "worker_shutdown", "none", "provider_outcome_unknown"} \subseteq Codes
    /\ Errors \subseteq Codes
    /\ {"none", "provider_outcome_unknown", "response_invalid", "provider_rejected",
        "reservation_exceeded"} \subseteq Errors
    /\ 0 \in Amounts /\ None \in Amounts /\ Nat \subseteq Amounts
    /\ {"not_billed", "financially_reconciled"} \subseteq Usages
  BY DEF AttemptStates, Usages, UnresolvedOutcomes, Unresolved, JobStates, ActiveStates,
         Codes, Errors, Amounts

(* The initial state is well typed.                                        *)
LEMMA InitTyped == Init => TypeOK
<1> SUFFICES ASSUME Init PROVE TypeOK
  OBVIOUS
<1> USE DEF Init
<1>1. NoJob \in JobRecord
  BY DEF NoJob, JobRecord, JobStates, ActiveStates, Codes, Errors
<1>2. NoAttempt \in AttemptRecord
  BY DEF NoAttempt, AttemptRecord, AttemptStates, Usages, Amounts, Errors
<1>3. [phase |-> "none", actual |-> None] \in AllocationRecord
  BY DEF AllocationRecord, Amounts
<1>4. IdleWorker \in WorkerRecord
  BY DEF IdleWorker, WorkerRecord, Codes, Errors
<1>5. account \in Account
  BY DEF Account
<1>6. failures \in 0 .. BreakerFailures
  <2>1. failures = 0
    OBVIOUS
  <2> HIDE DEF Init
  <2>2. QED
    BY <2>1, ConstantsAssumption DEF ConstantsAssumption
<1>7. QED
  BY <1>1, <1>2, <1>3, <1>4, <1>5, <1>6 DEF TypeOK

(* What the helpers store is well typed.                                   *)
LEMMA JobOperators ==
    ASSUME TypeOK, NEW j \in Jobs
    PROVE  /\ AfterLapse(j) \in JobRecord /\ Claimed(j) \in JobRecord
           /\ GivenUp(j) \in JobRecord /\ Withdrawn(j) \in JobRecord
           /\ [NoJob EXCEPT !.state = "queued", !.expected = head[SubjectOf[j]]] \in JobRecord
<1>1. job[j] \in JobRecord
  BY DEF TypeOK
<1>2. job[j].fence + 1 \in Nat
  BY <1>1 DEF JobRecord
<1>3. AfterLapse(j) \in JobRecord
  BY <1>1, <1>2, JobUpdates, Names, Zenon DEF AfterLapse
<1>4. AfterLapse(j).fence + 1 \in Nat
  BY <1>3 DEF JobRecord
<1>5. Claimed(j) \in JobRecord
  BY <1>3, <1>4, JobUpdates, Names, Zenon DEF Claimed
<1>6. GivenUp(j) \in JobRecord /\ Withdrawn(j) \in JobRecord
  BY <1>1, <1>2, JobUpdates, Names, Zenon DEF GivenUp, Withdrawn
<1>7. [NoJob EXCEPT !.state = "queued", !.expected = head[SubjectOf[j]]] \in JobRecord
  <2>1. head[SubjectOf[j]] \in Artifacts \cup {None}
    BY ConstantsAssumption DEF TypeOK, ConstantsAssumption
  <2>2. QED
    BY <2>1 DEF NoJob, JobRecord, JobStates, ActiveStates, Codes, Errors
<1>8. QED
  BY <1>3, <1>5, <1>6, <1>7

(* A job plans at least one call.                                          *)
LEMMA FirstStage == 1 \in Stages
<1>1. MaxCalls \in Nat \ {0}
  BY ConstantsAssumption DEF ConstantsAssumption
<1>2. QED
  BY <1>1 DEF Stages

(* Releasing, reserving and settling keep allocations well typed.          *)
LEMMA AllocationOperators ==
    ASSUME TypeOK, NEW j \in Jobs, NEW s \in Stages, NEW c \in Amounts
    PROVE  /\ Released(j) \in [Stages -> AllocationRecord]
           /\ Reserved(j, s) \in [Stages -> AllocationRecord]
           /\ [alloc[j][s] EXCEPT !.actual = c] \in AllocationRecord
<1>1. \A t \in Stages : alloc[j][t] \in AllocationRecord
  BY DEF TypeOK
<1>2. \A t \in Stages :
        /\ [alloc[j][t] EXCEPT !.actual = 0] \in AllocationRecord
        /\ [alloc[j][t] EXCEPT !.phase = "bound"] \in AllocationRecord
        /\ [alloc[j][t] EXCEPT !.phase = "reserved"] \in AllocationRecord
        /\ [alloc[j][t] EXCEPT !.actual = c] \in AllocationRecord
  BY <1>1, Names, Zenon DEF AllocationRecord
<1>3. QED
  BY <1>1, <1>2 DEF Released, Reserved

(* The price a receipt proves is an amount, or none.                       *)
LEMMA PriceTyped == ASSUME NEW r \in Receipts PROVE r.price \in Amounts
<1>1. CASE r \in [kind : Answers \cap {"ok"}, price : Prices]
  BY <1>1, ConstantsAssumption DEF Amounts, ConstantsAssumption
<1>2. CASE r \in [kind : Answers \cap {"invalid"}, price : {0}]
  BY <1>2 DEF Amounts
<1>3. CASE r \in [kind : Answers \ {"ok", "invalid"}, price : {None}]
  BY <1>3 DEF Amounts
<1>4. QED
  BY <1>1, <1>2, <1>3 DEF Receipts

(* Decisions and saved receipts lead to well typed attempts.               *)
LEMMA AttemptOperators ==
    ASSUME TypeOK, NEW j \in Jobs, NEW s \in Stages
    PROVE  /\ \A action : Decided(j, s, action) \in AttemptRecord
           /\ attempt[j][s].receipt # None => /\ Settled(j, s) \in AttemptRecord
                                              /\ attempt[j][s].receipt.price \in Amounts
<1> DEFINE r == attempt[j][s].receipt
<1>1. attempt[j][s] \in AttemptRecord
  BY DEF TypeOK
<1>2. \A action : Decided(j, s, action) \in AttemptRecord
  BY <1>1, AttemptUpdates, Names, Zenon DEF Decided
<1>3. ASSUME r # None PROVE Settled(j, s) \in AttemptRecord /\ r.price \in Amounts
  <2>1. r \in Receipts
    BY <1>1, <1>3 DEF AttemptRecord
  <2> HIDE DEF r
  <2>2. r.price \in Amounts
    BY <2>1, PriceTyped
  <2>3. StateOf(r) \in AttemptStates /\ UsageOf(r) \in Usages /\ ErrorOf(r) \in Errors
    BY DEF StateOf, UsageOf, ErrorOf, AttemptStates, UnresolvedOutcomes, Unresolved,
           Usages, Errors
  <2> DEFINE e == IF AccountAfter(j, s, r).hold = "reservation_exceeded"
                  THEN "reservation_exceeded" ELSE ErrorOf(r)
  <2>4. e \in Errors
    BY <2>3, Names
  <2>5. Settled(j, s) = [attempt[j][s] EXCEPT
            !.state = StateOf(r), !.usage = UsageOf(r), !.cost = r.price,
            !.settled = TRUE, !.error = e]
    BY DEF Settled, r
  <2> HIDE DEF e
  <2>6. [attempt[j][s] EXCEPT
            !.state = StateOf(r), !.usage = UsageOf(r), !.cost = r.price,
            !.settled = TRUE, !.error = e] \in AttemptRecord
    BY <1>1, <2>2, <2>3, <2>4, Zenon DEF AttemptRecord
  <2>7. QED
    BY <2>2, <2>5, <2>6 DEF r
<1>4. QED
  BY <1>2, <1>3

(* Settling a saved receipt keeps the three tables it writes well typed.   *)
LEMMA SettleTyped ==
    ASSUME TypeOK, NEW j \in Jobs, NEW s \in Stages,
           attempt[j][s].receipt # None, Settle(j, s)
    PROVE  /\ attempt' \in [Jobs -> [Stages -> AttemptRecord]]
           /\ alloc' \in [Jobs -> [Stages -> AllocationRecord]]
           /\ account' \in Account
<1> DEFINE r == attempt[j][s].receipt
<1>1. CASE attempt[j][s].settled
  BY <1>1 DEF Settle, TypeOK
<1>2. CASE ~attempt[j][s].settled
  <2>1. attempt' = [attempt EXCEPT ![j][s] = Settled(j, s)]
    BY <1>2 DEF Settle
  <2>2. attempt' \in [Jobs -> [Stages -> AttemptRecord]]
    BY <2>1, AttemptOperators, PutInner DEF TypeOK
  <2>3. alloc' = [alloc EXCEPT ![j][s].actual = r.price]
    BY <1>2 DEF Settle
  <2>4. [alloc[j][s] EXCEPT !.actual = r.price] \in AllocationRecord
    BY AttemptOperators, AllocationOperators
  <2>5. alloc' \in [Jobs -> [Stages -> AllocationRecord]]
    BY <2>3, <2>4 DEF TypeOK
  <2>6. account' \in Account
    BY <1>2 DEF Settle, AccountAfter, Account, TypeOK
  <2>7. QED
    BY <2>2, <2>5, <2>6
<1>3. QED
  BY <1>1, <1>2

-----------------------------------------------------------------------------
(* Type correctness.                                                       *)

(* Every place, and every way to become idle or to stop, is well typed.    *)
LEMMA WorkerPlaces ==
    /\ {"run", "send", "answered", "saved", "settled", "failed", "reconcile"} \subseteq Places
    /\ IdleWorker \in WorkerRecord
  BY DEF Places, Holding, IdleWorker, WorkerRecord, Codes, Errors

(* Becoming idle is well typed.                                            *)
LEMMA IdleTyped ==
    ASSUME TypeOK, NEW w \in Workers, Idle(w)
    PROVE  worker' \in [Workers -> WorkerRecord]
  BY WorkerPlaces, Put DEF Idle, TypeOK

(* Stopping for a reason is well typed.                                    *)
LEMMA StopTyped ==
    ASSUME TypeOK, NEW w \in Workers, NEW c \in Codes, Stop(w, c)
    PROVE  worker' \in [Workers -> WorkerRecord]
<1>1. worker[w] \in WorkerRecord
  BY DEF TypeOK
<1>2. [worker[w] EXCEPT !.pc = "failed", !.code = c, !.receipt = None] \in WorkerRecord
  BY <1>1, WorkerUpdates, WorkerPlaces, Zenon
<1>3. QED
  BY <1>2, Put DEF Stop, TypeOK

(* Steps that only move a worker.                                          *)
LEMMA WorkerOnly ==
    ASSUME TypeOK, worker' \in [Workers -> WorkerRecord],
           UNCHANGED <<job, attempt, alloc, head, hold, account, failures, sends>>
    PROVE  TypeOK'
  BY DEF TypeOK

(* Steps that only change a job.                                           *)
LEMMA JobOnly ==
    ASSUME TypeOK, job' \in [Jobs -> JobRecord],
           UNCHANGED <<attempt, alloc, head, hold, account, failures, worker, sends>>
    PROVE  TypeOK'
  BY DEF TypeOK

(* Every step keeps the types.                                             *)
LEMMA TypeStep == LedgerInvariant /\ [Next]_vars => TypeOK'
<1> SUFFICES ASSUME LedgerInvariant, [Next]_vars PROVE TypeOK'
  OBVIOUS
<1>0. TypeOK /\ WorkersSound
  BY DEF LedgerInvariant
<1> USE <1>0
<1>w. \A w \in Workers : worker[w] \in WorkerRecord
  BY DEF TypeOK
<1>t. \A j \in Jobs, s \in Stages : attempt[j][s] \in AttemptRecord
  BY DEF TypeOK
<1>j. \A j \in Jobs : job[j] \in JobRecord
  BY DEF TypeOK
<1>1. ASSUME NEW w \in Workers, BeginTick(w) PROVE TypeOK'
  <2>1. Unsettled \in SUBSET (Jobs \X Stages)
    BY DEF Unsettled
  <2>2. [worker[w] EXCEPT !.pc = "reconcile", !.todo = Unsettled] \in WorkerRecord
    BY <1>w, <2>1, WorkerUpdates, WorkerPlaces, Zenon
  <2>3. worker' \in [Workers -> WorkerRecord]
    BY <1>1, <2>2, Put DEF BeginTick, TypeOK
  <2>4. QED
    BY <1>1, <2>3, WorkerOnly DEF BeginTick
<1>2. ASSUME NEW w \in Workers, ReconcileReceipt(w) PROVE TypeOK'
  <2>1. PICK a \in worker[w].todo : /\ Settle(a[1], a[2])
                                    /\ worker' = [worker EXCEPT ![w].todo = @ \ {a}]
    BY <1>2 DEF ReconcileReceipt
  <2>2. a[1] \in Jobs /\ a[2] \in Stages
    BY <1>w DEF WorkerRecord
  <2>3. attempt[a[1]][a[2]].receipt # None
    BY DEF WorkersSound, WorkerSound
  <2>4. worker[w].todo \ {a} \in SUBSET (Jobs \X Stages)
    BY <1>w DEF WorkerRecord
  <2>5. [worker[w] EXCEPT !.todo = @ \ {a}] \in WorkerRecord
    BY <1>w, <2>4, WorkerUpdates, Zenon
  <2>6. worker' \in [Workers -> WorkerRecord]
    BY <2>1, <2>5, Put DEF TypeOK
  <2>7. QED
    BY <1>2, <2>1, <2>2, <2>3, <2>6, SettleTyped DEF ReconcileReceipt, TypeOK
<1>3. ASSUME NEW w \in Workers,
             ReconcileConflict(w) \/ LoseOwnership(w) \/ Crash(w)
      PROVE  TypeOK'
  <2>1. Idle(w) /\ UNCHANGED <<job, attempt, alloc, head, hold, account, failures, sends>>
    BY <1>3 DEF ReconcileConflict, LoseOwnership, Crash
  <2>2. QED
    BY <2>1, IdleTyped, WorkerOnly
<1>4. ASSUME NEW w \in Workers, Claim(w) PROVE TypeOK'
  <2>1. attempt' \in [Jobs -> [Stages -> AttemptRecord]]
    <3>1. \A j \in Jobs, s \in Stages :
            [attempt[j][s] EXCEPT !.state = "unknown"] \in AttemptRecord
      BY <1>t, AttemptUpdates, Names, Zenon
    <3>2. QED
      BY <1>4, <1>t, <3>1 DEF Claim
  <2>2. \A j \in Jobs : AfterLapse(j) \in JobRecord /\ Claimed(j) \in JobRecord
    BY JobOperators
  <2>3. CASE job' = [j \in Jobs |-> AfterLapse(j)] /\ Idle(w)
    BY <1>4, <2>1, <2>2, <2>3, IdleTyped DEF Claim, TypeOK
  <2>4. ASSUME NEW k \in Jobs,
               job' = [j \in Jobs |-> IF j = k THEN Claimed(k) ELSE AfterLapse(j)],
               worker' = [worker EXCEPT ![w] =
                    [IdleWorker EXCEPT !.pc = "run", !.job = k,
                                       !.fence = Claimed(k).fence, !.stage = 1]]
        PROVE  TypeOK'
    <3>1. Claimed(k).fence \in Nat
      BY <2>2 DEF JobRecord
    <3>2. 1 \in Nat
      OBVIOUS
    <3>3. [IdleWorker EXCEPT !.pc = "run", !.job = k,
                             !.fence = Claimed(k).fence, !.stage = 1] \in WorkerRecord
      BY <3>1, <3>2, WorkerUpdates, WorkerPlaces, Zenon
    <3>4. worker' \in [Workers -> WorkerRecord]
      BY <2>4, <3>3, Put DEF TypeOK
    <3>5. job' \in [Jobs -> JobRecord]
      BY <2>2, <2>4
    <3>6. QED
      BY <1>4, <2>1, <3>4, <3>5 DEF Claim, TypeOK
  <2>5. QED
    BY <1>4, <2>3, <2>4 DEF Claim
<1>5. ASSUME NEW w \in Workers, Replay(w) PROVE TypeOK'
  <2>0. worker[w].job \in Jobs /\ worker[w].stage \in Stages
    BY <1>5 DEF Replay, Owns
  <2>1. CASE worker' = [worker EXCEPT ![w].stage = worker[w].stage + 1]
    <3>1. worker[w].stage + 1 \in Nat
      BY <1>w DEF WorkerRecord
    <3>2. [worker[w] EXCEPT !.stage = worker[w].stage + 1] \in WorkerRecord
      BY <1>w, <3>1, WorkerUpdates, Zenon
    <3>3. worker' \in [Workers -> WorkerRecord]
      BY <2>1, <3>2, Put DEF TypeOK
    <3>4. QED
      BY <1>5, <3>3, WorkerOnly DEF Replay
  <2>2. ASSUME NEW c \in Errors, Stop(w, c) PROVE TypeOK'
    BY <1>5, <2>2, StopTyped, Names, WorkerOnly DEF Replay
  <2>3. attempt[worker[w].job][worker[w].stage].error \in Errors
    BY <1>t, <2>0 DEF AttemptRecord
  <2>4. QED
    BY <1>5, <2>1, <2>2, <2>3, Names DEF Replay
<1>6. ASSUME NEW w \in Workers, NEW c \in Codes, Stop(w, c),
             UNCHANGED <<job, attempt, alloc, head, hold, account, failures, sends>>
      PROVE  TypeOK'
  BY <1>6, StopTyped, WorkerOnly
<1>7. ASSUME NEW w \in Workers,
             \/ Refuse(w) \/ ReceiptNotRecorded(w) \/ GenerateFails(w) \/ PublishRefused(w)
      PROVE  TypeOK'
  BY <1>6, <1>7, Names DEF Refuse, ReceiptNotRecorded, GenerateFails, PublishRefused
<1>8. ASSUME NEW w \in Workers, Dispatch(w) PROVE TypeOK'
  <2> DEFINE j == worker[w].job
             s == worker[w].stage
  <2>0. j \in Jobs /\ s \in Stages
    BY <1>8 DEF Dispatch, Owns, Admissible
  <2>1. attempt' \in [Jobs -> [Stages -> AttemptRecord]]
    <3>1. [NoAttempt EXCEPT !.state = "dispatching"] \in AttemptRecord
      BY DEF NoAttempt, AttemptRecord, AttemptStates, UnresolvedOutcomes, Unresolved,
             Usages, Amounts, Errors
    <3>2. QED
      BY <1>8, <2>0, <3>1, PutInner DEF Dispatch, TypeOK
  <2>2. job' \in [Jobs -> JobRecord]
    <3>1. job[j].calls + 1 \in Nat
      BY <1>j, <2>0 DEF JobRecord
    <3>2. [job[j] EXCEPT !.calls = job[j].calls + 1] \in JobRecord
      <4> HIDE DEF j
      <4> QED BY <1>j, <2>0, <3>1, Zenon DEF JobRecord
    <3>3. QED
      BY <1>8, <3>2, Put DEF Dispatch, TypeOK
  <2>3. alloc' \in [Jobs -> [Stages -> AllocationRecord]]
    <3>1. None \in Amounts
      BY Names
    <3>2. Reserved(j, s) \in [Stages -> AllocationRecord]
      BY <2>0, <3>1, AllocationOperators
    <3>3. QED
      BY <1>8, <3>2, Put DEF Dispatch, TypeOK
  <2>4. sends' \in [Jobs -> [Stages -> Nat]]
    <3>1. sends[j][s] + 1 \in Nat
      BY <2>0 DEF TypeOK
    <3>2. QED
      BY <1>8, <2>0, <3>1, PutInner DEF Dispatch, TypeOK
  <2>5. worker' \in [Workers -> WorkerRecord]
    <3>1. [worker[w] EXCEPT !.pc = "send"] \in WorkerRecord
      BY <1>w, WorkerUpdates, WorkerPlaces, Zenon
    <3>2. QED
      BY <1>8, <3>1, Put DEF Dispatch, TypeOK
  <2>6. QED
    BY <1>8, <2>1, <2>2, <2>3, <2>4, <2>5 DEF Dispatch, TypeOK
<1>9. ASSUME NEW w \in Workers, Answer(w) PROVE TypeOK'
  <2>1. PICK r \in Receipts :
            worker' = [worker EXCEPT ![w] = [@ EXCEPT !.pc = "answered", !.receipt = r]]
    BY <1>9 DEF Answer
  <2>2. [worker[w] EXCEPT !.pc = "answered", !.receipt = r] \in WorkerRecord
    BY <1>w, WorkerUpdates, WorkerPlaces, Zenon
  <2>3. worker' \in [Workers -> WorkerRecord]
    BY <2>1, <2>2, Put DEF TypeOK
  <2>4. QED
    BY <1>9, <2>3, WorkerOnly DEF Answer
<1>10. ASSUME NEW w \in Workers, SendFails(w) PROVE TypeOK'
  <2> DEFINE j == worker[w].job
             s == worker[w].stage
  <2>0. j \in Jobs /\ s \in Stages
    BY <1>10 DEF SendFails, WorkersSound, WorkerSound, Sending, Holding
  <2>1. worker' \in [Workers -> WorkerRecord]
    BY <1>10, StopTyped, Names DEF SendFails
  <2>2. CASE attempt' = [attempt EXCEPT ![j][s] =
                [@ EXCEPT !.state = "unknown", !.error = "provider_outcome_unknown"]]
             /\ alloc' = [alloc EXCEPT ![j][s].actual = attempt[j][s].cost]
    <3>1. [attempt[j][s] EXCEPT !.state = "unknown",
                                !.error = "provider_outcome_unknown"] \in AttemptRecord
      BY <1>t, <2>0, AttemptUpdates, Names, Zenon
    <3>2. attempt' \in [Jobs -> [Stages -> AttemptRecord]]
      BY <2>0, <2>2, <3>1, PutInner DEF TypeOK
    <3>3. attempt[j][s].cost \in Amounts
      BY <1>t, <2>0 DEF AttemptRecord
    <3>4. [alloc[j][s] EXCEPT !.actual = attempt[j][s].cost] \in AllocationRecord
      BY <2>0, <3>3, AllocationOperators
    <3>5. alloc' \in [Jobs -> [Stages -> AllocationRecord]]
      BY <2>0, <2>2, <3>4 DEF TypeOK
    <3>6. QED
      BY <1>10, <2>1, <3>2, <3>5 DEF SendFails, TypeOK
  <2>3. CASE UNCHANGED <<attempt, alloc>>
    BY <1>10, <2>1, <2>3 DEF SendFails, TypeOK
  <2>4. QED
    BY <1>10, <2>2, <2>3 DEF SendFails
<1>11. ASSUME NEW w \in Workers, SaveReceipt(w) PROVE TypeOK'
  <2> DEFINE j == worker[w].job
             s == worker[w].stage
  <2>0. j \in Jobs /\ s \in Stages
    BY <1>11 DEF SaveReceipt, WorkersSound, WorkerSound, Sending, Holding
  <2>1. worker[w].receipt \in Receipts \cup {None}
    BY <1>w DEF WorkerRecord
  <2>2. [attempt[j][s] EXCEPT !.receipt = worker[w].receipt] \in AttemptRecord
    <3>1. attempt[j][s] \in AttemptRecord
      BY <1>t, <2>0
    <3> HIDE DEF j, s
    <3>2. QED
      BY <2>1, <3>1, Zenon DEF AttemptRecord
  <2>3. attempt' \in [Jobs -> [Stages -> AttemptRecord]]
    <3>1. attempt' = [attempt EXCEPT ![j][s] =
                            [attempt[j][s] EXCEPT !.receipt = worker[w].receipt]]
      BY <1>11 DEF SaveReceipt
    <3>2. QED
      BY <2>0, <2>2, <3>1, PutInner DEF TypeOK
  <2>4. [worker[w] EXCEPT !.pc = "saved", !.receipt = None] \in WorkerRecord
    BY <1>w, WorkerUpdates, WorkerPlaces, Zenon
  <2>5. worker' \in [Workers -> WorkerRecord]
    BY <1>11, <2>4, Put DEF SaveReceipt, TypeOK
  <2>6. QED
    BY <1>11, <2>3, <2>5 DEF SaveReceipt, TypeOK
<1>12. ASSUME NEW w \in Workers, SettleReceipt(w) PROVE TypeOK'
  <2>1. /\ worker[w].job \in Jobs /\ worker[w].stage \in Stages
        /\ attempt[worker[w].job][worker[w].stage].receipt # None
    BY <1>12 DEF SettleReceipt, WorkersSound, WorkerSound, Sending, Holding
  <2>2. [worker[w] EXCEPT !.pc = "settled"] \in WorkerRecord
    BY <1>w, WorkerUpdates, WorkerPlaces, Zenon
  <2>3. worker' \in [Workers -> WorkerRecord]
    BY <1>12, <2>2, Put DEF SettleReceipt, TypeOK
  <2>4. QED
    BY <1>12, <2>1, <2>3, SettleTyped DEF SettleReceipt, TypeOK
<1>13. ASSUME NEW w \in Workers, UseReceipt(w) PROVE TypeOK'
  <2>0. worker[w].job \in Jobs /\ worker[w].stage \in Stages
    BY <1>13 DEF UseReceipt, WorkersSound, WorkerSound, Holding
  <2>1. CASE worker' = [worker EXCEPT ![w] =
                [@ EXCEPT !.pc = "run", !.stage = worker[w].stage + 1]]
    <3>1. worker[w].stage + 1 \in Nat
      BY <1>w DEF WorkerRecord
    <3>2. [worker[w] EXCEPT !.pc = "run", !.stage = worker[w].stage + 1] \in WorkerRecord
      BY <1>w, <3>1, WorkerUpdates, WorkerPlaces, Zenon
    <3>3. worker' \in [Workers -> WorkerRecord]
      BY <2>1, <3>2, Put DEF TypeOK
    <3>4. QED
      BY <1>13, <3>3, WorkerOnly DEF UseReceipt
  <2>2. attempt[worker[w].job][worker[w].stage].error \in Codes
    BY <1>t, <2>0, Names DEF AttemptRecord
  <2>3. QED
    BY <1>6, <1>13, <2>1, <2>2 DEF UseReceipt
<1>14. ASSUME NEW j \in Jobs, NEW state \in JobStates, NEW code \in Codes,
             Leave(j, state, code)
      PROVE  job' \in [Jobs -> JobRecord]
  <2>1. [job[j] EXCEPT !.state = state, !.reason = code, !.live = FALSE] \in JobRecord
    BY <1>j, JobUpdates, Zenon
  <2>2. QED
    BY <1>14, <2>1, Put DEF Leave, TypeOK
<1>15. ASSUME NEW w \in Workers, Publish(w) PROVE TypeOK'
  <2> DEFINE j == worker[w].job
  <2>0. j \in Jobs /\ job[j].reason \in Codes
    BY <1>j, <1>15 DEF Publish, Owns, JobRecord
  <2>1. job' \in [Jobs -> JobRecord]
    BY <1>14, <1>15, <2>0, Names DEF Publish
  <2>2. head' \in [Subjects -> Artifacts \cup {None}]
    BY <1>15, <2>0, ConstantsAssumption
    DEF Publish, TypeOK, Artifacts, ConstantsAssumption
  <2>3. alloc' \in [Jobs -> [Stages -> AllocationRecord]]
    <3>1. \A x \in Stages, c \in Amounts : Released(j) \in [Stages -> AllocationRecord]
      BY <2>0, AllocationOperators
    <3>2. 1 \in Stages /\ None \in Amounts
      BY FirstStage, Names
    <3>3. QED
      BY <1>15, <3>1, <3>2, Put DEF Publish, TypeOK
  <2>4. failures' \in 0 .. BreakerFailures
    BY <1>15, ConstantsAssumption DEF Publish, TypeOK, ConstantsAssumption
  <2>5. worker' \in [Workers -> WorkerRecord]
    BY <1>15, IdleTyped DEF Publish
  <2>6. QED
    BY <1>15, <2>1, <2>2, <2>3, <2>4, <2>5 DEF Publish, TypeOK
<1>16. ASSUME NEW w \in Workers, HandleFailure(w) PROVE TypeOK'
  <2>0. worker[w].job \in Jobs /\ worker[w].code \in Codes
    BY <1>16, <1>w DEF HandleFailure, Owns, WorkerRecord
  <2>1. job' \in [Jobs -> JobRecord]
    BY <1>14, <1>16, <2>0, Names DEF HandleFailure
  <2>2. failures' \in 0 .. BreakerFailures
    BY <1>16, ConstantsAssumption DEF HandleFailure, TypeOK, ConstantsAssumption
  <2>3. worker' \in [Workers -> WorkerRecord]
    BY <1>16, IdleTyped DEF HandleFailure
  <2>4. QED
    BY <1>16, <2>1, <2>2, <2>3 DEF HandleFailure, TypeOK
<1>17. ASSUME NEW w \in Workers, Shutdown(w) PROVE TypeOK'
  <2>1. worker[w].job \in Jobs
    BY <1>17 DEF Shutdown, WorkersSound, WorkerSound
  <2>2. job' \in [Jobs -> JobRecord]
    BY <1>17, <2>1, JobOperators, Put DEF Shutdown, TypeOK
  <2>3. QED
    BY <1>17, <2>2, JobOnly DEF Shutdown
<1>18. ASSUME NEW j \in Jobs, LeaseLapses(j) PROVE TypeOK'
  <2>1. [job[j] EXCEPT !.live = FALSE] \in JobRecord
    BY <1>j, Zenon DEF JobRecord
  <2>2. job' \in [Jobs -> JobRecord]
    BY <1>18, <2>1, Put DEF LeaseLapses, TypeOK
  <2>3. QED
    BY <1>18, <2>2, JobOnly DEF LeaseLapses
<1>19. ASSUME CooldownEnds \/ ResetProvider PROVE TypeOK'
  <2>1. account' \in Account
    BY <1>19, AccountUpdates, Zenon DEF CooldownEnds, ResetProvider, TypeOK
  <2>2. QED
    BY <1>19, <2>1 DEF CooldownEnds, ResetProvider, TypeOK
<1>20. ASSUME NEW j \in Jobs, Authorize(j) PROVE TypeOK'
  BY <1>20, JobOperators, Put, JobOnly DEF Authorize, TypeOK
<1>21. ASSUME NEW j \in Jobs, Released(j) \in [Stages -> AllocationRecord], Cancel(j)
      PROVE  TypeOK'
  BY <1>21, JobOperators, Put DEF Cancel, TypeOK
<1>22. ASSUME NEW j \in Jobs PROVE Released(j) \in [Stages -> AllocationRecord]
  <2>1. 1 \in Stages /\ None \in Amounts
    BY FirstStage, Names
  <2>2. QED
    BY <2>1, AllocationOperators
<1>23. ASSUME NEW j \in Jobs, ResumeJob(j) PROVE TypeOK'
  <2>1. [job[j] EXCEPT !.state = "queued", !.reason = "none"] \in JobRecord
    BY <1>j, JobUpdates, Names, Zenon
  <2>2. job' \in [Jobs -> JobRecord]
    BY <1>23, <2>1, Put DEF ResumeJob, TypeOK
  <2>3. QED
    BY <1>23, <2>2, JobOnly DEF ResumeJob
<1>24. ASSUME NEW j \in Jobs, NEW s \in Stages, NEW action, ResolveAttempt(j, s, action)
       PROVE  TypeOK'
  <2> DEFINE d == Decided(j, s, action)
  <2>1. d \in AttemptRecord
    BY AttemptOperators
  <2>2. attempt' \in [Jobs -> [Stages -> AttemptRecord]]
    BY <1>24, <2>1, PutInner DEF ResolveAttempt, TypeOK
  <2>3. job' \in [Jobs -> JobRecord]
    BY <1>24, JobOperators, Put DEF ResolveAttempt, TypeOK
  <2>4. alloc' \in [Jobs -> [Stages -> AllocationRecord]]
    <3>1. d.cost \in Amounts
      BY <2>1 DEF AttemptRecord
    <3> HIDE DEF d
    <3>2. Released(j)[s] \in AllocationRecord
      BY <1>22
    <3>3. [Released(j)[s] EXCEPT !.actual = d.cost] \in AllocationRecord
      BY <3>1, <3>2, Zenon DEF AllocationRecord
    <3>4. [Released(j) EXCEPT ![s].actual = d.cost] \in [Stages -> AllocationRecord]
      BY <1>22, <3>3, Put
    <3>5. alloc' = [alloc EXCEPT ![j] = [Released(j) EXCEPT ![s].actual = d.cost]]
      BY <1>24 DEF ResolveAttempt, d
    <3>6. QED
      BY <3>4, <3>5, Put DEF TypeOK
  <2>5. QED
    BY <1>24, <2>2, <2>3, <2>4 DEF ResolveAttempt, TypeOK
<1>25. ASSUME NEW j \in Jobs, NEW s \in Stages, NEW amount \in Invoices,
              ReconcileAllocation(j, s, amount)
       PROVE  TypeOK'
  <2>0. amount \in Amounts
    BY ConstantsAssumption, Names DEF ConstantsAssumption
  <2>1. alloc' \in [Jobs -> [Stages -> AllocationRecord]]
    <3>1. [alloc[j][s] EXCEPT !.actual = amount] \in AllocationRecord
      BY <2>0, AllocationOperators
    <3>2. QED
      BY <1>25, <3>1, PutInner DEF ReconcileAllocation, TypeOK
  <2>2. attempt' \in [Jobs -> [Stages -> AttemptRecord]]
    <3>1. [attempt[j][s] EXCEPT !.cost = amount, !.usage = "financially_reconciled"]
            \in AttemptRecord
      BY <1>t, <2>0, AttemptUpdates, Names, Zenon
    <3>2. attempt \in [Jobs -> [Stages -> AttemptRecord]]
      BY DEF TypeOK
    <3>3. [attempt EXCEPT ![j][s] = [attempt[j][s] EXCEPT
                !.cost = amount, !.usage = "financially_reconciled"]]
            \in [Jobs -> [Stages -> AttemptRecord]]
      BY <3>1, <3>2, PutInner, Zenon
    <3>4. QED
      BY <1>25, <3>2, <3>3, Zenon DEF ReconcileAllocation
  <2>3. account' \in Account /\ hold' \in BOOLEAN
    <3>1. account \in Account /\ hold \in BOOLEAN
      BY DEF TypeOK
    <3>2. [account EXCEPT !.hold = "reservation_exceeded"] \in Account
      BY <3>1, AccountUpdates
    <3>3. \/ account' = account /\ hold' = hold
          \/ account' = [account EXCEPT !.hold = "reservation_exceeded"] /\ hold' = hold
          \/ account' = account /\ hold' = TRUE
      BY <1>25 DEF ReconcileAllocation
    <3>4. QED
      BY <3>1, <3>2, <3>3
  <2>4. QED
    BY <1>25, <2>1, <2>2, <2>3 DEF ReconcileAllocation, TypeOK
<1>26. ASSUME Pause \/ ResetBreaker PROVE TypeOK'
  <2>1. 0 \in 0 .. BreakerFailures
    BY ConstantsAssumption DEF ConstantsAssumption
  <2>2. CASE Pause
    BY <2>2 DEF Pause, TypeOK
  <2>3. CASE ResetBreaker
    BY <2>1, <2>3, Zenon DEF ResetBreaker, TypeOK
  <2>4. QED
    BY <1>26, <2>2, <2>3
<1>27. ASSUME ResumeControl \/ ResumePolicy PROVE TypeOK'
  <2>1. \A j \in Jobs : [job[j] EXCEPT !.state = "held", !.reason = "refused"] \in JobRecord
    BY <1>j, JobUpdates, Names, Zenon
  <2>2. job' \in [Jobs -> JobRecord]
    BY <1>j, <1>27, <2>1 DEF ResumeControl, ResumePolicy, HoldBacklog
  <2>3. QED
    BY <1>27, <2>2 DEF ResumeControl, ResumePolicy, TypeOK
<1>28. ASSUME NEW u \in Legacy, ImportArtifact(u) PROVE TypeOK'
  BY <1>28, ConstantsAssumption DEF ImportArtifact, TypeOK, Artifacts, ConstantsAssumption
<1>29. CASE UNCHANGED vars
  BY <1>29 DEF vars, TypeOK
<1>30. ASSUME NEW w \in Workers, WorkerStep(w) PROVE TypeOK'
  BY <1>1, <1>2, <1>3, <1>4, <1>5, <1>7, <1>8, <1>9, <1>10, <1>11, <1>12, <1>13, <1>15, <1>16,
     <1>30 DEF WorkerStep
<1>31. ASSUME OwnerStep PROVE TypeOK'
  BY <1>19, <1>20, <1>21, <1>22, <1>23, <1>24, <1>25, <1>26, <1>27, <1>28, <1>31 DEF OwnerStep
<1>32. QED
  BY <1>3, <1>17, <1>18, <1>19, <1>29, <1>30, <1>31 DEF Next

-----------------------------------------------------------------------------
(* Calls and their allocations.                                            *)

(* The steps that write an attempt, an allocation or a submission.         *)
LEMMA CallSteps ==
    ASSUME [Next]_vars
    PROVE  \/ UNCHANGED <<attempt, alloc, sends>>
           \/ \E w \in Workers :
                \/ ReconcileReceipt(w) \/ Claim(w) \/ Dispatch(w) \/ SendFails(w)
                \/ SaveReceipt(w) \/ SettleReceipt(w) \/ Publish(w)
           \/ \E j \in Jobs : Cancel(j)
           \/ \E j \in Jobs, s \in Stages :
                \/ \E action \in {"abandon_unknown", "not_sent"} : ResolveAttempt(j, s, action)
                \/ \E amount \in Invoices : ReconcileAllocation(j, s, amount)
  BY Zenon DEF Next, vars, WorkerStep, OwnerStep, BeginTick, ReconcileConflict, LoseOwnership,
     Replay, Refuse, Answer, ReceiptNotRecorded, UseReceipt, GenerateFails, PublishRefused,
     HandleFailure, Shutdown, Crash, LeaseLapses, CooldownEnds, Authorize, ResumeJob, Pause,
     ResumeControl, ResumePolicy, ResetBreaker, ResetProvider, ImportArtifact

(* A call stays sound when its attempt and its bound amount stay.          *)
LEMMA CallKept ==
    ASSUME NEW j, NEW s, CallSound(j, s),
           attempt'[j][s] = attempt[j][s], sends'[j][s] = sends[j][s],
           alloc'[j][s].phase = "bound" <=> alloc[j][s].phase = "bound",
           alloc[j][s].phase = "bound" => alloc'[j][s].actual = alloc[j][s].actual
    PROVE  CallSound(j, s)'
  BY DEF CallSound, Saved

(* What a submitted call has to satisfy after a step to be sound.          *)
LEMMA CallSubmitted ==
    ASSUME NEW j, NEW s,
           LET a == attempt'[j][s] IN
           /\ a.state # "none" /\ sends'[j][s] = 1 /\ alloc'[j][s].phase = "bound"
           /\ a.cost = alloc'[j][s].actual
           /\ a.settled => a.receipt # None
           /\ a.usage = "known" =>
                a.state = "received" /\ a.settled /\ a.cost # None /\ a.receipt.price = a.cost
           /\ a.receipt # None /\ ~a.settled => a.state \in UnresolvedOutcomes \cup {"not_sent"}
           /\ a.state = "not_sent" => a.cost # None
           /\ a.state \in {"received", "rejected"} => a.settled /\ a.state = StateOf(a.receipt)
    PROVE  CallSound(j, s)'
  BY DEF CallSound, Saved

(* Giving a call up as unknown keeps it sound.                             *)
LEMMA UnknownSound ==
    ASSUME TypeOK, NEW j \in Jobs, NEW s \in Stages, CallSound(j, s),
           attempt[j][s].state \in Unresolved, UNCHANGED <<alloc, sends>>,
           \/ attempt'[j][s] = [attempt[j][s] EXCEPT !.state = "unknown"]
           \/ attempt'[j][s] = [attempt[j][s] EXCEPT !.state = "unknown",
                                                     !.error = "provider_outcome_unknown"]
    PROVE  CallSound(j, s)'
<1>1. attempt[j][s] \in AttemptRecord
  BY DEF TypeOK
<1>2. /\ attempt'[j][s].state = "unknown"
      /\ attempt'[j][s].receipt = attempt[j][s].receipt
      /\ attempt'[j][s].settled = attempt[j][s].settled
      /\ attempt'[j][s].usage = attempt[j][s].usage
      /\ attempt'[j][s].cost = attempt[j][s].cost
  BY <1>1 DEF AttemptRecord
<1>3. attempt[j][s].state \notin {"none", "received"}
  BY DEF Unresolved
<1>4. "unknown" \in UnresolvedOutcomes
  BY DEF UnresolvedOutcomes, Unresolved
<1>5. /\ sends[j][s] = 1 /\ alloc[j][s].phase = "bound"
      /\ attempt[j][s].cost = alloc[j][s].actual
      /\ attempt[j][s].settled => attempt[j][s].receipt # None
      /\ attempt[j][s].usage # "known"
  BY <1>3 DEF CallSound
<1>6. QED
  BY <1>2, <1>4, <1>5, CallSubmitted

(* An answer that is used has a price.                                     *)
LEMMA ReceiptPriced ==
    ASSUME NEW r \in Receipts, r.kind = "ok"
    PROVE  r.price # None
<1>1. r \in [kind : Answers \cap {"ok"}, price : Prices]
  BY DEF Receipts
<1>2. r.price \in Nat
  BY <1>1, ConstantsAssumption DEF ConstantsAssumption
<1>3. QED
  BY <1>2, ConstantsAssumption DEF ConstantsAssumption

(* Settling a saved receipt keeps every call sound.                        *)
LEMMA SettleSound ==
    ASSUME TypeOK, CallsSound, NEW j \in Jobs, NEW s \in Stages,
           attempt[j][s].receipt # None, Settle(j, s), UNCHANGED sends
    PROVE  CallsSound'
<1> DEFINE r == attempt[j][s].receipt
<1>1. CASE attempt[j][s].settled
  BY <1>1 DEF Settle, CallsSound, CallSound, Saved
<1>2. CASE ~attempt[j][s].settled
  <2>1. /\ attempt' = [attempt EXCEPT ![j][s] = Settled(j, s)]
        /\ alloc' = [alloc EXCEPT ![j][s].actual = r.price]
    BY <1>2 DEF Settle
  <2>2. ASSUME NEW k \in Jobs, NEW t \in Stages, k # j \/ t # s PROVE CallSound(k, t)'
    <3>1. attempt'[k][t] = attempt[k][t] /\ alloc'[k][t] = alloc[k][t]
      BY <2>1, <2>2 DEF TypeOK
    <3>2. QED
      BY <3>1, CallKept DEF CallsSound
  <2>3. CallSound(j, s)'
    <3>1. attempt[j][s] \in AttemptRecord /\ r \in Receipts
      BY DEF TypeOK, AttemptRecord
    <3>2. /\ attempt'[j][s] = Settled(j, s)
          /\ alloc'[j][s].actual = r.price /\ alloc'[j][s].phase = alloc[j][s].phase
      BY <2>1 DEF TypeOK, AllocationRecord
    <3>3. /\ Settled(j, s).state = StateOf(r) /\ Settled(j, s).usage = UsageOf(r)
          /\ Settled(j, s).cost = r.price /\ Settled(j, s).settled = TRUE
          /\ Settled(j, s).receipt = r
      BY <3>1 DEF Settled, AttemptRecord
    <3>4. /\ StateOf(r) # "none" /\ StateOf(r) # "not_sent"
          /\ UsageOf(r) = "known" => r.kind = "ok" /\ StateOf(r) = "received"
      BY DEF StateOf, UsageOf
    <3>5. CallSound(j, s) /\ attempt[j][s].state # "none"
      BY <1>2 DEF CallsSound, CallSound, Saved, UnresolvedOutcomes, Unresolved
    <3>6. UsageOf(r) = "known" => r.price # None
      BY <3>1, <3>4, ReceiptPriced
    <3> HIDE DEF r
    <3>7. r # None
      BY DEF r
    <3>8. QED
      BY <3>2, <3>3, <3>4, <3>5, <3>6, <3>7 DEF CallSound, Saved
  <2>4. QED
    BY <2>2, <2>3 DEF CallsSound
<1>3. QED
  BY <1>1, <1>2

(* Releasing or reserving never touches a bound allocation.                *)
LEMMA ReleasedFrame ==
    ASSUME TypeOK, NEW j \in Jobs, NEW s \in Stages
    PROVE  /\ Released(j)[s].phase = alloc[j][s].phase
           /\ alloc[j][s].phase = "bound" => Released(j)[s] = alloc[j][s]
           /\ alloc[j][s].actual # None => Released(j)[s].actual = alloc[j][s].actual
           /\ alloc[j][s].phase = "reserved" => Released(j)[s].actual # None
<1>1. alloc[j][s] \in AllocationRecord
  BY DEF TypeOK
<1>2. 0 # None
  BY ConstantsAssumption DEF ConstantsAssumption
<1>3. QED
  BY <1>1, <1>2 DEF Released, AllocationRecord

(* Admission binds one allocation and changes no amount.                   *)
LEMMA ReservedFrame ==
    ASSUME TypeOK, NEW j \in Jobs, NEW s \in Stages, NEW t \in Stages
    PROVE  /\ Reserved(j, s)[t].actual = alloc[j][t].actual
           /\ Reserved(j, s)[s].phase = "bound"
           /\ t # s /\ (alloc[j][t].phase = "bound" => t <= job[j].calls) =>
                (Reserved(j, s)[t].phase = "bound" <=> alloc[j][t].phase = "bound")
<1>1. alloc[j][t] \in AllocationRecord /\ alloc[j][s] \in AllocationRecord
  BY DEF TypeOK
<1>2. t \in Nat /\ job[j].calls \in Nat
  BY DEF Stages, TypeOK, JobRecord
<1>3. QED
  BY <1>1, <1>2 DEF Reserved, AllocationRecord

(* Every step keeps every call sound.                                      *)
LEMMA CallsStep == LedgerInvariant /\ [Next]_vars => CallsSound'
<1> SUFFICES ASSUME LedgerInvariant, [Next]_vars PROVE CallsSound'
  OBVIOUS
<1>0. TypeOK /\ CallsSound /\ CallsCounted /\ WorkersSound
  BY DEF LedgerInvariant
<1>t. \A j \in Jobs, s \in Stages : attempt[j][s] \in AttemptRecord
  BY <1>0 DEF TypeOK
<1>1. CASE UNCHANGED <<attempt, alloc, sends>>
  BY <1>0, <1>1 DEF CallsSound, CallSound, Saved
<1>2. ASSUME NEW w \in Workers, ReconcileReceipt(w) PROVE CallsSound'
  <2>1. PICK a \in worker[w].todo : Settle(a[1], a[2])
    BY <1>2 DEF ReconcileReceipt
  <2>2. a[1] \in Jobs /\ a[2] \in Stages
    BY <1>0 DEF TypeOK, WorkerRecord
  <2>3. attempt[a[1]][a[2]].receipt # None
    BY <1>0 DEF WorkersSound, WorkerSound
  <2>4. QED
    BY <1>0, <1>2, <2>1, <2>2, <2>3, SettleSound DEF ReconcileReceipt
<1>3. ASSUME NEW w \in Workers, Claim(w) PROVE CallsSound'
  <2> SUFFICES ASSUME NEW j \in Jobs, NEW s \in Stages PROVE CallSound(j, s)'
    BY DEF CallsSound
  <2>1. CASE attempt'[j][s] = attempt[j][s]
    BY <1>0, <1>3, <2>1, CallKept DEF Claim, CallsSound
  <2>2. CASE /\ attempt[j][s].state \in Unresolved
             /\ attempt'[j][s] = [attempt[j][s] EXCEPT !.state = "unknown"]
    BY <1>0, <1>3, <2>2, UnknownSound DEF Claim, CallsSound
  <2>3. QED
    BY <1>3, <2>1, <2>2 DEF Claim
<1>4. ASSUME NEW w \in Workers, Dispatch(w) PROVE CallsSound'
  <2>0. PICK j \in Jobs, s \in Stages :
            j = worker[w].job /\ s = worker[w].stage /\ attempt[j][s].state = "none"
    BY <1>4 DEF Dispatch, Owns, Admissible
  <2>1. /\ attempt' = [attempt EXCEPT ![j][s] = [NoAttempt EXCEPT !.state = "dispatching"]]
        /\ alloc' = [alloc EXCEPT ![j] = Reserved(j, s)]
        /\ sends' = [sends EXCEPT ![j][s] = sends[j][s] + 1]
        /\ alloc[j][s].actual = None
    BY <1>4, <2>0 DEF Dispatch, Admissible
  <2>2. CallSound(j, s)'
    <3>1. attempt'[j][s] = [NoAttempt EXCEPT !.state = "dispatching"]
      BY <1>0, <2>0, <2>1 DEF TypeOK
    <3>2. alloc'[j][s].phase = "bound" /\ alloc'[j][s].actual = None
      BY <1>0, <2>0, <2>1, ReservedFrame DEF TypeOK
    <3>3. sends'[j][s] = 1
      BY <1>0, <2>0, <2>1 DEF TypeOK, CallsSound, CallSound
    <3>4. /\ attempt'[j][s].state = "dispatching" /\ attempt'[j][s].cost = None
          /\ attempt'[j][s].receipt = None /\ attempt'[j][s].usage = "none"
          /\ attempt'[j][s].settled = FALSE
      BY <3>1 DEF NoAttempt
    <3>5. QED
      BY <3>2, <3>3, <3>4, CallSubmitted
  <2>3. ASSUME NEW k \in Jobs, NEW t \in Stages, k # j \/ t # s PROVE CallSound(k, t)'
    <3>1. attempt'[k][t] = attempt[k][t] /\ sends'[k][t] = sends[k][t]
      BY <1>0, <2>1, <2>3 DEF TypeOK
    <3>2. CASE k # j
      <4>1. alloc'[k][t] = alloc[k][t]
        BY <1>0, <2>1, <3>2 DEF TypeOK
      <4>2. QED
        BY <1>0, <3>1, <4>1, CallKept DEF CallsSound
    <3>3. CASE k = j
      <4>1. alloc[j][t].phase = "bound" => t <= job[j].calls
        BY <1>0, <2>0 DEF CallsSound, CallSound, CallsCounted, JobCounted
      <4>2. alloc'[j][t] = Reserved(j, s)[t]
        BY <1>0, <2>0, <2>1 DEF TypeOK
      <4>3. QED
        BY <1>0, <2>0, <2>3, <3>1, <3>3, <4>1, <4>2, ReservedFrame, CallKept DEF CallsSound
    <3>4. QED
      BY <3>2, <3>3
  <2>4. QED
    BY <2>2, <2>3 DEF CallsSound
<1>5. ASSUME NEW w \in Workers, SendFails(w) PROVE CallsSound'
  <2>0. PICK j \in Jobs, s \in Stages :
            /\ j = worker[w].job /\ s = worker[w].stage
            /\ attempt[j][s].state \in Unresolved
    BY <1>0, <1>5 DEF SendFails, WorkersSound, WorkerSound, Sending, Holding
  <2>1. CASE /\ attempt' = [attempt EXCEPT ![j][s] = [attempt[j][s] EXCEPT
                    !.state = "unknown", !.error = "provider_outcome_unknown"]]
             /\ alloc' = [alloc EXCEPT ![j][s].actual = attempt[j][s].cost]
    <3>1. ASSUME NEW k \in Jobs, NEW t \in Stages, k # j \/ t # s PROVE CallSound(k, t)'
      <4>1. attempt'[k][t] = attempt[k][t] /\ alloc'[k][t] = alloc[k][t]
        BY <1>0, <2>1, <3>1 DEF TypeOK
      <4>2. sends' = sends
        BY <1>5 DEF SendFails
      <4>3. QED
        BY <1>0, <4>1, <4>2, CallKept DEF CallsSound
    <3>2. CallSound(j, s)'
      <4>1. attempt'[j][s] = [attempt[j][s] EXCEPT
                    !.state = "unknown", !.error = "provider_outcome_unknown"]
        BY <1>0, <2>0, <2>1 DEF TypeOK
      <4>2. CallSound(j, s)
        BY <1>0, <2>0 DEF CallsSound
      <4>3. alloc' = alloc
        <5>1. alloc[j][s].actual = attempt[j][s].cost
          BY <2>0, <4>2 DEF CallSound, Unresolved
        <5>2. [alloc EXCEPT ![j][s].actual = alloc[j][s].actual] = alloc
          BY <1>0 DEF TypeOK, AllocationRecord
        <5>3. QED
          BY <2>1, <5>1, <5>2
      <4>4. sends' = sends
        BY <1>5 DEF SendFails
      <4>5. QED
        BY <1>0, <2>0, <4>1, <4>2, <4>3, <4>4, UnknownSound
    <3>3. QED
      BY <3>1, <3>2 DEF CallsSound
  <2>2. CASE UNCHANGED <<attempt, alloc>>
    BY <1>1, <1>5, <2>2 DEF SendFails
  <2>3. QED
    BY <1>5, <2>0, <2>1, <2>2 DEF SendFails
<1>6. ASSUME NEW w \in Workers, SaveReceipt(w) PROVE CallsSound'
  <2>0. PICK j \in Jobs, s \in Stages :
            /\ j = worker[w].job /\ s = worker[w].stage
            /\ attempt[j][s].state \in Unresolved /\ ~attempt[j][s].settled
            /\ worker[w].receipt # None
    BY <1>0, <1>6 DEF SaveReceipt, WorkersSound, WorkerSound, Sending, Holding
  <2>1. /\ attempt' = [attempt EXCEPT ![j][s].receipt = worker[w].receipt]
        /\ UNCHANGED <<alloc, sends>>
    BY <1>6, <2>0 DEF SaveReceipt
  <2>2. ASSUME NEW k \in Jobs, NEW t \in Stages, k # j \/ t # s PROVE CallSound(k, t)'
    <3>1. attempt'[k][t] = attempt[k][t]
      BY <1>0, <2>1, <2>2 DEF TypeOK
    <3>2. QED
      BY <1>0, <2>1, <3>1, CallKept DEF CallsSound
  <2>3. CallSound(j, s)'
    <3>1. /\ attempt'[j][s].state = attempt[j][s].state
          /\ attempt'[j][s].receipt = worker[w].receipt
          /\ attempt'[j][s].settled = attempt[j][s].settled
          /\ attempt'[j][s].usage = attempt[j][s].usage
          /\ attempt'[j][s].cost = attempt[j][s].cost
      BY <1>0, <1>t, <2>1 DEF TypeOK, AttemptRecord
    <3>2. attempt[j][s].state \notin {"none", "received", "rejected", "not_sent"}
      BY <2>0 DEF Unresolved
    <3>3. attempt[j][s].state \in UnresolvedOutcomes
      BY <2>0 DEF UnresolvedOutcomes
    <3>4. CallSound(j, s)
      BY <1>0 DEF CallsSound
    <3>5. /\ sends[j][s] = 1 /\ alloc[j][s].phase = "bound"
          /\ attempt[j][s].cost = alloc[j][s].actual /\ attempt[j][s].usage # "known"
      BY <3>2, <3>4 DEF CallSound
    <3>6. QED
      BY <2>0, <2>1, <3>1, <3>2, <3>3, <3>5, CallSubmitted
  <2>4. QED
    BY <2>2, <2>3 DEF CallsSound
<1>7. ASSUME NEW w \in Workers, SettleReceipt(w) PROVE CallsSound'
  <2>1. /\ worker[w].job \in Jobs /\ worker[w].stage \in Stages
        /\ attempt[worker[w].job][worker[w].stage].receipt # None
    BY <1>0, <1>7 DEF SettleReceipt, WorkersSound, WorkerSound, Sending, Holding
  <2>2. QED
    BY <1>0, <1>7, <2>1, SettleSound DEF SettleReceipt
<1>8. ASSUME NEW j \in Jobs, alloc' = [alloc EXCEPT ![j] = Released(j)],
             UNCHANGED <<attempt, sends>>
      PROVE  CallsSound'
  <2> SUFFICES ASSUME NEW k \in Jobs, NEW t \in Stages PROVE CallSound(k, t)'
    BY DEF CallsSound
  <2>1. alloc'[k][t] = IF k = j THEN Released(j)[t] ELSE alloc[k][t]
    BY <1>0, <1>8 DEF TypeOK
  <2>2. QED
    BY <1>0, <1>8, <2>1, ReleasedFrame, CallKept DEF CallsSound
<1>9. ASSUME NEW w \in Workers, Publish(w) PROVE CallsSound'
  BY <1>8, <1>9 DEF Publish, Owns
<1>10. ASSUME NEW j \in Jobs, Cancel(j) PROVE CallsSound'
  BY <1>8, <1>10 DEF Cancel
<1>11. ASSUME NEW j \in Jobs, NEW s \in Stages, NEW action, ResolveAttempt(j, s, action)
       PROVE  CallsSound'
  <2> DEFINE d == Decided(j, s, action)
  <2>1. /\ attempt' = [attempt EXCEPT ![j][s] = d]
        /\ alloc' = [alloc EXCEPT ![j] = [Released(j) EXCEPT ![s].actual = d.cost]]
        /\ sends' = sends
        /\ attempt[j][s].state # "none" /\ attempt[j][s].usage # "known"
    BY <1>11 DEF ResolveAttempt
  <2>2. d.settled = attempt[j][s].settled /\ d.receipt = attempt[j][s].receipt
    BY <1>t DEF Decided, AttemptRecord
  <2>3. /\ d.state \in {"not_sent", "abandoned"} /\ d.usage # "known"
        /\ d.state = "not_sent" => d.cost # None
    BY <1>t, <2>1, ConstantsAssumption DEF Decided, AttemptRecord, ConstantsAssumption
  <2> HIDE DEF d
  <2>4. ASSUME NEW k \in Jobs, NEW t \in Stages, k # j \/ t # s PROVE CallSound(k, t)'
    <3>1. attempt'[k][t] = attempt[k][t]
      BY <1>0, <2>1, <2>4 DEF TypeOK
    <3>2. alloc'[k][t] = IF k = j THEN Released(j)[t] ELSE alloc[k][t]
      <4>1. CASE k = j
        <5>1. alloc'[j] = [Released(j) EXCEPT ![s].actual = d.cost]
          BY <1>0, <2>1 DEF TypeOK
        <5>2. DOMAIN Released(j) = Stages
          BY DEF Released
        <5>3. QED
          BY <2>4, <4>1, <5>1, <5>2
      <4>2. CASE k # j
        BY <1>0, <2>1, <4>2 DEF TypeOK
      <4>3. QED
        BY <4>1, <4>2
    <3>3. /\ alloc'[k][t].phase = "bound" <=> alloc[k][t].phase = "bound"
          /\ alloc[k][t].phase = "bound" => alloc'[k][t].actual = alloc[k][t].actual
      BY <1>0, <3>2, ReleasedFrame
    <3>4. QED
      BY <1>0, <2>1, <3>1, <3>3, CallKept DEF CallsSound
  <2>5. CallSound(j, s)'
    <3>1. attempt'[j][s] = d
      BY <1>0, <2>1 DEF TypeOK
    <3>2. sends[j][s] = 1 /\ alloc[j][s].phase = "bound" /\ CallSound(j, s)
      BY <1>0, <2>1 DEF CallsSound, CallSound
    <3>3. alloc'[j][s].actual = d.cost /\ alloc'[j][s].phase = "bound"
      <4>1. Released(j)[s] = alloc[j][s]
        BY <1>0, <3>2, ReleasedFrame
      <4>2. alloc[j][s] \in AllocationRecord
        BY <1>0 DEF TypeOK
      <4>3. alloc'[j][s] = [alloc[j][s] EXCEPT !.actual = d.cost]
        BY <1>0, <2>1, <4>1 DEF TypeOK, Released
      <4>4. QED
        BY <3>2, <4>2, <4>3 DEF AllocationRecord
    <3>4. "abandoned" \in UnresolvedOutcomes
      BY DEF UnresolvedOutcomes
    <3>5. d.settled => d.receipt # None
      BY <2>2, <3>2 DEF CallSound
    <3>6. QED
      BY <2>1, <2>3, <3>1, <3>2, <3>3, <3>4, <3>5, CallSubmitted
  <2>6. QED
    BY <2>4, <2>5 DEF CallsSound
<1>12. ASSUME NEW j \in Jobs, NEW s \in Stages, NEW amount \in Invoices,
              ReconcileAllocation(j, s, amount)
       PROVE  CallsSound'
  <2>0. /\ alloc' = [alloc EXCEPT ![j][s].actual = amount]
        /\ sends' = sends /\ amount # None
    BY <1>12, ConstantsAssumption DEF ReconcileAllocation, ConstantsAssumption
  <2>1. alloc'[j][s].phase = alloc[j][s].phase /\ alloc'[j][s].actual = amount
    BY <1>0, <2>0 DEF TypeOK, AllocationRecord
  <2>2. ASSUME NEW k \in Jobs, NEW t \in Stages, k # j \/ t # s PROVE CallSound(k, t)'
    <3>1. alloc'[k][t] = alloc[k][t]
      BY <1>0, <2>0, <2>2 DEF TypeOK
    <3>2. attempt'[k][t] = attempt[k][t]
      BY <1>0, <1>12, <2>2 DEF ReconcileAllocation, TypeOK
    <3>3. QED
      BY <1>0, <2>0, <3>1, <3>2, CallKept DEF CallsSound
  <2>3. CASE alloc[j][s].phase = "bound" /\ attempt[j][s].cost = None
    <3>1. attempt' = [attempt EXCEPT ![j][s] = [attempt[j][s] EXCEPT
                !.cost = amount, !.usage = "financially_reconciled"]]
      BY <1>12, <2>3 DEF ReconcileAllocation
    <3>2. attempt'[j][s] = [attempt[j][s] EXCEPT
                !.cost = amount, !.usage = "financially_reconciled"]
      BY <1>0, <3>1 DEF TypeOK
    <3>3. /\ attempt'[j][s].state = attempt[j][s].state
          /\ attempt'[j][s].receipt = attempt[j][s].receipt
          /\ attempt'[j][s].settled = attempt[j][s].settled
          /\ attempt'[j][s].usage = "financially_reconciled"
          /\ attempt'[j][s].cost = amount
      BY <1>t, <3>2 DEF AttemptRecord
    <3>4. CallSound(j, s)
      BY <1>0 DEF CallsSound
    <3>5. /\ attempt[j][s].state # "none" /\ sends[j][s] = 1
          /\ attempt[j][s].settled => attempt[j][s].receipt # None
          /\ attempt[j][s].state \in {"received", "rejected"} =>
                attempt[j][s].settled /\ attempt[j][s].state = StateOf(attempt[j][s].receipt)
          /\ attempt[j][s].state = "not_sent" => attempt[j][s].cost # None
          /\ attempt[j][s].receipt # None /\ ~attempt[j][s].settled =>
                attempt[j][s].state \in UnresolvedOutcomes \cup {"not_sent"}
      BY <2>3, <3>4 DEF CallSound, Saved
    <3>6. CallSound(j, s)'
      BY <2>0, <2>1, <2>3, <3>3, <3>5, CallSubmitted
    <3>7. QED
      BY <2>2, <3>6 DEF CallsSound
  <2>4. CASE ~(alloc[j][s].phase = "bound" /\ attempt[j][s].cost = None)
    <3>1. attempt' = attempt
      BY <1>12, <2>4 DEF ReconcileAllocation
    <3>2. CallSound(j, s)
      BY <1>0 DEF CallsSound
    <3>3. alloc[j][s].phase = "bound" => alloc[j][s].actual = amount
      BY <1>12, <2>4, <3>2 DEF ReconcileAllocation, CallSound
    <3>4. CallSound(j, s)'
      BY <2>0, <2>1, <3>1, <3>2, <3>3, CallKept
    <3>5. QED
      BY <2>2, <3>4 DEF CallsSound
  <2>5. QED
    BY <2>3, <2>4
<1>13. QED
  BY <1>1, <1>2, <1>3, <1>4, <1>5, <1>6, <1>7, <1>9, <1>10, <1>11, <1>12, CallSteps
-----------------------------------------------------------------------------
(* Jobs: what a step may do to one.                                        *)

(* The actions that write a job.                                           *)
LEMMA JobSteps ==
    ASSUME [Next]_vars
    PROVE  \/ job' = job
           \/ \E w \in Workers :
                Claim(w) \/ Dispatch(w) \/ Publish(w) \/ HandleFailure(w) \/ Shutdown(w)
           \/ \E j \in Jobs : LeaseLapses(j) \/ Authorize(j) \/ Cancel(j) \/ ResumeJob(j)
           \/ \E j \in Jobs, s \in Stages, action \in {"abandon_unknown", "not_sent"} :
                ResolveAttempt(j, s, action)
           \/ HoldBacklog
  BY Zenon DEF Next, vars, WorkerStep, OwnerStep, BeginTick, ReconcileReceipt, SendFails,
     SaveReceipt, SettleReceipt, ReconcileAllocation, ReconcileConflict, LoseOwnership,
     Replay, Refuse, Answer, ReceiptNotRecorded, UseReceipt, GenerateFails, PublishRefused,
     Crash, CooldownEnds, Pause, ResumeControl, ResumePolicy, ResetBreaker, ResetProvider,
     ImportArtifact

(* The fields the updates of a job write.                                  *)
LEMMA JobFields ==
    ASSUME TypeOK, NEW j \in Jobs
    PROVE  /\ job[j].fence \in Nat /\ job[j].calls \in Nat
           /\ AfterLapse(j).calls = job[j].calls
           /\ AfterLapse(j).fence = job[j].fence + (IF Lapsed(j) THEN 1 ELSE 0)
           /\ AfterLapse(j).state = job[j].state \/ (/\ job[j].state = "running"
                    /\ AfterLapse(j).state \in {"queued", "needs_attention"})
           /\ AfterLapse(j).expected = job[j].expected
           /\ Claimed(j).calls = job[j].calls
           /\ Claimed(j).fence = AfterLapse(j).fence + 1
           /\ Claimed(j).state = "running"
           /\ Claimed(j).expected = job[j].expected
           /\ GivenUp(j).calls = job[j].calls /\ GivenUp(j).fence = job[j].fence + 1
           /\ GivenUp(j).state = "held" /\ GivenUp(j).expected = job[j].expected
           /\ Withdrawn(j).calls = job[j].calls /\ Withdrawn(j).fence = job[j].fence + 1
           /\ Withdrawn(j).state = "cancelled"
<1>1. job[j] \in JobRecord
  BY DEF TypeOK
<1>2. AfterLapse(j) \in JobRecord
  BY JobOperators
<1>3. job[j].fence \in Nat /\ job[j].calls \in Nat
  BY <1>1 DEF JobRecord
<1>4. /\ AfterLapse(j).calls = job[j].calls
      /\ AfterLapse(j).fence = job[j].fence + (IF Lapsed(j) THEN 1 ELSE 0)
      /\ AfterLapse(j).state = job[j].state \/ (/\ job[j].state = "running"
                    /\ AfterLapse(j).state \in {"queued", "needs_attention"})
      /\ AfterLapse(j).expected = job[j].expected
  BY <1>1, <1>3 DEF AfterLapse, Lapsed, JobRecord
<1>5. /\ Claimed(j).calls = AfterLapse(j).calls
      /\ Claimed(j).fence = AfterLapse(j).fence + 1
      /\ Claimed(j).state = "running"
      /\ Claimed(j).expected = AfterLapse(j).expected
  BY <1>2 DEF Claimed, JobRecord
<1>6. QED
  BY <1>1, <1>3, <1>4, <1>5 DEF GivenUp, Withdrawn, JobRecord

(* A job once authorized exists for good and never gets an older fence;    *)
(* only admission counts a call, only publication completes a job, only    *)
(* authorization makes a job active.                                       *)
LEMMA JobEffects ==
    ASSUME LedgerInvariant, [Next]_vars, NEW j \in Jobs
    PROVE  /\ job[j].state # "absent" =>
                job'[j].state # "absent" /\ job[j].fence <= job'[j].fence
           /\ \/ job'[j].calls = job[j].calls
              \/ \E w \in Workers : Dispatch(w) /\ worker[w].job = j
           /\ job'[j].state = "succeeded" =>
                \/ job[j].state = "succeeded"
                \/ \E w \in Workers : Publish(w) /\ worker[w].job = j
           /\ job'[j].state = "cancelled" =>
                \/ job[j].state = "cancelled"
                \/ Cancel(j)
                \/ \E s \in Stages, action \in {"abandon_unknown", "not_sent"} :
                        ResolveAttempt(j, s, action)
           /\ job'[j].state \in ActiveStates =>
                job[j].state \in ActiveStates \/ Authorize(j)
<1> DEFINE Effect ==
        /\ job[j].state # "absent" =>
                job'[j].state # "absent" /\ job[j].fence <= job'[j].fence
        /\ \/ job'[j].calls = job[j].calls
           \/ \E w \in Workers : Dispatch(w) /\ worker[w].job = j
        /\ job'[j].state = "succeeded" =>
             \/ job[j].state = "succeeded"
             \/ \E w \in Workers : Publish(w) /\ worker[w].job = j
        /\ job'[j].state = "cancelled" =>
             \/ job[j].state = "cancelled"
             \/ Cancel(j)
             \/ \E s \in Stages, action \in {"abandon_unknown", "not_sent"} :
                        ResolveAttempt(j, s, action)
        /\ job'[j].state \in ActiveStates =>
                job[j].state \in ActiveStates \/ Authorize(j)
<1>0. TypeOK /\ CallsCounted /\ WorkersSound
  BY DEF LedgerInvariant
<1>j. job[j] \in JobRecord /\ job[j].fence \in Nat
  BY <1>0 DEF TypeOK, JobRecord
<1>1. CASE job'[j] = job[j]
  BY <1>j, <1>1
(* A step that writes the job without ending it or counting a call.        *)
<1>2. ASSUME job[j].state \in ActiveStates, job'[j].state \in ActiveStates,
             job'[j].calls = job[j].calls,
             job'[j].fence \in job[j].fence .. job[j].fence + 2
      PROVE  Effect
  BY <1>2, <1>j DEF ActiveStates
<1>3. ASSUME NEW w \in Workers, Claim(w) PROVE Effect
  <2>1. CASE job'[j] = AfterLapse(j)
    BY <1>0, <1>1, <1>2, <1>j, <2>1, JobFields DEF AfterLapse, ActiveStates
  <2>2. CASE job'[j] = Claimed(j) /\ Eligible(j)
    BY <1>0, <1>2, <1>j, <2>2, JobFields DEF Eligible, ActiveStates
  <2>3. QED
    BY <1>3, <2>1, <2>2 DEF Claim
<1>4. ASSUME NEW w \in Workers, Dispatch(w) PROVE Effect
  <2>1. CASE worker[w].job # j
    <3>1. job'[j] = job[j]
      BY <1>0, <1>4, <2>1 DEF Dispatch, TypeOK
    <3>2. QED
      BY <1>1, <3>1
  <2>2. CASE worker[w].job = j
    <3>1. job'[j] = [job[j] EXCEPT !.calls = job[j].calls + 1]
      BY <1>0, <1>4, <2>2 DEF Dispatch, TypeOK
    <3>2. /\ job'[j].state = "running" /\ job[j].state = "running"
          /\ job'[j].fence = job[j].fence
      BY <1>4, <1>j, <2>2, <3>1 DEF Dispatch, Owns, JobRecord
    <3>3. QED
      BY <1>4, <1>j, <2>2, <3>2 DEF ActiveStates
  <2>3. QED
    BY <2>1, <2>2
(* Leaving "running" for another state.                                    *)
<1>5. ASSUME NEW k \in Jobs, NEW state, NEW code, Leave(k, state, code)
      PROVE  /\ k # j => job'[j] = job[j]
             /\ k = j => /\ job'[j].state = state /\ job'[j].calls = job[j].calls
                         /\ job'[j].fence = job[j].fence
  BY <1>0, <1>5, <1>j DEF Leave, TypeOK, JobRecord
<1>6. ASSUME NEW w \in Workers, Publish(w) PROVE Effect
  <2>1. worker[w].job \in Jobs
    BY <1>6 DEF Publish, Owns
  <2>2. CASE worker[w].job # j
    BY <1>1, <1>5, <1>6, <2>1, <2>2 DEF Publish
  <2>3. CASE worker[w].job = j
    <3>1. /\ job'[j].state = "succeeded" /\ job'[j].calls = job[j].calls
          /\ job'[j].fence = job[j].fence
      BY <1>5, <1>6, <2>1, <2>3 DEF Publish
    <3>2. QED
      BY <1>6, <1>j, <2>3, <3>1 DEF ActiveStates
  <2>4. QED
    BY <2>2, <2>3
<1>7. ASSUME NEW w \in Workers, HandleFailure(w) PROVE Effect
  <2>1. PICK k \in Jobs, state \in ActiveStates :
            /\ k = worker[w].job /\ job[k].state = "running"
            /\ Leave(k, state, worker[w].code)
    BY <1>7 DEF HandleFailure, Owns, ActiveStates
  <2>2. CASE k # j
    BY <1>1, <1>5, <2>1, <2>2
  <2>3. CASE k = j
    BY <1>2, <1>5, <1>j, <2>1, <2>3 DEF ActiveStates
  <2>4. QED
    BY <2>2, <2>3
<1>8. ASSUME NEW w \in Workers, Shutdown(w) PROVE Effect
  <2>1. worker[w].job \in Jobs
    BY <1>0, <1>8 DEF Shutdown, WorkersSound, WorkerSound
  <2>2. CASE worker[w].job # j
    BY <1>0, <1>1, <1>8, <2>2 DEF Shutdown, TypeOK
  <2>3. CASE worker[w].job = j
    <3>1. job'[j] = GivenUp(j) /\ job[j].state = "running"
      BY <1>0, <1>8, <2>3 DEF Shutdown, TypeOK
    <3>2. QED
      BY <1>0, <1>2, <1>j, <3>1, JobFields DEF ActiveStates
  <2>4. QED
    BY <2>2, <2>3
<1>9. ASSUME NEW k \in Jobs, LeaseLapses(k) PROVE Effect
  <2>1. CASE k # j
    BY <1>0, <1>1, <1>9, <2>1 DEF LeaseLapses, TypeOK
  <2>2. CASE k = j
    <3>1. job'[j] = [job[j] EXCEPT !.live = FALSE] /\ job[j].state = "running"
      BY <1>0, <1>9, <2>2 DEF LeaseLapses, TypeOK
    <3>2. /\ job'[j].state = job[j].state /\ job'[j].calls = job[j].calls
          /\ job'[j].fence = job[j].fence
      BY <1>j, <3>1 DEF JobRecord
    <3>3. QED
      BY <1>2, <1>j, <3>1, <3>2 DEF ActiveStates
  <2>3. QED
    BY <2>1, <2>2
<1>10. ASSUME NEW k \in Jobs, Authorize(k) PROVE Effect
  <2>1. CASE k # j
    BY <1>0, <1>1, <1>10, <2>1 DEF Authorize, TypeOK
  <2>2. CASE k = j
    <3>1. job'[j] = [NoJob EXCEPT !.state = "queued", !.expected = head[SubjectOf[j]]]
      BY <1>0, <1>10, <2>2 DEF Authorize, TypeOK
    <3>2. job'[j].state = "queued" /\ job'[j].calls = 0 /\ job[j].state = "absent"
      BY <1>10, <2>2, <3>1 DEF Authorize, NoJob
    <3>3. job[j].calls = 0
      BY <1>0, <3>2 DEF CallsCounted, JobCounted
    <3>4. QED
      BY <1>10, <2>2, <3>2, <3>3
  <2>3. QED
    BY <2>1, <2>2
(* Cancellation, by the owner or with the decision about a call.           *)
<1>11. ASSUME NEW k \in Jobs, job' = [job EXCEPT ![k] = Withdrawn(k)],
              \/ Cancel(k)
              \/ \E s \in Stages, action \in {"abandon_unknown", "not_sent"} :
                    ResolveAttempt(k, s, action)
       PROVE  Effect
  <2>1. CASE k # j
    BY <1>0, <1>1, <1>11, <2>1 DEF TypeOK
  <2>2. CASE k = j
    <3>1. job'[j] = Withdrawn(j)
      BY <1>0, <1>11, <2>2 DEF TypeOK
    <3>2. QED
      BY <1>0, <1>11, <1>j, <2>2, <3>1, JobFields DEF ActiveStates
  <2>3. QED
    BY <2>1, <2>2
<1>12. ASSUME NEW k \in Jobs, ResumeJob(k) PROVE Effect
  <2>1. CASE k # j
    BY <1>0, <1>1, <1>12, <2>1 DEF ResumeJob, TypeOK
  <2>2. CASE k = j
    <3>1. /\ job'[j] = [job[j] EXCEPT !.state = "queued", !.reason = "none"]
          /\ job[j].state \in ActiveStates
      BY <1>0, <1>12, <2>2 DEF ResumeJob, ReceiptReview, TypeOK, ActiveStates
    <3>2. /\ job'[j].state = "queued" /\ job'[j].calls = job[j].calls
          /\ job'[j].fence = job[j].fence
      BY <1>j, <3>1 DEF JobRecord
    <3>3. QED
      BY <1>2, <1>j, <3>1, <3>2 DEF ActiveStates
  <2>3. QED
    BY <2>1, <2>2
<1>13. ASSUME HoldBacklog PROVE Effect
  <2>1. CASE job'[j] = job[j]
    BY <1>1, <2>1
  <2>2. CASE /\ job[j].state = "queued"
             /\ job'[j] = [job[j] EXCEPT !.state = "held", !.reason = "refused"]
    <3>1. /\ job'[j].state = "held" /\ job'[j].calls = job[j].calls
          /\ job'[j].fence = job[j].fence
      BY <1>j, <2>2 DEF JobRecord
    <3>2. QED
      BY <1>2, <1>j, <2>2, <3>1 DEF ActiveStates
  <2>3. QED
    BY <1>13, <2>1, <2>2 DEF HoldBacklog
<1>14. ASSUME NEW k \in Jobs, Cancel(k) PROVE Effect
  BY <1>11, <1>14 DEF Cancel
<1>15. ASSUME NEW k \in Jobs, NEW s \in Stages, NEW action \in {"abandon_unknown", "not_sent"},
              ResolveAttempt(k, s, action)
       PROVE  Effect
  <2>1. job' = [job EXCEPT ![k] = Withdrawn(k)]
    BY <1>15 DEF ResolveAttempt
  <2>2. QED
    BY <1>11, <1>15, <2>1
<1>16. QED
  BY <1>1, <1>3, <1>4, <1>6, <1>7, <1>8, <1>9, <1>10, <1>12, <1>13, <1>14, <1>15, JobSteps
-----------------------------------------------------------------------------
(* Attempts: what a step may do to one.                                    *)

(* What settling does to the attempt it prices.                            *)
LEMMA SettleEffect ==
    ASSUME TypeOK, CallsSound, NEW j \in Jobs, NEW s \in Stages,
           attempt[j][s].receipt # None, Settle(j, s), NEW k \in Jobs, NEW t \in Stages
    PROVE  \/ attempt'[k][t] = attempt[k][t]
           \/ /\ k = j /\ t = s /\ Saved(j, s)
              /\ attempt'[k][t].receipt = attempt[k][t].receipt
              /\ attempt'[k][t].settled = TRUE
              /\ attempt'[k][t].state = StateOf(attempt[k][t].receipt)
              /\ CanSettle(j, s, attempt[k][t].receipt.price)
<1>1. CASE attempt[j][s].settled
  BY <1>1 DEF Settle
<1>2. CASE ~attempt[j][s].settled
  <2>1. attempt' = [attempt EXCEPT ![j][s] = Settled(j, s)]
    BY <1>2 DEF Settle
  <2>2. CASE k # j \/ t # s
    BY <2>1, <2>2 DEF TypeOK
  <2>3. CASE k = j /\ t = s
    <3>1. attempt'[k][t] = Settled(j, s)
      BY <2>1, <2>3 DEF TypeOK
    <3>2. attempt[j][s] \in AttemptRecord
      BY DEF TypeOK
    <3>3. /\ Settled(j, s).receipt = attempt[j][s].receipt
          /\ Settled(j, s).settled = TRUE
          /\ Settled(j, s).state = StateOf(attempt[j][s].receipt)
      BY <3>2 DEF Settled, AttemptRecord
    <3>4. CanSettle(j, s, attempt[j][s].receipt.price)
      BY <1>2 DEF Settle
    <3>5. QED
      BY <1>2, <2>3, <3>1, <3>3, <3>4 DEF Saved
  <2>4. QED
    BY <2>2, <2>3
<1>3. QED
  BY <1>1, <1>2

(* Settling one call leaves the others alone.                              *)
LEMMA SettleElsewhere ==
    ASSUME TypeOK, NEW j \in Jobs, NEW s \in Stages, Settle(j, s),
           NEW k \in Jobs, NEW t \in Stages, k # j \/ t # s
    PROVE  attempt'[k][t] = attempt[k][t]
  BY DEF Settle, TypeOK

(* A saved answer is never lost, an admitted call never forgotten, a paid  *)
(* checkpoint never changed; only admission creates a call, and a call     *)
(* becomes unresolved by admission or by the owner who gives it up.        *)
LEMMA AttemptEffects ==
    ASSUME LedgerInvariant, [Next]_vars, NEW j \in Jobs, NEW s \in Stages
    PROVE  /\ attempt[j][s].receipt # None => attempt'[j][s].receipt # None
           /\ attempt[j][s].state # "none" => attempt'[j][s].state # "none"
           /\ attempt'[j][s].state # "none" =>
                \/ attempt[j][s].state # "none"
                \/ \E w \in Workers : Dispatch(w) /\ worker[w].job = j /\ worker[w].stage = s
           /\ Checkpointed(j, s) => attempt'[j][s] = attempt[j][s]
<1> DEFINE Effect ==
        /\ attempt[j][s].receipt # None => attempt'[j][s].receipt # None
        /\ attempt[j][s].state # "none" => attempt'[j][s].state # "none"
        /\ attempt'[j][s].state # "none" =>
             \/ attempt[j][s].state # "none"
             \/ \E w \in Workers : Dispatch(w) /\ worker[w].job = j /\ worker[w].stage = s
        /\ Checkpointed(j, s) => attempt'[j][s] = attempt[j][s]
<1>0. TypeOK /\ CallsSound /\ WorkersSound /\ CallSound(j, s)
  BY DEF LedgerInvariant, CallsSound
<1>a. attempt[j][s] \in AttemptRecord
  BY <1>0 DEF TypeOK
<1>1. CASE attempt'[j][s] = attempt[j][s]
  BY <1>1
<1>2. ASSUME ~Checkpointed(j, s), attempt[j][s].state # "none", attempt'[j][s].state # "none",
             attempt[j][s].receipt # None => attempt'[j][s].receipt # None
      PROVE  Effect
  BY <1>2
<1>3. ASSUME NEW k \in Jobs, NEW t \in Stages, attempt[k][t].receipt # None, Settle(k, t)
      PROVE  Effect
  <2>1. CASE /\ k = j /\ t = s /\ Saved(j, s)
             /\ attempt'[j][s].receipt = attempt[j][s].receipt
             /\ attempt'[j][s].state = StateOf(attempt[j][s].receipt)
    <3>1. attempt[j][s].state \notin {"none", "received"}
      BY <1>0, <2>1 DEF CallSound, UnresolvedOutcomes, Unresolved
    <3>2. attempt'[j][s].state # "none"
      BY <2>1 DEF StateOf
    <3>3. QED
      BY <1>2, <2>1, <3>1, <3>2 DEF Checkpointed
  <2>2. \/ attempt'[j][s] = attempt[j][s]
        \/ /\ j = k /\ s = t /\ Saved(k, t)
           /\ attempt'[j][s].receipt = attempt[j][s].receipt
           /\ attempt'[j][s].settled = TRUE
           /\ attempt'[j][s].state = StateOf(attempt[j][s].receipt)
           /\ CanSettle(k, t, attempt[j][s].receipt.price)
    BY <1>0, <1>3, SettleEffect
  <2>3. QED
    BY <1>1, <2>1, <2>2
<1>4. ASSUME NEW w \in Workers, ReconcileReceipt(w) PROVE Effect
  <2>1. PICK a \in worker[w].todo : Settle(a[1], a[2])
    BY <1>4 DEF ReconcileReceipt
  <2>2. /\ a[1] \in Jobs /\ a[2] \in Stages
        /\ attempt[a[1]][a[2]].receipt # None
    BY <1>0 DEF TypeOK, WorkerRecord, WorkersSound, WorkerSound
  <2>3. QED
    BY <1>3, <2>1, <2>2
<1>5. ASSUME NEW w \in Workers, SettleReceipt(w) PROVE Effect
  <2>1. /\ worker[w].job \in Jobs /\ worker[w].stage \in Stages
        /\ attempt[worker[w].job][worker[w].stage].receipt # None
    BY <1>0, <1>5 DEF SettleReceipt, WorkersSound, WorkerSound, Sending, Holding
  <2>2. QED
    BY <1>3, <1>5, <2>1 DEF SettleReceipt
<1>6. ASSUME NEW w \in Workers, Claim(w) PROVE Effect
  <2>1. CASE /\ attempt[j][s].state \in Unresolved
             /\ attempt'[j][s] = [attempt[j][s] EXCEPT !.state = "unknown"]
    <3>1. /\ attempt'[j][s].state = "unknown"
          /\ attempt'[j][s].receipt = attempt[j][s].receipt
      BY <1>a, <2>1 DEF AttemptRecord
    <3>2. QED
      BY <1>2, <2>1, <3>1 DEF Checkpointed, Unresolved
  <2>2. QED
    BY <1>1, <1>6, <2>1 DEF Claim
<1>7. ASSUME NEW w \in Workers, Dispatch(w) PROVE Effect
  <2>1. CASE worker[w].job # j \/ worker[w].stage # s
    BY <1>0, <1>1, <1>7, <2>1 DEF Dispatch, TypeOK
  <2>2. CASE worker[w].job = j /\ worker[w].stage = s
    <3>1. attempt[j][s].state = "none" /\ attempt[j][s].receipt = None
      BY <1>0, <1>7, <2>2 DEF Dispatch, Admissible, CallSound, NoAttempt
    <3>2. QED
      BY <1>7, <2>2, <3>1 DEF Checkpointed
  <2>3. QED
    BY <2>1, <2>2
<1>8. ASSUME NEW w \in Workers, SendFails(w) \/ SaveReceipt(w) PROVE Effect
  <2>0. PICK k \in Jobs, t \in Stages :
            /\ k = worker[w].job /\ t = worker[w].stage
            /\ attempt[k][t].state \in Unresolved /\ attempt[k][t].receipt = None
    BY <1>0, <1>8 DEF SendFails, SaveReceipt, WorkersSound, WorkerSound, Sending, Holding
  <2>1. CASE k # j \/ t # s
    <3>1. attempt'[j][s] = attempt[j][s]
      BY <1>0, <1>8, <2>0, <2>1 DEF SendFails, SaveReceipt, TypeOK
    <3>2. QED
      BY <1>1, <3>1
  <2>2. CASE k = j /\ t = s
    <3>1. attempt'[j][s].state # "none"
      <4>1. CASE SaveReceipt(w)
        BY <1>0, <1>a, <2>0, <2>2, <4>1 DEF SaveReceipt, TypeOK, AttemptRecord, Unresolved
      <4>2. CASE SendFails(w)
        <5>1. \/ attempt'[j][s] = attempt[j][s]
              \/ attempt'[j][s] = [attempt[j][s] EXCEPT
                    !.state = "unknown", !.error = "provider_outcome_unknown"]
          BY <1>0, <2>0, <2>2, <4>2 DEF SendFails, TypeOK
        <5>2. QED
          BY <1>a, <2>0, <2>2, <5>1 DEF AttemptRecord, Unresolved
      <4>3. QED
        BY <1>8, <4>1, <4>2
    <3>2. QED
      BY <1>2, <2>0, <2>2, <3>1 DEF Checkpointed, Unresolved
  <2>3. QED
    BY <2>1, <2>2
<1>9. ASSUME NEW w \in Workers, Publish(w) PROVE Effect
  BY <1>1, <1>9 DEF Publish
<1>10. ASSUME NEW k \in Jobs, Cancel(k) PROVE Effect
  BY <1>1, <1>10 DEF Cancel
<1>11. ASSUME NEW k \in Jobs, NEW t \in Stages, NEW action, ResolveAttempt(k, t, action)
       PROVE  Effect
  <2>1. CASE k # j \/ t # s
    BY <1>0, <1>1, <1>11, <2>1 DEF ResolveAttempt, TypeOK
  <2>2. CASE k = j /\ t = s
    <3>1. attempt'[j][s] = Decided(j, s, action)
      BY <1>0, <1>11, <2>2 DEF ResolveAttempt, TypeOK
    <3>2. /\ Decided(j, s, action).state # "none"
          /\ Decided(j, s, action).receipt = attempt[j][s].receipt
      BY <1>a DEF Decided, AttemptRecord
    <3>3. attempt[j][s].state # "none" /\ ~Checkpointed(j, s)
      BY <1>11, <2>2 DEF ResolveAttempt, Checkpointed
    <3>4. QED
      BY <1>2, <3>1, <3>2, <3>3
  <2>3. QED
    BY <2>1, <2>2
<1>12. ASSUME NEW k \in Jobs, NEW t \in Stages, NEW amount \in Invoices,
              ReconcileAllocation(k, t, amount)
       PROVE  Effect
  <2>1. CASE attempt'[j][s] = attempt[j][s]
    BY <1>1, <2>1
  <2>2. CASE attempt'[j][s] # attempt[j][s]
    <3>1. /\ k = j /\ t = s /\ alloc[j][s].phase = "bound" /\ attempt[j][s].cost = None
          /\ attempt'[j][s] = [attempt[j][s] EXCEPT
                !.cost = amount, !.usage = "financially_reconciled"]
      <4>1. /\ alloc[k][t].phase = "bound" /\ attempt[k][t].cost = None
            /\ attempt' = [attempt EXCEPT ![k][t] = [attempt[k][t] EXCEPT
                    !.cost = amount, !.usage = "financially_reconciled"]]
        BY <1>12, <2>2 DEF ReconcileAllocation
      <4>2. QED
        BY <1>0, <2>2, <4>1 DEF TypeOK
    <3>2. /\ attempt'[j][s].state = attempt[j][s].state
          /\ attempt'[j][s].receipt = attempt[j][s].receipt
      BY <1>a, <3>1 DEF AttemptRecord
    <3>3. attempt[j][s].state # "none" /\ ~Checkpointed(j, s)
      BY <1>0, <3>1 DEF CallSound, Checkpointed
    <3>4. QED
      BY <1>2, <3>2, <3>3
  <2>3. QED
    BY <2>1, <2>2
<1>13. CASE UNCHANGED <<attempt, alloc, sends>>
  BY <1>1, <1>13
<1>14. QED
  BY <1>4, <1>5, <1>6, <1>7, <1>8, <1>9, <1>10, <1>11, <1>12, <1>13, CallSteps

(* The calls of a job stay its first stages.                               *)
LEMMA CountedStep == LedgerInvariant /\ [Next]_vars => CallsCounted'
<1> SUFFICES ASSUME LedgerInvariant, [Next]_vars, NEW j \in Jobs PROVE JobCounted(j)'
  BY DEF CallsCounted
<1>0. TypeOK /\ CallsCounted /\ JobCounted(j)
  BY DEF LedgerInvariant, CallsCounted
<1>1. CASE \E w \in Workers : Dispatch(w) /\ worker[w].job = j
  <2>1. PICK w \in Workers : Dispatch(w) /\ worker[w].job = j
    BY <1>1
  <2>2. PICK s \in Stages : s = worker[w].stage /\ s = job[j].calls + 1
    BY <2>1 DEF Dispatch, Admissible
  <2>3. job[j] \in JobRecord
    BY <1>0 DEF TypeOK
  <2>4. job'[j].calls = job[j].calls + 1 /\ job'[j].state = job[j].state
    BY <1>0, <2>1, <2>3 DEF Dispatch, TypeOK, JobRecord
  <2>5. job[j].state = "running"
    BY <2>1 DEF Dispatch, Owns
  <2>6. \A t \in Stages : attempt'[j][t].state # "none" <=> (attempt[j][t].state # "none" \/ t = s)
    <3>1. attempt' = [attempt EXCEPT ![j][s] = [NoAttempt EXCEPT !.state = "dispatching"]]
      BY <2>1, <2>2 DEF Dispatch
    <3>2. [NoAttempt EXCEPT !.state = "dispatching"].state # "none"
      BY DEF NoAttempt
    <3>3. QED
      BY <1>0, <3>1, <3>2 DEF TypeOK
  <2>7. job[j].calls \in Nat /\ MaxCalls \in Nat
    BY <2>3, ConstantsAssumption DEF JobRecord, ConstantsAssumption
  <2>8. QED
    BY <1>0, <2>2, <2>4, <2>5, <2>6, <2>7 DEF JobCounted, Stages
<1>2. CASE ~\E w \in Workers : Dispatch(w) /\ worker[w].job = j
  <2>1. job'[j].calls = job[j].calls /\ (job'[j].state = "absent" => job[j].state = "absent")
    BY <1>2, JobEffects
  <2>2. \A s \in Stages : attempt'[j][s].state # "none" <=> attempt[j][s].state # "none"
    BY <1>2, AttemptEffects
  <2>3. QED
    BY <1>0, <2>1, <2>2 DEF JobCounted
<1>3. QED
  BY <1>1, <1>2
-----------------------------------------------------------------------------
(* Workers.                                                                *)

(* The actions that move a worker.                                         *)
LEMMA WorkerSteps ==
    ASSUME [Next]_vars
    PROVE  \/ worker' = worker
           \/ \E v \in Workers :
                \/ BeginTick(v) \/ ReconcileReceipt(v) \/ Claim(v) \/ Replay(v) \/ Dispatch(v)
                \/ Answer(v) \/ SaveReceipt(v) \/ SettleReceipt(v) \/ UseReceipt(v) \/ Idle(v)
                \/ worker[v].pc \in Holding /\ \E code : Stop(v, code)
<1>1. worker' = worker \/ \E v \in Workers : WorkerStep(v) \/ Crash(v)
  <2>1. ASSUME OwnerStep PROVE worker' = worker
    <3>1. ASSUME NEW j \in Jobs, Authorize(j) \/ Cancel(j) \/ ResumeJob(j)
          PROVE  worker' = worker
      BY <3>1, Zenon DEF Authorize, Cancel, ResumeJob
    <3>2. ASSUME NEW j \in Jobs, NEW s \in Stages, NEW x,
                 ResolveAttempt(j, s, x) \/ ReconcileAllocation(j, s, x)
          PROVE  worker' = worker
      BY <3>2, Zenon DEF ResolveAttempt, ReconcileAllocation
    <3>3. ASSUME \/ Pause \/ ResumeControl \/ ResumePolicy \/ ResetBreaker \/ ResetProvider
                 \/ \E u \in Legacy : ImportArtifact(u)
          PROVE  worker' = worker
      BY <3>3, Zenon DEF Pause, ResumeControl, ResumePolicy, ResetBreaker, ResetProvider,
         ImportArtifact
    <3>4. QED
      BY <2>1, <3>1, <3>2, <3>3 DEF OwnerStep
  <2>2. ASSUME NEW v \in Workers, Shutdown(v) PROVE worker' = worker
    BY <2>2, Zenon DEF Shutdown
  <2>3. ASSUME NEW j \in Jobs, LeaseLapses(j) PROVE worker' = worker
    BY <2>3, Zenon DEF LeaseLapses
  <2>4. ASSUME CooldownEnds \/ UNCHANGED vars PROVE worker' = worker
    BY <2>4, Zenon DEF CooldownEnds, vars
  <2>5. QED
    BY <2>1, <2>2, <2>3, <2>4, Zenon DEF Next
<1>2. ASSUME NEW v \in Workers,
             \/ ReconcileConflict(v) \/ LoseOwnership(v) \/ Publish(v)
             \/ HandleFailure(v) \/ Crash(v)
      PROVE  Idle(v)
  BY <1>2 DEF ReconcileConflict, LoseOwnership, Publish, HandleFailure, Crash
<1>3. ASSUME NEW v \in Workers,
             \/ Refuse(v) \/ SendFails(v) \/ ReceiptNotRecorded(v) \/ GenerateFails(v)
             \/ PublishRefused(v)
      PROVE  worker[v].pc \in Holding /\ \E code : Stop(v, code)
  BY <1>3 DEF Refuse, SendFails, ReceiptNotRecorded, GenerateFails, PublishRefused, Holding
<1>4. QED
  BY <1>1, <1>2, <1>3, Zenon DEF WorkerStep

(* The fields the moves of a worker write.                                 *)
LEMMA IdleFields ==
    ASSUME TypeOK, NEW v \in Workers, Idle(v)
    PROVE  /\ worker'[v] = IdleWorker
           /\ \A u \in Workers : u # v => worker'[u] = worker[u]
  BY DEF Idle, TypeOK

(* What a worker that stops keeps.                                         *)
LEMMA StopFields ==
    ASSUME TypeOK, NEW v \in Workers, NEW code, Stop(v, code)
    PROVE  /\ worker'[v].pc = "failed" /\ worker'[v].job = worker[v].job
           /\ worker'[v].fence = worker[v].fence /\ worker'[v].todo = worker[v].todo
           /\ \A u \in Workers : u # v => worker'[u] = worker[u]
<1>1. worker[v] \in WorkerRecord
  BY DEF TypeOK
<1>2. worker'[v] = [worker[v] EXCEPT !.pc = "failed", !.code = code, !.receipt = None]
  BY DEF Stop, TypeOK
<1>3. /\ worker'[v].pc = "failed" /\ worker'[v].job = worker[v].job
      /\ worker'[v].fence = worker[v].fence /\ worker'[v].todo = worker[v].todo
  BY <1>1, <1>2 DEF WorkerRecord
<1>4. QED
  BY <1>3 DEF Stop, TypeOK

(* How one worker moves: it comes to hold a job by claiming it, and waits  *)
(* for a call by admitting it; all the others stay where they are.         *)
LEMMA WorkerEffects ==
    ASSUME LedgerInvariant, [Next]_vars
    PROVE  \/ worker' = worker
           \/ \E v \in Workers :
                /\ \A u \in Workers : u # v => worker'[u] = worker[u]
                /\ \/ worker'[v].pc \in {"idle", "reconcile"}
                   \/ /\ worker'[v].pc = "run" /\ worker'[v].job \in Jobs
                      /\ worker'[v].fence > job[worker'[v].job].fence
                      /\ worker'[v].fence = job'[worker'[v].job].fence
                      /\ job'[worker'[v].job].state = "running"
                   \/ /\ worker[v].pc \in Holding /\ worker'[v].job = worker[v].job
                      /\ worker'[v].fence = worker[v].fence
                      /\ \/ worker'[v].pc \in Holding \ (Sending \cup {"settled"})
                         \/ Dispatch(v) /\ worker'[v].pc = "send"
                         \/ Answer(v) /\ worker'[v].pc = "answered"
                         \/ SaveReceipt(v) /\ worker'[v].pc = "saved"
                         \/ SettleReceipt(v) /\ worker'[v].pc = "settled"
                      /\ worker'[v].pc \in Sending \cup {"settled"} =>
                            worker'[v].stage = worker[v].stage
                /\ worker'[v].todo \subseteq worker[v].todo \/ BeginTick(v)
<1> DEFINE Moves(v) ==
        /\ \A u \in Workers : u # v => worker'[u] = worker[u]
        /\ \/ worker'[v].pc \in {"idle", "reconcile"}
           \/ /\ worker'[v].pc = "run" /\ worker'[v].job \in Jobs
              /\ worker'[v].fence > job[worker'[v].job].fence
              /\ worker'[v].fence = job'[worker'[v].job].fence
              /\ job'[worker'[v].job].state = "running"
           \/ /\ worker[v].pc \in Holding /\ worker'[v].job = worker[v].job
              /\ worker'[v].fence = worker[v].fence
              /\ \/ worker'[v].pc \in Holding \ (Sending \cup {"settled"})
                 \/ Dispatch(v) /\ worker'[v].pc = "send"
                 \/ Answer(v) /\ worker'[v].pc = "answered"
                 \/ SaveReceipt(v) /\ worker'[v].pc = "saved"
                 \/ SettleReceipt(v) /\ worker'[v].pc = "settled"
              /\ worker'[v].pc \in Sending \cup {"settled"} =>
                    worker'[v].stage = worker[v].stage
        /\ worker'[v].todo \subseteq worker[v].todo \/ BeginTick(v)
<1>0. TypeOK
  BY DEF LedgerInvariant
<1>w. \A v \in Workers : worker[v] \in WorkerRecord
  BY <1>0 DEF TypeOK
<1>1. ASSUME NEW v \in Workers, Idle(v) PROVE Moves(v)
  BY <1>0, <1>1, IdleFields DEF IdleWorker
<1>2. ASSUME NEW v \in Workers, NEW code, Stop(v, code), worker[v].pc \in Holding PROVE Moves(v)
  BY <1>0, <1>2, StopFields DEF Holding, Sending
<1>3. ASSUME NEW v \in Workers, BeginTick(v) PROVE Moves(v)
  BY <1>0, <1>3, <1>w DEF BeginTick, TypeOK, WorkerRecord
<1>4. ASSUME NEW v \in Workers, ReconcileReceipt(v) PROVE Moves(v)
  BY <1>0, <1>4, <1>w DEF ReconcileReceipt, TypeOK, WorkerRecord
<1>5. ASSUME NEW v \in Workers, Claim(v) PROVE Moves(v)
  <2>1. CASE Idle(v)
    BY <1>1, <2>1
  <2>2. CASE ~Idle(v)
    <3>1. PICK k \in Jobs :
            /\ job' = [j \in Jobs |-> IF j = k THEN Claimed(k) ELSE AfterLapse(j)]
            /\ worker' = [worker EXCEPT ![v] =
                    [IdleWorker EXCEPT !.pc = "run", !.job = k,
                                       !.fence = Claimed(k).fence, !.stage = 1]]
      BY <1>5, <2>2 DEF Claim
    <3>2. worker'[v] = [IdleWorker EXCEPT !.pc = "run", !.job = k,
                                       !.fence = Claimed(k).fence, !.stage = 1]
      BY <1>0, <3>1 DEF TypeOK
    <3>3. /\ worker'[v].pc = "run" /\ worker'[v].job = k
          /\ worker'[v].fence = Claimed(k).fence /\ worker'[v].todo = {}
      BY <3>2 DEF IdleWorker
    <3>4. job'[k] = Claimed(k)
      BY <3>1
    <3>5. Claimed(k).fence > job[k].fence /\ Claimed(k).state = "running"
      BY <1>0, JobFields
    <3>6. \A u \in Workers : u # v => worker'[u] = worker[u]
      BY <1>0, <3>1 DEF TypeOK
    <3>7. QED
      BY <3>3, <3>4, <3>5, <3>6
  <2>3. QED
    BY <2>1, <2>2
<1>6. ASSUME NEW v \in Workers, Dispatch(v) PROVE Moves(v)
  <2>1. worker[v].pc \in Holding
    BY <1>6 DEF Dispatch, Holding
  <2>2. worker' = [worker EXCEPT ![v].pc = "send"]
    BY <1>6 DEF Dispatch
  <2>3. /\ worker'[v].pc = "send" /\ worker'[v].job = worker[v].job
        /\ worker'[v].fence = worker[v].fence /\ worker'[v].todo = worker[v].todo
        /\ worker'[v].stage = worker[v].stage
    BY <1>0, <1>w, <2>2 DEF TypeOK, WorkerRecord
  <2>4. \A u \in Workers : u # v => worker'[u] = worker[u]
    BY <1>0, <2>2 DEF TypeOK
  <2>5. QED
    BY <1>6, <2>1, <2>3, <2>4
<1>7. ASSUME NEW v \in Workers, Answer(v) PROVE Moves(v)
  <2>1. worker[v].pc \in Holding
    BY <1>7 DEF Answer, Holding
  <2>2. PICK r \in Receipts :
            worker' = [worker EXCEPT ![v] = [worker[v] EXCEPT !.pc = "answered", !.receipt = r]]
    BY <1>7 DEF Answer
  <2>3. worker'[v] = [worker[v] EXCEPT !.pc = "answered", !.receipt = r]
    BY <1>0, <2>2 DEF TypeOK
  <2>4. /\ worker'[v].pc = "answered" /\ worker'[v].job = worker[v].job
        /\ worker'[v].fence = worker[v].fence /\ worker'[v].todo = worker[v].todo
        /\ worker'[v].stage = worker[v].stage
    BY <1>w, <2>3 DEF WorkerRecord
  <2>5. \A u \in Workers : u # v => worker'[u] = worker[u]
    BY <1>0, <2>2 DEF TypeOK
  <2>6. QED
    BY <1>7, <2>1, <2>4, <2>5
<1>8. ASSUME NEW v \in Workers, SaveReceipt(v) PROVE Moves(v)
  BY <1>0, <1>8, <1>w DEF SaveReceipt, TypeOK, WorkerRecord, Holding
<1>9. ASSUME NEW v \in Workers, SettleReceipt(v) PROVE Moves(v)
  BY <1>0, <1>9, <1>w DEF SettleReceipt, TypeOK, WorkerRecord, Holding
<1>10. ASSUME NEW v \in Workers, Replay(v) \/ UseReceipt(v) PROVE Moves(v)
  <2>0. worker[v].pc \in Holding
    BY <1>10 DEF Replay, UseReceipt, Holding
  <2>1. CASE \E code : Stop(v, code)
    BY <1>2, <2>0, <2>1
  <2>2. CASE \/ worker' = [worker EXCEPT ![v].stage = worker[v].stage + 1] /\ worker[v].pc = "run"
             \/ worker' = [worker EXCEPT ![v] = [worker[v] EXCEPT
                    !.pc = "run", !.stage = worker[v].stage + 1]]
    <3>1. /\ worker'[v].pc = "run" /\ worker'[v].job = worker[v].job
          /\ worker'[v].fence = worker[v].fence /\ worker'[v].todo = worker[v].todo
      <4>1. \/ worker'[v] = [worker[v] EXCEPT !.stage = worker[v].stage + 1]
                /\ worker[v].pc = "run"
            \/ worker'[v] = [worker[v] EXCEPT !.pc = "run", !.stage = worker[v].stage + 1]
        BY <1>0, <2>2 DEF TypeOK
      <4>2. QED
        BY <1>w, <4>1 DEF WorkerRecord
    <3>2. \A u \in Workers : u # v => worker'[u] = worker[u]
      BY <1>0, <2>2 DEF TypeOK
    <3>3. "run" \in Holding \ (Sending \cup {"settled"})
      BY DEF Holding, Sending
    <3>4. QED
      BY <2>0, <3>1, <3>2, <3>3 DEF Sending
  <2>3. QED
    BY <1>10, <2>1, <2>2 DEF Replay, UseReceipt
<1>11. QED
  BY <1>1, <1>2, <1>3, <1>4, <1>5, <1>6, <1>7, <1>8, <1>9, <1>10, WorkerSteps
(* Nobody else touches the call a worker still waits for.                  *)
LEMMA OpenCallKept ==
    ASSUME LedgerInvariant, [Next]_vars, NEW v \in Workers, NEW j \in Jobs, NEW s \in Stages,
           worker[v].pc \in {"send", "answered"}, worker[v].job = j, worker[v].stage = s,
           worker'[v].pc \in {"send", "answered"}
    PROVE  /\ attempt'[j][s].state \in Unresolved
           /\ attempt'[j][s].receipt = None /\ ~attempt'[j][s].settled
<1> DEFINE Open == /\ attempt'[j][s].state \in Unresolved
                   /\ attempt'[j][s].receipt = None /\ ~attempt'[j][s].settled
<1>0. TypeOK /\ CallsSound /\ WorkersSound /\ WorkersApart
  BY DEF LedgerInvariant
<1>a. /\ attempt[j][s].state \in Unresolved
      /\ attempt[j][s].receipt = None /\ ~attempt[j][s].settled
      /\ attempt[j][s] \in AttemptRecord
  BY <1>0 DEF WorkersSound, WorkerSound, TypeOK
<1>1. CASE attempt'[j][s] = attempt[j][s]
  BY <1>1, <1>a
<1>2. ASSUME NEW k \in Jobs, NEW t \in Stages, attempt[k][t].receipt # None, Settle(k, t)
      PROVE  Open
  <2>1. k # j \/ t # s
    BY <1>2, <1>a
  <2>2. attempt'[j][s] = attempt[j][s]
    BY <1>0, <1>2, <2>1, SettleElsewhere
  <2>3. QED
    BY <1>1, <2>2
<1>3. ASSUME NEW w \in Workers, ReconcileReceipt(w) PROVE Open
  <2>1. PICK a \in worker[w].todo : Settle(a[1], a[2])
    BY <1>3 DEF ReconcileReceipt
  <2>2. /\ a[1] \in Jobs /\ a[2] \in Stages
        /\ attempt[a[1]][a[2]].receipt # None
    BY <1>0 DEF TypeOK, WorkerRecord, WorkersSound, WorkerSound
  <2>3. QED
    BY <1>2, <2>1, <2>2
<1>4. ASSUME NEW w \in Workers, SettleReceipt(w) PROVE Open
  <2>1. /\ worker[w].job \in Jobs /\ worker[w].stage \in Stages
        /\ attempt[worker[w].job][worker[w].stage].receipt # None
    BY <1>0, <1>4 DEF SettleReceipt, WorkersSound, WorkerSound, Sending, Holding
  <2>2. QED
    BY <1>2, <1>4, <2>1 DEF SettleReceipt
<1>5. ASSUME NEW w \in Workers, Claim(w) PROVE Open
  <2>1. attempt'[j][s] = attempt[j][s] \/ attempt'[j][s] = [attempt[j][s] EXCEPT !.state = "unknown"]
    BY <1>5 DEF Claim
  <2>2. QED
    BY <1>a, <2>1 DEF AttemptRecord, Unresolved
<1>6. ASSUME NEW w \in Workers, Dispatch(w) PROVE Open
  <2>1. worker[w].job # j \/ worker[w].stage # s
    BY <1>6, <1>a DEF Dispatch, Admissible, Unresolved
  <2>2. attempt'[j][s] = attempt[j][s]
    BY <1>0, <1>6, <2>1 DEF Dispatch, TypeOK
  <2>3. QED
    BY <1>1, <2>2
<1>7. ASSUME NEW w \in Workers, SendFails(w) PROVE Open
  <2>0. PICK k \in Jobs, t \in Stages : k = worker[w].job /\ t = worker[w].stage
    BY <1>0, <1>7 DEF SendFails, WorkersSound, WorkerSound, Sending, Holding
  <2>1. \/ attempt'[j][s] = attempt[j][s]
        \/ attempt'[j][s] = [attempt[j][s] EXCEPT
                    !.state = "unknown", !.error = "provider_outcome_unknown"]
    <3>1. \/ attempt' = attempt
          \/ attempt' = [attempt EXCEPT ![k][t] = [attempt[k][t] EXCEPT
                    !.state = "unknown", !.error = "provider_outcome_unknown"]]
      BY <1>7, <2>0 DEF SendFails
    <3>2. CASE k = j /\ t = s
      BY <1>0, <3>1, <3>2 DEF TypeOK
    <3>3. CASE k # j \/ t # s
      BY <1>0, <3>1, <3>3 DEF TypeOK
    <3>4. QED
      BY <3>2, <3>3
  <2>2. QED
    BY <1>a, <2>1 DEF AttemptRecord, Unresolved
<1>8. ASSUME NEW w \in Workers, SaveReceipt(w) PROVE Open
  <2>1. worker'[w] = [worker[w] EXCEPT !.pc = "saved", !.receipt = None] /\ worker[w].pc = "answered"
    BY <1>0, <1>8 DEF SaveReceipt, TypeOK
  <2>2. worker'[w].pc = "saved"
    BY <1>0, <2>1 DEF TypeOK, WorkerRecord
  <2>3. w # v
    BY <2>2
  <2>4. Apart(v, w)
    BY <1>0, <2>3 DEF WorkersApart
  <2>5. worker[w].job # j \/ worker[w].stage # s
    BY <2>1, <2>4 DEF Apart, Sending
  <2>6. attempt' = [attempt EXCEPT ![worker[w].job][worker[w].stage].receipt = worker[w].receipt]
    BY <1>8 DEF SaveReceipt
  <2>7. attempt'[j][s] = attempt[j][s]
    BY <1>0, <2>5, <2>6 DEF TypeOK
  <2>8. QED
    BY <1>1, <2>7
<1>9. ASSUME NEW w \in Workers, Publish(w) PROVE Open
  BY <1>1, <1>9 DEF Publish
<1>10. ASSUME NEW k \in Jobs, Cancel(k) PROVE Open
  BY <1>1, <1>10 DEF Cancel
<1>11. ASSUME NEW k \in Jobs, NEW t \in Stages, NEW action, ResolveAttempt(k, t, action)
       PROVE  Open
  <2>1. k # j \/ t # s
    BY <1>11 DEF ResolveAttempt, SenderStopped
  <2>2. attempt'[j][s] = attempt[j][s]
    BY <1>0, <1>11, <2>1 DEF ResolveAttempt, TypeOK
  <2>3. QED
    BY <1>1, <2>2
<1>12. ASSUME NEW k \in Jobs, NEW t \in Stages, NEW amount \in Invoices,
              ReconcileAllocation(k, t, amount)
       PROVE  Open
  <2>1. \/ attempt' = attempt
        \/ attempt' = [attempt EXCEPT ![k][t] = [attempt[k][t] EXCEPT
                !.cost = amount, !.usage = "financially_reconciled"]]
    BY <1>12 DEF ReconcileAllocation
  <2>2. \/ attempt'[j][s] = attempt[j][s]
        \/ attempt'[j][s] = [attempt[j][s] EXCEPT
                !.cost = amount, !.usage = "financially_reconciled"]
    <3>1. CASE k = j /\ t = s
      BY <1>0, <2>1, <3>1 DEF TypeOK
    <3>2. CASE k # j \/ t # s
      BY <1>0, <2>1, <3>2 DEF TypeOK
    <3>3. QED
      BY <3>1, <3>2
  <2>3. QED
    BY <1>a, <2>2 DEF AttemptRecord
<1>13. CASE UNCHANGED <<attempt, alloc, sends>>
  BY <1>1, <1>13
<1>14. QED
  BY <1>3, <1>4, <1>5, <1>6, <1>7, <1>8, <1>9, <1>10, <1>11, <1>12, <1>13, CallSteps

(* Two workers stay apart: a claimed fence is new, an admitted call is new. *)
LEMMA ApartStep == LedgerInvariant /\ [Next]_vars => WorkersApart'
<1> SUFFICES ASSUME LedgerInvariant, [Next]_vars PROVE WorkersApart'
  OBVIOUS
<1>0. TypeOK /\ CallsSound /\ WorkersSound /\ WorkersApart
  BY DEF LedgerInvariant
<1>1. CASE worker' = worker
  BY <1>0, <1>1 DEF WorkersApart, Apart
<1>2. CASE worker' # worker
  <2>1. PICK v \in Workers :
            /\ \A u \in Workers : u # v => worker'[u] = worker[u]
            /\ \/ worker'[v].pc \in {"idle", "reconcile"}
               \/ /\ worker'[v].pc = "run" /\ worker'[v].job \in Jobs
                  /\ worker'[v].fence > job[worker'[v].job].fence
               \/ /\ worker[v].pc \in Holding /\ worker'[v].job = worker[v].job
                  /\ worker'[v].fence = worker[v].fence
                  /\ \/ worker'[v].pc \in Holding \ (Sending \cup {"settled"})
                     \/ Dispatch(v) /\ worker'[v].pc = "send"
                     \/ Answer(v) /\ worker'[v].pc = "answered"
                     \/ SaveReceipt(v) /\ worker'[v].pc = "saved"
                     \/ SettleReceipt(v) /\ worker'[v].pc = "settled"
                  /\ worker'[v].pc \in Sending \cup {"settled"} =>
                        worker'[v].stage = worker[v].stage
    BY <1>2, WorkerEffects
  <2>2. ASSUME NEW u \in Workers, u # v, worker'[v].job = worker[u].job
        PROVE  /\ worker'[v].pc \in Holding /\ worker[u].pc \in Holding =>
                        worker'[v].fence # worker[u].fence
               /\ worker'[v].pc \in Sending /\ worker[u].pc \in Sending =>
                        worker'[v].stage # worker[u].stage
    <3>1. CASE worker'[v].pc \in {"idle", "reconcile"}
      BY <3>1 DEF Holding, Sending
    <3>2. CASE /\ worker'[v].pc = "run" /\ worker'[v].job \in Jobs
               /\ worker'[v].fence > job[worker'[v].job].fence
      <4>1. worker[u].pc \in Holding => worker[u].fence <= job[worker[u].job].fence
        BY <1>0 DEF WorkersSound, WorkerSound
      <4>2. worker[u].fence \in Nat /\ job[worker[u].job].fence \in Nat
        BY <1>0, <2>2, <3>2 DEF TypeOK, WorkerRecord, JobRecord
      <4>3. worker'[v].fence # worker[u].fence \/ worker[u].pc \notin Holding
        BY <2>2, <3>2, <4>1, <4>2
      <4>4. QED
        BY <3>2, <4>3 DEF Sending
    <3>3. CASE /\ worker[v].pc \in Holding /\ worker'[v].job = worker[v].job
               /\ worker'[v].fence = worker[v].fence
               /\ worker'[v].pc \notin Sending
      <4>1. Apart(v, u)
        BY <1>0, <2>2 DEF WorkersApart
      <4>2. QED
        BY <2>2, <3>3, <4>1 DEF Apart
    <3>4. CASE /\ worker[v].pc \in Holding /\ worker'[v].job = worker[v].job
               /\ worker'[v].fence = worker[v].fence
               /\ worker'[v].stage = worker[v].stage
               /\ Answer(v) \/ SaveReceipt(v)
      <4>1. Apart(v, u)
        BY <1>0, <2>2 DEF WorkersApart
      <4>2. worker[v].pc \in Sending
        BY <3>4 DEF Answer, SaveReceipt, Sending
      <4>3. QED
        BY <2>2, <3>4, <4>1, <4>2 DEF Apart
    <3>5. CASE /\ worker[v].pc \in Holding /\ worker'[v].job = worker[v].job
               /\ worker'[v].fence = worker[v].fence
               /\ worker'[v].stage = worker[v].stage
               /\ Dispatch(v)
      <4>1. Apart(v, u)
        BY <1>0, <2>2 DEF WorkersApart
      <4>2. PICK j \in Jobs, s \in Stages :
                j = worker[v].job /\ s = worker[v].stage /\ attempt[j][s].state = "none"
        BY <3>5 DEF Dispatch, Owns, Admissible
      <4>3. attempt[j][s].receipt = None
        BY <1>0, <4>2 DEF CallsSound, CallSound, NoAttempt
      <4>4. worker[u].pc \in Sending => worker[u].stage # s
        BY <1>0, <2>2, <3>5, <4>2, <4>3 DEF WorkersSound, WorkerSound, Sending, Unresolved
      <4>5. QED
        BY <2>2, <3>5, <4>1, <4>2, <4>4 DEF Apart
    <3>6. QED
      BY <2>1, <3>1, <3>2, <3>3, <3>4, <3>5 DEF Sending
  <2>3. ASSUME NEW x \in Workers, NEW y \in Workers, x # y PROVE Apart(x, y)'
    <3>1. CASE x = v
      BY <2>1, <2>2, <2>3, <3>1 DEF Apart
    <3>2. CASE y = v
      BY <2>1, <2>2, <2>3, <3>2 DEF Apart
    <3>3. CASE x # v /\ y # v
      BY <1>0, <2>1, <2>3, <3>3 DEF Apart, WorkersApart
    <3>4. QED
      BY <3>1, <3>2, <3>3
  <2>4. QED
    BY <2>3 DEF WorkersApart
<1>3. QED
  BY <1>1, <1>2
(* What every worker remembers stays backed by the database.               *)
LEMMA WorkersStep == LedgerInvariant /\ [Next]_vars => WorkersSound'
<1> SUFFICES ASSUME LedgerInvariant, [Next]_vars, NEW v \in Workers
             PROVE  WorkerSound(v)'
  BY DEF WorkersSound
<1>0. TypeOK /\ CallsSound /\ WorkersSound /\ WorkersApart /\ WorkerSound(v)
  BY DEF LedgerInvariant, WorkersSound
<1>t. worker[v] \in WorkerRecord
  BY <1>0 DEF TypeOK
(* The receipts on the worker's list are still there.                      *)
<1>1. ASSUME NEW a \in worker'[v].todo PROVE attempt'[a[1]][a[2]].receipt # None
  <2>1. CASE a \in worker[v].todo
    <3>1. a[1] \in Jobs /\ a[2] \in Stages /\ attempt[a[1]][a[2]].receipt # None
      BY <1>0, <1>t, <2>1 DEF WorkerRecord, WorkerSound
    <3>2. QED
      BY <3>1, AttemptEffects
  <2>2. CASE BeginTick(v)
    <3>1. worker'[v].todo = Unsettled /\ attempt' = attempt
      BY <1>0, <2>2 DEF BeginTick, TypeOK, WorkerRecord
    <3>2. QED
      BY <1>1, <3>1 DEF Unsettled, Saved
  <2>3. QED
    BY <1>1, <2>1, <2>2, WorkerEffects
(* A job once held is still held under a fence given out for it.           *)
<1>2. ASSUME worker[v].pc \in Holding
      PROVE  /\ worker[v].job \in Jobs /\ worker[v].fence <= job'[worker[v].job].fence
             /\ job'[worker[v].job].state # "absent"
  <2>1. /\ worker[v].job \in Jobs /\ worker[v].fence <= job[worker[v].job].fence
        /\ job[worker[v].job].state # "absent"
    BY <1>0, <1>2 DEF WorkerSound
  <2>2. /\ job'[worker[v].job].state # "absent"
        /\ job[worker[v].job].fence <= job'[worker[v].job].fence
    BY <2>1, JobEffects
  <2>3. TypeOK'
    BY TypeStep
  <2>4. /\ worker[v].fence \in Nat /\ job[worker[v].job].fence \in Nat
        /\ job'[worker[v].job].fence \in Nat
    BY <1>0, <1>t, <2>1, <2>3 DEF TypeOK, WorkerRecord, JobRecord
  <2>5. QED
    BY <2>1, <2>2, <2>4
<1>3. ASSUME worker'[v].pc \in Holding
      PROVE  /\ worker'[v].job \in Jobs /\ worker'[v].fence <= job'[worker'[v].job].fence
             /\ job'[worker'[v].job].state # "absent"
  <2>1. CASE worker'[v] = worker[v]
    BY <1>2, <1>3, <2>1
  <2>2. CASE /\ worker'[v].job \in Jobs
             /\ worker'[v].fence = job'[worker'[v].job].fence
             /\ job'[worker'[v].job].state = "running"
    <3>1. worker'[v].fence \in Nat
      BY TypeStep DEF TypeOK, WorkerRecord
    <3>2. QED
      BY <2>2, <3>1
  <2>3. CASE /\ worker[v].pc \in Holding /\ worker'[v].job = worker[v].job
             /\ worker'[v].fence = worker[v].fence
    BY <1>2, <2>3
  <2>4. QED
    BY <1>3, <2>1, <2>2, <2>3, WorkerEffects DEF Holding
(* Where a worker that waits for a call, or has its answer, comes from.    *)
<1>4. ASSUME worker'[v].pc \in Sending \cup {"settled"}
      PROVE  \/ worker'[v] = worker[v]
             \/ /\ worker'[v].job = worker[v].job /\ worker'[v].stage = worker[v].stage
                /\ \/ Dispatch(v) /\ worker'[v].pc = "send"
                   \/ Answer(v) /\ worker'[v].pc = "answered"
                   \/ SaveReceipt(v) /\ worker'[v].pc = "saved"
                   \/ SettleReceipt(v) /\ worker'[v].pc = "settled"
  BY <1>4, WorkerEffects DEF Sending
<1>5. ASSUME worker'[v].pc \in Sending \cup {"settled"} PROVE worker'[v].stage \in Stages
  <2>1. CASE worker'[v] = worker[v]
    BY <1>0, <1>5, <2>1 DEF WorkerSound
  <2>2. CASE Dispatch(v) /\ worker'[v].stage = worker[v].stage
    BY <2>2 DEF Dispatch, Admissible
  <2>3. CASE /\ Answer(v) \/ SaveReceipt(v) \/ SettleReceipt(v)
             /\ worker'[v].stage = worker[v].stage
    BY <1>0, <2>3 DEF WorkerSound, Answer, SaveReceipt, SettleReceipt, Sending
  <2>4. QED
    BY <1>4, <1>5, <2>1, <2>2, <2>3
<1>6. ASSUME NEW j \in Jobs, NEW s \in Stages, worker'[v].job = j, worker'[v].stage = s
      PROVE  /\ worker'[v].pc \in {"send", "answered"} =>
                    /\ attempt'[j][s].state \in Unresolved
                    /\ attempt'[j][s].receipt = None /\ ~attempt'[j][s].settled
             /\ worker'[v].pc = "answered" => worker'[v].receipt # None
             /\ worker'[v].pc = "saved" => attempt'[j][s].receipt # None
  <2>1. CASE worker'[v] = worker[v]
    <3>1. /\ worker[v].pc = "answered" => worker[v].receipt # None
          /\ worker[v].pc = "saved" => attempt[j][s].receipt # None
      BY <1>0, <1>6, <2>1 DEF WorkerSound
    <3>2. QED
      BY <1>6, <2>1, <3>1, OpenCallKept, AttemptEffects
  <2>2. CASE Dispatch(v) /\ worker'[v].pc = "send" /\ worker[v].job = j /\ worker[v].stage = s
    <3>1. attempt'[j][s] = [NoAttempt EXCEPT !.state = "dispatching"]
      BY <1>0, <1>6, <2>2 DEF Dispatch, TypeOK
    <3>2. QED
      BY <2>2, <3>1 DEF NoAttempt, Unresolved
  <2>3. CASE Answer(v) /\ worker'[v].pc = "answered" /\ worker[v].job = j /\ worker[v].stage = s
    <3>1. worker[v].pc = "send"
      BY <2>3 DEF Answer
    <3>2. worker'[v].receipt # None
      <4>1. PICK r \in Receipts :
                worker' = [worker EXCEPT ![v] = [worker[v] EXCEPT
                                !.pc = "answered", !.receipt = r]]
        BY <2>3 DEF Answer
      <4>2. worker'[v] = [worker[v] EXCEPT !.pc = "answered", !.receipt = r]
        BY <1>0, <4>1 DEF TypeOK
      <4>3. worker'[v].receipt = r
        BY <1>t, <4>2 DEF WorkerRecord
      <4>4. QED
        BY <4>3, ReceiptAssumption
    <3>3. QED
      BY <1>6, <2>3, <3>1, <3>2, OpenCallKept
  <2>4. CASE SaveReceipt(v) /\ worker'[v].pc = "saved" /\ worker[v].job = j /\ worker[v].stage = s
    <3>1. attempt'[j][s] = [attempt[j][s] EXCEPT !.receipt = worker[v].receipt]
      BY <1>0, <1>6, <2>4 DEF SaveReceipt, TypeOK
    <3>2. worker[v].receipt # None
      BY <1>0, <2>4 DEF SaveReceipt, WorkerSound
    <3>3. attempt'[j][s].receipt # None
      BY <1>0, <3>1, <3>2 DEF TypeOK, AttemptRecord
    <3>4. QED
      BY <2>4, <3>3
  <2>5. CASE worker'[v].pc = "settled" \/ worker'[v].pc \notin Sending
    BY <2>5 DEF Sending
  <2>6. QED
    BY <1>4, <1>6, <2>1, <2>2, <2>3, <2>4, <2>5 DEF Sending
<1>7. QED
  <2>1. worker'[v].pc \in Sending \cup {"settled"} => worker'[v].job \in Jobs /\ worker'[v].stage \in Stages
    BY <1>3, <1>5 DEF Sending, Holding
  <2>2. /\ worker'[v].pc \in {"send", "answered"} =>
                    /\ attempt'[worker'[v].job][worker'[v].stage].state \in Unresolved
                    /\ attempt'[worker'[v].job][worker'[v].stage].receipt = None
                    /\ ~attempt'[worker'[v].job][worker'[v].stage].settled
        /\ worker'[v].pc = "answered" => worker'[v].receipt # None
        /\ worker'[v].pc = "saved" => attempt'[worker'[v].job][worker'[v].stage].receipt # None
    BY <1>6, <2>1 DEF Sending
  <2>3. QED
    BY <1>1, <1>3, <1>5, <2>2 DEF WorkerSound
-----------------------------------------------------------------------------
(* Money.                                                                  *)

(* A charge is final, and only admission reserves.                         *)
LEMMA AllocationEffects ==
    ASSUME LedgerInvariant, [Next]_vars, NEW j \in Jobs, NEW s \in Stages
    PROVE  /\ alloc[j][s].actual # None => alloc'[j][s].actual = alloc[j][s].actual
           /\ \/ alloc'[j][s].phase = alloc[j][s].phase
              \/ \E w \in Workers : Dispatch(w) /\ worker[w].job = j
<1> DEFINE Effect ==
        /\ alloc[j][s].actual # None => alloc'[j][s].actual = alloc[j][s].actual
        /\ \/ alloc'[j][s].phase = alloc[j][s].phase
           \/ \E w \in Workers : Dispatch(w) /\ worker[w].job = j
<1>0. TypeOK /\ CallsSound /\ WorkersSound
  BY DEF LedgerInvariant
<1>a. alloc[j][s] \in AllocationRecord
  BY <1>0 DEF TypeOK
<1>1. CASE alloc'[j][s] = alloc[j][s]
  BY <1>1
(* Writing an amount the allocation accepts.                               *)
<1>2. ASSUME NEW k \in Jobs, NEW t \in Stages, NEW amount, CanSettle(k, t, amount),
             alloc' = [alloc EXCEPT ![k][t].actual = amount]
      PROVE  Effect
  <2>1. CASE k # j \/ t # s
    BY <1>0, <1>1, <1>2, <2>1 DEF TypeOK
  <2>2. CASE k = j /\ t = s
    <3>1. alloc'[j][s] = [alloc[j][s] EXCEPT !.actual = amount]
      BY <1>0, <1>2, <2>2 DEF TypeOK
    <3>2. alloc'[j][s].actual = amount /\ alloc'[j][s].phase = alloc[j][s].phase
      BY <1>a, <3>1 DEF AllocationRecord
    <3>3. QED
      BY <1>2, <2>2, <3>2 DEF CanSettle
  <2>3. QED
    BY <2>1, <2>2
<1>3. ASSUME NEW k \in Jobs, NEW t \in Stages, Settle(k, t) PROVE Effect
  BY <1>1, <1>2, <1>3 DEF Settle
<1>4. ASSUME NEW w \in Workers, ReconcileReceipt(w) \/ SettleReceipt(w) PROVE Effect
  <2>1. CASE ReconcileReceipt(w)
    BY <1>0, <1>3, <2>1 DEF ReconcileReceipt, TypeOK, WorkerRecord
  <2>2. CASE SettleReceipt(w)
    BY <1>0, <1>3, <2>2 DEF SettleReceipt, WorkersSound, WorkerSound, Sending, Holding
  <2>3. QED
    BY <1>4, <2>1, <2>2
<1>5. ASSUME NEW w \in Workers, SendFails(w) PROVE Effect
  <2>1. worker[w].job \in Jobs /\ worker[w].stage \in Stages
    BY <1>0, <1>5 DEF SendFails, WorkersSound, WorkerSound, Sending, Holding
  <2>2. QED
    BY <1>1, <1>2, <1>5, <2>1 DEF SendFails
<1>6. ASSUME NEW w \in Workers, Dispatch(w) PROVE Effect
  <2>1. CASE worker[w].job # j
    BY <1>0, <1>1, <1>6, <2>1 DEF Dispatch, TypeOK
  <2>2. CASE worker[w].job = j
    <3>1. PICK t \in Stages : t = worker[w].stage
      BY <1>6 DEF Dispatch, Admissible
    <3>2. alloc'[j] = Reserved(j, t)
      BY <1>0, <1>6, <2>2, <3>1 DEF Dispatch, TypeOK
    <3>3. alloc'[j][s].actual = alloc[j][s].actual
      BY <1>0, <3>2, ReservedFrame
    <3>4. QED
      BY <1>6, <2>2, <3>3
  <2>3. QED
    BY <2>1, <2>2
<1>7. ASSUME NEW k \in Jobs, alloc' = [alloc EXCEPT ![k] = Released(k)] PROVE Effect
  <2>1. alloc'[j][s] = IF j = k THEN Released(j)[s] ELSE alloc[j][s]
    BY <1>0, <1>7 DEF TypeOK
  <2>2. QED
    BY <1>0, <1>1, <2>1, ReleasedFrame
<1>8. ASSUME NEW w \in Workers, Publish(w) PROVE Effect
  BY <1>7, <1>8 DEF Publish, Owns
<1>9. ASSUME NEW k \in Jobs, Cancel(k) PROVE Effect
  BY <1>7, <1>9 DEF Cancel
<1>10. ASSUME NEW k \in Jobs, NEW t \in Stages, NEW action, ResolveAttempt(k, t, action)
       PROVE  Effect
  <2> DEFINE cost == Decided(k, t, action).cost
  <2>1. /\ alloc' = [alloc EXCEPT ![k] = [Released(k) EXCEPT ![t].actual = cost]]
        /\ CanSettle(k, t, cost)
        /\ attempt[k][t].state # "none"
    BY <1>10 DEF ResolveAttempt
  <2> HIDE DEF cost
  <2>2. CASE k # j
    BY <1>0, <1>1, <2>1, <2>2 DEF TypeOK
  <2>3. CASE k = j /\ t # s
    <3>1. DOMAIN Released(j) = Stages
      BY DEF Released
    <3>2. alloc'[j][s] = Released(j)[s]
      BY <1>0, <2>1, <2>3, <3>1 DEF TypeOK
    <3>3. QED
      BY <1>0, <3>2, ReleasedFrame
  <2>4. CASE k = j /\ t = s
    <3>1. Released(j)[s] = alloc[j][s]
      BY <1>0, <2>1, <2>4, ReleasedFrame DEF CallsSound, CallSound
    <3>2. DOMAIN Released(j) = Stages
      BY DEF Released
    <3>3. alloc'[j][s] = [alloc[j][s] EXCEPT !.actual = cost]
      BY <1>0, <2>1, <2>4, <3>1, <3>2 DEF TypeOK
    <3>4. alloc'[j][s].actual = cost /\ alloc'[j][s].phase = alloc[j][s].phase
      BY <1>a, <3>3 DEF AllocationRecord
    <3>5. QED
      BY <2>1, <2>4, <3>4 DEF CanSettle
  <2>5. QED
    BY <2>2, <2>3, <2>4
<1>11. ASSUME NEW k \in Jobs, NEW t \in Stages, NEW amount \in Invoices,
              ReconcileAllocation(k, t, amount)
       PROVE  Effect
  BY <1>2, <1>11 DEF ReconcileAllocation
<1>12. ASSUME NEW w \in Workers, Claim(w) \/ SaveReceipt(w) PROVE Effect
  BY <1>1, <1>12 DEF Claim, SaveReceipt
<1>13. CASE UNCHANGED <<attempt, alloc, sends>>
  BY <1>1, <1>13
<1>14. QED
  BY <1>4, <1>5, <1>6, <1>8, <1>9, <1>10, <1>11, <1>12, <1>13, CallSteps

(* A job that is not running admits no call.                               *)
LEMMA OnlyRunningDispatches ==
    ASSUME NEW w \in Workers, Dispatch(w)
    PROVE  job[worker[w].job].state = "running"
  BY DEF Dispatch, Owns

(* A published job stays paid in full, and publishing needs it to be.      *)
LEMMA PublishedStep == LedgerInvariant /\ [Next]_vars => PublishedIsPaidInFull'
<1> SUFFICES ASSUME LedgerInvariant, [Next]_vars, NEW j \in Jobs, job'[j].state = "succeeded"
             PROVE  /\ job'[j].calls > 0
                    /\ \A s \in 1 .. job'[j].calls :
                        /\ Checkpointed(j, s)' /\ attempt'[j][s].error = "none"
                        /\ attempt'[j][s].receipt.price = alloc'[j][s].actual
                    /\ \A s \in Stages : alloc'[j][s].phase # "none" => alloc'[j][s].actual # None
  BY DEF PublishedIsPaidInFull, Checkpointed
<1>0. TypeOK /\ CallsSound /\ CallsCounted /\ PublishedIsPaidInFull
  BY DEF LedgerInvariant
<1>c. job[j].calls \in Nat /\ 1 .. job[j].calls \subseteq Stages
  <2>1. job[j].calls \in Nat /\ job[j].calls <= MaxCalls /\ MaxCalls \in Nat
    BY <1>0, ConstantsAssumption
    DEF TypeOK, JobRecord, CallsCounted, JobCounted, ConstantsAssumption
  <2>2. QED
    BY <2>1 DEF Stages
(* The price of a checkpoint is what its allocation charges.               *)
<1>k. ASSUME NEW s \in Stages, Checkpointed(j, s)
      PROVE  /\ alloc[j][s].actual # None /\ attempt[j][s].receipt.price = alloc[j][s].actual
             /\ attempt'[j][s] = attempt[j][s] /\ alloc'[j][s].actual = alloc[j][s].actual
  <2>1. alloc[j][s].actual # None /\ attempt[j][s].receipt.price = alloc[j][s].actual
    BY <1>0, <1>k DEF Checkpointed, CallsSound, CallSound
  <2>2. QED
    BY <1>k, <2>1, AttemptEffects, AllocationEffects
<1>1. CASE job[j].state = "succeeded"
  <2>1. /\ job[j].calls > 0
        /\ \A s \in 1 .. job[j].calls : Checkpointed(j, s) /\ attempt[j][s].error = "none"
        /\ \A s \in Stages : alloc[j][s].phase # "none" => alloc[j][s].actual # None
    BY <1>0, <1>1 DEF PublishedIsPaidInFull
  <2>2. ~\E w \in Workers : Dispatch(w) /\ worker[w].job = j
    BY <1>1, OnlyRunningDispatches
  <2>3. job'[j].calls = job[j].calls
    BY <2>2, JobEffects
  <2>4. ASSUME NEW s \in 1 .. job'[j].calls
        PROVE  /\ Checkpointed(j, s)' /\ attempt'[j][s].error = "none"
               /\ attempt'[j][s].receipt.price = alloc'[j][s].actual
    BY <1>c, <1>k, <2>1, <2>3 DEF Checkpointed
  <2>5. ASSUME NEW s \in Stages, alloc'[j][s].phase # "none" PROVE alloc'[j][s].actual # None
    <3>1. alloc[j][s].phase # "none"
      BY <2>2, <2>5, AllocationEffects
    <3>2. QED
      BY <2>1, <3>1, AllocationEffects
  <2>6. QED
    BY <2>1, <2>3, <2>4, <2>5
<1>2. CASE \E w \in Workers : Publish(w) /\ worker[w].job = j
  <2>1. PICK w \in Workers : Publish(w) /\ worker[w].job = j
    BY <1>2
  <2>2. /\ worker[w].stage > 1 /\ worker[w].stage = job[j].calls + 1
        /\ AllCheckpointed(j)
        /\ Leave(j, "succeeded", job[j].reason)
        /\ alloc' = [alloc EXCEPT ![j] = Released(j)]
    BY <2>1 DEF Publish, Publishable
  <2>3. job'[j].calls = job[j].calls /\ job[j].calls > 0
    <3>1. job[j] \in JobRecord
      BY <1>0 DEF TypeOK
    <3>2. job'[j] = [job[j] EXCEPT !.state = "succeeded", !.reason = job[j].reason, !.live = FALSE]
      BY <1>0, <2>2 DEF Leave, TypeOK
    <3>3. job'[j].calls = job[j].calls
      BY <3>1, <3>2 DEF JobRecord
    <3>4. QED
      BY <1>c, <2>2, <3>3
  <2>4. ASSUME NEW s \in Stages, attempt[j][s].state # "none"
        PROVE  Checkpointed(j, s) /\ attempt[j][s].error = "none"
    BY <2>2, <2>4 DEF AllCheckpointed
  <2>5. ASSUME NEW s \in 1 .. job'[j].calls
        PROVE  /\ Checkpointed(j, s)' /\ attempt'[j][s].error = "none"
               /\ attempt'[j][s].receipt.price = alloc'[j][s].actual
    <3>1. s \in Stages /\ attempt[j][s].state # "none"
      BY <1>0, <1>c, <2>3 DEF CallsCounted, JobCounted
    <3>2. QED
      BY <1>k, <2>4, <3>1 DEF Checkpointed
  <2>6. ASSUME NEW s \in Stages, alloc'[j][s].phase # "none" PROVE alloc'[j][s].actual # None
    <3>1. alloc'[j][s] = Released(j)[s]
      BY <1>0, <2>2 DEF TypeOK
    <3>2. alloc[j][s].phase \in {"reserved", "bound"}
      BY <1>0, <2>6, <3>1, ReleasedFrame DEF TypeOK, AllocationRecord
    <3>3. CASE alloc[j][s].phase = "reserved"
      BY <1>0, <3>1, <3>3, ReleasedFrame
    <3>4. CASE alloc[j][s].phase = "bound"
      <4>1. attempt[j][s].state # "none"
        BY <1>0, <3>4 DEF CallsSound, CallSound
      <4>2. QED
        BY <1>k, <2>4, <4>1
    <3>5. QED
      BY <3>2, <3>3, <3>4
  <2>7. QED
    BY <2>3, <2>5, <2>6
<1>3. QED
  BY <1>1, <1>2, JobEffects

(* Ending a job releases what it had reserved.                             *)
LEMMA StrandedStep == LedgerInvariant /\ [Next]_vars => NoStrandedReserve'
<1> SUFFICES ASSUME LedgerInvariant, [Next]_vars, NEW j \in Jobs, NEW s \in Stages,
                    job'[j].state \in {"succeeded", "cancelled"},
                    alloc'[j][s].phase = "reserved"
             PROVE  alloc'[j][s].actual # None
  BY DEF NoStrandedReserve
<1>0. TypeOK /\ CallsSound /\ NoStrandedReserve
  BY DEF LedgerInvariant
<1>1. CASE job[j].state \in {"succeeded", "cancelled"}
  <2>1. ~\E w \in Workers : Dispatch(w) /\ worker[w].job = j
    BY <1>1, OnlyRunningDispatches
  <2>2. alloc[j][s].phase = "reserved"
    BY <2>1, AllocationEffects
  <2>3. alloc[j][s].actual # None
    BY <1>0, <1>1, <2>2 DEF NoStrandedReserve
  <2>4. QED
    BY <2>3, AllocationEffects
<1>2. ASSUME alloc' = [alloc EXCEPT ![j] = Released(j)] PROVE alloc'[j][s].actual # None
  <2>1. alloc'[j][s] = Released(j)[s]
    BY <1>0, <1>2 DEF TypeOK
  <2>2. QED
    BY <1>0, <2>1, ReleasedFrame
<1>3. CASE \E w \in Workers : Publish(w) /\ worker[w].job = j
  BY <1>2, <1>3 DEF Publish
<1>4. CASE Cancel(j)
  BY <1>2, <1>4 DEF Cancel
<1>5. ASSUME NEW t \in Stages, NEW action, ResolveAttempt(j, t, action)
      PROVE  alloc'[j][s].actual # None
  <2> DEFINE cost == Decided(j, t, action).cost
  <2>1. /\ alloc' = [alloc EXCEPT ![j] = [Released(j) EXCEPT ![t].actual = cost]]
        /\ attempt[j][t].state # "none"
    BY <1>5 DEF ResolveAttempt
  <2> HIDE DEF cost
  <2>d. DOMAIN Released(j) = Stages
    BY DEF Released
  <2>2. CASE t # s
    <3>1. alloc'[j][s] = Released(j)[s]
      BY <1>0, <2>1, <2>2, <2>d DEF TypeOK
    <3>2. QED
      BY <1>0, <3>1, ReleasedFrame
  <2>3. CASE t = s
    <3>1. alloc[j][s].phase = "bound"
      BY <1>0, <2>1, <2>3 DEF CallsSound, CallSound
    <3>2. Released(j)[s] = alloc[j][s] /\ alloc[j][s] \in AllocationRecord
      BY <1>0, <3>1, ReleasedFrame DEF TypeOK
    <3>3. alloc'[j][s] = [alloc[j][s] EXCEPT !.actual = cost]
      BY <1>0, <2>1, <2>3, <2>d, <3>2 DEF TypeOK
    <3>4. alloc'[j][s].phase = "bound"
      BY <3>1, <3>2, <3>3 DEF AllocationRecord
    <3>5. QED
      BY <3>4
  <2>4. QED
    BY <2>2, <2>3
<1>6. QED
  BY <1>1, <1>3, <1>4, <1>5, JobEffects

(* A provider fault leaves the price open.                                 *)
LEMMA UnknownUnpriced ==
    ASSUME NEW r \in Receipts, StateOf(r) = "unknown"
    PROVE  r.price = None
  BY DEF Receipts, StateOf

(* A call the answer has not decided.                                      *)
Open(a) == a.state \in UnresolvedOutcomes /\ (a.settled => StateOf(a.receipt) = "unknown")

(* A call gets undecided only while its job is active.                     *)
LEMMA OpenEffects ==
    ASSUME LedgerInvariant, [Next]_vars, NEW j \in Jobs, NEW s \in Stages,
           job[j].state \notin ActiveStates, Open(attempt'[j][s])
    PROVE  Open(attempt[j][s])
<1>0. TypeOK /\ CallsSound /\ WorkersSound /\ CallSound(j, s)
  BY DEF LedgerInvariant, CallsSound
<1>a. attempt[j][s] \in AttemptRecord
  BY <1>0 DEF TypeOK
<1>u. Unresolved \subseteq UnresolvedOutcomes
  BY DEF UnresolvedOutcomes
<1>1. CASE attempt'[j][s] = attempt[j][s]
  BY <1>1
<1>2. ASSUME NEW k \in Jobs, NEW t \in Stages, attempt[k][t].receipt # None, Settle(k, t)
      PROVE  Open(attempt[j][s])
  <2>1. CASE /\ Saved(j, s)
             /\ attempt'[j][s].receipt = attempt[j][s].receipt
             /\ attempt'[j][s].settled = TRUE
             /\ CanSettle(j, s, attempt[j][s].receipt.price)
    <3>1. StateOf(attempt[j][s].receipt) = "unknown"
      BY <2>1 DEF Open
    <3>2. attempt[j][s].receipt \in Receipts
      BY <1>a, <2>1 DEF AttemptRecord, Saved
    <3>3. attempt[j][s].receipt.price = None
      BY <3>1, <3>2, UnknownUnpriced
    <3>4. alloc[j][s].actual = None
      BY <2>1, <3>3 DEF CanSettle
    <3>5. attempt[j][s].state # "not_sent"
      BY <1>0, <3>4 DEF CallSound
    <3>6. attempt[j][s].state \in UnresolvedOutcomes
      BY <1>0, <2>1, <3>5 DEF CallSound
    <3>7. QED
      BY <2>1, <3>6 DEF Open, Saved
  <2>2. \/ attempt'[j][s] = attempt[j][s]
        \/ /\ j = k /\ s = t /\ Saved(k, t)
           /\ attempt'[j][s].receipt = attempt[j][s].receipt
           /\ attempt'[j][s].settled = TRUE
           /\ attempt'[j][s].state = StateOf(attempt[j][s].receipt)
           /\ CanSettle(k, t, attempt[j][s].receipt.price)
    BY <1>0, <1>2, SettleEffect, Zenon
  <2>3. QED
    BY <1>1, <2>1, <2>2
<1>3. ASSUME NEW w \in Workers, ReconcileReceipt(w) PROVE Open(attempt[j][s])
  <2>1. PICK b \in worker[w].todo : Settle(b[1], b[2])
    BY <1>3 DEF ReconcileReceipt
  <2>2. b[1] \in Jobs /\ b[2] \in Stages
    BY <1>0 DEF TypeOK, WorkerRecord
  <2>3. attempt[b[1]][b[2]].receipt # None
    BY <1>0 DEF WorkersSound, WorkerSound
  <2>4. QED
    BY <1>2, <2>1, <2>2, <2>3
<1>4. ASSUME NEW w \in Workers, SettleReceipt(w) PROVE Open(attempt[j][s])
  <2>1. PICK k \in Jobs, t \in Stages : k = worker[w].job /\ t = worker[w].stage
    BY <1>0, <1>4 DEF SettleReceipt, WorkersSound, WorkerSound, Sending, Holding
  <2>2. attempt[k][t].receipt # None
    BY <1>0, <1>4, <2>1 DEF SettleReceipt, WorkersSound, WorkerSound
  <2>3. QED
    BY <1>2, <1>4, <2>1, <2>2 DEF SettleReceipt
<1>5. ASSUME NEW w \in Workers, Claim(w) PROVE Open(attempt[j][s])
  BY <1>1, <1>5 DEF Claim, Lapsed, ActiveStates
<1>6. ASSUME NEW w \in Workers, Dispatch(w) PROVE Open(attempt[j][s])
  <2>1. worker[w].job # j
    BY <1>6, OnlyRunningDispatches DEF ActiveStates
  <2>2. attempt'[j][s] = attempt[j][s]
    BY <1>0, <1>6, <2>1 DEF Dispatch, TypeOK
  <2>3. QED
    BY <1>1, <2>2
<1>7. ASSUME NEW w \in Workers, SendFails(w) \/ SaveReceipt(w) PROVE Open(attempt[j][s])
  <2>1. PICK k \in Jobs, t \in Stages : k = worker[w].job /\ t = worker[w].stage
    BY <1>0, <1>7 DEF SendFails, SaveReceipt, WorkersSound, WorkerSound, Sending, Holding
  <2>2. attempt[k][t].state \in Unresolved /\ ~attempt[k][t].settled
    BY <1>0, <1>7, <2>1 DEF SendFails, SaveReceipt, WorkersSound, WorkerSound
  <2>3. CASE k = j /\ t = s
    BY <1>u, <2>2, <2>3 DEF Open
  <2>4. CASE k # j \/ t # s
    <3>1. attempt'[j][s] = attempt[j][s]
      BY <1>0, <1>7, <2>1, <2>4 DEF SendFails, SaveReceipt, TypeOK
    <3>2. QED
      BY <1>1, <3>1
  <2>5. QED
    BY <2>3, <2>4
<1>8. ASSUME NEW k \in Jobs, NEW t \in Stages,
             NEW action \in {"abandon_unknown", "not_sent"}, ResolveAttempt(k, t, action)
      PROVE  Open(attempt[j][s])
  <2>1. CASE k # j \/ t # s
    <3>1. attempt'[j][s] = attempt[j][s]
      BY <1>0, <1>8, <2>1 DEF ResolveAttempt, TypeOK
    <3>2. QED
      BY <1>1, <3>1
  <2>2. CASE k = j /\ t = s
    <3>1. attempt'[j][s] = Decided(j, s, action)
      BY <1>0, <1>8, <2>2 DEF ResolveAttempt, TypeOK
    <3>2. /\ Decided(j, s, action).receipt = attempt[j][s].receipt
          /\ Decided(j, s, action).settled = attempt[j][s].settled
      BY <1>a DEF Decided, AttemptRecord
    <3>3. attempt[j][s].state # "none" /\ attempt[j][s].cost = None
      BY <1>8, <2>2 DEF ResolveAttempt
    <3>4. attempt[j][s].state # "not_sent"
      BY <1>0, <3>3 DEF CallSound
    <3>5. attempt[j][s].state \notin {"received", "rejected"}
      BY <1>0, <3>1, <3>2 DEF CallSound, Open
    <3>6. attempt[j][s].state \in UnresolvedOutcomes
      BY <1>a, <3>3, <3>4, <3>5 DEF AttemptRecord, AttemptStates
    <3>7. QED
      BY <3>1, <3>2, <3>6 DEF Open
  <2>3. QED
    BY <2>1, <2>2
<1>9. ASSUME NEW k \in Jobs, NEW t \in Stages, NEW amount, ReconcileAllocation(k, t, amount)
      PROVE  Open(attempt[j][s])
  <2>1. CASE attempt'[j][s] = attempt[j][s]
    BY <1>1, <2>1
  <2>2. CASE attempt'[j][s] = [attempt[j][s] EXCEPT !.cost = amount,
                                                    !.usage = "financially_reconciled"]
    <3>1. /\ attempt'[j][s].state = attempt[j][s].state
          /\ attempt'[j][s].settled = attempt[j][s].settled
          /\ attempt'[j][s].receipt = attempt[j][s].receipt
      BY <1>a, <2>2 DEF AttemptRecord
    <3>2. QED
      BY <3>1 DEF Open
  <2>3. \/ attempt' = attempt
        \/ attempt' = [attempt EXCEPT ![k][t] = [@ EXCEPT !.cost = amount,
                                                  !.usage = "financially_reconciled"]]
    BY <1>9 DEF ReconcileAllocation
  <2>4. CASE k # j \/ t # s
    <3>1. attempt'[j][s] = attempt[j][s]
      BY <1>0, <2>3, <2>4 DEF TypeOK
    <3>2. QED
      BY <2>1, <3>1
  <2>5. CASE k = j /\ t = s
    <3>1. \/ attempt'[j][s] = attempt[j][s]
          \/ attempt'[j][s] = [attempt[j][s] EXCEPT !.cost = amount,
                                                    !.usage = "financially_reconciled"]
      BY <1>0, <2>3, <2>5 DEF TypeOK
    <3>2. QED
      BY <2>1, <2>2, <3>1
  <2>6. QED
    BY <2>4, <2>5
<1>10. CASE attempt' = attempt
  BY <1>1, <1>10
<1>11. ASSUME NEW w \in Workers, Publish(w) PROVE Open(attempt[j][s])
  BY <1>10, <1>11 DEF Publish
<1>12. ASSUME NEW k \in Jobs, Cancel(k) PROVE Open(attempt[j][s])
  BY <1>10, <1>12 DEF Cancel
<1>13. QED
  BY <1>3, <1>4, <1>5, <1>6, <1>7, <1>8, <1>9, <1>10, <1>11, <1>12, CallSteps

(* No step makes two jobs active for the same content.                     *)
LEMMA BlindStep == LedgerInvariant /\ [Next]_vars => NoBlindReplacement'
<1> SUFFICES ASSUME LedgerInvariant, [Next]_vars, NEW j \in Jobs, NEW k \in Jobs,
                    j # k, SubjectOf[j] = SubjectOf[k],
                    job'[j].state \in ActiveStates \/ Undecided(j)',
                    job'[k].state \in ActiveStates
             PROVE  FALSE
  BY DEF NoBlindReplacement
<1>0. TypeOK /\ NoBlindReplacement
  BY DEF LedgerInvariant
<1>b. ~(/\ job[j].state \in ActiveStates \/ Undecided(j)
        /\ job[k].state \in ActiveStates)
  BY <1>0 DEF NoBlindReplacement
<1>o. ~(/\ job[k].state \in ActiveStates \/ Undecided(k)
        /\ job[j].state \in ActiveStates)
  BY <1>0 DEF NoBlindReplacement
<1>u. Undecided(j)' => Undecided(j) \/ job[j].state \in ActiveStates
  <2> SUFFICES ASSUME NEW s \in Stages, Open(attempt'[j][s]), job[j].state \notin ActiveStates
               PROVE  Undecided(j)
    BY DEF Undecided, Open
  <2>1. Open(attempt[j][s])
    BY OpenEffects
  <2>2. QED
    BY <2>1 DEF Undecided, Open
(* Authorizing one of two jobs needs the other to be inactive and decided. *)
<1>1. ASSUME NEW m \in Jobs, NEW n \in Jobs, m # n, SubjectOf[n] = SubjectOf[m], Authorize(m)
      PROVE  /\ job'[n].state \notin ActiveStates
             /\ ~Undecided(n)' /\ ~Undecided(n)
  <2>1. SubjectFree(SubjectOf[m]) /\ attempt' = attempt
    BY <1>1 DEF Authorize
  <2>2. job'[n] = job[n]
    BY <1>0, <1>1 DEF Authorize, TypeOK
  <2>3. job[n].state \notin ActiveStates
    BY <1>1, <2>1 DEF SubjectFree
  <2>4. ~Uncertain(n, UnresolvedOutcomes)
    BY <1>1, <2>1 DEF SubjectFree
  <2>5. QED
    BY <2>1, <2>2, <2>3, <2>4 DEF Uncertain, Undecided
<1>2. CASE Authorize(k)
  BY <1>1, <1>2
<1>3. CASE Authorize(j)
  BY <1>1, <1>3
<1>4. job[k].state \in ActiveStates
  BY <1>2, JobEffects
<1>5. job[j].state \in ActiveStates
  BY <1>3, <1>4, <1>b, <1>u, JobEffects
<1>6. QED
  BY <1>4, <1>5, <1>b

-----------------------------------------------------------------------------
(* The ledger starts sound.                                                *)
LEMMA InitSound == Init => LedgerInvariant
<1> SUFFICES ASSUME Init PROVE LedgerInvariant
  OBVIOUS
<1>n. None \notin Nat /\ None \notin Jobs /\ MaxCalls \in Nat
  BY ConstantsAssumption DEF ConstantsAssumption, Artifacts
<1>1. TypeOK
  BY InitTyped
<1>2. \A j \in Jobs, s \in Stages :
        /\ attempt[j][s] = NoAttempt /\ sends[j][s] = 0
        /\ alloc[j][s] = [phase |-> "none", actual |-> None]
  BY DEF Init
<1>3. \A j \in Jobs : job[j].state = "absent" /\ job[j].calls = 0
  BY DEF Init, NoJob
<1>4. \A w \in Workers : worker[w] = IdleWorker
  BY DEF Init
<1>5. \A j \in Jobs, s \in Stages : attempt[j][s].state = "none"
  BY <1>2 DEF NoAttempt
<1>6. CallsSound
  <2> SUFFICES ASSUME NEW j \in Jobs, NEW s \in Stages PROVE CallSound(j, s)
    BY DEF CallsSound
  <2>1. attempt[j][s] = NoAttempt /\ sends[j][s] = 0 /\ alloc[j][s].phase = "none"
    BY <1>2
  <2>2. /\ attempt[j][s].state = "none" /\ attempt[j][s].receipt = None
        /\ ~attempt[j][s].settled /\ attempt[j][s].usage = "none"
    BY <2>1 DEF NoAttempt
  <2>3. QED
    BY <2>1, <2>2 DEF CallSound, Saved
<1>7. CallsCounted
  BY <1>n, <1>3, <1>5 DEF CallsCounted, JobCounted, Stages
<1>8. WorkersSound /\ WorkersApart
  <2>1. \A w \in Workers : worker[w].pc = "idle" /\ worker[w].todo = {}
    BY <1>4 DEF IdleWorker
  <2>2. "idle" \notin Holding /\ "idle" \notin Sending \cup {"settled"}
    BY DEF Holding, Sending
  <2>3. WorkersSound
    BY <2>1, <2>2 DEF WorkersSound, WorkerSound
  <2>4. WorkersApart
    BY <2>1, <2>2 DEF WorkersApart, Apart
  <2>5. QED
    BY <2>3, <2>4
<1>9. PublishedIsPaidInFull /\ NoStrandedReserve
  BY <1>3 DEF PublishedIsPaidInFull, NoStrandedReserve
<1>10. NoBlindReplacement
  BY <1>3 DEF NoBlindReplacement, ActiveStates
<1>11. QED
  BY <1>1, <1>6, <1>7, <1>8, <1>9, <1>10 DEF LedgerInvariant

(* Every reachable state of the ledger, whatever workers, crashes, lapsed  *)
(* leases, answers and owner decisions led to it, satisfies the invariant. *)
THEOREM LedgerIsSound == Spec => []LedgerInvariant
<1>1. Init => LedgerInvariant
  BY InitSound
<1>2. LedgerInvariant /\ [Next]_vars => LedgerInvariant'
  BY TypeStep, CallsStep, CountedStep, WorkersStep, ApartStep, PublishedStep, StrandedStep,
     BlindStep DEF LedgerInvariant
<1>3. QED
  BY <1>1, <1>2, PTL DEF Spec

(* Every variable keeps its type.                                          *)
THEOREM LedgerIsTyped == Spec => []TypeOK
<1>1. LedgerInvariant => TypeOK
  BY DEF LedgerInvariant
<1>2. QED
  BY <1>1, LedgerIsSound, PTL

(* Gateway.invoke: the request of a stage never goes out a second time.    *)
THEOREM NeverResent == Spec => []NoResend
<1>1. LedgerInvariant => NoResend
  BY DEF LedgerInvariant, CallsSound, CallSound, NoResend
<1>2. QED
  BY <1>1, LedgerIsSound, PTL

(* bind_dispatch_allocation, settle_attempt and reconcile_allocation: a    *)
(* call and its allocation never disagree about what the call cost.        *)
THEOREM MoneyAgrees == Spec => []LedgerAgrees
<1>1. LedgerInvariant => LedgerAgrees
  BY DEF LedgerInvariant, CallsSound, CallSound, LedgerAgrees
<1>2. QED
  BY <1>1, LedgerIsSound, PTL

(* save_artifact: what is published is answered, priced, undisputed and    *)
(* charged in full, and stays so.                                          *)
THEOREM PublishedPaid == Spec => []PublishedIsPaidInFull
<1>1. LedgerInvariant => PublishedIsPaidInFull
  BY DEF LedgerInvariant
<1>2. QED
  BY <1>1, LedgerIsSound, PTL

(* finish, cancel, resolve_attempt: no finished job holds a reservation.   *)
THEOREM NothingStranded == Spec => []NoStrandedReserve
<1>1. LedgerInvariant => NoStrandedReserve
  BY DEF LedgerInvariant
<1>2. QED
  BY <1>1, LedgerIsSound, PTL

(* settle_allocation, finish, save_artifact: the three views of the money  *)
(* of a job agree.                                                         *)
THEOREM MoneyIsSound == Spec => []MoneySound
<1>1. LedgerAgrees /\ NoStrandedReserve /\ PublishedIsPaidInFull => MoneySound
  BY DEF MoneySound
<1>2. QED
  BY <1>1, MoneyAgrees, NothingStranded, PublishedPaid, PTL

(* authorize_candidate: no second job is ever active for the content of a  *)
(* job that is active or has a call no answer decided.                     *)
THEOREM NeverReplacedBlindly == Spec => []NoBlindReplacement
<1>1. LedgerInvariant => NoBlindReplacement
  BY DEF LedgerInvariant
<1>2. QED
  BY <1>1, LedgerIsSound, PTL

-----------------------------------------------------------------------------
(* A worker that holds no job remembers none.                              *)
Vacant == \A w \in Workers : worker[w].pc \notin Holding => worker[w].job = None

(* A worker forgets its job when it leaves it.                             *)
LEMMA VacantStep == TypeOK /\ Vacant /\ [Next]_vars => Vacant'
<1> SUFFICES ASSUME TypeOK, Vacant, [Next]_vars PROVE Vacant'
  OBVIOUS
<1>w. \A v \in Workers : worker[v] \in WorkerRecord
  BY DEF TypeOK
<1>1. CASE worker' = worker
  BY <1>1 DEF Vacant
<1>2. ASSUME NEW v \in Workers, \A u \in Workers : u # v => worker'[u] = worker[u],
             worker'[v].pc \notin Holding => worker'[v].job = None
      PROVE  Vacant'
  BY <1>2 DEF Vacant
<1>3. ASSUME NEW v \in Workers, Idle(v) PROVE Vacant'
  BY <1>2, <1>3, IdleFields DEF IdleWorker
<1>4. ASSUME NEW v \in Workers, NEW code, Stop(v, code) PROVE Vacant'
  BY <1>2, <1>4, StopFields DEF Holding
<1>5. ASSUME NEW v \in Workers, BeginTick(v) \/ ReconcileReceipt(v) PROVE Vacant'
  <2>1. worker[v].job = None
    BY <1>5 DEF Vacant, BeginTick, ReconcileReceipt, Holding
  <2>2. worker'[v].job = worker[v].job
    <3>1. CASE BeginTick(v)
      BY <1>w, <3>1 DEF BeginTick, TypeOK, WorkerRecord
    <3>2. CASE ReconcileReceipt(v)
      BY <1>w, <3>2 DEF ReconcileReceipt, TypeOK, WorkerRecord
    <3>3. QED
      BY <1>5, <3>1, <3>2
  <2>3. \A u \in Workers : u # v => worker'[u] = worker[u]
    BY <1>5 DEF BeginTick, ReconcileReceipt, TypeOK
  <2>4. QED
    BY <1>2, <2>1, <2>2, <2>3
(* A worker that moves on within its run.                                  *)
<1>6. ASSUME NEW v \in Workers, NEW m, worker' = [worker EXCEPT ![v] = m], m.pc \in Holding
      PROVE  Vacant'
  BY <1>2, <1>6 DEF TypeOK
<1>7. ASSUME NEW v \in Workers, Claim(v) PROVE Vacant'
  <2>1. CASE ~Idle(v)
    <3>1. PICK k \in Jobs : worker' = [worker EXCEPT ![v] =
                    [IdleWorker EXCEPT !.pc = "run", !.job = k,
                                       !.fence = Claimed(k).fence, !.stage = 1]]
      BY <1>7, <2>1 DEF Claim
    <3>2. [IdleWorker EXCEPT !.pc = "run", !.job = k,
                             !.fence = Claimed(k).fence, !.stage = 1].pc \in Holding
      BY DEF IdleWorker, Holding
    <3>3. QED
      BY <1>6, <3>1, <3>2
  <2>2. QED
    BY <1>3, <2>1
<1>8. ASSUME NEW v \in Workers,
             \/ Dispatch(v) \/ Answer(v) \/ SaveReceipt(v) \/ SettleReceipt(v)
      PROVE  Vacant'
  <2>0. {"send", "answered", "saved", "settled", "run"} \subseteq Holding
    BY DEF Holding
  <2>1. worker'[v].pc \in Holding
    <3>1. CASE Dispatch(v)
      BY <1>w, <2>0, <3>1 DEF Dispatch, TypeOK, WorkerRecord
    <3>2. CASE Answer(v)
      <4>1. PICK r \in Receipts :
                worker' = [worker EXCEPT ![v] = [worker[v] EXCEPT !.pc = "answered", !.receipt = r]]
        BY <3>2 DEF Answer
      <4>2. worker'[v] = [worker[v] EXCEPT !.pc = "answered", !.receipt = r]
        BY <4>1 DEF TypeOK
      <4>3. QED
        BY <1>w, <2>0, <4>2 DEF WorkerRecord
    <3>3. CASE SaveReceipt(v)
      BY <1>w, <2>0, <3>3 DEF SaveReceipt, TypeOK, WorkerRecord
    <3>4. CASE SettleReceipt(v)
      BY <1>w, <2>0, <3>4 DEF SettleReceipt, TypeOK, WorkerRecord
    <3>5. QED
      BY <1>8, <3>1, <3>2, <3>3, <3>4
  <2>2. \A u \in Workers : u # v => worker'[u] = worker[u]
    BY <1>8 DEF Dispatch, Answer, SaveReceipt, SettleReceipt, TypeOK
  <2>3. QED
    BY <1>2, <2>1, <2>2
<1>9. ASSUME NEW v \in Workers, Replay(v) \/ UseReceipt(v) PROVE Vacant'
  <2>1. CASE \E code : Stop(v, code)
    BY <1>4, <2>1
  <2>2. CASE \/ worker' = [worker EXCEPT ![v].stage = worker[v].stage + 1] /\ worker[v].pc = "run"
             \/ worker' = [worker EXCEPT ![v] = [worker[v] EXCEPT
                    !.pc = "run", !.stage = worker[v].stage + 1]]
    <3>1. worker'[v].pc \in Holding
      <4>1. \/ worker'[v] = [worker[v] EXCEPT !.stage = worker[v].stage + 1]
                /\ worker[v].pc = "run"
            \/ worker'[v] = [worker[v] EXCEPT !.pc = "run", !.stage = worker[v].stage + 1]
        BY <2>2 DEF TypeOK
      <4>2. worker'[v].pc = "run"
        BY <1>w, <4>1 DEF WorkerRecord
      <4>3. QED
        BY <4>2 DEF Holding
    <3>2. \A u \in Workers : u # v => worker'[u] = worker[u]
      BY <2>2 DEF TypeOK
    <3>3. QED
      BY <1>2, <3>1, <3>2
  <2>3. QED
    BY <1>9, <2>1, <2>2 DEF Replay, UseReceipt
<1>10. QED
  BY <1>1, <1>3, <1>4, <1>5, <1>7, <1>8, <1>9, WorkerSteps

(* claim_operation and require_owner: of all the workers that ever claimed *)
(* a job, at most one can still advance it.                                *)
THEOREM OwnerIsExclusive == Spec => []ExclusiveOwner
<1>1. Init => Vacant
  BY DEF Init, Vacant, IdleWorker
<1>2. LedgerInvariant /\ Vacant /\ [Next]_vars => Vacant'
  BY VacantStep DEF LedgerInvariant
<1>3. LedgerInvariant /\ Vacant => ExclusiveOwner
  <2> SUFFICES ASSUME LedgerInvariant, Vacant, NEW v \in Workers, NEW w \in Workers,
                      v # w, Owns(v), Owns(w), worker[v].job = worker[w].job
               PROVE  FALSE
    BY DEF ExclusiveOwner
  <2>1. worker[v].fence = worker[w].fence /\ worker[v].job \in Jobs
    BY DEF Owns
  <2>2. worker[v].job # None
    BY <2>1, ConstantsAssumption DEF ConstantsAssumption, Artifacts
  <2>3. worker[v].pc \in Holding /\ worker[w].pc \in Holding
    BY <2>2 DEF Vacant
  <2>4. Apart(v, w)
    BY DEF LedgerInvariant, WorkersApart
  <2>5. QED
    BY <2>1, <2>3, <2>4 DEF Apart
<1>4. QED
  BY <1>1, <1>2, <1>3, LedgerIsSound, PTL DEF Spec

(* active_attempts: while a request is in flight no other one is sent.     *)
THEOREM OnlyOneInFlight == Spec => []OneInFlight
<1>1. Init => OneInFlight
  BY DEF Init, OneInFlight, IdleWorker
<1>2. LedgerInvariant /\ OneInFlight /\ [Next]_vars => OneInFlight'
  <2> SUFFICES ASSUME LedgerInvariant, OneInFlight, [Next]_vars,
                      NEW u \in Workers, NEW w \in Workers,
                      worker'[u].pc = "send", worker'[w].pc = "send", u # w
               PROVE  FALSE
    BY DEF OneInFlight
  <2>1. PICK v \in Workers :
            /\ \A x \in Workers : x # v => worker'[x] = worker[x]
            /\ worker'[v].pc = "send" => Dispatch(v)
    <3>1. CASE worker' = worker
      BY <3>1 DEF OneInFlight
    <3>2. CASE worker' # worker
      BY <3>2, WorkerEffects DEF Sending
    <3>3. QED
      BY <3>1, <3>2
  <2>2. ASSUME NEW x \in Workers, worker[x].pc = "send", Dispatch(v) PROVE FALSE
    <3>1. /\ worker[x].job \in Jobs /\ worker[x].stage \in Stages
          /\ attempt[worker[x].job][worker[x].stage].state \in Unresolved
      BY <2>2 DEF LedgerInvariant, WorkersSound, WorkerSound, Sending, Holding
    <3>2. ~Some(Unresolved)
      BY <2>2 DEF Dispatch, Admissible, ProviderReady
    <3>3. QED
      BY <3>1, <3>2 DEF Some
  <2>3. CASE u # v /\ w # v
    BY <2>1, <2>3 DEF OneInFlight
  <2>4. CASE u = v
    BY <2>1, <2>2, <2>4
  <2>5. CASE w = v
    BY <2>1, <2>2, <2>5
  <2>6. QED
    BY <2>3, <2>4, <2>5
<1>3. QED
  BY <1>1, <1>2, LedgerIsSound, PTL DEF Spec

(* settle_allocation: an amount once charged never changes.                *)
THEOREM ChargesAreFinal == Spec => MoneyIsFinal
<1>1. LedgerInvariant /\ [Next]_vars =>
        [\A j \in Jobs, s \in Stages : alloc[j][s].actual # None =>
            alloc'[j][s].actual = alloc[j][s].actual]_vars
  BY AllocationEffects
<1>2. QED
  BY <1>1, LedgerIsSound, PTL DEF Spec, MoneyIsFinal

(* A finished job is never touched again.                                  *)
LEMMA TerminalStep ==
    ASSUME LedgerInvariant, [Next]_vars, NEW j \in Jobs,
           job[j].state \in {"succeeded", "cancelled"}
    PROVE  job'[j].state = job[j].state /\ job'[j].calls = job[j].calls
<1>0. TypeOK /\ CallsSound /\ CallsCounted /\ PublishedIsPaidInFull
  BY DEF LedgerInvariant
<1>1. job'[j].calls = job[j].calls
  BY JobEffects, OnlyRunningDispatches
<1>2. job'[j].state \in JobStates
  BY TypeStep DEF TypeOK, JobRecord
<1>3. job'[j].state # "absent"
  BY JobEffects
<1>4. job'[j].state \notin ActiveStates
  BY JobEffects DEF Authorize, ActiveStates
<1>5. job'[j].state \in {"succeeded", "cancelled"}
  BY <1>2, <1>3, <1>4 DEF JobStates
<1>6. ~\E w \in Workers : Publish(w) /\ worker[w].job = j
  BY DEF Publish, Owns
<1>7. job'[j].state = "succeeded" => job[j].state = "succeeded"
  BY <1>6, JobEffects
<1>8. ASSUME job[j].state = "succeeded", NEW s \in Stages, NEW action,
             ResolveAttempt(j, s, action)
      PROVE  FALSE
  <2>1. attempt[j][s].state # "none" /\ attempt[j][s].usage # "known"
    BY <1>8 DEF ResolveAttempt
  <2>2. s \in 1 .. job[j].calls
    BY <1>0, <2>1 DEF CallsCounted, JobCounted, Stages, TypeOK, JobRecord
  <2>3. QED
    BY <1>0, <1>8, <2>1, <2>2 DEF PublishedIsPaidInFull, Checkpointed
<1>9. job'[j].state = "cancelled" => job[j].state = "cancelled"
  BY <1>8, JobEffects DEF Cancel
<1>10. QED
  BY <1>1, <1>5, <1>7, <1>9

(* cancel, finish, tick's handlers: nothing late revives a job.            *)
THEOREM EndsAreFinal == Spec => TerminalIsFinal
<1>1. LedgerInvariant /\ [Next]_vars =>
        [\A j \in Jobs : job[j].state \in {"succeeded", "cancelled"} =>
            job'[j].state = job[j].state /\ job'[j].calls = job[j].calls]_vars
  BY TerminalStep
<1>2. QED
  BY <1>1, LedgerIsSound, PTL DEF Spec, TerminalIsFinal

-----------------------------------------------------------------------------
(* What an active job may replace is fixed when it is authorized.          *)
LEMMA ExpectedKept ==
    ASSUME LedgerInvariant, [Next]_vars, NEW j \in Jobs, job'[j].state \in ActiveStates,
           ~Authorize(j)
    PROVE  job'[j].expected = job[j].expected
<1>0. TypeOK /\ WorkersSound
  BY DEF LedgerInvariant
<1>j. job[j] \in JobRecord
  BY <1>0 DEF TypeOK
<1>1. CASE job'[j] = job[j]
  BY <1>1
<1>2. ASSUME NEW w \in Workers, Claim(w) PROVE job'[j].expected = job[j].expected
  <2>1. job'[j] = AfterLapse(j) \/ job'[j] = Claimed(j)
    BY <1>2 DEF Claim
  <2>2. QED
    BY <1>0, <2>1, JobFields
<1>3. ASSUME NEW w \in Workers, Dispatch(w) PROVE job'[j].expected = job[j].expected
  <2>1. job'[j] = job[j] \/ job'[j] = [job[j] EXCEPT !.calls = @ + 1]
    BY <1>0, <1>3 DEF Dispatch, TypeOK
  <2>2. QED
    BY <1>j, <2>1 DEF JobRecord
<1>4. ASSUME NEW k, NEW state, NEW code, Leave(k, state, code)
      PROVE  job'[j].expected = job[j].expected
  <2>1. \/ job'[j] = job[j]
        \/ job'[j] = [job[j] EXCEPT !.state = state, !.reason = code, !.live = FALSE]
    BY <1>0, <1>4 DEF Leave, TypeOK
  <2>2. QED
    BY <1>j, <2>1 DEF JobRecord
<1>5. ASSUME NEW w \in Workers, Publish(w) \/ HandleFailure(w)
      PROVE  job'[j].expected = job[j].expected
  BY <1>4, <1>5 DEF Publish, HandleFailure
<1>6. ASSUME NEW w \in Workers, Shutdown(w) PROVE job'[j].expected = job[j].expected
  <2>1. job' = [job EXCEPT ![worker[w].job] = GivenUp(worker[w].job)]
    BY <1>6 DEF Shutdown
  <2>2. CASE worker[w].job = j
    <3>1. job'[j] = GivenUp(j)
      BY <1>0, <2>1, <2>2 DEF TypeOK
    <3>2. QED
      BY <1>0, <3>1, JobFields
  <2>3. CASE worker[w].job # j
    BY <1>0, <2>1, <2>3 DEF TypeOK
  <2>4. QED
    BY <2>2, <2>3
<1>7. ASSUME NEW k \in Jobs, LeaseLapses(k) PROVE job'[j].expected = job[j].expected
  <2>1. job'[j] = job[j] \/ job'[j] = [job[j] EXCEPT !.live = FALSE]
    BY <1>0, <1>7 DEF LeaseLapses, TypeOK
  <2>2. QED
    BY <1>j, <2>1 DEF JobRecord
<1>8. ASSUME NEW k \in Jobs, Authorize(k) PROVE job'[j].expected = job[j].expected
  <2>1. k # j
    BY <1>8
  <2>2. job'[j] = job[j]
    BY <1>0, <1>8, <2>1 DEF Authorize, TypeOK
  <2>3. QED
    BY <2>2
<1>9. ASSUME NEW k \in Jobs, job' = [job EXCEPT ![k] = Withdrawn(k)]
      PROVE  job'[j].expected = job[j].expected
  <2>1. CASE k = j
    <3>1. job'[j] = Withdrawn(j)
      BY <1>0, <1>9, <2>1 DEF TypeOK
    <3>2. job'[j].state = "cancelled"
      BY <1>0, <3>1, JobFields
    <3>3. QED
      BY <3>2 DEF ActiveStates
  <2>2. CASE k # j
    BY <1>0, <1>9, <2>2 DEF TypeOK
  <2>3. QED
    BY <2>1, <2>2
<1>10. ASSUME NEW k \in Jobs, ResumeJob(k) PROVE job'[j].expected = job[j].expected
  <2>1. job'[j] = job[j] \/ job'[j] = [job[j] EXCEPT !.state = "queued", !.reason = "none"]
    BY <1>0, <1>10 DEF ResumeJob, TypeOK
  <2>2. QED
    BY <1>j, <2>1 DEF JobRecord
<1>11. CASE HoldBacklog
  <2>1. job'[j] = job[j] \/ job'[j] = [job[j] EXCEPT !.state = "held", !.reason = "refused"]
    BY <1>11 DEF HoldBacklog
  <2>2. QED
    BY <1>j, <2>1 DEF JobRecord
<1>12. ASSUME NEW k \in Jobs, Cancel(k) PROVE job'[j].expected = job[j].expected
  BY <1>9, <1>12 DEF Cancel
<1>13. ASSUME NEW k \in Jobs, NEW s \in Stages, NEW action, ResolveAttempt(k, s, action)
       PROVE  job'[j].expected = job[j].expected
  <2>1. job' = [job EXCEPT ![k] = Withdrawn(k)]
    BY <1>13 DEF ResolveAttempt
  <2>2. QED
    BY <1>9, <2>1
<1>14. QED
  <2>1. ASSUME NEW w \in Workers,
               Claim(w) \/ Dispatch(w) \/ Publish(w) \/ HandleFailure(w) \/ Shutdown(w)
        PROVE  job'[j].expected = job[j].expected
    BY <1>2, <1>3, <1>5, <1>6, <2>1
  <2>2. ASSUME NEW k \in Jobs, LeaseLapses(k) \/ Authorize(k) \/ Cancel(k) \/ ResumeJob(k)
        PROVE  job'[j].expected = job[j].expected
    BY <1>7, <1>8, <1>10, <1>12, <2>2
  <2>3. QED
    BY <1>1, <1>11, <1>13, <2>1, <2>2, JobSteps, Zenon

(* Only publication and imports change what a slot holds.                  *)
LEMMA HeadSteps ==
    ASSUME [Next]_vars
    PROVE  \/ head' = head
           \/ \E w \in Workers : Publish(w)
           \/ \E u \in Legacy : ImportArtifact(u)
<1>1. ASSUME NEW w \in Workers, WorkerStep(w), ~Publish(w) PROVE head' = head
  BY <1>1, Zenon DEF WorkerStep, BeginTick, ReconcileReceipt, ReconcileConflict, Claim,
     LoseOwnership, Replay, Refuse, Dispatch, Answer, SendFails, SaveReceipt, SettleReceipt,
     ReceiptNotRecorded, UseReceipt, GenerateFails, PublishRefused, HandleFailure
<1>2. ASSUME NEW w \in Workers, Shutdown(w) \/ Crash(w) PROVE head' = head
  BY <1>2, Zenon DEF Shutdown, Crash
<1>3. ASSUME NEW j \in Jobs, LeaseLapses(j) \/ Authorize(j) \/ Cancel(j) \/ ResumeJob(j)
      PROVE  head' = head
  BY <1>3, Zenon DEF LeaseLapses, Authorize, Cancel, ResumeJob
<1>4. ASSUME NEW j \in Jobs, NEW s \in Stages, NEW x,
             ResolveAttempt(j, s, x) \/ ReconcileAllocation(j, s, x)
      PROVE  head' = head
  BY <1>4, Zenon DEF ResolveAttempt, ReconcileAllocation
<1>5. ASSUME \/ CooldownEnds \/ Pause \/ ResumeControl \/ ResumePolicy \/ ResetBreaker
             \/ ResetProvider \/ UNCHANGED vars
      PROVE  head' = head
  BY <1>5, Zenon DEF CooldownEnds, Pause, ResumeControl, ResumePolicy, ResetBreaker,
     ResetProvider, vars
<1>6. OwnerStep => head' = head \/ \E u \in Legacy : ImportArtifact(u)
  BY <1>3, <1>4, <1>5, Zenon DEF OwnerStep
<1>7. QED
  BY <1>1, <1>2, <1>3, <1>5, <1>6, Zenon DEF Next

(* save_artifact: nothing but an import changes the slot of a job that is  *)
(* active and stays so.                                                    *)
LEMMA ActiveSlotKept ==
    ASSUME LedgerInvariant, [Next]_vars, NEW j \in Jobs, job'[j].state \in ActiveStates,
           ~Authorize(j)
    PROVE  /\ job[j].state \in ActiveStates /\ job'[j].expected = job[j].expected
           /\ head'[SubjectOf[j]] \in {head[SubjectOf[j]], Imported}
<1>0. TypeOK /\ NoBlindReplacement
  BY DEF LedgerInvariant
<1>u. SubjectOf[j] \in Subjects
  BY ConstantsAssumption DEF ConstantsAssumption
<1>1. job[j].state \in ActiveStates /\ job'[j].expected = job[j].expected
  BY JobEffects, ExpectedKept
<1>2. CASE head' = head
  BY <1>1, <1>2
<1>3. ASSUME NEW u \in Legacy, ImportArtifact(u)
      PROVE  head'[SubjectOf[j]] \in {head[SubjectOf[j]], Imported}
  BY <1>0, <1>u, <1>3 DEF ImportArtifact, TypeOK
<1>4. ASSUME NEW w \in Workers, Publish(w)
      PROVE  head'[SubjectOf[j]] = head[SubjectOf[j]]
  <2>1. PICK k \in Jobs : k = worker[w].job
    BY <1>4 DEF Publish, Owns
  <2>2. /\ job[k].state = "running"
        /\ head' = [head EXCEPT ![SubjectOf[k]] = k]
        /\ Leave(k, "succeeded", job[k].reason)
    BY <1>4, <2>1 DEF Publish, Owns
  <2>3. k # j
    <3>1. job[k] \in JobRecord /\ job'[k] = [job[k] EXCEPT
                !.state = "succeeded", !.reason = job[k].reason, !.live = FALSE]
      BY <1>0, <2>2 DEF Leave, TypeOK
    <3>2. job'[k].state = "succeeded"
      BY <3>1 DEF JobRecord
    <3> QED
      BY <3>2 DEF ActiveStates
  <2>4. SubjectOf[k] # SubjectOf[j]
    BY <1>0, <1>1, <2>2, <2>3 DEF NoBlindReplacement, ActiveStates
  <2> QED
    BY <1>0, <1>u, <2>2, <2>4 DEF TypeOK
<1> QED
  BY <1>1, <1>2, <1>3, <1>4, HeadSteps

(* authorize_candidate binds a job to what its slot holds.                 *)
LEMMA SlotStep ==
    ASSUME LedgerInvariant, SlotHeld, [Next]_vars
    PROVE  SlotHeld'
<1> SUFFICES ASSUME NEW j \in Jobs, job'[j].state \in ActiveStates
             PROVE  head'[SubjectOf[j]] \in {job'[j].expected, Imported}
  BY DEF SlotHeld
<1>1. CASE Authorize(j)
  <2>1. job'[j] = [NoJob EXCEPT !.state = "queued", !.expected = head[SubjectOf[j]]]
    BY <1>1 DEF Authorize, LedgerInvariant, TypeOK
  <2>2. job'[j].expected = head[SubjectOf[j]]
    BY <2>1 DEF NoJob
  <2>3. head' = head
    BY <1>1 DEF Authorize
  <2> QED
    BY <2>2, <2>3
<1>2. CASE ~Authorize(j)
  BY <1>2, ActiveSlotKept DEF SlotHeld
<1> QED
  BY <1>1, <1>2

(* save_artifact: publication compares the slot with what was authorized,  *)
(* so an overtaken job never succeeds, and nothing but its own publication *)
(* puts the replaced text back.                                            *)
LEMMA OvertakenStep ==
    ASSUME LedgerInvariant, SlotHeld, [Next]_vars
    PROVE  StaysOvertaken
<1> SUFFICES ASSUME NEW j \in Jobs, Overtaken(j)
             PROVE  /\ job'[j].state # "succeeded"
                    /\ job'[j].state \in ActiveStates => Overtaken(j)'
  BY DEF StaysOvertaken
<1>0. /\ TypeOK
      /\ job[j].state \in ActiveStates /\ head[SubjectOf[j]] = Imported
      /\ job[j].expected # Imported
  BY DEF LedgerInvariant, Overtaken, SlotHeld
<1>1. job'[j].state # "succeeded"
  <2>1. ASSUME NEW w \in Workers, Publish(w) PROVE worker[w].job # j
    BY <2>1 DEF Publish, Publishable, Overtaken
  <2> QED
    BY <1>0, <2>1, JobEffects DEF ActiveStates
<1>2. ASSUME job'[j].state \in ActiveStates
      PROVE  Overtaken(j)'
  <2>1. ~Authorize(j)
    BY <1>0 DEF Authorize, ActiveStates
  <2> QED
    BY <1>0, <1>2, <2>1, ActiveSlotKept DEF Overtaken
<1> QED
  BY <1>1, <1>2

(* save_artifact: the slot of an active job changes by an import or not at *)
(* all, and an overtaken job never publishes.                              *)
THEOREM SlotIsKept == Spec => OnlyImportOvertakes
<1>1. Init => SlotHeld
  BY DEF Init, SlotHeld, NoJob, ActiveStates
<1>2. LedgerInvariant /\ SlotHeld /\ [Next]_vars => SlotHeld'
  BY SlotStep
<1>3. LedgerInvariant /\ SlotHeld /\ [Next]_vars => StaysOvertaken
  BY OvertakenStep
<1>4. QED
  BY <1>1, <1>2, <1>3, LedgerIsSound, PTL DEF Spec, OnlyImportOvertakes

-----------------------------------------------------------------------------
(* Only admission submits a request.                                       *)
LEMMA SendSteps ==
    ASSUME [Next]_vars
    PROVE  sends' = sends \/ \E w \in Workers : Dispatch(w)
<1>1. ASSUME NEW w \in Workers, WorkerStep(w), ~Dispatch(w) PROVE sends' = sends
  BY <1>1, Zenon DEF WorkerStep, BeginTick, ReconcileReceipt, ReconcileConflict, Claim,
     LoseOwnership, Replay, Refuse, Publish, Answer, SendFails, SaveReceipt, SettleReceipt,
     ReceiptNotRecorded, UseReceipt, GenerateFails, PublishRefused, HandleFailure
<1>2. ASSUME NEW w \in Workers, Shutdown(w) \/ Crash(w) PROVE sends' = sends
  BY <1>2, Zenon DEF Shutdown, Crash
<1>3. ASSUME NEW j \in Jobs, LeaseLapses(j) \/ Authorize(j) \/ Cancel(j) \/ ResumeJob(j)
      PROVE  sends' = sends
  BY <1>3, Zenon DEF LeaseLapses, Authorize, Cancel, ResumeJob
<1>4. ASSUME NEW j \in Jobs, NEW s \in Stages, NEW x,
             ResolveAttempt(j, s, x) \/ ReconcileAllocation(j, s, x)
      PROVE  sends' = sends
  BY <1>4, Zenon DEF ResolveAttempt, ReconcileAllocation
<1>5. ASSUME \/ CooldownEnds \/ Pause \/ ResumeControl \/ ResumePolicy \/ ResetBreaker
             \/ ResetProvider \/ UNCHANGED vars \/ \E u \in Legacy : ImportArtifact(u)
      PROVE  sends' = sends
  BY <1>5, Zenon DEF CooldownEnds, Pause, ResumeControl, ResumePolicy, ResetBreaker,
     ResetProvider, ImportArtifact, vars
<1>6. OwnerStep => sends' = sends
  BY <1>3, <1>4, <1>5, Zenon DEF OwnerStep
<1>7. QED
  BY <1>1, <1>2, <1>3, <1>5, <1>6, Zenon DEF Next

(* Every step settles prices the way the promise allows.                   *)
LEMMA PromiseCharging ==
    ASSUME LedgerInvariant, [Next]_vars
    PROVE  Promise!Charging
<1>1. TypeOK'
  BY TypeStep
<1>2. ASSUME NEW j \in Jobs, NEW s \in Stages PROVE alloc'[j][s].actual \in Nat \cup {None}
  BY <1>1 DEF TypeOK, AllocationRecord, Amounts
<1>3. Charges' \in [Jobs -> [Stages -> Nat \cup {None}]]
  BY <1>2 DEF Charges
<1>4. ASSUME NEW j \in Jobs, NEW s \in Stages, Charges[j][s] # None
      PROVE  Charges'[j][s] = Charges[j][s]
  BY <1>4, AllocationEffects DEF Charges
<1>5. QED
  BY <1>3, <1>4 DEF Promise!Charging

(* What the promise sees of a step that closes no job and sends nothing.   *)
LEMMA PromiseQuiet ==
    ASSUME LedgerInvariant, [Next]_vars, Outcomes' = Outcomes, sends' = sends
    PROVE  Promise!Next
  BY PromiseCharging DEF Promise!Next

(* A job that ends closes its work for the promise, and no other.          *)
LEMMA PromiseCloses ==
    ASSUME TypeOK, NEW k \in Jobs, NEW m, job' = [job EXCEPT ![k] = m]
    PROVE  Outcomes' = [Outcomes EXCEPT ![k] = OutcomeOf(m.state)]
<1>1. ASSUME NEW j \in Jobs
      PROVE  job'[j].state = IF j = k THEN m.state ELSE job[j].state
  BY DEF TypeOK
<1>2. Outcomes' = [j \in Jobs |-> OutcomeOf(IF j = k THEN m.state ELSE job[j].state)]
  BY <1>1 DEF Outcomes
<1>3. QED
  BY <1>2 DEF Outcomes

(* Admission is the submission of a call.                                  *)
LEMMA PromiseSubmits ==
    ASSUME LedgerInvariant, [Next]_vars, NEW w \in Workers, Dispatch(w)
    PROVE  Promise!Next
<1>0. TypeOK /\ CallsSound
  BY DEF LedgerInvariant
<1>1. PICK j \in Jobs, s \in Stages : j = worker[w].job /\ s = worker[w].stage
  BY DEF Dispatch, Owns, Admissible
<1>2. /\ job[j].state = "running" /\ attempt[j][s].state = "none"
      /\ alloc[j][s].actual = None
  BY <1>1 DEF Dispatch, Owns, Admissible
<1>3. sends[j][s] = 0
  BY <1>0, <1>2 DEF CallsSound, CallSound
<1>4. sends' = [sends EXCEPT ![j][s] = 1]
  <2>1. sends' = [sends EXCEPT ![j][s] = sends[j][s] + 1]
    BY <1>1 DEF Dispatch
  <2>2. QED
    BY <1>3, <2>1
<1>5. Outcomes' = Outcomes
  <2>1. ASSUME NEW k \in Jobs PROVE job'[k].state = job[k].state
    <3>1. job[k] \in JobRecord
      BY <1>0 DEF TypeOK
    <3>2. job'[k] = job[k] \/ job'[k] = [job[k] EXCEPT !.calls = @ + 1]
      BY <1>0 DEF Dispatch, TypeOK
    <3>3. QED
      BY <3>1, <3>2 DEF JobRecord
  <2>2. QED
    BY <2>1 DEF Outcomes
<1>6. Charges' = Charges
  <2>1. ASSUME NEW k \in Jobs, NEW t \in Stages PROVE alloc'[k][t].actual = alloc[k][t].actual
    <3>1. alloc' = [alloc EXCEPT ![j] = Reserved(j, s)]
      BY <1>1 DEF Dispatch
    <3>2. CASE k # j
      BY <1>0, <3>1, <3>2 DEF TypeOK
    <3>3. CASE k = j
      <4>1. alloc'[k] = Reserved(j, s)
        BY <1>0, <3>1, <3>3 DEF TypeOK
      <4>2. QED
        BY <1>0, <3>3, <4>1, ReservedFrame
    <3>4. QED
      BY <3>2, <3>3
  <2>2. QED
    BY <2>1 DEF Charges
<1>7. Outcomes[j] = "open" /\ Charges[j][s] = None
  BY <1>2 DEF Outcomes, OutcomeOf, Charges
<1>8. Promise!Submit(j, s)
  BY <1>3, <1>4, <1>5, <1>6, <1>7 DEF Promise!Submit
<1>9. QED
  BY <1>8 DEF Promise!Next

(* Publication is the delivery of work charged in full.                    *)
LEMMA PromiseDelivers ==
    ASSUME LedgerInvariant, [Next]_vars, NEW w \in Workers, Publish(w)
    PROVE  Promise!Next
<1>0. TypeOK /\ CallsSound /\ CallsCounted
  BY DEF LedgerInvariant
<1>1. PICK j \in Jobs : j = worker[w].job
  BY DEF Publish, Owns
<1>2. /\ job[j].state = "running" /\ AllCheckpointed(j) /\ sends' = sends
      /\ worker[w].stage > 1 /\ worker[w].stage = job[j].calls + 1
      /\ job' = [job EXCEPT ![j] = [@ EXCEPT !.state = "succeeded", !.reason = job[j].reason,
                                             !.live = FALSE]]
  BY <1>1 DEF Publish, Publishable, Owns, Leave
<1>3. Outcomes' = [Outcomes EXCEPT ![j] = "delivered"]
  <2> DEFINE m == [job[j] EXCEPT !.state = "succeeded", !.reason = job[j].reason, !.live = FALSE]
  <2>1. job' = [job EXCEPT ![j] = m]
    BY <1>0, <1>2 DEF TypeOK
  <2>2. m.state = "succeeded"
    BY <1>0 DEF TypeOK, JobRecord
  <2> HIDE DEF m
  <2>3. QED
    BY <1>0, <2>1, <2>2, PromiseCloses DEF OutcomeOf
<1>4. Outcomes[j] = "open"
  BY <1>2 DEF Outcomes, OutcomeOf
<1>5. \E s \in Stages : sends[j][s] > 0
  <2>1. job[j].calls \in Nat /\ 1 <= job[j].calls /\ worker[w].stage \in Nat
    BY <1>0, <1>2 DEF TypeOK, JobRecord, WorkerRecord
  <2>2. 1 \in Stages
    BY ConstantsAssumption DEF ConstantsAssumption, Stages
  <2>3. attempt[j][1].state # "none"
    BY <1>0, <2>1, <2>2 DEF CallsCounted, JobCounted
  <2>4. sends[j][1] = 1
    BY <1>0, <2>2, <2>3 DEF CallsSound, CallSound
  <2>5. QED
    BY <2>2, <2>4
<1>6. ASSUME NEW s \in Stages, sends[j][s] > 0 PROVE Charges[j][s] # None
  <2>1. attempt[j][s].state # "none"
    BY <1>0, <1>6 DEF CallsSound, CallSound
  <2>2. Checkpointed(j, s)
    BY <1>2, <2>1 DEF AllCheckpointed
  <2>3. alloc[j][s].actual # None
    BY <1>0, <2>2 DEF Checkpointed, CallsSound, CallSound
  <2>4. QED
    BY <2>3 DEF Charges
<1>7. Promise!Deliver(j)
  BY <1>2, <1>3, <1>4, <1>5, <1>6, PromiseCharging DEF Promise!Deliver
<1>8. QED
  BY <1>7 DEF Promise!Next

(* Withdrawing a job drops its work, unless that is dropped already.       *)
LEMMA PromiseDrops ==
    ASSUME LedgerInvariant, [Next]_vars, NEW k \in Jobs, sends' = sends,
           job' = [job EXCEPT ![k] = Withdrawn(k)]
    PROVE  Promise!Next
<1>0. TypeOK
  BY DEF LedgerInvariant
<1>1. Withdrawn(k).state = "cancelled" /\ job'[k] = Withdrawn(k)
  BY <1>0, JobFields DEF TypeOK
<1>2. Outcomes' = [Outcomes EXCEPT ![k] = "dropped"]
  BY <1>0, <1>1, PromiseCloses DEF OutcomeOf
<1>3. job[k].state # "succeeded"
  BY <1>1, TerminalStep
<1>4. CASE job[k].state = "cancelled"
  <2>1. Outcomes[k] = "dropped"
    BY <1>4 DEF Outcomes, OutcomeOf
  <2>2. Outcomes' = Outcomes
    BY <1>2, <2>1 DEF Outcomes
  <2>3. QED
    BY <2>2, PromiseQuiet
<1>5. CASE job[k].state # "cancelled"
  <2>1. Outcomes[k] = "open"
    BY <1>3, <1>5 DEF Outcomes, OutcomeOf
  <2>2. Promise!Drop(k)
    BY <1>2, <2>1, PromiseCharging DEF Promise!Drop
  <2>3. QED
    BY <2>2 DEF Promise!Next
<1>6. QED
  BY <1>4, <1>5

(* The ledger implements PaidWriting: no interleaving of workers, crashes, *)
(* lapsed leases, late receipts and owner decisions buys a call twice or   *)
(* after its work was closed, changes a final price, or delivers work that *)
(* is not fully charged.                                                   *)
THEOREM KeepsThePromise == Spec => ImplementsPromise
<1>1. Init => Promise!Init
  BY DEF Init, NoJob, Promise!Init, Outcomes, OutcomeOf, Charges
<1>2. LedgerInvariant /\ [Next]_vars => [Promise!Next]_(Promise!vars)
  <2> SUFFICES ASSUME LedgerInvariant, [Next]_vars PROVE Promise!Next
    OBVIOUS
  <2>1. CASE \E w \in Workers : Dispatch(w)
    BY <2>1, PromiseSubmits
  <2>2. CASE \E w \in Workers : Publish(w)
    BY <2>2, PromiseDelivers
  <2>3. ASSUME NEW k \in Jobs, job' = [job EXCEPT ![k] = Withdrawn(k)], sends' = sends
        PROVE  Promise!Next
    BY <2>3, PromiseDrops
  <2>4. CASE \E k \in Jobs : Cancel(k)
    BY <2>3, <2>4 DEF Cancel
  <2>5. CASE \E k \in Jobs, s \in Stages, action \in {"abandon_unknown", "not_sent"} :
                ResolveAttempt(k, s, action)
    <3>1. PICK k \in Jobs : job' = [job EXCEPT ![k] = Withdrawn(k)] /\ sends' = sends
      BY <2>5 DEF ResolveAttempt
    <3>2. QED
      BY <2>3, <3>1
  <2>6. ASSUME ~\E w \in Workers : Dispatch(w) \/ Publish(w),
               ~\E k \in Jobs : Cancel(k),
               ~\E k \in Jobs, s \in Stages, action \in {"abandon_unknown", "not_sent"} :
                    ResolveAttempt(k, s, action)
        PROVE  Promise!Next
    <3>1. sends' = sends
      BY <2>6, SendSteps
    <3>2. ASSUME NEW j \in Jobs PROVE OutcomeOf(job'[j].state) = OutcomeOf(job[j].state)
      <4>1. job[j].state \in {"succeeded", "cancelled"} => job'[j].state = job[j].state
        BY TerminalStep
      <4>2. job'[j].state \in {"succeeded", "cancelled"} =>
                job[j].state \in {"succeeded", "cancelled"}
        BY <2>6, JobEffects
      <4>3. QED
        BY <4>1, <4>2 DEF OutcomeOf
    <3>3. Outcomes' = Outcomes
      BY <3>2 DEF Outcomes
    <3>4. QED
      BY <3>1, <3>3, PromiseQuiet
  <2>7. QED
    BY <2>1, <2>2, <2>4, <2>5, <2>6
<1>3. QED
  BY <1>1, <1>2, LedgerIsSound, PTL DEF Spec, ImplementsPromise, Promise!Spec
===============================================================================
