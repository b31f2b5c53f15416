-------------------------- MODULE MediaStagesProofs --------------------------
(***************************************************************************)
(* What holds of MediaStages for every value of its constants: that its    *)
(* invariant is inductive, the properties that follow from it, and that it *)
(* implements MediaPipeline.                                               *)
(*                                                                         *)
(* The 28 actions are read three times: for the types, for what they make  *)
(* of one stage (StageEffects) and for what they make of one call and of   *)
(* its money (CallEffects). Every part of the invariant then follows from  *)
(* those effects, not from the actions.                                    *)
(***************************************************************************)
EXTENDS MediaStagesInvariant, FiniteSetTheorems, WellFoundedInduction, TLAPS

-----------------------------------------------------------------------------
(* Types.                                                                  *)

(* Paid stages are the narrations.                                         *)
LEMMA PaidStage ==
    /\ Paid \subseteq Stages /\ None \notin Stages
    /\ \A c \in Stages : c \in Paid <=> ~Free(c)
<1>1. Stages \subseteq Episodes \X Nat \X Nat
  BY DEF Stages, Executions, Positions
<1>2. None \notin Stages
  BY <1>1, ConstantsAssumption DEF ConstantsAssumption
<1>3. Paid \subseteq Stages /\ \A c \in Stages : c \in Paid <=> ~Free(c)
  BY ConstantsAssumption DEF ConstantsAssumption, Stages, Paid, Positions, Narrations, Last, Free
<1> QED
  BY <1>2, <1>3

StageStates == {"absent", "queued", "running", "held", "needs_attention", "succeeded", "cancelled"}

(* The fields of a stage.                                                  *)
LEMMA StageValues ==
    ASSUME NEW s \in StageRecord
    PROVE  /\ s.gen \in Nat /\ s.gen + 1 \in Nat /\ s.live \in BOOLEAN /\ s.aged \in BOOLEAN
           /\ s.failures \in 0 .. MaxFailures /\ 0 \in 0 .. MaxFailures
           /\ s.failures < MaxFailures => s.failures + 1 \in 0 .. MaxFailures
           /\ s.owner \in Workers \cup {None}
           /\ s.state \in StageStates
  BY ConstantsAssumption DEF ConstantsAssumption, StageRecord, StageStates

(* Updates of a stage keep its type.                                       *)
LEMMA StageFields ==
    ASSUME NEW s \in StageRecord
    PROVE  /\ \A b \in BOOLEAN : [s EXCEPT !.live = b] \in StageRecord
           /\ \A n \in Nat : [s EXCEPT !.gen = n] \in StageRecord
           /\ \A n \in Nat, b \in BOOLEAN : [s EXCEPT !.gen = n, !.live = b] \in StageRecord
           /\ \A x \in StageStates : [s EXCEPT !.state = x] \in StageRecord
           /\ \A x \in StageStates, b \in BOOLEAN : [s EXCEPT !.state = x, !.live = b] \in StageRecord
           /\ \A x \in StageStates, b \in BOOLEAN : [s EXCEPT !.state = x, !.aged = b] \in StageRecord
  BY Zenon DEF StageRecord, StageStates

(* More updates of a stage keep its type, several fields at a time.        *)
LEMMA StageChanges ==
    ASSUME NEW s \in StageRecord, NEW x \in StageStates, NEW n \in Nat, NEW b \in BOOLEAN,
           NEW f \in 0 .. MaxFailures
    PROVE  /\ [s EXCEPT !.state = x, !.live = b, !.gen = n] \in StageRecord
           /\ [s EXCEPT !.state = x, !.gen = n, !.live = b, !.aged = FALSE] \in StageRecord
           /\ [s EXCEPT !.state = x, !.failures = f, !.live = b] \in StageRecord
           /\ [s EXCEPT !.state = x, !.gen = n, !.live = b, !.failures = f, !.aged = FALSE]
                    \in StageRecord
           /\ \A w \in Workers :
                [s EXCEPT !.state = x, !.live = b, !.gen = n, !.owner = w] \in StageRecord
  BY Zenon DEF StageRecord, StageStates

(* A retry of free work keeps the type of the stage.                       *)
LEMMA RetryType ==
    ASSUME NEW s \in StageRecord
    PROVE  RetryFree(s) \in StageRecord
<1>1. CASE s.failures < MaxFailures
  <2> DEFINE f == s.failures + 1
  <2>1. f \in 0 .. MaxFailures
    BY <1>1, StageValues
  <2> HIDE DEF f
  <2>2. [s EXCEPT !.state = "queued", !.failures = f, !.live = FALSE] \in StageRecord
    BY <2>1, StageChanges DEF StageStates
  <2> QED
    BY <1>1, <2>2 DEF RetryFree, f
<1>2. CASE ~(s.failures < MaxFailures)
  BY <1>2, StageFields DEF RetryFree, StageStates
<1> QED
  BY <1>1, <1>2

(* What the actions make of a stage.                                       *)
LEMMA StageMakers ==
    ASSUME NEW s \in StageRecord, NEW x \in StageStates, NEW w \in Workers \cup {None}
    PROVE  /\ [s EXCEPT !.gen = @ + 1] \in StageRecord
           /\ [s EXCEPT !.gen = @ + 1, !.live = FALSE] \in StageRecord
           /\ [s EXCEPT !.state = x, !.live = FALSE, !.gen = @ + 1] \in StageRecord
           /\ [s EXCEPT !.state = x, !.gen = @ + 1, !.live = FALSE, !.aged = FALSE] \in StageRecord
           /\ w \in Workers =>
                [s EXCEPT !.state = x, !.live = TRUE, !.gen = @ + 1, !.owner = w] \in StageRecord
           /\ \A old \in BOOLEAN : Refused(s, old) \in StageRecord
           /\ Requeued(s) \in StageRecord /\ Ended(s, x) \in StageRecord
           /\ Cancelled(s) \in StageRecord
<1> DEFINE n == s.gen + 1
<1>1. n \in Nat /\ 0 \in 0 .. MaxFailures
  BY StageValues
<1>2. {"queued", "held", "cancelled"} \subseteq StageStates
  BY DEF StageStates
<1> HIDE DEF n
<1>3. /\ [s EXCEPT !.gen = n] \in StageRecord
      /\ [s EXCEPT !.gen = n, !.live = FALSE] \in StageRecord
      /\ [s EXCEPT !.state = x, !.live = FALSE, !.gen = n] \in StageRecord
      /\ [s EXCEPT !.state = x, !.gen = n, !.live = FALSE, !.aged = FALSE] \in StageRecord
      /\ [s EXCEPT !.state = "cancelled", !.gen = n, !.live = FALSE, !.aged = FALSE] \in StageRecord
      /\ w \in Workers =>
            [s EXCEPT !.state = x, !.live = TRUE, !.gen = n, !.owner = w] \in StageRecord
      /\ \A old \in BOOLEAN : [s EXCEPT !.state = "held", !.aged = old] \in StageRecord
      /\ [s EXCEPT !.state = "queued", !.gen = n, !.live = FALSE, !.failures = 0, !.aged = FALSE]
            \in StageRecord
  BY <1>1, <1>2, StageFields, StageChanges
<1> QED
  BY <1>3, Zenon DEF n, Refused, Requeued, Ended, Cancelled

(* The stages of a new run, and of none, are typed.                        *)
LEMMA NoStageType == NoStage \in StageRecord /\ FreshStage \in StageRecord
<1>1. NoStage \in StageRecord
  BY ConstantsAssumption DEF ConstantsAssumption, StageRecord, NoStage
<1> QED
  BY <1>1, StageFields DEF FreshStage, StageStates

(* A stage whose lease was given up is typed.                              *)
LEMMA ExpiryType ==
    ASSUME TypeOK, NEW c \in Stages
    PROVE  AfterExpiry(c) \in StageRecord
<1>1. stage[c] \in StageRecord
  BY DEF TypeOK
<1> DEFINE s == [stage[c] EXCEPT !.gen = @ + 1]
<1>2. s \in StageRecord
  BY <1>1, StageMakers DEF StageStates
<1> HIDE DEF s
<1>3. /\ [s EXCEPT !.state = "needs_attention"] \in StageRecord
      /\ [s EXCEPT !.state = "held"] \in StageRecord
  BY <1>2, StageFields DEF StageStates
<1> QED
  BY <1>1, <1>2, <1>3, RetryType DEF AfterExpiry, s

(* Updates of a call keep its type.                                        *)
LEMMA AttemptFields ==
    ASSUME NEW a \in AttemptRecord
    PROVE  /\ \A b \in BOOLEAN : [a EXCEPT !.identified = b] \in AttemptRecord
           /\ \A r \in Receipts \cup {None}, b \in BOOLEAN :
                [a EXCEPT !.receipt = r, !.identified = b] \in AttemptRecord
           /\ [a EXCEPT !.recovered = TRUE] \in AttemptRecord
           /\ \A n \in Nat \cup {None} : [a EXCEPT !.cost = n] \in AttemptRecord
           /\ \A w \in Workers : [a EXCEPT !.owner = w] \in AttemptRecord
           /\ \A x \in {"no", "exact", "stale"} : [a EXCEPT !.adopted = x] \in AttemptRecord
  BY Zenon DEF AttemptRecord

(* Updates of the state of a call keep its type.                           *)
LEMMA AttemptStates ==
    ASSUME NEW a \in AttemptRecord, NEW x \in Unresolved \cup {"none", "received", "rejected"}
    PROVE  /\ [a EXCEPT !.state = x] \in AttemptRecord
           /\ [a EXCEPT !.state = x, !.error = "invalid"] \in AttemptRecord
           /\ \A w \in Workers : [a EXCEPT !.state = x, !.owner = w] \in AttemptRecord
  BY Zenon DEF AttemptRecord

(* Noting that the evidence of an adoption changed keeps the type.         *)
LEMMA NotedType ==
    ASSUME NEW a \in AttemptRecord
    PROVE  Noted(a) \in AttemptRecord
<1>1. (IF a.adopted = "exact" THEN "stale" ELSE a.adopted) \in {"no", "exact", "stale"}
  BY DEF AttemptRecord
<1> QED
  BY <1>1, AttemptFields, Zenon DEF Noted

(* A call that was not begun is typed.                                     *)
LEMMA NoAttemptType == NoAttempt \in AttemptRecord
  BY DEF NoAttempt, AttemptRecord

(* What settlement finds is an amount, or nothing.                         *)
LEMMA AmountType ==
    ASSUME NEW a \in AttemptRecord
    PROVE  Amount(a) \in Nat \cup {None}
<1>1. KnownAmounts(a) \subseteq Nat
  BY ConstantsAssumption DEF ConstantsAssumption, KnownAmounts, AttemptRecord
<1> QED
  BY <1>1 DEF Amount

(* A call whose outcome is replaced as a whole.                            *)
LEMMA OutcomeFields ==
    ASSUME NEW a \in AttemptRecord,
           NEW x \in Unresolved \cup {"none", "received", "rejected"},
           NEW y \in {"none", "rejected", "unknown", "invalid"},
           NEW n \in Nat \cup {None}, NEW p \in BOOLEAN, NEW q \in BOOLEAN
    PROVE  [a EXCEPT !.state = x, !.error = y, !.cost = n, !.settled = p, !.resettled = q]
                \in AttemptRecord
  BY ZenonT(60) DEF AttemptRecord

(* What settlement makes of a call.                                        *)
LEMMA SettledType ==
    ASSUME NEW a \in AttemptRecord
    PROVE  Settled(a) \in AttemptRecord
<1> DEFINE x == StateOf(a)  y == ErrorOf(a)  n == Amount(a)
           p == a.settled \/ a.receipt # None  q == a.resettled \/ a.recovered
<1>1. x \in Unresolved \cup {"none", "received", "rejected"}
  BY DEF StateOf, Unresolved, Active
<1>2. y \in {"none", "rejected", "unknown", "invalid"}
  BY DEF ErrorOf
<1>3. n \in Nat \cup {None} /\ p \in BOOLEAN /\ q \in BOOLEAN
  BY AmountType DEF AttemptRecord
<1>4. Settled(a) = IF ~Pending(a) THEN a
                   ELSE Noted([a EXCEPT !.state = x, !.error = y, !.cost = n, !.settled = p,
                                        !.resettled = q])
  BY DEF Settled
<1> HIDE DEF x, y, n, p, q
<1>5. [a EXCEPT !.state = x, !.error = y, !.cost = n, !.settled = p, !.resettled = q]
        \in AttemptRecord
  BY <1>1, <1>2, <1>3, OutcomeFields
<1> QED
  BY <1>4, <1>5, NotedType

(* Updates of what a worker remembers keep its type.                       *)
LEMMA WorkerFields ==
    ASSUME NEW m \in WorkerRecord,
           NEW x \in {"idle", "leased", "authorized", "sent", "named", "answered", "posted", "done",
                      "looking", "found", "restored", "retrieved"}
    PROVE  /\ [m EXCEPT !.pc = x] \in WorkerRecord
           /\ \A r \in Receipts \cup {None} : [m EXCEPT !.pc = x, !.receipt = r] \in WorkerRecord
           /\ \A c \in Stages, n \in Nat : [m EXCEPT !.pc = x, !.at = c, !.gen = n] \in WorkerRecord
  BY Zenon DEF WorkerRecord

(* A worker that starts over is typed.                                     *)
LEMMA IdleType == Idle \in WorkerRecord
  BY DEF Idle, WorkerRecord

(* Updates of an allocation keep its type.                                 *)
LEMMA AllocFields ==
    ASSUME NEW b \in AllocationRecord
    PROVE  /\ \A n \in Nat \cup {None} : [b EXCEPT !.actual = n] \in AllocationRecord
           /\ [b EXCEPT !.phase = "bound"] \in AllocationRecord
           /\ [NoAllocation EXCEPT !.phase = "reserved"] \in AllocationRecord
           /\ NoAllocation \in AllocationRecord
  BY DEF AllocationRecord, NoAllocation

(* A degraded receipt is a receipt.                                        *)
LEMMA DegradedType ==
    ASSUME NEW r \in Receipts \cup {None}
    PROVE  Degraded(r) \in Receipts \cup {None}
  BY DEF Degraded, Receipts, Identified, Priced

(* The steps of the API, the worker and the operator keep the types.       *)
LEMMA TypeStep ==
    ASSUME TypeOK, OnlySender, [Next]_vars
    PROVE  TypeOK'
<1>0. /\ \A c \in Stages : stage[c] \in StageRecord
      /\ \A c \in Paid : attempt[c] \in AttemptRecord /\ alloc[c] \in AllocationRecord
                         /\ lookup[c] \in LookupRecord /\ sends[c] \in Nat
      /\ \A w \in Workers : worker[w] \in WorkerRecord
      /\ \A w \in Workers : worker[w].receipt \in Receipts \cup {None}
  BY DEF TypeOK, WorkerRecord
<1>1. ASSUME NEW w \in Workers, Claim(w) PROVE TypeOK'
  <2>0. PICK taken \in Stages \cup {None}, refused \in SUBSET {c \in Stages : Eligible(c)} :
            \E old \in SUBSET refused : Allots(w, taken, refused, old)
    BY <1>1 DEF Claim
  <2>1. PICK old \in SUBSET refused : Allots(w, taken, refused, old)
    BY <2>0
  <2>2. ASSUME NEW c \in Stages
        PROVE  /\ [AfterExpiry(c) EXCEPT !.state = "running", !.live = TRUE, !.gen = @ + 1,
                                         !.owner = w] \in StageRecord
               /\ Refused(AfterExpiry(c), c \in old) \in StageRecord
    <3>1. /\ AfterExpiry(c) \in StageRecord /\ "running" \in StageStates
          /\ (c \in old) \in BOOLEAN /\ w \in Workers \cup {None}
      BY ExpiryType DEF StageStates
    <3> QED
      BY <3>1, StageMakers, Zenon
  <2>3. stage' \in [Stages -> StageRecord]
    BY <2>1, <2>2, ExpiryType DEF Allots
  <2>4. ASSUME taken # None
        PROVE  [Idle EXCEPT !.pc = "leased", !.at = taken, !.gen = stage'[taken].gen] \in WorkerRecord
    <3>1. taken \in Stages /\ stage'[taken].gen \in Nat
      BY <2>1, <2>3, <2>4, StageValues
    <3> QED
      BY <3>1, IdleType, WorkerFields
  <2>5. worker' \in [Workers -> WorkerRecord]
    BY <2>1, <2>4 DEF Allots, TypeOK
  <2>6. attempt' \in [Paid -> AttemptRecord]
    <3>1. ASSUME NEW c \in Paid PROVE [attempt[c] EXCEPT !.state = "unknown"] \in AttemptRecord
      BY <1>0, AttemptStates DEF Unresolved, Active
    <3> QED
      BY <1>0, <1>1, <3>1 DEF Claim, GivenUp
  <2> QED
    BY <1>1, <2>3, <2>5, <2>6 DEF Claim, TypeOK
<1>2. ASSUME NEW w \in Workers, ClaimLookup(w) PROVE TypeOK'
  <2>1. PICK seen \in SUBSET Pursued(w), taken \in Paid \cup {None} :
          /\ lookup' = [c \in Paid |->
                IF c = taken THEN [lookup[c] EXCEPT !.state = "running", !.live = TRUE]
                ELSE IF c \in seen THEN [lookup[c] EXCEPT !.state = "held"]
                ELSE lookup[c]]
          /\ worker' = IF taken = None THEN worker
                       ELSE [worker EXCEPT ![w] = [Idle EXCEPT !.pc = "looking", !.at = taken,
                                                               !.gen = lookup[taken].id]]
    BY <1>2 DEF ClaimLookup
  <2>2. lookup' \in [Paid -> LookupRecord]
    BY <1>0, <2>1 DEF LookupRecord
  <2>3. ASSUME taken # None
        PROVE  [Idle EXCEPT !.pc = "looking", !.at = taken, !.gen = lookup[taken].id] \in WorkerRecord
    <3>1. taken \in Stages /\ lookup[taken].id \in Nat
      BY <1>0, <2>1, <2>3, PaidStage DEF LookupRecord
    <3> QED
      BY <3>1, IdleType, WorkerFields
  <2> QED
    BY <1>2, <2>1, <2>2, <2>3 DEF ClaimLookup, TypeOK
<1>3. ASSUME NEW w \in Workers, Forget(w) PROVE TypeOK'
  BY <1>3, IdleType DEF Forget, TypeOK
<1>4. ASSUME NEW w \in Workers, CompleteFree(w) PROVE TypeOK'
  <2> DEFINE c == worker[w].at
             next == [stage[c] EXCEPT !.gen = @ + 1, !.live = FALSE]
  <2>1. c \in Stages /\ stage[c] \in StageRecord
    BY <1>0, <1>4 DEF CompleteFree, Holds
  <2>2. next \in StageRecord
    BY <2>1, StageMakers DEF StageStates
  <2> HIDE DEF next
  <2>3. /\ [stage[c] EXCEPT !.state = "succeeded", !.live = FALSE] \in StageRecord
        /\ RetryFree(next) \in StageRecord /\ [next EXCEPT !.state = "held"] \in StageRecord
    BY <2>1, <2>2, RetryType, StageFields DEF StageStates
  <2>4. PICK s \in StageRecord : stage' = [stage EXCEPT ![c] = s]
    BY <1>4, <2>3 DEF CompleteFree, next
  <2> QED
    BY <1>4, <2>1, <2>4, IdleType DEF CompleteFree, TypeOK
<1>5. ASSUME NEW w \in Workers, Authorize(w) PROVE TypeOK'
  <2> DEFINE c == worker[w].at
  <2>1. c \in Paid /\ c[1] \in Episodes
    BY <1>5 DEF Authorize, Paid
  <2>2. [NoAttempt EXCEPT !.state = "dispatching", !.owner = w] \in AttemptRecord
    BY NoAttemptType, AttemptStates DEF Unresolved, Active
  <2>3. Planned(c) \in [Paid -> AllocationRecord]
    BY <1>0, AllocFields DEF Planned, TypeOK
  <2>4. [Planned(c)[c] EXCEPT !.phase = "bound"] \in AllocationRecord
    BY <2>1, <2>3, AllocFields
  <2>5. [worker[w] EXCEPT !.pc = "authorized"] \in WorkerRecord
    BY <1>0, WorkerFields
  <2>6. alloc' = [Planned(c) EXCEPT ![c] = [Planned(c)[c] EXCEPT !.phase = "bound"]]
    BY <1>5 DEF Authorize
  <2>7. alloc' \in [Paid -> AllocationRecord]
    BY <2>3, <2>4, <2>6
  <2> QED
    BY <1>5, <2>1, <2>2, <2>5, <2>7 DEF Authorize, TypeOK
<1>6. ASSUME NEW w \in Workers, Send(w) PROVE TypeOK'
  <2>1. PICK answer \in Answers :
          worker' = [worker EXCEPT ![w] = [worker[w] EXCEPT !.pc = "sent", !.receipt = answer]]
    BY <1>6 DEF Send
  <2>2. answer \in Receipts \cup {None}
    BY ConstantsAssumption DEF ConstantsAssumption, Receipts, Identified
  <2>3. [worker[w] EXCEPT !.pc = "sent", !.receipt = answer] \in WorkerRecord
    BY <1>0, <2>2, WorkerFields
  <2>4. worker[w].at \in Paid /\ sends[worker[w].at] + 1 \in Nat
    BY <1>0, <1>6 DEF Send, OnlySender
  <2> QED
    BY <1>6, <2>1, <2>3, <2>4 DEF Send, TypeOK
<1>7. ASSUME NEW w \in Workers, SaveIdentity(w) PROVE TypeOK'
  <2> DEFINE c == worker[w].at
  <2>1. /\ [worker[w] EXCEPT !.pc = "named"] \in WorkerRecord
        /\ [worker[w] EXCEPT !.pc = "answered", !.receipt = Degraded(worker[w].receipt)]
                \in WorkerRecord
    BY <1>0, WorkerFields, DegradedType
  <2>2. Owned(w) => c \in Paid /\ [attempt[c] EXCEPT !.identified = TRUE] \in AttemptRecord
    BY <1>0, AttemptFields DEF Owned
  <2>3. worker' \in [Workers -> WorkerRecord]
    <3>1. CASE worker' = [worker EXCEPT ![w].pc = "named"]
      BY <2>1, <3>1 DEF TypeOK
    <3>2. CASE worker' = [worker EXCEPT ![w].pc = "answered", ![w].receipt = Degraded(@)]
      <4>1. worker' = [worker EXCEPT ![w] = [worker[w] EXCEPT !.pc = "answered",
                                                !.receipt = Degraded(worker[w].receipt)]]
        BY <1>0, <3>2 DEF TypeOK, WorkerRecord
      <4> QED
        BY <2>1, <4>1 DEF TypeOK
    <3> QED
      BY <1>7, <3>1, <3>2 DEF SaveIdentity
  <2>4. attempt' \in [Paid -> AttemptRecord]
    BY <1>7, <2>2 DEF SaveIdentity, TypeOK
  <2> QED
    BY <1>7, <2>3, <2>4 DEF SaveIdentity, TypeOK
<1>8. ASSUME NEW w \in Workers, Upload(w) PROVE TypeOK'
  <2>1. PICK receipt \in {worker[w].receipt, Degraded(worker[w].receipt)} :
          worker' = [worker EXCEPT ![w] = [worker[w] EXCEPT !.pc = "answered",
                                                            !.receipt = receipt]]
    BY <1>8 DEF Upload
  <2>2. [worker[w] EXCEPT !.pc = "answered", !.receipt = receipt] \in WorkerRecord
    BY <1>0, <2>1, WorkerFields, DegradedType
  <2> QED
    BY <1>8, <2>1, <2>2 DEF Upload, TypeOK
<1>9. ASSUME NEW w \in Workers, SaveReceipt(w) PROVE TypeOK'
  <2> DEFINE c == worker[w].at
             r == worker[w].receipt
             b == attempt[c].identified \/ r \in Identified
  <2>1. c \in Paid /\ b \in BOOLEAN
    BY <1>0, <1>9 DEF SaveReceipt, Owned, AttemptRecord
  <2> HIDE DEF b
  <2>2. [attempt[c] EXCEPT !.receipt = r, !.identified = b] \in AttemptRecord
    BY <1>0, <2>1, AttemptFields
  <2>3. [worker[w] EXCEPT !.pc = "posted"] \in WorkerRecord
    BY <1>0, WorkerFields
  <2>4. attempt' = [attempt EXCEPT ![c] = [attempt[c] EXCEPT !.receipt = r, !.identified = b]]
    BY <1>9, <2>1 DEF SaveReceipt, b, TypeOK, AttemptRecord
  <2>5. attempt' \in [Paid -> AttemptRecord]
    BY <2>1, <2>2, <2>4 DEF TypeOK
  <2> QED
    BY <1>9, <2>3, <2>5 DEF SaveReceipt, TypeOK
<1>10. ASSUME NEW c \in Paid, Settle(c)
       PROVE  /\ attempt' \in [Paid -> AttemptRecord] /\ alloc' \in [Paid -> AllocationRecord]
              /\ account' \in {"none", "accounting", "denied", "exceeded"}
  <2>1. Settled(attempt[c]) \in AttemptRecord /\ Amount(attempt[c]) \in Nat \cup {None}
    BY <1>0, SettledType, AmountType
  <2>2. alloc[c].actual \in Nat \cup {None}
    BY <1>0 DEF AllocationRecord
  <2> DEFINE n == IF Pending(attempt[c]) THEN Amount(attempt[c]) ELSE alloc[c].actual
  <2>3. n \in Nat \cup {None}
    BY <2>1, <2>2
  <2>4. alloc' = [alloc EXCEPT ![c] = [alloc[c] EXCEPT !.actual = n]]
    BY <1>10 DEF Settle
  <2> HIDE DEF n
  <2>5. [alloc[c] EXCEPT !.actual = n] \in AllocationRecord
    BY <1>0, <2>3, AllocFields
  <2>6. account' \in {"none", "accounting", "denied", "exceeded"}
    BY <1>10 DEF Settle, AccountAfter, TypeOK
  <2> QED
    BY <1>10, <2>1, <2>4, <2>5, <2>6 DEF Settle, TypeOK
<1>11. ASSUME NEW w \in Workers, SettleReceipt(w) \/ SettleRecovered(w) PROVE TypeOK'
  <2>1. worker[w].at \in Paid /\ Settle(worker[w].at)
    BY <1>11 DEF SettleReceipt, SettleRecovered, Owned
  <2>2. /\ [worker[w] EXCEPT !.pc = "done"] \in WorkerRecord
        /\ [worker[w] EXCEPT !.pc = "retrieved"] \in WorkerRecord
    BY <1>0, WorkerFields
  <2> QED
    BY <1>10, <1>11, <2>1, <2>2 DEF SettleReceipt, SettleRecovered, TypeOK
<1>12. ASSUME NEW w \in Workers, CompleteNarration(w) PROVE TypeOK'
  <2> DEFINE c == worker[w].at
  <2>1. c \in Stages /\ stage[c] \in StageRecord
    BY <1>0, <1>12 DEF CompleteNarration, Holds
  <2>2. /\ [stage[c] EXCEPT !.state = "succeeded", !.live = FALSE] \in StageRecord
        /\ [stage[c] EXCEPT !.state = "held", !.live = FALSE, !.gen = @ + 1] \in StageRecord
    BY <2>1, StageFields, StageMakers DEF StageStates
  <2>3. PICK s \in StageRecord : stage' = [stage EXCEPT ![c] = s]
    <3>1. CASE stage' = [stage EXCEPT ![c] = [stage[c] EXCEPT !.state = "succeeded", !.live = FALSE]]
      BY <2>2, <3>1
    <3>2. CASE stage' = [stage EXCEPT ![c].state = "held", ![c].live = FALSE, ![c].gen = @ + 1]
      <4>1. stage' = [stage EXCEPT ![c] = [stage[c] EXCEPT !.state = "held", !.live = FALSE,
                                                           !.gen = @ + 1]]
        BY <2>1, <3>2 DEF TypeOK, StageRecord
      <4> QED
        BY <2>2, <4>1
    <3> QED
      BY <1>12, <3>1, <3>2 DEF CompleteNarration
  <2> QED
    BY <1>12, <2>1, <2>3, IdleType DEF CompleteNarration, TypeOK
<1>13. ASSUME NEW w \in Workers, FetchHistory(w) PROVE TypeOK'
  <2>1. /\ [worker[w] EXCEPT !.pc = "retrieved"] \in WorkerRecord
        /\ [worker[w] EXCEPT !.pc = "found"] \in WorkerRecord
    BY <1>0, WorkerFields
  <2> QED
    BY <1>13, <2>1 DEF FetchHistory, TypeOK
<1>14. ASSUME NEW w \in Workers, SaveRecovered(w) PROVE TypeOK'
  <2> DEFINE c == worker[w].at
  <2>1. c \in Paid /\ Noted([attempt[c] EXCEPT !.recovered = TRUE]) \in AttemptRecord
    BY <1>0, <1>14, AttemptFields, NotedType DEF SaveRecovered, Owned
  <2>2. [worker[w] EXCEPT !.pc = "restored"] \in WorkerRecord
    BY <1>0, WorkerFields
  <2> QED
    BY <1>14, <2>1, <2>2 DEF SaveRecovered, TypeOK
<1>15. ASSUME NEW w \in Workers, FinishLookup(w) PROVE TypeOK'
  <2> DEFINE c == worker[w].at
  <2>1. c \in Paid /\ lookup[c] \in LookupRecord
    BY <1>0, <1>15 DEF FinishLookup, OnlySender
  <2>2. /\ [lookup[c] EXCEPT !.state = "finished", !.live = FALSE] \in LookupRecord
        /\ [lookup[c] EXCEPT !.state = "held", !.live = FALSE] \in LookupRecord
    BY <2>1 DEF LookupRecord
  <2>3. account' \in {"none", "accounting", "denied", "exceeded"}
    BY <1>15 DEF FinishLookup, TypeOK
  <2> QED
    BY <1>15, <2>1, <2>2, <2>3, IdleType DEF FinishLookup, TypeOK
<1>16. ASSUME NEW c \in Paid, Receipting(c) PROVE TypeOK'
  <2>1. Noted([attempt[c] EXCEPT !.state = "unknown", !.error = "invalid"]) \in AttemptRecord
    BY <1>0, AttemptStates, NotedType DEF Unresolved, Active
  <2> QED
    BY <1>10, <1>16, <2>1 DEF Receipting, ReconcileSaved, ReconcileConflict, TypeOK
<1>17. ASSUME NEW c \in Paid, LapseLookup(c) PROVE TypeOK'
  BY <1>17 DEF LapseLookup, TypeOK, LookupRecord
<1>18. ASSUME NEW c \in Stages, Lapse(c) PROVE TypeOK'
  <2>1. [stage[c] EXCEPT !.live = FALSE] \in StageRecord
    BY <1>0, StageFields
  <2> QED
    BY <1>18, <2>1 DEF Lapse, TypeOK
<1>19. ASSUME NEW c \in Paid, NEW w \in Workers, ReconcileRequest(c, w) PROVE TypeOK'
  <2> DEFINE a == attempt[c]
  <2>1. a \in AttemptRecord /\ Settled(a) \in AttemptRecord /\ Amount(a) \in Nat \cup {None}
    BY <1>0, SettledType, AmountType
  <2>2. Noted([Settled(a) EXCEPT !.owner = w]) \in AttemptRecord
    BY <2>1, AttemptFields, NotedType
  <2>3. attempt' \in [Paid -> AttemptRecord]
    BY <1>19, <2>1, <2>2 DEF ReconcileRequest, TypeOK
  <2> DEFINE n == IF Pending(a) THEN Amount(a) ELSE alloc[c].actual
  <2>4. n \in Nat \cup {None}
    BY <1>0, <2>1 DEF AllocationRecord
  <2>5. alloc' = [alloc EXCEPT ![c] = [alloc[c] EXCEPT !.actual = n]]
    BY <1>19 DEF ReconcileRequest
  <2> HIDE DEF n
  <2>6. [alloc[c] EXCEPT !.actual = n] \in AllocationRecord
    BY <1>0, <2>4, AllocFields
  <2>7. account' \in {"none", "accounting", "denied", "exceeded"}
    BY <1>19 DEF ReconcileRequest, AccountAfter, TypeOK
  <2>8. lookup' \in [Paid -> LookupRecord]
    <3>1. attempt'[c].owner \in Workers \cup {None} /\ lookup[c].id + 1 \in Nat
      BY <1>0, <2>3 DEF AttemptRecord, LookupRecord
    <3>2. [state |-> "pending", id |-> lookup[c].id + 1, live |-> FALSE,
           owner |-> attempt'[c].owner] \in LookupRecord
      BY <3>1 DEF LookupRecord
    <3> QED
      BY <1>19, <3>2 DEF ReconcileRequest, Enqueued, TypeOK
  <2> QED
    BY <1>19, <2>3, <2>5, <2>6, <2>7, <2>8 DEF ReconcileRequest, TypeOK
<1>20. ASSUME NEW c \in Paid, NEW amount \in Invoices, Invoice(c, amount) PROVE TypeOK'
  <2>1. amount \in Nat \cup {None}
    BY ConstantsAssumption DEF ConstantsAssumption
  <2>2. /\ [alloc[c] EXCEPT !.actual = amount] \in AllocationRecord
        /\ Noted([attempt[c] EXCEPT !.cost = amount]) \in AttemptRecord
    BY <1>0, <2>1, AllocFields, AttemptFields, NotedType
  <2> QED
    BY <1>20, <2>2 DEF Invoice, TypeOK
<1>21. ASSUME NEW c \in Stages, ResumeFree(c) PROVE TypeOK'
  <2>1. \A d \in Stages : Requeued(stage[d]) \in StageRecord
    BY <1>0, StageMakers DEF StageStates
  <2> QED
    BY <1>0, <1>21, <2>1 DEF ResumeFree, TypeOK
<1>22. ASSUME NEW e \in Episodes, Adopt(e) PROVE TypeOK'
  <2>1. \A c \in Stages :
          /\ [stage[c] EXCEPT !.state = "succeeded", !.gen = @ + 1, !.live = FALSE, !.aged = FALSE]
                \in StageRecord
          /\ Requeued(stage[c]) \in StageRecord
    BY <1>0, StageMakers DEF StageStates
  <2>2. stage' \in [Stages -> StageRecord]
    BY <1>0, <1>22, <2>1 DEF Adopt
  <2>3. \A c \in Paid :
          [attempt[c] EXCEPT !.adopted = IF @ = "no" THEN "exact" ELSE "stale"] \in AttemptRecord
    BY <1>0, AttemptFields
  <2>4. attempt' \in [Paid -> AttemptRecord]
    BY <1>0, <1>22, <2>3 DEF Adopt
  <2> QED
    BY <1>22, <2>2, <2>4 DEF Adopt, TypeOK
<1>23. ASSUME NEW e \in Episodes, Replace(e) PROVE TypeOK'
  <2>1. stage' \in [Stages -> StageRecord]
    BY <1>0, <1>23, StageMakers, NoStageType DEF Replace, StageStates
  <2>2. \A a \in Paid : Noted([attempt[a] EXCEPT !.state = "abandoned"]) \in AttemptRecord
    BY <1>0, AttemptStates, NotedType DEF Unresolved, Active
  <2>3. attempt' \in [Paid -> AttemptRecord]
    BY <1>0, <1>23, <2>2 DEF Replace
  <2>4. alloc' \in [Paid -> AllocationRecord]
    BY <1>0, <1>23, AllocFields DEF Replace
  <2>5. waived' \in [Episodes \X Executions -> SUBSET Paid]
    BY <1>23 DEF Replace, TypeOK
  <2> QED
    BY <1>23, <2>1, <2>3, <2>4, <2>5 DEF Replace, TypeOK
<1>24. ASSUME NEW e \in Episodes, SkipVideo(e) PROVE TypeOK'
  <2>1. stage' \in [Stages -> StageRecord]
    BY <1>0, <1>24, StageMakers DEF SkipVideo, StageStates
  <2>2. \A a \in Paid : [alloc[a] EXCEPT !.actual = 0] \in AllocationRecord
    BY <1>0, AllocFields
  <2>3. alloc' \in [Paid -> AllocationRecord]
    BY <1>0, <1>24, <2>2 DEF SkipVideo
  <2> QED
    BY <1>24, <2>1, <2>3 DEF SkipVideo, TypeOK
<1>25. CASE ResetProvider
  BY <1>25 DEF ResetProvider, TypeOK
<1>26. ASSUME NEW e \in Episodes, RenewPreflight(e) PROVE TypeOK'
  <2>1. \A c \in Stages : [stage[c] EXCEPT !.state = "queued", !.aged = FALSE] \in StageRecord
    BY <1>0, StageFields DEF StageStates
  <2>2. stage' \in [Stages -> StageRecord]
    BY <1>0, <1>26, <2>1 DEF RenewPreflight
  <2> QED
    BY <1>26, <2>2 DEF RenewPreflight, TypeOK
<1>27. ASSUME NEW e \in Episodes, DependencyChanged(e) \/ FactsChanged(e) PROVE TypeOK'
  <2>1. \A c \in Stages : Ended(stage[c], "held") \in StageRecord
    BY <1>0, StageMakers DEF StageStates
  <2>2. PICK which : Stopped(e, which)
    BY <1>27 DEF DependencyChanged, FactsChanged
  <2>3. stage' \in [Stages -> StageRecord]
    BY <1>0, <2>1, <2>2 DEF Stopped
  <2>4. attempt' \in [Paid -> AttemptRecord]
    <3>1. ASSUME NEW c \in Paid PROVE [attempt[c] EXCEPT !.state = "unknown"] \in AttemptRecord
      BY <1>0, AttemptStates DEF Unresolved, Active
    <3> QED
      BY <1>0, <2>2, <3>1 DEF Stopped, GivenUp
  <2> QED
    BY <2>2, <2>3, <2>4 DEF Stopped, TypeOK
<1>28. CASE UNCHANGED vars
  BY <1>28 DEF vars, TypeOK
<1> QED
  BY <1>1, <1>2, <1>3, <1>4, <1>5, <1>6, <1>7, <1>8, <1>9, <1>11, <1>12, <1>13, <1>14,
     <1>15, <1>16, <1>17, <1>18, <1>19, <1>20, <1>21, <1>22, <1>23, <1>24, <1>25, <1>26, <1>27,
     <1>28
     DEF Next, Worker, Step, Operator, Source

-----------------------------------------------------------------------------
(* Runs of a script.                                                       *)

(* A stage is an episode, an execution and a position.                     *)
LEMMA StageParts ==
    ASSUME NEW c \in Stages
    PROVE  /\ c[1] \in Episodes /\ c[2] \in Executions /\ c[3] \in Positions
           /\ c = <<c[1], c[2], c[3]>> /\ c[2] \in Nat /\ c[3] \in Nat
           /\ <<c[1], c[2], 1>> \in Stages /\ <<c[1], c[2], 1>> \in RunOf(c)
           /\ c \in RunOf(c) /\ c \in Of(c[1])
  BY ConstantsAssumption
     DEF ConstantsAssumption, Stages, Executions, Positions, Last, RunOf, Of

(* The stage before one is of the same run; that before a narration is a   *)
(* narration.                                                              *)
LEMMA PriorStage ==
    ASSUME NEW c \in Stages, c[3] > 1
    PROVE  /\ Prior(c) \in Stages /\ Prior(c)[1] = c[1] /\ Prior(c)[2] = c[2]
           /\ Prior(c)[3] = c[3] - 1 /\ Prior(c) # c /\ Prior(c) \in RunOf(c)
           /\ c \in Paid => Prior(c) \in Paid
  BY ConstantsAssumption
     DEF ConstantsAssumption, Stages, Paid, Prior, Positions, Narrations, Last, RunOf

(* The first stage of a run speaks for all of it.                          *)
LEMMA FirstStage ==
    ASSUME NEW e \in Episodes, NEW r \in Executions
    PROVE  /\ <<e, r, 1>> \in Paid /\ <<e, r, 1>> \in Stages
           /\ <<e, r, 1>>[1] = e /\ <<e, r, 1>>[2] = r
  BY ConstantsAssumption DEF ConstantsAssumption, Stages, Paid, Positions, Narrations, Last

(* The runs of an episode are those up to its latest.                      *)
LEMMA LatestIs ==
    ASSUME RunsWhole, NEW e \in Episodes
    PROVE  /\ Latest(e) \in Executions
           /\ \A q \in Executions : Present(<<e, q, 1>>) <=> q <= Latest(e)
<1>1. PICK r \in Executions : \A q \in Executions : Present(<<e, q, 1>>) <=> q <= r
  BY DEF RunsWhole
<1> DEFINE Good(n) == /\ n \in Executions /\ stage[<<e, n, 1>>].state # "absent"
                      /\ \A q \in Executions : stage[<<e, q, 1>>].state # "absent" => q <= n
<1>2. Good(r)
  BY <1>1 DEF Present, Executions
<1>3. ASSUME NEW n, Good(n) PROVE n = r
  BY <1>1, <1>2, <1>3 DEF Present, Executions
<1>4. Latest(e) = CHOOSE n : Good(n)
  BY DEF Latest
<1>5. Good(Latest(e))
  BY <1>2, <1>4
<1>6. Latest(e) = r
  BY <1>3, <1>5
<1> QED
  BY <1>1, <1>6

(* The same of the next state.                                             *)
LEMMA LatestNext ==
    ASSUME RunsWhole', NEW e \in Episodes
    PROVE  /\ Latest(e)' \in Executions
           /\ \A q \in Executions : Present(<<e, q, 1>>)' <=> q <= Latest(e)'
<1>1. PICK r \in Executions : \A q \in Executions : Present(<<e, q, 1>>)' <=> q <= r
  BY DEF RunsWhole
<1> DEFINE Good(n) == /\ n \in Executions /\ stage'[<<e, n, 1>>].state # "absent"
                      /\ \A q \in Executions : stage'[<<e, q, 1>>].state # "absent" => q <= n
<1>2. Good(r)
  BY <1>1 DEF Present, Executions
<1>3. ASSUME NEW n, Good(n) PROVE n = r
  BY <1>1, <1>2, <1>3 DEF Present, Executions
<1>4. Latest(e)' = CHOOSE n : Good(n)
  BY DEF Latest
<1>5. Good(Latest(e)')
  BY <1>2, <1>4
<1>6. Latest(e)' = r
  BY <1>3, <1>5
<1> QED
  BY <1>1, <1>6

(* A stage exists when its run is not after the latest.                    *)
LEMMA PresentIs ==
    ASSUME RunsWhole, NEW c \in Stages
    PROVE  Present(c) <=> c[2] <= Latest(c[1])
<1>1. Present(c) <=> Present(<<c[1], c[2], 1>>)
  BY StageParts DEF RunsWhole
<1>2. c[1] \in Episodes /\ c[2] \in Executions
  BY StageParts
<1> QED
  BY <1>1, <1>2, LatestIs

-----------------------------------------------------------------------------
(* What a step can make of one stage.                                      *)

(* Its state and what a preflight may do to it stay.                       *)
Keeps(c) == stage'[c].state = stage[c].state /\ stage'[c].aged = stage[c].aged

(* A worker takes it, or a gate refuses it.                                *)
Starts(c) ==
    /\ stage[c].state = "queued" /\ stage'[c].state = "running"
    /\ stage'[c].aged = stage[c].aged
    /\ c[3] > 1 => stage[Prior(c)].state = "succeeded"
Waits(c) ==
    /\ stage'[c].state = "held"
    /\ stage[c].state = "queued" \/ (Free(c) /\ stage[c].state = "running")

(* Its lease lapsed or its worker failed: only free work is tried again.   *)
Fails(c) ==
    /\ stage[c].state = "running" /\ stage'[c].aged = stage[c].aged
    /\ \/ stage'[c].state \in {"held", "needs_attention"}
       \/ Free(c) /\ stage'[c].state = "queued"

(* Its worker finished it.                                                 *)
Finishes(c) ==
    /\ stage[c].state = "running" /\ stage'[c].state = "succeeded"
    /\ stage'[c].aged = stage[c].aged
    /\ c \in Paid => attempt[c].state = "received" /\ attempt[c].error = "none"

(* The operator had it done again, or completed it with recovered audio.   *)
Repeats(c) ==
    /\ Free(c) /\ Present(c) /\ stage'[c].state = "queued" /\ ~stage'[c].aged
    /\ \A d \in RunOf(c) : d[3] >= c[3] => stage'[d].state = "queued"
    /\ \E d \in RunOf(c) : d[3] <= c[3] /\ stage[d].state # "succeeded"
Adopts(c) ==
    /\ Recoverable(c) /\ stage'[c].state = "succeeded" /\ ~stage'[c].aged
    /\ attempt'[c].recovered /\ attempt'[c].adopted # "no"
    /\ \A d \in RunOf(c) : d \in Paid /\ Begun(d) =>
            stage[d].state = "succeeded" \/ stage'[d].state = "succeeded"

(* A replacement made it.                                                  *)
Appears(c) == /\ c[2] = Latest(c[1]) + 1 /\ stage'[c] = FreshStage
              /\ Replace(c[1])

(* A decision or a correction ended it; a preflight released it.           *)
Ends(c) == /\ Present(c) /\ stage'[c].state \in {"held", "cancelled"} /\ ~stage'[c].aged
           /\ stage[c].state = "succeeded" => FactsChanged(c[1])
Returns(c) == stage[c].aged /\ stage'[c].state = "queued" /\ ~stage'[c].aged

Moves(c) ==
    \/ Keeps(c) \/ Starts(c) \/ Waits(c) \/ Fails(c) \/ Finishes(c) \/ Repeats(c)
    \/ Adopts(c) \/ Appears(c) \/ Ends(c) \/ Returns(c)

(* A retry returns the stage to the queue or asks the operator.            *)
LEMMA RetryIs ==
    ASSUME NEW s \in StageRecord
    PROVE  /\ RetryFree(s).aged = s.aged
           /\ RetryFree(s).state \in {"queued", "needs_attention"}
  BY DEF RetryFree, StageRecord

(* Giving up a lapsed lease: paid work waits, only free work is queued     *)
(* again.                                                                  *)
LEMMA ExpiryIs ==
    ASSUME TypeOK, NEW c \in Stages
    PROVE  /\ AfterExpiry(c).aged = stage[c].aged
           /\ \/ AfterExpiry(c).state = stage[c].state
              \/ stage[c].state = "running"
                 /\ \/ AfterExpiry(c).state \in {"held", "needs_attention"}
                    \/ Free(c) /\ AfterExpiry(c).state = "queued"
<1> DEFINE s == [stage[c] EXCEPT !.gen = @ + 1]
<1>1. stage[c] \in StageRecord
  BY DEF TypeOK
<1>2. s \in StageRecord
  BY <1>1, StageMakers DEF StageStates
<1>3. s.aged = stage[c].aged /\ s.state = stage[c].state
  BY <1>1 DEF StageRecord
<1> HIDE DEF s
<1>4. AfterExpiry(c) = IF ~Expired(c) THEN stage[c]
                       ELSE IF Uncertain(c) THEN [s EXCEPT !.state = "needs_attention"]
                       ELSE IF Free(c) THEN RetryFree(s)
                       ELSE [s EXCEPT !.state = "held"]
  BY DEF AfterExpiry, s
<1>5. /\ [s EXCEPT !.state = "needs_attention"].state = "needs_attention"
      /\ [s EXCEPT !.state = "needs_attention"].aged = s.aged
      /\ [s EXCEPT !.state = "held"].state = "held"
      /\ [s EXCEPT !.state = "held"].aged = s.aged
  BY <1>2 DEF StageRecord
<1> QED
  BY <1>2, <1>3, <1>4, <1>5, RetryIs DEF Expired

(* The states that refusals, decisions and corrections make.               *)
LEMMA MakersAre ==
    ASSUME NEW s \in StageRecord, NEW x, NEW old
    PROVE  /\ Ended(s, x).state = x /\ ~Ended(s, x).aged
           /\ Requeued(s).state = "queued" /\ ~Requeued(s).aged
           /\ Refused(s, old).state = "held"
           /\ s.state \in {"absent", "succeeded"} => Cancelled(s) = s
           /\ s.state \notin {"absent", "succeeded"} =>
                Cancelled(s).state = "cancelled" /\ ~Cancelled(s).aged
           /\ FreshStage.state = "queued" /\ ~FreshStage.aged
  BY DEF StageRecord, Ended, Requeued, Refused, Cancelled, FreshStage, NoStage

(* Every step makes one of these of each stage, whatever worker, operator  *)
(* or correction of the week takes it.                                     *)
LEMMA StageEffects ==
    ASSUME TypeOK, RunsWhole, [Next]_vars, NEW c \in Stages
    PROVE  Moves(c)
<1>0. stage[c] \in StageRecord /\ Present(c) = (stage[c].state # "absent")
  BY DEF TypeOK, Present
<1>1. ASSUME NEW w \in Workers, Claim(w) PROVE Moves(c)
  <2>0. PICK taken \in Stages \cup {None}, refused \in SUBSET {d \in Stages : Eligible(d)} :
            \E old \in SUBSET refused : Allots(w, taken, refused, old)
    BY <1>1 DEF Claim
  <2>1. PICK old \in SUBSET refused : Allots(w, taken, refused, old)
    BY <2>0
  <2>2. AfterExpiry(c) \in StageRecord
    BY ExpiryType
  <2>3. CASE c = taken
    <3>1. Eligible(c)
      BY <2>1, <2>3, PaidStage DEF Allots
    <3>2. stage'[c] = [AfterExpiry(c) EXCEPT !.state = "running", !.live = TRUE, !.gen = @ + 1,
                                             !.owner = w]
      BY <2>1, <2>3 DEF Allots
    <3>3. stage'[c].state = "running" /\ stage'[c].aged = AfterExpiry(c).aged
      BY <2>2, <3>2 DEF StageRecord
    <3>4. c[3] > 1 => Prior(c) \in Stages /\ AfterExpiry(Prior(c)).state = "succeeded"
      BY <3>1, PriorStage DEF Eligible
    <3>5. c[3] > 1 => stage[Prior(c)].state = "succeeded"
      BY <3>4, ExpiryIs
    <3>6. CASE stage[c].state = "queued"
      BY <3>3, <3>5, <3>6, ExpiryIs DEF Moves, Starts
    <3>7. CASE stage[c].state # "queued"
      <4>1. stage[c].state = "running"
        BY <3>1, <3>7, ExpiryIs DEF Eligible
      <4> QED
        BY <3>3, <4>1, ExpiryIs DEF Moves, Keeps
    <3> QED
      BY <3>6, <3>7
  <2>4. CASE c # taken /\ c \in refused
    <3>1. Eligible(c) /\ stage'[c] = Refused(AfterExpiry(c), c \in old)
      BY <2>1, <2>4 DEF Allots
    <3>2. stage'[c].state = "held"
      BY <2>2, <3>1, MakersAre
    <3>3. stage[c].state = "queued" \/ (Free(c) /\ stage[c].state = "running")
      BY <3>1, ExpiryIs DEF Eligible
    <3> QED
      BY <3>2, <3>3 DEF Moves, Waits
  <2>5. CASE c # taken /\ c \notin refused
    <3>1. stage'[c] = AfterExpiry(c)
      BY <2>1, <2>5 DEF Allots
    <3> QED
      BY <3>1, ExpiryIs DEF Moves, Keeps, Fails
  <2> QED
    BY <2>3, <2>4, <2>5
<1>2. ASSUME NEW w \in Workers, CompleteFree(w) PROVE Moves(c)
  <2> DEFINE d == worker[w].at
             next == [stage[d] EXCEPT !.gen = @ + 1, !.live = FALSE]
  <2>1. d \in Stages /\ stage[d] \in StageRecord /\ stage[d].state = "running" /\ Free(d)
    BY <1>2 DEF CompleteFree, Holds, TypeOK
  <2>2. next \in StageRecord
    BY <2>1, StageMakers DEF StageStates
  <2>aged. next.aged = stage[d].aged
    BY <2>1 DEF StageRecord
  <2> HIDE DEF next
  <2>3. PICK s : /\ stage' = [stage EXCEPT ![d] = s]
                 /\ s \in {[stage[d] EXCEPT !.state = "succeeded", !.live = FALSE],
                           RetryFree(next), [next EXCEPT !.state = "held"]}
    BY <1>2 DEF CompleteFree, next
  <2>4. CASE c = d
    <3>1. stage'[c] = s
      BY <2>3, <2>4 DEF TypeOK
    <3>2. CASE s = [stage[d] EXCEPT !.state = "succeeded", !.live = FALSE]
      <4>1. s.state = "succeeded" /\ s.aged = stage[d].aged
        BY <2>1, <3>2 DEF StageRecord
      <4> QED
        BY <2>1, <2>4, <3>1, <4>1, PaidStage DEF Moves, Finishes
    <3>3. CASE s = RetryFree(next)
      BY <2>1, <2>2, <2>aged, <2>4, <3>1, <3>3, RetryIs DEF Moves, Fails
    <3>4. CASE s = [next EXCEPT !.state = "held"]
      <4>1. s.state = "held" /\ s.aged = stage[d].aged
        BY <2>2, <2>aged, <3>4 DEF StageRecord
      <4> QED
        BY <2>1, <2>4, <3>1, <4>1 DEF Moves, Fails
    <3> QED
      BY <2>3, <3>2, <3>3, <3>4
  <2>5. CASE c # d
    BY <2>3, <2>5 DEF Moves, Keeps
  <2> QED
    BY <2>4, <2>5
<1>3. ASSUME NEW w \in Workers, CompleteNarration(w) PROVE Moves(c)
  <2> DEFINE d == worker[w].at
  <2>1. d \in Stages /\ stage[d] \in StageRecord /\ stage[d].state = "running"
    BY <1>3 DEF CompleteNarration, Holds, TypeOK
  <2>2. CASE c = d
    <3>1. CASE /\ attempt[d].state = "received" /\ attempt[d].error = "none"
               /\ stage' = [stage EXCEPT ![d] = [stage[d] EXCEPT !.state = "succeeded", !.live = FALSE]]
      <4>1. stage'[c].state = "succeeded" /\ stage'[c].aged = stage[c].aged
        BY <2>1, <2>2, <3>1 DEF TypeOK, StageRecord
      <4> QED
        BY <2>1, <2>2, <3>1, <4>1 DEF Moves, Finishes
    <3>2. CASE stage' = [stage EXCEPT ![d].state = "held", ![d].live = FALSE, ![d].gen = @ + 1]
      <4>1. stage'[c].state = "held" /\ stage'[c].aged = stage[c].aged
        BY <2>1, <2>2, <3>2 DEF TypeOK, StageRecord
      <4> QED
        BY <2>1, <2>2, <4>1 DEF Moves, Fails
    <3> QED
      BY <1>3, <3>1, <3>2 DEF CompleteNarration
  <2>3. CASE c # d
    BY <1>3, <2>1, <2>3 DEF CompleteNarration, Moves, Keeps, TypeOK
  <2> QED
    BY <2>2, <2>3
<1>4. ASSUME NEW d \in Stages, Lapse(d) PROVE Moves(c)
  BY <1>0, <1>4 DEF Lapse, Moves, Keeps, TypeOK, StageRecord
<1>5. ASSUME NEW d \in Stages, ResumeFree(d) PROVE Moves(c)
  <2>1. CASE c \in RunOf(d) /\ c[3] >= d[3]
    <3>1. /\ \A b \in Stages : b \in RunOf(d) /\ b[3] >= d[3] => stage'[b] = Requeued(stage[b])
          /\ Free(d) /\ Present(d)
      BY <1>5 DEF ResumeFree, Present
    <3>2. Free(c)
      BY <2>1, <3>1, ConstantsAssumption
         DEF ConstantsAssumption, Free, Stages, Positions, Last
    <3>3. Present(c)
      BY <2>1, <3>1 DEF RunsWhole
    <3>4. ASSUME NEW b \in RunOf(c), b[3] >= c[3]
          PROVE  stage'[b].state = "queued" /\ ~stage'[b].aged
      <4>1. b \in Stages /\ b \in RunOf(d)
        BY <2>1 DEF RunOf
      <4>2. b[3] >= d[3]
        BY <2>1, <3>4, <4>1 DEF Stages, Positions
      <4>3. stage[b] \in StageRecord
        BY <4>1 DEF TypeOK
      <4> QED
        BY <3>1, <4>1, <4>2, <4>3, MakersAre
    <3>5. c \in RunOf(c) /\ c[3] >= c[3]
      <4>1. c \in RunOf(c) /\ c[3] \in Nat
        BY StageParts
      <4> QED
        BY <4>1
    <3>6. d \in RunOf(c) /\ d[3] <= c[3] /\ stage[d].state # "succeeded"
      <4>1. d \in RunOf(c) /\ stage[d].state # "succeeded"
        BY <1>5, <2>1 DEF RunOf, ResumeFree
      <4>2. d[3] \in Nat /\ c[3] \in Nat
        BY StageParts
      <4> QED
        BY <2>1, <4>1, <4>2
    <3> QED
      BY <3>2, <3>3, <3>4, <3>5, <3>6 DEF Moves, Repeats
  <2>2. CASE ~(c \in RunOf(d) /\ c[3] >= d[3])
    BY <1>5, <2>2 DEF ResumeFree, Moves, Keeps
  <2> QED
    BY <2>1, <2>2
<1>6. ASSUME NEW e \in Episodes, Adopt(e) PROVE Moves(c)
  <2> DEFINE run == RunOf(<<e, Latest(e), 1>>)
             open == {d \in run : ~Free(d) /\ stage[d].state # "succeeded"}
             found == {d \in open : Recoverable(d)}
  <2>1. /\ found # {}
        /\ \A b \in Stages : stage'[b] =
                IF b \in found
                THEN [stage[b] EXCEPT !.state = "succeeded", !.gen = @ + 1, !.live = FALSE,
                                      !.aged = FALSE]
                ELSE IF b \in run /\ Free(b) /\ ~(found # open) THEN Requeued(stage[b])
                ELSE stage[b]
        /\ attempt' = [d \in Paid |->
            IF d \in found
            THEN [attempt[d] EXCEPT !.adopted = IF @ = "no" THEN "exact" ELSE "stale"]
            ELSE attempt[d]]
        /\ \A b \in open \ found : attempt[b].state = "none"
    BY <1>6 DEF Adopt
  <2>2. /\ \A d \in found : d \in run /\ d \in Stages /\ Recoverable(d) /\ d \in Paid /\ Present(d)
        /\ \A d \in found : ~Free(d)
        /\ run \subseteq Stages
        /\ \A d \in run : ~Free(d) /\ stage[d].state # "succeeded" => d \in open
    BY DEF RunOf, Recoverable, Present
  <2>3. \A b, d \in run : d \in RunOf(b)
    BY DEF RunOf
  <2>4. \A d \in run : \A b \in RunOf(d) : b \in run
    BY DEF RunOf
  <2>5. ASSUME NEW b \in found PROVE stage'[b].state = "succeeded" /\ ~stage'[b].aged
    <3>1. stage[b] \in StageRecord
      BY <2>2 DEF TypeOK
    <3> QED
      BY <2>1, <2>2, <3>1 DEF StageRecord
  <2> HIDE DEF run, found, open
  <2>6. CASE c \in found
    <3>1. c \in Paid /\ c \in run /\ Recoverable(c) /\ attempt[c] \in AttemptRecord
      BY <2>2, <2>6 DEF TypeOK
    <3>2. attempt'[c] = [attempt[c] EXCEPT !.adopted = IF @ = "no" THEN "exact" ELSE "stale"]
      BY <2>1, <2>6, <3>1
    <3>3. attempt'[c].recovered /\ attempt'[c].adopted # "no"
      BY <3>1, <3>2 DEF AttemptRecord, Recoverable
    <3>4. ASSUME NEW d \in RunOf(c), d \in Paid, Begun(d)
          PROVE  stage[d].state = "succeeded" \/ stage'[d].state = "succeeded"
      <4>1. d \in run /\ ~Free(d)
        BY <2>2, <2>4, <3>1, <3>4, PaidStage
      <4> QED
        BY <2>1, <2>2, <2>5, <3>4, <4>1 DEF Begun
    <3> QED
      BY <2>5, <2>6, <3>1, <3>3, <3>4 DEF Moves, Adopts
  <2>7. CASE c \notin found /\ c \in run /\ Free(c) /\ ~(found # open)
    <3>1. PICK d \in found : d \in run /\ d \in Stages /\ Present(d)
      BY <2>1, <2>2
    <3>2. Present(c)
      BY <2>3, <2>7, <3>1 DEF RunsWhole
    <3>3. ASSUME NEW b \in RunOf(c), b[3] >= c[3]
          PROVE  stage'[b].state = "queued" /\ ~stage'[b].aged
      <4>1. b \in run /\ b \in Stages /\ stage[b] \in StageRecord
        BY <2>2, <2>4, <2>7 DEF TypeOK
      <4>2. Free(b)
        BY <2>7, <3>3, <4>1, ConstantsAssumption
           DEF ConstantsAssumption, Free, Stages, Positions, Last
      <4>3. stage'[b] = Requeued(stage[b])
        BY <2>1, <2>2, <2>7, <4>1, <4>2
      <4> QED
        BY <4>1, <4>3, MakersAre
    <3>4. c \in RunOf(c) /\ c[3] >= c[3]
      <4>1. c \in RunOf(c) /\ c[3] \in Nat
        BY StageParts
      <4> QED
        BY <4>1
    <3>5. d \in RunOf(c) /\ d[3] <= c[3] /\ stage[d].state # "succeeded"
      <4>1. d \in RunOf(c) /\ stage[d].state # "succeeded" /\ ~Free(d)
        BY <2>2, <2>3, <2>7, <3>1 DEF Recoverable
      <4>2. d[3] <= c[3]
        BY <2>7, <3>1, <4>1, ConstantsAssumption
           DEF ConstantsAssumption, Free, Stages, Positions, Last
      <4> QED
        BY <4>1, <4>2
    <3> QED
      BY <2>7, <3>2, <3>3, <3>4, <3>5 DEF Moves, Repeats
  <2>8. CASE c \notin found /\ ~(c \in run /\ Free(c) /\ ~(found # open))
    BY <2>1, <2>8 DEF Moves, Keeps
  <2> QED
    BY <2>6, <2>7, <2>8
<1>7. ASSUME NEW e \in Episodes, Replace(e) PROVE Moves(c)
  <2>1. stage'[c] = IF c[1] = e /\ c[2] = Latest(e) + 1 THEN FreshStage
                    ELSE IF c[1] = e /\ c[2] = Latest(e) THEN Cancelled(stage[c])
                    ELSE stage[c]
    BY <1>7 DEF Replace
  <2>2. CASE c[1] = e /\ c[2] = Latest(e) + 1
    BY <1>7, <2>1, <2>2 DEF Moves, Appears
  <2>3. CASE stage'[c] = Cancelled(stage[c])
    BY <1>0, <2>3, MakersAre DEF Moves, Keeps, Ends
  <2>4. CASE stage'[c] = stage[c]
    BY <2>4 DEF Moves, Keeps
  <2> QED
    BY <2>1, <2>2, <2>3, <2>4
<1>8. ASSUME NEW e \in Episodes, SkipVideo(e) PROVE Moves(c)
  <2>1. stage'[c] = stage[c] \/ stage'[c] = Cancelled(stage[c])
    BY <1>8 DEF SkipVideo
  <2> QED
    BY <1>0, <2>1, MakersAre DEF Moves, Keeps, Ends
<1>9. ASSUME NEW e \in Episodes, RenewPreflight(e) PROVE Moves(c)
  <2>1. \/ stage'[c] = stage[c]
        \/ stage[c].aged /\ stage'[c] = [stage[c] EXCEPT !.state = "queued", !.aged = FALSE]
    BY <1>9 DEF RenewPreflight
  <2> QED
    BY <1>0, <2>1 DEF Moves, Keeps, Returns, StageRecord
<1>10. ASSUME NEW e \in Episodes, DependencyChanged(e) PROVE Moves(c)
  <2>1. \/ stage'[c] = stage[c]
        \/ stage[c].state \notin {"absent", "succeeded"} /\ stage'[c] = Ended(stage[c], "held")
    BY <1>10 DEF DependencyChanged, Stopped
  <2>2. Ended(stage[c], "held").state = "held" /\ ~Ended(stage[c], "held").aged
    BY <1>0, MakersAre
  <2> QED
    BY <1>0, <2>1, <2>2 DEF Moves, Keeps, Ends
<1>11. ASSUME NEW e \in Episodes, FactsChanged(e) PROVE Moves(c)
  <2>1. \/ stage'[c] = stage[c]
        \/ c[1] = e /\ stage[c].state # "absent" /\ stage'[c] = Ended(stage[c], "held")
    BY <1>11 DEF FactsChanged, Stopped, Of
  <2>2. Ended(stage[c], "held").state = "held" /\ ~Ended(stage[c], "held").aged
    BY <1>0, MakersAre
  <2> QED
    BY <1>0, <1>11, <2>1, <2>2 DEF Moves, Keeps, Ends
<1>12. CASE UNCHANGED stage
  BY <1>12 DEF Moves, Keeps
<1> QED
  BY <1>1, <1>2, <1>3, <1>4, <1>5, <1>6, <1>7, <1>8, <1>9, <1>10, <1>11, <1>12
     DEF Next, Worker, Step, Operator, Source, Receipting, vars,
         ClaimLookup, Forget, Authorize, Send, SaveIdentity, Upload, SaveReceipt, SettleReceipt,
         FetchHistory, SaveRecovered, SettleRecovered, FinishLookup, ReconcileSaved,
         ReconcileConflict, LapseLookup, ReconcileRequest, Invoice, ResetProvider

-----------------------------------------------------------------------------
(* What a step can make of one call and of its money.                      *)

(* Evidence is never lost.                                                 *)
KeepsEvidence(c) ==
    /\ attempt[c].receipt # None => attempt'[c].receipt = attempt[c].receipt
    /\ attempt[c].settled => attempt'[c].settled
    /\ attempt[c].recovered => attempt'[c].recovered
    /\ attempt[c].adopted # "no" => attempt'[c].adopted # "no"

Rests(c) == attempt'[c] = attempt[c] /\ alloc'[c] = alloc[c]

(* It is authorized.                                                       *)
Granted(c) == \E w \in Workers : Authorize(w) /\ worker[w].at = c

(* Evidence of it is saved, or adopted.                                    *)
Learns(c) ==
    /\ attempt'[c].state = attempt[c].state /\ attempt'[c].error = attempt[c].error
    /\ attempt'[c].cost = attempt[c].cost /\ alloc'[c] = alloc[c]

(* What was saved is settled.                                              *)
Resolves(c) ==
    LET a == attempt[c] IN
    /\ Pending(a) /\ ~Contradicted(a)
    /\ attempt'[c].state = StateOf(a) /\ attempt'[c].error = ErrorOf(a)
    /\ attempt'[c].cost = Amount(a)
    /\ attempt'[c].settled = (a.settled \/ a.receipt # None)
    /\ attempt'[c].receipt = a.receipt
    /\ alloc'[c] = [alloc[c] EXCEPT !.actual = Amount(a)]

(* It is given up, or its evidence contradicts its charge.                 *)
Doubts(c) ==
    /\ attempt'[c].state \in {"unknown", "abandoned"}
    /\ attempt'[c].cost = attempt[c].cost /\ alloc'[c] = alloc[c]

(* An invoice settles it.                                                  *)
Charged(c) ==
    /\ attempt'[c].state = attempt[c].state /\ attempt'[c].error = attempt[c].error
    /\ attempt[c].cost = None
    /\ attempt'[c].cost = alloc'[c].actual /\ alloc'[c].phase = alloc[c].phase

(* Money is set aside for it, or what was set aside is freed.              *)
Reserves(c) ==
    /\ ~Begun(c) /\ attempt'[c] = attempt[c]
    /\ alloc'[c] = [NoAllocation EXCEPT !.phase = "reserved"]
    /\ \/ c[2] = 1 /\ envelope[c[1]] = "reserved" /\ envelope'[c[1]] = "swapped"
       \/ Replace(c[1]) /\ c[2] = Latest(c[1]) + 1
Releases(c) ==
    /\ ~Begun(c) /\ attempt'[c] = attempt[c]
    /\ alloc[c].phase = "reserved" /\ alloc'[c] = [alloc[c] EXCEPT !.actual = 0]
    /\ SkipVideo(c[1])

CallMoves(c) ==
    \/ Rests(c) \/ Granted(c) \/ Reserves(c) \/ Releases(c)
    \/ /\ Begun(c) /\ KeepsEvidence(c)
       /\ Learns(c) \/ Resolves(c) \/ Doubts(c) \/ Charged(c)

(* Fields of what settlement makes of a call.                              *)
LEMMA SettledIs ==
    ASSUME NEW a \in AttemptRecord, Pending(a)
    PROVE  /\ Settled(a).state = StateOf(a) /\ Settled(a).error = ErrorOf(a)
           /\ Settled(a).cost = Amount(a)
           /\ Settled(a).settled = (a.settled \/ a.receipt # None)
           /\ Settled(a).receipt = a.receipt /\ Settled(a).recovered = a.recovered
           /\ a.adopted # "no" => Settled(a).adopted # "no"
<1> DEFINE b == [a EXCEPT !.state = StateOf(a), !.error = ErrorOf(a), !.cost = Amount(a),
                         !.settled = @ \/ a.receipt # None, !.resettled = @ \/ a.recovered]
<1>1. Settled(a) = Noted(b)
  BY DEF Settled
<1>2. /\ b.state = StateOf(a) /\ b.error = ErrorOf(a) /\ b.cost = Amount(a)
      /\ b.settled = (a.settled \/ a.receipt # None)
      /\ b.receipt = a.receipt /\ b.recovered = a.recovered /\ b.adopted = a.adopted
  BY Zenon DEF AttemptRecord
<1>3. Settled(a).adopted = IF a.adopted = "exact" THEN "stale" ELSE a.adopted
  BY <1>1 DEF AttemptRecord, Noted
<1> QED
  BY <1>1, <1>2, <1>3 DEF AttemptRecord, Noted

(* Noting that the evidence of an adoption changed touches nothing else.   *)
LEMMA NotedIs ==
    ASSUME NEW a \in AttemptRecord
    PROVE  /\ Noted(a).state = a.state /\ Noted(a).error = a.error /\ Noted(a).cost = a.cost
           /\ Noted(a).settled = a.settled /\ Noted(a).receipt = a.receipt
           /\ Noted(a).recovered = a.recovered
           /\ a.adopted # "no" => Noted(a).adopted # "no"
  BY DEF AttemptRecord, Noted

(* A call that has evidence was begun.                                     *)
LEMMA EvidenceBegun ==
    ASSUME NoTrace, NEW c \in Paid,
           \/ Pending(attempt[c]) \/ attempt[c].receipt # None \/ attempt[c].recovered
           \/ attempt[c].owner # None \/ attempt[c].cost # None \/ attempt[c].settled
           \/ sends[c] # 0
    PROVE  Begun(c)
  BY DEF NoTrace, NoAttempt, Pending

(* Settlement of what was saved about a call.                              *)
LEMMA SettleMoves ==
    ASSUME TypeOK, NoTrace, NEW d \in Paid, Settle(d), NEW c \in Paid
    PROVE  CallMoves(c)
<1>0. attempt[d] \in AttemptRecord /\ alloc[d] \in AllocationRecord
  BY DEF TypeOK
<1>1. CASE c = d /\ Pending(attempt[d])
  <2>1. /\ attempt'[c] = Settled(attempt[c]) /\ ~Contradicted(attempt[c])
        /\ alloc'[c] = [alloc[c] EXCEPT !.actual = Amount(attempt[c])]
    BY <1>1 DEF Settle, TypeOK
  <2>2. Begun(c)
    BY <1>1, EvidenceBegun
  <2>3. KeepsEvidence(c) /\ Resolves(c)
    BY <1>0, <1>1, <2>1, SettledIs DEF KeepsEvidence, Resolves
  <2> QED
    BY <2>2, <2>3 DEF CallMoves
<1>2. CASE c = d /\ ~Pending(attempt[d])
  <2>1. attempt'[c] = attempt[c]
    BY <1>2 DEF Settle, Settled, TypeOK
  <2>2. alloc'[c] = alloc[c]
    BY <1>0, <1>2 DEF Settle, TypeOK, AllocationRecord
  <2> QED
    BY <2>1, <2>2 DEF CallMoves, Rests
<1>3. CASE c # d
  BY <1>3 DEF Settle, CallMoves, Rests, TypeOK
<1> QED
  BY <1>1, <1>2, <1>3

(* Calls given up as lost.                                                 *)
LEMMA GivenUpMoves ==
    ASSUME TypeOK, NEW lost, attempt' = GivenUp(lost), alloc' = alloc, NEW c \in Paid
    PROVE  CallMoves(c)
<1>0. attempt[c] \in AttemptRecord
  BY DEF TypeOK
<1>1. CASE c \in lost /\ attempt[c].state = "dispatching"
  <2>1. attempt'[c] = [attempt[c] EXCEPT !.state = "unknown"]
    BY <1>1 DEF GivenUp
  <2>2. KeepsEvidence(c) /\ Doubts(c)
    BY <1>0, <2>1 DEF KeepsEvidence, Doubts, AttemptRecord
  <2> QED
    BY <1>1, <2>2 DEF CallMoves, Begun
<1>2. CASE ~(c \in lost /\ attempt[c].state = "dispatching")
  BY <1>2 DEF GivenUp, CallMoves, Rests
<1> QED
  BY <1>1, <1>2

(* Authority for one request, and the plan that the first of a script      *)
(* makes.                                                                  *)
LEMMA AuthorizeMoves ==
    ASSUME TypeOK, NoTrace, MoneySound, NEW w \in Workers, Authorize(w), NEW c \in Paid
    PROVE  CallMoves(c)
<1> DEFINE d == worker[w].at
<1>0. d \in Paid /\ d \in Stages /\ d[1] \in Episodes
  BY PaidStage DEF Authorize, Paid
<1>1. CASE c = d
  BY <1>1 DEF CallMoves, Granted
<1>2. CASE c # d
  <2>1. attempt'[c] = attempt[c]
    BY <1>0, <1>2 DEF Authorize, TypeOK
  <2>2. alloc' = [Planned(d) EXCEPT ![d] = [Planned(d)[d] EXCEPT !.phase = "bound"]]
    BY DEF Authorize
  <2>3. alloc'[c] = Planned(d)[c]
    BY <1>2, <2>2 DEF Planned, TypeOK
  <2>4. CASE d[2] = 1 /\ envelope[d[1]] = "reserved" /\ c \in RunOf(d)
    <3>1. alloc'[c] = [NoAllocation EXCEPT !.phase = "reserved"]
      BY <2>3, <2>4 DEF Planned
    <3>2. c[1] = d[1] /\ c[2] = 1
      BY <2>4 DEF RunOf
    <3>3. envelope'[c[1]] = "swapped"
      BY <1>0, <2>4, <3>2 DEF Authorize, TypeOK
    <3>4. alloc[c].phase = "none"
      BY <2>4, <3>2 DEF MoneySound, Funded
    <3>5. ~Begun(c)
      BY <3>4 DEF MoneySound, ChargesAgree
    <3> QED
      BY <2>1, <2>4, <3>1, <3>2, <3>3, <3>5 DEF CallMoves, Reserves
  <2>5. CASE ~(d[2] = 1 /\ envelope[d[1]] = "reserved" /\ c \in RunOf(d))
    BY <2>1, <2>3, <2>5 DEF Planned, CallMoves, Rests
  <2> QED
    BY <2>4, <2>5
<1> QED
  BY <1>1, <1>2

(* Evidence that a worker saves.                                           *)
LEMMA EvidenceMoves ==
    ASSUME TypeOK, NoTrace, NEW w \in Workers, NEW c \in Paid,
           SaveIdentity(w) \/ SaveReceipt(w) \/ SaveRecovered(w)
    PROVE  CallMoves(c)
<1> DEFINE d == worker[w].at
           a == attempt[d]
<1>1. CASE Owned(w) /\ c = d
  <2>0. d \in Paid /\ a \in AttemptRecord /\ Begun(d)
    BY <1>1, EvidenceBegun, ConstantsAssumption DEF Owned, TypeOK, ConstantsAssumption
  <2>1. CASE SaveIdentity(w)
    <3>1. attempt'[d] = a \/ attempt'[d] = [a EXCEPT !.identified = TRUE]
      BY <2>0, <2>1 DEF SaveIdentity, TypeOK
    <3>2. KeepsEvidence(d) /\ Learns(d)
      BY <2>0, <2>1, <3>1 DEF SaveIdentity, KeepsEvidence, Learns, AttemptRecord
    <3> QED
      BY <1>1, <2>0, <3>2 DEF CallMoves
  <2>2. CASE SaveReceipt(w)
    <3>1. /\ a.receipt \in {None, worker[w].receipt}
          /\ attempt' = [attempt EXCEPT ![d].receipt = worker[w].receipt,
                                  ![d].identified = @ \/ worker[w].receipt \in Identified]
          /\ alloc' = alloc
      BY <2>2 DEF SaveReceipt
    <3>2. /\ attempt'[d].receipt = worker[w].receipt /\ attempt'[d].state = a.state
          /\ attempt'[d].error = a.error /\ attempt'[d].cost = a.cost
          /\ attempt'[d].settled = a.settled /\ attempt'[d].recovered = a.recovered
          /\ attempt'[d].adopted = a.adopted
      BY <2>0, <3>1 DEF TypeOK, AttemptRecord
    <3> QED
      BY <1>1, <2>0, <3>1, <3>2 DEF CallMoves, KeepsEvidence, Learns
  <2>3. CASE SaveRecovered(w)
    <3> DEFINE b == [a EXCEPT !.recovered = TRUE]
    <3>1. attempt'[d] = Noted(b) /\ alloc' = alloc
      BY <2>0, <2>3 DEF SaveRecovered, TypeOK
    <3>2. b \in AttemptRecord
      BY <2>0, AttemptFields
    <3>3. /\ b.receipt = a.receipt /\ b.state = a.state /\ b.error = a.error /\ b.cost = a.cost
          /\ b.settled = a.settled /\ b.adopted = a.adopted /\ b.recovered
      BY <2>0 DEF AttemptRecord
    <3> HIDE DEF b
    <3>4. KeepsEvidence(d) /\ Learns(d)
      BY <3>1, <3>2, <3>3, NotedIs DEF KeepsEvidence, Learns
    <3> QED
      BY <1>1, <2>0, <3>4 DEF CallMoves
  <2> QED
    BY <2>1, <2>2, <2>3
<1>2. CASE ~(Owned(w) /\ c = d)
  <2>1. attempt'[c] = attempt[c]
    BY <1>2 DEF SaveIdentity, SaveReceipt, SaveRecovered, Owned, TypeOK
  <2> QED
    BY <2>1 DEF SaveIdentity, SaveReceipt, SaveRecovered, CallMoves, Rests
<1> QED
  BY <1>1, <1>2

(* Decisions of the operator on a call.                                    *)
LEMMA RequestMoves ==
    ASSUME TypeOK, NoTrace, NEW d \in Paid, NEW w \in Workers, ReconcileRequest(d, w),
           NEW c \in Paid
    PROVE  CallMoves(c)
<1> DEFINE a == attempt[d]
<1>0. a \in AttemptRecord /\ alloc[d] \in AllocationRecord
  BY DEF TypeOK
<1>1. CASE c = d
  <2>1. Begun(d)
    BY DEF ReconcileRequest, Begun
  <2>2. Settled(a) \in AttemptRecord
    BY <1>0, SettledType
  <2> DEFINE b == [Settled(a) EXCEPT !.owner = w]
  <2>3. b \in AttemptRecord
    BY <2>2, AttemptFields
  <2>4. /\ b.receipt = Settled(a).receipt /\ b.state = Settled(a).state
        /\ b.error = Settled(a).error /\ b.cost = Settled(a).cost
        /\ b.settled = Settled(a).settled /\ b.adopted = Settled(a).adopted
        /\ b.recovered = Settled(a).recovered
    BY <2>2 DEF AttemptRecord
  <2>5. attempt'[d] = Settled(a) \/ attempt'[d] = Noted(b)
    BY DEF ReconcileRequest, TypeOK
  <2> HIDE DEF b
  <2>6. /\ attempt'[d].state = Settled(a).state /\ attempt'[d].error = Settled(a).error
        /\ attempt'[d].cost = Settled(a).cost /\ attempt'[d].settled = Settled(a).settled
        /\ attempt'[d].receipt = Settled(a).receipt
        /\ attempt'[d].recovered = Settled(a).recovered
        /\ Settled(a).adopted # "no" => attempt'[d].adopted # "no"
    BY <2>3, <2>4, <2>5, NotedIs
  <2>7. CASE Pending(a)
    <3>1. ~Contradicted(a) /\ alloc'[d] = [alloc[d] EXCEPT !.actual = Amount(a)]
      BY <2>7 DEF ReconcileRequest, Pending, TypeOK
    <3>2. KeepsEvidence(d) /\ Resolves(d)
      BY <1>0, <2>6, <2>7, <3>1, SettledIs DEF KeepsEvidence, Resolves
    <3> QED
      BY <1>1, <2>1, <3>2 DEF CallMoves
  <2>8. CASE ~Pending(a)
    <3>1. Settled(a) = a
      BY <2>8 DEF Settled
    <3>2. alloc'[d] = alloc[d]
      BY <1>0, <2>8 DEF ReconcileRequest, TypeOK, AllocationRecord
    <3>3. KeepsEvidence(d) /\ Learns(d)
      BY <2>6, <3>1, <3>2 DEF KeepsEvidence, Learns
    <3> QED
      BY <1>1, <2>1, <3>3 DEF CallMoves
  <2> QED
    BY <2>7, <2>8
<1>2. CASE c # d
  BY <1>2 DEF ReconcileRequest, CallMoves, Rests, TypeOK
<1> QED
  BY <1>1, <1>2

(* Evidence that contradicts a charge.                                     *)
LEMMA ConflictMoves ==
    ASSUME TypeOK, NoTrace, NEW d \in Paid, ReconcileConflict(d), NEW c \in Paid
    PROVE  CallMoves(c)
<1> DEFINE b == [attempt[d] EXCEPT !.state = "unknown", !.error = "invalid"]
<1>1. CASE c = d
  <2>1. attempt[d] \in AttemptRecord /\ b \in AttemptRecord
    BY AttemptStates DEF TypeOK, Unresolved, Active
  <2>2. /\ b.receipt = attempt[d].receipt /\ b.state = "unknown"
        /\ b.cost = attempt[d].cost /\ b.settled = attempt[d].settled
        /\ b.recovered = attempt[d].recovered /\ b.adopted = attempt[d].adopted
    BY <2>1 DEF AttemptRecord
  <2>3. attempt'[d] = Noted(b) /\ alloc' = alloc /\ Begun(d)
    BY EvidenceBegun DEF ReconcileConflict, TypeOK
  <2> HIDE DEF b
  <2>4. KeepsEvidence(d) /\ Doubts(d)
    BY <2>1, <2>2, <2>3, NotedIs DEF KeepsEvidence, Doubts
  <2> QED
    BY <1>1, <2>3, <2>4 DEF CallMoves
<1>2. CASE c # d
  BY <1>2 DEF ReconcileConflict, CallMoves, Rests, TypeOK
<1> QED
  BY <1>1, <1>2

(* An invoice for a call.                                                  *)
LEMMA InvoiceMoves ==
    ASSUME TypeOK, MoneySound, NEW d \in Paid, NEW amount \in Invoices, Invoice(d, amount),
           NEW c \in Paid
    PROVE  CallMoves(c)
<1> DEFINE b == [attempt[d] EXCEPT !.cost = amount]
<1>1. CASE c = d
  <2>1. attempt[d] \in AttemptRecord /\ amount \in Nat
    BY ConstantsAssumption DEF ConstantsAssumption, TypeOK
  <2>2. b \in AttemptRecord
    BY <2>1, AttemptFields
  <2>3. /\ b.receipt = attempt[d].receipt /\ b.state = attempt[d].state
        /\ b.cost = amount /\ b.settled = attempt[d].settled /\ b.error = attempt[d].error
        /\ b.recovered = attempt[d].recovered /\ b.adopted = attempt[d].adopted
    BY <2>1 DEF AttemptRecord
  <2>4. attempt'[d] = Noted(b) /\ Begun(d) /\ attempt[d].cost = None
    BY DEF Invoice, TypeOK, MoneySound, ChargesAgree
  <2>5. alloc'[d].phase = alloc[d].phase /\ alloc'[d].actual = amount
    BY DEF Invoice, TypeOK, AllocationRecord
  <2> HIDE DEF b
  <2>6. KeepsEvidence(d) /\ Charged(d)
    BY <2>2, <2>3, <2>4, <2>5, NotedIs DEF KeepsEvidence, Charged
  <2> QED
    BY <1>1, <2>4, <2>6 DEF CallMoves
<1>2. CASE c # d
  BY <1>2 DEF Invoice, CallMoves, Rests, TypeOK
<1> QED
  BY <1>1, <1>2

(* Recovered audio is adopted.                                             *)
LEMMA AdoptMoves ==
    ASSUME TypeOK, NEW e \in Episodes, Adopt(e), NEW c \in Paid
    PROVE  CallMoves(c)
<1>1. PICK found : /\ \A d \in found : Recoverable(d)
                   /\ attempt'[c] =
                        IF c \in found
                        THEN [attempt[c] EXCEPT !.adopted = IF @ = "no" THEN "exact" ELSE "stale"]
                        ELSE attempt[c]
  BY DEF Adopt
<1>2. alloc' = alloc
  BY DEF Adopt
<1>3. CASE c \in found
  <2>1. KeepsEvidence(c) /\ Learns(c)
    BY <1>1, <1>2, <1>3 DEF KeepsEvidence, Learns, TypeOK, AttemptRecord
  <2> QED
    BY <1>1, <1>3, <2>1 DEF CallMoves, Begun, Recoverable
<1>4. CASE c \notin found
  BY <1>1, <1>2, <1>4 DEF CallMoves, Rests
<1> QED
  BY <1>3, <1>4

(* A replacement gives up open calls and sets money aside for its own.     *)
LEMMA ReplaceMoves ==
    ASSUME TypeOK, RunsWhole, BegunInRun, NEW e \in Episodes, Replace(e), NEW c \in Paid
    PROVE  CallMoves(c)
<1> DEFINE r == Latest(e)
           given == {a \in Paid : a[1] = e /\ attempt[a].state \in {"unknown", "abandoned"}}
<1>1. /\ attempt'[c] = IF c \in given THEN Noted([attempt[c] EXCEPT !.state = "abandoned"])
                       ELSE attempt[c]
      /\ alloc'[c] = IF c[1] = e /\ c[2] = r + 1 THEN [NoAllocation EXCEPT !.phase = "reserved"]
                     ELSE alloc[c]
  BY DEF Replace
<1>2. CASE c[1] = e /\ c[2] = r + 1
  <2>1. ~Present(c)
    <3>1. c \in Stages /\ r \in Nat
      BY PaidStage, LatestIs DEF Executions
    <3> QED
      BY <1>2, <3>1, PresentIs
  <2>2. ~Begun(c)
    BY <2>1 DEF BegunInRun
  <2>3. c \notin given
    BY <2>2 DEF Begun
  <2> QED
    BY <1>1, <1>2, <2>2, <2>3 DEF CallMoves, Reserves
<1>3. CASE ~(c[1] = e /\ c[2] = r + 1) /\ c \in given
  <2> DEFINE b == [attempt[c] EXCEPT !.state = "abandoned"]
  <2>1. attempt[c] \in AttemptRecord /\ b \in AttemptRecord
    BY AttemptStates DEF TypeOK, Unresolved, Active
  <2>2. /\ b.receipt = attempt[c].receipt /\ b.state = "abandoned"
        /\ b.cost = attempt[c].cost /\ b.settled = attempt[c].settled
        /\ b.recovered = attempt[c].recovered /\ b.adopted = attempt[c].adopted
    BY <2>1 DEF AttemptRecord
  <2>3. attempt'[c] = Noted(b) /\ alloc'[c] = alloc[c] /\ Begun(c)
    BY <1>1, <1>3 DEF Begun
  <2> HIDE DEF b
  <2>4. KeepsEvidence(c) /\ Doubts(c)
    BY <2>1, <2>2, <2>3, NotedIs DEF KeepsEvidence, Doubts
  <2> QED
    BY <2>3, <2>4 DEF CallMoves
<1>4. CASE ~(c[1] = e /\ c[2] = r + 1) /\ c \notin given
  BY <1>1, <1>4 DEF CallMoves, Rests
<1> QED
  BY <1>2, <1>3, <1>4

(* The video is skipped: what was never sent is freed.                     *)
LEMMA SkipMoves ==
    ASSUME TypeOK, MoneySound, NEW e \in Episodes, SkipVideo(e), NEW c \in Paid
    PROVE  CallMoves(c)
<1> DEFINE freed == c \in Of(e) /\ Unsent(c)
<1>1. /\ attempt' = attempt
      /\ \/ alloc'[c] = alloc[c]
         \/ freed /\ alloc'[c] = [alloc[c] EXCEPT !.actual = 0]
  BY DEF SkipVideo
<1>2. CASE alloc'[c] = alloc[c]
  BY <1>1, <1>2 DEF CallMoves, Rests
<1>3. CASE freed /\ alloc'[c] = [alloc[c] EXCEPT !.actual = 0]
  <2>1. ~Begun(c) /\ c[1] = e /\ alloc[c].phase = "reserved"
    BY <1>3 DEF Of, Unsent, MoneySound, ChargesAgree
  <2> QED
    BY <1>1, <1>3, <2>1 DEF CallMoves, Releases
<1> QED
  BY <1>1, <1>2, <1>3

(* Every step makes one of these of each call.                             *)
LEMMA CallEffects ==
    ASSUME TypeOK, RunsWhole, NoTrace, BegunInRun, MoneySound, [Next]_vars, NEW c \in Paid
    PROVE  CallMoves(c)
<1>1. ASSUME NEW w \in Workers, Claim(w) PROVE CallMoves(c)
  BY <1>1, GivenUpMoves DEF Claim
<1>2. ASSUME NEW w \in Workers, Authorize(w) PROVE CallMoves(c)
  BY <1>2, AuthorizeMoves
<1>3. ASSUME NEW w \in Workers, SaveIdentity(w) \/ SaveReceipt(w) \/ SaveRecovered(w)
      PROVE  CallMoves(c)
  BY <1>3, EvidenceMoves
<1>4. ASSUME NEW w \in Workers, SettleReceipt(w) \/ SettleRecovered(w) PROVE CallMoves(c)
  BY <1>4, SettleMoves DEF SettleReceipt, SettleRecovered, Owned
<1>5. ASSUME NEW d \in Paid, Receipting(d) PROVE CallMoves(c)
  BY <1>5, SettleMoves, ConflictMoves DEF Receipting, ReconcileSaved
<1>6. ASSUME NEW d \in Paid, NEW w \in Workers, ReconcileRequest(d, w) PROVE CallMoves(c)
  BY <1>6, RequestMoves
<1>7. ASSUME NEW d \in Paid, NEW amount \in Invoices, Invoice(d, amount) PROVE CallMoves(c)
  BY <1>7, InvoiceMoves
<1>8. ASSUME NEW e \in Episodes, Adopt(e) \/ Replace(e) \/ SkipVideo(e) PROVE CallMoves(c)
  BY <1>8, AdoptMoves, ReplaceMoves, SkipMoves
<1>9. ASSUME NEW e \in Episodes, DependencyChanged(e) \/ FactsChanged(e) PROVE CallMoves(c)
  BY <1>9, GivenUpMoves DEF DependencyChanged, FactsChanged, Stopped
<1>10. CASE UNCHANGED <<attempt, alloc>>
  BY <1>10 DEF CallMoves, Rests
<1> QED
  BY <1>1, <1>2, <1>3, <1>4, <1>5, <1>6, <1>7, <1>8, <1>9, <1>10
     DEF Next, Worker, Step, Operator, Source, vars, CompleteFree, CompleteNarration, Lapse,
         ClaimLookup, Forget, Send, Upload, FetchHistory, FinishLookup, LapseLookup,
         ResumeFree, ResetProvider, RenewPreflight

-----------------------------------------------------------------------------
(* The parts of the invariant, one after the other.                        *)

(* A call that was begun stays so, and its evidence stays; it begins by    *)
(* its authority, with its stage running.                                  *)
LEMMA CallFacts ==
    ASSUME MediaInvariant, [Next]_vars, NEW c \in Paid
    PROVE  /\ Begun(c) => Begun(c)' /\ KeepsEvidence(c)
           /\ ~Begun(c) /\ Begun(c)' => Granted(c)
           /\ ~Begun(c)' => ~Begun(c) /\ attempt'[c] = attempt[c]
           /\ Granted(c) => /\ ~Begun(c) /\ stage[c].state = "running" /\ stage' = stage
                            /\ sends' = sends /\ alloc'[c].phase = "bound"
                            /\ alloc'[c].actual = None
                            /\ attempt'[c] # NoAttempt /\ attempt'[c].cost = None
                            /\ attempt'[c].state = "dispatching"
<1>0. CallMoves(c)
  BY CallEffects DEF MediaInvariant
<1>1. attempt[c] \in AttemptRecord
  BY DEF MediaInvariant, TypeOK
<1>2. ASSUME Granted(c)
      PROVE  /\ ~Begun(c) /\ stage[c].state = "running" /\ stage' = stage
             /\ sends' = sends /\ alloc'[c].phase = "bound"
             /\ alloc'[c].actual = None
             /\ attempt'[c] # NoAttempt /\ attempt'[c].cost = None
             /\ attempt'[c].state = "dispatching"
  <2>1. PICK w \in Workers : Authorize(w) /\ worker[w].at = c
    BY <1>2 DEF Granted
  <2>2. /\ attempt'[c] = [NoAttempt EXCEPT !.state = "dispatching", !.owner = w]
        /\ stage' = stage /\ sends' = sends
    BY <2>1 DEF Authorize, MediaInvariant, TypeOK
  <2>3. /\ alloc' = [Planned(c) EXCEPT ![c] = [Planned(c)[c] EXCEPT !.phase = "bound"]]
        /\ Planned(c)[c].actual = None /\ ~Begun(c) /\ stage[c].state = "running"
    BY <2>1 DEF Authorize, Begun, Holds
  <2>4. Planned(c)[c] \in AllocationRecord /\ Planned(c) \in [Paid -> AllocationRecord]
    BY AllocFields DEF Planned, MediaInvariant, TypeOK
  <2>5. alloc'[c].phase = "bound" /\ alloc'[c].actual = None
    <3> DEFINE p == Planned(c)
    <3>1. /\ p[c] \in AllocationRecord /\ p \in [Paid -> AllocationRecord]
          /\ alloc' = [p EXCEPT ![c] = [p[c] EXCEPT !.phase = "bound"]] /\ p[c].actual = None
      BY <2>3, <2>4
    <3> HIDE DEF p
    <3>2. alloc'[c] = [p[c] EXCEPT !.phase = "bound"]
      BY <3>1
    <3> QED
      BY <3>1, <3>2 DEF AllocationRecord
  <2>6. attempt'[c].state = "dispatching" /\ attempt'[c].cost = None /\ attempt'[c] # NoAttempt
    <3>1. attempt'[c].state = "dispatching" /\ attempt'[c].cost = None
      BY <2>2 DEF NoAttempt
    <3>2. NoAttempt.state = "none"
      BY DEF NoAttempt
    <3> QED
      BY <3>1, <3>2
  <2> QED
    BY <2>2, <2>3, <2>5, <2>6
<1>3. CASE Granted(c)
  BY <1>2, <1>3 DEF Begun
<1>4. CASE ~Granted(c)
  <2>1. StateOf(attempt[c]) # "none"
    BY DEF StateOf
  <2> QED
    BY <1>0, <1>1, <1>4, <2>1
       DEF CallMoves, Rests, Reserves, Releases, Learns, Resolves, Doubts, Charged, Begun,
           KeepsEvidence
<1> QED
  BY <1>2, <1>3, <1>4

(* What a replacement makes of the stages.                                 *)
LEMMA ReplaceIs ==
    ASSUME NEW e, Replace(e), NEW c \in Stages
    PROVE  stage'[c] = IF c[1] = e /\ c[2] = Latest(e) + 1 THEN FreshStage
                       ELSE IF c[1] = e /\ c[2] = Latest(e) THEN Cancelled(stage[c])
                       ELSE stage[c]
  BY DEF Replace

(* Stages only appear with a replacement.                                  *)
LEMMA Presence ==
    ASSUME MediaInvariant, [Next]_vars, NEW c \in Stages
    PROVE  /\ Present(c)' <=> Present(c) \/ (Replace(c[1]) /\ c[2] = Latest(c[1]) + 1)
           /\ Replace(c[1]) /\ c[2] = Latest(c[1]) + 1 => ~Present(c)
<1>1. Moves(c)
  BY StageEffects DEF MediaInvariant
<1>2. CASE Replace(c[1]) /\ c[2] = Latest(c[1]) + 1
  <2>1. stage'[c] = FreshStage
    BY <1>2, ReplaceIs
  <2>2. ~Present(c)
    <3>1. c[1] \in Episodes /\ Latest(c[1]) \in Nat
      <4>1. c[1] \in Episodes
        BY StageParts
      <4>2. Latest(c[1]) \in Executions
        BY <4>1, LatestIs DEF MediaInvariant
      <4> QED
        BY <4>1, <4>2 DEF Executions
    <3> QED
      BY <1>2, <3>1, PresentIs DEF MediaInvariant
  <2> QED
    BY <1>2, <2>1, <2>2 DEF Present, FreshStage, NoStage
<1>3. CASE ~(Replace(c[1]) /\ c[2] = Latest(c[1]) + 1)
  BY <1>1, <1>3 DEF Moves, Keeps, Starts, Waits, Fails, Finishes, Repeats, Adopts, Appears, Ends,
                    Returns, Present, Recoverable, MediaInvariant, AgedWaits
<1> QED
  BY <1>2, <1>3

(* Runs stay whole, and one follows the other.                             *)
LEMMA RunsStep ==
    ASSUME MediaInvariant, [Next]_vars
    PROVE  RunsWhole'
<1>1. ASSUME NEW c \in Stages, NEW d \in RunOf(c)
      PROVE  Present(c)' <=> Present(d)'
  <2>1. d \in Stages /\ d[1] = c[1] /\ d[2] = c[2] /\ (Present(c) <=> Present(d))
    BY <1>1 DEF RunOf, MediaInvariant, RunsWhole
  <2> QED
    BY <2>1, Presence
<1>2. ASSUME NEW e \in Episodes
      PROVE  \E r \in Executions : \A q \in Executions : Present(<<e, q, 1>>)' <=> q <= r
  <2>1. ASSUME NEW q \in Executions
        PROVE  Present(<<e, q, 1>>)' <=> q <= Latest(e) \/ (Replace(e) /\ q = Latest(e) + 1)
    BY Presence, FirstStage, LatestIs DEF MediaInvariant
  <2>2. Latest(e) \in Executions
    BY LatestIs DEF MediaInvariant
  <2>3. CASE Replace(e)
    <3>1. Latest(e) + 1 \in Executions
      BY <2>3 DEF Replace
    <3>2. \A q \in Executions : Present(<<e, q, 1>>)' <=> q <= Latest(e) + 1
      BY <2>1, <2>2, <2>3 DEF Executions
    <3> QED
      BY <3>1, <3>2
  <2>4. CASE ~Replace(e)
    BY <2>1, <2>2, <2>4
  <2> QED
    BY <2>3, <2>4
<1> QED
  BY <1>1, <1>2 DEF RunsWhole, RunOf

(* The latest run of an episode changes only with a replacement.           *)
LEMMA LatestStep ==
    ASSUME MediaInvariant, [Next]_vars, NEW e \in Episodes
    PROVE  Latest(e)' = IF Replace(e) THEN Latest(e) + 1 ELSE Latest(e)
<1> DEFINE L == Latest(e)
           M == Latest(e)'
<1>1. /\ L \in Executions /\ M \in Executions
      /\ \A q \in Executions : Present(<<e, q, 1>>)' <=> q <= M
  BY RunsStep, LatestIs, LatestNext DEF MediaInvariant
<1>2. ASSUME NEW q \in Executions
      PROVE  Present(<<e, q, 1>>)' <=> q <= L \/ (Replace(e) /\ q = L + 1)
  BY Presence, FirstStage, LatestIs DEF MediaInvariant
<1>3. Replace(e) => L + 1 \in Executions
  BY DEF Replace
<1> HIDE DEF L, M
<1>4. \A q \in Executions : q <= M <=> q <= L \/ (Replace(e) /\ q = L + 1)
  BY <1>1, <1>2
<1>5. M = IF Replace(e) THEN L + 1 ELSE L
  <2>1. CASE Replace(e)
    BY <1>1, <1>3, <1>4, <2>1 DEF Executions
  <2>2. CASE ~Replace(e)
    BY <1>1, <1>4, <2>2 DEF Executions
  <2> QED
    BY <2>1, <2>2
<1> QED
  BY <1>5 DEF L, M

(* Requests are only sent by the worker that holds the authority.          *)
LEMMA SendsStep ==
    ASSUME MediaInvariant, [Next]_vars, NEW c \in Paid
    PROVE  \/ sends'[c] = sends[c]
           \/ \E w \in Workers : /\ Send(w) /\ worker[w].at = c
                                 /\ worker[w].pc = "authorized"
                                 /\ sends[c] = 0 /\ sends'[c] = 1 /\ Begun(c)
<1>1. ASSUME NEW w \in Workers, Send(w), worker[w].at = c
      PROVE  worker[w].pc = "authorized" /\ sends[c] = 0 /\ sends'[c] = 1 /\ Begun(c)
  BY <1>1 DEF Send, MediaInvariant, OnlySender, TypeOK
<1>2. ASSUME NEW w \in Workers, Send(w), worker[w].at # c
      PROVE  sends'[c] = sends[c]
  BY <1>2 DEF Send, MediaInvariant, TypeOK
<1>3. CASE UNCHANGED sends
  BY <1>3
<1> QED
  BY <1>1, <1>2, <1>3
     DEF Next, Worker, Step, Operator, Source, Receipting, vars, Claim, ClaimLookup, Forget,
         CompleteFree, Authorize, SaveIdentity, Upload, SaveReceipt, SettleReceipt,
         CompleteNarration, FetchHistory, SaveRecovered, SettleRecovered, FinishLookup,
         ReconcileSaved, ReconcileConflict, LapseLookup, Lapse, ReconcileRequest, Invoice,
         ResumeFree, Adopt, Replace, SkipVideo, ResetProvider, RenewPreflight,
         DependencyChanged, FactsChanged, Stopped

(* A call leaves no trace before its authority, and belongs to a run.      *)
LEMMA NoTraceStep ==
    ASSUME MediaInvariant, [Next]_vars
    PROVE  NoTrace' /\ BegunInRun'
<1>1. ASSUME NEW c \in Paid, ~Begun(c)'
      PROVE  attempt'[c] = NoAttempt /\ sends'[c] = 0
  <2>1. attempt'[c] = attempt[c] /\ ~Begun(c)
    BY <1>1, CallFacts
  <2> QED
    BY <2>1, SendsStep DEF MediaInvariant, NoTrace
<1>2. ASSUME NEW c \in Paid, Begun(c)'
      PROVE  Present(c)'
  <2>1. c \in Stages
    BY PaidStage
  <2>2. Present(c)
    BY <1>2, CallFacts DEF MediaInvariant, BegunInRun, Present
  <2> QED
    BY <2>1, <2>2, Presence
<1> QED
  BY <1>1, <1>2 DEF NoTrace, BegunInRun

(* What was begun is not queued again, and does not wait for a preflight.  *)
LEMMA OfferedStep ==
    ASSUME MediaInvariant, [Next]_vars
    PROVE  NeverOfferedAgain' /\ AgedWaits'
<1>1. ASSUME NEW c \in Stages
      PROVE  /\ Moves(c)
             /\ c \in Paid /\ Begun(c)' => Begun(c) \/ (stage[c].state = "running" /\ stage' = stage)
             /\ Appears(c) => ~Present(c)
             /\ stage[c].aged => stage[c].state = "held" /\ (c \in Paid => ~Begun(c))
             /\ c \in Paid => ~Free(c)
             /\ stage'[c].aged \in BOOLEAN /\ stage[c].aged \in BOOLEAN
  <2>1. stage'[c].aged \in BOOLEAN /\ stage[c].aged \in BOOLEAN
    BY TypeStep DEF MediaInvariant, TypeOK, StageRecord
  <2> QED
    BY <2>1, StageEffects, CallFacts, Presence, PaidStage
       DEF MediaInvariant, AgedWaits, Appears
<1>2. ASSUME NEW c \in Paid, Begun(c)'
      PROVE  stage'[c].state # "queued"
  <2>0. c \in Stages
    BY PaidStage
  <2>1. stage[c].state # "queued"
    BY <1>1, <1>2, <2>0 DEF MediaInvariant, PurchasesSound, NeverOfferedAgain
  <2>2. Appears(c) => ~Begun(c) /\ stage[c].state # "running"
    BY <1>1, <2>0 DEF MediaInvariant, BegunInRun, Present
  <2> QED
    BY <1>1, <1>2, <2>0, <2>1, <2>2
       DEF Moves, Keeps, Starts, Waits, Fails, Finishes, Repeats, Adopts, Ends, Returns
<1>3. ASSUME NEW c \in Stages, stage'[c].aged
      PROVE  stage'[c].state = "held" /\ (c \in Paid => ~Begun(c)')
  <2>1. Keeps(c) \/ Waits(c) \/ Appears(c)
    BY <1>1, <1>3
       DEF Moves, Keeps, Starts, Waits, Fails, Finishes, Repeats, Adopts, Ends, Returns
  <2>2. ~Appears(c)
    BY <1>3 DEF Appears, FreshStage, NoStage
  <2>3. CASE Keeps(c)
    BY <1>1, <1>3, <2>3 DEF Keeps
  <2>4. CASE Waits(c)
    BY <1>1, <2>4 DEF Waits, MediaInvariant, PurchasesSound, NeverOfferedAgain
  <2> QED
    BY <2>1, <2>2, <2>3, <2>4
<1> QED
  BY <1>2, <1>3 DEF NeverOfferedAgain, AgedWaits

(* A replaced run buys nothing.                                            *)
LEMMA ReplacedStep ==
    ASSUME MediaInvariant, [Next]_vars
    PROVE  ReplacedClosed'
<1>1. ASSUME NEW c \in Paid, c[2] # Latest(c[1])'
      PROVE  stage'[c].state \notin {"queued", "running"} /\ ~stage'[c].aged
  <2>0. c \in Stages /\ ~Free(c) /\ c[1] \in Episodes /\ c[2] \in Executions
    BY PaidStage, StageParts
  <2>1. stage[c] \in StageRecord /\ Moves(c)
    BY <2>0, StageEffects DEF MediaInvariant, TypeOK
  <2>2. /\ c[2] # Latest(c[1]) =>
              stage[c].state \notin {"queued", "running"} /\ ~stage[c].aged
        /\ stage[c].aged => stage[c].state = "held"
    BY <2>0 DEF MediaInvariant, ReplacedClosed, AgedWaits
  <2>3. CASE Replace(c[1])
    <3>1. c[2] # Latest(c[1]) + 1
      BY <1>1, <2>0, <2>3, LatestStep
    <3>2. CASE c[2] = Latest(c[1])
      <4>1. stage'[c] = Cancelled(stage[c])
        BY <2>0, <2>3, <3>1, <3>2, ReplaceIs
      <4> QED
        BY <2>1, <2>2, <4>1, MakersAre
    <3>3. CASE c[2] # Latest(c[1])
      <4>1. stage'[c] = stage[c]
        BY <2>0, <2>3, <3>1, <3>3, ReplaceIs
      <4> QED
        BY <2>2, <3>3, <4>1
    <3> QED
      BY <3>2, <3>3
  <2>4. CASE ~Replace(c[1])
    <3>1. c[2] # Latest(c[1])
      BY <1>1, <2>0, <2>4, LatestStep
    <3> QED
      BY <2>0, <2>1, <2>2, <2>4, <3>1
         DEF Moves, Keeps, Starts, Waits, Fails, Finishes, Repeats, Adopts, Appears, Ends, Returns
  <2> QED
    BY <2>3, <2>4
<1> QED
  BY <1>1 DEF ReplacedClosed

(* What a worker remembers, and what it may still do.                      *)
LEMMA WorkerEffects ==
    ASSUME MediaInvariant, [Next]_vars, NEW w \in Workers
    PROVE  \/ worker'[w] = worker[w]
           \/ worker'[w].pc \in {"idle", "leased"}
           \/ /\ worker'[w].pc \notin {"idle", "leased", "authorized"}
              /\ worker'[w].at \in Paid
           \/ /\ Authorize(w) /\ worker'[w].at = worker[w].at /\ worker[w].at \in Paid
<1>0. worker \in [Workers -> WorkerRecord]
  BY DEF MediaInvariant, TypeOK
<1>1. ASSUME NEW v \in Workers, Claim(v)
      PROVE  worker'[w] = worker[w] \/ worker'[w].pc \in {"idle", "leased"}
  BY <1>0, <1>1 DEF Claim, Allots, Idle
<1>2. ASSUME NEW v \in Workers, ClaimLookup(v)
      PROVE  worker'[w] = worker[w]
             \/ (worker'[w].pc = "looking" /\ worker'[w].at \in Paid)
  <2>1. PICK taken \in Paid \cup {None} :
          worker' = IF taken = None THEN worker
                    ELSE [worker EXCEPT ![v] = [Idle EXCEPT !.pc = "looking", !.at = taken,
                                                            !.gen = lookup[taken].id]]
    BY <1>2 DEF ClaimLookup
  <2> QED
    BY <1>0, <2>1 DEF Idle
<1>3. ASSUME NEW v \in Workers, Authorize(v)
      PROVE  worker'[w] = worker[w]
             \/ (Authorize(w) /\ worker'[w].at = worker[w].at /\ worker[w].at \in Paid)
  BY <1>0, <1>3 DEF Authorize, WorkerRecord
<1>4. ASSUME NEW v \in Workers,
             Forget(v) \/ CompleteFree(v) \/ CompleteNarration(v) \/ FinishLookup(v)
      PROVE  worker'[w] = worker[w] \/ worker'[w].pc \in {"idle", "leased"}
  BY <1>0, <1>4 DEF Forget, CompleteFree, CompleteNarration, FinishLookup, Idle
<1>5. ASSUME NEW v \in Workers,
             \/ Send(v) \/ SaveIdentity(v) \/ Upload(v) \/ SaveReceipt(v) \/ SettleReceipt(v)
             \/ FetchHistory(v) \/ SaveRecovered(v) \/ SettleRecovered(v)
      PROVE  worker'[w] = worker[w]
             \/ /\ worker'[w].pc \notin {"idle", "leased", "authorized"}
                /\ worker'[w].at \in Paid
  <2>1. worker[v].at \in Paid
    BY <1>5 DEF Send, SaveIdentity, Upload, SaveReceipt, SettleReceipt, FetchHistory,
                SaveRecovered, SettleRecovered, MediaInvariant, OnlySender
  <2>2. \/ v # w /\ worker'[w] = worker[w]
        \/ /\ v = w /\ worker'[w].at = worker[w].at
           /\ worker'[w].pc \notin {"idle", "leased", "authorized"}
    <3>1. CASE Send(v)
      BY <1>0, <3>1 DEF Send, WorkerRecord
    <3>2. CASE SaveIdentity(v)
      BY <1>0, <3>2 DEF SaveIdentity, WorkerRecord
    <3>3. CASE Upload(v)
      BY <1>0, <3>3 DEF Upload, WorkerRecord
    <3>4. CASE SaveReceipt(v) \/ SettleReceipt(v) \/ SaveRecovered(v) \/ SettleRecovered(v)
      BY <1>0, <3>4 DEF SaveReceipt, SettleReceipt, SaveRecovered, SettleRecovered, WorkerRecord
    <3>5. CASE FetchHistory(v)
      BY <1>0, <3>5 DEF FetchHistory, WorkerRecord
    <3> QED
      BY <1>5, <3>1, <3>2, <3>3, <3>4, <3>5
  <2> QED
    BY <2>1, <2>2
<1>6. CASE UNCHANGED worker
  BY <1>6
<1> QED
  BY <1>1, <1>2, <1>3, <1>4, <1>5, <1>6
     DEF Next, Worker, Step, Operator, Source, Receipting, vars,
         ReconcileSaved, ReconcileConflict, LapseLookup, Lapse, ReconcileRequest, Invoice,
         ResumeFree, Adopt, Replace, SkipVideo, ResetProvider, RenewPreflight,
         DependencyChanged, FactsChanged, Stopped

(* A worker that comes to hold an authority got it in this step, for a     *)
(* call nobody had authority for.                                          *)
LEMMA SenderStep ==
    ASSUME MediaInvariant, [Next]_vars
    PROVE  OnlySender'
<1>1. ASSUME NEW w \in Workers, worker'[w].pc \notin {"idle", "leased"}
      PROVE  worker'[w].at \in Paid
  BY <1>1, WorkerEffects DEF MediaInvariant, OnlySender
<1>2. ASSUME NEW w \in Workers, worker'[w].pc = "authorized"
      PROVE  /\ worker'[w].at = worker[w].at /\ worker[w].at \in Paid
             /\ \/ worker[w].pc = "authorized" /\ worker'[w] = worker[w]
                \/ Authorize(w)
  BY <1>2, WorkerEffects DEF MediaInvariant, OnlySender
<1>3. ASSUME NEW w \in Workers, Authorize(w), NEW c \in Paid, worker[w].at = c
      PROVE  /\ ~Begun(c) /\ Begun(c)' /\ sends' = sends
             /\ \A v \in Workers \ {w} : worker'[v] = worker[v]
  <2>1. Granted(c)
    BY <1>3 DEF Granted
  <2>2. \A v \in Workers \ {w} : worker'[v] = worker[v]
    BY <1>3 DEF Authorize, MediaInvariant, TypeOK
  <2>3. ~Begun(c) /\ sends' = sends /\ attempt'[c].state = "dispatching"
    BY <2>1, CallFacts
  <2> QED
    BY <2>2, <2>3 DEF Begun
<1>4. ASSUME NEW w \in Workers, worker'[w].pc = "authorized", NEW c \in Paid, worker[w].at = c
      PROVE  Begun(c)' /\ sends'[c] = 0
  <2>1. CASE Authorize(w)
    BY <1>3, <1>4, <2>1 DEF MediaInvariant, NoTrace
  <2>2. CASE worker[w].pc = "authorized" /\ worker'[w] = worker[w]
    <3>1. Begun(c)' /\ sends[c] = 0
      BY <1>4, <2>2, CallFacts DEF MediaInvariant, OnlySender
    <3>2. ASSUME NEW v \in Workers, Send(v), worker[v].at = c, worker[v].pc = "authorized"
          PROVE  FALSE
      <4>1. v = w
        BY <1>4, <2>2, <3>2 DEF MediaInvariant, OnlySender
      <4>2. worker'[w].pc = "sent"
        BY <3>2, <4>1 DEF Send, MediaInvariant, TypeOK, WorkerRecord
      <4> QED
        BY <1>4, <4>2
    <3> QED
      BY <1>4, <3>1, <3>2, SendsStep
  <2> QED
    BY <1>2, <1>4, <2>1, <2>2
<1>5. ASSUME NEW v \in Workers, NEW w \in Workers,
             worker'[v].pc = "authorized", worker'[w].pc = "authorized",
             worker'[v].at = worker'[w].at
      PROVE  v = w
  <2>0. /\ worker[v].at \in Paid /\ worker[w].at = worker[v].at
    BY <1>2, <1>5
  <2>1. CASE Authorize(v) /\ v # w
    <3>1. worker'[w] = worker[w] /\ ~Begun(worker[v].at)
      BY <1>3, <2>0, <2>1
    <3> QED
      BY <1>5, <2>0, <3>1 DEF MediaInvariant, OnlySender
  <2>2. CASE Authorize(w) /\ v # w
    <3>1. worker'[v] = worker[v] /\ ~Begun(worker[w].at)
      BY <1>3, <2>0, <2>2
    <3> QED
      BY <1>5, <2>0, <3>1 DEF MediaInvariant, OnlySender
  <2>3. CASE ~Authorize(v) /\ ~Authorize(w)
    BY <1>2, <1>5, <2>0, <2>3 DEF MediaInvariant, OnlySender
  <2> QED
    BY <2>1, <2>2, <2>3
<1> QED
  <2>1. ASSUME NEW w \in Workers, worker'[w].pc = "authorized"
        PROVE  attempt'[worker'[w].at].state # "none" /\ sends'[worker'[w].at] = 0
    <3>1. PICK c \in Paid : worker[w].at = c /\ worker'[w].at = c
      BY <1>2, <2>1
    <3> QED
      BY <1>4, <2>1, <3>1 DEF Begun
  <2> QED
    BY <1>1, <1>5, <2>1 DEF OnlySender, Begun

(* A call without a complaint was answered in full, whatever settled it.   *)
LEMMA CleanStep ==
    ASSUME MediaInvariant, [Next]_vars
    PROVE  CleanIsComplete'
<1> SUFFICES ASSUME NEW c \in Paid, attempt'[c].state = "received", attempt'[c].error = "none"
             PROVE  attempt'[c].receipt = "ok" /\ attempt'[c].settled
  BY DEF CleanIsComplete
<1>0. /\ attempt[c] \in AttemptRecord /\ CallMoves(c)
      /\ attempt[c].state = "received" /\ attempt[c].error = "none" =>
            attempt[c].receipt = "ok" /\ attempt[c].settled
      /\ ConstantsAssumption
  BY CallEffects, ConstantsAssumption DEF MediaInvariant, TypeOK, CleanIsComplete
<1>1. ~Granted(c)
  BY CallFacts
<1>2. CASE Rests(c) \/ Reserves(c) \/ Releases(c)
  <2>1. attempt'[c] = attempt[c]
    BY <1>2 DEF Rests, Reserves, Releases
  <2> QED
    BY <1>0, <2>1
<1>3. CASE KeepsEvidence(c) /\ (Learns(c) \/ Charged(c))
  BY <1>0, <1>3 DEF KeepsEvidence, Learns, Charged, ConstantsAssumption
<1>4. CASE Resolves(c)
  <2>1. StateOf(attempt[c]) = "received" /\ ErrorOf(attempt[c]) = "none"
    BY <1>4 DEF Resolves
  <2>2. ~attempt[c].recovered /\ attempt[c].receipt # "broken"
    BY <2>1 DEF ErrorOf
  <2>3. attempt[c].receipt = "ok"
    BY <2>1, <2>2 DEF StateOf, Priced
  <2> QED
    BY <1>0, <1>4, <2>3 DEF Resolves, ConstantsAssumption
<1>5. CASE Doubts(c)
  BY <1>5 DEF Doubts
<1> QED
  BY <1>0, <1>1, <1>2, <1>3, <1>4, <1>5 DEF CallMoves

(* Finished narrations were bought.                                        *)
LEMMA SelectedBegun ==
    ASSUME MediaInvariant, NEW c \in Paid, stage[c].state = "succeeded"
    PROVE  Begun(c)
  BY ConstantsAssumption
     DEF ConstantsAssumption, MediaInvariant, ResultsSound, SelectedAudio, NoTrace, NoAttempt

(* Narrations are bought in order: authority needs the chain before it.    *)
LEMMA OrderStep ==
    ASSUME MediaInvariant, [Next]_vars
    PROVE  BoughtInOrder'
<1>1. ASSUME NEW c \in Paid, Begun(c)', c[3] > 1
      PROVE  Begun(Prior(c))'
  <2>0. c \in Stages /\ Prior(c) \in Paid
    BY <1>1, PaidStage, PriorStage
  <2>1. Begun(Prior(c))
    <3>1. CASE Begun(c)
      BY <1>1, <3>1 DEF MediaInvariant, BoughtInOrder
    <3>2. CASE ~Begun(c)
      <4>1. stage[c].state = "running"
        BY <1>1, <3>2, CallFacts
      <4>2. stage[Prior(c)].state = "succeeded"
        BY <1>1, <2>0, <4>1 DEF MediaInvariant, ResultsSound, ChainInOrder
      <4> QED
        BY <2>0, <4>2, SelectedBegun
    <3> QED
      BY <3>1, <3>2
  <2> QED
    BY <2>0, <2>1, CallFacts
<1> QED
  BY <1>1 DEF BoughtInOrder, Begun, Prior

(* The audio of a finished narration stays selected by what selected it.   *)
LEMMA AudioStep ==
    ASSUME MediaInvariant, [Next]_vars
    PROVE  SelectedAudio'
<1> SUFFICES ASSUME NEW c \in Paid, stage'[c].state = "succeeded"
             PROVE  \/ attempt'[c].receipt = "ok" /\ attempt'[c].settled
                    \/ attempt'[c].recovered /\ attempt'[c].adopted # "no"
  BY DEF SelectedAudio
<1>0. c \in Stages /\ ~Free(c)
  BY PaidStage
<1>1. Moves(c)
  BY <1>0, StageEffects DEF MediaInvariant
<1>2. Adopts(c) \/ Keeps(c) \/ Finishes(c)
  BY <1>0, <1>1
     DEF Moves, Starts, Waits, Fails, Repeats, Appears, FreshStage, NoStage, Ends, Returns
<1>3. CASE Adopts(c)
  BY <1>3 DEF Adopts
<1>4. CASE Keeps(c) \/ Finishes(c)
  <2>1. \/ attempt[c].receipt = "ok" /\ attempt[c].settled
        \/ attempt[c].recovered /\ attempt[c].adopted # "no"
    BY <1>4 DEF Keeps, Finishes, MediaInvariant, ResultsSound, SelectedAudio, CleanIsComplete
  <2>2. None # "ok"
    BY ConstantsAssumption DEF ConstantsAssumption
  <2>3. Begun(c)
    BY <2>1, <2>2, EvidenceBegun DEF MediaInvariant
  <2>4. KeepsEvidence(c)
    BY <2>3, CallFacts
  <2> QED
    BY <2>1, <2>2, <2>4 DEF KeepsEvidence
<1> QED
  BY <1>2, <1>3, <1>4

(* Finished work stays finished, or what rests on it is undone with it.    *)
LEMMA ChainStep ==
    ASSUME MediaInvariant, [Next]_vars
    PROVE  ChainInOrder'
<1>1. ASSUME NEW c \in Stages, stage'[c].state \in {"running", "succeeded"}, c[3] > 1
      PROVE  stage'[Prior(c)].state = "succeeded"
  <2> DEFINE p == Prior(c)
  <2>0. /\ p \in Stages /\ p[1] = c[1] /\ p[2] = c[2] /\ p[3] = c[3] - 1 /\ c[3] \in Nat
        /\ p \in RunOf(c) /\ c \in RunOf(p)
        /\ Moves(c) /\ Moves(p)
        /\ c \in Paid => p \in Paid
        /\ stage[c].state \in {"running", "succeeded"} => stage[p].state = "succeeded"
    <3>1. p \in Stages /\ p[1] = c[1] /\ p[2] = c[2] /\ p[3] = c[3] - 1 /\ p \in RunOf(c)
          /\ (c \in Paid => p \in Paid)
      BY <1>1, PriorStage
    <3>2. c[3] \in Nat
      BY StageParts
    <3>3. c \in RunOf(p)
      BY <3>1 DEF RunOf
    <3>4. Moves(c) /\ Moves(p)
      BY <3>1, StageEffects DEF MediaInvariant
    <3>5. stage[c].state \in {"running", "succeeded"} => stage[p].state = "succeeded"
      BY <1>1 DEF MediaInvariant, ResultsSound, ChainInOrder
    <3> QED
      BY <3>1, <3>2, <3>3, <3>4, <3>5
  <2> HIDE DEF p
  <2>1. ~FactsChanged(c[1])
    <3>1. ASSUME FactsChanged(c[1])
          PROVE  FALSE
      <4>1. (stage'[c] = stage[c] /\ ~Present(c)) \/ stage'[c] = Ended(stage[c], "held")
        BY <3>1, StageParts DEF FactsChanged, Stopped, Of, Present
      <4>2. stage[c] \in StageRecord
        BY DEF MediaInvariant, TypeOK
      <4>3. Ended(stage[c], "held").state = "held"
        BY <4>2, MakersAre
      <4> QED
        BY <1>1, <4>1, <4>3 DEF Present
    <3> QED
      BY <3>1
  <2>2. stage[p].state = "succeeded" => stage'[p].state = "succeeded"
    <3>1. ASSUME stage[p].state = "succeeded", stage'[p].state # "succeeded" PROVE FALSE
      <4>1. ~Returns(p) /\ ~Appears(p)
        <5>1. Present(p) /\ (stage[p].aged => stage[p].state = "held")
          BY <2>0, <3>1 DEF Present, MediaInvariant, AgedWaits
        <5> QED
          BY <2>0, <3>1, <5>1, Presence DEF Returns, Appears
      <4>2. Repeats(p) \/ Ends(p)
        BY <2>0, <3>1, <4>1
           DEF Moves, Keeps, Starts, Waits, Fails, Finishes, Adopts, Recoverable
      <4>3. ~Ends(p)
        BY <2>0, <2>1, <3>1 DEF Ends
      <4>4. CASE Repeats(p)
        <5>1. c[3] >= p[3]
          BY <2>0
        <5>2. stage'[c].state = "queued"
          BY <2>0, <4>4, <5>1 DEF Repeats
        <5> QED
          BY <1>1, <5>2
      <4> QED
        BY <4>2, <4>3, <4>4
    <3> QED
      BY <3>1
  <2>3. CASE Adopts(c)
    <3>1. c \in Paid /\ Begun(c) /\ p \in Paid
      BY <2>0, <2>3 DEF Adopts, Recoverable, Begun
    <3>2. Begun(p)
      BY <1>1, <3>1 DEF MediaInvariant, BoughtInOrder, p
    <3> QED
      BY <2>0, <2>2, <2>3, <3>1, <3>2 DEF Adopts, p
  <2>4. CASE ~Adopts(c)
    <3>1. Keeps(c) \/ Starts(c) \/ Finishes(c)
      BY <1>1, <2>0, <2>4
         DEF Moves, Waits, Fails, Repeats, Appears, FreshStage, NoStage, Ends, Returns
    <3>2. stage[p].state = "succeeded"
      BY <1>1, <2>0, <3>1 DEF Keeps, Starts, Finishes, p
    <3> QED
      BY <2>2, <3>2 DEF p
  <2> QED
    BY <2>3, <2>4
<1> QED
  BY <1>1 DEF ChainInOrder, Prior

(* No request is sent twice.                                               *)
LEMMA OnceStep ==
    ASSUME MediaInvariant, [Next]_vars
    PROVE  (\A c \in Paid : sends[c] <= 1 /\ (sends[c] = 1 => Begun(c)))'
<1>1. ASSUME NEW c \in Paid
      PROVE  sends'[c] <= 1 /\ (sends'[c] = 1 => Begun(c)')
  <2>1. sends[c] <= 1 /\ (sends[c] = 1 => Begun(c))
    BY DEF MediaInvariant, PurchasesSound, BoughtOnce
  <2> QED
    BY <2>1, SendsStep, CallFacts
<1> QED
  BY <1>1 DEF Begun

(* The charge of a call follows its settlement.                            *)
LEMMA ChargesStep ==
    ASSUME MediaInvariant, [Next]_vars
    PROVE  ChargesAgree'
<1> SUFFICES ASSUME NEW c \in Paid
             PROVE  /\ alloc'[c].phase = "bound" <=> Begun(c)'
                    /\ Begun(c)' => alloc'[c].actual = attempt'[c].cost
                    /\ ~Begun(c)' => alloc'[c].actual \in {None, 0}
  BY DEF ChargesAgree, Begun
<1>0. /\ CallMoves(c) /\ alloc[c] \in AllocationRecord
      /\ alloc[c].phase = "bound" <=> Begun(c)
      /\ Begun(c) => alloc[c].actual = attempt[c].cost
      /\ ~Begun(c) => alloc[c].actual \in {None, 0}
  BY CallEffects DEF MediaInvariant, TypeOK, MoneySound, ChargesAgree
<1>1. CASE Rests(c)
  BY <1>0, <1>1 DEF Rests, Begun
<1>2. CASE Granted(c)
  <2>1. /\ alloc'[c].phase = "bound" /\ alloc'[c].actual = None
        /\ attempt'[c].cost = None /\ attempt'[c].state = "dispatching"
    BY <1>2, CallFacts
  <2> QED
    BY <2>1 DEF Begun
<1>3. CASE Reserves(c)
  <2>1. alloc'[c].phase = "reserved" /\ alloc'[c].actual = None
    BY <1>3 DEF Reserves, NoAllocation
  <2> QED
    BY <1>3, <2>1 DEF Reserves, Begun
<1>4. CASE Releases(c)
  <2>1. alloc'[c].phase = "reserved" /\ alloc'[c].actual = 0
    BY <1>0, <1>4 DEF Releases, AllocationRecord
  <2> QED
    BY <1>4, <2>1 DEF Releases, Begun
<1>5. CASE Begun(c) /\ (Learns(c) \/ Doubts(c))
  BY <1>0, <1>5 DEF Learns, Doubts, Begun
<1>6. CASE Begun(c) /\ Resolves(c)
  <2>1. alloc'[c].phase = "bound" /\ alloc'[c].actual = Amount(attempt[c])
    BY <1>0, <1>6 DEF Resolves, AllocationRecord
  <2>2. attempt'[c].cost = Amount(attempt[c])
    BY <1>6 DEF Resolves
  <2>3. Begun(c)'
    BY <1>6, CallFacts
  <2> QED
    BY <2>1, <2>2, <2>3
<1>7. CASE Begun(c) /\ Charged(c)
  BY <1>0, <1>7 DEF Charged, Begun
<1> QED
  BY <1>0, <1>1, <1>2, <1>3, <1>4, <1>5, <1>6, <1>7 DEF CallMoves

(* The envelope changes with the first call of a script, or is released.   *)
LEMMA EnvelopeStep ==
    ASSUME MediaInvariant, [Next]_vars, NEW e \in Episodes
    PROVE  \/ envelope'[e] = envelope[e]
           \/ /\ envelope'[e] = "swapped"
              /\ \E w \in Workers : /\ Authorize(w) /\ worker[w].at[1] = e
                                    /\ worker[w].at[2] = 1 /\ worker[w].at \in Paid
           \/ SkipVideo(e) /\ envelope[e] = "reserved" /\ envelope'[e] = "released"
<1>1. ASSUME NEW w \in Workers, Authorize(w)
      PROVE  \/ envelope'[e] = envelope[e]
             \/ /\ envelope'[e] = "swapped"
                /\ worker[w].at[1] = e /\ worker[w].at[2] = 1 /\ worker[w].at \in Paid
  BY <1>1 DEF Authorize, MediaInvariant, TypeOK
<1>2. ASSUME NEW d \in Episodes, SkipVideo(d)
      PROVE  \/ envelope'[e] = envelope[e]
             \/ SkipVideo(e) /\ envelope[e] = "reserved" /\ envelope'[e] = "released"
  <2>1. envelope' = [envelope EXCEPT ![d] = IF @ = "reserved" THEN "released" ELSE @]
    BY <1>2 DEF SkipVideo
  <2>2. CASE d = e
    BY <1>2, <2>1, <2>2 DEF MediaInvariant, TypeOK
  <2>3. CASE d # e
    BY <2>1, <2>3 DEF MediaInvariant, TypeOK
  <2> QED
    BY <2>2, <2>3
<1>3. CASE UNCHANGED envelope
  BY <1>3
<1> QED
  BY <1>1, <1>2, <1>3
     DEF Next, Worker, Step, Operator, Source, Receipting, vars, Claim, ClaimLookup, Forget,
         CompleteFree, Send, SaveIdentity, Upload, SaveReceipt, SettleReceipt,
         CompleteNarration, FetchHistory, SaveRecovered, SettleRecovered, FinishLookup,
         ReconcileSaved, ReconcileConflict, LapseLookup, Lapse, ReconcileRequest, Invoice,
         ResumeFree, Adopt, Replace, ResetProvider, RenewPreflight,
         DependencyChanged, FactsChanged, Stopped

(* What the first call of a script does to the plan of its run.            *)
LEMMA PlanStep ==
    ASSUME MediaInvariant, [Next]_vars, NEW w \in Workers, Authorize(w), NEW d \in Paid,
           worker[w].at = d, d[2] = 1, NEW c \in Paid, c[1] = d[1], c[2] = 1
    PROVE  /\ c # d /\ envelope[c[1]] = "reserved" =>
                alloc'[c].phase = "reserved" /\ alloc'[c].actual = None
           /\ alloc'[c].phase # "none" /\ envelope'[c[1]] = "swapped"
<1>0. c \in Stages /\ d \in Stages /\ c \in RunOf(d) /\ d[1] \in Episodes
  BY PaidStage, StageParts DEF RunOf
<1>1. alloc' = [Planned(d) EXCEPT ![d] = [Planned(d)[d] EXCEPT !.phase = "bound"]]
  BY DEF Authorize
<1>2. envelope'[c[1]] = "swapped" /\ envelope[c[1]] # "released"
  BY <1>0 DEF Authorize, MediaInvariant, TypeOK
<1>3. CASE envelope[c[1]] = "reserved" /\ c # d
  <2>1. Planned(d)[c] = [NoAllocation EXCEPT !.phase = "reserved"]
    BY <1>0, <1>3 DEF Planned
  <2>2. alloc'[c] = Planned(d)[c]
    BY <1>1, <1>3 DEF Planned, MediaInvariant, TypeOK
  <2> QED
    BY <1>2, <2>1, <2>2 DEF NoAllocation
<1>4. CASE c = d
  <2>1. alloc'[c].phase = "bound"
    BY <1>4, CallFacts DEF Granted
  <2> QED
    BY <1>2, <1>4, <2>1
<1>5. CASE envelope[c[1]] # "reserved" /\ c # d
  <2>1. alloc[c].phase # "none"
    <3>1. envelope[c[1]] = "swapped"
      BY <1>0, <1>2, <1>5 DEF MediaInvariant, TypeOK
    <3> QED
      BY <3>1 DEF MediaInvariant, MoneySound, Funded
  <2>2. alloc'[c] = alloc[c]
    BY <1>1, <1>5 DEF Planned, MediaInvariant, TypeOK
  <2> QED
    BY <1>2, <1>5, <2>1, <2>2
<1> QED
  BY <1>3, <1>4, <1>5

(* The money of a narration that may still be bought.                      *)
SetAside(c) == \/ c[2] = 1 /\ envelope[c[1]] = "reserved"
               \/ alloc[c].phase = "reserved" /\ alloc[c].actual = None

(* What skipping makes of the stages.                                      *)
LEMMA SkipIs ==
    ASSUME NEW e, SkipVideo(e), NEW c \in Stages, c[1] = e
    PROVE  stage'[c] = Cancelled(stage[c])
  BY DEF SkipVideo

(* It stays set aside, unless the narration is bought or the video is      *)
(* skipped.                                                                *)
LEMMA AsideStep ==
    ASSUME MediaInvariant, [Next]_vars, NEW c \in Paid, SetAside(c), ~Begun(c)'
    PROVE  SetAside(c)' \/ SkipVideo(c[1])
<1>0. c \in Stages /\ c[1] \in Episodes /\ CallMoves(c) /\ ~Begun(c)
  BY PaidStage, StageParts, CallEffects, CallFacts DEF MediaInvariant
<1>1. CASE c[2] = 1 /\ envelope[c[1]] = "reserved"
  <2>1. CASE envelope'[c[1]] = envelope[c[1]]
    BY <1>1, <2>1 DEF SetAside
  <2>2. ASSUME NEW w \in Workers, Authorize(w), NEW d \in Paid, worker[w].at = d,
               d[1] = c[1], d[2] = 1
        PROVE  SetAside(c)'
    <3>1. c # d
      <4>1. Begun(d)'
        BY <2>2, CallFacts DEF Granted, Begun
      <4> QED
        BY <4>1
    <3>2. alloc'[c].phase = "reserved" /\ alloc'[c].actual = None
      BY <1>1, <2>2, <3>1, PlanStep
    <3> QED
      BY <3>2 DEF SetAside
  <2> QED
    BY <1>0, <2>1, <2>2, EnvelopeStep
<1>2. CASE alloc[c].phase = "reserved" /\ alloc[c].actual = None
  <2>1. CASE Rests(c)
    BY <1>2, <2>1 DEF Rests, SetAside
  <2>2. CASE Reserves(c)
    <3>1. alloc'[c].phase = "reserved" /\ alloc'[c].actual = None
      BY <2>2 DEF Reserves, NoAllocation
    <3> QED
      BY <3>1 DEF SetAside
  <2>3. CASE Releases(c)
    BY <2>3 DEF Releases
  <2>4. ~Granted(c)
    BY CallFacts DEF Begun
  <2> QED
    BY <1>0, <2>1, <2>2, <2>3, <2>4 DEF CallMoves
<1> QED
  BY <1>1, <1>2 DEF SetAside

(* What may still be bought is funded, also when only a preflight is       *)
(* missing.                                                                *)
LEMMA FundedStep ==
    ASSUME MediaInvariant, [Next]_vars
    PROVE  Funded' /\ AgedFunded'
<1>1. ASSUME NEW c \in Paid, ~Begun(c)', stage'[c].aged \/ stage'[c].state \in {"queued", "running"}
      PROVE  SetAside(c)'
  <2>0. c \in Stages /\ ~Free(c) /\ c[1] \in Episodes /\ ~Begun(c) /\ Moves(c)
        /\ stage[c] \in StageRecord
    BY <1>1, PaidStage, StageParts, StageEffects, CallFacts DEF MediaInvariant, TypeOK
  <2>1. CASE Appears(c)
    <3>1. alloc'[c] = [NoAllocation EXCEPT !.phase = "reserved"]
      BY <2>1 DEF Appears, Replace
    <3> QED
      BY <3>1 DEF SetAside, NoAllocation
  <2>2. CASE ~Appears(c)
    <3>1. stage[c].aged \/ stage[c].state \in {"queued", "running"}
      BY <1>1, <2>0, <2>2
         DEF Moves, Keeps, Starts, Waits, Fails, Finishes, Repeats, Adopts, Ends, Returns
    <3>2. SetAside(c)
      BY <2>0, <3>1 DEF MediaInvariant, MoneySound, Funded, AgedFunded, SetAside
    <3>3. ~SkipVideo(c[1])
      <4>1. ASSUME SkipVideo(c[1]) PROVE FALSE
        <5>1. stage'[c] = Cancelled(stage[c])
          BY <2>0, <4>1, SkipIs
        <5>2. stage[c].aged => stage[c].state = "held"
          BY <2>0 DEF MediaInvariant, AgedWaits
        <5> QED
          BY <1>1, <2>0, <5>1, <5>2, MakersAre
      <4> QED
        BY <4>1
    <3> QED
      BY <1>1, <3>2, <3>3, AsideStep
  <2> QED
    BY <2>1, <2>2
<1>2. ASSUME NEW c \in Paid, c[2] = 1
      PROVE  envelope'[c[1]] = "swapped" <=> alloc'[c].phase # "none"
  <2>0. /\ c \in Stages /\ c[1] \in Episodes /\ CallMoves(c) /\ alloc[c] \in AllocationRecord
        /\ envelope[c[1]] = "swapped" <=> alloc[c].phase # "none"
        /\ alloc[c].phase = "bound" <=> Begun(c)
    BY <1>2, PaidStage, StageParts, CallEffects
       DEF MediaInvariant, TypeOK, MoneySound, Funded, ChargesAgree
  <2>1. ASSUME NEW w \in Workers, Authorize(w), NEW d \in Paid, worker[w].at = d,
               d[1] = c[1], d[2] = 1
        PROVE  envelope'[c[1]] = "swapped" <=> alloc'[c].phase # "none"
    BY <1>2, <2>1, PlanStep
  <2>2. CASE /\ envelope'[c[1]] = envelope[c[1]]
             /\ ~\E w \in Workers : /\ Authorize(w) /\ worker[w].at[1] = c[1]
                                    /\ worker[w].at[2] = 1 /\ worker[w].at \in Paid
    <3>1. ~Granted(c)
      BY <1>2, <2>2 DEF Granted
    <3>2. ~Reserves(c)
      <4>1. ASSUME Reserves(c) PROVE FALSE
        <5>1. Replace(c[1]) /\ c[2] = Latest(c[1]) + 1
          BY <2>2, <4>1 DEF Reserves
        <5>2. Latest(c[1]) \in Executions
          BY <2>0, LatestIs DEF MediaInvariant
        <5> QED
          BY <1>2, <5>1, <5>2 DEF Executions
      <4> QED
        BY <4>1
    <3>3. alloc'[c].phase = alloc[c].phase
      BY <2>0, <3>1, <3>2
         DEF CallMoves, Rests, Releases, Learns, Resolves, Doubts, Charged, AllocationRecord
    <3> QED
      BY <2>0, <2>2, <3>3
  <2>3. CASE SkipVideo(c[1]) /\ envelope[c[1]] = "reserved" /\ envelope'[c[1]] = "released"
    <3>1. alloc[c].phase = "none"
      BY <2>0, <2>3
    <3>2. alloc'[c] = alloc[c] \/ alloc'[c] = [alloc[c] EXCEPT !.actual = 0]
      BY <2>3 DEF SkipVideo
    <3> QED
      BY <2>0, <2>3, <3>1, <3>2 DEF AllocationRecord
  <2> QED
    BY <2>0, <2>1, <2>2, <2>3, EnvelopeStep
<1>3. Funded'
  BY <1>1, <1>2 DEF Funded, SetAside, Begun
<1>4. ASSUME NEW c \in Paid, stage'[c].aged
      PROVE  SetAside(c)'
  BY <1>1, <1>4, OfferedStep, PaidStage DEF AgedWaits, Begun
<1> QED
  BY <1>3, <1>4 DEF AgedFunded, SetAside

(* The initial state is typed.                                             *)
LEMMA InitType == Init => TypeOK
  BY NoStageType, NoAttemptType, IdleType, AllocFields, ConstantsAssumption
     DEF ConstantsAssumption, Init, TypeOK, NoAllocation, AllocationRecord, NoLookup, LookupRecord

(* start_media leaves the invariant true.                                  *)
LEMMA InitSound == Init => MediaInvariant
<1> SUFFICES ASSUME Init PROVE MediaInvariant
  OBVIOUS
<1>1. TypeOK
  BY InitType
<1>2. /\ \A c \in Stages : stage[c] = IF c[2] = 1 THEN FreshStage ELSE NoStage
      /\ FreshStage.state = "queued" /\ ~FreshStage.aged
      /\ NoStage.state = "absent" /\ ~NoStage.aged
  BY DEF Init, FreshStage, NoStage
<1>3. /\ \A c \in Paid : /\ attempt[c] = NoAttempt /\ alloc[c] = NoAllocation /\ sends[c] = 0
                         /\ ~Begun(c) /\ attempt[c].state = "none"
                         /\ alloc[c].phase = "none" /\ alloc[c].actual = None
      /\ \A e \in Episodes : envelope[e] = "reserved"
      /\ \A w \in Workers : worker[w].pc = "idle"
  BY DEF Init, NoAttempt, NoAllocation, Idle, Begun
<1>4. \A c \in Stages : Present(c) <=> c[2] = 1
  BY <1>2 DEF Present
<1>5. RunsWhole
  <2>1. 1 \in Executions
    BY ConstantsAssumption DEF ConstantsAssumption, Executions
  <2>2. ASSUME NEW e \in Episodes, NEW q \in Executions
        PROVE  Present(<<e, q, 1>>) <=> q <= 1
    <3>1. Present(<<e, q, 1>>) <=> q = 1
      BY <1>4, FirstStage
    <3> QED
      BY <3>1 DEF Executions
  <2> QED
    BY <1>4, <2>1, <2>2 DEF RunsWhole, RunOf
<1>6. \A e \in Episodes : Latest(e) = 1
  <2>1. ASSUME NEW e \in Episodes PROVE Latest(e) = 1
    <3>1. /\ Latest(e) \in Executions /\ 1 \in Executions
          /\ \A q \in Executions : Present(<<e, q, 1>>) <=> q <= Latest(e)
      BY <1>5, LatestIs, ConstantsAssumption DEF ConstantsAssumption, Executions
    <3>2. Present(<<e, Latest(e), 1>>) <=> Latest(e) = 1
      BY <1>4, <3>1, FirstStage
    <3> QED
      BY <3>1, <3>2 DEF Executions
  <2> QED
    BY <2>1
<1>7. \A c \in Paid : c \in Stages /\ c[1] \in Episodes
  BY PaidStage, StageParts
<1>8. NoTrace /\ BegunInRun /\ AgedWaits /\ OnlySender /\ CleanIsComplete /\ BoughtInOrder
  <2>1. AgedWaits
    BY <1>2 DEF AgedWaits
  <2>2. OnlySender
    BY <1>3 DEF OnlySender
  <2>3. CleanIsComplete
    BY <1>3 DEF CleanIsComplete
  <2> QED
    BY <1>3, <2>1, <2>2, <2>3 DEF NoTrace, BegunInRun, BoughtInOrder
<1>9. ReplacedClosed
  BY <1>2, <1>6, <1>7 DEF ReplacedClosed
<1>10. AgedFunded
  BY <1>2, <1>7 DEF AgedFunded
<1>11. PurchasesSound
  BY <1>2, <1>3, <1>6, <1>7 DEF PurchasesSound, BoughtOnce, NeverOfferedAgain, OneBuyer
<1>12. MoneySound
  BY <1>2, <1>3, <1>7 DEF MoneySound, Funded, ChargesAgree
<1>13. ResultsSound
  BY <1>2, <1>7 DEF ResultsSound, ChainInOrder, SelectedAudio
<1> QED
  BY <1>1, <1>5, <1>8, <1>9, <1>10, <1>11, <1>12, <1>13 DEF MediaInvariant

(* Every step keeps the invariant.                                         *)
LEMMA MediaStep == MediaInvariant /\ [Next]_vars => MediaInvariant'
<1> SUFFICES ASSUME MediaInvariant, [Next]_vars PROVE MediaInvariant'
  OBVIOUS
<1>1. TypeOK' /\ RunsWhole' /\ NoTrace' /\ BegunInRun' /\ NeverOfferedAgain' /\ AgedWaits'
  BY TypeStep, RunsStep, NoTraceStep, OfferedStep DEF MediaInvariant
<1>2. ReplacedClosed' /\ OnlySender' /\ CleanIsComplete' /\ BoughtInOrder'
  BY ReplacedStep, SenderStep, CleanStep, OrderStep
<1>3. Funded' /\ AgedFunded' /\ ChargesAgree' /\ ChainInOrder' /\ SelectedAudio'
  BY FundedStep, ChargesStep, ChainStep, AudioStep
<1>4. OneBuyer'
  BY <1>2 DEF OneBuyer, ReplacedClosed
<1>5. BoughtOnce'
  <2>1. \A c \in Paid : sends'[c] <= 1 /\ (sends'[c] = 1 => Begun(c)')
    BY OnceStep DEF Begun
  <2>2. \A c \in Paid : Begun(c)' => alloc'[c].phase = "bound"
    BY <1>3 DEF ChargesAgree, Begun
  <2> QED
    BY <2>1, <2>2 DEF BoughtOnce, Begun
<1> QED
  BY <1>1, <1>2, <1>3, <1>4, <1>5
     DEF MediaInvariant, PurchasesSound, MoneySound, ResultsSound

(* The invariant holds of every state that the media checkpoints reach.    *)
THEOREM MediaInvariantHolds == Spec => []MediaInvariant
  BY InitSound, MediaStep, PTL DEF Spec

(* Every state is typed (recap_video tables and the workers' memory).      *)
THEOREM MediaTypes == Spec => []TypeOK
<1>1. MediaInvariant => TypeOK
  BY DEF MediaInvariant
<1> QED
  BY <1>1, MediaInvariantHolds, PTL

(* claim_stage, authorize_dispatch, approve_replacement: for every number  *)
(* of episodes, chunks, revisions and workers, a chunk is sent at most     *)
(* once and with its budget, is never offered again once authorized, and   *)
(* only the latest revision buys.                                          *)
THEOREM PurchasesAreSound == Spec => []PurchasesSound
<1>1. MediaInvariant => PurchasesSound
  BY DEF MediaInvariant
<1> QED
  BY <1>1, MediaInvariantHolds, PTL

(* narration_budget, settle_receipt, cancel_media: what may be bought is   *)
(* funded exactly once, and the budget shows the charge of every call, or  *)
(* that it is not known.                                                   *)
THEOREM MoneyIsSound == Spec => []MoneySound
<1>1. MediaInvariant => MoneySound
  BY DEF MediaInvariant
<1> QED
  BY <1>1, MediaInvariantHolds, PTL

(* complete_stage, adopt_recovered_audio, observe_period: stages run and   *)
(* count only on top of the finished chain, and finished narrations have   *)
(* complete or adopted audio.                                              *)
THEOREM ResultsAreSound == Spec => []ResultsSound
<1>1. MediaInvariant => ResultsSound
  BY DEF MediaInvariant
<1> QED
  BY <1>1, MediaInvariantHolds, PTL

-----------------------------------------------------------------------------
(* Late answers.                                                           *)

(* A known charge that nothing contradicts is what settlement finds.       *)
LEMMA AmountIs ==
    ASSUME NEW a \in AttemptRecord, a.cost # None, ~Contradicted(a)
    PROVE  Amount(a) = a.cost
<1> DEFINE K == KnownAmounts(a)
<1>1. a.cost \in K /\ K \subseteq {a.cost, Price}
  BY DEF KnownAmounts
<1>2. IsFiniteSet({a.cost}) /\ IsFiniteSet({a.cost} \cup {Price})
  BY FS_Singleton, FS_AddElement
<1>3. IsFiniteSet(K)
  BY <1>1, <1>2, FS_Subset
<1>4. ASSUME Price \in K, Price # a.cost PROVE FALSE
  <2>1. K = {a.cost} \cup {Price}
    BY <1>1, <1>4
  <2>2. Cardinality({a.cost}) = 1
    BY FS_Singleton
  <2>3. Cardinality({a.cost} \cup {Price}) = Cardinality({a.cost}) + 1
    BY <1>2, <1>4, FS_AddElement
  <2> QED
    BY <2>1, <2>2, <2>3 DEF Contradicted
<1>5. K = {a.cost}
  BY <1>1, <1>4
<1> HIDE DEF K
<1>6. Amount(a) = IF K = {} THEN None ELSE CHOOSE m \in K : TRUE
  BY DEF Amount, K
<1> QED
  BY <1>5, <1>6

(* Late answers only settle money: a known charge stays, and only adoption *)
(* completes what was stopped.                                             *)
LEMMA LateStep ==
    ASSUME MediaInvariant, [Next]_vars, NEW c \in Paid
    PROVE  /\ attempt[c].cost # None => attempt'[c].cost = attempt[c].cost
           /\ stage[c].state \in {"held", "needs_attention", "cancelled"}
              /\ stage'[c].state = "succeeded" => Recoverable(c)
<1>0. c \in Stages /\ attempt[c] \in AttemptRecord /\ CallMoves(c) /\ Moves(c)
  BY PaidStage, CallEffects, StageEffects DEF MediaInvariant, TypeOK
<1>1. ASSUME attempt[c].cost # None
      PROVE  attempt'[c].cost = attempt[c].cost
  <2>1. Begun(c) /\ ~Granted(c)
    BY <1>1, EvidenceBegun, CallFacts DEF MediaInvariant
  <2>2. CASE Resolves(c)
    BY <1>0, <1>1, <2>2, AmountIs DEF Resolves
  <2> QED
    BY <1>0, <1>1, <2>1, <2>2
       DEF CallMoves, Rests, Reserves, Releases, Learns, Doubts, Charged
<1>2. ASSUME stage[c].state \in {"held", "needs_attention", "cancelled"},
             stage'[c].state = "succeeded"
      PROVE  Recoverable(c)
  BY <1>0, <1>2
     DEF Moves, Keeps, Starts, Waits, Fails, Finishes, Repeats, Adopts, Appears, FreshStage,
         NoStage, Ends, Returns
<1> QED
  BY <1>1, <1>2

(* settle_receipt, complete_stage: a known charge never changes, and what  *)
(* was stopped is only completed by an adoption of recovered audio.        *)
THEOREM LateAnswersHold == Spec => LateAnswersOnlyCharge
<1>1. MediaInvariant /\ [Next]_vars =>
        [\A c \in Paid :
            /\ attempt[c].cost # None => attempt'[c].cost = attempt[c].cost
            /\ stage[c].state \in {"held", "needs_attention", "cancelled"}
               /\ stage'[c].state = "succeeded" => Recoverable(c)]_vars
  BY LateStep
<1> QED
  BY <1>1, MediaInvariantHolds, PTL DEF Spec, LateAnswersOnlyCharge

-----------------------------------------------------------------------------
(* The pipeline.                                                           *)

(* A set of naturals has a least element.                                  *)
LEMMA LeastNatural ==
    ASSUME NEW T \in SUBSET Nat, T # {}
    PROVE  \E m \in T : \A k \in T : m <= k
<1> DEFINE R == StrictSubsetOrdering(Nat)
           F == FiniteSubsetsOf(Nat)
           U == {1 .. k : k \in T}
<1>1. IsWellFoundedOn(R, F)
  BY FS_StrictSubsetOrderingWellFounded
<1>2. \A k \in T : k \in Nat /\ 1 .. k \in F
  BY FS_Interval DEF FiniteSubsetsOf
<1>3. U \subseteq F /\ U # {}
  BY <1>2
<1>4. \E x \in U : \A y \in U : ~(<<y, x>> \in R)
  <2> HIDE DEF R, F, U
  <2> QED
    BY <1>1, <1>3, WFMin
<1>5. PICK m \in T : \A k \in T : <<1 .. k, 1 .. m>> \notin R
  BY <1>4
<1>6. ASSUME NEW k \in T, k < m PROVE FALSE
  <2>1. m \in Nat /\ k \in Nat /\ k < m
    BY <1>6
  <2>2. 1 .. k \subseteq 1 .. m /\ m \in 1 .. m /\ m \notin 1 .. k
    BY <2>1
  <2>3. 1 .. k \in SUBSET Nat /\ 1 .. m \in SUBSET Nat /\ 1 .. k # 1 .. m
    BY <2>1, <2>2
  <2> QED
    BY <1>5, <2>2, <2>3 DEF StrictSubsetOrdering
<1> QED
  BY <1>2, <1>6

(* A set of positions that is closed downwards is an interval.             *)
LEMMA Prefix ==
    ASSUME NEW n \in Nat, NEW F \in SUBSET (1 .. n),
           \A k \in F : k > 1 => k - 1 \in F
    PROVE  /\ Cardinality(F) \in 0 .. n
           /\ F = 1 .. Cardinality(F)
<1>0. F \subseteq Nat /\ \A k \in F : k >= 1
  OBVIOUS
<1> DEFINE G == (1 .. n + 1) \ F
<1>1. G \in SUBSET Nat /\ n + 1 \in G
  OBVIOUS
<1>2. PICK m \in G : \A k \in G : m <= k
  BY <1>1, LeastNatural
<1>3. m \in 1 .. n + 1 /\ m \notin F
  BY <1>2
<1>4. \A k \in 1 .. m - 1 : k \in F
  BY <1>2, <1>3
<1> DEFINE A == {k \in F : k > m}
<1>5. A = {}
  <2>1. ASSUME A # {} PROVE FALSE
    <3>1. A \in SUBSET Nat
      BY <1>0
    <3>2. PICK k \in A : \A j \in A : k <= j
      BY <2>1, <3>1, LeastNatural
    <3>3. k \in F /\ k > m /\ k \in Nat /\ m \in Nat /\ m >= 1
      BY <1>3, <3>2
    <3>4. k - 1 \in F
      BY <3>3
    <3>5. k - 1 = m \/ k - 1 \in A
      BY <3>3, <3>4
    <3> QED
      BY <1>3, <3>2, <3>3, <3>4, <3>5
  <2> QED
    BY <2>1
<1>6. F = 1 .. m - 1
  <2>1. ASSUME NEW k \in F PROVE k \in 1 .. m - 1
    <3>1. k \in Nat /\ k >= 1 /\ m \in Nat /\ k # m /\ ~(k > m)
      BY <1>0, <1>3, <1>5
    <3> QED
      BY <3>1
  <2> QED
    BY <1>4, <2>1
<1>7. Cardinality(1 .. m - 1) = m - 1
  BY <1>3, FS_Interval
<1> QED
  BY <1>3, <1>6, <1>7

(* The runs and the mapping of MediaPipeline.                             *)
PipelineRuns == Episodes \X Executions

(* The stages of a run by their position.                                  *)
LEMMA RunStage ==
    ASSUME NEW x \in PipelineRuns, NEW k \in Positions
    PROVE  /\ <<x[1], x[2], k>> \in Stages
           /\ <<x[1], x[2], k>>[1] = x[1] /\ <<x[1], x[2], k>>[2] = x[2]
           /\ <<x[1], x[2], k>>[3] = k
           /\ k \in Narrations <=> <<x[1], x[2], k>> \in Paid
           /\ k \in Nat /\ k >= 1
           /\ k > 1 => k - 1 \in Positions /\ Prior(<<x[1], x[2], k>>) = <<x[1], x[2], k - 1>>
  BY ConstantsAssumption
     DEF ConstantsAssumption, PipelineRuns, Stages, Paid, Positions, Narrations, Last, Prior

(* The finished stages of a run are its first ones.                        *)
LEMMA FinishedIs ==
    ASSUME ChainInOrder, NEW x \in PipelineRuns
    PROVE  /\ Cardinality(Finished(x)) \in 0 .. Last
           /\ Finished(x) = 1 .. Cardinality(Finished(x))
<1>1. Last \in Nat /\ Positions = 1 .. Last
  BY ConstantsAssumption DEF ConstantsAssumption, Last, Positions
<1>2. Finished(x) \in SUBSET (1 .. Last)
  BY <1>1 DEF Finished
<1>3. ASSUME NEW k \in Finished(x), k > 1
      PROVE  k - 1 \in Finished(x)
  <2>1. k \in Positions /\ stage[<<x[1], x[2], k>>].state = "succeeded"
    BY DEF Finished
  <2> QED
    BY <1>3, <2>1, RunStage DEF ChainInOrder, Finished
<1> QED
  BY <1>1, <1>2, <1>3, Prefix

(* The same of the next state.                                             *)
LEMMA FinishedNext ==
    ASSUME ChainInOrder', NEW x \in PipelineRuns
    PROVE  /\ Cardinality(Finished(x)') \in 0 .. Last
           /\ Finished(x)' = 1 .. Cardinality(Finished(x)')
<1>1. Last \in Nat /\ Positions = 1 .. Last
  BY ConstantsAssumption DEF ConstantsAssumption, Last, Positions
<1>2. Finished(x)' \in SUBSET (1 .. Last)
  BY <1>1 DEF Finished
<1>3. ASSUME NEW k \in Finished(x)', k > 1
      PROVE  k - 1 \in Finished(x)'
  <2>1. k \in Positions /\ stage'[<<x[1], x[2], k>>].state = "succeeded"
    BY DEF Finished
  <2> QED
    BY <1>3, <2>1, RunStage DEF ChainInOrder, Finished
<1> QED
  BY <1>1, <1>2, <1>3, Prefix

(* Finished work is only given up by a correction of the week, and then    *)
(* nothing of the run is left.                                             *)
LEMMA LostByFacts ==
    ASSUME MediaInvariant, [Next]_vars, NEW c \in Stages,
           stage[c].state = "succeeded", stage'[c].state # "succeeded"
    PROVE  FactsChanged(c[1])
<1>1. Moves(c) /\ Present(c) /\ (stage[c].aged => stage[c].state = "held")
      /\ c[1] \in Episodes /\ c[2] \in Executions /\ c[3] \in Positions
      /\ c = <<c[1], c[2], c[3]>>
  BY StageEffects, StageParts DEF MediaInvariant, Present, AgedWaits
<1>2. ~Appears(c)
  BY <1>1, Presence DEF Appears
<1>3. ~Repeats(c)
  <2>1. ASSUME Repeats(c) PROVE FALSE
    <3>1. PICK d \in RunOf(c) : d[3] <= c[3] /\ stage[d].state # "succeeded"
      BY <2>1 DEF Repeats
    <3> DEFINE x == <<c[1], c[2]>>
    <3>2. x \in PipelineRuns /\ x[1] = c[1] /\ x[2] = c[2]
      BY <1>1 DEF PipelineRuns
    <3>3. d \in Stages /\ d = <<x[1], x[2], d[3]>> /\ d[3] \in Positions
      BY <3>2, StageParts DEF RunOf
    <3> HIDE DEF x
    <3>4. c[3] \in Finished(x)
      BY <1>1, <3>2 DEF Finished
    <3>5. Finished(x) = 1 .. Cardinality(Finished(x)) /\ Cardinality(Finished(x)) \in Nat
      BY <3>2, FinishedIs DEF MediaInvariant, ResultsSound
    <3>6. d[3] \in Nat /\ d[3] >= 1 /\ c[3] \in Nat
      BY <1>1, <3>2, <3>3, RunStage
    <3>7. d[3] \in Finished(x)
      BY <3>1, <3>4, <3>5, <3>6
    <3> QED
      BY <3>1, <3>3, <3>7 DEF Finished
  <2> QED
    BY <2>1
<1> QED
  BY <1>1, <1>2, <1>3
     DEF Moves, Keeps, Starts, Waits, Fails, Finishes, Adopts, Recoverable, Ends, Returns

(* A correction of the week leaves nothing of the episode finished.        *)
LEMMA FactsIs ==
    ASSUME TypeOK, NEW e, FactsChanged(e), NEW c \in Stages, c[1] = e
    PROVE  stage'[c].state # "succeeded"
<1>1. \/ stage'[c] = stage[c] /\ stage[c].state = "absent"
      \/ stage'[c] = Ended(stage[c], "held")
  BY DEF FactsChanged, Stopped, Of
<1>2. stage[c] \in StageRecord
  BY DEF TypeOK
<1>3. Ended(stage[c], "held").state = "held"
  BY <1>2, MakersAre
<1> QED
  BY <1>1, <1>3

DoneOf(x) == Cardinality(Finished(x))
BoughtOf(x) == {k \in Narrations : Begun(<<x[1], x[2], k>>)}

(* Of the runs of a script, a step buys the next narration of one, or      *)
(* moves the finished part of some, and only a correction loses it.        *)
LEMMA RunStep ==
    ASSUME MediaInvariant, MediaInvariant', [Next]_vars, NEW x \in PipelineRuns
    PROVE  \/ DoneOf(x)' = DoneOf(x) /\ BoughtOf(x)' = BoughtOf(x)
           \/ \E k \in Narrations :
                /\ k = DoneOf(x) + 1 /\ k \notin BoughtOf(x)
                /\ BoughtOf(x)' = BoughtOf(x) \cup {k} /\ DoneOf(x)' = DoneOf(x)
           \/ /\ DoneOf(x)' \in 1 .. Last /\ DoneOf(x)' > DoneOf(x)
              /\ \A k \in Narrations : k <= DoneOf(x)' => k \in BoughtOf(x)
              /\ BoughtOf(x)' = BoughtOf(x)
           \/ DoneOf(x)' = 0 /\ BoughtOf(x)' = BoughtOf(x)
<1> DEFINE n == DoneOf(x)
           m == DoneOf(x)'
<1>1. /\ n \in 0 .. Last /\ Finished(x) = 1 .. n /\ m \in 0 .. Last /\ Finished(x)' = 1 .. m
      /\ Last \in Nat
  BY FinishedIs, FinishedNext, ConstantsAssumption
     DEF MediaInvariant, ResultsSound, DoneOf, ConstantsAssumption, Last
<1>2. \A k \in Narrations : k \in Positions /\ <<x[1], x[2], k>> \in Paid
  BY RunStage, ConstantsAssumption
     DEF ConstantsAssumption, Narrations, Positions, Last
<1> HIDE DEF n, m
<1>3. ASSUME NEW w \in Workers, Authorize(w), worker[w].at[1] = x[1], worker[w].at[2] = x[2]
      PROVE  \E k \in Narrations :
                /\ k = n + 1 /\ k \notin BoughtOf(x)
                /\ BoughtOf(x)' = BoughtOf(x) \cup {k} /\ m = n
  <2> DEFINE c == worker[w].at
             k == c[3]
  <2>1. c \in Paid /\ c \in Stages /\ stage[c].state = "running" /\ stage' = stage
        /\ ~Begun(c)
        /\ attempt' = [attempt EXCEPT ![c] = [NoAttempt EXCEPT !.state = "dispatching",
                                                               !.owner = w]]
    BY <1>3, PaidStage DEF Authorize, Holds, Begun
  <2>2. k \in Narrations /\ c = <<x[1], x[2], k>> /\ k \in Positions /\ k \in Nat /\ k >= 1
    BY <1>2, <1>3, <2>1, StageParts, RunStage DEF Paid, Narrations
  <2>3. m = n
    BY <2>1 DEF m, n, DoneOf, Finished
  <2>4. k \notin Finished(x)
    BY <2>1, <2>2 DEF Finished
  <2>5. k > 1 => k - 1 \in Finished(x)
    <3>1. ASSUME k > 1 PROVE k - 1 \in Finished(x)
      <4>1. stage[Prior(c)].state = "succeeded"
        BY <2>1, <3>1 DEF MediaInvariant, ResultsSound, ChainInOrder
      <4> QED
        BY <2>2, <3>1, <4>1, RunStage DEF Finished
    <3> QED
      BY <3>1
  <2>6. k = n + 1
    <3> HIDE DEF k
    <3> QED
      BY <1>1, <2>2, <2>4, <2>5
  <2>7. \A d \in Paid : Begun(d)' <=> Begun(d) \/ d = c
    BY <2>1 DEF Begun, MediaInvariant, TypeOK, NoAttempt
  <2>8. \A j \in Narrations : <<x[1], x[2], j>> = c <=> j = k
    BY <2>2
  <2>9. BoughtOf(x)' = BoughtOf(x) \cup {k} /\ k \notin BoughtOf(x)
    BY <1>2, <2>1, <2>2, <2>7, <2>8 DEF BoughtOf, Begun
  <2> QED
    BY <2>2, <2>3, <2>6, <2>9
<1>4. ASSUME ~\E w \in Workers : Authorize(w) /\ worker[w].at[1] = x[1] /\ worker[w].at[2] = x[2]
      PROVE  BoughtOf(x)' = BoughtOf(x)
  <2>1. ASSUME NEW k \in Narrations
        PROVE  Begun(<<x[1], x[2], k>>)' <=> Begun(<<x[1], x[2], k>>)
    <3>1. <<x[1], x[2], k>> \in Paid /\ ~Granted(<<x[1], x[2], k>>)
      BY <1>2, <1>4 DEF Granted
    <3> QED
      BY <3>1, CallFacts
  <2> QED
    BY <2>1 DEF BoughtOf, Begun
<1>5. ASSUME BoughtOf(x)' = BoughtOf(x), m > n
      PROVE  /\ m \in 1 .. Last
             /\ \A k \in Narrations : k <= m => k \in BoughtOf(x)
  <2>1. m \in 1 .. Last
    BY <1>1, <1>5
  <2>2. ASSUME NEW k \in Narrations, k <= m
        PROVE  k \in BoughtOf(x)
    <3> DEFINE c == <<x[1], x[2], k>>
    <3>1. c \in Paid /\ k \in Positions /\ k \in Nat /\ k >= 1
      BY <1>2, RunStage
    <3>2. stage'[c].state = "succeeded"
      <4>1. k \in Finished(x)'
        BY <1>1, <2>2, <3>1
      <4> QED
        BY <4>1 DEF Finished
    <3>3. Begun(c)'
      BY <3>1, <3>2, ConstantsAssumption
         DEF ConstantsAssumption, MediaInvariant, ResultsSound, SelectedAudio, NoTrace, NoAttempt,
             Begun
    <3>4. k \in BoughtOf(x)'
      BY <3>3 DEF BoughtOf, Begun
    <3> QED
      BY <1>5, <3>4
  <2> QED
    BY <2>1, <2>2
<1>6. ASSUME m < n PROVE m = 0
  <2> DEFINE c == <<x[1], x[2], n>>
  <2>1. n \in Finished(x) /\ n \notin Finished(x)' /\ n \in Positions
    BY <1>1, <1>6 DEF Positions
  <2>2. stage[c].state = "succeeded" /\ stage'[c].state # "succeeded" /\ c \in Stages /\ c[1] = x[1]
    BY <2>1, RunStage DEF Finished
  <2>3. FactsChanged(x[1])
    BY <2>2, LostByFacts
  <2>4. \A k \in Positions : stage'[<<x[1], x[2], k>>].state # "succeeded"
    BY <2>3, FactsIs, RunStage DEF MediaInvariant
  <2>5. Finished(x)' = {}
    BY <2>4 DEF Finished
  <2> QED
    BY <1>1, <2>5
<1>7. n = DoneOf(x) /\ m = DoneOf(x)'
  BY DEF n, m
<1>8. m = n \/ m > n \/ m < n
  BY <1>1
<1> QED
  BY <1>3, <1>4, <1>5, <1>6, <1>7, <1>8

(* The runs start with nothing finished and nothing bought.                *)
LEMMA PipelineInit == Init => Pipeline!Init
<1> SUFFICES ASSUME Init, NEW x \in PipelineRuns
             PROVE  DoneOf(x) = 0 /\ BoughtOf(x) = {}
  BY DEF Pipeline!Init, DoneOf, BoughtOf, PipelineRuns
<1>1. MediaInvariant
  BY InitSound
<1>2. \A k \in Positions : stage[<<x[1], x[2], k>>].state # "succeeded"
  BY RunStage DEF Init, FreshStage, NoStage
<1>3. Finished(x) = {}
  BY <1>2 DEF Finished
<1>4. \A k \in Narrations : ~Begun(<<x[1], x[2], k>>)
  <2>1. \A k \in Narrations : k \in Positions
    BY ConstantsAssumption DEF ConstantsAssumption, Narrations, Positions, Last
  <2> QED
    BY <2>1, RunStage DEF Init, Begun, NoAttempt
<1> QED
  BY <1>3, <1>4, FS_EmptySet DEF DoneOf, BoughtOf

(* Every step of the code is a step of the promise, or none.               *)
LEMMA PipelineStep ==
    ASSUME MediaInvariant, MediaInvariant', [Next]_vars
    PROVE  [Pipeline!Next]_(Pipeline!vars)
<1> SUFFICES ASSUME NEW x \in PipelineRuns
             PROVE  \/ Pipeline!Rest(x) \/ (\E k \in Narrations : Pipeline!Buy(x, k))
                    \/ Pipeline!Advance(x) \/ Pipeline!Correct(x)
  BY DEF Pipeline!Next, PipelineRuns
<1>1. \/ DoneOf(x)' = DoneOf(x) /\ BoughtOf(x)' = BoughtOf(x)
      \/ \E k \in Narrations :
            /\ k = DoneOf(x) + 1 /\ k \notin BoughtOf(x)
            /\ BoughtOf(x)' = BoughtOf(x) \cup {k} /\ DoneOf(x)' = DoneOf(x)
      \/ /\ DoneOf(x)' \in 1 .. Last /\ DoneOf(x)' > DoneOf(x)
         /\ \A k \in Narrations : k <= DoneOf(x)' => k \in BoughtOf(x)
         /\ BoughtOf(x)' = BoughtOf(x)
      \/ DoneOf(x)' = 0 /\ BoughtOf(x)' = BoughtOf(x)
  BY RunStep
<1> QED
  BY <1>1
     DEF Pipeline!Rest, Pipeline!Buy, Pipeline!Advance, Pipeline!Correct, DoneOf, BoughtOf,
         PipelineRuns

(* MediaStages implements MediaPipeline: stages finish in order, each      *)
(* narration is bought once and on top of what is finished, and only a     *)
(* correction of the week undoes finished work, all of it.                 *)
THEOREM PipelineIsKept == Spec => PipelineSpec
<1>1. Init => Pipeline!Init
  BY PipelineInit
<1>2. MediaInvariant /\ MediaInvariant' /\ [Next]_vars => [Pipeline!Next]_(Pipeline!vars)
  BY PipelineStep
<1> QED
  BY <1>1, <1>2, MediaInvariantHolds, PTL DEF Spec, PipelineSpec, Pipeline!Spec
===============================================================================
