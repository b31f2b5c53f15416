---------------------- MODULE GenerationLedgerInvariant ----------------------
(***************************************************************************)
(* The inductive invariant of GenerationLedger: what the safety properties *)
(* rest on. TLC checks it on small instances, GenerationLedgerProofs       *)
(* proves it.                                                              *)
(***************************************************************************)
EXTENDS GenerationLedger

Sending == {"send", "answered", "saved"}

(* A call and its allocation: submitted exactly once if it has an attempt, *)
(* bound exactly then, and both with the same amount. A price is only      *)
(* known from a settled answer; an answer still to be settled belongs to a *)
(* call nobody has decided otherwise, or to one declared not sent, and a   *)
(* call counts as answered only by its settled answer.                     *)
CallSound(j, s) ==
    LET a == attempt[j][s] IN
    /\ sends[j][s] = IF a.state = "none" THEN 0 ELSE 1
    /\ a.state = "none" <=> alloc[j][s].phase # "bound"
    /\ a.state = "none" => a = NoAttempt
    /\ a.state # "none" => a.cost = alloc[j][s].actual
    /\ a.settled => a.receipt # None
    /\ a.usage = "known" =>
            a.state = "received" /\ a.settled /\ a.cost # None /\ a.receipt.price = a.cost
    /\ Saved(j, s) => a.state \in UnresolvedOutcomes \cup {"not_sent"}
    /\ a.state = "not_sent" => a.cost # None
    /\ a.state \in {"received", "rejected"} => a.settled /\ a.state = StateOf(a.receipt)

CallsSound == \A j \in Jobs, s \in Stages : CallSound(j, s)

(* The attempts of a job are its first stages, counted by "calls".         *)
JobCounted(j) ==
    /\ job[j].calls <= MaxCalls
    /\ job[j].state = "absent" => job[j].calls = 0
    /\ \A s \in Stages : attempt[j][s].state # "none" <=> s <= job[j].calls

CallsCounted == \A j \in Jobs : JobCounted(j)

(* What a worker remembers is backed by the database: its fence was given  *)
(* out, and the call it waits for is still open.                           *)
WorkerSound(w) ==
    LET m == worker[w]
        a == attempt[m.job][m.stage] IN
    /\ m.pc \in Holding => /\ m.job \in Jobs /\ m.fence <= job[m.job].fence
                           /\ job[m.job].state # "absent"
    /\ m.pc \in Sending \cup {"settled"} => m.stage \in Stages
    /\ m.pc \in {"send", "answered"} =>
            a.state \in Unresolved /\ a.receipt = None /\ ~a.settled
    /\ m.pc = "answered" => m.receipt # None
    /\ m.pc = "saved" => a.receipt # None
    /\ \A t \in m.todo : attempt[t[1]][t[2]].receipt # None

WorkersSound == \A w \in Workers : WorkerSound(w)

(* Two workers hold no job under the same fence and wait for no call       *)
(* together.                                                               *)
Apart(v, w) ==
    worker[v].job = worker[w].job =>
        /\ worker[v].pc \in Holding /\ worker[w].pc \in Holding =>
                worker[v].fence # worker[w].fence
        /\ worker[v].pc \in Sending /\ worker[w].pc \in Sending =>
                worker[v].stage # worker[w].stage

WorkersApart == \A v, w \in Workers : v # w => Apart(v, w)

(* Everything the theorems about GenerationLedger need, as one invariant.  *)
LedgerInvariant ==
    /\ TypeOK
    /\ CallsSound
    /\ CallsCounted
    /\ WorkersSound
    /\ WorkersApart
    /\ PublishedIsPaidInFull
    /\ NoStrandedReserve
    /\ NoBlindReplacement
===============================================================================
