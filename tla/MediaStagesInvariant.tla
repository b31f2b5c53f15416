------------------------- MODULE MediaStagesInvariant -------------------------
(***************************************************************************)
(* The inductive invariant of MediaStages. What readers of the properties  *)
(* ask (PurchasesSound, MoneySound, ResultsSound) is not kept by every     *)
(* step on its own: it rests on what a run of a script looks like, on what *)
(* a worker that was given authority still remembers, and on what the      *)
(* evidence of a call says.                                                *)
(***************************************************************************)
EXTENDS MediaStages

Present(c) == stage[c].state # "absent"

(* start_media and approve_replacement make a run with all its stages, and *)
(* the runs of an episode one after the other.                             *)
RunsWhole ==
    /\ \A c, d \in Stages : d \in RunOf(c) => (Present(c) <=> Present(d))
    /\ \A e \in Episodes : \E r \in Executions : \A q \in Executions :
            Present(<<e, q, 1>>) <=> q <= r

(* Before its authority a call leaves no trace, and only a stage of a run  *)
(* that exists is ever authorized.                                         *)
NoTrace ==
    \A c \in Paid : ~Begun(c) => attempt[c] = NoAttempt /\ sends[c] = 0

BegunInRun == \A c \in Paid : Begun(c) => Present(c)

(* Only work that was not begun waits for the next preflight.              *)
AgedWaits ==
    \A c \in Stages : stage[c].aged => stage[c].state = "held"
                                       /\ (c \in Paid => ~Begun(c))

(* A replaced revision buys nothing: not now, and not after a preflight.   *)
ReplacedClosed ==
    \A c \in Paid : c[2] # Latest(c[1]) =>
        stage[c].state \notin {"queued", "running"} /\ ~stage[c].aged

(* Between its authority and the answer a worker is the only one that may  *)
(* send the request, which was not sent before.                            *)
OnlySender ==
    /\ \A w \in Workers : worker[w].pc \notin {"idle", "leased"} => worker[w].at \in Paid
    /\ \A w \in Workers : worker[w].pc = "authorized" =>
            Begun(worker[w].at) /\ sends[worker[w].at] = 0
    /\ \A v, w \in Workers :
            worker[v].pc = "authorized" /\ worker[w].pc = "authorized"
            /\ worker[v].at = worker[w].at => v = w

(* A call without a complaint was answered in full, and that was settled.  *)
CleanIsComplete ==
    \A c \in Paid : attempt[c].state = "received" /\ attempt[c].error = "none" =>
        attempt[c].receipt = "ok" /\ attempt[c].settled

(* Narrations are bought in the order of the script.                       *)
BoughtInOrder == \A c \in Paid : Begun(c) /\ c[3] > 1 => Begun(Prior(c))

(* What a preflight may return to the queue has its money, too.            *)
AgedFunded ==
    \A c \in Paid : stage[c].aged =>
        \/ c[2] = 1 /\ envelope[c[1]] = "reserved"
        \/ alloc[c].phase = "reserved" /\ alloc[c].actual = None

MediaInvariant ==
    /\ TypeOK /\ RunsWhole /\ NoTrace /\ BegunInRun /\ AgedWaits /\ ReplacedClosed
    /\ OnlySender /\ CleanIsComplete /\ BoughtInOrder /\ AgedFunded
    /\ PurchasesSound /\ MoneySound /\ ResultsSound
===============================================================================
