---------------------------- MODULE MediaPipeline ----------------------------
(***************************************************************************)
(* What the media checkpoints promise for every run of a script: its       *)
(* stages are finished in order, each narration is bought once and only    *)
(* when all before it are finished, nothing is finished unbought, and      *)
(* finished work is only ever given up as a whole, by a correction of the  *)
(* week. MediaStages implements it.                                        *)
(***************************************************************************)
EXTENDS Integers

CONSTANTS Runs, Narrations, Last

VARIABLES
    done,    \* of each run: how many stages are finished
    bought   \* of each run: the narrations bought

vars == <<done, bought>>

Init == \A x \in Runs : done[x] = 0 /\ bought[x] = {}

Rest(x) == done'[x] = done[x] /\ bought'[x] = bought[x]

Buy(x, k) ==
    /\ k = done[x] + 1 /\ k \notin bought[x]
    /\ bought'[x] = bought[x] \cup {k} /\ done'[x] = done[x]

Advance(x) ==
    /\ done'[x] \in 1 .. Last /\ done'[x] > done[x]
    /\ \A k \in Narrations : k <= done'[x] => k \in bought[x]
    /\ bought'[x] = bought[x]

Correct(x) == done'[x] = 0 /\ bought'[x] = bought[x]

Next ==
    \A x \in Runs :
        Rest(x) \/ (\E k \in Narrations : Buy(x, k)) \/ Advance(x) \/ Correct(x)

Spec == Init /\ [][Next]_vars
===============================================================================
