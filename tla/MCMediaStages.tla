---------------------------- MODULE MCMediaStages ----------------------------
(* Small instances of MediaStages. A scenario restricts the answers,       *)
(* decisions and workers that occur together; all scenarios start in the   *)
(* same state and have the same properties.                                *)
EXTENDS MediaStages, TLC

CONSTANTS w1, w2,
          Scenarios  \* the scenarios of a run

VARIABLE scenario

(* Two workers crash, lose leases and answers, and look answers up.        *)
Narration == INSTANCE MediaStages WITH
    Answers <- {"ok", "unmetered", "lost"}, Decisions <- {"recover"},
    MaxFailures <- 0, MaxGeneration <- 2

(* Recovered audio is adopted, or the video is skipped.                    *)
Adoption == INSTANCE MediaStages WITH
    Workers <- {w1}, Answers <- {"ok", "broken", "rejected", "lost"},
    Decisions <- {"recover", "adopt", "skip"}, MaxFailures <- 0

(* Calls are given up for lost, and the script is bought again.            *)
Replacement == INSTANCE MediaStages WITH
    Workers <- {w1}, Answers <- {"broken", "unpriced", "denied", "lost"},
    Decisions <- {"recover", "adopt", "replace", "invoice", "reset"},
    MaxFailures <- 0, MaxGeneration <- 2

(* The week is corrected while two workers hold late answers.              *)
Corrections == INSTANCE MediaStages WITH
    Answers <- {"broken"}, MaxFailures <- 0,
    Decisions <- {"reassign", "recover", "adopt", "resume", "facts"}

(* The free stages fail, wait, and are resumed.                            *)
Film == INSTANCE MediaStages WITH
    Workers <- {w1}, Answers <- {"ok"}, Decisions <- {"resume", "dependency"}

ScenarioInit == Init /\ scenario \in Scenarios
ScenarioNext ==
    /\ UNCHANGED scenario
    /\ \/ scenario = "narration" /\ Narration!Next
       \/ scenario = "adoption" /\ Adoption!Next
       \/ scenario = "replacement" /\ Replacement!Next
       \/ scenario = "corrections" /\ Corrections!Next
       \/ scenario = "film" /\ Film!Next

ScenarioSpec == ScenarioInit /\ [][ScenarioNext]_<<vars, scenario>>

Symmetry == Permutations(Workers)
===============================================================================
