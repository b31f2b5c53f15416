---------------------------- MODULE MCPublication ----------------------------
(* Small instances of Publication. A scenario bounds what happens together; *)
(* all scenarios start in the same state and have the same properties.      *)
EXTENDS Publication

VARIABLE scenario

(* Members decide while reviews for both audiences wait to be used.         *)
Sharing == INSTANCE Publication WITH
    Gates <- {TRUE}, MaxRevisions <- 1, MaxFacts <- 1, MaxSource <- 1, MaxSettings <- 1,
    MaxFuture <- 0, MaxRetries <- 0

(* The league's permission, the settings, the source and the gate change.   *)
Permissions == INSTANCE Publication WITH
    Audiences <- {"public"}, MaxRevisions <- 1, MaxFacts <- 1, MaxSource <- 2,
    MaxApprovals <- 1, MaxRetries <- 0

(* The article is revised and its facts change between two reviews.         *)
Corrections == INSTANCE Publication WITH
    Audiences <- {"members"}, Gates <- {TRUE}, MaxRevisions <- 2, MaxSource <- 2, MaxSettings <- 1,
    MaxShare <- 0, MaxFuture <- 0, MaxRetries <- 0

(* A corrected article's video is resumed and reviewed by the API, while    *)
(* members share the edition and another article follows.                   *)
Resumption == INSTANCE Publication WITH
    Audiences <- {"members"}, Gates <- {TRUE}, MaxSource <- 2, MaxSettings <- 1, MaxShare <- 1,
    MaxFuture <- 0, MaxApprovals <- 1, MaxRetries <- 0

(* Articles are overtaken, left half projected, and retried.                *)
Projections == INSTANCE Publication WITH
    MaxSettings <- 1, MaxShare <- 1, MaxFuture <- 0, MaxApprovals <- 0

ScenarioInit == Init /\ scenario \in {"sharing", "permissions", "corrections", "resumption", "projections"}
ScenarioNext ==
    /\ UNCHANGED scenario
    /\ \/ scenario = "sharing" /\ Sharing!Next
       \/ scenario = "permissions" /\ Permissions!Next
       \/ scenario = "corrections" /\ Corrections!Next
       \/ scenario = "resumption" /\ Resumption!Next
       \/ scenario = "projections" /\ Projections!Next

ScenarioSpec == ScenarioInit /\ [][ScenarioNext]_<<vars, scenario>> /\ Fairness
===============================================================================
