-------------------------- MODULE MCGenerationLedger --------------------------
(* Small instances of GenerationLedger.                                    *)
EXTENDS GenerationLedgerInvariant, TLC

CONSTANTS j1, j2, j3, w1, w2, u1, u2

(* j1 and j2 are two jobs for one subject, j3 is for another.              *)
Subject == [j \in Jobs |-> IF j = j3 THEN u2 ELSE u1]

AtMostTwoJobs == Cardinality({j \in Jobs : job[j].state # "absent"}) <= 2

(* Workers are interchangeable, and so are the two jobs for one subject.   *)
WorkerSymmetry == Permutations(Workers)
PairSymmetry ==
    {p @@ q : p \in Permutations(Workers), q \in Permutations({j1, j2})}
===============================================================================
