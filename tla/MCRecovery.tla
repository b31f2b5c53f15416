------------------------------ MODULE MCRecovery ------------------------------
(* The writing and the media of an episode under failures, one of them in  *)
(* a behaviour: both are small, and each has its own fairness.             *)
EXTENDS GenerationLedger

CONSTANTS u1, w1, Episodes, Chunks, Revisions, Price, MediaAnswers, Decisions,
          MaxFailures, MaxGeneration, MaxLookups

VARIABLES part, media_stage, media_attempt, media_alloc, envelope, waived,
          media_account, lookup, media_worker, media_sends

mediaVars == <<media_stage, media_attempt, media_alloc, envelope, waived,
               media_account, lookup, media_worker, media_sends>>

Subject == [j \in Jobs |-> u1]

(* Nothing but failures keeps saved answers and outcomes open.             *)
Media == INSTANCE MediaStages WITH
    stage <- media_stage, attempt <- media_attempt, alloc <- media_alloc,
    account <- media_account, worker <- media_worker, sends <- media_sends,
    Workers <- {w1}, Answers <- MediaAnswers, Invoices <- {}

EitherInit == Init /\ Media!Init /\ part \in {"writing", "media"}
EitherNext ==
    \/ part = "writing" /\ Next /\ UNCHANGED <<part, mediaVars>>
    \/ part = "media" /\ Media!Next /\ UNCHANGED <<part, vars>>

(* The fairness of GenerationLedger!FairSpec or that of MediaStages, each  *)
(* only while its part runs: a conjunction of fair actions would otherwise *)
(* ask the part that was not chosen to move.  The reasons are given there. *)
Writing(A) == part = "writing" /\ A
Filming(A) == part = "media" /\ A
EitherFairness ==
    /\ \A w \in Workers : /\ WF_vars(Writing(WorkerStep(w)))
                          /\ SF_vars(Writing(ReconcileReceipt(w)))
                          /\ SF_vars(Writing(Claim(w)))
    /\ WF_mediaVars(Filming(Media!Claim(w1)))
    /\ WF_mediaVars(Filming(Media!Step(w1) \/ Media!Forget(w1)))
    /\ \A c \in Media!Stages : WF_mediaVars(Filming(Media!Orphaned(c)))
    /\ \A c \in Media!Paid : WF_mediaVars(Filming(Media!Receipting(c)))

EitherSpec == EitherInit /\ [][EitherNext]_<<vars, mediaVars, part>> /\ EitherFairness

(* A usage receipt that was saved is charged in the end, whatever failed    *)
(* while it was being settled: see MediaStages.                            *)
ReceiptsSettle == Media!ReceiptsSettle

(* A media call of unknown outcome is decided: it is recovered, found not  *)
(* to have been made, or left to the operator.  See MediaStages.           *)
OutcomesDecided == Media!OutcomesDecided
===============================================================================
