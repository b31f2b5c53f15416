-------------------------- MODULE GenerationRestore --------------------------
(***************************************************************************)
(* Restores.  A backup is older than what happened since: calls were sent, *)
(* members opted out, editions were withdrawn.  The operator quarantines   *)
(* every service under a fresh epoch, exports what the current database    *)
(* says, loads the backup into an empty database, reconciles the two,      *)
(* reopens reading and, as a separate step, writing.                       *)
(*                                                                         *)
(* The services use one database, "live" or "restored", and a deployment   *)
(* configuration.  A restore and its reconciliation are one transaction,   *)
(* every other step is one too.  The configuration of all services changes *)
(* at once, as the procedure asks (docs/recap-video-operations.md).        *)
(*                                                                         *)
(* Simplifications.  There is one edition with its share decision.  A job  *)
(* is one paid call, a job of another candidate another member of Jobs.    *)
(* Evidence is pinned with the export it describes and belongs to one      *)
(* quarantine; digests are the values they are of.  Whether the objects of *)
(* the private store survived is any answer.  The operator passes the      *)
(* digest of the report in force.                                          *)
(***************************************************************************)
EXTENDS Integers, FiniteSets

CONSTANTS Jobs,         \* of which a number is never used again
          MaxEpoch, MaxRevision, MaxArticle, MaxRestores  \* bounds

RestoreAssumption == {MaxEpoch, MaxRevision, MaxArticle, MaxRestores} \subseteq Nat \ {0}

Epochs == 1 .. MaxEpoch
Unwritten == [exported |-> FALSE]
NoReport == [reconciled |-> FALSE]

VARIABLES config,    \* of the deployment
          evidence,  \* the export whose digest is pinned
          database,  \* the contents of the databases
          active,    \* the database the services use
          backup,    \* the last backup
          truth,     \* what members and owners decided last
          sent       \* how often each job was sent

restoreVars == <<config, evidence, database, active, backup, truth, sent>>

Empty == [epoch |-> 0]

Init ==
  /\ config = [mode |-> "database", restore |-> 0, epoch |-> 1, emergency |-> FALSE, restores |-> 0]
  /\ evidence = Unwritten
  /\ database = [live |-> [epoch |-> 1, hold |-> "",
                           job |-> [j \in Jobs |-> "none"], ledger |-> [j \in Jobs |-> "none"],
                           share |-> [revision |-> 1, allowed |-> TRUE, opted |-> FALSE, token |-> 1],
                           row |-> [enabled |-> TRUE, withdrawn |-> FALSE, held |-> FALSE,
                                    share |-> 1, authority |-> 1, article |-> 1, epoch |-> 1],
                           serving |-> [epoch |-> 1, quarantined |-> FALSE],
                           reports |-> [e \in Epochs |-> NoReport]],
                 restored |-> Empty]
  /\ active = "live"
  /\ backup = Empty
  /\ truth = [allowed |-> TRUE, token |-> 1, withdrawn |-> FALSE, article |-> 1,
               issued |-> {}, cancelled |-> {}]
  /\ sent = [j \in Jobs |-> 0]

db == database[active]

-----------------------------------------------------------------------------
(* The gates.                                                              *)

\* require_external_quarantine
Quarantine == config.mode = "quarantine" /\ config.emergency /\ config.restore = config.epoch

\* require_restore_report
Reported(d) ==
  /\ config.restore # 0
  /\ d.reports[config.restore].reconciled
  /\ d.reports[config.restore].evidence = evidence
  /\ config.epoch = config.restore

\* serving_gate
Serves(d) ==
  /\ config.restore # 0 => Reported(d)
  /\ config.mode = "database" /\ ~d.serving.quarantined
  /\ d.hold # "restore_quarantine" /\ d.serving.epoch = config.epoch

\* The gateway's conditions of a call.
Executes(d) == d.hold = "" /\ d.epoch = config.epoch /\ ~config.emergency

\* authorize_public_read: whether the link shows the edition.
Shows(d) ==
  /\ Serves(d)
  /\ d.share.allowed /\ ~d.share.opted
  /\ d.row.enabled /\ d.row.share = d.share.revision /\ d.row.epoch = config.epoch
  /\ ~d.row.withdrawn /\ ~d.row.held

-----------------------------------------------------------------------------
(* The services.                                                           *)

\* change_share
ChangeShare(enabled) ==
  LET n == db.share.revision + 1 IN
  /\ Serves(db) /\ n <= MaxRevision
  /\ enabled => ~db.share.allowed \/ db.share.opted
  /\ database' = [database EXCEPT
       ![active].share = [revision |-> n, allowed |-> enabled, opted |-> ~enabled,
                          token |-> IF enabled THEN n ELSE 0],
       ![active].row.share = n, ![active].row.authority = @ + 1]
  /\ truth' = [truth EXCEPT !.allowed = enabled, !.token = IF enabled THEN n ELSE 0]
  /\ UNCHANGED <<config, evidence, active, backup, sent>>

\* withdraw_edition
Withdraw ==
  /\ Serves(db) /\ ~db.row.withdrawn
  /\ database' = [database EXCEPT ![active].row.withdrawn = TRUE, ![active].row.authority = @ + 1]
  /\ truth' = [truth EXCEPT !.withdrawn = TRUE]
  /\ UNCHANGED <<config, evidence, active, backup, sent>>

\* A corrected edition is selected and projected (see Publication).
Correct ==
  /\ Serves(db) /\ Executes(db) /\ db.row.withdrawn /\ db.row.article < MaxArticle
  /\ database' = [database EXCEPT
       ![active].row.article = @ + 1, ![active].row.authority = @ + 1, ![active].row.held = FALSE,
       ![active].row.enabled = TRUE, ![active].row.withdrawn = FALSE,
       ![active].row.share = db.share.revision]
  /\ truth' = [truth EXCEPT !.withdrawn = FALSE, !.article = db.row.article + 1]
  /\ UNCHANGED <<config, evidence, active, backup, sent>>

\* authorize_candidate: a new job.
Authorize(j) ==
  /\ db.hold = "" /\ j \notin truth.issued
  /\ database' = [database EXCEPT ![active].job[j] = "queued"]
  /\ truth' = [truth EXCEPT !.issued = @ \cup {j}]
  /\ UNCHANGED <<config, evidence, active, backup, sent>>

\* A worker takes the job, records the call and sends it.
Send(j) ==
  /\ db.job[j] = "queued" /\ Executes(db)
  /\ database' = [database EXCEPT ![active].job[j] = "running", ![active].ledger[j] = "dispatching"]
  /\ sent' = [sent EXCEPT ![j] = @ + 1]
  /\ UNCHANGED <<config, evidence, active, backup, truth>>

\* An answer is recorded, at any time; a restored receipt is settled later.
Receive(j) ==
  /\ db.ledger[j] \in {"dispatching", "unknown"}
  /\ database' = [database EXCEPT ![active].job[j] = IF @ = "running" THEN "done" ELSE @,
                                  ![active].ledger[j] = "received"]
  /\ UNCHANGED <<config, evidence, active, backup, truth, sent>>

\* cancel
CancelJob(j) ==
  /\ db.job[j] = "queued"
  /\ database' = [database EXCEPT ![active].job[j] = "cancelled"]
  /\ truth' = [truth EXCEPT !.cancelled = @ \cup {j}]
  /\ UNCHANGED <<config, evidence, active, backup, sent>>

RestoreHolds == {"restore_quarantine", "restore_reconciled"}

\* control_action
(* A fault: a pause takes the place of a restore's hold.                   *)
FaultyPause ==
  /\ db.hold # "owner_paused"
  /\ database' = [database EXCEPT ![active].hold = "owner_paused"]
  /\ UNCHANGED <<config, evidence, active, backup, truth, sent>>

Pause ==
  /\ db.hold = ""
  /\ database' = [database EXCEPT ![active].hold = "owner_paused"]
  /\ UNCHANGED <<config, evidence, active, backup, truth, sent>>

\* The calls of a ledger, those in flight being of unknown outcome.
Financial(d) == [j \in Jobs |-> IF d.ledger[j] = "dispatching" THEN "unknown" ELSE d.ledger[j]]

Activate(resume) ==
  /\ db.hold # "" \/ db.epoch # config.epoch
  /\ db.hold \in RestoreHolds =>
       /\ db.epoch # config.epoch
       /\ Reported(db) /\ db.reports[config.restore].financial = Financial(db)
  /\ resume => db.epoch = config.epoch
  /\ database' = [database EXCEPT ![active].hold = "", ![active].epoch = config.epoch]
  /\ UNCHANGED <<config, evidence, active, backup, truth, sent>>

-----------------------------------------------------------------------------
(* The operator.                                                           *)

\* A snapshot and the epochs its manifest names.
Backup ==
  /\ config.mode = "database" /\ backup' = db /\ backup' # backup
  /\ UNCHANGED <<config, evidence, database, active, truth, sent>>

\* Every service is configured anew and restarted.  What an earlier restore
\* left unused is dropped.
Enter(epoch) ==
  /\ config.mode = "database" /\ config.restores < MaxRestores
  /\ config' = [mode |-> "quarantine", restore |-> epoch, epoch |-> epoch, emergency |-> TRUE,
                restores |-> config.restores + 1]
  /\ evidence' = Unwritten
  /\ database' = [live |-> db, restored |-> Empty] /\ active' = "live"
  /\ UNCHANGED <<backup, truth, sent>>

\* export_restore_authority, when the current database can still be read.
\* The code does not ask, but the operator never exports a restored database
\* that was not reconciled: it would be evidence for itself.
Export ==
  /\ Quarantine /\ db.hold # "restore_quarantine"
  /\ evidence' = [exported |-> TRUE, share |-> db.share, row |-> db.row, financial |-> Financial(db)]
  /\ UNCHANGED <<config, database, active, backup, truth, sent>>

\* quarantine.  Restored paid work stays held: job_action refuses to resume it.
Quarantined(d) ==
  [d EXCEPT !.hold = "restore_quarantine",
            !.job = [j \in Jobs |-> IF @[j] \in {"queued", "running"} THEN "restored" ELSE @[j]],
            !.ledger = Financial(d),
            !.serving.quarantined = TRUE]

Decided(share, current) ==
  IF current # Unwritten /\ current.share.revision >= share.revision THEN current.share
  ELSE [share EXCEPT !.allowed = FALSE, !.token = 0, !.revision = @ + 1]

Rebound(row, current) ==
  IF \/ current = Unwritten \/ current.row.authority < row.authority \/ current.row.article # row.article
  THEN [row EXCEPT !.enabled = FALSE, !.held = TRUE]
  ELSE [current.row EXCEPT !.epoch = row.epoch]

\* reconcile_restore with a file of evidence, or with none.
Reconciled(d, current, intact) ==
  [d EXCEPT
    !.share = Decided(@, current),
    !.row = Rebound(@, current),
    !.serving.quarantined = TRUE,
    !.reports[config.restore] =
       [reconciled |-> current # Unwritten /\ intact /\ current.financial = Financial(d),
        evidence |-> evidence, financial |-> Financial(d)]]

Fresh(d) == d # Empty /\ config.restore \notin {d.epoch, d.serving.epoch}

\* restore.py: the target is another, empty database.
Restore(current, intact) ==
  /\ Quarantine /\ Fresh(backup) /\ database.restored = Empty
  /\ database' = [database EXCEPT !.restored = Reconciled(Quarantined(backup), current, intact)]
  /\ UNCHANGED <<config, evidence, active, backup, truth, sent>>

\* recap_maintenance.py reconcile, with the manifest of the same backup.
Reconcile(current, intact) ==
  /\ Quarantine /\ database.restored # Empty /\ Fresh(backup)
  /\ database.restored.share.revision <= MaxRevision
  /\ database' = [database EXCEPT !.restored = Reconciled(@, current, intact)]
  /\ UNCHANGED <<config, evidence, active, backup, truth, sent>>

\* reopen_restore: reading, not writing.
Reopen ==
  /\ Quarantine /\ database.restored # Empty /\ Reported(database.restored)
  /\ database' = [database EXCEPT !.restored.serving = [epoch |-> config.restore, quarantined |-> FALSE],
                                  !.restored.hold = "restore_reconciled",
                                  !.restored.row.epoch = config.restore]
  /\ UNCHANGED <<config, evidence, active, backup, truth, sent>>

\* The services leave quarantine with one of the databases, perhaps too early.
Serve(which) ==
  /\ Quarantine /\ database[which] # Empty
  /\ config' = [config EXCEPT !.mode = "database", !.emergency = FALSE]
  /\ active' = which
  /\ UNCHANGED <<evidence, database, backup, truth, sent>>

Next ==
  \/ \E enabled \in BOOLEAN : ChangeShare(enabled)
  \/ Withdraw \/ Correct
  \/ \E j \in Jobs : Authorize(j) \/ Send(j) \/ Receive(j) \/ CancelJob(j)
  \/ Pause \/ \E resume \in BOOLEAN : Activate(resume)
  \/ Backup \/ Export
  \/ \E epoch \in Epochs : Enter(epoch)
  \/ \E current \in {evidence, Unwritten}, intact \in BOOLEAN :
       Restore(current, intact) \/ Reconcile(current, intact)
  \/ Reopen \/ \E which \in DOMAIN database : Serve(which)

Spec == Init /\ [][Next]_restoreVars

-----------------------------------------------------------------------------
(* Properties.                                                             *)

Shares == [revision : Nat, allowed : BOOLEAN, opted : BOOLEAN, token : Nat]
Rows == [enabled : BOOLEAN, withdrawn : BOOLEAN, held : BOOLEAN, share : Nat,
         authority : Nat, article : 1 .. MaxArticle, epoch : Epochs]
Ledgers == [Jobs -> {"none", "dispatching", "unknown", "received"}]
Evidences == [exported : {TRUE}, share : Shares, row : Rows, financial : Ledgers] \cup {Unwritten}
Reports == [reconciled : BOOLEAN, evidence : Evidences, financial : Ledgers] \cup {NoReport}
Databases ==
  [epoch : Epochs, hold : RestoreHolds \cup {"", "owner_paused"},
   job : [Jobs -> {"none", "queued", "running", "done", "cancelled", "restored"}],
   ledger : Ledgers, share : Shares, row : Rows,
   serving : [epoch : Epochs, quarantined : BOOLEAN], reports : [Epochs -> Reports]]
Truths == [allowed : BOOLEAN, token : Nat, withdrawn : BOOLEAN, article : 1 .. MaxArticle,
           issued : SUBSET Jobs, cancelled : SUBSET Jobs]

TypeOK ==
  /\ config \in [mode : {"database", "quarantine"}, restore : {0} \cup Epochs, epoch : Epochs,
                 emergency : BOOLEAN, restores : 0 .. MaxRestores]
  /\ evidence \in Evidences
  /\ active \in {"live", "restored"}
  /\ database \in [live : Databases, restored : Databases \cup {Empty}] /\ db \in Databases
  /\ backup \in Databases \cup {Empty}
  /\ truth \in Truths
  /\ sent \in [Jobs -> Nat]

(* Whatever happened since the backup, what the services do after a        *)
(* restore agrees with it: a link shows the edition only when the last     *)
(* decision of the members and the owner was to show this text under this  *)
(* link, new calls are sent only on a ledger that knows every call that    *)
(* was ever sent, and no job is sent twice, or after it was cancelled.     *)
RestoreForgetsNothing ==
  /\ Shows(db) => /\ truth.allowed /\ truth.token = db.share.token
                  /\ ~truth.withdrawn /\ truth.article = db.row.article
  /\ Executes(db) => \A j \in Jobs : sent[j] > 0 => db.ledger[j] # "none"
  /\ \A j \in Jobs : sent[j] <= IF j \in truth.cancelled THEN 0 ELSE 1
-----------------------------------------------------------------------------
(* Why a restore forgets nothing.  The hold that a restore leaves is taken *)
(* away only under a report in force, so the inductive invariant says what *)
(* is known of a database without the hold, or with such a report.         *)

(* A share decision and a row show nothing that was not decided last, and  *)
(* a ledger knows every call that was sent.                                *)
Agrees(share, row, calls) ==
  /\ share.allowed => truth.allowed /\ truth.token = share.token
  /\ ~row.held => truth.withdrawn = row.withdrawn /\ truth.article = row.article
  /\ \A j \in Jobs : sent[j] > 0 => calls[j] # "none"

(* The services use a database that agrees, or one that does nothing.      *)
CurrentAgrees ==
  \/ db.hold = "restore_quarantine" /\ ~Reported(db)
  \/ Agrees(db.share, db.row, db.ledger)

(* What was exported in a quarantine agrees until it ends.                 *)
EvidenceAgrees ==
  config.mode = "quarantine" =>
    /\ active = "live" /\ config.emergency /\ config.restore # 0
    /\ evidence # Unwritten => Agrees(evidence.share, evidence.row, evidence.financial)

(* So does what was reconciled in it, and what was reopened; and nothing   *)
(* restored is about to be sent.                                           *)
RestoredAgrees ==
  config.mode = "quarantine" /\ database.restored # Empty =>
    LET d == database.restored IN
    /\ \/ d.hold = "restore_quarantine" /\ ~d.reports[config.restore].reconciled
       \/ Agrees(d.share, d.row, d.ledger)
    /\ \A j \in Jobs : d.job[j] # "queued"

(* Nothing is evidence for itself: a restored database that was served too *)
(* early is, under the next epoch, without any.  A report names evidence,  *)
(* so an older one, of whichever epoch, is not in force there.             *)
NeverItsOwnEvidence ==
  /\ active = "live" /\ db.hold = "restore_quarantine" => evidence = Unwritten
  /\ \A d \in {db, database.restored, backup} \ {Empty} : \A e \in Epochs :
        d.reports[e].reconciled => d.reports[e].evidence # Unwritten

(* A queued job was not sent, nor cancelled.                               *)
JobsAreSentOnce ==
  \A j \in Jobs :
    /\ db.job[j] = "queued" => sent[j] = 0 /\ j \notin truth.cancelled
    /\ sent[j] <= IF j \in truth.cancelled THEN 0 ELSE 1
    /\ db.job[j] = "queued" \/ sent[j] > 0 \/ j \in truth.cancelled => j \in truth.issued

RestoreInvariant ==
  /\ TypeOK
  /\ CurrentAgrees /\ EvidenceAgrees /\ RestoredAgrees
  /\ NeverItsOwnEvidence /\ JobsAreSentOnce
=============================================================================
