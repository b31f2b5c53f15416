----------------------- MODULE GenerationRestoreProofs -----------------------
(***************************************************************************)
(* Proofs about GenerationRestore: its types, and that a restore forgets   *)
(* neither a decision nor a call, whatever database is served and whichever *)
(* epochs the operator chooses.                                            *)
(***************************************************************************)
EXTENDS GenerationRestore, TLAPS

-----------------------------------------------------------------------------
(* Types.                                                                  *)

(* The database in use is replaced, the other one stays.                   *)
LEMMA ActiveUpdate ==
  ASSUME TypeOK, NEW N \in Databases,
         database' = [database EXCEPT ![active] = N], active' = active
  PROVE  /\ db' = N
         /\ database' \in [live : Databases, restored : Databases \cup {Empty}]
         /\ database'.restored = IF active = "live" THEN database.restored ELSE N
<1>1. /\ database \in [live : Databases, restored : Databases \cup {Empty}]
      /\ active \in {"live", "restored"}
  BY DEF TypeOK
<1>2. db' = N
  BY <1>1 DEF db
<1>3. database' \in [live : Databases, restored : Databases \cup {Empty}]
  BY <1>1
<1>4. database'.restored = IF active = "live" THEN database.restored ELSE N
  BY <1>1
<1> QED
  BY <1>2, <1>3, <1>4

(* A database is never mistaken for the absence of one, a report or an     *)
(* export neither.                                                         *)
LEMMA Distinct ==
  ASSUME RestoreAssumption
  PROVE  /\ \A d \in Databases : d # Empty
         /\ \A r \in Reports : r.reconciled => r # NoReport /\ r.evidence \in Evidences
<1>1. ASSUME NEW d \in Databases PROVE d # Empty
  <2>1. d.epoch \in Epochs /\ Empty.epoch = 0
    BY DEF Databases, Empty
  <2>2. 0 \notin Epochs
    BY DEF RestoreAssumption, Epochs
  <2> QED
    BY <2>1, <2>2
<1>2. ASSUME NEW r \in Reports, r.reconciled PROVE r # NoReport /\ r.evidence \in Evidences
  <2>1. r # NoReport
    BY <1>2 DEF NoReport
  <2> QED
    BY <2>1 DEF Reports
<1> QED
  BY <1>1, <1>2

(* The ledger of which calls in flight are of unknown outcome.             *)
LEMMA FinancialType ==
  ASSUME NEW d \in Databases
  PROVE  /\ Financial(d) \in Ledgers
         /\ \A j \in Jobs : Financial(d)[j] = "none" <=> d.ledger[j] = "none"
<1>1. d.ledger \in Ledgers
  BY DEF Databases
<1> QED
  BY <1>1 DEF Financial, Ledgers

(* A decision that survives, and one that is withdrawn.                    *)
LEMMA DecidedType ==
  ASSUME NEW share \in Shares, NEW current \in Evidences
  PROVE  /\ Decided(share, current) \in Shares
         /\ Decided(share, current).allowed =>
              current # Unwritten /\ Decided(share, current) = current.share
<1>1. current # Unwritten => current.share \in Shares
  BY DEF Evidences
<1>2. [share EXCEPT !.allowed = FALSE, !.token = 0, !.revision = @ + 1] \in Shares
  <2>1. PICK n : n = share.revision + 1
    OBVIOUS
  <2>2. n \in Nat
    BY <2>1 DEF Shares
  <2> QED
    BY <2>1, <2>2 DEF Shares
<1>3. ~[share EXCEPT !.allowed = FALSE, !.token = 0, !.revision = @ + 1].allowed
  BY DEF Shares
<1> QED
  BY <1>1, <1>2, <1>3 DEF Decided

(* A row that survives, and one that is held.                              *)
LEMMA ReboundType ==
  ASSUME NEW kept \in Rows, NEW current \in Evidences
  PROVE  /\ Rebound(kept, current) \in Rows
         /\ ~Rebound(kept, current).held =>
              /\ current # Unwritten /\ ~current.row.held
              /\ Rebound(kept, current).withdrawn = current.row.withdrawn
              /\ Rebound(kept, current).article = current.row.article
<1>1. current # Unwritten => current.row \in Rows
  BY DEF Evidences
<1>2. [kept EXCEPT !.enabled = FALSE, !.held = TRUE] \in Rows
  BY DEF Rows
<1>3. [kept EXCEPT !.enabled = FALSE, !.held = TRUE].held
  BY DEF Rows
<1>4. ASSUME current # Unwritten
      PROVE  LET r == [current.row EXCEPT !.epoch = kept.epoch] IN
             r \in Rows /\ r.held = current.row.held /\ r.withdrawn = current.row.withdrawn
               /\ r.article = current.row.article
  BY <1>1, <1>4 DEF Rows
<1> QED
  BY <1>1, <1>2, <1>3, <1>4 DEF Rebound

(* Fields of a row that a decision changes, of a decision, of a database.  *)
LEMMA RowUpdate ==
  ASSUME NEW row \in Rows, NEW n \in Nat
  PROVE  /\ LET r == [row EXCEPT !.share = n, !.authority = @ + 1] IN
            /\ r \in Rows /\ r.held = row.held
            /\ r.withdrawn = row.withdrawn /\ r.article = row.article
         /\ LET r == [row EXCEPT !.withdrawn = TRUE, !.authority = @ + 1] IN
            /\ r \in Rows /\ r.held = row.held /\ r.withdrawn = TRUE /\ r.article = row.article
         /\ row.article + 1 \in 1 .. MaxArticle =>
              LET r == [row EXCEPT !.article = @ + 1, !.authority = @ + 1, !.held = FALSE,
                                   !.enabled = TRUE, !.withdrawn = FALSE, !.share = n] IN
              r \in Rows /\ r.withdrawn = FALSE /\ r.article = row.article + 1
<1>1. PICK m \in Nat : m = row.authority + 1
  BY DEF Rows
<1>2. LET r == [row EXCEPT !.share = n, !.authority = m] IN
        r \in Rows /\ r.held = row.held /\ r.withdrawn = row.withdrawn /\ r.article = row.article
  BY DEF Rows
<1>3. LET r == [row EXCEPT !.withdrawn = TRUE, !.authority = m] IN
        r \in Rows /\ r.held = row.held /\ r.withdrawn = TRUE /\ r.article = row.article
  BY DEF Rows
<1>4. ASSUME NEW article \in 1 .. MaxArticle
      PROVE  LET r == [row EXCEPT !.article = article, !.authority = m, !.held = FALSE,
                                  !.enabled = TRUE, !.withdrawn = FALSE, !.share = n] IN
             r \in Rows /\ r.withdrawn = FALSE /\ r.article = article
  BY DEF Rows
<1> QED
  BY <1>1, <1>2, <1>3, <1>4

(* What sharing is once an owner changed it.                               *)
LEMMA ShareUpdate ==
  ASSUME NEW n \in Nat, NEW enabled \in BOOLEAN
  PROVE  LET share == [revision |-> n, allowed |-> enabled, opted |-> ~enabled,
                       token |-> IF enabled THEN n ELSE 0] IN
         share \in Shares /\ share.allowed = enabled /\ share.token = IF enabled THEN n ELSE 0
  BY DEF Shares

(* A backup that is loaded is held, and no job of it waits to be sent.     *)
LEMMA QuarantinedType ==
  ASSUME NEW d \in Databases
  PROVE  LET q == Quarantined(d) IN
         /\ q \in Databases /\ q.hold = "restore_quarantine"
         /\ q.reports = d.reports
         /\ \A j \in Jobs : q.job[j] # "queued"
<1>1. /\ d.job \in [Jobs -> {"none", "queued", "running", "done", "cancelled", "restored"}]
      /\ d.serving \in [epoch : Epochs, quarantined : BOOLEAN]
      /\ Financial(d) \in Ledgers
  BY FinancialType DEF Databases
<1>2. PICK parked \in [Jobs -> {"none", "queued", "running", "done", "cancelled", "restored"}] :
        /\ parked = [j \in Jobs |-> IF d.job[j] \in {"queued", "running"} THEN "restored" ELSE d.job[j]]
        /\ \A j \in Jobs : parked[j] # "queued"
  <2> DEFINE p == [j \in Jobs |-> IF d.job[j] \in {"queued", "running"} THEN "restored" ELSE d.job[j]]
  <2>1. p \in [Jobs -> {"none", "queued", "running", "done", "cancelled", "restored"}]
    BY <1>1
  <2>2. \A j \in Jobs : p[j] # "queued"
    OBVIOUS
  <2> QED
    BY <2>1, <2>2
<1>3. PICK serving \in [epoch : Epochs, quarantined : BOOLEAN] :
        serving = [d.serving EXCEPT !.quarantined = TRUE]
  BY <1>1
<1>4. Quarantined(d) = [d EXCEPT !.hold = "restore_quarantine", !.job = parked,
                                 !.ledger = Financial(d), !.serving = serving]
  BY <1>1, <1>2, <1>3 DEF Quarantined, Databases
<1> QED
  BY <1>1, <1>4, <1>2 DEF Databases, RestoreHolds

(* What a reconciliation leaves: the share decision and the row agree with *)
(* the evidence or show nothing, the ledger is the one that was restored,  *)
(* and the report says whether that is the ledger of the evidence.         *)
LEMMA ReconciledType ==
  ASSUME TypeOK, config.restore \in Epochs,
         NEW d \in Databases, NEW current \in {evidence, Unwritten}, NEW intact \in BOOLEAN
  PROVE  LET r == Reconciled(d, current, intact) IN
         /\ r \in Databases
         /\ r.hold = d.hold /\ r.job = d.job /\ r.ledger = d.ledger
         /\ r.share = Decided(d.share, current) /\ r.row = Rebound(d.row, current)
         /\ r.reports[config.restore].reconciled =>
              /\ current # Unwritten /\ current.financial = Financial(d)
              /\ r.reports[config.restore].evidence = current
         /\ \A e \in Epochs \ {config.restore} : r.reports[e] = d.reports[e]
<1> DEFINE report == [reconciled |-> current # Unwritten /\ intact /\ current.financial = Financial(d),
                      evidence |-> evidence, financial |-> Financial(d)]
<1>1. current \in Evidences /\ evidence \in Evidences
  <2>1. Unwritten \in Evidences
    BY DEF Evidences
  <2> QED
    BY <2>1 DEF TypeOK
<1>2. /\ d.share \in Shares /\ d.row \in Rows /\ d.reports \in [Epochs -> Reports]
      /\ d.serving \in [epoch : Epochs, quarantined : BOOLEAN] /\ Financial(d) \in Ledgers
  BY FinancialType DEF Databases
<1>3. report \in Reports
  BY <1>1, <1>2 DEF Reports
<1>4. PICK share \in Shares : share = Decided(d.share, current)
  BY <1>1, <1>2, DecidedType
<1>5. PICK row \in Rows : row = Rebound(d.row, current)
  BY <1>1, <1>2, ReboundType
<1>6. PICK serving \in [epoch : Epochs, quarantined : BOOLEAN] :
        serving = [d.serving EXCEPT !.quarantined = TRUE]
  BY <1>2
<1>7. PICK reports \in [Epochs -> Reports] : reports = [d.reports EXCEPT ![config.restore] = report]
  BY <1>2, <1>3
<1>8. Reconciled(d, current, intact) =
        [d EXCEPT !.share = share, !.row = row, !.serving = serving, !.reports = reports]
  BY <1>2, <1>4, <1>5, <1>6, <1>7 DEF Reconciled, Databases
<1>9. /\ reports[config.restore] = report
      /\ \A e \in Epochs \ {config.restore} : reports[e] = d.reports[e]
  BY <1>2, <1>7
<1>10. LET r == Reconciled(d, current, intact) IN
        /\ r \in Databases /\ r.hold = d.hold /\ r.job = d.job /\ r.ledger = d.ledger
        /\ r.share = share /\ r.row = row /\ r.reports = reports
  BY <1>8 DEF Databases
<1> HIDE DEF report
<1>11. report.reconciled => /\ current # Unwritten /\ current.financial = Financial(d)
                            /\ report.evidence = current
  BY DEF report
<1> QED
  BY <1>4, <1>5, <1>9, <1>10, <1>11

-----------------------------------------------------------------------------
(* The beginning.                                                          *)
LEMMA RestoreInit ==
  ASSUME RestoreAssumption, Init
  PROVE  RestoreInvariant
<1>1. 1 \in Epochs /\ 1 \in 1 .. MaxArticle /\ 0 \in 0 .. MaxRestores
  BY DEF RestoreAssumption, Epochs
<1>2. db = database.live
  BY DEF Init, db
<1>3. /\ db.job = [j \in Jobs |-> "none"] /\ db.ledger = [j \in Jobs |-> "none"]
      /\ db.hold = "" /\ db.epoch = 1 /\ db.reports = [e \in Epochs |-> NoReport]
      /\ db.share = [revision |-> 1, allowed |-> TRUE, opted |-> FALSE, token |-> 1]
      /\ db.row = [enabled |-> TRUE, withdrawn |-> FALSE, held |-> FALSE,
                   share |-> 1, authority |-> 1, article |-> 1, epoch |-> 1]
      /\ db.serving = [epoch |-> 1, quarantined |-> FALSE]
  BY <1>2 DEF Init
<1>4. db \in Databases
  <2>1. db.job \in [Jobs -> {"none", "queued", "running", "done", "cancelled", "restored"}]
    BY <1>3
  <2>2. db.ledger \in Ledgers
    BY <1>3 DEF Ledgers
  <2>3. db.share \in Shares /\ db.row \in Rows
    <3>1. [revision |-> 1, allowed |-> TRUE, opted |-> FALSE, token |-> 1] \in Shares
      BY DEF Shares
    <3>2. [enabled |-> TRUE, withdrawn |-> FALSE, held |-> FALSE,
           share |-> 1, authority |-> 1, article |-> 1, epoch |-> 1] \in Rows
      BY <1>1 DEF Rows
    <3> QED
      BY <3>1, <3>2, <1>3
  <2>4. db.reports \in [Epochs -> Reports]
    BY <1>3 DEF Reports
  <2>5. db.serving \in [epoch : Epochs, quarantined : BOOLEAN] /\ db.epoch \in Epochs
    <3>1. [epoch |-> 1, quarantined |-> FALSE] \in [epoch : Epochs, quarantined : BOOLEAN]
      BY <1>1
    <3> QED
      BY <3>1, <1>1, <1>3
  <2>6. db = [epoch |-> db.epoch, hold |-> db.hold, job |-> db.job, ledger |-> db.ledger,
              share |-> db.share, row |-> db.row, serving |-> db.serving, reports |-> db.reports]
    BY <1>2 DEF Init
  <2> QED
    BY <2>1, <2>2, <2>3, <2>4, <2>5, <2>6, <1>3 DEF Databases
<1>5. database \in [live : Databases, restored : Databases \cup {Empty}] /\ database.restored = Empty
  BY <1>2, <1>4 DEF Init
<1>6. TypeOK
  <2>1. evidence \in Evidences /\ active \in {"live", "restored"} /\ backup \in Databases \cup {Empty}
    BY DEF Init, Evidences
  <2>2. config \in [mode : {"database", "quarantine"}, restore : {0} \cup Epochs, epoch : Epochs,
                    emergency : BOOLEAN, restores : 0 .. MaxRestores]
    BY <1>1 DEF Init
  <2>3. truth \in Truths /\ sent \in [Jobs -> Nat]
    BY <1>1 DEF Init, Truths
  <2> QED
    BY <2>1, <2>2, <2>3, <1>4, <1>5 DEF TypeOK
<1>7. CurrentAgrees
  <2>1. /\ truth.allowed /\ truth.token = 1 /\ ~truth.withdrawn /\ truth.article = 1
        /\ \A j \in Jobs : sent[j] = 0
    BY DEF Init
  <2>2. db.share = [revision |-> 1, allowed |-> TRUE, opted |-> FALSE, token |-> 1]
    BY <1>2 DEF Init
  <2>3. db.row = [enabled |-> TRUE, withdrawn |-> FALSE, held |-> FALSE,
                  share |-> 1, authority |-> 1, article |-> 1, epoch |-> 1]
    BY <1>2 DEF Init
  <2>4. db.share.token = 1
    BY <2>2
  <2>5. ~db.row.withdrawn /\ db.row.article = 1
    BY <2>3
  <2>6. truth.withdrawn = db.row.withdrawn
    <3>1. truth.withdrawn = FALSE
      BY DEF Init
    <3>2. db.row.withdrawn = FALSE
      BY <2>3
    <3> QED
      BY <3>1, <3>2
  <2>7. Agrees(db.share, db.row, db.ledger)
    BY <2>1, <2>4, <2>5, <2>6 DEF Agrees
  <2> QED
    BY <2>7 DEF CurrentAgrees
<1>8. EvidenceAgrees /\ RestoredAgrees
  BY DEF Init, EvidenceAgrees, RestoredAgrees
<1>9. NeverItsOwnEvidence
  <2>1. ASSUME NEW e \in Epochs PROVE ~db.reports[e].reconciled
    <3>1. db.reports[e] = NoReport
      BY <1>3
    <3> QED
      BY <3>1 DEF NoReport
  <2>2. database.restored = Empty /\ backup = Empty
    BY <1>5 DEF Init
  <2> QED
    BY <1>3, <2>1, <2>2 DEF NeverItsOwnEvidence
<1>10. JobsAreSentOnce
  <2>1. \A j \in Jobs : sent[j] = 0 /\ db.job[j] # "queued"
    BY <1>3 DEF Init
  <2>2. truth.cancelled = {}
    BY DEF Init
  <2> QED
    BY <2>1, <2>2 DEF JobsAreSentOnce
<1> QED
  BY <1>6, <1>7, <1>8, <1>9, <1>10 DEF RestoreInvariant

-----------------------------------------------------------------------------
(* The services.                                                           *)

(* A decision of the owner or of members.                                  *)
Decides == <<truth.allowed, truth.token, truth.withdrawn, truth.article>>

(* A step of the services replaces the database they use by one whose      *)
(* reports are the same, and that keeps the hold of a restore until a      *)
(* report is in force.  Nothing is decided or sent in a quarantine, nor on *)
(* a database that is held.                                                *)
LEMMA ServicesStep ==
  ASSUME RestoreAssumption, RestoreInvariant, NEW N \in Databases,
         database' = [database EXCEPT ![active] = N],
         UNCHANGED <<config, evidence, active, backup>>,
         truth' \in Truths, sent' \in [Jobs -> Nat],
         N.reports = db.reports,
         N.hold = "restore_quarantine" => db.hold = "restore_quarantine",
         db.hold = "restore_quarantine" /\ ~Reported(db) => N.hold = "restore_quarantine",
         db.hold # "restore_quarantine" \/ Reported(db) => Agrees(N.share, N.row, N.ledger)',
         config.mode = "quarantine" => UNCHANGED <<Decides, sent>>,
         \A j \in Jobs :
           /\ N.job[j] = "queued" => sent'[j] = 0 /\ j \notin truth'.cancelled
           /\ sent'[j] <= IF j \in truth'.cancelled THEN 0 ELSE 1
           /\ N.job[j] = "queued" \/ sent'[j] > 0 \/ j \in truth'.cancelled => j \in truth'.issued
  PROVE  RestoreInvariant'
<1>1. TypeOK
  BY DEF RestoreInvariant
<1>2. /\ db' = N
      /\ database' \in [live : Databases, restored : Databases \cup {Empty}]
      /\ database'.restored = IF active = "live" THEN database.restored ELSE N
  BY <1>1, ActiveUpdate
<1>3. TypeOK'
  BY <1>1, <1>2 DEF TypeOK, Truths
<1>4. Reported(db)' <=> Reported(db)
  BY <1>2 DEF Reported
<1>5. CurrentAgrees'
  BY <1>2, <1>4 DEF CurrentAgrees
<1>6. ASSUME config.mode = "quarantine"
      PROVE  \A share, row, calls : Agrees(share, row, calls) => Agrees(share, row, calls)'
  BY <1>6 DEF Agrees, Decides
<1>7. EvidenceAgrees'
  BY <1>6 DEF EvidenceAgrees, RestoreInvariant
<1>8. RestoredAgrees'
  BY <1>2, <1>6 DEF RestoredAgrees, EvidenceAgrees, RestoreInvariant
<1>9. NeverItsOwnEvidence'
  <2>1. active' = "live" /\ db'.hold = "restore_quarantine" => evidence' = Unwritten
    BY <1>2 DEF NeverItsOwnEvidence, RestoreInvariant
  <2>2. ASSUME NEW d \in {db', database'.restored, backup'} \ {Empty}, NEW e \in Epochs,
               d.reports[e].reconciled
        PROVE  d.reports[e].evidence # Unwritten
    <3>1. \A o \in {db, database.restored, backup} \ {Empty} :
            o.reports[e].reconciled => o.reports[e].evidence # Unwritten
      BY DEF NeverItsOwnEvidence, RestoreInvariant
    <3>2. db # Empty
      BY <1>1, Distinct DEF TypeOK
    <3>3. d = N \/ d \in {database.restored, backup}
      BY <1>2, <2>2
    <3> QED
      BY <2>2, <3>1, <3>2, <3>3
  <2> QED
    BY <2>1, <2>2 DEF NeverItsOwnEvidence
<1>10. JobsAreSentOnce'
  BY <1>2 DEF JobsAreSentOnce
<1> QED
  BY <1>3, <1>5, <1>7, <1>8, <1>9, <1>10 DEF RestoreInvariant

(* A step on the jobs: neither the decision nor the row is touched, the    *)
(* hold of a restore stays, and a call that is sent is in the ledger.      *)
LEMMA JobsStep ==
  ASSUME RestoreAssumption, RestoreInvariant, NEW N \in Databases,
         database' = [database EXCEPT ![active] = N],
         UNCHANGED <<config, evidence, active, backup, Decides>>,
         truth' \in Truths, sent' \in [Jobs -> Nat],
         N.share = db.share, N.row = db.row, N.reports = db.reports,
         N.hold = "restore_quarantine" <=> db.hold = "restore_quarantine",
         config.mode = "quarantine" => UNCHANGED sent,
         \A j \in Jobs :
           /\ db.ledger[j] # "none" \/ sent'[j] # sent[j] => N.ledger[j] # "none"
           /\ N.job[j] = "queued" => sent'[j] = 0 /\ j \notin truth'.cancelled
           /\ sent'[j] <= IF j \in truth'.cancelled THEN 0 ELSE 1
           /\ N.job[j] = "queued" \/ sent'[j] > 0 \/ j \in truth'.cancelled => j \in truth'.issued
  PROVE  RestoreInvariant'
<1>1. ASSUME Agrees(db.share, db.row, db.ledger)
      PROVE  Agrees(N.share, N.row, N.ledger)'
  <2>1. /\ truth'.allowed = truth.allowed /\ truth'.token = truth.token
        /\ truth'.withdrawn = truth.withdrawn /\ truth'.article = truth.article
    BY DEF Decides
  <2>2. ASSUME NEW j \in Jobs, sent'[j] > 0 PROVE N.ledger[j] # "none"
    BY <1>1, <2>2 DEF Agrees
  <2> QED
    BY <1>1, <2>1, <2>2 DEF Agrees
<1>2. db.hold # "restore_quarantine" \/ Reported(db) => Agrees(N.share, N.row, N.ledger)'
  BY <1>1 DEF RestoreInvariant, CurrentAgrees
<1> QED
  BY <1>2, ServicesStep DEF Decides

(* Only a database that is reopened is read: a quarantine decides nothing. *)
LEMMA ServesDecides ==
  ASSUME RestoreAssumption, RestoreInvariant, Serves(db)
  PROVE  config.mode # "quarantine" /\ db.hold # "restore_quarantine"
           /\ Agrees(db.share, db.row, db.ledger)
  BY DEF Serves, RestoreInvariant, CurrentAgrees

(* The fields of a row that a corrected edition changes, all at once.      *)
LEMMA CorrectUpdate ==
  ASSUME TypeOK, NEW n \in Nat
  PROVE  db.row.article + 1 \in 1 .. MaxArticle =>
         [database EXCEPT ![active].row.article = @ + 1,
             ![active].row.authority = @ + 1, ![active].row.held = FALSE,
             ![active].row.enabled = TRUE, ![active].row.withdrawn = FALSE, ![active].row.share = n]
         = [database EXCEPT ![active] = [db EXCEPT !.share = db.share,
             !.row = [db.row EXCEPT !.article = @ + 1, !.authority = @ + 1, !.held = FALSE,
                                    !.enabled = TRUE, !.withdrawn = FALSE, !.share = n]]]
<1>1. /\ db \in Databases /\ db.row \in Rows
      /\ database \in [live : Databases, restored : Databases \cup {Empty}]
      /\ active \in {"live", "restored"} /\ database[active] = db
  BY DEF TypeOK, Databases, db
<1>2. SUFFICES ASSUME NEW article \in 1 .. MaxArticle, article = db.row.article + 1
               PROVE  [database EXCEPT ![active].row.article = @ + 1,
             ![active].row.authority = @ + 1, ![active].row.held = FALSE,
             ![active].row.enabled = TRUE, ![active].row.withdrawn = FALSE, ![active].row.share = n]
         = [database EXCEPT ![active] = [db EXCEPT !.share = db.share,
             !.row = [db.row EXCEPT !.article = @ + 1, !.authority = @ + 1, !.held = FALSE,
                                    !.enabled = TRUE, !.withdrawn = FALSE, !.share = n]]]
  OBVIOUS
<1>3. PICK r : r = [db.row EXCEPT !.article = @ + 1, !.authority = @ + 1, !.held = FALSE]
  OBVIOUS
<1>4. r \in Rows
  <2>1. PICK m \in Nat : m = db.row.authority + 1
    BY <1>1 DEF Rows
  <2>2. r = [db.row EXCEPT !.article = article, !.authority = m, !.held = FALSE]
    BY <1>2, <1>3, <2>1
  <2> QED
    BY <1>1, <2>2 DEF Rows
<1>5. PICK d : d = [database EXCEPT ![active] = [db EXCEPT !.row = r]]
  OBVIOUS
<1>6. d = [database EXCEPT ![active].row.article = @ + 1,
             ![active].row.authority = @ + 1, ![active].row.held = FALSE]
  BY <1>1, <1>3, <1>5 DEF Databases
<1>7. d[active] = [db EXCEPT !.row = r] /\ d[active].row = r
  BY <1>1, <1>5 DEF Databases
<1>8. /\ d \in [live : Databases, restored : Databases \cup {Empty}]
      /\ d[active] \in Databases /\ active \in {"live", "restored"}
  BY <1>1, <1>4, <1>5, <1>7 DEF Databases
<1>9. PICK e : e = [d EXCEPT ![active].row.enabled = TRUE, ![active].row.withdrawn = FALSE,
                             ![active].row.share = n]
  OBVIOUS
<1>10. e = [d EXCEPT ![active] = [d[active] EXCEPT !.row =
             [d[active].row EXCEPT !.enabled = TRUE, !.withdrawn = FALSE, !.share = n]]]
  BY <1>8, <1>9 DEF Databases
<1>11. e = [database EXCEPT ![active] = [db EXCEPT !.row =
             [r EXCEPT !.enabled = TRUE, !.withdrawn = FALSE, !.share = n]]]
  <2>1. e = [d EXCEPT ![active] = [d[active] EXCEPT !.row =
             [r EXCEPT !.enabled = TRUE, !.withdrawn = FALSE, !.share = n]]]
    BY <1>7, <1>10
  <2> QED
    BY <1>1, <1>5, <1>7, <2>1 DEF Databases
<1>12. [r EXCEPT !.enabled = TRUE, !.withdrawn = FALSE, !.share = n]
         = [db.row EXCEPT !.article = @ + 1, !.authority = @ + 1, !.held = FALSE,
                          !.enabled = TRUE, !.withdrawn = FALSE, !.share = n]
  BY <1>1, <1>3, <1>4 DEF Rows
<1>13. e = [database EXCEPT ![active] = [db EXCEPT !.share = db.share,
             !.row = [db.row EXCEPT !.article = @ + 1, !.authority = @ + 1, !.held = FALSE,
                                    !.enabled = TRUE, !.withdrawn = FALSE, !.share = n]]]
  BY <1>1, <1>11, <1>12 DEF Databases
<1> QED
  BY <1>6, <1>9, <1>13

(* Decisions: of a member on sharing, of the owner on the edition.         *)
LEMMA DecisionsKeep ==
  ASSUME RestoreAssumption, RestoreInvariant,
         (\E enabled \in BOOLEAN : ChangeShare(enabled)) \/ Withdraw \/ Correct
  PROVE  RestoreInvariant'
<1>1. /\ TypeOK /\ db \in Databases
      /\ db.share \in Shares /\ db.row \in Rows
      /\ database \in [live : Databases, restored : Databases \cup {Empty}]
      /\ active \in {"live", "restored"} /\ database[active] = db
  BY DEF RestoreInvariant, TypeOK, Databases, db
<1>2. \A j \in Jobs :
        /\ db.job[j] = "queued" => sent[j] = 0 /\ j \notin truth.cancelled
        /\ sent[j] <= IF j \in truth.cancelled THEN 0 ELSE 1
        /\ db.job[j] = "queued" \/ sent[j] > 0 \/ j \in truth.cancelled => j \in truth.issued
  BY DEF RestoreInvariant, JobsAreSentOnce
<1>3. ASSUME NEW share \in Shares, NEW row \in Rows, Serves(db),
             database' = [database EXCEPT ![active] = [db EXCEPT !.share = share, !.row = row]],
             UNCHANGED <<config, evidence, active, backup, sent>>,
             truth' \in Truths, truth'.issued = truth.issued, truth'.cancelled = truth.cancelled,
             share.allowed => truth'.allowed /\ truth'.token = share.token,
             ~row.held => truth'.withdrawn = row.withdrawn /\ truth'.article = row.article
      PROVE  RestoreInvariant'
  <2>1. PICK N \in Databases :
          /\ N = [db EXCEPT !.share = share, !.row = row]
          /\ N.share = share /\ N.row = row /\ N.hold = db.hold /\ N.job = db.job
          /\ N.ledger = db.ledger /\ N.reports = db.reports
    <3> DEFINE n == [db EXCEPT !.share = share, !.row = row]
    <3>1. /\ n \in Databases /\ n.share = share /\ n.row = row /\ n.hold = db.hold
          /\ n.job = db.job /\ n.ledger = db.ledger /\ n.reports = db.reports
      <4>1. db \in Databases /\ share \in Shares /\ row \in Rows
        BY <1>1, <1>3
      <4> QED
        BY <4>1 DEF Databases
    <3> QED
      BY <3>1
  <2>2. sent' \in [Jobs -> Nat]
    BY <1>1, <1>3 DEF TypeOK
  <2>3. Agrees(N.share, N.row, N.ledger)'
    BY <1>3, <2>1, ServesDecides DEF Agrees
  <2> QED
    BY <1>2, <1>3, <2>1, <2>2, <2>3, ServesDecides, ServicesStep
<1>4. ASSUME NEW enabled \in BOOLEAN, ChangeShare(enabled) PROVE RestoreInvariant'
  <2>1. PICK n \in Nat : n = db.share.revision + 1
    BY <1>1 DEF Shares
  <2>2. PICK share \in Shares :
          /\ share = [revision |-> n, allowed |-> enabled, opted |-> ~enabled,
                      token |-> IF enabled THEN n ELSE 0]
          /\ share.allowed = enabled /\ share.token = IF enabled THEN n ELSE 0
    BY ShareUpdate
  <2>3. PICK row \in Rows :
          /\ row = [db.row EXCEPT !.share = n, !.authority = @ + 1]
          /\ row.held = db.row.held /\ row.withdrawn = db.row.withdrawn
          /\ row.article = db.row.article
    <3> DEFINE r == [db.row EXCEPT !.share = n, !.authority = @ + 1]
    <3>1. /\ r \in Rows /\ r.held = db.row.held
          /\ r.withdrawn = db.row.withdrawn /\ r.article = db.row.article
      <4>1. db.row \in Rows /\ n \in Nat
        BY <1>1, <2>1
      <4> QED
        BY <4>1, RowUpdate
    <3> QED
      BY <3>1
  <2>4. database' = [database EXCEPT ![active].share = share,
                       ![active].row.share = n, ![active].row.authority = @ + 1]
    BY <1>4, <2>1, <2>2 DEF ChangeShare
  <2>5. database' = [database EXCEPT ![active] = [db EXCEPT !.share = share, !.row = row]]
    <3>1. database' = [database EXCEPT ![active] =
             [db EXCEPT !.share = share, !.row = [db.row EXCEPT !.share = n, !.authority = @ + 1]]]
      BY <1>1, <2>4 DEF Databases
    <3> QED
      BY <3>1, <2>3
  <2>6. /\ truth' = [truth EXCEPT !.allowed = enabled, !.token = IF enabled THEN n ELSE 0]
        /\ UNCHANGED <<config, evidence, active, backup, sent>> /\ Serves(db)
    BY <1>4, <2>1 DEF ChangeShare
  <2>7. /\ truth' \in Truths /\ truth'.issued = truth.issued /\ truth'.cancelled = truth.cancelled
        /\ truth'.allowed = enabled /\ truth'.token = IF enabled THEN n ELSE 0
        /\ truth'.withdrawn = truth.withdrawn /\ truth'.article = truth.article
    BY <1>1, <2>6 DEF TypeOK, Truths
  <2>8. ~db.row.held => truth.withdrawn = db.row.withdrawn /\ truth.article = db.row.article
    BY <2>6, ServesDecides DEF Agrees
  <2>9. /\ share.allowed => truth'.allowed /\ truth'.token = share.token
        /\ ~row.held => truth'.withdrawn = row.withdrawn /\ truth'.article = row.article
    BY <2>2, <2>3, <2>7, <2>8
  <2> QED
    BY <1>3, <2>5, <2>6, <2>7, <2>9
<1>5. CASE Withdraw
  <2>1. PICK row \in Rows :
          /\ row = [db.row EXCEPT !.withdrawn = TRUE, !.authority = @ + 1]
          /\ row.held = db.row.held /\ row.withdrawn = TRUE /\ row.article = db.row.article
    BY <1>1, RowUpdate
  <2>2. database' = [database EXCEPT ![active] = [db EXCEPT !.share = db.share, !.row = row]]
    BY <1>1, <1>5, <2>1 DEF Withdraw, Databases
  <2>3. /\ truth' = [truth EXCEPT !.withdrawn = TRUE]
        /\ UNCHANGED <<config, evidence, active, backup, sent>> /\ Serves(db)
    BY <1>5 DEF Withdraw
  <2>4. /\ truth' \in Truths /\ truth'.issued = truth.issued /\ truth'.cancelled = truth.cancelled
        /\ truth'.allowed = truth.allowed /\ truth'.token = truth.token
        /\ truth'.withdrawn = TRUE /\ truth'.article = truth.article
    BY <1>1, <2>3 DEF TypeOK, Truths
  <2>5. /\ db.share.allowed => truth.allowed /\ truth.token = db.share.token
        /\ ~db.row.held => truth.article = db.row.article
    BY <2>3, ServesDecides DEF Agrees
  <2> QED
    BY <1>1, <1>3, <2>1, <2>2, <2>3, <2>4, <2>5
<1>6. CASE Correct
  <2>1. PICK n \in Nat : n = db.share.revision
    BY <1>1 DEF Shares
  <2>2. PICK article \in 1 .. MaxArticle : article = db.row.article + 1
    <3>1. db.row.article \in 1 .. MaxArticle /\ MaxArticle \in Nat
      BY <1>1 DEF Rows, RestoreAssumption
    <3>2. db.row.article < MaxArticle
      BY <1>6 DEF Correct
    <3> QED
      BY <3>1, <3>2
  <2>3. PICK row \in Rows :
          /\ row = [db.row EXCEPT !.article = @ + 1, !.authority = @ + 1, !.held = FALSE,
                       !.enabled = TRUE, !.withdrawn = FALSE, !.share = n]
          /\ row.withdrawn = FALSE /\ row.article = article
    BY <1>1, <2>2, RowUpdate
  <2>4. database' = [database EXCEPT ![active] = [db EXCEPT !.share = db.share, !.row = row]]
    <3>1. database' = [database EXCEPT ![active].row.article = @ + 1,
             ![active].row.authority = @ + 1, ![active].row.held = FALSE,
             ![active].row.enabled = TRUE, ![active].row.withdrawn = FALSE, ![active].row.share = n]
      BY <1>6, <2>1 DEF Correct
    <3>2. database' = [database EXCEPT ![active] = [db EXCEPT !.share = db.share,
             !.row = [db.row EXCEPT !.article = @ + 1, !.authority = @ + 1, !.held = FALSE,
                                    !.enabled = TRUE, !.withdrawn = FALSE, !.share = n]]]
      BY <1>1, <2>2, <3>1, CorrectUpdate
    <3> QED
      BY <3>2, <2>3
  <2>5. /\ truth' = [truth EXCEPT !.withdrawn = FALSE, !.article = article]
        /\ UNCHANGED <<config, evidence, active, backup, sent>> /\ Serves(db)
    BY <1>6, <2>2 DEF Correct
  <2>6. /\ truth' \in Truths /\ truth'.issued = truth.issued /\ truth'.cancelled = truth.cancelled
        /\ truth'.allowed = truth.allowed /\ truth'.token = truth.token
        /\ truth'.withdrawn = FALSE /\ truth'.article = article
    BY <1>1, <2>5 DEF TypeOK, Truths
  <2>7. db.share.allowed => truth.allowed /\ truth.token = db.share.token
    BY <2>5, ServesDecides DEF Agrees
  <2> QED
    BY <1>1, <1>3, <2>3, <2>4, <2>5, <2>6, <2>7
<1> QED
  BY <1>4, <1>5, <1>6

(* What becomes of a job.                                                  *)
JobStates == {"none", "queued", "running", "done", "cancelled", "restored"}

(* A step that changes the jobs and the ledger of attempts leaves the rest *)
(* of the database that is open.                                           *)
LEMMA JobsUpdate ==
  ASSUME TypeOK, NEW jobs \in [Jobs -> JobStates], NEW ledger \in Ledgers,
         database' = [database EXCEPT ![active].job = jobs, ![active].ledger = ledger]
  PROVE  \E N \in Databases :
           /\ database' = [database EXCEPT ![active] = N]
           /\ N.hold = db.hold /\ N.job = jobs /\ N.ledger = ledger
           /\ N.share = db.share /\ N.row = db.row /\ N.reports = db.reports
<1> DEFINE N == [db EXCEPT !.job = jobs, !.ledger = ledger]
<1>1. /\ database \in [live : Databases, restored : Databases \cup {Empty}]
      /\ active \in {"live", "restored"} /\ db = database[active] /\ db \in Databases
  BY DEF TypeOK, db
<1>2. N \in Databases
  BY <1>1 DEF Databases, JobStates
<1>3. /\ N.hold = db.hold /\ N.job = jobs /\ N.ledger = ledger
      /\ N.share = db.share /\ N.row = db.row /\ N.reports = db.reports
  BY <1>1 DEF Databases
<1>4. database' = [database EXCEPT ![active] = N]
  BY <1>1 DEF Databases
<1> QED
  BY <1>2, <1>3, <1>4

(* A step that changes the jobs alone leaves the rest.                     *)
LEMMA JobUpdate ==
  ASSUME TypeOK, NEW jobs \in [Jobs -> JobStates],
         database' = [database EXCEPT ![active].job = jobs]
  PROVE  \E N \in Databases :
           /\ database' = [database EXCEPT ![active] = N]
           /\ N.hold = db.hold /\ N.job = jobs /\ N.ledger = db.ledger
           /\ N.share = db.share /\ N.row = db.row /\ N.reports = db.reports
<1> DEFINE N == [db EXCEPT !.job = jobs]
<1>1. /\ database \in [live : Databases, restored : Databases \cup {Empty}]
      /\ active \in {"live", "restored"} /\ db = database[active] /\ db \in Databases
  BY DEF TypeOK, db
<1>2. N \in Databases
  BY <1>1 DEF Databases, JobStates
<1>3. /\ N.hold = db.hold /\ N.job = jobs /\ N.ledger = db.ledger
      /\ N.share = db.share /\ N.row = db.row /\ N.reports = db.reports
  BY <1>1 DEF Databases
<1>4. database' = [database EXCEPT ![active] = N]
  BY <1>1 DEF Databases
<1> QED
  BY <1>2, <1>3, <1>4

(* A step that holds or releases the database leaves what it knows.        *)
LEMMA HoldUpdate ==
  ASSUME TypeOK, NEW hold \in RestoreHolds \cup {"", "owner_paused"},
         NEW epoch \in Epochs,
         \/ database' = [database EXCEPT ![active].hold = hold] /\ epoch = db.epoch
         \/ database' = [database EXCEPT ![active].hold = hold, ![active].epoch = epoch]
  PROVE  \E N \in Databases :
           /\ database' = [database EXCEPT ![active] = N]
           /\ N.hold = hold /\ N.job = db.job /\ N.ledger = db.ledger
           /\ N.share = db.share /\ N.row = db.row /\ N.reports = db.reports
<1> DEFINE N == [db EXCEPT !.hold = hold, !.epoch = epoch]
<1>1. /\ database \in [live : Databases, restored : Databases \cup {Empty}]
      /\ active \in {"live", "restored"} /\ db = database[active] /\ db \in Databases
  BY DEF TypeOK, db
<1>2. N \in Databases
  BY <1>1 DEF Databases
<1>3. /\ N.hold = hold /\ N.job = db.job /\ N.ledger = db.ledger
      /\ N.share = db.share /\ N.row = db.row /\ N.reports = db.reports
  BY <1>1 DEF Databases
<1>4. database' = [database EXCEPT ![active] = N]
  <2>1. CASE database' = [database EXCEPT ![active].hold = hold] /\ epoch = db.epoch
    <3>1. N = [db EXCEPT !.hold = hold]
      BY <1>1, <2>1 DEF Databases
    <3>2. database' = [database EXCEPT ![active] = [db EXCEPT !.hold = hold]]
      BY <1>1, <2>1 DEF Databases
    <3> QED
      BY <3>1, <3>2
  <2>2. CASE database' = [database EXCEPT ![active].hold = hold, ![active].epoch = epoch]
    BY <1>1, <2>2 DEF Databases
  <2> QED
    BY <2>1, <2>2
<1> QED
  BY <1>2, <1>3, <1>4

(* Jobs: a new one, a call and its answer, a cancellation.                 *)
LEMMA JobsKeep ==
  ASSUME RestoreAssumption, RestoreInvariant, NEW j \in Jobs,
         Authorize(j) \/ Send(j) \/ Receive(j) \/ CancelJob(j)
  PROVE  RestoreInvariant'
<1>1. /\ TypeOK /\ db \in Databases
      /\ database \in [live : Databases, restored : Databases \cup {Empty}]
      /\ active \in {"live", "restored"} /\ database[active] = db
      /\ sent \in [Jobs -> Nat]
  BY DEF RestoreInvariant, TypeOK, db
<1>2. /\ db.job \in [Jobs -> JobStates] /\ db.ledger \in Ledgers
      /\ db.hold \in RestoreHolds \cup {"", "owner_paused"}
  BY <1>1 DEF Databases, JobStates
<1>3. \A i \in Jobs :
        /\ db.job[i] = "queued" => sent[i] = 0 /\ i \notin truth.cancelled
        /\ sent[i] <= IF i \in truth.cancelled THEN 0 ELSE 1
        /\ db.job[i] = "queued" \/ sent[i] > 0 \/ i \in truth.cancelled => i \in truth.issued
  BY DEF RestoreInvariant, JobsAreSentOnce
<1>4. CASE Authorize(j)
  <2>1. PICK jobs \in [Jobs -> JobStates] : jobs = [db.job EXCEPT ![j] = "queued"]
    BY <1>2 DEF JobStates
  <2>2. database' = [database EXCEPT ![active].job = jobs]
    BY <1>1, <1>4, <2>1 DEF Authorize, Databases
  <2>3. /\ truth' = [truth EXCEPT !.issued = @ \cup {j}] /\ j \notin truth.issued
        /\ UNCHANGED <<config, evidence, active, backup, sent>>
    BY <1>4 DEF Authorize
  <2>4. truth' \in Truths /\ UNCHANGED Decides
        /\ truth'.issued = truth.issued \cup {j} /\ truth'.cancelled = truth.cancelled
    BY <1>1, <2>3 DEF TypeOK, Truths, Decides
  <2>5. PICK N \in Databases :
          /\ database' = [database EXCEPT ![active] = N]
          /\ N.hold = db.hold /\ N.job = jobs /\ N.ledger = db.ledger
          /\ N.share = db.share /\ N.row = db.row /\ N.reports = db.reports
    BY <1>1, <2>2, JobUpdate
  <2>6. ASSUME NEW i \in Jobs
        PROVE  /\ jobs[i] = "queued" => sent[i] = 0 /\ i \notin truth'.cancelled
               /\ jobs[i] = "queued" \/ sent[i] > 0 \/ i \in truth'.cancelled => i \in truth'.issued
    <3>1. jobs[i] = "queued" => i = j \/ db.job[i] = "queued"
      BY <1>2, <2>1
    <3>2. sent[j] = 0 /\ j \notin truth.cancelled
      BY <1>1, <1>3, <2>3
    <3> QED
      BY <1>3, <2>4, <3>1, <3>2
  <2> QED
    BY <1>1, <1>3, <2>3, <2>4, <2>5, <2>6, JobsStep
<1>5. CASE Send(j)
  <2>1. PICK jobs \in [Jobs -> JobStates] : jobs = [db.job EXCEPT ![j] = "running"]
    BY <1>2 DEF JobStates
  <2>2. PICK ledger \in Ledgers : ledger = [db.ledger EXCEPT ![j] = "dispatching"]
    BY <1>2 DEF Ledgers
  <2>3. database' = [database EXCEPT ![active].job = jobs, ![active].ledger = ledger]
    BY <1>1, <1>5, <2>1, <2>2 DEF Send, Databases
  <2>4. /\ sent' = [sent EXCEPT ![j] = @ + 1] /\ db.job[j] = "queued" /\ Executes(db)
        /\ UNCHANGED <<config, evidence, active, backup, truth>>
    BY <1>5 DEF Send
  <2>5. sent' \in [Jobs -> Nat] /\ sent'[j] = 1 /\ \A i \in Jobs \ {j} : sent'[i] = sent[i]
    BY <1>1, <1>3, <2>4
  <2>6. PICK N \in Databases :
          /\ database' = [database EXCEPT ![active] = N]
          /\ N.hold = db.hold /\ N.job = jobs /\ N.ledger = ledger
          /\ N.share = db.share /\ N.row = db.row /\ N.reports = db.reports
    <3>1. TypeOK /\ jobs \in [Jobs -> JobStates] /\ ledger \in Ledgers
      BY <1>1
    <3> QED
      BY <2>3, <3>1, JobsUpdate
  <2>7. config.mode # "quarantine"
    BY <2>4 DEF Executes, EvidenceAgrees, RestoreInvariant
  <2>8. truth' \in Truths /\ UNCHANGED Decides
    BY <1>1, <2>4 DEF TypeOK, Truths, Decides
  <2>9. ASSUME NEW i \in Jobs
        PROVE  /\ db.ledger[i] # "none" \/ sent'[i] # sent[i] => ledger[i] # "none"
               /\ jobs[i] = "queued" => sent'[i] = 0 /\ i \notin truth.cancelled
               /\ sent'[i] <= IF i \in truth.cancelled THEN 0 ELSE 1
               /\ jobs[i] = "queued" \/ sent'[i] > 0 \/ i \in truth.cancelled => i \in truth.issued
    <3>1. CASE i = j
      <4>1. jobs[i] = "running" /\ ledger[i] = "dispatching"
        BY <1>2, <2>1, <2>2, <3>1 DEF Ledgers
      <4> QED
        BY <1>3, <2>4, <2>5, <3>1, <4>1
    <3>2. CASE i # j
      <4>1. jobs[i] = db.job[i] /\ ledger[i] = db.ledger[i]
        BY <1>2, <2>1, <2>2, <3>2 DEF Ledgers
      <4> QED
        BY <1>3, <2>5, <3>2, <4>1
    <3> QED
      BY <3>1, <3>2
  <2> QED
    BY <2>4, <2>5, <2>6, <2>7, <2>8, <2>9, JobsStep
<1>6. CASE Receive(j)
  <2>1. PICK jobs \in [Jobs -> JobStates] :
          /\ jobs = [db.job EXCEPT ![j] = IF @ = "running" THEN "done" ELSE @]
          /\ \A i \in Jobs : jobs[i] = "queued" => db.job[i] = "queued"
    <3> DEFINE next == [db.job EXCEPT ![j] = IF @ = "running" THEN "done" ELSE @]
    <3>1. next \in [Jobs -> JobStates]
      BY <1>2 DEF JobStates
    <3>2. \A i \in Jobs : next[i] = "queued" => db.job[i] = "queued"
      BY <1>2
    <3> QED
      BY <3>1, <3>2
  <2>2. PICK ledger \in Ledgers : ledger = [db.ledger EXCEPT ![j] = "received"]
    BY <1>2 DEF Ledgers
  <2>3. database' = [database EXCEPT ![active].job = jobs, ![active].ledger = ledger]
    BY <1>1, <1>6, <2>1, <2>2 DEF Receive, Databases
  <2>4. UNCHANGED <<config, evidence, active, backup, truth, sent>>
    BY <1>6 DEF Receive
  <2>5. \A i \in Jobs : db.ledger[i] # "none" => ledger[i] # "none"
    BY <1>2, <2>2 DEF Ledgers
  <2>6. truth' \in Truths /\ UNCHANGED Decides
    BY <1>1, <2>4 DEF TypeOK, Truths, Decides
  <2>7. PICK N \in Databases :
          /\ database' = [database EXCEPT ![active] = N]
          /\ N.hold = db.hold /\ N.job = jobs /\ N.ledger = ledger
          /\ N.share = db.share /\ N.row = db.row /\ N.reports = db.reports
    <3>1. TypeOK /\ jobs \in [Jobs -> JobStates] /\ ledger \in Ledgers
      BY <1>1
    <3> QED
      BY <2>3, <3>1, JobsUpdate
  <2>8. \A i \in Jobs :
          /\ jobs[i] = "queued" => sent'[i] = 0 /\ i \notin truth'.cancelled
          /\ sent'[i] <= IF i \in truth'.cancelled THEN 0 ELSE 1
          /\ jobs[i] = "queued" \/ sent'[i] > 0 \/ i \in truth'.cancelled => i \in truth'.issued
    BY <1>3, <2>1, <2>4
  <2> QED
    BY <1>1, <2>4, <2>5, <2>6, <2>7, <2>8, JobsStep
<1>7. CASE CancelJob(j)
  <2>1. PICK jobs \in [Jobs -> JobStates] : jobs = [db.job EXCEPT ![j] = "cancelled"]
    BY <1>2 DEF JobStates
  <2>2. database' = [database EXCEPT ![active].job = jobs]
    BY <1>1, <1>7, <2>1 DEF CancelJob, Databases
  <2>3. /\ truth' = [truth EXCEPT !.cancelled = @ \cup {j}] /\ db.job[j] = "queued"
        /\ UNCHANGED <<config, evidence, active, backup, sent>>
    BY <1>7 DEF CancelJob
  <2>4. truth' \in Truths /\ UNCHANGED Decides
        /\ truth'.cancelled = truth.cancelled \cup {j} /\ truth'.issued = truth.issued
    BY <1>1, <2>3 DEF TypeOK, Truths, Decides
  <2>5. PICK N \in Databases :
          /\ database' = [database EXCEPT ![active] = N]
          /\ N.hold = db.hold /\ N.job = jobs /\ N.ledger = db.ledger
          /\ N.share = db.share /\ N.row = db.row /\ N.reports = db.reports
    BY <1>1, <2>2, JobUpdate
  <2>6. ASSUME NEW i \in Jobs
        PROVE  /\ jobs[i] = "queued" => sent[i] = 0 /\ i \notin truth'.cancelled
               /\ sent[i] <= IF i \in truth'.cancelled THEN 0 ELSE 1
               /\ jobs[i] = "queued" \/ sent[i] > 0 \/ i \in truth'.cancelled => i \in truth'.issued
    <3>1. jobs[i] = "queued" => i # j /\ db.job[i] = "queued"
      BY <1>2, <2>1
    <3>2. sent[j] = 0 /\ j \in truth.issued
      BY <1>3, <2>3
    <3> QED
      BY <1>3, <2>4, <3>1, <3>2
  <2> QED
    BY <1>1, <2>3, <2>4, <2>5, <2>6, JobsStep
<1> QED
  BY <1>4, <1>5, <1>6, <1>7

(* A pause.                                                                *)
LEMMA PauseKeeps ==
  ASSUME RestoreAssumption, RestoreInvariant, Pause
  PROVE  RestoreInvariant'
<1>1. /\ TypeOK /\ db.epoch \in Epochs
      /\ "owner_paused" \in RestoreHolds \cup {"", "owner_paused"}
  BY DEF RestoreInvariant, TypeOK, Databases
<1>2. /\ database' = [database EXCEPT ![active].hold = "owner_paused"] /\ db.hold = ""
      /\ UNCHANGED <<config, evidence, active, backup, truth, sent>>
  BY DEF Pause
<1>3. PICK N \in Databases :
        /\ database' = [database EXCEPT ![active] = N]
        /\ N.hold = "owner_paused" /\ N.job = db.job /\ N.ledger = db.ledger
        /\ N.share = db.share /\ N.row = db.row /\ N.reports = db.reports
  BY <1>1, <1>2, HoldUpdate
<1>4. truth' \in Truths /\ sent' \in [Jobs -> Nat] /\ UNCHANGED Decides
  BY <1>1, <1>2 DEF TypeOK, Truths, Decides
<1>5. \A i \in Jobs :
        /\ N.job[i] = "queued" => sent'[i] = 0 /\ i \notin truth'.cancelled
        /\ sent'[i] <= IF i \in truth'.cancelled THEN 0 ELSE 1
        /\ N.job[i] = "queued" \/ sent'[i] > 0 \/ i \in truth'.cancelled => i \in truth'.issued
  BY <1>2, <1>3 DEF RestoreInvariant, JobsAreSentOnce
<1> QED
  BY <1>2, <1>3, <1>4, <1>5, JobsStep

(* Writing is resumed: on a restored database only under a report.         *)
LEMMA ActivateKeeps ==
  ASSUME RestoreAssumption, RestoreInvariant, NEW resume \in BOOLEAN, Activate(resume)
  PROVE  RestoreInvariant'
<1>1. TypeOK /\ config.epoch \in Epochs /\ "" \in RestoreHolds \cup {"", "owner_paused"}
  BY DEF RestoreInvariant, TypeOK
<1>2. PICK N \in Databases :
        /\ database' = [database EXCEPT ![active] = N]
        /\ N.hold = "" /\ N.job = db.job /\ N.ledger = db.ledger
        /\ N.share = db.share /\ N.row = db.row /\ N.reports = db.reports
  <2>1. database' = [database EXCEPT ![active].hold = "", ![active].epoch = config.epoch]
    BY DEF Activate
  <2> QED
    BY <1>1, <2>1, HoldUpdate
<1>3. /\ UNCHANGED <<config, evidence, active, backup, truth, sent>>
      /\ db.hold = "restore_quarantine" => Reported(db)
  BY DEF Activate, RestoreHolds
<1>4. Agrees(db.share, db.row, db.ledger)
  BY <1>3 DEF RestoreInvariant, CurrentAgrees
<1>5. Agrees(N.share, N.row, N.ledger)'
  BY <1>2, <1>3, <1>4 DEF Agrees
<1>6. truth' \in Truths /\ sent' \in [Jobs -> Nat] /\ UNCHANGED Decides
  BY <1>1, <1>3 DEF TypeOK, Truths, Decides
<1>7. \A i \in Jobs :
        /\ N.job[i] = "queued" => sent'[i] = 0 /\ i \notin truth'.cancelled
        /\ sent'[i] <= IF i \in truth'.cancelled THEN 0 ELSE 1
        /\ N.job[i] = "queued" \/ sent'[i] > 0 \/ i \in truth'.cancelled => i \in truth'.issued
  BY <1>2, <1>3 DEF RestoreInvariant, JobsAreSentOnce
<1> QED
  BY <1>2, <1>3, <1>5, <1>6, <1>7, ServicesStep

-----------------------------------------------------------------------------
(* The operator.                                                           *)

(* What members and owners decided and what was sent is not the operator's. *)
LEMMA AgreesStays ==
  ASSUME UNCHANGED <<truth, sent>>
  PROVE  \A share, row, calls : Agrees(share, row, calls) <=> Agrees(share, row, calls)'
  BY DEF Agrees

(* A snapshot.                                                             *)
LEMMA BackupKeeps ==
  ASSUME RestoreInvariant, Backup
  PROVE  RestoreInvariant'
<1>1. /\ backup' = db /\ UNCHANGED <<config, evidence, database, active, truth, sent>>
      /\ db' = db
  BY DEF Backup, db
<1>2. TypeOK'
  BY <1>1 DEF RestoreInvariant, TypeOK
<1>3. CurrentAgrees' /\ EvidenceAgrees' /\ RestoredAgrees' /\ JobsAreSentOnce'
  BY <1>1, AgreesStays DEF RestoreInvariant, CurrentAgrees, EvidenceAgrees, RestoredAgrees,
     JobsAreSentOnce, Reported
<1>4. NeverItsOwnEvidence'
  BY <1>1 DEF RestoreInvariant, NeverItsOwnEvidence
<1> QED
  BY <1>2, <1>3, <1>4 DEF RestoreInvariant

(* Every service enters quarantine: whatever epoch is named, there is no   *)
(* evidence yet, so no report is in force.                                 *)
LEMMA EnterKeeps ==
  ASSUME RestoreAssumption, RestoreInvariant, NEW epoch \in Epochs, Enter(epoch)
  PROVE  RestoreInvariant'
<1>1. /\ config' = [mode |-> "quarantine", restore |-> epoch, epoch |-> epoch, emergency |-> TRUE,
                    restores |-> config.restores + 1]
      /\ evidence' = Unwritten /\ active' = "live"
      /\ database' = [live |-> db, restored |-> Empty]
      /\ UNCHANGED <<backup, truth, sent>> /\ config.restores < MaxRestores
  BY DEF Enter
<1>2. db' = db /\ database'.restored = Empty
  BY <1>1 DEF db
<1>3. TypeOK /\ db \in Databases
  BY DEF RestoreInvariant, TypeOK
<1>4. TypeOK'
  <2>1. config' \in [mode : {"database", "quarantine"}, restore : {0} \cup Epochs, epoch : Epochs,
                     emergency : BOOLEAN, restores : 0 .. MaxRestores]
    <3>1. config.restores + 1 \in 0 .. MaxRestores
      BY <1>1, <1>3 DEF TypeOK, RestoreAssumption
    <3> QED
      BY <1>1, <3>1
  <2>2. evidence' \in Evidences
    BY <1>1 DEF Evidences
  <2>3. database' \in [live : Databases, restored : Databases \cup {Empty}] /\ db' \in Databases
    BY <1>1, <1>2, <1>3
  <2> QED
    BY <1>1, <1>3, <2>1, <2>2, <2>3 DEF TypeOK
<1>5. CurrentAgrees'
  <2>1. ~Reported(db)'
    <3>1. db.reports[epoch].reconciled => db.reports[epoch].evidence # Unwritten
      BY <1>3, Distinct DEF RestoreInvariant, NeverItsOwnEvidence
    <3>2. config'.restore = epoch
      BY <1>1
    <3> QED
      BY <1>1, <1>2, <3>1, <3>2 DEF Reported
  <2>2. db.hold = "restore_quarantine" \/ Agrees(db.share, db.row, db.ledger)
    BY DEF RestoreInvariant, CurrentAgrees
  <2> QED
    BY <1>1, <1>2, <2>1, <2>2, AgreesStays DEF CurrentAgrees
<1>6. EvidenceAgrees'
  <2>1. config'.emergency /\ config'.restore # 0
    BY <1>1 DEF Epochs, RestoreAssumption
  <2> QED
    BY <1>1, <2>1 DEF EvidenceAgrees
<1>7. RestoredAgrees'
  BY <1>2 DEF RestoredAgrees
<1>8. NeverItsOwnEvidence'
  <2>1. \A d \in {db, backup} \ {Empty} : \A e \in Epochs :
          d.reports[e].reconciled => d.reports[e].evidence # Unwritten
    BY DEF RestoreInvariant, NeverItsOwnEvidence
  <2> QED
    BY <1>1, <1>2, <2>1 DEF NeverItsOwnEvidence
<1>9. JobsAreSentOnce'
  BY <1>1, <1>2 DEF RestoreInvariant, JobsAreSentOnce
<1> QED
  BY <1>4, <1>5, <1>6, <1>7, <1>8, <1>9 DEF RestoreInvariant

(* The current database becomes the evidence, unless a restore holds it.   *)
LEMMA ExportKeeps ==
  ASSUME RestoreInvariant, Export
  PROVE  RestoreInvariant'
<1>1. /\ evidence' = [exported |-> TRUE, share |-> db.share, row |-> db.row,
                      financial |-> Financial(db)]
      /\ db.hold # "restore_quarantine" /\ config.mode = "quarantine"
      /\ UNCHANGED <<config, database, active, backup, truth, sent>> /\ db' = db
  BY DEF Export, Quarantine, db
<1>2. TypeOK /\ db \in Databases
  BY DEF RestoreInvariant, TypeOK
<1>3. Financial(db) \in Ledgers /\ \A j \in Jobs : Financial(db)[j] = "none" <=> db.ledger[j] = "none"
  BY <1>2, FinancialType
<1>4. TypeOK'
  <2>1. evidence' \in Evidences
    BY <1>1, <1>2, <1>3 DEF Evidences, Databases
  <2> QED
    BY <1>1, <1>2, <2>1 DEF TypeOK
<1>5. Agrees(db.share, db.row, db.ledger)
  BY <1>1 DEF RestoreInvariant, CurrentAgrees
<1>6. CurrentAgrees'
  BY <1>1, <1>5, AgreesStays DEF CurrentAgrees
<1>7. EvidenceAgrees'
  <2>1. /\ evidence'.share = db.share /\ evidence'.row = db.row
        /\ evidence'.financial = Financial(db)
    BY <1>1
  <2>2. Agrees(evidence.share, evidence.row, evidence.financial)'
    BY <1>1, <1>3, <1>5, <2>1 DEF Agrees
  <2> QED
    BY <1>1, <2>2 DEF RestoreInvariant, EvidenceAgrees
<1>8. RestoredAgrees'
  BY <1>1, AgreesStays DEF RestoreInvariant, RestoredAgrees
<1>9. NeverItsOwnEvidence'
  BY <1>1 DEF RestoreInvariant, NeverItsOwnEvidence
<1>10. JobsAreSentOnce'
  BY <1>1 DEF RestoreInvariant, JobsAreSentOnce
<1> QED
  BY <1>4, <1>6, <1>7, <1>8, <1>9, <1>10 DEF RestoreInvariant

(* In a quarantine the restored database is replaced by one whose report,  *)
(* if it is reconciled, rests on evidence, and that agrees when it is.     *)
LEMMA RestoredStep ==
  ASSUME RestoreAssumption, RestoreInvariant, Quarantine, NEW N \in Databases,
         database' = [database EXCEPT !.restored = N],
         UNCHANGED <<config, evidence, active, backup, truth, sent>>,
         \A e \in Epochs : N.reports[e].reconciled => N.reports[e].evidence # Unwritten,
         \/ N.hold = "restore_quarantine" /\ ~N.reports[config.restore].reconciled
         \/ Agrees(N.share, N.row, N.ledger),
         \A j \in Jobs : N.job[j] # "queued"
  PROVE  RestoreInvariant'
<1>1. TypeOK /\ active = "live"
  BY DEF RestoreInvariant, EvidenceAgrees, Quarantine
<1>2. /\ database' \in [live : Databases, restored : Databases \cup {Empty}]
      /\ database'.restored = N /\ db' = db
  BY <1>1 DEF TypeOK, db
<1>3. TypeOK'
  BY <1>1, <1>2 DEF TypeOK
<1>4. CurrentAgrees'
  BY <1>2, AgreesStays DEF RestoreInvariant, CurrentAgrees, Reported
<1>5. EvidenceAgrees'
  BY AgreesStays DEF RestoreInvariant, EvidenceAgrees
<1>6. RestoredAgrees'
  BY <1>2, AgreesStays DEF RestoredAgrees
<1>7. NeverItsOwnEvidence'
  <2>1. \A d \in {db, backup} \ {Empty} : \A e \in Epochs :
          d.reports[e].reconciled => d.reports[e].evidence # Unwritten
    BY DEF RestoreInvariant, NeverItsOwnEvidence
  <2>2. active' = "live" /\ db'.hold = "restore_quarantine" => evidence' = Unwritten
    BY <1>2 DEF RestoreInvariant, NeverItsOwnEvidence
  <2> QED
    BY <1>2, <2>1, <2>2 DEF NeverItsOwnEvidence
<1>8. JobsAreSentOnce'
  BY <1>2 DEF RestoreInvariant, JobsAreSentOnce
<1> QED
  BY <1>3, <1>4, <1>5, <1>6, <1>7, <1>8 DEF RestoreInvariant

(* What a reconciliation leaves agrees if its report is reconciled, or if  *)
(* the ledger did before.                                                  *)
LEMMA ReconciledAgrees ==
  ASSUME RestoreAssumption, RestoreInvariant, Quarantine, NEW d \in Databases,
         NEW current \in {evidence, Unwritten}, NEW intact \in BOOLEAN,
         \A e \in Epochs : d.reports[e].reconciled => d.reports[e].evidence # Unwritten,
         \A j \in Jobs : d.job[j] # "queued",
         d.hold # "restore_quarantine" => \A j \in Jobs : sent[j] > 0 => d.ledger[j] # "none"
  PROVE  LET r == Reconciled(d, current, intact) IN
         /\ r \in Databases
         /\ \A e \in Epochs : r.reports[e].reconciled => r.reports[e].evidence # Unwritten
         /\ \/ r.hold = "restore_quarantine" /\ ~r.reports[config.restore].reconciled
            \/ Agrees(r.share, r.row, r.ledger)
         /\ \A j \in Jobs : r.job[j] # "queued"
<1>1. /\ TypeOK /\ config.restore \in Epochs
      /\ current # Unwritten => Agrees(current.share, current.row, current.financial)
  BY DEF RestoreInvariant, TypeOK, EvidenceAgrees, Quarantine
<1>2. PICK r \in Databases :
         /\ r = Reconciled(d, current, intact)
         /\ r.hold = d.hold /\ r.job = d.job /\ r.ledger = d.ledger
         /\ r.share = Decided(d.share, current) /\ r.row = Rebound(d.row, current)
         /\ r.reports[config.restore].reconciled =>
              /\ current # Unwritten /\ current.financial = Financial(d)
              /\ r.reports[config.restore].evidence = current
         /\ \A e \in Epochs \ {config.restore} : r.reports[e] = d.reports[e]
  <2> DEFINE q == Reconciled(d, current, intact)
  <2>1. /\ q \in Databases
        /\ q.hold = d.hold /\ q.job = d.job /\ q.ledger = d.ledger
        /\ q.share = Decided(d.share, current) /\ q.row = Rebound(d.row, current)
        /\ q.reports[config.restore].reconciled =>
              /\ current # Unwritten /\ current.financial = Financial(d)
              /\ q.reports[config.restore].evidence = current
        /\ \A e \in Epochs \ {config.restore} : q.reports[e] = d.reports[e]
    BY <1>1, ReconciledType
  <2> HIDE DEF q
  <2>2. q = Reconciled(d, current, intact)
    BY DEF q
  <2> QED
    BY <2>1, <2>2
<1>3. \A e \in Epochs : r.reports[e].reconciled => r.reports[e].evidence # Unwritten
  BY <1>2
<1>4. /\ d.share \in Shares /\ d.row \in Rows /\ current \in Evidences
      /\ \A j \in Jobs : Financial(d)[j] = "none" <=> d.ledger[j] = "none"
  <2>1. Unwritten \in Evidences
    BY DEF Evidences
  <2>2. current \in Evidences
    BY <1>1, <2>1 DEF TypeOK
  <2>3. d.share \in Shares /\ d.row \in Rows
    BY DEF Databases
  <2> QED
    BY <2>2, <2>3, FinancialType
<1>5. ASSUME r.hold # "restore_quarantine" \/ r.reports[config.restore].reconciled
      PROVE  Agrees(r.share, r.row, r.ledger)
  <2>1. r.share.allowed => truth.allowed /\ truth.token = r.share.token
    BY <1>1, <1>2, <1>4, DecidedType DEF Agrees
  <2>2. ~r.row.held => truth.withdrawn = r.row.withdrawn /\ truth.article = r.row.article
    BY <1>1, <1>2, <1>4, ReboundType DEF Agrees
  <2>3. ASSUME NEW j \in Jobs, sent[j] > 0 PROVE r.ledger[j] # "none"
    BY <1>1, <1>2, <1>4, <1>5, <2>3 DEF Agrees
  <2> QED
    BY <2>1, <2>2, <2>3 DEF Agrees
<1> QED
  BY <1>2, <1>3, <1>5

(* A backup is loaded and reconciled, or reconciled again.                 *)
LEMMA ReconcileKeeps ==
  ASSUME RestoreAssumption, RestoreInvariant,
         NEW current \in {evidence, Unwritten}, NEW intact \in BOOLEAN,
         Restore(current, intact) \/ Reconcile(current, intact)
  PROVE  RestoreInvariant'
<1>1. /\ Quarantine /\ TypeOK /\ config.mode = "quarantine"
      /\ UNCHANGED <<config, evidence, active, backup, truth, sent>>
  BY DEF Restore, Reconcile, Quarantine, RestoreInvariant
<1>2. \A d \in {database.restored, backup} \ {Empty} : \A e \in Epochs :
        d.reports[e].reconciled => d.reports[e].evidence # Unwritten
  BY DEF RestoreInvariant, NeverItsOwnEvidence
<1>3. CASE Restore(current, intact)
  <2>1. /\ backup \in Databases /\ backup # Empty
        /\ database' = [database EXCEPT !.restored = Reconciled(Quarantined(backup), current, intact)]
    BY <1>1, <1>3 DEF Restore, Fresh, TypeOK
  <2>2. PICK d \in Databases :
          /\ d = Quarantined(backup) /\ d.hold = "restore_quarantine"
          /\ d.reports = backup.reports /\ \A j \in Jobs : d.job[j] # "queued"
    <3> DEFINE q == Quarantined(backup)
    <3>1. /\ q \in Databases /\ q.hold = "restore_quarantine"
          /\ q.reports = backup.reports /\ \A j \in Jobs : q.job[j] # "queued"
      BY <2>1, QuarantinedType
    <3> QED
      BY <3>1
  <2>3. \A e \in Epochs : d.reports[e].reconciled => d.reports[e].evidence # Unwritten
    BY <1>2, <2>1, <2>2
  <2> QED
    BY <1>1, <2>1, <2>2, <2>3, ReconciledAgrees, RestoredStep
<1>4. CASE Reconcile(current, intact)
  <2>1. /\ database.restored \in Databases /\ database.restored # Empty
        /\ database' = [database EXCEPT !.restored = Reconciled(database.restored, current, intact)]
    BY <1>1, <1>4 DEF Reconcile, TypeOK
  <2>2. PICK d \in Databases : d = database.restored
    BY <2>1
  <2>3. /\ \A j \in Jobs : d.job[j] # "queued"
        /\ d.hold # "restore_quarantine" => \A j \in Jobs : sent[j] > 0 => d.ledger[j] # "none"
        /\ \A e \in Epochs : d.reports[e].reconciled => d.reports[e].evidence # Unwritten
    BY <1>1, <1>2, <2>1, <2>2 DEF RestoreInvariant, RestoredAgrees, Agrees
  <2> QED
    BY <1>1, <2>1, <2>2, <2>3, ReconciledAgrees, RestoredStep
<1> QED
  BY <1>3, <1>4

(* A database is reopened under a report, so it agrees.                    *)
LEMMA ReopenKeeps ==
  ASSUME RestoreAssumption, RestoreInvariant, Reopen
  PROVE  RestoreInvariant'
<1>1. /\ Quarantine /\ TypeOK /\ config.mode = "quarantine" /\ config.restore \in Epochs
      /\ UNCHANGED <<config, evidence, active, backup, truth, sent>>
      /\ database.restored \in Databases /\ database.restored # Empty
      /\ Reported(database.restored)
  BY DEF Reopen, Quarantine, Reported, RestoreInvariant, TypeOK
<1>2. PICK d \in Databases : d = database.restored
  BY <1>1
<1>3. /\ d.serving \in [epoch : Epochs, quarantined : BOOLEAN] /\ d.row \in Rows
  BY DEF Databases
<1>4. PICK row \in Rows :
        /\ row = [d.row EXCEPT !.epoch = config.restore]
        /\ row.held = d.row.held /\ row.withdrawn = d.row.withdrawn /\ row.article = d.row.article
  <2> DEFINE r == [d.row EXCEPT !.epoch = config.restore]
  <2>1. /\ r \in Rows
        /\ r.held = d.row.held /\ r.withdrawn = d.row.withdrawn /\ r.article = d.row.article
    BY <1>1, <1>3 DEF Rows
  <2> QED
    BY <2>1
<1>5. PICK serving \in [epoch : Epochs, quarantined : BOOLEAN] :
        serving = [epoch |-> config.restore, quarantined |-> FALSE]
  BY <1>1
<1>6. PICK N \in Databases :
        /\ N = [d EXCEPT !.serving = serving, !.hold = "restore_reconciled", !.row = row]
        /\ N.share = d.share /\ N.row = row /\ N.ledger = d.ledger /\ N.job = d.job
        /\ N.reports = d.reports
  <2> DEFINE n == [d EXCEPT !.serving = serving, !.hold = "restore_reconciled", !.row = row]
  <2>1. n \in Databases
    BY DEF Databases, RestoreHolds
  <2>2. /\ n.share = d.share /\ n.row = row /\ n.ledger = d.ledger /\ n.job = d.job
        /\ n.reports = d.reports
    BY DEF Databases
  <2> QED
    BY <2>1, <2>2
<1>7. database' = [database EXCEPT !.restored = N]
  <2>1. database' = [database EXCEPT !.restored.serving = serving,
                       !.restored.hold = "restore_reconciled", !.restored.row.epoch = config.restore]
    BY <1>5 DEF Reopen
  <2>2. database \in [live : Databases, restored : Databases \cup {Empty}]
    BY <1>1 DEF TypeOK
  <2> QED
    BY <1>2, <1>4, <1>6, <2>1, <2>2 DEF Databases
<1>8. \A e \in Epochs : N.reports[e].reconciled => N.reports[e].evidence # Unwritten
  BY <1>1, <1>2, <1>6 DEF RestoreInvariant, NeverItsOwnEvidence
<1>9. Agrees(d.share, d.row, d.ledger) /\ \A j \in Jobs : d.job[j] # "queued"
  BY <1>1, <1>2 DEF RestoreInvariant, RestoredAgrees, Reported
<1>10. Agrees(N.share, N.row, N.ledger)
  <2>1. ~row.held => truth.withdrawn = row.withdrawn /\ truth.article = row.article
    BY <1>4, <1>9 DEF Agrees
  <2> QED
    BY <1>6, <1>9, <2>1 DEF Agrees
<1> QED
  BY <1>1, <1>6, <1>7, <1>8, <1>9, <1>10, RestoredStep

(* The services use a database that agrees, or one that is held.           *)
LEMMA ServeKeeps ==
  ASSUME RestoreAssumption, RestoreInvariant, NEW which \in DOMAIN database, Serve(which)
  PROVE  RestoreInvariant'
<1>1. /\ Quarantine /\ TypeOK /\ config.mode = "quarantine" /\ active = "live"
      /\ database \in [live : Databases, restored : Databases \cup {Empty}]
      /\ which \in {"live", "restored"} /\ database[which] # Empty
      /\ config' = [config EXCEPT !.mode = "database", !.emergency = FALSE] /\ active' = which
      /\ UNCHANGED <<evidence, database, backup, truth, sent>>
  BY DEF Serve, Quarantine, RestoreInvariant, TypeOK, EvidenceAgrees
<1>2. db' = database[which] /\ db = database.live
  BY <1>1 DEF db
<1>3. /\ config'.mode = "database" /\ config'.restore = config.restore
      /\ config'.epoch = config.epoch
      /\ config' \in [mode : {"database", "quarantine"}, restore : {0} \cup Epochs, epoch : Epochs,
                      emergency : BOOLEAN, restores : 0 .. MaxRestores]
  BY <1>1 DEF TypeOK
<1>4. TypeOK'
  BY <1>1, <1>2, <1>3 DEF TypeOK
<1>5. CurrentAgrees'
  <2>1. CASE which = "live"
    <3>1. db' = db
      BY <1>2, <2>1
    <3>2. Reported(db)' => Reported(db)
      BY <1>1, <1>3, <3>1 DEF Reported
    <3> QED
      BY <1>1, <3>1, <3>2, AgreesStays DEF RestoreInvariant, CurrentAgrees
  <2>2. CASE which = "restored"
    <3>1. db' = database.restored
      BY <1>2, <2>2
    <3>2. Reported(db)' => db'.reports[config.restore].reconciled
      BY <1>3 DEF Reported
    <3>3. \/ db'.hold = "restore_quarantine" /\ ~db'.reports[config.restore].reconciled
          \/ Agrees(database.restored.share, database.restored.row, database.restored.ledger)
      BY <1>1, <2>2, <3>1 DEF RestoreInvariant, RestoredAgrees
    <3> QED
      BY <1>1, <3>1, <3>2, <3>3, AgreesStays DEF CurrentAgrees
  <2> QED
    BY <1>1, <2>1, <2>2
<1>6. EvidenceAgrees' /\ RestoredAgrees'
  BY <1>3 DEF EvidenceAgrees, RestoredAgrees
<1>7. NeverItsOwnEvidence'
  <2>1. db' \in {db, database.restored}
    BY <1>1, <1>2
  <2>2. active' = "live" => db' = db
    BY <1>1, <1>2
  <2> QED
    BY <1>1, <2>1, <2>2 DEF RestoreInvariant, NeverItsOwnEvidence
<1>8. JobsAreSentOnce'
  <2>1. \A j \in Jobs : db'.job[j] = "queued" => db.job[j] = "queued"
    BY <1>1, <1>2 DEF RestoreInvariant, RestoredAgrees
  <2> QED
    BY <1>1, <2>1 DEF RestoreInvariant, JobsAreSentOnce
<1> QED
  BY <1>4, <1>5, <1>6, <1>7, <1>8 DEF RestoreInvariant

-----------------------------------------------------------------------------
(* The theorems.                                                           *)

(* Every step keeps the invariant.                                         *)
LEMMA RestoreNext ==
  ASSUME RestoreAssumption, RestoreInvariant, [Next]_restoreVars
  PROVE  RestoreInvariant'
<1>1. CASE \E enabled \in BOOLEAN : ChangeShare(enabled)
  BY <1>1, DecisionsKeep
<1>2. CASE Withdraw \/ Correct
  BY <1>2, DecisionsKeep
<1>3. ASSUME NEW j \in Jobs, Authorize(j) \/ Send(j) \/ Receive(j) \/ CancelJob(j)
      PROVE  RestoreInvariant'
  BY <1>3, JobsKeep
<1>4. ASSUME NEW resume \in BOOLEAN, Activate(resume) PROVE RestoreInvariant'
  BY <1>4, ActivateKeeps
<1>5. CASE Pause
  BY <1>5, PauseKeeps
<1>6. CASE Backup \/ Export
  BY <1>6, BackupKeeps, ExportKeeps
<1>7. ASSUME NEW epoch \in Epochs, Enter(epoch) PROVE RestoreInvariant'
  BY <1>7, EnterKeeps
<1>8. ASSUME NEW current \in {evidence, Unwritten}, NEW intact \in BOOLEAN,
             Restore(current, intact) \/ Reconcile(current, intact)
      PROVE  RestoreInvariant'
  BY <1>8, ReconcileKeeps
<1>9. CASE Reopen
  BY <1>9, ReopenKeeps
<1>10. ASSUME NEW which \in DOMAIN database, Serve(which) PROVE RestoreInvariant'
  BY <1>10, ServeKeeps
<1>11. CASE UNCHANGED restoreVars
  <2>1. /\ UNCHANGED <<config, evidence, database, active, backup, truth, sent>> /\ db' = db
    BY <1>11 DEF restoreVars, db
  <2>2. TypeOK'
    BY <2>1 DEF RestoreInvariant, TypeOK
  <2>3. CurrentAgrees' /\ EvidenceAgrees' /\ RestoredAgrees' /\ JobsAreSentOnce'
    BY <2>1, AgreesStays DEF RestoreInvariant, CurrentAgrees, EvidenceAgrees, RestoredAgrees,
       JobsAreSentOnce, Reported
  <2>4. NeverItsOwnEvidence'
    BY <2>1 DEF RestoreInvariant, NeverItsOwnEvidence
  <2> QED
    BY <2>2, <2>3, <2>4 DEF RestoreInvariant
<1> QED
  BY <1>1, <1>2, <1>3, <1>4, <1>5, <1>6, <1>7, <1>8, <1>9, <1>10, <1>11 DEF Next

(* What a restore leaves in force is known to agree with what happened     *)
(* since the backup: the inductive invariant always holds.                 *)
THEOREM RestoreIsSound == RestoreAssumption => (Spec => []RestoreInvariant)
<1> SUFFICES ASSUME RestoreAssumption
             PROVE  Spec => []RestoreInvariant
  OBVIOUS
<1>1. Init => RestoreInvariant
  BY RestoreInit
<1>2. RestoreInvariant /\ [Next]_restoreVars => RestoreInvariant'
  BY RestoreNext
<1> QED
  BY <1>1, <1>2, PTL DEF Spec

(* The databases, the evidence and the reports have their types.           *)
THEOREM RestoreTypes == RestoreAssumption => (Spec => []TypeOK)
<1> SUFFICES ASSUME RestoreAssumption
             PROVE  Spec => []TypeOK
  OBVIOUS
<1>1. RestoreInvariant => TypeOK
  BY DEF RestoreInvariant
<1> QED
  BY <1>1, RestoreIsSound, PTL

(* The invariant is what a restore must not forget.                        *)
LEMMA InvariantForgetsNothing ==
  ASSUME RestoreInvariant
  PROVE  RestoreForgetsNothing
<1>1. ASSUME db.hold # "restore_quarantine" PROVE Agrees(db.share, db.row, db.ledger)
  BY <1>1 DEF RestoreInvariant, CurrentAgrees
<1>2. Shows(db) => /\ truth.allowed /\ truth.token = db.share.token
                   /\ ~truth.withdrawn /\ truth.article = db.row.article
  BY <1>1 DEF Shows, Serves, Agrees
<1>3. Executes(db) => \A j \in Jobs : sent[j] > 0 => db.ledger[j] # "none"
  BY <1>1 DEF Executes, Agrees
<1>4. \A j \in Jobs : sent[j] <= IF j \in truth.cancelled THEN 0 ELSE 1
  BY DEF RestoreInvariant, JobsAreSentOnce
<1> QED
  BY <1>2, <1>3, <1>4 DEF RestoreForgetsNothing

(* After a restore a link shows what was decided last, calls are sent only *)
(* on a ledger that knows every call, and no job is sent twice or after it *)
(* was cancelled: whichever epochs, backups and databases are used, and    *)
(* however often (generation/recovery.py).                                 *)
THEOREM NothingIsForgotten == RestoreAssumption => (Spec => []RestoreForgetsNothing)
<1> SUFFICES ASSUME RestoreAssumption
             PROVE  Spec => []RestoreForgetsNothing
  OBVIOUS
<1>1. RestoreInvariant => RestoreForgetsNothing
  BY InvariantForgetsNothing
<1> QED
  BY <1>1, RestoreIsSound, PTL
==============================================================================
