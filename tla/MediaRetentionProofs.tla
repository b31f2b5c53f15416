------------------------- MODULE MediaRetentionProofs -------------------------
(***************************************************************************)
(* Proofs about MediaRetention: its types, and that a cleanup removes      *)
(* nothing that is registered, published, worked on or in a backup.        *)
(***************************************************************************)
EXTENDS MediaRetention, TLAPS

(* Steps of stages, uploads and the cleanup; steps of the backup.          *)
MediaNext(k) ==
  \/ k \in Takes /\ \/ Start(k) \/ Store(k) \/ Register(k) \/ Publish(k)
                    \/ \E state \in {"succeeded", "ended"} : Finish(k, state)
                    \/ Unlink(k) \/ Unlinked(k)
  \/ Tick \/ List \/ Claim

BackupNext ==
  \/ \E k \in Takes : Copy(k)
  \/ Dump \/ Pin \/ Own \/ Complete
  \/ \E crash, landed \in BOOLEAN : Fail(crash, landed)
  \/ \E r \in Runs : BeginSnapshot(r) \/ Abandon(r) \/ Expire(r) \/ Retire(r)

(* No media yet, and no backup.                                            *)
LEMMA RetentionInit ==
  ASSUME RetentionAssumption, Init
  PROVE  RetentionInvariant
<1>1. TypeOK
  BY DEF RetentionAssumption, Init, TypeOK, Idle
<1>2. MediaIsKept /\ ClaimedUnregistered /\ WorkOnRegistered /\ ManifestBelongs /\ UploaderOwns
  BY DEF Init, MediaIsKept, ClaimedUnregistered, WorkOnRegistered, ManifestBelongs, UploaderOwns
<1>3. ~Barrier /\ Pinned = {}
  BY DEF Init, Barrier, Pinned
<1> QED
  BY <1>1, <1>2, <1>3 DEF RetentionInvariant, SnapshotWaits, PinnedStays

-----------------------------------------------------------------------------
(* Types.                                                                  *)

(* Steps of stages, uploads and the cleanup keep the types.                *)
LEMMA MediaTypes ==
  ASSUME RetentionAssumption, TypeOK, NEW k, MediaNext(k)
  PROVE  TypeOK'
<1> USE DEF TypeOK, media, backups
<1>1. ASSUME k \in Takes, Start(k) \/ Store(k) \/ Register(k) \/ Publish(k) \/ Unlink(k) \/ Unlinked(k)
      PROVE  TypeOK'
  BY <1>1 DEF Start, Store, Register, Publish, Unlink, Unlinked
<1>2. ASSUME k \in Takes, NEW state \in {"succeeded", "ended"}, Finish(k, state) PROVE TypeOK'
  BY <1>2 DEF Finish
<1>3. CASE Tick
  BY <1>3 DEF Tick, RetentionAssumption
<1>4. CASE List
  BY <1>4 DEF List
<1>5. CASE Claim
  BY <1>5 DEF Claim
<1> QED
  BY <1>1, <1>2, <1>3, <1>4, <1>5 DEF MediaNext

(* A backup that runs has a run and a dump.                                *)
LEMMA UploaderType ==
  ASSUME TypeOK, uploader # Idle
  PROVE  /\ uploader \in [phase : {"begun", "dumped", "copying", "manifest"}, run : Runs,
                          dump : SUBSET Takes]
         /\ uploader.phase \in {"begun", "dumped", "copying", "manifest"}
         /\ uploader.run \in Runs /\ uploader.dump \subseteq Takes
  BY DEF TypeOK, Idle

(* What is done in a phase is done by a backup that runs.                  *)
LEMMA Running ==
  ASSUME Dump \/ Pin \/ Own \/ Complete \/ (\E k \in Takes : Copy(k))
  PROVE  uploader # Idle
<1>1. uploader.phase \in {"begun", "dumped", "copying", "manifest"}
  BY DEF Dump, Pin, Own, Complete, Copy
<1> QED
  BY <1>1 DEF Idle

PointStates == {"none", "snapshot", "uploading", "failed", "complete", "retired"}
Points == [state : PointStates, objects : SUBSET Takes, created : 0 .. MaxTime]

(* A recovery point changes its state and what it pins.                    *)
LEMMA PointType ==
  ASSUME TypeOK, NEW r \in Runs, NEW s \in PointStates, NEW o \in SUBSET Takes
  PROVE  /\ [point EXCEPT ![r].state = s] \in [Runs -> Points]
         /\ [point EXCEPT ![r].state = s, ![r].objects = o] \in [Runs -> Points]
<1>1. point \in [Runs -> Points]
  BY DEF TypeOK, Points, PointStates
<1>2. [point[r] EXCEPT !.state = s] \in Points /\ [point[r] EXCEPT !.state = s, !.objects = o] \in Points
  BY <1>1 DEF Points
<1> QED
  BY <1>1, <1>2

(* Steps of the backup keep the types.                                     *)
LEMMA BackupTypes ==
  ASSUME TypeOK, BackupNext
  PROVE  TypeOK'
<1> USE DEF TypeOK, media, Idle
<1>1. ASSUME NEW k \in Takes, Copy(k) PROVE TypeOK'
  <2>1. bucket' \in [Runs -> [media : SUBSET Takes, manifest : BOOLEAN]]
    BY <1>1, UploaderType, Running DEF Copy
  <2> QED
    BY <1>1, <2>1 DEF Copy
<1>2. CASE Dump
  <2>1. uploader' \in [phase : {"begun", "dumped", "copying", "manifest"}, run : Runs,
                       dump : SUBSET Takes]
    BY <1>2, UploaderType, Running DEF Dump
  <2> QED
    BY <1>2, <2>1 DEF Dump
<1>3. CASE Pin
  <2>1. uploader' \in [phase : {"begun", "dumped", "copying", "manifest"}, run : Runs,
                       dump : SUBSET Takes]
    BY <1>3, UploaderType, Running DEF Pin
  <2>2. point' \in [Runs -> Points]
    BY <1>3, UploaderType, Running, PointType DEF Pin, PointStates
  <2> QED
    BY <1>3, <2>1, <2>2 DEF Pin, Points, PointStates
<1>4. CASE Own
  <2>1. uploader' \in [phase : {"begun", "dumped", "copying", "manifest"}, run : Runs,
                       dump : SUBSET Takes]
    BY <1>4, UploaderType, Running DEF Own
  <2> QED
    BY <1>4, <2>1 DEF Own
<1>5. CASE Complete
  <2>1. uploader.run \in Runs
    BY <1>5, UploaderType, Running
  <2>2. bucket' \in [Runs -> [media : SUBSET Takes, manifest : BOOLEAN]]
    BY <1>5, <2>1 DEF Complete
  <2>3. point' \in [Runs -> Points]
    BY <1>5, <2>1, PointType DEF Complete, PointStates
  <2> QED
    BY <1>5, <2>2, <2>3 DEF Complete, Points, PointStates
<1>6. ASSUME NEW crash \in BOOLEAN, NEW landed \in BOOLEAN, Fail(crash, landed) PROVE TypeOK'
  <2>1. uploader.run \in Runs
    BY <1>6, UploaderType DEF Fail
  <2>2. bucket' \in [Runs -> [media : SUBSET Takes, manifest : BOOLEAN]]
    BY <1>6, <2>1 DEF Fail
  <2>3. point' \in [Runs -> Points]
    <3>1. point \in [Runs -> Points]
      BY DEF Points, PointStates
    <3> QED
      BY <1>6, <2>1, <3>1, PointType DEF Fail, PointStates
  <2> QED
    BY <1>6, <2>2, <2>3 DEF Fail, Points, PointStates
<1>7. ASSUME NEW r \in Runs, BeginSnapshot(r) PROVE TypeOK'
  BY <1>7 DEF BeginSnapshot
<1>8. ASSUME NEW r \in Runs, Abandon(r) PROVE TypeOK'
  <2>1. PICK o \in SUBSET Takes : point' = [point EXCEPT ![r].state = "failed", ![r].objects = o]
    <3>1. point[r].objects \in SUBSET Takes /\ assets \in SUBSET Takes
      OBVIOUS
    <3> QED
      BY <1>8, <3>1 DEF Abandon
  <2>2. point' \in [Runs -> Points]
    <3>1. "failed" \in PointStates
      BY DEF PointStates
    <3>2. [point EXCEPT ![r].state = "failed", ![r].objects = o] \in [Runs -> Points]
      BY <3>1, PointType
    <3> QED
      BY <2>1, <3>2
  <2> QED
    BY <1>8, <2>2 DEF Abandon, Points, PointStates
<1>9. ASSUME NEW r \in Runs, Expire(r) PROVE TypeOK'
  BY <1>9 DEF Expire
<1>10. ASSUME NEW r \in Runs, Retire(r) PROVE TypeOK'
  BY <1>10 DEF Retire
<1> QED
  BY <1>1, <1>2, <1>3, <1>4, <1>5, <1>6, <1>7, <1>8, <1>9, <1>10 DEF BackupNext

-----------------------------------------------------------------------------
(* Steps.                                                                  *)

(* What a cleanup claims is neither pinned nor needed by a take that is    *)
(* published or worked on, and was not claimed before.                     *)
LEMMA ClaimedIsFree ==
  ASSUME TypeOK, MediaIsKept, NEW k \in Claimable
  PROVE  /\ k \in Takes /\ k \notin Pinned /\ ~Barrier /\ deletion[k] = "none"
         /\ k \in assets => k \notin Protected
<1>1. ~Barrier /\ k \in Candidates \cup Orphans /\ deletion[k] = "none"
  BY DEF Claimable
<1> QED
  BY <1>1 DEF Candidates, Orphans, TypeOK

(* Stages, uploads and the cleanup.                                        *)
LEMMA MediaStep ==
  ASSUME RetentionAssumption, RetentionInvariant, TypeOK', NEW k, MediaNext(k)
  PROVE  RetentionInvariant'
<1>0. point' = point /\ bucket' = bucket /\ uploader' = uploader
      /\ Barrier' = Barrier /\ Pinned' = Pinned
  BY DEF MediaNext, Start, Store, Register, Publish, Unlink, Unlinked, Finish, Tick, List, Claim,
         backups, Barrier, Pinned
<1>1. UploaderOwns' /\ ManifestBelongs'
  BY <1>0 DEF RetentionInvariant, UploaderOwns, ManifestBelongs
<1>2. ClaimedUnregistered' /\ SnapshotWaits'
  <2>1. CASE Claim
    BY <1>0, <2>1, ClaimedIsFree
       DEF Claim, RetentionInvariant, ClaimedUnregistered, SnapshotWaits, TypeOK
  <2>2. CASE k \in Takes /\ Unlinked(k)
    BY <1>0, <2>2 DEF Unlinked, RetentionInvariant, ClaimedUnregistered, SnapshotWaits, TypeOK, media
  <2>3. CASE ~Claim /\ ~(k \in Takes /\ Unlinked(k))
    <3>1. deletion' = deletion /\ (assets' = assets \/ (deletion[k] = "none" /\ assets' = assets \cup {k}))
      BY <2>3 DEF MediaNext, Start, Store, Register, Publish, Unlink, Finish, Tick, List, media
    <3> QED
      BY <1>0, <3>1 DEF RetentionInvariant, ClaimedUnregistered, SnapshotWaits
  <2> QED
    BY <2>1, <2>2, <2>3
<1>3. WorkOnRegistered' /\ (\A j \in Takes : stage[j] = "succeeded" => 1 .. j \subseteq assets)'
      /\ (assets \subseteq stored)' /\ (published \subseteq assets)'
  <2> USE DEF RetentionInvariant, WorkOnRegistered, MediaIsKept
  <2>1. CASE k \in Takes /\ Start(k)
    <3>1. k > 1 => k - 1 \in Takes /\ stage[k - 1] = "succeeded"
      BY <2>1 DEF Start, Takes, RetentionAssumption
    <3>2. 1 .. k - 1 \subseteq assets
      <4>1. k \in Nat
        BY <2>1 DEF Takes, RetentionAssumption
      <4> QED
        BY <3>1, <4>1
    <3> QED
      BY <2>1, <3>2 DEF Start, TypeOK, backups
  <2>2. ASSUME k \in Takes, NEW state \in {"succeeded", "ended"}, Finish(k, state)
        PROVE  /\ WorkOnRegistered' /\ (\A j \in Takes : stage[j] = "succeeded" => 1 .. j \subseteq assets)'
               /\ (assets \subseteq stored)' /\ (published \subseteq assets)'
    <3>1. k \in Nat \ {0} /\ (1 .. k) = (1 .. (k - 1)) \cup {k}
      BY <2>2 DEF Takes, RetentionAssumption
    <3> QED
      BY <2>2, <3>1 DEF Finish, TypeOK, Live, backups
  <2>3. CASE Claim
    <3>1. ASSUME NEW j \in Takes, j \in published \/ Live(j), NEW i \in 1 .. j, i \in assets
          PROVE  i \notin Claimable
      <4>1. i \in Protected
        BY <3>1 DEF Protected
      <4> QED
        BY <3>1, <4>1, ClaimedIsFree
    <3>2. published \cap Claimable = {}
      <4>1. ASSUME NEW j \in published PROVE j \in 1 .. j /\ j \in Takes /\ j \in assets
        <5>1. j \in 1 .. MaxTakes /\ MaxTakes \in Nat
          BY <4>1 DEF TypeOK, Takes, RetentionAssumption
        <5> QED
          BY <4>1, <5>1 DEF Takes
      <4> QED
        BY <3>1, <4>1
    <3>3. ASSUME NEW j \in Takes, stage[j] = "running" PROVE 1 .. j - 1 \subseteq assets \ Claimable
      <4>1. j \in Nat /\ 1 .. j - 1 \subseteq 1 .. j
        BY DEF Takes, RetentionAssumption
      <4> QED
        BY <3>1, <3>3, <4>1 DEF Live
    <3>4. ASSUME NEW j \in Takes, stage[j] = "succeeded" PROVE 1 .. j \subseteq assets \ Claimable
      BY <3>1, <3>4 DEF Live
    <3>5. stage' = stage /\ published' = published /\ stored' = stored /\ assets' = assets \ Claimable
      BY <2>3 DEF Claim
    <3> QED
      BY <3>2, <3>3, <3>4, <3>5
  <2>4. CASE k \in Takes /\ Unlink(k)
    BY <2>4 DEF Unlink, ClaimedUnregistered, media, backups
  <2>5. CASE k \in Takes /\ (Store(k) \/ Register(k) \/ Publish(k))
    BY <2>5 DEF Store, Register, Publish, backups
  <2>6. CASE Tick \/ List \/ (k \in Takes /\ Unlinked(k))
    BY <2>6 DEF Tick, List, Unlinked, media, backups
  <2> QED
    BY <2>1, <2>2, <2>3, <2>4, <2>5, <2>6 DEF MediaNext
<1>4. PinnedStays' /\ (uploader # Idle => uploader.dump \subseteq stored)'
  <2>1. ASSUME uploader # Idle, NEW j \in uploader.dump PROVE deletion[j] # "pending"
    <3>1. uploader.run \in Runs /\ j \in Takes
      BY <2>1 DEF RetentionInvariant, TypeOK, Idle
    <3>2. CASE point[uploader.run].state = "snapshot"
      BY <3>1, <3>2 DEF RetentionInvariant, SnapshotWaits, Barrier
    <3>3. CASE point[uploader.run].state # "snapshot"
      <4>1. point[uploader.run].state = "uploading" /\ point[uploader.run].objects = uploader.dump
        BY <2>1, <3>3 DEF RetentionInvariant, UploaderOwns
      <4> QED
        BY <2>1, <3>1, <4>1 DEF RetentionInvariant, PinnedStays, Pinned
    <3> QED
      BY <3>2, <3>3
  <2> USE DEF RetentionInvariant, PinnedStays, MediaIsKept
  <2>2. CASE k \in Takes /\ Unlink(k)
    BY <1>0, <2>1, <2>2 DEF Unlink
  <2>3. CASE Claim
    BY <1>0, <2>3, ClaimedIsFree DEF Claim, TypeOK, Pinned
  <2>4. CASE k \in Takes /\ Unlinked(k)
    BY <1>0, <2>4 DEF Unlinked, TypeOK, Pinned
  <2>5. CASE ~Claim /\ ~(k \in Takes /\ (Unlink(k) \/ Unlinked(k)))
    <3>1. deletion' = deletion /\ stored \subseteq stored'
      BY <2>5 DEF MediaNext, Start, Store, Register, Publish, Finish, Tick, List, media
    <3> QED
      BY <1>0, <3>1
  <2> QED
    BY <2>2, <2>3, <2>4, <2>5
<1>5. (\A r \in Runs : bucket[r].manifest => point[r].objects \subseteq stored \cap bucket[r].media)'
  <2>1. ASSUME NEW r \in Runs, bucket[r].manifest PROVE point[r].objects \subseteq Pinned
    BY <2>1 DEF RetentionInvariant, ManifestBelongs, Pinned
  <2> QED
    BY <1>0, <1>4, <2>1 DEF RetentionInvariant, PinnedStays, MediaIsKept
<1> QED
  BY <1>1, <1>2, <1>3, <1>4, <1>5 DEF RetentionInvariant, MediaIsKept

(* What a step of the backup can disturb.                                  *)
Kept ==
  /\ SnapshotWaits /\ PinnedStays /\ UploaderOwns /\ ManifestBelongs
  /\ \A r \in Runs : bucket[r].manifest => point[r].objects \subseteq stored \cap bucket[r].media
  /\ uploader # Idle => uploader.dump \subseteq stored

(* A backup is complete with its manifest when all copies were made.       *)
LEMMA CompleteStep ==
  ASSUME RetentionInvariant, Complete
  PROVE  Kept'
<1> DEFINE u == uploader.run
<1>0. TypeOK /\ UNCHANGED <<stored, deletion>>
  BY DEF RetentionInvariant, Complete
<1>1. u \in Runs /\ uploader # Idle /\ uploader.phase = "manifest" /\ point[u].state = "uploading"
  BY <1>0, UploaderType, Running DEF Complete
<1>2. /\ uploader.dump \subseteq stored /\ point[u].objects = uploader.dump
      /\ uploader.dump \subseteq bucket[u].media
  BY <1>1 DEF RetentionInvariant, MediaIsKept, UploaderOwns
<1>3. \A r \in Runs :
        /\ point'[r].objects = point[r].objects
        /\ point'[r].state = IF r = u THEN "complete" ELSE point[r].state
        /\ bucket'[r].media = bucket[r].media
        /\ r # u => bucket'[r].manifest = bucket[r].manifest
  <2>1. /\ point \in [Runs -> Points]
        /\ bucket \in [Runs -> [media : SUBSET Takes, manifest : BOOLEAN]]
    BY <1>0 DEF TypeOK, Points, PointStates
  <2>2. /\ point' = [point EXCEPT ![u].state = "complete"]
        /\ bucket' = [bucket EXCEPT ![u].manifest = TRUE]
    BY DEF Complete
  <2>3. ASSUME NEW r \in Runs
        PROVE  /\ point'[r].objects = point[r].objects
               /\ point'[r].state = IF r = u THEN "complete" ELSE point[r].state
    BY <2>1, <2>2 DEF Points
  <2>4. ASSUME NEW r \in Runs
        PROVE  /\ bucket'[r].media = bucket[r].media
               /\ r # u => bucket'[r].manifest = bucket[r].manifest
    BY <2>1, <2>2
  <2> QED
    BY <2>3, <2>4
<1>4. uploader' = Idle
  BY DEF Complete
<1>5. SnapshotWaits' /\ PinnedStays'
  <2>1. Barrier' => Barrier
    BY <1>3 DEF Barrier
  <2>2. Pinned' \subseteq Pinned
    BY <1>1, <1>3 DEF Pinned
  <2> QED
    BY <1>0, <2>1, <2>2 DEF RetentionInvariant, SnapshotWaits, PinnedStays
<1>6. UploaderOwns'
  BY <1>4 DEF UploaderOwns, Idle
<1>7. ManifestBelongs'
  BY <1>3 DEF RetentionInvariant, ManifestBelongs
<1>8. (\A r \in Runs : bucket[r].manifest => point[r].objects \subseteq stored \cap bucket[r].media)'
  BY <1>0, <1>2, <1>3 DEF RetentionInvariant, MediaIsKept
<1> QED
  BY <1>4, <1>5, <1>6, <1>7, <1>8 DEF Kept

(* Backups: what holds of the stored media holds still.                    *)
LEMMA BackupStep ==
  ASSUME RetentionInvariant, TypeOK', BackupNext
  PROVE  RetentionInvariant'
<1>0. /\ UNCHANGED <<now, media, stored, deletion, listed>>
      /\ ClaimedUnregistered' /\ WorkOnRegistered'
      /\ (assets \subseteq stored)' /\ (published \subseteq assets)'
      /\ (\A j \in Takes : stage[j] = "succeeded" => 1 .. j \subseteq assets)'
  <2>1. UNCHANGED <<now, media, stored, deletion, listed>>
    BY DEF BackupNext, Copy, Dump, Pin, Own, Complete, Fail, BeginSnapshot, Abandon, Expire, Retire
  <2> QED
    BY <2>1 DEF RetentionInvariant, ClaimedUnregistered, WorkOnRegistered, MediaIsKept, media
<1> USE DEF Kept, RetentionInvariant, MediaIsKept, TypeOK, SnapshotWaits, PinnedStays, UploaderOwns,
            ManifestBelongs, Barrier, Pinned, Idle, media
<1>1. ASSUME NEW k \in Takes, Copy(k) PROVE Kept'
  BY <1>0, <1>1 DEF Copy
<1>2. CASE Dump
  BY <1>0, <1>2 DEF Dump
<1>3. CASE Pin
  BY <1>0, <1>3 DEF Pin
<1>4. CASE Own
  BY <1>0, <1>4 DEF Own
<1>5. CASE Complete
  BY <1>0, <1>5, CompleteStep
<1>6. ASSUME NEW crash \in BOOLEAN, NEW landed \in BOOLEAN, Fail(crash, landed) PROVE Kept'
  BY <1>0, <1>6 DEF Fail
<1>7. ASSUME NEW r \in Runs, BeginSnapshot(r) PROVE Kept'
  BY <1>0, <1>7 DEF BeginSnapshot
<1>8. ASSUME NEW r \in Runs, Abandon(r) PROVE Kept'
  BY <1>0, <1>8 DEF Abandon
<1>9. ASSUME NEW r \in Runs, Expire(r) PROVE Kept'
  BY <1>0, <1>9 DEF Expire
<1>10. ASSUME NEW r \in Runs, Retire(r) PROVE Kept'
  BY <1>0, <1>10 DEF Retire
<1>11. Kept'
  BY <1>1, <1>2, <1>3, <1>4, <1>5, <1>6, <1>7, <1>8, <1>9, <1>10 DEF BackupNext
<1> QED
  BY <1>0, <1>11 DEF Kept

(* Every step keeps the invariant.                                         *)
LEMMA RetentionStep ==
  ASSUME RetentionAssumption, RetentionInvariant, [Next]_retentionVars
  PROVE  RetentionInvariant'
<1>1. CASE UNCHANGED retentionVars
  BY <1>1 DEF retentionVars, RetentionInvariant, TypeOK, MediaIsKept, ClaimedUnregistered,
     WorkOnRegistered, SnapshotWaits, PinnedStays, UploaderOwns, ManifestBelongs, Barrier, Pinned
<1>2. CASE Next
  <2>1. (\E k : MediaNext(k)) \/ BackupNext
    BY <1>2 DEF Next, MediaNext, BackupNext
  <2> QED
    BY <2>1, MediaTypes, BackupTypes, MediaStep, BackupStep DEF RetentionInvariant
<1> QED
  BY <1>1, <1>2

-----------------------------------------------------------------------------
(* Theorems.                                                               *)

(* Media, cleanup and backups keep their invariant, for any number of      *)
(* takes and backups and any waits.                                        *)
THEOREM RetentionIsSound == RetentionAssumption => (Spec => []RetentionInvariant)
<1> SUFFICES ASSUME RetentionAssumption PROVE Spec => []RetentionInvariant
  OBVIOUS
<1>1. Init => RetentionInvariant
  BY RetentionInit
<1>2. RetentionInvariant /\ [Next]_retentionVars => RetentionInvariant'
  BY RetentionStep
<1> QED
  BY <1>1, <1>2, PTL DEF Spec

(* Every state is typed (recap_video/retention.py, backup_state.py).       *)
THEOREM RetentionTypes == RetentionAssumption => (Spec => []TypeOK)
<1>1. RetentionInvariant => TypeOK
  BY DEF RetentionInvariant
<1> QED
  BY <1>1, RetentionIsSound, PTL

(* However uploads, cleanups and backups interleave, die and are repeated, *)
(* a cleanup removes nothing that is still needed                          *)
(* (recap_video/retention.py claim_deletions).                             *)
THEOREM NothingNeededIsRemoved == RetentionAssumption => (Spec => []MediaIsKept)
<1>1. RetentionInvariant => MediaIsKept
  BY DEF RetentionInvariant
<1> QED
  BY <1>1, RetentionIsSound, PTL
=============================================================================
