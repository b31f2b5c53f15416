---------------------------- MODULE MediaRetention ----------------------------
(***************************************************************************)
(* Stored media: uploads, what a cleanup removes, and the backups that pin *)
(* it.  A cleanup lists old objects outside any lock, claims those nothing *)
(* refers to in a transaction, and unlinks them after it.  A backup dumps  *)
(* the database, pins the objects the dump names, copies them to another   *)
(* bucket and writes its manifest last.  Either process may die.           *)
(*                                                                         *)
(* Take k is one object, made by stage k from take k - 1; a take made      *)
(* again is another take, and no key is used twice.                        *)
(*                                                                         *)
(* Simplifications.  A failed, a cancelled and a superseded stage are      *)
(* "ended".  Calls of an open outcome, which only protect more takes, and  *)
(* the generation of a stage, which ends with its take, are left out.  The *)
(* backup's dump, one table of which names the objects, is a step.  An     *)
(* operator who says that the uploader has stopped is right.               *)
(***************************************************************************)
EXTENDS Integers, FiniteSets

CONSTANTS MaxTakes,
          Frames,  \* the takes that are pictures of a render or a check
          Runs,    \* of the backup
          Grace, FailedAge, Expiry, MaxTime  \* days, scaled

RetentionAssumption ==
  /\ MaxTakes \in Nat /\ Frames \subseteq 1 .. MaxTakes
  /\ {Grace, FailedAge, Expiry, MaxTime} \subseteq Nat /\ Grace <= FailedAge /\ Grace <= Expiry

Takes == 1 .. MaxTakes
Idle == [phase |-> "idle"]

VARIABLES now,
          stage,      \* of each take
          stored,     \* the objects in the private store
          at,         \* when each object was stored, then registered
          assets,     \* the registered objects
          published,
          deletion,   \* of each object
          listed,     \* what a cleanup has listed
          point,      \* the recovery point of each run
          bucket,     \* what the backup bucket holds of each run
          uploader    \* the backup that runs

retentionVars ==
  <<now, stage, stored, at, assets, published, deletion, listed, point, bucket, uploader>>
media == <<stage, at, assets, published>>
backups == <<point, bucket, uploader>>

Init ==
  /\ now = 0
  /\ stage = [k \in Takes |-> "none"] /\ stored = {} /\ at = [k \in Takes |-> 0]
  /\ assets = {} /\ published = {} /\ deletion = [k \in Takes |-> "none"] /\ listed = {}
  /\ point = [r \in Runs |-> [state |-> "none", objects |-> {}, created |-> 0]]
  /\ bucket = [r \in Runs |-> [media |-> {}, manifest |-> FALSE]]
  /\ uploader = Idle

-----------------------------------------------------------------------------
(* What media is in use.                                                   *)

Live(k) == stage[k] \in {"running", "succeeded"}

\* reference_state
Barrier == \E r \in Runs : point[r].state = "snapshot"

Pinned == UNION {point[r].objects : r \in {s \in Runs : point[s].state # "retired"}}

Protected == UNION {1 .. k : k \in published \cup {j \in Takes : Live(j)}}

\* retention_candidates
Candidates ==
  {k \in assets \ (Pinned \cup Protected) :
     \/ k \in Frames /\ now - at[k] >= Grace
     \/ stage[k] = "ended" /\ now - at[k] >= FailedAge}

Orphans == {k \in listed \ (assets \cup Pinned) : now - at[k] >= Grace}

(* A fault: a backup that has not pinned its objects yet is not waited for. *)
FaultyClaimable == {k \in Candidates \cup Orphans : deletion[k] = "none"}

\* claim_deletions
Claimable == IF Barrier THEN {} ELSE {k \in Candidates \cup Orphans : deletion[k] = "none"}

-----------------------------------------------------------------------------
(* Stages and uploads.                                                     *)

Start(k) ==
  /\ stage[k] = "none"
  /\ k > 1 => stage[k - 1] = "succeeded"
  /\ stage' = [stage EXCEPT ![k] = "running"]
  /\ UNCHANGED <<now, stored, at, assets, published, deletion, listed, backups>>

\* store_upload: a worker that was fenced after its lease was looked at may be late.
Store(k) ==
  /\ stage[k] \in {"running", "ended"} /\ k \notin stored /\ deletion[k] = "none"
  /\ stored' = stored \cup {k} /\ at' = [at EXCEPT ![k] = now]
  /\ UNCHANGED <<now, stage, assets, published, deletion, listed, backups>>

\* upload, its second transaction
Register(k) ==
  /\ stage[k] = "running" /\ k \in stored \ assets
  /\ deletion[k] = "none"
  /\ assets' = assets \cup {k} /\ at' = [at EXCEPT ![k] = now]
  /\ UNCHANGED <<now, stage, stored, published, deletion, listed, backups>>

\* A stage succeeds with its take, or fails, is cancelled or superseded.
Finish(k, state) ==
  /\ Live(k) /\ state # stage[k]
  /\ state = "succeeded" => k \in assets
  /\ stage' = [stage EXCEPT ![k] = state]
  /\ UNCHANGED <<now, stored, at, assets, published, deletion, listed, backups>>

Publish(k) ==
  /\ stage[k] = "succeeded" /\ k \in assets
  /\ published' = published \cup {k}
  /\ UNCHANGED <<now, stage, stored, at, assets, deletion, listed, backups>>

Tick ==
  /\ now < MaxTime /\ now' = now + 1
  /\ UNCHANGED <<media, stored, deletion, listed, backups>>

-----------------------------------------------------------------------------
(* The cleanup.  One that died is run again.                               *)

\* older_than
List ==
  /\ listed' = {k \in stored : now - at[k] >= Grace}
  /\ UNCHANGED <<now, media, stored, deletion, backups>>

\* claim_deletions commits before an object is unlinked.
Claim ==
  /\ Claimable # {}
  /\ deletion' = [k \in Takes |-> IF k \in Claimable THEN "pending" ELSE deletion[k]]
  /\ assets' = assets \ Claimable /\ listed' = {}
  /\ UNCHANGED <<now, stage, at, published, stored, backups>>

\* finish_deletions, in two steps
Unlink(k) ==
  /\ deletion[k] = "pending" /\ k \in stored
  /\ stored' = stored \ {k}
  /\ UNCHANGED <<now, media, deletion, listed, backups>>

Unlinked(k) ==
  /\ deletion[k] = "pending" /\ k \notin stored
  /\ deletion' = [deletion EXCEPT ![k] = "deleted"]
  /\ UNCHANGED <<now, media, stored, listed, backups>>

-----------------------------------------------------------------------------
(* The backup.                                                             *)

\* begin_snapshot
BeginSnapshot(r) ==
  /\ uploader = Idle /\ point[r].state = "none"
  /\ \A k \in Takes : deletion[k] # "pending"
  /\ point' = [point EXCEPT ![r] = [state |-> "snapshot", objects |-> {}, created |-> now]]
  /\ uploader' = [phase |-> "begun", run |-> r, dump |-> {}]
  /\ UNCHANGED <<now, media, stored, deletion, listed, bucket>>

Dump ==
  /\ uploader.phase = "begun"
  /\ uploader' = [uploader EXCEPT !.phase = "dumped", !.dump = assets]
  /\ UNCHANGED <<now, media, stored, deletion, listed, point, bucket>>

\* pin_snapshot
Pin ==
  /\ uploader.phase = "dumped" /\ point[uploader.run].state = "snapshot"
  /\ point' = [point EXCEPT ![uploader.run].state = "uploading", ![uploader.run].objects = uploader.dump]
  /\ uploader' = [uploader EXCEPT !.phase = "copying"]
  /\ UNCHANGED <<now, media, stored, deletion, listed, bucket>>

\* The copies; an object that is not there fails the backup.
Copy(k) ==
  /\ uploader.phase = "copying" /\ k \in (uploader.dump \cap stored) \ bucket[uploader.run].media
  /\ bucket' = [bucket EXCEPT ![uploader.run].media = @ \cup {k}]
  /\ UNCHANGED <<now, media, stored, deletion, listed, point, uploader>>

\* require_upload_owner
Own ==
  /\ uploader.phase = "copying" /\ uploader.dump \subseteq bucket[uploader.run].media
  /\ point[uploader.run].state = "uploading"
  /\ uploader' = [uploader EXCEPT !.phase = "manifest"]
  /\ UNCHANGED <<now, media, stored, deletion, listed, point, bucket>>

\* The manifest, then backup_state.
Complete ==
  /\ uploader.phase = "manifest" /\ point[uploader.run].state = "uploading"
  /\ bucket' = [bucket EXCEPT ![uploader.run].manifest = TRUE]
  /\ point' = [point EXCEPT ![uploader.run].state = "complete"]
  /\ uploader' = Idle
  /\ UNCHANGED <<now, media, stored, deletion, listed>>

\* A failure is recorded, a crash is not.  Either may follow a manifest of
\* which no answer came.
Fail(crash, landed) ==
  /\ uploader # Idle
  /\ landed => uploader.phase = "manifest"
  /\ bucket' = [bucket EXCEPT ![uploader.run].manifest = landed]
  /\ point' = IF crash \/ point[uploader.run].state \notin {"snapshot", "uploading"} THEN point
              ELSE [point EXCEPT ![uploader.run].state = "failed"]
  /\ uploader' = Idle
  /\ UNCHANGED <<now, media, stored, deletion, listed>>

\* abandon_backup_point: of an uploader that stopped.
Abandon(r) ==
  /\ uploader = Idle /\ point[r].state \in {"snapshot", "uploading"}
  /\ point' = [point EXCEPT ![r].state = "failed",
                            ![r].objects = IF point[r].state = "snapshot" THEN assets ELSE @]
  /\ UNCHANGED <<now, media, stored, deletion, listed, bucket, uploader>>

\* The bucket's lifecycle rule.
Expire(r) ==
  /\ point[r].state # "none" /\ now - point[r].created >= Expiry
  /\ uploader = Idle
  /\ bucket' = [bucket EXCEPT ![r] = [media |-> {}, manifest |-> FALSE]] /\ bucket' # bucket
  /\ UNCHANGED <<now, media, stored, deletion, listed, point, uploader>>

\* retire_backup_point
Retire(r) ==
  /\ point[r].state \in {"failed", "complete"}
  /\ bucket[r] = [media |-> {}, manifest |-> FALSE]
  /\ now - point[r].created >= IF point[r].state = "complete" THEN Expiry ELSE Grace
  /\ point' = [point EXCEPT ![r].state = "retired"]
  /\ UNCHANGED <<now, media, stored, deletion, listed, bucket, uploader>>

Next ==
  \/ \E k \in Takes : \/ Start(k) \/ Store(k) \/ Register(k) \/ Publish(k)
                      \/ \E state \in {"succeeded", "ended"} : Finish(k, state)
                      \/ Unlink(k) \/ Unlinked(k) \/ Copy(k)
  \/ Tick \/ List \/ Claim
  \/ Dump \/ Pin \/ Own \/ Complete
  \/ \E crash, landed \in BOOLEAN : Fail(crash, landed)
  \/ \E r \in Runs : BeginSnapshot(r) \/ Abandon(r) \/ Expire(r) \/ Retire(r)

Spec == Init /\ [][Next]_retentionVars

-----------------------------------------------------------------------------
(* Properties.                                                             *)

TypeOK ==
  /\ now \in 0 .. MaxTime /\ stage \in [Takes -> {"none", "running", "succeeded", "ended"}]
  /\ stored \subseteq Takes /\ assets \subseteq Takes /\ published \subseteq Takes
  /\ listed \subseteq Takes /\ at \in [Takes -> 0 .. MaxTime]
  /\ deletion \in [Takes -> {"none", "pending", "deleted"}]
  /\ point \in [Runs ->
       [state : {"none", "snapshot", "uploading", "failed", "complete", "retired"},
        objects : SUBSET Takes, created : 0 .. MaxTime]]
  /\ bucket \in [Runs -> [media : SUBSET Takes, manifest : BOOLEAN]]
  /\ \/ uploader = Idle
     \/ uploader \in [phase : {"begun", "dumped", "copying", "manifest"}, run : Runs,
                      dump : SUBSET Takes]

(* A cleanup never removes what is still needed: a registered object, a    *)
(* published take or one that live work was made from, and an object that  *)
(* a backup being taken has dumped or that a backup in the bucket with a   *)
(* manifest names, which has its copy of it too.                           *)
MediaIsKept ==
  /\ assets \subseteq stored
  /\ published \subseteq assets
  /\ \A k \in Takes : stage[k] = "succeeded" => 1 .. k \subseteq assets
  /\ \A r \in Runs : bucket[r].manifest => point[r].objects \subseteq stored \cap bucket[r].media
  /\ uploader # Idle => uploader.dump \subseteq stored

-----------------------------------------------------------------------------
(* The inductive invariant: what makes MediaIsKept last.                   *)

(* claim_deletions takes the row of an object with its claim, and an       *)
(* upload of a claimed object is refused.                                  *)
ClaimedUnregistered == \A k \in Takes : deletion[k] # "none" => k \notin assets

(* A stage that runs works on registered takes.                            *)
WorkOnRegistered == \A k \in Takes : stage[k] = "running" => 1 .. k - 1 \subseteq assets

(* While a backup has not pinned its objects nothing is being deleted, and *)
(* what is pinned is there and is not being deleted.                       *)
SnapshotWaits == Barrier => \A k \in Takes : deletion[k] # "pending"
PinnedStays == \A k \in Pinned : k \in stored /\ deletion[k] # "pending"

(* A backup that runs has its recovery point, pinned to its dump when the  *)
(* copies are made, and the manifest follows the copies.                   *)
UploaderOwns ==
  uploader # Idle =>
    LET own == point[uploader.run] IN
    IF uploader.phase \in {"begun", "dumped"} THEN own.state = "snapshot"
    ELSE /\ own.state = "uploading" /\ own.objects = uploader.dump
         /\ uploader.phase = "manifest" => uploader.dump \subseteq bucket[uploader.run].media

(* A manifest is there after the pins and before the recovery point is     *)
(* retired.                                                                *)
ManifestBelongs ==
  \A r \in Runs : bucket[r].manifest => point[r].state \in {"uploading", "failed", "complete"}

RetentionInvariant ==
  /\ TypeOK /\ MediaIsKept /\ ClaimedUnregistered /\ WorkOnRegistered
  /\ SnapshotWaits /\ PinnedStays /\ UploaderOwns /\ ManifestBelongs
=============================================================================
