----------------------- MODULE MediaControllerInvariant -----------------------
(***************************************************************************)
(* The inductive invariant behind the safety properties of MediaController.*)
(***************************************************************************)
EXTENDS MediaController

Holding == {"running", "draining", "destroying"}
Deciding == {"status", "start", "drain", "acked", "destroy"}
Reading == Pcs \ {"down", "loop"}

(* The file names a machine from the answer of its creation to its         *)
(* confirmed destruction, and only that machine can have a worker (what    *)
(* store.mjs, read, refuses a file for, and more).                         *)
Tracked ==
    /\ disk.phase \in Holding => disk.id \in Vms
    /\ disk.phase \notin Holding => disk.id = None
    /\ disk.phase # "idle" => disk.nonce \in Nonces
    /\ \A v \in Vms : vm[v].status = "absent" => vm[v].worker = "none"
    /\ \A v \in Vms : Credentialed(v) => disk.id = v

(* What the process remembers of the machine is what the file says.        *)
Remembered ==
    /\ at <= clock
    /\ pc \in Reading =>
            /\ mem.phase = disk.phase /\ mem.id = disk.id
            /\ mem.nonce = disk.nonce /\ mem.createdAt = disk.createdAt
    /\ pc \in Deciding => disk.phase \in Holding
    /\ pc \in {"find", "create", "created"} => disk.phase = "creating"

(* A list of launches that is as long as it may be and misses only         *)
(* requests that are a day old at the given time.                          *)
Counts(launches, time) ==
    /\ IsFiniteSet(launches) /\ Cardinality(launches) <= MaxDailyLaunches
    /\ \A r \in requests : r \in launches \/ r.at + Day <= time

Counted ==
    /\ Counts(disk.launches, clock)
    /\ pc \in Reading => Counts(mem.launches, at)
    /\ pc = "create" =>
            [nonce |-> mem.nonce, at |-> at] \in mem.launches \cap disk.launches

(* A request whose machine is not confirmed destroyed and that is younger  *)
(* than CreationWait is the one the file is about.                         *)
Answered ==
    /\ \A v \in Vms : vm[v].status = "absent" => vm[v].nonce = None
    /\ disk.phase \in Holding => vm[disk.id].nonce = disk.nonce
    /\ \A m \in requests :
            \/ Settled(m)
            \/ clock - m.at >= CreationWait
            \/ disk.phase # "idle" /\ disk.nonce = m.nonce /\ disk.createdAt = m.at
    /\ pc = "create" =>
            /\ disk.createdAt = at
            /\ \A m \in requests : Settled(m) \/ at - m.at >= CreationWait

(* Why a machine may be destroyed: its worker has stopped claiming, it is  *)
(* no longer running, or its life is over at the given time.               *)
MayEnd(v, state, time) ==
    \/ vm[v].drained
    \/ vm[v].status \in {"FAILED", "DESTROYING", "DESTROYED"}
    \/ time - state.createdAt >= MaxSeconds

Drained ==
    /\ \A v \in Vms : vm[v].drained => vm[v].worker = "parked"
    /\ pc = "acked" => vm[mem.id].drained
    /\ pc = "destroy" => mem.phase = "destroying"
    /\ disk.phase = "destroying" => MayEnd(disk.id, disk, clock)
    /\ pc \in {"status", "destroy"} /\ mem.phase = "destroying" =>
            MayEnd(mem.id, mem, at)

(* The state file, the process and the provider agree on which machine     *)
(* there is, how many were launched and why one may be ended.              *)
ControllerInvariant ==
    /\ Tracked /\ Remembered /\ Counted /\ Answered
    /\ ~WorkerDies => Drained
===============================================================================
