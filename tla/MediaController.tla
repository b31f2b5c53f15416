---------------------------- MODULE MediaController ----------------------------
(***************************************************************************)
(* The cron service that owns the one machine media work is rendered on:   *)
(* media/controller/controller.mjs with the loop of main.mjs, the calls of *)
(* cloud.mjs and the state file of store.mjs; the worker it starts and     *)
(* drains (media/worker.py, bootstrap.py); and, external, the provider of  *)
(* the machines.                                                           *)
(*                                                                         *)
(* One process runs at a time (the lock on the volume).  A step that calls *)
(* the provider takes effect there and hands on the answer; Exit may come  *)
(* between any two steps, which is a crash, an exception of the next call, *)
(* an answer that is lost, or the deadline of the loop.  Only the state    *)
(* file, disk, outlives the process.                                       *)
(***************************************************************************)
EXTENDS Integers, FiniteSets

CONSTANTS
    Vms,               \* the machines the provider can make
    Nonces,            \* the ownership nonces of creation attempts
    Copies,            \* how many machines one create request may yield
    IdleSeconds,       \* IDLE_SECONDS
    CreationWait,      \* how long an unknown creation is looked for
    MaxSeconds,        \* MAX_SECONDS, the life of a machine
    Day,               \* the length of the launch window
    MaxDailyLaunches,  \* MAX_DAILY_LAUNCHES
    MaxTime,           \* bound: the clock stops there
    WorkerDies,        \* whether the worker's container may die
    None

ASSUME MediaControllerAssumption ==
    /\ None \notin Vms \cup Nonces
    /\ {IdleSeconds, CreationWait, MaxSeconds, Day, MaxDailyLaunches, MaxTime}
            \subseteq Nat
    /\ WorkerDies \in BOOLEAN

VARIABLES
    clock,     \* the wall clock
    disk,      \* the state file
    requests,  \* the create requests the provider was sent
    vm,        \* the provider's machines and the workers on them
    pc,        \* where the controller process is
    mem,       \* the state it read, as it has changed it
    at,        \* the clock it read with it
    needed     \* the demand it read

vars == <<clock, disk, requests, vm, pc, mem, at, needed>>
process == <<pc, mem, at, needed>>

Launches == [nonce : Nonces, at : Nat]
Phases == {"idle", "creating", "running", "draining", "destroying"}
States ==
    [phase : Phases, nonce : Nonces \cup {None}, id : Vms \cup {None},
     createdAt : Nat, lastDemand : Nat, launches : SUBSET Launches]
Statuses == {"absent", "CREATING", "RUNNING", "FAILED", "DESTROYING", "DESTROYED"}
Workers == {"none", "stopped", "idle", "busy", "parked"}
Machines ==
    [status : Statuses, nonce : Nonces \cup {None}, worker : Workers,
     drain : BOOLEAN, drained : BOOLEAN]
Demands == {"yes", "no", "unknown"}
Pcs == {"down", "loop", "find", "create", "created", "status", "start", "drain",
        "acked", "destroy"}

Idle(launches) ==
    [phase |-> "idle", nonce |-> None, id |-> None, createdAt |-> 0,
     lastDemand |-> 0, launches |-> launches]
NoMachine ==
    [status |-> "absent", nonce |-> None, worker |-> "none", drain |-> FALSE,
     drained |-> FALSE]

Init ==
    /\ clock = 0
    /\ disk = Idle({})
    /\ requests = {}
    /\ vm = [v \in Vms |-> NoMachine]
    /\ pc = "down" /\ mem = Idle({}) /\ at = 0 /\ needed = "unknown"

-------------------------------------------------------------------------------
(* The process.  Return ends one reconciliation: the loop goes round again *)
(* after thirty seconds, or the process exits.                             *)

Return(where) ==
    /\ pc' = where /\ mem' = Idle({}) /\ at' = 0 /\ needed' = "unknown"

Save(state, where) ==
    /\ disk' = state /\ mem' = state /\ pc' = where
    /\ UNCHANGED <<at, needed>>

Cron ==
    /\ pc = "down" /\ Return("loop")
    /\ UNCHANGED <<clock, disk, requests, vm>>

Exit ==
    /\ pc # "down" /\ Return("down")
    /\ UNCHANGED <<clock, disk, requests, vm>>

(* What reconcile reads: the file, without the launches a day old.         *)
Fresh == [disk EXCEPT !.launches = {l \in @ : l.at + Day > clock}]

Read(demand) == at' = clock /\ needed' = demand

(* A machine is known, or one may exist under the nonce.                   *)
Resume(demand) ==
    /\ pc = "loop" /\ disk.phase # "idle"
    /\ Read(demand) /\ mem' = Fresh
    /\ pc' = IF disk.phase = "creating" THEN "find" ELSE "status"
    /\ UNCHANGED <<clock, disk, requests, vm>>

(* No work, or no launch left today.                                       *)
StayIdle(demand) ==
    /\ pc = "loop" /\ disk.phase = "idle"
    /\ demand = "yes" => Cardinality(Fresh.launches) >= MaxDailyLaunches
    /\ Return("down")
    /\ UNCHANGED <<clock, disk, requests, vm>>

UnusedNonce(n) ==
    /\ \A r \in requests : r.nonce # n
    /\ \A l \in disk.launches : l.nonce # n

Reserved(n) ==
    [phase |-> "creating", nonce |-> n, id |-> None, createdAt |-> clock,
     lastDemand |-> clock,
     launches |-> Fresh.launches \cup {[nonce |-> n, at |-> clock]}]

(* The launch is counted in the file before the provider is asked.         *)
Reserve(n) ==
    /\ pc = "loop" /\ disk.phase = "idle" /\ UnusedNonce(n)
    /\ Cardinality(Fresh.launches) < MaxDailyLaunches
    /\ Read("yes")
    /\ disk' = Reserved(n) /\ mem' = Reserved(n) /\ pc' = "create"
    /\ UNCHANGED <<clock, requests, vm>>

Create ==
    /\ pc = "create"
    /\ requests' = requests \cup {[nonce |-> mem.nonce, at |-> at]}
    /\ pc' = "created"
    /\ UNCHANGED <<clock, disk, vm, mem, at, needed>>

(* A fault: the nonce is kept for the machine's identity.                  *)
FaultyKnown(v) == [mem EXCEPT !.phase = "running", !.id = vm[v].nonce]

Known(v) == [mem EXCEPT !.phase = "running", !.id = v]

CreateAnswers(v) ==
    /\ pc = "created" /\ vm[v].nonce = mem.nonce
    /\ Save(Known(v), "status")
    /\ UNCHANGED <<clock, requests, vm>>

(* The running machines that bear the nonce.  One whose command fails is   *)
(* passed over, and two of them are an exception.                          *)
Bearers == {v \in Vms : vm[v].status = "RUNNING" /\ vm[v].nonce = mem.nonce}

Adopt(v) ==
    /\ pc = "find" /\ v \in Bearers
    /\ Save(Known(v), "status")
    /\ UNCHANGED <<clock, requests, vm>>

(* Faults: an unknown creation is given up at once; it is given up only    *)
(* when there is nothing to do.                                            *)
FaultyImpatience == at >= mem.createdAt
FaultyPatience == needed # "yes" /\ at - mem.createdAt >= CreationWait

WaitOver == at - mem.createdAt >= CreationWait

CreationPending ==
    /\ pc = "find" /\ ~WaitOver
    /\ Return("loop")
    /\ UNCHANGED <<clock, disk, requests, vm>>

(* A fault: an attempt that came to nothing is not counted.                *)
FaultyCreationExpires ==
    /\ pc = "find" /\ WaitOver
    /\ disk' = Idle({}) /\ Return("down")
    /\ UNCHANGED <<clock, requests, vm>>

CreationExpires ==
    /\ pc = "find" /\ WaitOver
    /\ disk' = Idle(mem.launches) /\ Return("down")
    /\ UNCHANGED <<clock, requests, vm>>

Status == vm[mem.id].status
(* A fault: a destruction that was asked for is taken for done.            *)
FaultyGone == Status \in {"DESTROYING", "DESTROYED"}

Gone == Status = "DESTROYED"

ConfirmDestroyed ==
    /\ pc = "status" /\ Gone
    /\ disk' = Idle(mem.launches) /\ Return("down")
    /\ UNCHANGED <<clock, requests, vm>>

DestroyAgain ==
    /\ pc = "status" /\ ~Gone /\ mem.phase = "destroying"
    /\ pc' = "destroy"
    /\ UNCHANGED <<clock, disk, requests, vm, mem, at, needed>>

Demanded == IF needed = "yes" THEN [mem EXCEPT !.lastDemand = at] ELSE mem
(* A fault: a machine in demand is kept.                                   *)
FaultyExpired ==
    Status = "FAILED" \/ (needed # "yes" /\ at - mem.createdAt >= MaxSeconds)

Expired == Status = "FAILED" \/ at - mem.createdAt >= MaxSeconds

Keep == pc = "status" /\ ~Gone /\ mem.phase # "destroying"

Expire ==
    /\ Keep /\ Expired
    /\ Save([Demanded EXCEPT !.phase = "destroying"], "destroy")
    /\ UNCHANGED <<clock, requests, vm>>

Starting ==
    /\ Keep /\ ~Expired /\ Status # "RUNNING"
    /\ Return("loop")
    /\ UNCHANGED <<clock, disk, requests, vm>>

Draining ==
    \/ mem.phase = "draining"
    \/ needed = "no" /\ at - mem.lastDemand >= IdleSeconds

AskDrain ==
    /\ Keep /\ ~Expired /\ Status = "RUNNING" /\ Draining
    /\ Save([Demanded EXCEPT !.phase = "draining"], "drain")
    /\ UNCHANGED <<clock, requests, vm>>

Serve ==
    /\ Keep /\ ~Expired /\ Status = "RUNNING" /\ ~Draining
    /\ Save(Demanded, "start")
    /\ UNCHANGED <<clock, requests, vm>>

(* bootstrap.py: the container is created, or started if it is not running.*)
Start ==
    /\ pc = "start" /\ Status = "RUNNING"
    /\ vm' = [vm EXCEPT ![mem.id].worker =
                    IF @ \in {"none", "stopped"} THEN "idle" ELSE @]
    /\ Return("loop")
    /\ UNCHANGED <<clock, disk, requests>>

(* A fault: the worker's answer is not waited for.                         *)
FaultyDrain ==
    /\ pc = "drain" /\ Status = "RUNNING"
    /\ vm[mem.id].worker \in {"idle", "busy", "parked"}
    /\ vm' = [vm EXCEPT ![mem.id].drain = TRUE]
    /\ pc' = "acked"
    /\ UNCHANGED <<clock, disk, requests, mem, at, needed>>

(* A command in the worker's container: it leaves the drain file and looks *)
(* for the worker's answer.                                                *)
Drain ==
    /\ pc = "drain" /\ Status = "RUNNING"
    /\ vm[mem.id].worker \in {"idle", "busy", "parked"}
    /\ vm' = [vm EXCEPT ![mem.id].drain = TRUE]
    /\ IF vm[mem.id].drained
         THEN pc' = "acked" /\ UNCHANGED <<mem, at, needed>>
         ELSE Return("loop")
    /\ UNCHANGED <<clock, disk, requests>>

(* A fault: the machine is ended before the file says why.                 *)
FaultyAcknowledged ==
    /\ pc = "acked"
    /\ mem' = [mem EXCEPT !.phase = "destroying"] /\ pc' = "destroy"
    /\ UNCHANGED <<clock, disk, requests, vm, at, needed>>

Acknowledged ==
    /\ pc = "acked"
    /\ Save([mem EXCEPT !.phase = "destroying"], "destroy")
    /\ UNCHANGED <<clock, requests, vm>>

Destroy ==
    /\ pc = "destroy" /\ ~Gone
    /\ vm' = [vm EXCEPT ![mem.id].status = "DESTROYING"]
    /\ Return("loop")
    /\ UNCHANGED <<clock, disk, requests>>

-------------------------------------------------------------------------------
(* The provider and the clock.                                             *)

Become(v, status) ==
    /\ vm' = [vm EXCEPT ![v].status = status]
    /\ UNCHANGED <<clock, disk, requests, process>>

(* A request is carried out late, more than once, or never.                *)
Provision(r, v) ==
    /\ vm[v].status = "absent"
    /\ Cardinality({u \in Vms : vm[u].nonce = r.nonce}) < Copies
    /\ vm' = [vm EXCEPT ![v].status = "CREATING", ![v].nonce = r.nonce]
    /\ UNCHANGED <<clock, disk, requests, process>>

Boots(v) == vm[v].status = "CREATING" /\ Become(v, "RUNNING")
Fails(v) == vm[v].status \in {"CREATING", "RUNNING"} /\ Become(v, "FAILED")

(* The provider finishes a destruction it was asked for.                   *)
Finish(v) == vm[v].status = "DESTROYING" /\ Become(v, "DESTROYED")

(* It stops a machine that has been idle for ten minutes, or lost.         *)
Reap(v) ==
    vm[v].status \in {"CREATING", "RUNNING", "FAILED"} /\ Become(v, "DESTROYED")

Tick ==
    /\ clock < MaxTime /\ clock' = clock + 1
    /\ UNCHANGED <<disk, requests, vm, process>>

-------------------------------------------------------------------------------
(* The worker of a machine (worker.py, serve).                             *)

Up(v) == vm[v].status \in {"RUNNING", "DESTROYING"}

Work(v, from, to) ==
    /\ Up(v) /\ vm[v].worker = from
    /\ vm' = [vm EXCEPT ![v].worker = to]
    /\ UNCHANGED <<clock, disk, requests, process>>

Claim(v) == ~vm[v].drain /\ Work(v, "idle", "busy")
EndTick(v) == Work(v, "busy", "idle")

Park(v) ==
    /\ Up(v) /\ vm[v].worker = "idle" /\ vm[v].drain
    /\ vm' = [vm EXCEPT ![v].worker = "parked", ![v].drained = TRUE]
    /\ UNCHANGED <<clock, disk, requests, process>>

(* The container dies and with it the files in /scratch, which is a tmpfs. *)
Die(v) ==
    /\ WorkerDies /\ Up(v) /\ vm[v].worker \in {"idle", "busy", "parked"}
    /\ vm' = [vm EXCEPT ![v].worker = "stopped", ![v].drain = FALSE,
                        ![v].drained = FALSE]
    /\ UNCHANGED <<clock, disk, requests, process>>

(* --restart unless-stopped.                                               *)
Restart(v) == Work(v, "stopped", "idle")

-------------------------------------------------------------------------------
Seek == (\E v \in Vms : Adopt(v)) \/ CreationPending \/ CreationExpires
Judge ==
    \/ ConfirmDestroyed \/ DestroyAgain \/ Expire \/ Starting
    \/ AskDrain \/ Serve
Begin ==
    \/ \E demand \in Demands : Resume(demand) \/ StayIdle(demand)
    \/ \E n \in Nonces : Reserve(n)

Controller ==
    \/ Cron \/ Exit \/ Begin \/ Create \/ Seek \/ Judge
    \/ \E v \in Vms : CreateAnswers(v)
    \/ Start \/ Drain \/ Acknowledged \/ Destroy

Provider ==
    \/ \E r \in requests, v \in Vms : Provision(r, v)
    \/ \E v \in Vms : Boots(v) \/ Fails(v) \/ Finish(v) \/ Reap(v)

Worker ==
    \E v \in Vms : Claim(v) \/ EndTick(v) \/ Park(v) \/ Die(v) \/ Restart(v)

Next == Controller \/ Provider \/ Worker \/ Tick

Spec == Init /\ [][Next]_vars

(* Cron comes every five minutes; a call returns or fails; a step tried    *)
(* again and again is not interrupted every time; the provider finishes a  *)
(* destruction it was asked for.                                           *)
Fairness ==
    /\ WF_vars(Controller)
    /\ SF_vars(Begin) /\ SF_vars(Seek) /\ SF_vars(Judge) /\ SF_vars(Destroy)
    /\ \A v \in Vms : WF_vars(Finish(v))

FairSpec == Spec /\ Fairness

-------------------------------------------------------------------------------
(* Properties.                                                             *)

TypeOK ==
    /\ clock \in Nat /\ at \in Nat
    /\ disk \in States /\ mem \in States
    /\ requests \subseteq Launches
    /\ vm \in [Vms -> Machines]
    /\ pc \in Pcs /\ needed \in Demands

Credentialed(v) == vm[v].worker # "none" /\ vm[v].status # "DESTROYED"

(* At most one machine that is not destroyed holds the credentials of the  *)
(* worker, whatever became of lost and late creations, and it is the one   *)
(* the state file names: the identity is cleared on confirmed destruction  *)
(* only (controller.mjs, reconcile).                                       *)
OneCredentialedMachine ==
    \A v \in Vms : Credentialed(v) =>
        /\ disk.id = v
        /\ \A w \in Vms : Credentialed(w) => w = v

(* In the day that ends with a launch at most MaxDailyLaunches create      *)
(* requests were sent, across crashes, expired creations and destructions. *)
Window(r) == {l \in requests : l.at <= r.at /\ r.at < l.at + Day}
LaunchLimit ==
    \A r \in requests : Cardinality(Window(r)) <= MaxDailyLaunches

(* A creation whose outcome is unknown is not blindly repeated: a request  *)
(* is sent only when every earlier one is CreationWait old or its machine  *)
(* is confirmed destroyed.                                                 *)
Settled(r) == \E v \in Vms : vm[v].nonce = r.nonce /\ vm[v].status = "DESTROYED"
NoBlindCreate ==
    [][\A r \in requests' \ requests, m \in requests :
            Settled(m) \/ r.at - m.at >= CreationWait]_vars

(* The controller ends a running machine whose worker is in the middle of  *)
(* a tick only when the machine is past its lifetime: idleness never       *)
(* interrupts work, whatever was claimed after the demand was read.        *)
Interrupted(v) ==
    /\ vm[v].status = "RUNNING" /\ vm[v].worker = "busy"
    /\ vm'[v].status = "DESTROYING"
IdlenessNeverInterrupts ==
    [][\A v \in Vms : Interrupted(v) => at - mem.createdAt >= MaxSeconds]_vars

(* A machine past its lifetime is destroyed and forgotten.                 *)
LifetimeEnds ==
    \A v \in Vms :
        disk.id = v /\ clock - disk.createdAt >= MaxSeconds
            ~> vm[v].status = "DESTROYED" /\ disk.id # v

(* A creation of unknown outcome does not hold the queue for ever.         *)
CreationHoldEnds ==
    \A n \in Nonces :
        disk.phase = "creating" /\ disk.nonce = n
            /\ clock - disk.createdAt >= CreationWait
                ~> ~(disk.phase = "creating" /\ disk.nonce = n)

(* However often the process or a call fails, no machine outlives its time *)
(* for ever, and no creation is waited for for ever.                       *)
MachinesEnd == LifetimeEnds /\ CreationHoldEnds
===============================================================================
