------------------------- MODULE MediaControllerProofs -------------------------
(***************************************************************************)
(* Proofs about MediaController: its types, that one machine at most holds *)
(* the worker's credentials, that launches are limited and creations are   *)
(* not repeated, and that idleness never interrupts work.                  *)
(***************************************************************************)
EXTENDS MediaControllerInvariant, FiniteSetTheorems, TLAPS

(* The initial state has the types.                                        *)
LEMMA TypeInit == Init => TypeOK
  BY MediaControllerAssumption DEF Init, NoMachine, TypeOK, States, Machines,
     Launches, Statuses, Workers, Phases, Pcs, Demands, Idle

(* Every step keeps the types.                                             *)
LEMMA TypeStep ==
  ASSUME TypeOK, Tracked, Remembered, [Next]_vars
  PROVE  TypeOK'
<1>1. CASE Cron
  BY <1>1, MediaControllerAssumption DEF Cron, Return, TypeOK, States,
     Machines, Launches, Statuses, Workers, Phases, Pcs, Demands, Idle
<1>2. CASE Exit
  BY <1>2, MediaControllerAssumption DEF Exit, Return, TypeOK, States,
     Machines, Launches, Statuses, Workers, Phases, Pcs, Demands, Idle
<1>3. ASSUME NEW demand \in Demands, Resume(demand) PROVE TypeOK'
  BY <1>3, MediaControllerAssumption DEF Resume, Read, Fresh, TypeOK, States,
     Machines, Launches, Statuses, Workers, Phases, Pcs, Demands, Idle
<1>4. ASSUME NEW demand \in Demands, StayIdle(demand) PROVE TypeOK'
  BY <1>4, MediaControllerAssumption DEF StayIdle, Return, TypeOK, States,
     Machines, Launches, Statuses, Workers, Phases, Pcs, Demands, Idle
<1>5. ASSUME NEW n \in Nonces, Reserve(n) PROVE TypeOK'
  BY <1>5, MediaControllerAssumption DEF Reserve, Read, Reserved, Fresh,
     UnusedNonce, TypeOK, States, Machines, Launches, Statuses, Workers,
     Phases, Pcs, Demands, Idle
<1>6. CASE Create
  <2>1. mem.nonce \in Nonces
    BY <1>6 DEF Create, Tracked, Remembered, Reading, TypeOK, Pcs
  <2> QED
    BY <1>6, <2>1 DEF Create, TypeOK, Launches, Pcs
<1>7. ASSUME NEW v \in Vms, CreateAnswers(v) PROVE TypeOK'
  BY <1>7, MediaControllerAssumption DEF CreateAnswers, Save, Known, TypeOK,
     States, Machines, Launches, Statuses, Workers, Phases, Pcs, Demands, Idle
<1>8. ASSUME NEW v \in Vms, Adopt(v) PROVE TypeOK'
  BY <1>8, MediaControllerAssumption DEF Adopt, Save, Known, Bearers, TypeOK,
     States, Machines, Launches, Statuses, Workers, Phases, Pcs, Demands, Idle
<1>9. CASE CreationPending
  BY <1>9, MediaControllerAssumption DEF CreationPending, Return, TypeOK,
     States, Machines, Launches, Statuses, Workers, Phases, Pcs, Demands, Idle
<1>10. CASE CreationExpires
  BY <1>10, MediaControllerAssumption DEF CreationExpires, Return, TypeOK,
     States, Machines, Launches, Statuses, Workers, Phases, Pcs, Demands, Idle
<1>11. CASE ConfirmDestroyed
  BY <1>11, MediaControllerAssumption DEF ConfirmDestroyed, Return, Gone,
     Status, TypeOK, States, Machines, Launches, Statuses, Workers, Phases,
     Pcs, Demands, Idle
<1>12. CASE DestroyAgain
  BY <1>12, MediaControllerAssumption DEF DestroyAgain, Gone, Status, TypeOK,
     States, Machines, Launches, Statuses, Workers, Phases, Pcs, Demands, Idle
<1>13. CASE Expire
  BY <1>13, MediaControllerAssumption DEF Expire, Keep, Expired, Gone, Status,
     Save, Demanded, TypeOK, States, Machines, Launches, Statuses, Workers,
     Phases, Pcs, Demands, Idle
<1>14. CASE Starting
  BY <1>14, MediaControllerAssumption DEF Starting, Return, TypeOK, States,
     Machines, Launches, Statuses, Workers, Phases, Pcs, Demands, Idle
<1>15. CASE AskDrain
  BY <1>15, MediaControllerAssumption DEF AskDrain, Keep, Gone, Status, Save,
     Demanded, TypeOK, States, Machines, Launches, Statuses, Workers, Phases,
     Pcs, Demands, Idle
<1>16. CASE Serve
  BY <1>16, MediaControllerAssumption DEF Serve, Keep, Gone, Status, Save,
     Demanded, TypeOK, States, Machines, Launches, Statuses, Workers, Phases,
     Pcs, Demands, Idle
<1>17. CASE Start
  <2> DEFINE machine == [vm[mem.id] EXCEPT !.worker = IF @ \in {"none", "stopped"} THEN "idle" ELSE @]
  <2>0. mem.id \in Vms
    BY <1>17, MediaControllerAssumption DEF Start, Return, Status, Tracked,
       Remembered, Holding, Deciding, Reading, TypeOK, Pcs
  <2>1. machine \in Machines
    BY <2>0 DEF TypeOK, Machines, Statuses, Workers, Launches
  <2>2. vm' = [vm EXCEPT ![mem.id] = machine] /\ vm' \in [Vms -> Machines]
    BY <1>17, <2>0, <2>1 DEF Start, Return, Status, Tracked, Remembered,
       Holding, Deciding, Reading, TypeOK
  <2> QED
    BY <1>17, <2>2, MediaControllerAssumption DEF Start, Return, Status,
       Tracked, Remembered, Holding, Deciding, Reading, TypeOK, States,
       Machines, Launches, Statuses, Workers, Phases, Pcs, Demands, Idle
<1>18. CASE Drain
  <2> DEFINE machine == [vm[mem.id] EXCEPT !.drain = TRUE]
  <2>0. mem.id \in Vms
    BY <1>18, MediaControllerAssumption DEF Drain, Return, Status, Tracked,
       Remembered, Holding, Deciding, Reading, TypeOK, Pcs
  <2>1. machine \in Machines
    BY <2>0 DEF TypeOK, Machines, Statuses, Workers, Launches
  <2>2. vm' = [vm EXCEPT ![mem.id] = machine] /\ vm' \in [Vms -> Machines]
    BY <1>18, <2>0, <2>1 DEF Drain, Return, Status, Tracked, Remembered,
       Holding, Deciding, Reading, TypeOK
  <2> QED
    BY <1>18, <2>2, MediaControllerAssumption DEF Drain, Return, Status,
       Tracked, Remembered, Holding, Deciding, Reading, TypeOK, States,
       Machines, Launches, Statuses, Workers, Phases, Pcs, Demands, Idle
<1>19. CASE Acknowledged
  BY <1>19, MediaControllerAssumption DEF Acknowledged, Save, TypeOK, States,
     Machines, Launches, Statuses, Workers, Phases, Pcs, Demands, Idle
<1>20. CASE Destroy
  <2> DEFINE machine == [vm[mem.id] EXCEPT !.status = "DESTROYING"]
  <2>0. mem.id \in Vms
    BY <1>20, MediaControllerAssumption DEF Destroy, Return, Status, Tracked,
       Remembered, Holding, Deciding, Reading, TypeOK, Pcs
  <2>1. machine \in Machines
    BY <2>0 DEF TypeOK, Machines, Statuses, Workers, Launches
  <2>2. vm' = [vm EXCEPT ![mem.id] = machine] /\ vm' \in [Vms -> Machines]
    BY <1>20, <2>0, <2>1 DEF Destroy, Return, Status, Tracked, Remembered,
       Holding, Deciding, Reading, TypeOK
  <2> QED
    BY <1>20, <2>2, MediaControllerAssumption DEF Destroy, Return, Status,
       Tracked, Remembered, Holding, Deciding, Reading, TypeOK, States,
       Machines, Launches, Statuses, Workers, Phases, Pcs, Demands, Idle
<1>21. ASSUME NEW r \in requests, NEW v \in Vms, Provision(r, v) PROVE TypeOK'
  <2> DEFINE machine == [vm[v] EXCEPT !.status = "CREATING", !.nonce = r.nonce]
  <2>0. v \in Vms
    BY <1>21, MediaControllerAssumption DEF Provision, process, TypeOK, Pcs
  <2>1. machine \in Machines
    BY <2>0 DEF TypeOK, Machines, Statuses, Workers, Launches
  <2>2. vm' = [vm EXCEPT ![v] = machine] /\ vm' \in [Vms -> Machines]
    BY <1>21, <2>0, <2>1 DEF Provision, process, TypeOK
  <2> QED
    BY <1>21, <2>2, MediaControllerAssumption DEF Provision, process, TypeOK,
       States, Machines, Launches, Statuses, Workers, Phases, Pcs, Demands,
       Idle
<1>22. ASSUME NEW v \in Vms, Boots(v) PROVE TypeOK'
  BY <1>22, MediaControllerAssumption DEF Boots, Become, process, TypeOK,
     States, Machines, Launches, Statuses, Workers, Phases, Pcs, Demands, Idle
<1>23. ASSUME NEW v \in Vms, Fails(v) PROVE TypeOK'
  BY <1>23, MediaControllerAssumption DEF Fails, Become, process, TypeOK,
     States, Machines, Launches, Statuses, Workers, Phases, Pcs, Demands, Idle
<1>24. ASSUME NEW v \in Vms, Finish(v) PROVE TypeOK'
  BY <1>24, MediaControllerAssumption DEF Finish, Become, process, TypeOK,
     States, Machines, Launches, Statuses, Workers, Phases, Pcs, Demands, Idle
<1>25. ASSUME NEW v \in Vms, Reap(v) PROVE TypeOK'
  BY <1>25, MediaControllerAssumption DEF Reap, Become, process, TypeOK,
     States, Machines, Launches, Statuses, Workers, Phases, Pcs, Demands, Idle
<1>26. ASSUME NEW v \in Vms, Claim(v) PROVE TypeOK'
  BY <1>26, MediaControllerAssumption DEF Claim, Work, Up, process, TypeOK,
     States, Machines, Launches, Statuses, Workers, Phases, Pcs, Demands, Idle
<1>27. ASSUME NEW v \in Vms, EndTick(v) PROVE TypeOK'
  BY <1>27, MediaControllerAssumption DEF EndTick, Work, Up, process, TypeOK,
     States, Machines, Launches, Statuses, Workers, Phases, Pcs, Demands, Idle
<1>28. ASSUME NEW v \in Vms, Park(v) PROVE TypeOK'
  <2> DEFINE machine == [vm[v] EXCEPT !.worker = "parked", !.drained = TRUE]
  <2>0. v \in Vms
    BY <1>28, MediaControllerAssumption DEF Park, Up, process, TypeOK, Pcs
  <2>1. machine \in Machines
    BY <2>0 DEF TypeOK, Machines, Statuses, Workers, Launches
  <2>2. vm' = [vm EXCEPT ![v] = machine] /\ vm' \in [Vms -> Machines]
    BY <1>28, <2>0, <2>1 DEF Park, Up, process, TypeOK
  <2> QED
    BY <1>28, <2>2, MediaControllerAssumption DEF Park, Up, process, TypeOK,
       States, Machines, Launches, Statuses, Workers, Phases, Pcs, Demands,
       Idle
<1>29. ASSUME NEW v \in Vms, Die(v) PROVE TypeOK'
  <2> DEFINE machine == [vm[v] EXCEPT !.worker = "stopped", !.drain = FALSE, !.drained = FALSE]
  <2>0. v \in Vms
    BY <1>29, MediaControllerAssumption DEF Die, Up, process, TypeOK, Pcs
  <2>1. machine \in Machines
    BY <2>0 DEF TypeOK, Machines, Statuses, Workers, Launches
  <2>2. vm' = [vm EXCEPT ![v] = machine] /\ vm' \in [Vms -> Machines]
    BY <1>29, <2>0, <2>1 DEF Die, Up, process, TypeOK
  <2> QED
    BY <1>29, <2>2, MediaControllerAssumption DEF Die, Up, process, TypeOK,
       States, Machines, Launches, Statuses, Workers, Phases, Pcs, Demands,
       Idle
<1>30. ASSUME NEW v \in Vms, Restart(v) PROVE TypeOK'
  BY <1>30, MediaControllerAssumption DEF Restart, Work, Up, process, TypeOK,
     States, Machines, Launches, Statuses, Workers, Phases, Pcs, Demands, Idle
<1>31. CASE Tick
  BY <1>31, MediaControllerAssumption DEF Tick, process, TypeOK, States,
     Machines, Launches, Statuses, Workers, Phases, Pcs, Demands, Idle
<1>32. CASE UNCHANGED vars
  BY <1>32, MediaControllerAssumption DEF vars, TypeOK, States, Machines,
     Launches, Statuses, Workers, Phases, Pcs, Demands, Idle
<1>33. QED
  BY <1>1, <1>2, <1>3, <1>4, <1>5, <1>6, <1>7, <1>8, <1>9, <1>10, <1>11,
     <1>12, <1>13, <1>14, <1>15, <1>16, <1>17, <1>18, <1>19, <1>20, <1>21,
     <1>22, <1>23, <1>24, <1>25, <1>26, <1>27, <1>28, <1>29, <1>30, <1>31,
     <1>32 DEF Next, Controller, Provider,
     Worker, Begin, Seek, Judge

(* Every step keeps the file and the machines in agreement.                *)
LEMMA TrackedStep ==
  ASSUME TypeOK, Tracked, Remembered, [Next]_vars
  PROVE  Tracked'
<1>1. CASE Cron
  BY <1>1, MediaControllerAssumption DEF Cron, Return, TypeOK, States,
     Machines, Launches, Idle, Credentialed, Tracked, Remembered, Holding,
     Deciding, Reading, Pcs, Phases
<1>2. CASE Exit
  BY <1>2, MediaControllerAssumption DEF Exit, Return, TypeOK, States,
     Machines, Launches, Idle, Credentialed, Tracked, Remembered, Holding,
     Deciding, Reading, Pcs, Phases
<1>3. ASSUME NEW demand \in Demands, Resume(demand) PROVE Tracked'
  BY <1>3, MediaControllerAssumption DEF Resume, Read, Fresh, TypeOK, States,
     Machines, Launches, Idle, Credentialed, Tracked, Remembered, Holding,
     Deciding, Reading, Pcs, Phases
<1>4. ASSUME NEW demand \in Demands, StayIdle(demand) PROVE Tracked'
  BY <1>4, MediaControllerAssumption DEF StayIdle, Return, TypeOK, States,
     Machines, Launches, Idle, Credentialed, Tracked, Remembered, Holding,
     Deciding, Reading, Pcs, Phases
<1>5. ASSUME NEW n \in Nonces, Reserve(n) PROVE Tracked'
  BY <1>5, MediaControllerAssumption DEF Reserve, Read, Reserved, Fresh,
     UnusedNonce, TypeOK, States, Machines, Launches, Idle, Credentialed,
     Tracked, Remembered, Holding, Deciding, Reading, Pcs, Phases
<1>6. CASE Create
  BY <1>6, MediaControllerAssumption DEF Create, TypeOK, States, Machines,
     Launches, Idle, Credentialed, Tracked, Remembered, Holding, Deciding,
     Reading, Pcs, Phases
<1>7. ASSUME NEW v \in Vms, CreateAnswers(v) PROVE Tracked'
  BY <1>7, MediaControllerAssumption DEF CreateAnswers, Save, Known, TypeOK,
     States, Machines, Launches, Idle, Credentialed, Tracked, Remembered,
     Holding, Deciding, Reading, Pcs, Phases
<1>8. ASSUME NEW v \in Vms, Adopt(v) PROVE Tracked'
  BY <1>8, MediaControllerAssumption DEF Adopt, Save, Known, Bearers, TypeOK,
     States, Machines, Launches, Idle, Credentialed, Tracked, Remembered,
     Holding, Deciding, Reading, Pcs, Phases
<1>9. CASE CreationPending
  BY <1>9, MediaControllerAssumption DEF CreationPending, Return, TypeOK,
     States, Machines, Launches, Idle, Credentialed, Tracked, Remembered,
     Holding, Deciding, Reading, Pcs, Phases
<1>10. CASE CreationExpires
  BY <1>10, MediaControllerAssumption DEF CreationExpires, Return, TypeOK,
     States, Machines, Launches, Idle, Credentialed, Tracked, Remembered,
     Holding, Deciding, Reading, Pcs, Phases
<1>11. CASE ConfirmDestroyed
  BY <1>11, MediaControllerAssumption DEF ConfirmDestroyed, Return, Gone,
     Status, TypeOK, States, Machines, Launches, Idle, Credentialed, Tracked,
     Remembered, Holding, Deciding, Reading, Pcs, Phases
<1>12. CASE DestroyAgain
  BY <1>12, MediaControllerAssumption DEF DestroyAgain, Gone, Status, TypeOK,
     States, Machines, Launches, Idle, Credentialed, Tracked, Remembered,
     Holding, Deciding, Reading, Pcs, Phases
<1>13. CASE Expire
  BY <1>13, MediaControllerAssumption DEF Expire, Keep, Expired, Gone, Status,
     Save, Demanded, TypeOK, States, Machines, Launches, Idle, Credentialed,
     Tracked, Remembered, Holding, Deciding, Reading, Pcs, Phases
<1>14. CASE Starting
  BY <1>14, MediaControllerAssumption DEF Starting, Return, TypeOK, States,
     Machines, Launches, Idle, Credentialed, Tracked, Remembered, Holding,
     Deciding, Reading, Pcs, Phases
<1>15. CASE AskDrain
  BY <1>15, MediaControllerAssumption DEF AskDrain, Keep, Gone, Status, Save,
     Demanded, TypeOK, States, Machines, Launches, Idle, Credentialed,
     Tracked, Remembered, Holding, Deciding, Reading, Pcs, Phases
<1>16. CASE Serve
  BY <1>16, MediaControllerAssumption DEF Serve, Keep, Gone, Status, Save,
     Demanded, TypeOK, States, Machines, Launches, Idle, Credentialed,
     Tracked, Remembered, Holding, Deciding, Reading, Pcs, Phases
<1>17. CASE Start
  BY <1>17, MediaControllerAssumption DEF Start, Return, Status, TypeOK,
     States, Machines, Launches, Idle, Credentialed, Tracked, Remembered,
     Holding, Deciding, Reading, Pcs, Phases
<1>18. CASE Drain
  BY <1>18, MediaControllerAssumption DEF Drain, Return, Status, TypeOK,
     States, Machines, Launches, Idle, Credentialed, Tracked, Remembered,
     Holding, Deciding, Reading, Pcs, Phases
<1>19. CASE Acknowledged
  BY <1>19, MediaControllerAssumption DEF Acknowledged, Save, TypeOK, States,
     Machines, Launches, Idle, Credentialed, Tracked, Remembered, Holding,
     Deciding, Reading, Pcs, Phases
<1>20. CASE Destroy
  BY <1>20, MediaControllerAssumption DEF Destroy, Return, Gone, Status,
     TypeOK, States, Machines, Launches, Idle, Credentialed, Tracked,
     Remembered, Holding, Deciding, Reading, Pcs, Phases
<1>21. ASSUME NEW r \in requests, NEW v \in Vms, Provision(r, v) PROVE Tracked'
  BY <1>21, MediaControllerAssumption DEF Provision, process, TypeOK, States,
     Machines, Launches, Idle, Credentialed, Tracked, Remembered, Holding,
     Deciding, Reading, Pcs, Phases
<1>22. ASSUME NEW v \in Vms, Boots(v) PROVE Tracked'
  BY <1>22, MediaControllerAssumption DEF Boots, Become, process, TypeOK,
     States, Machines, Launches, Idle, Credentialed, Tracked, Remembered,
     Holding, Deciding, Reading, Pcs, Phases
<1>23. ASSUME NEW v \in Vms, Fails(v) PROVE Tracked'
  BY <1>23, MediaControllerAssumption DEF Fails, Become, process, TypeOK,
     States, Machines, Launches, Idle, Credentialed, Tracked, Remembered,
     Holding, Deciding, Reading, Pcs, Phases
<1>24. ASSUME NEW v \in Vms, Finish(v) PROVE Tracked'
  BY <1>24, MediaControllerAssumption DEF Finish, Become, process, TypeOK,
     States, Machines, Launches, Idle, Credentialed, Tracked, Remembered,
     Holding, Deciding, Reading, Pcs, Phases
<1>25. ASSUME NEW v \in Vms, Reap(v) PROVE Tracked'
  BY <1>25, MediaControllerAssumption DEF Reap, Become, process, TypeOK,
     States, Machines, Launches, Idle, Credentialed, Tracked, Remembered,
     Holding, Deciding, Reading, Pcs, Phases
<1>26. ASSUME NEW v \in Vms, Claim(v) PROVE Tracked'
  BY <1>26, MediaControllerAssumption DEF Claim, Work, Up, process, TypeOK,
     States, Machines, Launches, Idle, Credentialed, Tracked, Remembered,
     Holding, Deciding, Reading, Pcs, Phases
<1>27. ASSUME NEW v \in Vms, EndTick(v) PROVE Tracked'
  BY <1>27, MediaControllerAssumption DEF EndTick, Work, Up, process, TypeOK,
     States, Machines, Launches, Idle, Credentialed, Tracked, Remembered,
     Holding, Deciding, Reading, Pcs, Phases
<1>28. ASSUME NEW v \in Vms, Park(v) PROVE Tracked'
  BY <1>28, MediaControllerAssumption DEF Park, Up, process, TypeOK, States,
     Machines, Launches, Idle, Credentialed, Tracked, Remembered, Holding,
     Deciding, Reading, Pcs, Phases
<1>29. ASSUME NEW v \in Vms, Die(v) PROVE Tracked'
  BY <1>29, MediaControllerAssumption DEF Die, Up, process, TypeOK, States,
     Machines, Launches, Idle, Credentialed, Tracked, Remembered, Holding,
     Deciding, Reading, Pcs, Phases
<1>30. ASSUME NEW v \in Vms, Restart(v) PROVE Tracked'
  BY <1>30, MediaControllerAssumption DEF Restart, Work, Up, process, TypeOK,
     States, Machines, Launches, Idle, Credentialed, Tracked, Remembered,
     Holding, Deciding, Reading, Pcs, Phases
<1>31. CASE Tick
  BY <1>31, MediaControllerAssumption DEF Tick, process, TypeOK, States,
     Machines, Launches, Idle, Credentialed, Tracked, Remembered, Holding,
     Deciding, Reading, Pcs, Phases
<1>32. CASE UNCHANGED vars
  BY <1>32, MediaControllerAssumption DEF vars, TypeOK, States, Machines,
     Launches, Idle, Credentialed, Tracked, Remembered, Holding, Deciding,
     Reading, Pcs, Phases
<1>33. QED
  BY <1>1, <1>2, <1>3, <1>4, <1>5, <1>6, <1>7, <1>8, <1>9, <1>10, <1>11,
     <1>12, <1>13, <1>14, <1>15, <1>16, <1>17, <1>18, <1>19, <1>20, <1>21,
     <1>22, <1>23, <1>24, <1>25, <1>26, <1>27, <1>28, <1>29, <1>30, <1>31,
     <1>32 DEF Next, Controller, Provider,
     Worker, Begin, Seek, Judge

(* Every step keeps the process in agreement with the file.                *)
LEMMA RememberedStep ==
  ASSUME TypeOK, Tracked, Remembered, [Next]_vars
  PROVE  Remembered'
<1>1. CASE Cron
  BY <1>1, MediaControllerAssumption DEF Cron, Return, TypeOK, States,
     Launches, Idle, Tracked, Remembered, Holding, Deciding, Reading, Pcs,
     Phases
<1>2. CASE Exit
  BY <1>2, MediaControllerAssumption DEF Exit, Return, TypeOK, States,
     Launches, Idle, Tracked, Remembered, Holding, Deciding, Reading, Pcs,
     Phases
<1>3. ASSUME NEW demand \in Demands, Resume(demand) PROVE Remembered'
  BY <1>3, MediaControllerAssumption DEF Resume, Read, Fresh, TypeOK, States,
     Launches, Idle, Tracked, Remembered, Holding, Deciding, Reading, Pcs,
     Phases
<1>4. ASSUME NEW demand \in Demands, StayIdle(demand) PROVE Remembered'
  BY <1>4, MediaControllerAssumption DEF StayIdle, Return, TypeOK, States,
     Launches, Idle, Tracked, Remembered, Holding, Deciding, Reading, Pcs,
     Phases
<1>5. ASSUME NEW n \in Nonces, Reserve(n) PROVE Remembered'
  BY <1>5, MediaControllerAssumption DEF Reserve, Read, Reserved, Fresh,
     UnusedNonce, TypeOK, States, Launches, Idle, Tracked, Remembered,
     Holding, Deciding, Reading, Pcs, Phases
<1>6. CASE Create
  BY <1>6, MediaControllerAssumption DEF Create, TypeOK, States, Launches,
     Idle, Tracked, Remembered, Holding, Deciding, Reading, Pcs, Phases
<1>7. ASSUME NEW v \in Vms, CreateAnswers(v) PROVE Remembered'
  BY <1>7, MediaControllerAssumption DEF CreateAnswers, Save, Known, TypeOK,
     States, Launches, Idle, Tracked, Remembered, Holding, Deciding, Reading,
     Pcs, Phases
<1>8. ASSUME NEW v \in Vms, Adopt(v) PROVE Remembered'
  BY <1>8, MediaControllerAssumption DEF Adopt, Save, Known, Bearers, TypeOK,
     States, Launches, Idle, Tracked, Remembered, Holding, Deciding, Reading,
     Pcs, Phases
<1>9. CASE CreationPending
  BY <1>9, MediaControllerAssumption DEF CreationPending, Return, TypeOK,
     States, Launches, Idle, Tracked, Remembered, Holding, Deciding, Reading,
     Pcs, Phases
<1>10. CASE CreationExpires
  BY <1>10, MediaControllerAssumption DEF CreationExpires, Return, TypeOK,
     States, Launches, Idle, Tracked, Remembered, Holding, Deciding, Reading,
     Pcs, Phases
<1>11. CASE ConfirmDestroyed
  BY <1>11, MediaControllerAssumption DEF ConfirmDestroyed, Return, Gone,
     Status, TypeOK, States, Launches, Idle, Tracked, Remembered, Holding,
     Deciding, Reading, Pcs, Phases
<1>12. CASE DestroyAgain
  BY <1>12, MediaControllerAssumption DEF DestroyAgain, Gone, Status, TypeOK,
     States, Launches, Idle, Tracked, Remembered, Holding, Deciding, Reading,
     Pcs, Phases
<1>13. CASE Expire
  BY <1>13, MediaControllerAssumption DEF Expire, Keep, Expired, Gone, Status,
     Save, Demanded, TypeOK, States, Launches, Idle, Tracked, Remembered,
     Holding, Deciding, Reading, Pcs, Phases
<1>14. CASE Starting
  BY <1>14, MediaControllerAssumption DEF Starting, Return, TypeOK, States,
     Launches, Idle, Tracked, Remembered, Holding, Deciding, Reading, Pcs,
     Phases
<1>15. CASE AskDrain
  BY <1>15, MediaControllerAssumption DEF AskDrain, Keep, Gone, Status, Save,
     Demanded, TypeOK, States, Launches, Idle, Tracked, Remembered, Holding,
     Deciding, Reading, Pcs, Phases
<1>16. CASE Serve
  BY <1>16, MediaControllerAssumption DEF Serve, Keep, Gone, Status, Save,
     Demanded, TypeOK, States, Launches, Idle, Tracked, Remembered, Holding,
     Deciding, Reading, Pcs, Phases
<1>17. CASE Start
  BY <1>17, MediaControllerAssumption DEF Start, Return, Status, TypeOK,
     States, Launches, Idle, Tracked, Remembered, Holding, Deciding, Reading,
     Pcs, Phases
<1>18. CASE Drain
  BY <1>18, MediaControllerAssumption DEF Drain, Return, Status, TypeOK,
     States, Launches, Idle, Tracked, Remembered, Holding, Deciding, Reading,
     Pcs, Phases
<1>19. CASE Acknowledged
  BY <1>19, MediaControllerAssumption DEF Acknowledged, Save, TypeOK, States,
     Launches, Idle, Tracked, Remembered, Holding, Deciding, Reading, Pcs,
     Phases
<1>20. CASE Destroy
  BY <1>20, MediaControllerAssumption DEF Destroy, Return, Gone, Status,
     TypeOK, States, Launches, Idle, Tracked, Remembered, Holding, Deciding,
     Reading, Pcs, Phases
<1>21. ASSUME NEW r \in requests, NEW v \in Vms, Provision(r, v) PROVE Remembered'
  BY <1>21, MediaControllerAssumption DEF Provision, process, TypeOK, States,
     Launches, Idle, Tracked, Remembered, Holding, Deciding, Reading, Pcs,
     Phases
<1>22. ASSUME NEW v \in Vms, Boots(v) PROVE Remembered'
  BY <1>22, MediaControllerAssumption DEF Boots, Become, process, TypeOK,
     States, Launches, Idle, Tracked, Remembered, Holding, Deciding, Reading,
     Pcs, Phases
<1>23. ASSUME NEW v \in Vms, Fails(v) PROVE Remembered'
  BY <1>23, MediaControllerAssumption DEF Fails, Become, process, TypeOK,
     States, Launches, Idle, Tracked, Remembered, Holding, Deciding, Reading,
     Pcs, Phases
<1>24. ASSUME NEW v \in Vms, Finish(v) PROVE Remembered'
  BY <1>24, MediaControllerAssumption DEF Finish, Become, process, TypeOK,
     States, Launches, Idle, Tracked, Remembered, Holding, Deciding, Reading,
     Pcs, Phases
<1>25. ASSUME NEW v \in Vms, Reap(v) PROVE Remembered'
  BY <1>25, MediaControllerAssumption DEF Reap, Become, process, TypeOK,
     States, Launches, Idle, Tracked, Remembered, Holding, Deciding, Reading,
     Pcs, Phases
<1>26. ASSUME NEW v \in Vms, Claim(v) PROVE Remembered'
  BY <1>26, MediaControllerAssumption DEF Claim, Work, Up, process, TypeOK,
     States, Launches, Idle, Tracked, Remembered, Holding, Deciding, Reading,
     Pcs, Phases
<1>27. ASSUME NEW v \in Vms, EndTick(v) PROVE Remembered'
  BY <1>27, MediaControllerAssumption DEF EndTick, Work, Up, process, TypeOK,
     States, Launches, Idle, Tracked, Remembered, Holding, Deciding, Reading,
     Pcs, Phases
<1>28. ASSUME NEW v \in Vms, Park(v) PROVE Remembered'
  BY <1>28, MediaControllerAssumption DEF Park, Up, process, TypeOK, States,
     Launches, Idle, Tracked, Remembered, Holding, Deciding, Reading, Pcs,
     Phases
<1>29. ASSUME NEW v \in Vms, Die(v) PROVE Remembered'
  BY <1>29, MediaControllerAssumption DEF Die, Up, process, TypeOK, States,
     Launches, Idle, Tracked, Remembered, Holding, Deciding, Reading, Pcs,
     Phases
<1>30. ASSUME NEW v \in Vms, Restart(v) PROVE Remembered'
  BY <1>30, MediaControllerAssumption DEF Restart, Work, Up, process, TypeOK,
     States, Launches, Idle, Tracked, Remembered, Holding, Deciding, Reading,
     Pcs, Phases
<1>31. CASE Tick
  BY <1>31, MediaControllerAssumption DEF Tick, process, TypeOK, States,
     Launches, Idle, Tracked, Remembered, Holding, Deciding, Reading, Pcs,
     Phases
<1>32. CASE UNCHANGED vars
  BY <1>32, MediaControllerAssumption DEF vars, TypeOK, States, Launches,
     Idle, Tracked, Remembered, Holding, Deciding, Reading, Pcs, Phases
<1>33. QED
  BY <1>1, <1>2, <1>3, <1>4, <1>5, <1>6, <1>7, <1>8, <1>9, <1>10, <1>11,
     <1>12, <1>13, <1>14, <1>15, <1>16, <1>17, <1>18, <1>19, <1>20, <1>21,
     <1>22, <1>23, <1>24, <1>25, <1>26, <1>27, <1>28, <1>29, <1>30, <1>31,
     <1>32 DEF Next, Controller, Provider,
     Worker, Begin, Seek, Judge

(* What is left of the launches when the old ones are dropped is a proper  *)
(* list of the last day.                                                   *)
LEMMA FreshCounts ==
  ASSUME TypeOK, Counted
  PROVE  Counts(Fresh.launches, clock)
<1>1. Fresh.launches = {l \in disk.launches : l.at + Day > clock}
  BY DEF Fresh, TypeOK, States
<1>2. Fresh.launches \in SUBSET disk.launches
  BY <1>1
<1>3. /\ IsFiniteSet(disk.launches)
      /\ Cardinality(disk.launches) \in Nat
      /\ Cardinality(disk.launches) <= MaxDailyLaunches
  BY FS_CardinalityType DEF Counted, Counts
<1>4. /\ IsFiniteSet(Fresh.launches) /\ Cardinality(Fresh.launches) \in Nat
      /\ Cardinality(Fresh.launches) <= Cardinality(disk.launches)
  BY <1>2, <1>3, FS_Subset, FS_CardinalityType
<1>5. Cardinality(Fresh.launches) <= MaxDailyLaunches
  BY <1>3, <1>4, MediaControllerAssumption
<1>6. ASSUME NEW r \in requests, r \notin Fresh.launches PROVE r.at + Day <= clock
  BY <1>1, <1>6, MediaControllerAssumption DEF Counted, Counts, TypeOK, Launches
<1> QED
  BY <1>4, <1>5, <1>6 DEF Counts

(* Every step keeps the launches counted.                                  *)
LEMMA CountedStep ==
  ASSUME TypeOK, Tracked, Remembered, Counted, [Next]_vars
  PROVE  Counted'
<1>1. CASE Cron
  BY <1>1, FreshCounts, MediaControllerAssumption DEF Cron, Return, TypeOK,
     States, Launches, Idle, Counts, Counted, Remembered, Reading, Pcs
<1>2. CASE Exit
  BY <1>2, FreshCounts, MediaControllerAssumption DEF Exit, Return, TypeOK,
     States, Launches, Idle, Counts, Counted, Remembered, Reading, Pcs
<1>3. ASSUME NEW demand \in Demands, Resume(demand) PROVE Counted'
  BY <1>3, FreshCounts, MediaControllerAssumption DEF Resume, Read, Fresh,
     TypeOK, States, Launches, Idle, Counts, Counted, Remembered, Reading, Pcs
<1>4. ASSUME NEW demand \in Demands, StayIdle(demand) PROVE Counted'
  BY <1>4, FreshCounts, MediaControllerAssumption DEF StayIdle, Return,
     TypeOK, States, Launches, Idle, Counts, Counted, Remembered, Reading, Pcs
<1>5. ASSUME NEW n \in Nonces, Reserve(n) PROVE Counted'
  <2> DEFINE launch == [nonce |-> n, at |-> clock]
  <2>1. /\ mem'.launches = Fresh.launches \cup {launch} /\ disk' = mem'
        /\ at' = clock /\ clock' = clock /\ requests' = requests /\ pc' = "create"
        /\ mem'.nonce = n
    BY <1>5 DEF Reserve, Read, Reserved
  <2>2. launch \notin Fresh.launches
    BY <1>5 DEF Reserve, UnusedNonce, Fresh, TypeOK, States
  <2>3. Counts(mem'.launches, clock)
    <3>1. IsFiniteSet(Fresh.launches) /\ Cardinality(Fresh.launches) \in Nat
      BY FreshCounts, FS_CardinalityType DEF Counts
    <3>2. /\ IsFiniteSet(Fresh.launches \cup {launch})
          /\ Cardinality(Fresh.launches \cup {launch}) = Cardinality(Fresh.launches) + 1
      <4> HIDE DEF launch
      <4> QED  BY <2>2, <3>1, FS_AddElement
    <3>3. Cardinality(mem'.launches) <= MaxDailyLaunches
      BY <1>5, <2>1, <3>1, <3>2, MediaControllerAssumption DEF Reserve
    <3> QED
      BY <2>1, <3>2, <3>3, FreshCounts DEF Counts
  <2> QED
    BY <2>1, <2>3 DEF Counted, Counts, Reading, Pcs
<1>6. CASE Create
  BY <1>6, FreshCounts, MediaControllerAssumption DEF Create, TypeOK, States,
     Launches, Idle, Counts, Counted, Remembered, Reading, Pcs
<1>7. ASSUME NEW v \in Vms, CreateAnswers(v) PROVE Counted'
  BY <1>7, FreshCounts, MediaControllerAssumption DEF CreateAnswers, Save,
     Known, TypeOK, States, Launches, Idle, Counts, Counted, Remembered,
     Reading, Pcs
<1>8. ASSUME NEW v \in Vms, Adopt(v) PROVE Counted'
  BY <1>8, FreshCounts, MediaControllerAssumption DEF Adopt, Save, Known,
     Bearers, TypeOK, States, Launches, Idle, Counts, Counted, Remembered,
     Reading, Pcs
<1>9. CASE CreationPending
  BY <1>9, FreshCounts, MediaControllerAssumption DEF CreationPending, Return,
     TypeOK, States, Launches, Idle, Counts, Counted, Remembered, Reading, Pcs
<1>10. CASE CreationExpires
  BY <1>10, FreshCounts, MediaControllerAssumption DEF CreationExpires,
     Return, TypeOK, States, Launches, Idle, Counts, Counted, Remembered,
     Reading, Pcs
<1>11. CASE ConfirmDestroyed
  BY <1>11, FreshCounts, MediaControllerAssumption DEF ConfirmDestroyed,
     Return, Gone, Status, TypeOK, States, Launches, Idle, Counts, Counted,
     Remembered, Reading, Pcs
<1>12. CASE DestroyAgain
  BY <1>12, FreshCounts, MediaControllerAssumption DEF DestroyAgain, Gone,
     Status, TypeOK, States, Launches, Idle, Counts, Counted, Remembered,
     Reading, Pcs
<1>13. CASE Expire
  BY <1>13, FreshCounts, MediaControllerAssumption DEF Expire, Keep, Expired,
     Gone, Status, Save, Demanded, TypeOK, States, Launches, Idle, Counts,
     Counted, Remembered, Reading, Pcs
<1>14. CASE Starting
  BY <1>14, FreshCounts, MediaControllerAssumption DEF Starting, Return,
     TypeOK, States, Launches, Idle, Counts, Counted, Remembered, Reading, Pcs
<1>15. CASE AskDrain
  BY <1>15, FreshCounts, MediaControllerAssumption DEF AskDrain, Keep, Gone,
     Status, Save, Demanded, TypeOK, States, Launches, Idle, Counts, Counted,
     Remembered, Reading, Pcs
<1>16. CASE Serve
  BY <1>16, FreshCounts, MediaControllerAssumption DEF Serve, Keep, Gone,
     Status, Save, Demanded, TypeOK, States, Launches, Idle, Counts, Counted,
     Remembered, Reading, Pcs
<1>17. CASE Start
  BY <1>17, FreshCounts, MediaControllerAssumption DEF Start, Return, Status,
     TypeOK, States, Launches, Idle, Counts, Counted, Remembered, Reading, Pcs
<1>18. CASE Drain
  BY <1>18, FreshCounts, MediaControllerAssumption DEF Drain, Return, Status,
     TypeOK, States, Launches, Idle, Counts, Counted, Remembered, Reading, Pcs
<1>19. CASE Acknowledged
  BY <1>19, FreshCounts, MediaControllerAssumption DEF Acknowledged, Save,
     TypeOK, States, Launches, Idle, Counts, Counted, Remembered, Reading, Pcs
<1>20. CASE Destroy
  BY <1>20, FreshCounts, MediaControllerAssumption DEF Destroy, Return, Gone,
     Status, TypeOK, States, Launches, Idle, Counts, Counted, Remembered,
     Reading, Pcs
<1>21. ASSUME NEW r \in requests, NEW v \in Vms, Provision(r, v) PROVE Counted'
  BY <1>21, FreshCounts, MediaControllerAssumption DEF Provision, process,
     TypeOK, States, Launches, Idle, Counts, Counted, Remembered, Reading, Pcs
<1>22. ASSUME NEW v \in Vms, Boots(v) PROVE Counted'
  BY <1>22, FreshCounts, MediaControllerAssumption DEF Boots, Become, process,
     TypeOK, States, Launches, Idle, Counts, Counted, Remembered, Reading, Pcs
<1>23. ASSUME NEW v \in Vms, Fails(v) PROVE Counted'
  BY <1>23, FreshCounts, MediaControllerAssumption DEF Fails, Become, process,
     TypeOK, States, Launches, Idle, Counts, Counted, Remembered, Reading, Pcs
<1>24. ASSUME NEW v \in Vms, Finish(v) PROVE Counted'
  BY <1>24, FreshCounts, MediaControllerAssumption DEF Finish, Become,
     process, TypeOK, States, Launches, Idle, Counts, Counted, Remembered,
     Reading, Pcs
<1>25. ASSUME NEW v \in Vms, Reap(v) PROVE Counted'
  BY <1>25, FreshCounts, MediaControllerAssumption DEF Reap, Become, process,
     TypeOK, States, Launches, Idle, Counts, Counted, Remembered, Reading, Pcs
<1>26. ASSUME NEW v \in Vms, Claim(v) PROVE Counted'
  BY <1>26, FreshCounts, MediaControllerAssumption DEF Claim, Work, Up,
     process, TypeOK, States, Launches, Idle, Counts, Counted, Remembered,
     Reading, Pcs
<1>27. ASSUME NEW v \in Vms, EndTick(v) PROVE Counted'
  BY <1>27, FreshCounts, MediaControllerAssumption DEF EndTick, Work, Up,
     process, TypeOK, States, Launches, Idle, Counts, Counted, Remembered,
     Reading, Pcs
<1>28. ASSUME NEW v \in Vms, Park(v) PROVE Counted'
  BY <1>28, FreshCounts, MediaControllerAssumption DEF Park, Up, process,
     TypeOK, States, Launches, Idle, Counts, Counted, Remembered, Reading, Pcs
<1>29. ASSUME NEW v \in Vms, Die(v) PROVE Counted'
  BY <1>29, FreshCounts, MediaControllerAssumption DEF Die, Up, process,
     TypeOK, States, Launches, Idle, Counts, Counted, Remembered, Reading, Pcs
<1>30. ASSUME NEW v \in Vms, Restart(v) PROVE Counted'
  BY <1>30, FreshCounts, MediaControllerAssumption DEF Restart, Work, Up,
     process, TypeOK, States, Launches, Idle, Counts, Counted, Remembered,
     Reading, Pcs
<1>31. CASE Tick
  BY <1>31, FreshCounts, MediaControllerAssumption DEF Tick, process, TypeOK,
     States, Launches, Idle, Counts, Counted, Remembered, Reading, Pcs
<1>32. CASE UNCHANGED vars
  BY <1>32, FreshCounts, MediaControllerAssumption DEF vars, TypeOK, States,
     Launches, Idle, Counts, Counted, Remembered, Reading, Pcs
<1>33. QED
  BY <1>1, <1>2, <1>3, <1>4, <1>5, <1>6, <1>7, <1>8, <1>9, <1>10, <1>11,
     <1>12, <1>13, <1>14, <1>15, <1>16, <1>17, <1>18, <1>19, <1>20, <1>21,
     <1>22, <1>23, <1>24, <1>25, <1>26, <1>27, <1>28, <1>29, <1>30, <1>31,
     <1>32 DEF Next, Controller, Provider,
     Worker, Begin, Seek, Judge

(* No step but the lifetime's end prepares to end a machine at work.       *)
LEMMA DrainedStep ==
  ASSUME TypeOK, Tracked, Remembered, Drained, ~WorkerDies, [Next]_vars
  PROVE  Drained'
<1>1. CASE Cron
  BY <1>1, MediaControllerAssumption DEF Cron, Return, TypeOK, States,
     Machines, Statuses, Idle, MayEnd, Drained, Tracked, Remembered, Holding,
     Deciding, Reading, Pcs, Phases
<1>2. CASE Exit
  BY <1>2, MediaControllerAssumption DEF Exit, Return, TypeOK, States,
     Machines, Statuses, Idle, MayEnd, Drained, Tracked, Remembered, Holding,
     Deciding, Reading, Pcs, Phases
<1>3. ASSUME NEW demand \in Demands, Resume(demand) PROVE Drained'
  BY <1>3, MediaControllerAssumption DEF Resume, Read, Fresh, TypeOK, States,
     Machines, Statuses, Idle, MayEnd, Drained, Tracked, Remembered, Holding,
     Deciding, Reading, Pcs, Phases
<1>4. ASSUME NEW demand \in Demands, StayIdle(demand) PROVE Drained'
  BY <1>4, MediaControllerAssumption DEF StayIdle, Return, TypeOK, States,
     Machines, Statuses, Idle, MayEnd, Drained, Tracked, Remembered, Holding,
     Deciding, Reading, Pcs, Phases
<1>5. ASSUME NEW n \in Nonces, Reserve(n) PROVE Drained'
  BY <1>5, MediaControllerAssumption DEF Reserve, Read, Reserved, Fresh,
     UnusedNonce, TypeOK, States, Machines, Statuses, Idle, MayEnd, Drained,
     Tracked, Remembered, Holding, Deciding, Reading, Pcs, Phases
<1>6. CASE Create
  BY <1>6, MediaControllerAssumption DEF Create, TypeOK, States, Machines,
     Statuses, Idle, MayEnd, Drained, Tracked, Remembered, Holding, Deciding,
     Reading, Pcs, Phases
<1>7. ASSUME NEW v \in Vms, CreateAnswers(v) PROVE Drained'
  BY <1>7, MediaControllerAssumption DEF CreateAnswers, Save, Known, TypeOK,
     States, Machines, Statuses, Idle, MayEnd, Drained, Tracked, Remembered,
     Holding, Deciding, Reading, Pcs, Phases
<1>8. ASSUME NEW v \in Vms, Adopt(v) PROVE Drained'
  BY <1>8, MediaControllerAssumption DEF Adopt, Save, Known, Bearers, TypeOK,
     States, Machines, Statuses, Idle, MayEnd, Drained, Tracked, Remembered,
     Holding, Deciding, Reading, Pcs, Phases
<1>9. CASE CreationPending
  BY <1>9, MediaControllerAssumption DEF CreationPending, Return, TypeOK,
     States, Machines, Statuses, Idle, MayEnd, Drained, Tracked, Remembered,
     Holding, Deciding, Reading, Pcs, Phases
<1>10. CASE CreationExpires
  BY <1>10, MediaControllerAssumption DEF CreationExpires, Return, TypeOK,
     States, Machines, Statuses, Idle, MayEnd, Drained, Tracked, Remembered,
     Holding, Deciding, Reading, Pcs, Phases
<1>11. CASE ConfirmDestroyed
  BY <1>11, MediaControllerAssumption DEF ConfirmDestroyed, Return, Gone,
     Status, TypeOK, States, Machines, Statuses, Idle, MayEnd, Drained,
     Tracked, Remembered, Holding, Deciding, Reading, Pcs, Phases
<1>12. CASE DestroyAgain
  BY <1>12, MediaControllerAssumption DEF DestroyAgain, Gone, Status, TypeOK,
     States, Machines, Statuses, Idle, MayEnd, Drained, Tracked, Remembered,
     Holding, Deciding, Reading, Pcs, Phases
<1>13. CASE Expire
  BY <1>13, MediaControllerAssumption DEF Expire, Keep, Expired, Gone, Status,
     Save, Demanded, TypeOK, States, Machines, Statuses, Idle, MayEnd,
     Drained, Tracked, Remembered, Holding, Deciding, Reading, Pcs, Phases
<1>14. CASE Starting
  BY <1>14, MediaControllerAssumption DEF Starting, Return, TypeOK, States,
     Machines, Statuses, Idle, MayEnd, Drained, Tracked, Remembered, Holding,
     Deciding, Reading, Pcs, Phases
<1>15. CASE AskDrain
  BY <1>15, MediaControllerAssumption DEF AskDrain, Keep, Gone, Status, Save,
     Demanded, TypeOK, States, Machines, Statuses, Idle, MayEnd, Drained,
     Tracked, Remembered, Holding, Deciding, Reading, Pcs, Phases
<1>16. CASE Serve
  BY <1>16, MediaControllerAssumption DEF Serve, Keep, Gone, Status, Save,
     Demanded, TypeOK, States, Machines, Statuses, Idle, MayEnd, Drained,
     Tracked, Remembered, Holding, Deciding, Reading, Pcs, Phases
<1>17. CASE Start
  BY <1>17, MediaControllerAssumption DEF Start, Return, Status, TypeOK,
     States, Machines, Statuses, Idle, MayEnd, Drained, Tracked, Remembered,
     Holding, Deciding, Reading, Pcs, Phases
<1>18. CASE Drain
  BY <1>18, MediaControllerAssumption DEF Drain, Return, Status, TypeOK,
     States, Machines, Statuses, Idle, MayEnd, Drained, Tracked, Remembered,
     Holding, Deciding, Reading, Pcs, Phases
<1>19. CASE Acknowledged
  BY <1>19, MediaControllerAssumption DEF Acknowledged, Save, TypeOK, States,
     Machines, Statuses, Idle, MayEnd, Drained, Tracked, Remembered, Holding,
     Deciding, Reading, Pcs, Phases
<1>20. CASE Destroy
  BY <1>20, MediaControllerAssumption DEF Destroy, Return, Gone, Status,
     TypeOK, States, Machines, Statuses, Idle, MayEnd, Drained, Tracked,
     Remembered, Holding, Deciding, Reading, Pcs, Phases
<1>21. ASSUME NEW r \in requests, NEW v \in Vms, Provision(r, v) PROVE Drained'
  BY <1>21, MediaControllerAssumption DEF Provision, process, TypeOK, States,
     Machines, Statuses, Idle, MayEnd, Drained, Tracked, Remembered, Holding,
     Deciding, Reading, Pcs, Phases
<1>22. ASSUME NEW v \in Vms, Boots(v) PROVE Drained'
  BY <1>22, MediaControllerAssumption DEF Boots, Become, process, TypeOK,
     States, Machines, Statuses, Idle, MayEnd, Drained, Tracked, Remembered,
     Holding, Deciding, Reading, Pcs, Phases
<1>23. ASSUME NEW v \in Vms, Fails(v) PROVE Drained'
  BY <1>23, MediaControllerAssumption DEF Fails, Become, process, TypeOK,
     States, Machines, Statuses, Idle, MayEnd, Drained, Tracked, Remembered,
     Holding, Deciding, Reading, Pcs, Phases
<1>24. ASSUME NEW v \in Vms, Finish(v) PROVE Drained'
  BY <1>24, MediaControllerAssumption DEF Finish, Become, process, TypeOK,
     States, Machines, Statuses, Idle, MayEnd, Drained, Tracked, Remembered,
     Holding, Deciding, Reading, Pcs, Phases
<1>25. ASSUME NEW v \in Vms, Reap(v) PROVE Drained'
  BY <1>25, MediaControllerAssumption DEF Reap, Become, process, TypeOK,
     States, Machines, Statuses, Idle, MayEnd, Drained, Tracked, Remembered,
     Holding, Deciding, Reading, Pcs, Phases
<1>26. ASSUME NEW v \in Vms, Claim(v) PROVE Drained'
  BY <1>26, MediaControllerAssumption DEF Claim, Work, Up, process, TypeOK,
     States, Machines, Statuses, Idle, MayEnd, Drained, Tracked, Remembered,
     Holding, Deciding, Reading, Pcs, Phases
<1>27. ASSUME NEW v \in Vms, EndTick(v) PROVE Drained'
  BY <1>27, MediaControllerAssumption DEF EndTick, Work, Up, process, TypeOK,
     States, Machines, Statuses, Idle, MayEnd, Drained, Tracked, Remembered,
     Holding, Deciding, Reading, Pcs, Phases
<1>28. ASSUME NEW v \in Vms, Park(v) PROVE Drained'
  BY <1>28, MediaControllerAssumption DEF Park, Up, process, TypeOK, States,
     Machines, Statuses, Idle, MayEnd, Drained, Tracked, Remembered, Holding,
     Deciding, Reading, Pcs, Phases
<1>29. ASSUME NEW v \in Vms, Die(v) PROVE Drained'
  BY <1>29, MediaControllerAssumption DEF Die, Up, process, TypeOK, States,
     Machines, Statuses, Idle, MayEnd, Drained, Tracked, Remembered, Holding,
     Deciding, Reading, Pcs, Phases
<1>30. ASSUME NEW v \in Vms, Restart(v) PROVE Drained'
  BY <1>30, MediaControllerAssumption DEF Restart, Work, Up, process, TypeOK,
     States, Machines, Statuses, Idle, MayEnd, Drained, Tracked, Remembered,
     Holding, Deciding, Reading, Pcs, Phases
<1>31. CASE Tick
  BY <1>31, MediaControllerAssumption DEF Tick, process, TypeOK, States,
     Machines, Statuses, Idle, MayEnd, Drained, Tracked, Remembered, Holding,
     Deciding, Reading, Pcs, Phases
<1>32. CASE UNCHANGED vars
  BY <1>32, MediaControllerAssumption DEF vars, TypeOK, States, Machines,
     Statuses, Idle, MayEnd, Drained, Tracked, Remembered, Holding, Deciding,
     Reading, Pcs, Phases
<1>33. QED
  BY <1>1, <1>2, <1>3, <1>4, <1>5, <1>6, <1>7, <1>8, <1>9, <1>10, <1>11,
     <1>12, <1>13, <1>14, <1>15, <1>16, <1>17, <1>18, <1>19, <1>20, <1>21,
     <1>22, <1>23, <1>24, <1>25, <1>26, <1>27, <1>28, <1>29, <1>30, <1>31,
     <1>32 DEF Next, Controller, Provider,
     Worker, Begin, Seek, Judge

(* Every step keeps unanswered requests known to the file.                 *)
LEMMA AnsweredStep ==
  ASSUME TypeOK, Tracked, Remembered, Answered, [Next]_vars
  PROVE  Answered'
<1>1. CASE Cron
  BY <1>1, MediaControllerAssumption DEF Cron, Return, TypeOK, States,
     Machines, Statuses, Launches, Idle, Answered, Settled, Tracked,
     Remembered, Holding, Deciding, Reading, Pcs, Phases
<1>2. CASE Exit
  BY <1>2, MediaControllerAssumption DEF Exit, Return, TypeOK, States,
     Machines, Statuses, Launches, Idle, Answered, Settled, Tracked,
     Remembered, Holding, Deciding, Reading, Pcs, Phases
<1>3. ASSUME NEW demand \in Demands, Resume(demand) PROVE Answered'
  BY <1>3, MediaControllerAssumption DEF Resume, Read, Fresh, TypeOK, States,
     Machines, Statuses, Launches, Idle, Answered, Settled, Tracked,
     Remembered, Holding, Deciding, Reading, Pcs, Phases
<1>4. ASSUME NEW demand \in Demands, StayIdle(demand) PROVE Answered'
  BY <1>4, MediaControllerAssumption DEF StayIdle, Return, TypeOK, States,
     Machines, Statuses, Launches, Idle, Answered, Settled, Tracked,
     Remembered, Holding, Deciding, Reading, Pcs, Phases
<1>5. ASSUME NEW n \in Nonces, Reserve(n) PROVE Answered'
  BY <1>5, MediaControllerAssumption DEF Reserve, Read, Reserved, Fresh,
     UnusedNonce, TypeOK, States, Machines, Statuses, Launches, Idle,
     Answered, Settled, Tracked, Remembered, Holding, Deciding, Reading, Pcs,
     Phases
<1>6. CASE Create
  BY <1>6, MediaControllerAssumption DEF Create, TypeOK, States, Machines,
     Statuses, Launches, Idle, Answered, Settled, Tracked, Remembered,
     Holding, Deciding, Reading, Pcs, Phases
<1>7. ASSUME NEW v \in Vms, CreateAnswers(v) PROVE Answered'
  BY <1>7, MediaControllerAssumption DEF CreateAnswers, Save, Known, TypeOK,
     States, Machines, Statuses, Launches, Idle, Answered, Settled, Tracked,
     Remembered, Holding, Deciding, Reading, Pcs, Phases
<1>8. ASSUME NEW v \in Vms, Adopt(v) PROVE Answered'
  BY <1>8, MediaControllerAssumption DEF Adopt, Save, Known, Bearers, TypeOK,
     States, Machines, Statuses, Launches, Idle, Answered, Settled, Tracked,
     Remembered, Holding, Deciding, Reading, Pcs, Phases
<1>9. CASE CreationPending
  BY <1>9, MediaControllerAssumption DEF CreationPending, Return, TypeOK,
     States, Machines, Statuses, Launches, Idle, Answered, Settled, Tracked,
     Remembered, Holding, Deciding, Reading, Pcs, Phases
<1>10. CASE CreationExpires
  BY <1>10, MediaControllerAssumption DEF CreationExpires, WaitOver, Return,
     TypeOK, States, Machines, Statuses, Launches, Idle, Answered, Settled,
     Tracked, Remembered, Holding, Deciding, Reading, Pcs, Phases
<1>11. CASE ConfirmDestroyed
  BY <1>11, MediaControllerAssumption DEF ConfirmDestroyed, Return, Gone,
     Status, TypeOK, States, Machines, Statuses, Launches, Idle, Answered,
     Settled, Tracked, Remembered, Holding, Deciding, Reading, Pcs, Phases
<1>12. CASE DestroyAgain
  BY <1>12, MediaControllerAssumption DEF DestroyAgain, Gone, Status, TypeOK,
     States, Machines, Statuses, Launches, Idle, Answered, Settled, Tracked,
     Remembered, Holding, Deciding, Reading, Pcs, Phases
<1>13. CASE Expire
  BY <1>13, MediaControllerAssumption DEF Expire, Keep, Expired, Gone, Status,
     Save, Demanded, TypeOK, States, Machines, Statuses, Launches, Idle,
     Answered, Settled, Tracked, Remembered, Holding, Deciding, Reading, Pcs,
     Phases
<1>14. CASE Starting
  BY <1>14, MediaControllerAssumption DEF Starting, Return, TypeOK, States,
     Machines, Statuses, Launches, Idle, Answered, Settled, Tracked,
     Remembered, Holding, Deciding, Reading, Pcs, Phases
<1>15. CASE AskDrain
  BY <1>15, MediaControllerAssumption DEF AskDrain, Keep, Gone, Status, Save,
     Demanded, TypeOK, States, Machines, Statuses, Launches, Idle, Answered,
     Settled, Tracked, Remembered, Holding, Deciding, Reading, Pcs, Phases
<1>16. CASE Serve
  BY <1>16, MediaControllerAssumption DEF Serve, Keep, Gone, Status, Save,
     Demanded, TypeOK, States, Machines, Statuses, Launches, Idle, Answered,
     Settled, Tracked, Remembered, Holding, Deciding, Reading, Pcs, Phases
<1>17. CASE Start
  BY <1>17, MediaControllerAssumption DEF Start, Return, Status, TypeOK,
     States, Machines, Statuses, Launches, Idle, Answered, Settled, Tracked,
     Remembered, Holding, Deciding, Reading, Pcs, Phases
<1>18. CASE Drain
  BY <1>18, MediaControllerAssumption DEF Drain, Return, Status, TypeOK,
     States, Machines, Statuses, Launches, Idle, Answered, Settled, Tracked,
     Remembered, Holding, Deciding, Reading, Pcs, Phases
<1>19. CASE Acknowledged
  BY <1>19, MediaControllerAssumption DEF Acknowledged, Save, TypeOK, States,
     Machines, Statuses, Launches, Idle, Answered, Settled, Tracked,
     Remembered, Holding, Deciding, Reading, Pcs, Phases
<1>20. CASE Destroy
  BY <1>20, MediaControllerAssumption DEF Destroy, Return, Gone, Status,
     TypeOK, States, Machines, Statuses, Launches, Idle, Answered, Settled,
     Tracked, Remembered, Holding, Deciding, Reading, Pcs, Phases
<1>21. ASSUME NEW r \in requests, NEW v \in Vms, Provision(r, v) PROVE Answered'
  BY <1>21, MediaControllerAssumption DEF Provision, process, TypeOK, States,
     Machines, Statuses, Launches, Idle, Answered, Settled, Tracked,
     Remembered, Holding, Deciding, Reading, Pcs, Phases
<1>22. ASSUME NEW v \in Vms, Boots(v) PROVE Answered'
  BY <1>22, MediaControllerAssumption DEF Boots, Become, process, TypeOK,
     States, Machines, Statuses, Launches, Idle, Answered, Settled, Tracked,
     Remembered, Holding, Deciding, Reading, Pcs, Phases
<1>23. ASSUME NEW v \in Vms, Fails(v) PROVE Answered'
  BY <1>23, MediaControllerAssumption DEF Fails, Become, process, TypeOK,
     States, Machines, Statuses, Launches, Idle, Answered, Settled, Tracked,
     Remembered, Holding, Deciding, Reading, Pcs, Phases
<1>24. ASSUME NEW v \in Vms, Finish(v) PROVE Answered'
  BY <1>24, MediaControllerAssumption DEF Finish, Become, process, TypeOK,
     States, Machines, Statuses, Launches, Idle, Answered, Settled, Tracked,
     Remembered, Holding, Deciding, Reading, Pcs, Phases
<1>25. ASSUME NEW v \in Vms, Reap(v) PROVE Answered'
  BY <1>25, MediaControllerAssumption DEF Reap, Become, process, TypeOK,
     States, Machines, Statuses, Launches, Idle, Answered, Settled, Tracked,
     Remembered, Holding, Deciding, Reading, Pcs, Phases
<1>26. ASSUME NEW v \in Vms, Claim(v) PROVE Answered'
  BY <1>26, MediaControllerAssumption DEF Claim, Work, Up, process, TypeOK,
     States, Machines, Statuses, Launches, Idle, Answered, Settled, Tracked,
     Remembered, Holding, Deciding, Reading, Pcs, Phases
<1>27. ASSUME NEW v \in Vms, EndTick(v) PROVE Answered'
  BY <1>27, MediaControllerAssumption DEF EndTick, Work, Up, process, TypeOK,
     States, Machines, Statuses, Launches, Idle, Answered, Settled, Tracked,
     Remembered, Holding, Deciding, Reading, Pcs, Phases
<1>28. ASSUME NEW v \in Vms, Park(v) PROVE Answered'
  BY <1>28, MediaControllerAssumption DEF Park, Up, process, TypeOK, States,
     Machines, Statuses, Launches, Idle, Answered, Settled, Tracked,
     Remembered, Holding, Deciding, Reading, Pcs, Phases
<1>29. ASSUME NEW v \in Vms, Die(v) PROVE Answered'
  BY <1>29, MediaControllerAssumption DEF Die, Up, process, TypeOK, States,
     Machines, Statuses, Launches, Idle, Answered, Settled, Tracked,
     Remembered, Holding, Deciding, Reading, Pcs, Phases
<1>30. ASSUME NEW v \in Vms, Restart(v) PROVE Answered'
  BY <1>30, MediaControllerAssumption DEF Restart, Work, Up, process, TypeOK,
     States, Machines, Statuses, Launches, Idle, Answered, Settled, Tracked,
     Remembered, Holding, Deciding, Reading, Pcs, Phases
<1>31. CASE Tick
  BY <1>31, MediaControllerAssumption DEF Tick, process, TypeOK, States,
     Machines, Statuses, Launches, Idle, Answered, Settled, Tracked,
     Remembered, Holding, Deciding, Reading, Pcs, Phases
<1>32. CASE UNCHANGED vars
  BY <1>32, MediaControllerAssumption DEF vars, TypeOK, States, Machines,
     Statuses, Launches, Idle, Answered, Settled, Tracked, Remembered,
     Holding, Deciding, Reading, Pcs, Phases
<1>33. QED
  BY <1>1, <1>2, <1>3, <1>4, <1>5, <1>6, <1>7, <1>8, <1>9, <1>10, <1>11,
     <1>12, <1>13, <1>14, <1>15, <1>16, <1>17, <1>18, <1>19, <1>20, <1>21,
     <1>22, <1>23, <1>24, <1>25, <1>26, <1>27, <1>28, <1>29, <1>30, <1>31,
     <1>32 DEF Next, Controller, Provider,
     Worker, Begin, Seek, Judge

(* The only step that sends a create request.                              *)
LEMMA RequestsStep ==
  ASSUME [Next]_vars
  PROVE  requests' = requests \/ Create
<1>1. CASE UNCHANGED vars
  BY <1>1 DEF vars
<1>2. CASE Next
  <2>1. Controller => requests' = requests \/ Create
  BY DEF Controller, Begin, Seek, Judge, Cron, Exit, Resume, StayIdle,
     Reserve, CreateAnswers, Adopt, CreationPending, CreationExpires,
     ConfirmDestroyed, DestroyAgain, Expire, Starting, AskDrain, Serve,
     Start, Drain, Acknowledged, Destroy, Save
  <2>2. Provider \/ Worker \/ Tick => requests' = requests
  BY DEF Provider, Worker, Provision, Boots, Fails, Finish, Reap, Claim,
     EndTick, Park, Die, Restart, Tick, Become, Work
  <2> QED
    BY <1>2, <2>1, <2>2 DEF Next
<1> QED
  BY <1>1, <1>2

(* The only step that ends a running machine.                              *)
LEMMA EndingStep ==
  ASSUME TypeOK, [Next]_vars, NEW v \in Vms, Interrupted(v)
  PROVE  Destroy /\ v = mem.id
<1>1. vm' # vm
  BY DEF Interrupted
<1>2. Controller => Start \/ Drain \/ Destroy
  BY <1>1 DEF Controller, Begin, Seek, Judge, Cron, Exit, Resume, StayIdle,
     Reserve, Create, CreateAnswers, Adopt, CreationPending,
     CreationExpires, ConfirmDestroyed, DestroyAgain, Expire, Starting,
     AskDrain, Serve, Acknowledged, Save
<1>3. Start \/ Drain => vm'[v].status = vm[v].status
  BY DEF Start, Drain, TypeOK, Machines
<1>4. Destroy => v = mem.id
  BY DEF Destroy, TypeOK, Machines, Interrupted
<1>5. ~Provider /\ ~Worker /\ ~Tick
  <2>1. ASSUME NEW u \in Vms, NEW s \in {"RUNNING", "FAILED", "DESTROYED"}, Become(u, s)
        PROVE  FALSE
    BY <2>1 DEF Become, Interrupted, TypeOK, Machines
  <2>2. ASSUME NEW r \in requests, NEW u \in Vms, Provision(r, u) PROVE FALSE
    BY <2>2 DEF Provision, Interrupted, TypeOK, Machines
  <2>3. ~Provider
    BY <2>1, <2>2 DEF Provider, Boots, Fails, Finish, Reap
  <2>4. ASSUME NEW u \in Vms, Claim(u) \/ EndTick(u) \/ Park(u) \/ Die(u) \/ Restart(u)
        PROVE  vm'[v].status = vm[v].status
    BY <2>4 DEF Claim, EndTick, Park, Die, Restart, Work, TypeOK, Machines
  <2> QED
    BY <1>1, <2>3, <2>4 DEF Worker, Tick, Interrupted
<1> QED
  BY <1>1, <1>2, <1>3, <1>4, <1>5 DEF Next, Interrupted, vars

-------------------------------------------------------------------------------
(* The initial state satisfies the invariant.                              *)
LEMMA InvariantInit == Init => TypeOK /\ ControllerInvariant
<1> SUFFICES ASSUME Init PROVE TypeOK /\ ControllerInvariant
  OBVIOUS
<1>1. TypeOK
  BY TypeInit
<1>2. Tracked /\ Remembered /\ Answered /\ Drained
  BY MediaControllerAssumption DEF Init, Idle, NoMachine, Credentialed,
     Tracked, Remembered,
     Answered, Drained, Holding, Deciding, Reading
<1>3. Counted
  BY FS_EmptySet, MediaControllerAssumption DEF Init, Idle, Counted, Counts,
     Reading
<1> QED
  BY <1>1, <1>2, <1>3 DEF ControllerInvariant

(* Every step keeps the invariant.                                         *)
LEMMA InvariantStep ==
  ASSUME TypeOK, ControllerInvariant, [Next]_vars
  PROVE  TypeOK' /\ ControllerInvariant'
<1>1. TypeOK' /\ Tracked' /\ Remembered'
  BY TypeStep, TrackedStep, RememberedStep DEF ControllerInvariant
<1>2. Counted' /\ Answered'
  BY CountedStep, AnsweredStep DEF ControllerInvariant
<1>3. ~WorkerDies => Drained'
  BY DrainedStep DEF ControllerInvariant
<1> QED
  BY <1>1, <1>2, <1>3 DEF ControllerInvariant

(* The state file, the process and the provider always agree (controller.  *)
(* mjs, reconcile).                                                        *)
THEOREM ControllerInvariance == Spec => [](TypeOK /\ ControllerInvariant)
<1>1. Init => TypeOK /\ ControllerInvariant
  BY InvariantInit
<1>2. TypeOK /\ ControllerInvariant /\ [Next]_vars => (TypeOK /\ ControllerInvariant)'
  BY InvariantStep
<1> QED
  BY <1>1, <1>2, PTL DEF Spec

(* Every variable keeps its type.                                          *)
THEOREM ControllerTypes == Spec => []TypeOK
  BY ControllerInvariance, PTL

(* However creations are lost, late or doubled and wherever the process    *)
(* dies, one machine at most holds the worker's credentials, and the state *)
(* file names it.                                                          *)
THEOREM OneMachine == Spec => []OneCredentialedMachine
<1>1. TypeOK /\ ControllerInvariant => OneCredentialedMachine
  BY DEF ControllerInvariant, Tracked, OneCredentialedMachine
<1> QED
  BY <1>1, ControllerInvariance, PTL

(* A new request has at most the reserved launches in its day.             *)
LEMMA LaunchLimitStep ==
  ASSUME TypeOK, ControllerInvariant, LaunchLimit, [Next]_vars
  PROVE  LaunchLimit'
<1>1. CASE Create
  <2> DEFINE new == [nonce |-> mem.nonce, at |-> at]
  <2>1. requests' = requests \cup {new} /\ new.at = at /\ at \in Nat
    BY <1>1 DEF Create, TypeOK
  <2>2. Counts(mem.launches, at) /\ new \in mem.launches
    BY <1>1 DEF Create, ControllerInvariant, Counted, Reading, Pcs
  <2>3. requests \subseteq Launches /\ TypeOK'
    BY InvariantStep DEF TypeOK
  <2> SUFFICES ASSUME NEW r \in requests' PROVE Cardinality(Window(r)') <= MaxDailyLaunches
    BY DEF LaunchLimit
  <2>4. r.at \in Nat
    BY <2>3 DEF TypeOK, Launches
  <2>5. CASE r.at >= at
    <3>1. Window(r)' \in SUBSET mem.launches
      BY <2>1, <2>2, <2>3, <2>4, <2>5, MediaControllerAssumption
         DEF Window, Counts, Launches
    <3>2. /\ IsFiniteSet(mem.launches) /\ Cardinality(mem.launches) \in Nat
          /\ Cardinality(mem.launches) <= MaxDailyLaunches
      BY <2>2, FS_CardinalityType DEF Counts
    <3>3. /\ IsFiniteSet(Window(r)') /\ Cardinality(Window(r)') \in Nat
          /\ Cardinality(Window(r)') <= Cardinality(mem.launches)
      BY <3>1, <3>2, FS_Subset, FS_CardinalityType
    <3> QED
      BY <3>2, <3>3, MediaControllerAssumption
  <2>6. CASE r.at < at
    <3>1. r \in requests
      BY <2>1, <2>4, <2>6
    <3>2. Window(r)' = Window(r)
      BY <2>1, <2>4, <2>6 DEF Window
    <3> QED
      BY <3>1, <3>2 DEF LaunchLimit
  <2> QED
    BY <2>1, <2>4, <2>5, <2>6
<1>2. CASE requests' = requests
  BY <1>2 DEF LaunchLimit, Window
<1> QED
  BY <1>1, <1>2, RequestsStep

(* In no day are more than MaxDailyLaunches machines asked for.            *)
THEOREM LaunchesAreLimited == Spec => []LaunchLimit
<1>1. Init => LaunchLimit
  BY DEF Init, LaunchLimit
<1>2. TypeOK /\ ControllerInvariant /\ LaunchLimit /\ [Next]_vars => LaunchLimit'
  BY LaunchLimitStep
<1> QED
  BY <1>1, <1>2, ControllerInvariance, PTL DEF Spec

(* A creation of unknown outcome is waited for, never repeated at once.    *)
THEOREM CreationsAreNotRepeated == Spec => NoBlindCreate
<1>1. ASSUME TypeOK, ControllerInvariant, [Next]_vars,
             NEW r \in requests' \ requests, NEW m \in requests
      PROVE  Settled(m) \/ r.at - m.at >= CreationWait
  <2>1. Create
    BY <1>1, RequestsStep
  <2>2. r.at = at
    BY <1>1, <2>1 DEF Create
  <2> QED
    BY <1>1, <2>1, <2>2 DEF Create, ControllerInvariant, Answered
<1>2. TypeOK /\ ControllerInvariant /\ [Next]_vars =>
        [\A r \in requests' \ requests, m \in requests :
            Settled(m) \/ r.at - m.at >= CreationWait]_vars
  BY <1>1
<1> QED
  BY <1>2, ControllerInvariance, PTL DEF Spec, NoBlindCreate

(* As long as the worker's container does not die, no machine is ended for *)
(* idleness while its worker is in a tick.                                 *)
THEOREM IdlenessSparesWork == ~WorkerDies => (Spec => IdlenessNeverInterrupts)
<1> SUFFICES ASSUME ~WorkerDies PROVE Spec => IdlenessNeverInterrupts
  OBVIOUS
<1>1. ASSUME TypeOK, ControllerInvariant, [Next]_vars, NEW v \in Vms, Interrupted(v)
      PROVE  at - mem.createdAt >= MaxSeconds
  <2>1. Destroy /\ v = mem.id
    BY <1>1, EndingStep
  <2>2. MayEnd(v, mem, at)
    BY <1>1, <2>1 DEF Destroy, ControllerInvariant, Drained
  <2>3. ~vm[v].drained
    BY <1>1 DEF Interrupted, ControllerInvariant, Drained
  <2> QED
    BY <1>1, <2>2, <2>3 DEF MayEnd, Interrupted
<1>2. TypeOK /\ ControllerInvariant /\ [Next]_vars =>
        [\A v \in Vms : Interrupted(v) => at - mem.createdAt >= MaxSeconds]_vars
  BY <1>1
<1> QED
  BY <1>2, ControllerInvariance, PTL DEF Spec, IdlenessNeverInterrupts
===============================================================================
