CONSTANTS
  Vms = {v1}
  Nonces = {n1, n2}
  Copies = 1
  IdleSeconds = 1
  CreationWait = 1
  MaxSeconds = 2
  Day = 3
  MaxDailyLaunches = 2
  MaxTime = 3
  WorkerDies = TRUE
  None = None
SPECIFICATION FairSpec
PROPERTIES MachinesEnd
