SPECIFICATION Spec
CONSTANTS
    Vms = {v1, v2, v3}
    Nonces = {n1, n2, n3}
    Copies = 2
    IdleSeconds = 1
    CreationWait = 1
    MaxSeconds = 2
    Day = 3
    MaxDailyLaunches = 2
    MaxTime = 3
    WorkerDies = FALSE
    None = None
INVARIANTS
    TypeOK
    OneCredentialedMachine
    LaunchLimit
PROPERTIES
    NoBlindCreate
    IdlenessNeverInterrupts
SYMMETRY Symmetry
