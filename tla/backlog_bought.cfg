SPECIFICATION Spec
CONSTANTS
    Weeks = {1}
    Trades = {}
    Release <- SecondDay
    Stable = 1
    MaxAge = 1
    MaxFacts = 1
    MaxTime = 3
    MaxConnections = 1
    MaxCommands = 2
    MaxObservations = 3
PROPERTIES
    ResumeNeverBuys
CHECK_DEADLOCK FALSE
