SPECIFICATION Spec
CONSTANTS
    j1 = j1
    j2 = j2
    j3 = j3
    w1 = w1
    w2 = w2
    u1 = u1
    u2 = u2
    Jobs = {j1, j2, j3}
    Automatic = {j1, j2, j3}
    Subjects = {u1, u2}
    SubjectOf <- Subject
    Workers = {w1, w2}
    MaxCalls = 1
    Ceiling = 1
    Answers = {"ok", "server_error"}
    Prices = {1}
    Invoices = {}
    BreakerFailures = 1
    MaxFence = 1
    Legacy = {u1}
    Imported = Imported
    None = None
CONSTRAINT AtMostTwoJobs
INVARIANTS NoBlindReplacement OneInFlight
PROPERTIES OnlyImportOvertakes
SYMMETRY PairSymmetry
CHECK_DEADLOCK FALSE
