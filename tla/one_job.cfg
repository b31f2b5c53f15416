CONSTANTS
  j1 = j1  j2 = j2  j3 = j3  w1 = w1  w2 = w2  u1 = u1  u2 = u2
  Jobs = {j1}
  Automatic = {j1}
  Subjects = {u1}
  SubjectOf <- Subject
  Workers = {w1, w2}
  MaxCalls = 2
  Ceiling = 1
  Answers = {"ok", "invalid", "unpriced", "refused", "throttled", "server_error"}
  Prices = {1, 2}
  Invoices = {1}
  BreakerFailures = 1
  MaxFence = 3
  Legacy = {u1}
  Imported = Imported
  None = None
SPECIFICATION Spec
INVARIANTS
    TypeOK
    ExclusiveOwner
    MoneySound
PROPERTIES
    TerminalIsFinal
    ImplementsPromise
SYMMETRY WorkerSymmetry
CHECK_DEADLOCK FALSE
