SPECIFICATION ScenarioSpec
CONSTANTS
    w1 = w1
    w2 = w2
    Scenarios = {"narration", "adoption", "replacement", "corrections", "film"}
    Episodes = {e1}
    Workers = {w1, w2}
    Chunks = 2
    Revisions = 2
    Price = 1
    Invoices = {1, 2}
    Answers = {"ok", "broken", "unmetered", "unpriced", "rejected", "denied", "lost"}
    Decisions = {"recover", "adopt", "resume", "replace", "reassign", "invoice", "reset", "skip", "dependency", "facts"}
    MaxFailures = 1
    MaxGeneration = 3
    MaxLookups = 1
    None = None
INVARIANTS
    TypeOK
    PurchasesSound
    MoneySound
    ResultsSound
PROPERTIES
    LateAnswersOnlyCharge
    PipelineSpec
SYMMETRY Symmetry
CHECK_DEADLOCK FALSE
