SPECIFICATION ScenarioSpec
CONSTANTS
    Audiences = {"public", "members"}
    Gates = {TRUE, FALSE}
    MaxRevisions = 3
    MaxFacts = 2
    MaxSource = 3
    MaxSettings = 2
    MaxShare = 2
    MaxFuture = 2
    MaxApprovals = 2
    MaxRetries = 1
INVARIANTS
    TypeOK
    ReadersServed
    ArchiveSound
PROPERTIES
    ProjectionsOnlyAdvance
    OnlyReviewReopens
    ItemsSettle
CHECK_DEADLOCK FALSE
