SPECIFICATION Spec
CONSTANTS
    Audiences = {"members"}
    Gates = {TRUE}
    MaxRevisions = 2
    MaxFacts = 2
    MaxSource = 5
    MaxSettings = 1
    MaxShare = 0
    MaxFuture = 0
    MaxApprovals = 0
    MaxRetries = 0
PROPERTIES
    ResumeIsExplicit
CHECK_DEADLOCK FALSE
