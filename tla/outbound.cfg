SPECIFICATION FairSpec
CONSTANTS
    Threshold = 1
    MaxFailures = 3
    Scopes = {s1, s2}
    MaxItems = 3
    QueueSize = 2
    ReapThreshold = 2
    MaxAttempts = 2
    Supersedes = TRUE
    Raises = TRUE
    Stops = TRUE
INVARIANTS
    ScopeOrder
    ReportedOnce
PROPERTIES
    EveryItemEnds
    HalfOpenEnds
CHECK_DEADLOCK FALSE
