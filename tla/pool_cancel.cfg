SPECIFICATION FairSpec
CONSTANTS
    MaxMsgs = 3
    MaxStops = 0
    CancelOnNew = TRUE
    Streaming = TRUE
    TurnTimeout = TRUE
    Crashes = TRUE
INVARIANTS
    OneTurnAtATime
PROPERTIES
    EveryMessageServed
CHECK_DEADLOCK FALSE
