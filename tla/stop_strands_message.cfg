SPECIFICATION FairSpec
CONSTANTS
    MaxMsgs = 2
    MaxStops = 1
    CancelOnNew = FALSE
    Streaming = FALSE
    TurnTimeout = TRUE
    Crashes = FALSE
PROPERTIES
    QueuedArePickedUp
CHECK_DEADLOCK FALSE
