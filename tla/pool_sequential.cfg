SPECIFICATION FairSpec
CONSTANTS
    MaxMsgs = 3
    MaxStops = 2
    CancelOnNew = FALSE
    Streaming = FALSE
    TurnTimeout = TRUE
    Crashes = TRUE
INVARIANTS
    NoOrphanTurn
    MessagesAccountedFor
    StoppedTurnStaysSilent
    ResumeFiredBeforeTurn
PROPERTIES
    SessionStableDuringTurn
    ScopeSpec
    EveryMessageServed
CHECK_DEADLOCK FALSE
