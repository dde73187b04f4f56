SPECIFICATION FairSpec
CONSTANTS
    Threshold = 2
    MaxFailures = 5
    Turns = {t1, t2, t3, t4, t5}
    Streams = {t4, t5}
INVARIANTS
    OneProbeInFlight
PROPERTIES
    HalfOpenEnds
CHECK_DEADLOCK FALSE
