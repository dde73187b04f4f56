SPECIFICATION FairSpec
CONSTANTS
  MaxEvents = 3
  MaxSessions = 2
  MaxFaults = 2
  MaxDeliver = 3
  BatchSize = 2
INVARIANTS AckedIsStored
PROPERTIES ReplayHarmless CountNeverRegresses EventsSettle
CHECK_DEADLOCK FALSE
