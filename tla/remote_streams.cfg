SPECIFICATION FairSpec
CONSTANTS
  s1 = s1
  s2 = s2
  Streams = {s1, s2}
  Marked = {s1}
  Events <- MCEvents
  MaxStreams = 1
  MaxQueue = 2
  MaxTombs = 1
  MaxWire = 2
  MaxExtras = 1
  MaxFaults = 1
INVARIANTS EndedLeavesNothing IntactReply
PROPERTIES RepliesBeginOnce EveryDrainEnds
CHECK_DEADLOCK FALSE
