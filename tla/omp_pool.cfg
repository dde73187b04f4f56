SPECIFICATION FairSpec
CONSTANTS
  q1 = q1
  q2 = q2
  s1 = s1
  None = None
  Cap = 2
  MaxJobs = 3
  Prompts = {q1, q2}
  Sessions = {s1}
  MaxFaults = 2
INVARIANTS
  SlotsAccounted
  NoSharedWorker
  OwnConversation
  ProcessesBounded
PROPERTY
  EveryJobReports
CHECK_DEADLOCK FALSE
