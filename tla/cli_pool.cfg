SPECIFICATION CliFairSpec
CONSTANTS
  p1 = p1
  q1 = q1
  q2 = q2
  None = None
  Pools = {p1}
  MaxJobs = 2
  Prompts = {q1, q2}
  StreamFlags <- Both
  Ops <- AllOps
  MaxProcs = 3
  MaxEvents = 2
INVARIANTS
  AnswersMatch
  NoStrayProcess
  DiscardedStaysDiscarded
PROPERTIES
  SessionKept
  EveryJobReports
CHECK_DEADLOCK FALSE
