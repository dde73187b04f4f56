SPECIFICATION FairSpec
CONSTANTS
  t1 = t1
  l1 = l1
  None = None
  Turns = {t1}
  Launches = {l1}
  MaxFaults = 1
INVARIANTS
  IndexOwned
PROPERTIES
  RegistryEmpties
CHECK_DEADLOCK FALSE
