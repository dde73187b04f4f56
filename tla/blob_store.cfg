SPECIFICATION Spec
CONSTANTS
  server = server
  sweeper = sweeper
  c1 = c1
  c2 = c2
  None = None
  Servers = {server}
  Sweepers = {sweeper}
  Contents = {c1, c2}
  MaxRefs = 3
  MaxFaults = 2
INVARIANTS
  ManifestBacked
  PutsReadable
  NothingLeaks
CHECK_DEADLOCK FALSE
