SPECIFICATION PoolsSpec
CONSTANTS
    Scopes = {s1, s2, s3, s4}
    MaxPools = 3
    MaxObjects = 5
SYMMETRY ScopeSymmetry
INVARIANTS
    OneRunningPoolPerScope
PROPERTIES
    LeastUsedFirst
CHECK_DEADLOCK FALSE
