SPECIFICATION FairSpec
CONSTANTS
    N = 2
    DatabaseSet = {1}
    MaxCleanups = 2
    Callers = {k1, k2}
    Calls = {c1, c2}
CHECK_DEADLOCK FALSE
INVARIANTS
    CleansInOrder
    EndsClean
PROPERTIES
    StopWins
    
