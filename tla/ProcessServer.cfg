SPECIFICATION FairSpec
CONSTANTS
    Requests = {r1, r2}
    Probes = {p1, p2}
    Checks = {k1}
    None = None
CHECK_DEADLOCK FALSE

    
PROPERTIES
    GateSpec
    ChecksPassForTheirProbe
    ServeEnds
