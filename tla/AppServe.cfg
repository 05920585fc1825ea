SPECIFICATION FairSpec
CONSTANTS
    Requests = {c1, c2}
    Probes = {}
    Checks = {}
    None = None
CHECK_DEADLOCK FALSE

    
PROPERTIES
    CancelledServeReturns
