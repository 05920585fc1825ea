SPECIFICATION FairSpec
CONSTANTS
    MaxSessions = 2
    MaxAttempts = 2
    MaxViewRequests = 1
    MaxEvents = 3
    None = None
INVARIANTS
    
    MenuIsModal
PROPERTIES
    AuthSettles
CHECK_DEADLOCK FALSE
