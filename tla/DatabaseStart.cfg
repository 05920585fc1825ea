SPECIFICATION FairSpec
CONSTANTS
    A = A
    B = B
    C = C
    Procs = {p1, p2}
    Schemas = {A, B, C}
    Key <- MCKey
    Profiles <- MCProfiles
    Releases <- MCReleases
    Declared <- MCDeclared
    MaxStarts = 3
    None = None
CHECK_DEADLOCK FALSE
INVARIANTS
    PreparesAlone
    RunsOnItsSchemas
PROPERTIES
    StartsEnd
