CONSTANTS
    Callers = {c1, c2}
    Resetters = {r1}
    ActionIDs = {a1}
    IDSpace = 3
    None = None
SPECIFICATION FairSpec
INVARIANT RevocationReachesAll
INVARIANT ResetMeansQuiet
PROPERTY GateSpec
PROPERTY RevokedDrains
