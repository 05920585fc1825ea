SPECIFICATION Spec
CONSTANTS
    actions = actions
    graph = graph
    Generates = {g}
    Builds = {b}
    Definitions = {d1, d2}
    Artifacts <- MCArtifacts
    Earlier = {d1}
    Output = bin
    Other = Other
    Absent = Absent
    None = None
    MaxForeign = 1
CHECK_DEADLOCK FALSE
INVARIANTS
    RootSerialized
    FailureRestores
    OkMeansCurrent
PROPERTIES
    ReplacesWhatItRead
