SPECIFICATION FairSpec
CONSTANTS
    Main = main
    Others = {g1, g2}
    Backends = {"any", "postgres"}
    MaxNested = 2
CHECK_DEADLOCK FALSE
INVARIANTS
    NeverOutlives
    AnswersAreHonest
PROPERTIES
    BoundaryAnswers
