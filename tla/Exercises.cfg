SPECIFICATION Spec
CONSTANTS
    MaxProcs = 8
    MaxN = 2
    Lines = 2
    MaxK = 3
    Clients = {"a", "b"}
    MaxStarts = 2
CHECK_DEADLOCK FALSE
INVARIANTS
    NoneLeftBehind
    LinesTogether
    OutcomeFollowsMode
    RoundAddsUp
    OwnAnswer
PROPERTIES
    TreeEnds
    ProgramEnds
    EverybodyEnds
    AnswersAndReturns
