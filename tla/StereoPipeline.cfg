SPECIFICATION FairSpec
CONSTANTS
    Size = 2
    MaxFrames = 3
CHECK_DEADLOCK FALSE
INVARIANTS
    PairsInOrder
PROPERTIES
    GracefulShutdown
