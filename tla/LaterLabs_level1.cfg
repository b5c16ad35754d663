SPECIFICATION FairLevel1
CONSTANTS
    Launch = {"level1"}
    MaxFrames = 2
    MaxUpdates = 0
    Clients = {}
    Leavers = {}
    Values <- MCValues
    Backlog = 1
    Half = 128
    Split = {}
    Interrupts = FALSE
    None = None
    Producers = {}
    Consumers = {}
    K = 1
    MaxClean = 0
    MaxKill = 0
CHECK_DEADLOCK FALSE
INVARIANTS
    WrittenInOrderOnce
PROPERTIES
    StoppedGracefully
