SPECIFICATION Spec
CONSTANTS
    Launch = {"ipc"}
    MaxFrames = 0
    MaxUpdates = 0
    Clients = {}
    Leavers = {}
    Values <- MCValues
    Backlog = 1
    Half = 128
    Split = {}
    Interrupts = FALSE
    None = None
    Producers = {"p"}
    Consumers = {"c"}
    K = 2
    MaxClean = 1
    MaxKill = 1
CHECK_DEADLOCK FALSE
INVARIANTS
    AllOrNone
    StartsFindBalance
