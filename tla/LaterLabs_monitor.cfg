SPECIFICATION Spec
CONSTANTS
    Launch = {"monitor"}
    MaxFrames = 0
    MaxUpdates = 2
    Clients = {}
    Leavers = {}
    Values <- MCValues
    Backlog = 1
    Half = 128
    Split = {}
    Interrupts = FALSE
    None = None
    Producers = {}
    Consumers = {}
    K = 1
    MaxClean = 0
    MaxKill = 0
CHECK_DEADLOCK FALSE
INVARIANTS
    NoTornState
    NothingLost
