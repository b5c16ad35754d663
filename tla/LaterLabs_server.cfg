SPECIFICATION FairServer
CONSTANTS
    Launch = {"server"}
    MaxFrames = 0
    MaxUpdates = 0
    Clients = {a, b, c}
    Leavers = {c}
    Values <- MCValues
    Backlog = 1
    Half = 128
    Split = {a}
    Interrupts = TRUE
    None = None
    Producers = {}
    Consumers = {}
    K = 1
    MaxClean = 0
    MaxKill = 0
    a = a
    b = b
    c = c
CHECK_DEADLOCK FALSE
INVARIANTS
    AllOrNothing
    NoDescriptorLeak
PROPERTIES
    ClientsFinish
    ShutsDown
