SPECIFICATION FairSpec
CONSTANTS
    Clients = {a, b, c}
    MaxClients = 3
    MaxMsg = 1
    MaxTexts <- MCTexts
    Stoppable = {a}
    ServerStops = TRUE
    None = None
    a = a
    b = b
    c = c
CHECK_DEADLOCK FALSE
INVARIANTS
    IdIsRegistryIndex
    InOrderOnceNoEcho
    NoOrphanReceiver
PROPERTIES
    BroadcastArrives
