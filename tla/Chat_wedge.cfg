SPECIFICATION FairSpec
CONSTANTS
    Clients = {a, b}
    MaxClients = 2
    MaxMsg = 1
    MaxTexts <- MCTwoTexts
    Stoppable = {a}
    ServerStops = FALSE
    None = None
    a = a
    b = b
    c = c
CHECK_DEADLOCK FALSE
PROPERTIES
    ServerListens
