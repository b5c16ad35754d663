SPECIFICATION FairSpec
CONSTANTS
    K = 2
    N = 2
    Producers = {p1, p2}
    Consumers = {c1, c2}
    Killable = {p1, c1}
    NoTask = NoTask
    c1 = c1
    c2 = c2
    p1 = p1
    p2 = p2
CHECK_DEADLOCK FALSE
INVARIANTS
    RingConsistent
PROPERTIES
    ImplementsTaskQueue
    AllPrinted
