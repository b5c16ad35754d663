SPECIFICATION Spec
CONSTANTS
    K = 2
    N = 1
    Producers = {p1, p2, p3}
    Consumers = {c1, c2}
    Managers = {m1}
    Killable = {c1, c2, m1}
    Relaunch = FALSE
    NoTask = NoTask
    c1 = c1
    c2 = c2
    m1 = m1
    p1 = p1
    p2 = p2
    p3 = p3
SYMMETRY Symmetry
CHECK_DEADLOCK FALSE
INVARIANTS
    TypeOK
    Accounting
    MutualExclusion
    ConsumerFindsTask
    NoOverwrite
PROPERTIES
    ImplementsTaskQueue
