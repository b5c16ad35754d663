SPECIFICATION FairSpec
CONSTANTS
    K = 2
    N = 1
    Producers = {p1}
    Consumers = {c1}
    Managers = {m1}
    Killable = {}
    Relaunch = TRUE
    NoTask = NoTask
    c1 = c1
    m1 = m1
    p1 = p1
PROPERTIES
    ProducerGetsThrough
    NoStarvation
