SPECIFICATION FairSpec
CONSTANTS
    Size = 2
    MaxFrames = 2
    Pushers = {u1, u2}
    Poppers = {o1, o2}
    NoThread = NoThread
    NoFrame = NoFrame
    u1 = u1
    u2 = u2
    o1 = o1
    o2 = o2
CHECK_DEADLOCK FALSE
INVARIANTS
    RingConsistent
    NoSleepingWithData
PROPERTIES
    ImplementsFrameQueue
    FramesDrained
