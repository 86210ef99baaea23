SPECIFICATION Spec
CONSTANTS
    t1 = t1
    t2 = t2
    t3 = t3
    Threads <- ThreeThreads
    PendingCap = 2
    RingCap = 1
    MaxCalls = 4
SYMMETRY Symmetry
INVARIANTS
    TypeOK
    AtMostOnce
    Accounted
PROPERTIES
    OwnEvent
CHECK_DEADLOCK FALSE
