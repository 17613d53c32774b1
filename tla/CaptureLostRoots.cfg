SPECIFICATION Spec
CONSTANTS
    a = a
    b = b
    c = c
    t = t
    null = null
    Obj <- MCObj
    Null = null
    WellKnown <- MCWellKnown
    Heaps <- MCHeaps
    BatchSize = 2
    IOBatch = 1
    SockCap = 2
    UnstableVisit = TRUE
    Faults = {"timeout"}
INVARIANT PublishedWhole
CHECK_DEADLOCK FALSE
