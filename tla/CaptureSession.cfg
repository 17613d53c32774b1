\* CPython 3.10 and 3.11, every kind of failure.
SPECIFICATION AgentFairSpec
CONSTANTS
    a = a
    b = b
    c = c
    t = t
    null = null
    Obj <- MCObj
    Null = null
    WellKnown <- MCWellKnown
    Heaps <- MCHeaps
    BatchSize = 2
    IOBatch = 1
    SockCap = 2
    UnstableVisit = FALSE
    Faults = {"timeout", "torn", "nomem", "unsupported", "raise", "kill", "exit"}
INVARIANTS TypeOK PublishedWhole ReadsLiveObjects GCAsApplicationLeftIt NoPartialFile NoStandoff
PROPERTIES IsSnapshot TargetResumes CollectorEnds
CHECK_DEADLOCK FALSE
