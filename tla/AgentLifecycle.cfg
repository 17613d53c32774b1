\* Two captures by pydump-loader and two by GDB; failures hit one of each.
CONSTANTS
    p1 = p1
    p2 = p2
    g1 = g1
    g2 = g2
    none = none
    check = check
    None = none
    Check = check
    Ptrace = {p1, p2}
    Gdb = {g1, g2}
    QueueCap = 2
    StartFaults = {p1, g1}
SPECIFICATION FairSpec
INVARIANTS TypeOK OneSession AcceptedIsDecided OneScheduler SessionsMatchRequests
PROPERTY BackToIdle
CHECK_DEADLOCK FALSE
