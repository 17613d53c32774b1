\* A thread that holds what another one refers to.
CONSTANTS
    a = a
    b = b
    c = c
    d = d
    x = x
    Addr = {a, b, c, d, x}
    Size <- MCSize
    Inputs <- SharedLocals
SPECIFICATION Spec
INVARIANT OtherThreadsAreRoots
CHECK_DEADLOCK FALSE
