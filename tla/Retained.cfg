\* Both analyzers on every small graph, and on trees with one more reference.
CONSTANTS
    a = a
    b = b
    c = c
    d = d
    x = x
    Addr = {a, b, c, d, x}
    Size <- MCSize
    Inputs <- MCInputs
SPECIFICATION FairSpec
INVARIANTS TypeOK RetainedCorrect SubtreesExact
PROPERTY Terminates
CHECK_DEADLOCK FALSE
