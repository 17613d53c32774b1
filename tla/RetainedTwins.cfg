\* retained.py on two threads that are equal as values.
CONSTANTS
    a = a
    b = b
    c = c
    d = d
    x = x
    Addr = {a, b, c, d, x}
    Size <- MCSize
    Inputs <- PythonTwins
SPECIFICATION Spec
INVARIANT RetainedCorrect
CHECK_DEADLOCK FALSE
