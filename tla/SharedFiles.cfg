\* Three runs at once or one after the other; each may fail or be killed.
CONSTANTS
    r1 = r1
    r2 = r2
    r3 = r3
    none = none
    None = none
    Runs = {r1, r2, r3}
    Chunks = 2
SPECIFICATION Spec
INVARIANTS LibraryWhole WholeAtRest ArtifactsKept
CHECK_DEADLOCK FALSE
