\* A clone task that takes longer than 10 ms to return.
CONSTANTS
    RetiresInTime = FALSE
    Signals = FALSE
SPECIFICATION Spec
INVARIANT TasksUndisturbed
CHECK_DEADLOCK FALSE
