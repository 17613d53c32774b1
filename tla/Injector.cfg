\* Both architectures, with signals.
CONSTANTS
    RetiresInTime = TRUE
    Signals = TRUE
SPECIFICATION FairSpec
INVARIANTS TasksUndisturbed TargetRestored LeaksAreReported SuccessIsReal
PROPERTY Detaches
CHECK_DEADLOCK FALSE
