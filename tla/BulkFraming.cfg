SPECIFICATION Spec
CONSTANTS
    Sizes = {0, 2, 4}
    BulkCap = 4
    WireCap = 3
    ErrorSize = 2
    MaxSent = 3
INVARIANT NothingLeftBehind
PROPERTY IsChannel
CHECK_DEADLOCK FALSE
