\* Everything may fail or be late, and the process behind the PID changes once.
CONSTANTS
    Images <- MCImages
    Supported = {"3.10", "3.12"}
    Bundled = {"3.10"}
    MaxChanges = 1
    MayFail = TRUE
SPECIFICATION FairSpec
INVARIANTS TypeOK SpecificFailure FitsWhatWasRead CleanExit
PROPERTIES NoSessionAfterEnd RunEnds SessionReleased
CHECK_DEADLOCK FALSE
