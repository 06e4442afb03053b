\* Two threads printing at once, and every way a handler can be stopped.
SPECIFICATION FairSpec
CONSTANTS
    Threads = {t1, t2}
    HandleBits = 4
    Operations <- MCFewOperations
    Locations <- MCNoFile
    MaxCalls = 3
INVARIANTS StyleReset
PROPERTIES AbortNeverReturns Finishes
CHECK_DEADLOCK FALSE
