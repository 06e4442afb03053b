\* A cast reported with the data of an older compiler.
SPECIFICATION Spec
CONSTANTS
    Threads = {t1}
    HandleBits = 4
    Operations <- MCCasts
    Locations <- MCLocations
    MaxCalls = 1
INVARIANTS RecoverableReturns
CHECK_DEADLOCK FALSE
