\* Every failing check with the operands at the edges of its types; the game may be stopped.
SPECIFICATION Spec
CONSTANTS
    Threads = {t1}
    HandleBits = 4
    Operations <- MCOperations
    Locations <- MCLocations
    MaxCalls = 1
INVARIANTS TypeOK Truthful IntOperandsShown RecoverableReturns
CHECK_DEADLOCK FALSE
