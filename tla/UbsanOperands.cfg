\* The operands a message shows, for every integer type.
SPECIFICATION Spec
CONSTANTS
    Threads = {t1}
    HandleBits = 4
    Operations <- MCArithmetic
    Locations <- MCLocations
    MaxCalls = 1
INVARIANTS OperandsShown
CHECK_DEADLOCK FALSE
