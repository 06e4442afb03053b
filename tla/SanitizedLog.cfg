\* One thread reports through a small ring to a host that may stop taking.
SPECIFICATION FairSpec
CONSTANTS
    Threads = {t1}
    HandleBits = 4
    Operations <- MCOperations
    Locations <- MCLocations
    MaxCalls = 2
    RingSize = 4
    WordSize = 2
INVARIANTS ScreenReset
PROPERTIES ImplementsHandlers
CHECK_DEADLOCK FALSE
