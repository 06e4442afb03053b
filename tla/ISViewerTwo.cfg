\* Two printing threads that initialise, print and are reset at any moment.
SPECIFICATION FairSpec
CONSTANTS
    Threads = {t1, t2}
    RingSize = 2
    WordSize = 2
    NUL = 0
    Chars = {0, 1}
    Texts <- MCTextsWithNul
INVARIANTS UsedAfterInit
PROPERTIES CallbackReturns
