\* One printing thread, all fragment shapes, a host that drains, resets.
SPECIFICATION SessionSpec
CONSTANTS
    Threads = {t1}
    RingSize = 4
    WordSize = 2
    NUL = 0
    Chars = {0, 1, 2}
    Texts <- MCTexts
INVARIANTS TypeOK RoomForRest OnlyThisSession
PROPERTIES NoClobber RefusedOnlyWhenFull RingIsFifo
