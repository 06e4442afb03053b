\* Two threads that copy at the same time.
SPECIFICATION Spec
CONSTANTS
    Threads = {t1, t2}
    RingSize = 6
    WordSize = 2
    NUL = 0
    Chars = {0, 1}
    Texts <- MCShortTexts
PROPERTIES KeepsPrinted
