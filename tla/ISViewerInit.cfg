\* Two threads whose first fragments meet.
SPECIFICATION Spec
CONSTANTS
    Threads = {t1, t2}
    RingSize = 6
    WordSize = 2
    NUL = 0
    Chars = {0, 1}
    Texts <- MCShortTexts
PROPERTIES InitOnce
