\* A fragment that fills the last free cell.
SPECIFICATION Spec
CONSTANTS
    Threads = {t1}
    RingSize = 4
    WordSize = 2
    NUL = 0
    Chars = {0, 1, 2}
    Texts <- MCTexts
PROPERTIES Prints
