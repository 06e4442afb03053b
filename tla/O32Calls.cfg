\* Every shift, two threads that decode operands, every call's arguments.
SPECIFICATION AllSpec
CONSTANTS
    Threads = {t1, t2}
    WordBits = 4
    Requests <- MCRequests
    Operands <- MCOperands
    Calls <- MCCalls
INVARIANTS TypeOK ShiftsAsInC ReturnsWords SignExtends ReadsItsArgument
