------------------------------ MODULE U64Shift ------------------------------
(***************************************************************************)
(* The assembly routines U64_LeftShift and U64_RightShift, instruction by  *)
(* instruction, and the sign extension of getSIntValue that calls both.    *)
(* The ABI is o32 with 64-bit registers: an s64 travels in two registers,  *)
(* most significant word first, and the routine joins the halves through   *)
(* the argument area of its caller's frame.  The console has one register  *)
(* file: a thread can be preempted between any two instructions, and its   *)
(* registers wait in OSThread.context.                                     *)
(***************************************************************************)
EXTENDS Integers

CONSTANTS
    Threads,
    WordBits,   \* 32 in the build
    Requests,   \* shifts asked for: [op, value, shift], as doublewords
    Operands    \* operands getSIntValue is asked to decode: [width, Val]

V == INSTANCE UbsanValue WITH HandleBits <- WordBits

D == 2 * WordBits
Words == 0 .. 2 ^ WordBits - 1
Doublewords == 0 .. 2 ^ D - 1

ASSUME ShiftAssumption ==
    /\ WordBits \in Nat \ {0}
    /\ Requests \subseteq [op : {"left", "right"}, value : Doublewords, shift : Doublewords]
    /\ \A x \in Operands : x.width \in 1 .. WordBits /\ x.Val \in 0 .. 2 ^ x.width - 1

VARIABLES
    running,    \* the thread on the CPU
    regs,       \* the register file
    saved,      \* OSThread.context of the others
    stack,      \* per thread: the four words of its caller's argument area
    pc,         \* per thread: the next instruction, or "caller"
    request,    \* per thread: the shift being computed
    decoding    \* per thread: the operand getSIntValue decodes, or none

vars == <<running, regs, saved, stack, pc, request, decoding>>

Registers == {"a0", "a1", "a2", "a3", "t6", "t7", "v0", "v1"}
None == [width |-> 0, Val |-> 0]

Hi(x) == x \div 2 ^ WordBits
Lo(x) == x % 2 ^ WordBits
Join(hi, lo) == hi * 2 ^ WordBits + lo

\* What a register holds when it holds a word: MIPS keeps words sign-extended.
SignExtended(w) == V!Unsigned(V!Signed(w, WordBits), D)

\* Mutants: the shift amount cut to the bits of a word; bits shifted out that
\* are kept.
dsllvAsWord(x, n) == V!Unsigned(x * 2 ^ (n % WordBits), D)
dsllvWide(x, n)   == x * 2 ^ (n % D)

dsllv(x, n) == V!Unsigned(x * 2 ^ (n % D), D)
dsrav(x, n) == V!Unsigned(V!Signed(x, D) \div 2 ^ (n % D), D)
dsll32(x)   == dsllv(x, WordBits)
dsra32(x)   == dsrav(x, WordBits)

-----------------------------------------------------------------------------

\* The routine reads no register and no stack slot it has not been given or
\* has not written, so what the caller leaves there is taken to be zero.
Unused == [r \in Registers |-> 0]
NoFrame == [k \in 0 .. 3 |-> 0]
NoRequest == [op |-> "left", value |-> 0, shift |-> 0]

Init ==
    /\ running \in Threads
    /\ regs = Unused
    /\ saved = [t \in Threads |-> Unused]
    /\ stack = [t \in Threads |-> NoFrame]
    /\ pc = [t \in Threads |-> "caller"]
    /\ request = [t \in Threads |-> NoRequest]
    /\ decoding = [t \in Threads |-> None]

\* A call of a routine: the two doublewords in a0 to a3.
Enter(t, req) ==
    /\ running = t
    /\ pc' = [pc EXCEPT ![t] = "sw a0"]
    /\ request' = [request EXCEPT ![t] = req]
    /\ regs' = [regs EXCEPT !["a0"] = SignExtended(Hi(req.value)),
                            !["a1"] = SignExtended(Lo(req.value)),
                            !["a2"] = SignExtended(Hi(req.shift)),
                            !["a3"] = SignExtended(Lo(req.shift))]
    /\ UNCHANGED <<running, saved, stack>>

Call(t) ==
    /\ pc[t] = "caller" /\ decoding[t] = None
    /\ \E req \in Requests : Enter(t, req)
    /\ UNCHANGED decoding

\* getSIntValue: the zero-extended operand is shifted left ...
ExtraBits(x) == D - x.width

DecodeLeft(t) ==
    /\ pc[t] = "caller" /\ decoding[t] = None
    /\ \E x \in Operands :
          /\ Enter(t, [op |-> "left", value |-> x.Val, shift |-> ExtraBits(x)])
          /\ decoding' = [decoding EXCEPT ![t] = x]

\* ... and what came back in v0 and v1 is shifted right again.
Returned(r) == Join(Lo(r["v0"]), Lo(r["v1"]))

DecodeRight(t) ==
    /\ pc[t] = "returned" /\ decoding[t] # None /\ request[t].op = "left"
    /\ Enter(t, [op |-> "right", value |-> Returned(regs), shift |-> ExtraBits(decoding[t])])
    /\ UNCHANGED decoding

\* The caller has used the result.
Use(t) ==
    /\ running = t
    /\ pc[t] = "returned" /\ (decoding[t] = None \/ request[t].op = "right")
    /\ pc' = [pc EXCEPT ![t] = "caller"]
    /\ decoding' = [decoding EXCEPT ![t] = None]
    /\ request' = [request EXCEPT ![t] = NoRequest]
    /\ regs' = Unused
    /\ stack' = [stack EXCEPT ![t] = NoFrame]
    /\ UNCHANGED <<running, saved>>

-----------------------------------------------------------------------------
(* The instructions.  Only the two shifts differ between the routines.     *)

Execute(t, from, to) ==
    /\ running = t
    /\ pc[t] = from
    /\ pc' = [pc EXCEPT ![t] = to]
    /\ UNCHANGED <<running, saved, request, decoding>>

sw(t, from, to, r, k) ==
    /\ Execute(t, from, to)
    /\ stack' = [stack EXCEPT ![t][k] = Lo(regs[r])]
    /\ UNCHANGED regs

Set(t, from, to, r, x) ==
    /\ Execute(t, from, to)
    /\ regs' = [regs EXCEPT ![r] = x]
    /\ UNCHANGED stack

StoreArguments(t) ==
    \/ sw(t, "sw a0", "sw a1", "a0", 0)
    \/ sw(t, "sw a1", "sw a2", "a1", 1)
    \/ sw(t, "sw a2", "sw a3", "a2", 2)
    \/ sw(t, "sw a3", "ld t7", "a3", 3)

LoadShift(t) == Set(t, "ld t7", "ld t6", "t7", Join(stack[t][2], stack[t][3]))
LoadValue(t) == Set(t, "ld t6", "shift", "t6", Join(stack[t][0], stack[t][1]))

Shift(t) ==
    Set(t, "shift", "dsll32", "v0",
        IF request[t].op = "left" THEN dsllv(regs["t6"], regs["t7"])
                                  ELSE dsrav(regs["t6"], regs["t7"]))

\* Mutant: the sign extension of v0 before v1 is taken from it.
LowHalfLate(t) == Set(t, "dsll32", "dsra32", "v1", dsll32(dsra32(regs["v0"])))

LowHalf(t)    == Set(t, "dsll32", "dsra32", "v1", dsll32(regs["v0"]))
LowExtend(t)  == Set(t, "dsra32", "jr", "v1", dsra32(regs["v1"]))

\* Mutant: nothing in the delay slot.
ReturnUnextended(t) == Set(t, "jr", "returned", "v0", regs["v0"])

\* jr with the extension of v0 in its delay slot.
Return(t) == Set(t, "jr", "returned", "v0", dsra32(regs["v0"]))

-----------------------------------------------------------------------------

\* The console's exception handler saves the whole 64-bit registers of the
\* thread that stops and loads those of the thread that goes on, whose copy is
\* read only once.
Switch(t) ==
    /\ t # running
    /\ saved' = [saved EXCEPT ![running] = regs, ![t] = Unused]
    /\ regs' = saved[t]
    /\ running' = t
    /\ UNCHANGED <<stack, pc, request, decoding>>

Routine(t) ==
    \/ StoreArguments(t) \/ LoadShift(t) \/ LoadValue(t) \/ Shift(t)
    \/ LowHalf(t) \/ LowExtend(t) \/ Return(t)

Caller(t) == Call(t) \/ DecodeLeft(t) \/ DecodeRight(t) \/ Use(t)

Next == \E t \in Threads : Caller(t) \/ Routine(t) \/ Switch(t)

Spec == Init /\ [][Next]_vars
-----------------------------------------------------------------------------

PCs == { "caller", "sw a0", "sw a1", "sw a2", "sw a3", "ld t7", "ld t6", "shift",
         "dsll32", "dsra32", "jr", "returned" }

TypeOK ==
    /\ running \in Threads
    /\ regs \in [Registers -> Doublewords]
    /\ saved \in [Threads -> [Registers -> Doublewords]]
    /\ stack \in [Threads -> [0 .. 3 -> Words]]
    /\ pc \in [Threads -> PCs]
    /\ \A t \in Threads :
        /\ decoding[t] \in Operands \cup {None}
        /\ request[t].op \in {"left", "right"}
        /\ request[t].value \in Doublewords /\ request[t].shift \in Doublewords

\* The registers as thread t sees them.
Seen(t) == IF running = t THEN regs ELSE saved[t]

\* The comments of the routines: "return value << shift;" and "return value >> shift;".
\* For a shift C defines, that is the number the other modules take from
\* UbsanValue, in v0 and v1, wherever the thread was preempted.
ShiftsAsInC ==
    \A t \in Threads :
        LET req == request[t]
        IN  pc[t] = "returned" /\ req.shift < D =>
                Returned(Seen(t)) =
                    IF req.op = "left" THEN V!U64_LeftShift(req.value, req.shift)
                    ELSE V!Unsigned(V!U64_RightShift(req.value, req.shift), D)

\* A caller goes on with 32-bit instructions on v0 and v1: they are only
\* defined on words that are sign-extended.
ReturnsWords ==
    \A t \in Threads :
        pc[t] = "returned" =>
            \A r \in {"v0", "v1"} : Seen(t)[r] = SignExtended(Lo(Seen(t)[r]))

\* The two calls of getSIntValue turn the zero-extended operand into the number
\* it had in the program.
SignExtends ==
    \A t \in Threads :
        pc[t] = "returned" /\ decoding[t] # None /\ request[t].op = "right" =>
            V!Signed(Returned(Seen(t)), D) = V!Signed(decoding[t].Val, decoding[t].width)
=============================================================================
