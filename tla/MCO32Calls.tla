----------------------------- MODULE MCO32Calls -----------------------------
(***************************************************************************)
(* An instance of O32Calls for TLC, with words of four bits.               *)
(***************************************************************************)
EXTENDS O32Calls

\* Every doubleword shifted by every amount C defines, and by two it does not
\* define but the instruction cuts to one it does.
MCRequests == [op : {"left", "right"}, value : Doublewords, shift : 0 .. D + 1]

\* Every operand of a type of one, two or four bits.
MCOperands == UNION { [width : {w}, Val : 0 .. 2 ^ w - 1] : w \in {1, 2, 4} }

\* Every Printf and Ubsan_Diag of the library.
Library == INSTANCE O32VarArgs WITH Calls <- {}

MCCalls ==
    Library!TypeMismatchCalls \cup Library!OverflowCalls \cup Library!NegateCalls
    \cup Library!DivremCalls \cup Library!ShiftCalls \cup Library!OutOfBoundsCalls
    \cup Library!FloatCastCalls \cup Library!IntegerCastCalls \cup Library!PointerCalls
    \cup Library!LocationCalls \cup Library!FrameCalls \cup Library!AssertCalls
    \cup Library!CheckFailedCalls
=============================================================================
