------------------------------ MODULE O32Calls ------------------------------
(***************************************************************************)
(* The two places where the calling convention decides what a callee sees: *)
(* the 64-bit operands of the shift routines (U64Shift), and the arguments *)
(* behind the `...` of a Printf (O32VarArgs).  They share no state, so a   *)
(* behaviour follows one of them: every shift by one thread, shifts of two *)
(* threads that preempt each other, or the arguments of calls.             *)
(***************************************************************************)
EXTENDS U64Shift, Sequences

CONSTANT Calls      \* of O32VarArgs

\* Every format of the library has a conversion for each argument.
ASSUME CallsAssumption ==
    \A c \in Calls :
        /\ c.fixed \in Nat
        /\ c.args \in Seq({"word", "string", "u64", "s64", "f64"})
        /\ c.conversions \in Seq({"%i", "%d", "%u", "%X", "%lu", "%li", "%s", "%f", "%zx"})
        /\ Len(c.conversions) = Len(c.args)

VARIABLES
    part,                               \* what the behaviour follows
    call, places, free, list, reads     \* of O32VarArgs

argumentVars == <<call, places, free, list, reads>>
allVars      == <<vars, argumentVars, part>>

Arguments == INSTANCE O32VarArgs

AllInit ==
    /\ part \in {"every shift", "preempted", "arguments"}
    /\ Init
    /\ Arguments!Init

EveryShift ==
    /\ part = "every shift"
    /\ \E t \in Threads : Call(t) \/ Use(t) \/ Routine(t)
    /\ UNCHANGED argumentVars

Preempted ==
    /\ part = "preempted"
    /\ \E t \in Threads : DecodeLeft(t) \/ DecodeRight(t) \/ Use(t) \/ Routine(t) \/ Switch(t)
    /\ UNCHANGED argumentVars

PassArguments ==
    /\ part = "arguments"
    /\ Arguments!Next
    /\ UNCHANGED vars

AllNext ==
    /\ EveryShift \/ Preempted \/ PassArguments
    /\ UNCHANGED part

AllSpec == AllInit /\ [][AllNext]_allVars
-----------------------------------------------------------------------------

\* O32VarArgs: a conversion reads its own argument, unless it or one before it
\* does not fit.
ReadsItsArgument == Arguments!ReadsItsArgument
=============================================================================
