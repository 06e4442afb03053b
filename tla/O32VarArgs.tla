----------------------------- MODULE O32VarArgs -----------------------------
(***************************************************************************)
(* How the arguments of a diagnostic reach the conversions of its format.  *)
(* Under o32 the arguments of a call lie one after another in words, a     *)
(* 64-bit one in two words at an even place (the first four words travel   *)
(* in registers, which a variadic function stores next to the others).     *)
(* Neither Ubsan_Diag nor the wrapper looks at them: va_list goes through  *)
(* to the game's _Printf, whose conversions walk it with va_arg (stdarg.h).*)
(* Offsets are in words.                                                   *)
(***************************************************************************)
EXTENDS Integers, Sequences

CONSTANT Calls      \* the calls to follow: [text, fixed, args, conversions]

VARIABLES
    call,           \* the call being made
    places,         \* where its arguments were put, in order
    free,           \* the first word after them
    list,           \* va_list: the first word not yet walked over
    reads           \* where the conversions so far read

vars == <<call, places, free, list, reads>>

-----------------------------------------------------------------------------
(* The calls of the runtime, by the text they print.  `fixed` counts the   *)
(* words before the `...`: Loc, Level, ET and fmt, or fmt alone.           *)

Ubsan_Diag(text, args, conversions) ==
    [text |-> text, fixed |-> 4, args |-> args, conversions |-> conversions]
N64Wrapper_Printf(text, args, conversions) ==
    [text |-> text, fixed |-> 1, args |-> args, conversions |-> conversions]

TypeMismatchCalls ==
    { Ubsan_Diag("null pointer", <<"string", "string">>, <<"%s", "%s">>),
      Ubsan_Diag("misaligned", <<"string", "word", "string", "word">>,
                 <<"%s", "%X", "%s", "%i">>),
      Ubsan_Diag("insufficient space", <<"string", "word", "string">>, <<"%s", "%X", "%s">>) }

OverflowCalls ==
    { Ubsan_Diag("integer overflow", <<"string", "word", "string", "word", "string">>,
                 <<"%s", "%i", "%s", "%i", "%s">>) }

NegateCalls ==
    { Ubsan_Diag(text, <<"word", "string">>, <<"%i", "%s">>)
      : text \in {"signed negation", "unsigned negation"} }

DivremCalls ==
    { Ubsan_Diag("division by -1", <<"word", "string">>, <<"%i", "%s">>),
      Ubsan_Diag("division by zero", <<>>, <<>>) }

ShiftCalls ==
    { Ubsan_Diag("negative exponent", <<"word">>, <<"%i">>),
      Ubsan_Diag("exponent too large", <<"word", "word", "string">>, <<"%i", "%i", "%s">>),
      Ubsan_Diag("negative base", <<"word">>, <<"%i">>),
      Ubsan_Diag("base overflow", <<"word", "word", "string">>, <<"%i", "%i", "%s">>) }

OutOfBoundsCalls == { Ubsan_Diag("index", <<"word", "string">>, <<"%i", "%s">>) }

FloatCastCalls ==
    { Ubsan_Diag("float cast", <<"f64", "string", "string">>, <<"%f", "%s", "%s">>) }

IntegerCastCalls ==
    { Ubsan_Diag("unsigned cast", <<"u64", "string", "string">>, <<"%lu", "%s", "%s">>),
      Ubsan_Diag("signed cast", <<"s64", "string", "string">>, <<"%li", "%s", "%s">>) }

PointerCalls ==
    { Ubsan_Diag("zero offset to null", <<>>, <<>>) }
    \cup { Ubsan_Diag(text, <<"word">>, <<"%X">>)
           : text \in {"offset to null", "offset made null"} }
    \cup { Ubsan_Diag(text, <<"word", "word">>, <<"%X", "%X">>)
           : text \in {"addition overflowed", "subtraction overflowed", "index overflowed"} }

LocationCalls ==
    { N64Wrapper_Printf("file", <<"string">>, <<"%s">>),
      N64Wrapper_Printf(":line", <<"word">>, <<"%d">>),
      N64Wrapper_Printf(":column", <<"word">>, <<"%d">>),
      N64Wrapper_Printf("<unknown>", <<>>, <<>>) }

FrameCalls ==
    { N64Wrapper_Printf("bold", <<>>, <<>>), N64Wrapper_Printf(":", <<>>, <<>>),
      N64Wrapper_Printf("runtime error", <<"string", "string", "string">>, <<"%s", "%s", "%s">>),
      N64Wrapper_Printf("reset", <<"string">>, <<"%s">>) }

AssertCalls ==
    { N64Wrapper_Printf("assertion", <<"string", "string", "word">>, <<"%s", "%s", "%d">>) }

CheckFailedCalls ==
    { N64Wrapper_Printf("check", <<"string", "string", "word", "string", "u64", "u64", "word">>,
                        <<"%s", "%s", "%d", "%s", "%zx", "%zx", "%u">>) }

-----------------------------------------------------------------------------
(* The two sides of a call.                                                *)

SizeOf(mode) ==
    CASE mode = "none" -> 0
      [] mode \in {"word", "string"} -> 1
      [] mode \in {"u64", "s64", "f64"} -> 2

\* o32: an argument of two words starts at an even one.
Place(p, mode) == IF SizeOf(mode) = 2 /\ p % 2 = 1 THEN p + 1 ELSE p

\* Mutant: every argument aligned like the widest one.
_VA_ALIGNWide(p, a) == ((p + 1) \div 2) * 2

\* The next multiple of a, which is at least a word.
_VA_ALIGN(p, a) ==
    LET w == IF a > 1 THEN a ELSE 1
    IN  ((p + w - 1) \div w) * w

\* What a C89 _Printf asks va_arg for: long is a word under o32.  The z of %zx is
\* not C89: it may be taken for nothing, or for a length of either size.
Mode(conversion) ==
    CASE conversion \in {"%i", "%d", "%u", "%X", "%lu", "%li"} -> {"word"}
      [] conversion = "%s" -> {"string"}
      [] conversion = "%f" -> {"f64"}
      [] conversion = "%zx" -> {"none", "word", "u64"}

\* Before the first call.
NoCall == [text |-> "", fixed |-> 0, args |-> <<>>, conversions |-> <<>>]

Init ==
    /\ call = NoCall
    /\ places = <<>>
    /\ free = 0
    /\ list = 0
    /\ reads = <<>>

\* The caller puts its next argument.
PutArgument ==
    /\ Len(places) < Len(call.args)
    /\ LET mode == call.args[Len(places) + 1]
           place == Place(free, mode)
       IN  /\ places' = Append(places, [at |-> place, mode |-> mode])
           /\ free' = place + SizeOf(mode)
    /\ UNCHANGED <<call, list, reads>>

\* va_arg: __va_stack_arg aligns the list, moves it past the argument, and
\* the macro reads just before it.
va_arg(mode) ==
    /\ list' = _VA_ALIGN(list, SizeOf(mode)) + SizeOf(mode)
    /\ reads' = Append(reads, [at |-> list' - SizeOf(mode), mode |-> mode])

\* _Printf meets its next conversion.
Convert ==
    /\ Len(places) = Len(call.args)
    /\ Len(reads) < Len(call.conversions)
    /\ \E mode \in Mode(call.conversions[Len(reads) + 1]) : va_arg(mode)
    /\ UNCHANGED <<call, places, free>>

\* A call returns, if there was one, and another is made.
NextCall ==
    /\ Len(places) = Len(call.args) /\ Len(reads) = Len(call.conversions)
    /\ call' \in Calls
    /\ places' = <<>>
    /\ free' = call'.fixed
    /\ list' = call'.fixed
    /\ reads' = <<>>

Next == PutArgument \/ Convert \/ NextCall

Spec == Init /\ [][Next]_vars
-----------------------------------------------------------------------------

\* The conversion at place k of a call takes what the caller puts there.
Fits(c, k) == Mode(c.conversions[k]) = {c.args[k]}

\* n64_io.h: "the following arguments will be inserted in the resulting string".
\* Every conversion reads the whole argument that stands at its position, as
\* what it is: a %s follows no pointer but a string's, however the arguments
\* before it were laid out.  Only a conversion that does not fit its argument
\* (%lu and %li of a 64-bit integer, %zx) and those after it in the same call
\* may read something else.
ReadsItsArgument ==
    \A k \in DOMAIN reads :
        (\A j \in 1 .. k : Fits(call, j)) => reads[k] = places[k]
=============================================================================
