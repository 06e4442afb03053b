--------------------------- MODULE UbsanHandlers ---------------------------
(***************************************************************************)
(* The handlers the compiler calls when a check fails                      *)
(* (src/src/n64_ubsan/ubsan_handlers.c): each decides from the operands    *)
(* what went wrong, prints a diagnostic piece by piece (ubsan_diag.c), and *)
(* returns, or dies when it is an _abort entry (sanitizer_termination.c).  *)
(* Threads of the game call handlers concurrently; one N64Wrapper_Printf   *)
(* is one step here (ISViewer opens it up).                                *)
(***************************************************************************)
EXTENDS UbsanValue, Sequences

CONSTANTS
    Threads,
    Operations,     \* the operations of the game whose checks fail
    Locations,      \* SourceLocations the compiler emits
    MaxCalls        \* bound on handler calls, for TLC

ASSUME CallsAssumption == MaxCalls \in Nat

VARIABLES
    pc,         \* idle, diag (printing), check (CheckFailed), assert, crash
    call,       \* the call being handled: [op, abort, loc]
    todo,       \* the Printf calls its diagnostic has left
    style,      \* of the terminal: "bold" after VT_BOLD, until VT_RST
    halted,     \* N64Wrapper_Assert or an exception stopped the console
    calls

vars == <<pc, call, todo, style, halted, calls>>

-----------------------------------------------------------------------------
(* What the compiler passes: an operation, by the values it had in C, and  *)
(* the handles made from them.                                             *)

LHSAddress == 1
RHSAddress == 2 ^ (HandleBits - 1)

LHS(op) == Encode(op.type, op.a, LHSAddress)
RHS(op) == Encode(op.rhsType, op.b, RHSAddress)

Pointers == 0 .. 2 ^ HandleBits - 1
IsPositive(p) == p < 2 ^ (HandleBits - 1)           \* (intptr_t)p >= 0
Result(op) == Unsigned(op.base + op.offset, HandleBits)

Exact(op) ==
    CASE op.handler = "add" -> op.a + op.b
      [] op.handler = "sub" -> op.a - op.b
      [] op.handler = "mul" -> op.a * op.b
      [] op.handler = "negate" -> -op.a

\* The failing checks, by the handler the compiler calls for each.
Faulty(op) ==
    CASE op.handler \in {"add", "sub", "mul", "negate"} -> ~InType(op.type, Exact(op))
      [] op.handler = "divrem" ->
            op.b = 0 \/ (isSignedIntegerTy(op.type) /\ op.b = -1 /\ op.a = Least(op.type))
      [] op.handler = "shift" ->
            \/ op.b < 0 \/ op.b >= getIntegerBitWidth(op.type)
            \/ isSignedIntegerTy(op.type) /\ (op.a < 0 \/ op.a * 2 ^ op.b > Greatest(op.type))
      [] op.handler = "pointer_overflow" ->
            op.base = 0 \/ op.base + op.offset \notin Pointers \ {0}
      [] op.handler \in {"type_mismatch", "out_of_bounds", "float_cast"} -> TRUE

ASSUME FaultyOperations == \A op \in Operations : Faulty(op)

\* The types of operands: integers no wider than a handle and `long long`, `float`
\* and `double`.
IntegerTypes ==
    { T \in [TypeKind : {"TK_Integer"}, TypeInfo : Nat] :
        isInlineInt(T) \/ getIntegerBitWidth(T) = MaxBits }
FloatTypes == [TypeKind : {"TK_Float"}, TypeInfo : {HandleBits, MaxBits}]

\* The operations a current compiler reports, with operands of their types.
Binary == {"add", "sub", "mul", "divrem", "shift"}
Compiled(op) ==
    \/ /\ op \in [handler : Binary, type : IntegerTypes, rhsType : IntegerTypes, a : Int, b : Int]
       /\ InType(op.type, op.a) /\ InType(op.rhsType, op.b)
       /\ op.handler # "shift" => op.rhsType = op.type
    \/ /\ op \in [handler : {"negate", "out_of_bounds"}, type : IntegerTypes, a : Int]
       /\ InType(op.type, op.a)
    \/ op \in [handler : {"divrem"}, type : FloatTypes, rhsType : FloatTypes, a : {0}, b : {0}]
    \/ /\ op \in [handler : {"pointer_overflow"}, base : Pointers, offset : Int]
       /\ -(2 ^ HandleBits) < op.offset /\ op.offset < 2 ^ HandleBits
    \/ op \in [handler : {"type_mismatch"}, Pointer : Pointers, LogAlignment : Nat]
    \/ op \in [handler : {"float_cast"}, V2 : {TRUE}, type : IntegerTypes \cup FloatTypes,
               val : Handles]

\* A Filename is a path: it starts with a printable character, and no byte is 255.
NamesFile(loc) == loc.Filename \in (32 .. 254) \X (0 .. 254)

CurrentCompiler ==
    /\ \A op \in Operations : Compiled(op)
    /\ \A loc \in Locations : NamesFile(loc)

-----------------------------------------------------------------------------
(* Classification.  A handler yields {m} when it prints the message m and  *)
(* {} when a CHECK stops it before it prints.                              *)

\* Mutant: the handle printed with %u.
ShownUnsigned(word) == word

\* %i prints the handle itself, as an int.
Shown(word) == Signed(word, HandleBits)
Message(says, args) == [text |-> says, args |-> args]

handleTypeMismatchImpl(op) ==
    LET Alignment == 2 ^ op.LogAlignment
        ET == IF op.Pointer = 0 THEN "null pointer"
              ELSE IF op.Pointer % Alignment # 0 THEN "misaligned" ELSE "insufficient space"
    IN  { Message(ET, <<op.Pointer>>) }

handleIntegerOverflowImpl(op) ==
    { Message(IF isSignedIntegerTy(op.type) THEN "signed overflow" ELSE "unsigned overflow",
              <<Shown(LHS(op).word), Shown(RHS(op).word)>>) }

handleNegateOverflowImpl(op) ==
    { Message(IF isSignedIntegerTy(op.type) THEN "signed negation" ELSE "unsigned negation",
              <<Shown(LHS(op).word)>>) }

handleDivremOverflowImpl(op) ==
    { IF minusOne THEN Message("division by -1", <<Shown(LHS(op).word)>>)
      ELSE Message("division by zero", <<>>)
      : minusOne \in isMinusOne(op.rhsType, RHS(op)) }

ShiftExponent(op, negative) ==
    { Message(IF negative THEN "negative exponent" ELSE "exponent too large",
              <<Shown(RHS(op).word)>>) }

ShiftBase(op) ==
    { IF negative THEN Message("negative base", <<Shown(LHS(op).word)>>)
      ELSE Message("base overflow", <<Shown(LHS(op).word), Shown(RHS(op).word)>>)
      : negative \in isNegative(op.type, LHS(op)) }

handleShiftOutOfBoundsImpl(op) ==
    UNION { IF negative THEN ShiftExponent(op, TRUE)
            ELSE UNION { IF exponent >= getIntegerBitWidth(op.type)
                         THEN ShiftExponent(op, FALSE) ELSE ShiftBase(op)
                         : exponent \in getPositiveIntValue(op.rhsType, RHS(op)) }
            : negative \in isNegative(op.rhsType, RHS(op)) }

handleOutOfBoundsImpl(op) == { Message("index", <<Shown(LHS(op).word)>>) }

handleFloatCastOverflow(op) ==
    { Message("float cast", <<v>>)
      : v \in IF isFloatTy(op.type) THEN getFloatValue(op.type, op.val)
              ELSE IF isUnsignedIntegerTy(op.type) THEN getUIntValue(op.type, op.val)
              ELSE getSIntValue(op.type, op.val) }

handlePointerOverflowImpl(op) ==
    LET Base == op.base
        To == Result(op)
        ET == IF Base = 0 /\ To = 0 THEN "zero offset to null"
              ELSE IF Base = 0 THEN "offset to null"
              ELSE IF To = 0 THEN "offset made null"
              ELSE IF IsPositive(Base) # IsPositive(To) THEN "index overflowed"
              ELSE IF Base > To THEN "addition overflowed" ELSE "subtraction overflowed"
    IN  { Message(ET, <<Base, To>>) }

\* The first two bytes behind the first field of a float cast's data: of the
\* TypeKind (big endian), or of the file name.
TypeKindBytes(T) ==
    CASE T.TypeKind = "TK_Integer" -> <<0, 0>>
      [] T.TypeKind = "TK_Float"   -> <<0, 1>>
      [] T.TypeKind = "TK_Unknown" -> <<255, 255>>

FirstBytes(op, loc) == IF op.V2 THEN loc.Filename ELSE TypeKindBytes(op.type)

looksLikeFloatCastOverflowDataV1(bytes) ==
    bytes[1] + bytes[2] < 2 \/ bytes[1] = 255 \/ bytes[2] = 255

-----------------------------------------------------------------------------
(* Printing and dying.                                                     *)

Text(s) == Message(s, <<>>)
NoFile == <<>>

\* A Filename is its first two bytes, NoFile when it is NULL.
Ubsan_PrintSourceLocation(loc) ==
    <<Text("file")>>
    \o (IF loc.Line > 0 THEN <<Text(":line")>> ELSE <<>>)
    \o (IF loc.Line > 0 /\ loc.Column > 0 THEN <<Text(":column")>> ELSE <<>>)

Ubsan_Location_Print(loc) ==
    IF loc.Filename = NoFile THEN <<Text("<unknown>")>> ELSE Ubsan_PrintSourceLocation(loc)

\* Mutant: a diagnostic without its last Printf.
DiagWithoutReset(loc, message) ==
    <<Text("bold")>> \o Ubsan_Location_Print(loc)
    \o <<Text(":"), Text("runtime error"), message>>

Ubsan_DiagImpl(loc, message) ==
    <<Text("bold")>> \o Ubsan_Location_Print(loc)
    \o <<Text(":"), Text("runtime error"), message, Text("reset")>>

NoCall == [op |-> <<>>, abort |-> FALSE, loc |-> <<>>]

Init ==
    /\ pc = [t \in Threads |-> "idle"]
    /\ call = [t \in Threads |-> NoCall]
    /\ todo = [t \in Threads |-> <<>>]
    /\ style = "normal"
    /\ halted = FALSE
    /\ calls = 0

MayEnter(t) == ~halted /\ pc[t] = "idle" /\ calls < MaxCalls

Begin(t, op, abort, loc, next, pieces) ==
    /\ pc' = [pc EXCEPT ![t] = next]
    /\ call' = [call EXCEPT ![t] = [op |-> op, abort |-> abort, loc |-> loc]]
    /\ todo' = [todo EXCEPT ![t] = pieces]
    /\ calls' = calls + 1
    /\ UNCHANGED <<style, halted>>

\* The entry of a handler, up to its first Printf: every CHECK comes first,
\* those in the arguments of Ubsan_Diag included.
Report(t, op, abort, loc, messages) ==
    \/ \E message \in messages :
          Begin(t, op, abort, loc, "diag", Ubsan_DiagImpl(loc, message))
    \/ messages = {} /\ Begin(t, op, abort, loc, "check", <<>>)

Handle(t, handlers, Classify(_)) ==
    /\ MayEnter(t)
    /\ \E op \in Operations, abort \in BOOLEAN, loc \in Locations :
          op.handler \in handlers /\ Report(t, op, abort, loc, Classify(op))

TypeMismatch(t)    == Handle(t, {"type_mismatch"}, handleTypeMismatchImpl)
IntegerOverflow(t) == Handle(t, {"add", "sub", "mul"}, handleIntegerOverflowImpl)
NegateOverflow(t)  == Handle(t, {"negate"}, handleNegateOverflowImpl)
DivremOverflow(t)  == Handle(t, {"divrem"}, handleDivremOverflowImpl)
ShiftOutOfBounds(t) == Handle(t, {"shift"}, handleShiftOutOfBoundsImpl)
OutOfBounds(t)     == Handle(t, {"out_of_bounds"}, handleOutOfBoundsImpl)
PointerOverflow(t) == Handle(t, {"pointer_overflow"}, handlePointerOverflowImpl)

\* float_cast_overflow first looks behind the first field of its data: at a NULL
\* Filename that is an exception (address 0 is not mapped); what looks like a
\* FloatCastOverflowData meets N64Wrapper_Assert, in the recoverable entry too.
FloatCastOverflow(t) ==
    /\ MayEnter(t)
    /\ \E op \in Operations, abort \in BOOLEAN, loc \in Locations :
          LET bytes == FirstBytes(op, loc)
              isV1 == looksLikeFloatCastOverflowDataV1(bytes)
          IN  /\ op.handler = "float_cast"
              /\ \/ bytes = NoFile /\ Begin(t, op, abort, loc, "crash", <<>>)
                 \/ bytes # NoFile /\ isV1 /\ Begin(t, op, abort, loc, "assert", <<>>)
                 \/ /\ bytes # NoFile /\ ~isV1
                    /\ Report(t, op, abort, loc, handleFloatCastOverflow(op))

\* One Printf of the diagnostic.
PrintPiece(t) ==
    /\ ~halted
    /\ pc[t] = "diag" /\ todo[t] # <<>>
    /\ todo' = [todo EXCEPT ![t] = Tail(@)]
    /\ style' = CASE Head(todo[t]).text \in {"bold", "runtime error"} -> "bold"
                  [] Head(todo[t]).text = "reset" -> "normal"
                  [] OTHER -> style
    /\ UNCHANGED <<pc, call, halted, calls>>

\* Mutants: the diagnostic left half-way; an _abort entry without its Die.
FinishEarly(t) ==
    /\ ~halted
    /\ pc[t] = "diag"
    /\ pc' = [pc EXCEPT ![t] = IF call[t].abort THEN "assert" ELSE "idle"]
    /\ UNCHANGED <<call, todo, style, halted, calls>>
FinishWithoutDie(t) ==
    /\ ~halted
    /\ pc[t] = "diag" /\ todo[t] = <<>>
    /\ pc' = [pc EXCEPT ![t] = "idle"]
    /\ UNCHANGED <<call, todo, style, halted, calls>>

\* The recoverable entry returns, the _abort entry calls Die.
Finish(t) ==
    /\ ~halted
    /\ pc[t] = "diag" /\ todo[t] = <<>>
    /\ pc' = [pc EXCEPT ![t] = IF call[t].abort THEN "assert" ELSE "idle"]
    /\ UNCHANGED <<call, todo, style, halted, calls>>

\* Mutant: a CHECK that only prints.
CheckReturns(t) ==
    /\ ~halted
    /\ pc[t] = "check"
    /\ pc' = [pc EXCEPT ![t] = "idle"]
    /\ UNCHANGED <<call, todo, style, halted, calls>>

\* CheckFailed prints the condition, then asserts.
CheckFailed(t) ==
    /\ ~halted
    /\ pc[t] = "check"
    /\ pc' = [pc EXCEPT ![t] = "assert"]
    /\ UNCHANGED <<call, todo, style, halted, calls>>

\* N64Wrapper_Assert prints the assertion ...
N64Wrapper_Assert(t) ==
    /\ ~halted
    /\ pc[t] = "assert"
    /\ pc' = [pc EXCEPT ![t] = "crash"]
    /\ UNCHANGED <<call, todo, style, halted, calls>>

\* ... and Fault_AddHungupAndCrash stops the game.
Crash(t) ==
    /\ ~halted
    /\ pc[t] = "crash"
    /\ halted' = TRUE
    /\ UNCHANGED <<pc, call, todo, style, calls>>

Enter(t) ==
    \/ TypeMismatch(t) \/ IntegerOverflow(t) \/ NegateOverflow(t) \/ DivremOverflow(t)
    \/ ShiftOutOfBounds(t) \/ OutOfBounds(t) \/ FloatCastOverflow(t) \/ PointerOverflow(t)

Continue(t) == PrintPiece(t) \/ Finish(t) \/ CheckFailed(t) \/ N64Wrapper_Assert(t) \/ Crash(t)

Next == \E t \in Threads : Enter(t) \/ Continue(t)

Spec == Init /\ [][Next]_vars

\* A handler that was entered keeps running: it waits for no other thread.
FairSpec == Spec /\ \A t \in Threads : WF_vars(Continue(t))
-----------------------------------------------------------------------------

TypeOK ==
    /\ pc \in [Threads -> {"idle", "diag", "check", "assert", "crash"}]
    /\ \A t \in Threads :
        pc[t] # "idle" => /\ call[t].op \in Operations
                          /\ call[t].abort \in BOOLEAN
                          /\ call[t].loc \in Locations
    /\ \A t \in Threads : pc[t] # "diag" => todo[t] = <<>>
    /\ style \in {"normal", "bold"}
    /\ halted \in BOOLEAN
    /\ calls \in 0 .. MaxCalls

\* What the text of a message says about the operation, in terms of the values
\* it had in C.
Means(op, text) ==
    /\ text = "division by zero"   => op.b = 0
    /\ text = "division by -1"     => op.b = -1 /\ ~InType(op.type, -op.a)
    /\ text = "negative exponent"  => op.b < 0
    /\ text = "exponent too large" => op.b >= getIntegerBitWidth(op.type)
    /\ text \in {"negative base", "base overflow"} =>
          op.b >= 0 /\ op.b < getIntegerBitWidth(op.type)
    /\ text = "negative base"      => op.a < 0
    /\ text = "base overflow"      => op.a >= 0 /\ op.a * 2 ^ op.b > Greatest(op.type)
    /\ text = "zero offset to null" => op.base = 0 /\ op.offset = 0
    /\ text = "offset to null"     => op.base = 0 /\ op.offset # 0
    /\ text = "offset made null"   => op.base # 0 /\ op.offset # 0
    /\ text = "addition overflowed" => op.base + op.offset > 2 ^ HandleBits
    /\ text = "subtraction overflowed" => op.base + op.offset < 0

\* The diagnostic is true of the operation: what a handler concludes from
\* handles and type descriptors (isMinusOne, isNegative, sign extension of
\* narrow operands, the direction of a pointer overflow from the addresses
\* alone) is what happened in the program.
Truthful ==
    \A t \in Threads : \A k \in DOMAIN todo[t] : Means(call[t].op, todo[t][k].text)

\* The operands a message has to show.
Operands(op, text) ==
    CASE text \in {"signed overflow", "unsigned overflow", "base overflow"} -> <<op.a, op.b>>
      [] text \in {"signed negation", "unsigned negation", "division by -1", "negative base",
                   "index"} -> <<op.a>>
      [] text \in {"negative exponent", "exponent too large"} -> <<op.b>>

ShowsOperands ==
    { "signed overflow", "unsigned overflow", "base overflow", "signed negation",
      "unsigned negation", "division by -1", "negative base", "index",
      "negative exponent", "exponent too large" }

\* ubsan_value.h describes a handle as the integer itself or a pointer to it:
\* a message shows the integer.
OperandsShown ==
    \A t \in Threads : \A k \in DOMAIN todo[t] :
        LET m == todo[t][k]
        IN  m.text \in ShowsOperands => m.args = Operands(call[t].op, m.text)

\* The handlers print the handle with %i.  That shows the operand if it is an
\* int, or of a type no wider than a handle and neither negative nor too great
\* for an int.
FitsInt(T, v) ==
    \/ isSignedIntegerTy(T) /\ getIntegerBitWidth(T) = HandleBits
    \/ isInlineInt(T) /\ v >= 0 /\ IsPositive(v)

IntOperandsShown ==
    \A t \in Threads : \A k \in DOMAIN todo[t] :
        LET m == todo[t][k]
            op == call[t].op
        IN  /\ m.text \in ShowsOperands
            /\ "a" \in DOMAIN op => FitsInt(op.type, op.a)
            /\ "b" \in DOMAIN op => FitsInt(op.rhsType, op.b)
            => m.args = Operands(op, m.text)

\* Only an _abort entry ends the game: a recoverable one reports and returns
\* (RECOVERABLE of ubsan_handlers.h), and no CHECK of ubsan_value.c fails.
RecoverableReturns ==
    \A t \in Threads : pc[t] \in {"check", "assert", "crash"} => call[t].abort

\* An _abort entry is NORETURN.
AbortNeverReturns ==
    [][\A t \in Threads : pc[t] # "idle" /\ call[t].abort => pc'[t] # "idle"]_vars

\* However two diagnostics interleave and whichever CHECK stops a handler, once
\* none is printing the terminal is back in its normal style.  A diagnostic that
\* another thread's halt cuts stays in "diag": nothing resets its style.
StyleReset == (\A t \in Threads : pc[t] # "diag") => style = "normal"

\* A handler that was entered returns, unless the game was stopped; an _abort
\* entry stops it.
Finishes ==
    \A t \in Threads :
        /\ pc[t] # "idle" ~> pc[t] = "idle" \/ halted
        /\ (pc[t] # "idle" /\ call[t].abort) ~> halted
=============================================================================
