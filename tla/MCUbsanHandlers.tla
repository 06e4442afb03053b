-------------------------- MODULE MCUbsanHandlers --------------------------
(***************************************************************************)
(* Instances of UbsanHandlers for TLC, with handles of four bits: `char`   *)
(* is 2 bits wide, `int` 4 and `long long` 8, so that there are operands   *)
(* narrower than a handle, as wide, and passed by address.                 *)
(***************************************************************************)
EXTENDS UbsanHandlers, FiniteSets

MCTypes == { TypeDescriptor("TK_Integer", info) : info \in 2 .. 7 }
MCSigned == { T \in MCTypes : isSignedIntegerTy(T) }
MCFloat == TypeDescriptor("TK_Float", HandleBits)
MCDouble == TypeDescriptor("TK_Float", MaxBits)

\* The values at the edges of a type.
Edges(T) ==
    { v \in {Least(T), Least(T) + 1, -1, 0, 1, 2, 5, Greatest(T) - 1, Greatest(T)} : InType(T, v) }

Arithmetic ==
    UNION { [handler : {"add", "sub", "mul"}, type : {T}, rhsType : {T},
             a : Edges(T), b : Edges(T)] : T \in MCTypes }
Negations == UNION { [handler : {"negate"}, type : {T}, a : Edges(T)] : T \in MCTypes }
Divisions ==
    UNION { [handler : {"divrem"}, type : {T}, rhsType : {T}, a : Edges(T), b : Edges(T)]
            : T \in MCTypes }
    \cup [handler : {"divrem"}, type : {MCFloat}, rhsType : {MCFloat}, a : {0}, b : {0}]
Shifts ==
    UNION { [handler : {"shift"}, type : {p[1]}, rhsType : {p[2]},
             a : Edges(p[1]), b : Edges(p[2])] : p \in MCTypes \X MCTypes }
Indices == UNION { [handler : {"out_of_bounds"}, type : {T}, a : Edges(T)] : T \in MCTypes }
PointerSums ==
    [handler : {"pointer_overflow"}, base : Pointers,
     offset : -(2 ^ HandleBits) + 1 .. 2 ^ HandleBits - 1]
Accesses == [handler : {"type_mismatch"}, Pointer : Pointers, LogAlignment : 0 .. 2]
Casts(Types) ==
    [handler : {"float_cast"}, V2 : {TRUE}, type : Types, val : {[word |-> 3, pointee |-> 77]}]
OldCasts == [handler : {"float_cast"}, V2 : {FALSE}, type : {MCFloat, MCDouble},
             val : {[word |-> 3, pointee |-> 77]}]

Failing(ops) == { op \in ops : Faulty(op) }

\* Everything the compiler can pass, for one thread.
MCOperations ==
    Failing(Arithmetic \cup Negations \cup Divisions \cup Shifts \cup Indices
            \cup PointerSums \cup Accesses \cup Casts(MCTypes \cup {MCFloat, MCDouble}))

\* A few operations for two threads, with those that stop a handler: an operand
\* of unknown type, the data of an old compiler.
MCFewOperations ==
    Casts({MCFloat, TypeDescriptor("TK_Unknown", 0)}) \cup OldCasts
    \cup { op \in Failing(Divisions) : op.type = MCFloat }

MCArithmetic == Failing(Arithmetic)
MCCasts == Casts({MCFloat, MCDouble}) \cup OldCasts

\* The two first bytes of "src/...": with a line and column, alone.
MCLocations ==
    { [Filename |-> <<115, 114>>, Line |-> 7, Column |-> 3],
      [Filename |-> <<115, 114>>, Line |-> 0, Column |-> 3] }

\* What the proofs assume of the compiler.
ASSUME MCCompiler ==
    /\ \A op \in MCOperations : Compiled(op)
    /\ \A loc \in MCLocations : NamesFile(loc)

\* With a line alone, and without a file.
MCNoFile == { [Filename |-> <<115, 114>>, Line |-> 7, Column |-> 0],
              [Filename |-> NoFile, Line |-> 0, Column |-> 0] }
=============================================================================
