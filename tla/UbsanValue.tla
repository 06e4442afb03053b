----------------------------- MODULE UbsanValue -----------------------------
(***************************************************************************)
(* How the runtime reads an operand the compiler passed to a handler       *)
(* (src/src/n64_ubsan/ubsan_value.c): an integer that fits a ValueHandle   *)
(* is the handle, zero-extended; a wider one is behind a pointer.          *)
(*                                                                         *)
(* A CHECK that fails, or UNREACHABLE, does not return.  An operator that  *)
(* can meet one yields a set: {x} when the function returns x, {} when it  *)
(* never returns.                                                          *)
(***************************************************************************)
EXTENDS Integers

CONSTANT HandleBits     \* 32 in the build: sizeof(ValueHandle) * 8

ASSUME HandleAssumption == HandleBits \in Nat \ {0}

MaxBits == 2 * HandleBits       \* SIntMax, UIntMax

\* TypeDescriptor: TypeInfo is 2 * log2(width) + signedness for an integer,
\* the width for a float.
TypeDescriptor(kind, info) == [TypeKind |-> kind, TypeInfo |-> info]

isIntegerTy(T)         == T.TypeKind = "TK_Integer"
isSignedIntegerTy(T)   == isIntegerTy(T) /\ T.TypeInfo % 2 = 1
isUnsignedIntegerTy(T) == isIntegerTy(T) /\ T.TypeInfo % 2 = 0
isFloatTy(T)           == T.TypeKind = "TK_Float"

\* Of integer and float descriptors only (both functions CHECK it).
getIntegerBitWidth(T) == 2 ^ (T.TypeInfo \div 2)
getFloatBitWidth(T)   == T.TypeInfo

isInlineInt(T)   == getIntegerBitWidth(T) <= HandleBits
isInlineFloat(T) == getFloatBitWidth(T) <= HandleBits

\* The number whose two's complement in `bits` bits is x.
Signed(x, bits) == IF x >= 2 ^ (bits - 1) THEN x - 2 ^ bits ELSE x

\* The two's complement of x in `bits` bits.
Unsigned(x, bits) == x % 2 ^ bits

\* Mutant: the right shift of an unsigned number.
RightShiftLogical(x, n) == x \div 2 ^ n

\* The assembly routines, as their comments state them.
U64_LeftShift(x, n)  == Unsigned(x * 2 ^ n, MaxBits)
U64_RightShift(x, n) == Signed(x, MaxBits) \div 2 ^ n

\* A handle: its bits, and what is stored at that address if it is one.
Handles == [word : 0 .. 2 ^ HandleBits - 1, pointee : 0 .. 2 ^ MaxBits - 1]

getSIntValue(T, Val) ==
    IF ~isSignedIntegerTy(T) THEN {}
    ELSE IF isInlineInt(T)
    THEN LET ExtraBits == MaxBits - getIntegerBitWidth(T)
         IN  { U64_RightShift(U64_LeftShift(Val.word, ExtraBits), ExtraBits) }
    ELSE IF getIntegerBitWidth(T) = MaxBits THEN { Signed(Val.pointee, MaxBits) }
    ELSE {}

getUIntValue(T, Val) ==
    IF ~isUnsignedIntegerTy(T) THEN {}
    ELSE IF isInlineInt(T) THEN { Val.word }
    ELSE IF getIntegerBitWidth(T) = MaxBits THEN { Val.pointee }
    ELSE {}

\* Mutant: a CHECK that takes zero for not positive.
getStrictlyPositive(T, Val) ==
    IF isUnsignedIntegerTy(T) THEN getUIntValue(T, Val)
    ELSE { x \in getSIntValue(T, Val) : x > 0 }

getPositiveIntValue(T, Val) ==
    IF isUnsignedIntegerTy(T) THEN getUIntValue(T, Val)
    ELSE { x \in getSIntValue(T, Val) : x >= 0 }

isMinusOne(T, Val) ==
    IF isSignedIntegerTy(T) THEN { x = -1 : x \in getSIntValue(T, Val) } ELSE {FALSE}

isNegative(T, Val) ==
    IF isSignedIntegerTy(T) THEN { x < 0 : x \in getSIntValue(T, Val) } ELSE {FALSE}

\* A float is abstracted to its bits.  A float narrower than a handle, or of a
\* width between a handle and 64 bits, meets the UNREACHABLE after the switches;
\* the 80, 96 and 128-bit cases need a long double the N64's ABI does not have.
getFloatValue(T, Val) ==
    IF ~isFloatTy(T) THEN {}
    ELSE IF isInlineFloat(T)
    THEN { Val.word : b \in {getFloatBitWidth(T)} \cap {HandleBits} }
    ELSE { Val.pointee : b \in {getFloatBitWidth(T)} \cap {MaxBits} }

-----------------------------------------------------------------------------
\* How the compiler passes v, a value of the integer type T.  `address` is where
\* it keeps a value too wide for a handle.
Encode(T, v, address) ==
    IF isInlineInt(T)
    THEN [word |-> Unsigned(v, getIntegerBitWidth(T)), pointee |-> 0]
    ELSE [word |-> address, pointee |-> Unsigned(v, MaxBits)]

\* The least and the greatest value of an integer type.
Least(T) == IF isSignedIntegerTy(T) THEN -(2 ^ (getIntegerBitWidth(T) - 1)) ELSE 0
Greatest(T) == Least(T) + 2 ^ getIntegerBitWidth(T) - 1
InType(T, v) == v >= Least(T) /\ v <= Greatest(T)
=============================================================================
