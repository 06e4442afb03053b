--------------------------- MODULE O32CallsProofs ---------------------------
(***************************************************************************)
(* Machine-checked proofs about O32Calls: the shift routines, for every    *)
(* width of a word, every set of threads, and every request and operand of *)
(* that width; and variable arguments, for every set of calls.             *)
(***************************************************************************)
EXTENDS O32Calls, PowersOfTwo, SequenceTheorems

B == 2 ^ WordBits           \* a word and one more bit
H == 2 ^ (WordBits - 1)     \* the sign bit of a word

-----------------------------------------------------------------------------
(* Words and doublewords by B and H alone.                                 *)

LEMMA Bases ==
    /\ B \in Nat \ {0} /\ H \in Nat \ {0}
    /\ B = 2 * H
    /\ 2 ^ D = B * B
    /\ 2 ^ (D - 1) = H * B
    /\ D \in Nat /\ WordBits < D /\ D - 1 \in Nat
    /\ 2 ^ D \in Nat \ {0}
<1>1. /\ WordBits \in Nat /\ WordBits - 1 \in Nat
      /\ WordBits = (WordBits - 1) + 1
      /\ D = WordBits + WordBits /\ D - 1 = (WordBits - 1) + WordBits
      /\ D \in Nat /\ WordBits < D /\ D - 1 \in Nat
    BY ShiftAssumption DEF D
<1>2. B \in Nat \ {0} /\ H \in Nat \ {0} /\ 2 ^ D \in Nat \ {0}
    BY <1>1, PowerIsPositive, Zenon DEF B, H
<1>3. 2 ^ WordBits = 2 * 2 ^ (WordBits - 1)
    <2>1. 2 ^ ((WordBits - 1) + 1) = 2 * 2 ^ (WordBits - 1)
        BY <1>1, PowerOfNext, Zenon
    <2> QED
        BY <1>1, <2>1, Zenon
<1>4. 2 ^ D = B * B
    <2>1. 2 ^ (WordBits + WordBits) = B * B
        BY <1>1, PowerOfSum, Zenon DEF B
    <2> QED
        BY <1>1, <2>1, Zenon
<1>5. 2 ^ (D - 1) = H * B
    <2>1. 2 ^ ((WordBits - 1) + WordBits) = H * B
        BY <1>1, PowerOfSum, Zenon DEF B, H
    <2> QED
        BY <1>1, <2>1, Zenon
<1> QED
    BY <1>1, <1>2, <1>3, <1>4, <1>5, Zenon DEF B, H

LEMMA WordsAre == Words = 0 .. B - 1 /\ Doublewords = 0 .. B * B - 1
BY Bases, Zenon DEF Words, Doublewords, B

LEMMA HalvesAre ==
    ASSUME NEW x, NEW y
    PROVE  Hi(x) = x \div B /\ Lo(x) = x % B /\ Join(x, y) = x * B + y
BY Zenon DEF Hi, Lo, Join, B

LEMMA SignedIs ==
    ASSUME NEW x
    PROVE  /\ V!Signed(x, WordBits) = IF x >= H THEN x - B ELSE x
           /\ V!Signed(x, D) = IF x >= H * B THEN x - B * B ELSE x
           /\ V!Unsigned(x, D) = x % (B * B)
<1>1. V!Signed(x, WordBits) = IF x >= H THEN x - B ELSE x
    BY Zenon DEF V!Signed, B, H
<1>2. V!Signed(x, D) = IF x >= H * B THEN x - B * B ELSE x
    BY Bases, Zenon DEF V!Signed
<1>3. V!Unsigned(x, D) = x % (B * B)
    BY Bases, Zenon DEF V!Unsigned
<1> QED
    BY <1>1, <1>2, <1>3

\* A doubleword is its halves, joined, and only those.
LEMMA HalvesOfJoin ==
    ASSUME NEW hi \in Words, NEW lo \in Words
    PROVE  /\ Join(hi, lo) \in Doublewords
           /\ Hi(Join(hi, lo)) = hi
           /\ Lo(Join(hi, lo)) = lo
<1> DEFINE x == hi * B + lo
<1>1. /\ B \in Nat \ {0} /\ hi \in 0 .. B - 1 /\ lo \in 0 .. B - 1
      /\ hi \in Int /\ lo \in Int
    BY Bases, WordsAre
<1>2. x \in Int /\ x = B * hi + lo
    BY <1>1
<1>3. x \div B = hi /\ x % B = lo
    BY <1>1, <1>2, DivisionIs
<1>4. x \in 0 .. B * B - 1
    <2>1. B * 0 <= B * hi /\ B * hi <= B * (B - 1)
        BY <1>1, TimesMonotonic
    <2>2. B * (B - 1) = B * B - B
        BY <1>1
    <2> QED
        BY <1>1, <1>2, <2>1, <2>2
<1> QED
    BY <1>3, <1>4, HalvesAre, WordsAre, Zenon

LEMMA JoinOfHalves ==
    ASSUME NEW x \in Doublewords
    PROVE  /\ Hi(x) \in Words /\ Lo(x) \in Words
           /\ Join(Hi(x), Lo(x)) = x
<1> DEFINE q == x \div B
           r == x % B
<1>1. B \in Nat \ {0} /\ x \in 0 .. B * B - 1 /\ B * B \in Nat
    BY Bases, WordsAre
<1>2. q \in Int /\ r \in 0 .. B - 1 /\ x = B * q + r
    BY <1>1, DivisionOf
<1> HIDE DEF q, r
<1>3. q >= 0
    <2> SUFFICES ASSUME q <= -1 PROVE FALSE
        BY <1>2
    <2>1. B * q <= B * (-1)
        BY <1>1, <1>2, TimesMonotonic
    <2> QED
        BY <1>1, <1>2, <2>1
<1>4. q <= B - 1
    <2> SUFFICES ASSUME B <= q PROVE FALSE
        BY <1>1, <1>2
    <2>1. B * B <= B * q
        BY <1>1, <1>2, TimesMonotonic
    <2> QED
        BY <1>1, <1>2, <2>1
<1>5. q * B + r = x
    BY <1>1, <1>2
<1>6. q \in 0 .. B - 1
    BY <1>2, <1>3, <1>4
<1> QED
    BY <1>2, <1>5, <1>6, HalvesAre, WordsAre, Zenon DEF q, r

LEMMA LoIsWord ==
    ASSUME NEW x \in Int
    PROVE  Lo(x) \in Words
<1>1. x % B \in 0 .. B - 1
    BY Bases, DivisionOf
<1> QED
    BY <1>1, HalvesAre, WordsAre, Zenon

LEMMA UnsignedIsDoubleword ==
    ASSUME NEW x \in Int
    PROVE  V!Unsigned(x, D) \in Doublewords
<1>1. B * B \in Nat \ {0}
    BY Bases
<1>2. x % (B * B) \in 0 .. B * B - 1
    BY <1>1, DivisionOf
<1> QED
    BY <1>2, SignedIs, WordsAre, Zenon

LEMMA SignedIsInt ==
    ASSUME NEW x \in Int
    PROVE  V!Signed(x, WordBits) \in Int /\ V!Signed(x, D) \in Int
BY Bases, SignedIs

\* Sign extension fills the high half, and leaves the low half.
LEMMA SignExtendedIs ==
    ASSUME NEW w \in Words
    PROVE  /\ SignExtended(w) = IF w >= H THEN w - B + B * B ELSE w
           /\ SignExtended(w) \in Doublewords
           /\ Lo(SignExtended(w)) = w
<1>1. /\ B \in Nat \ {0} /\ H \in Nat \ {0} /\ B = 2 * H /\ w \in 0 .. B - 1
      /\ w \in Int /\ B * B \in Nat \ {0}
    BY Bases, WordsAre
<1>2. SignExtended(w) = (IF w >= H THEN w - B ELSE w) % (B * B)
    BY SignedIs, Zenon DEF SignExtended
<1>3. B <= B * B
    <2>1. B * 1 <= B * B
        BY <1>1, TimesMonotonic
    <2> QED
        BY <1>1, <2>1
<1>4. CASE w >= H
    <2> DEFINE x == w - B
               y == w - B + B * B
    <2>1. x \in Int /\ y \in 0 .. B * B - 1 /\ x = (B * B) * (-1) + y
        BY <1>1, <1>3
    <2>2. x % (B * B) = y
        BY <1>1, <2>1, DivisionIs
    <2>3. y = B * (B - 1) + w
        BY <1>1
    <2>4. y % B = w
        <3>1. y \in Int /\ B - 1 \in Int
            BY <1>1
        <3> HIDE DEF y
        <3> QED
            BY <1>1, <2>3, <3>1, DivisionIs
    <2>5. SignExtended(w) = y
        BY <1>2, <1>4, <2>2
    <2> QED
        BY <1>4, <2>1, <2>4, <2>5, HalvesAre, WordsAre
<1>5. CASE ~(w >= H)
    <2>1. w \in 0 .. B * B - 1 /\ w = (B * B) * 0 + w /\ w = B * 0 + w
        BY <1>1, <1>3
    <2>2. w % (B * B) = w /\ w % B = w
        BY <1>1, <2>1, DivisionIs
    <2>3. SignExtended(w) = w
        BY <1>2, <1>5, <2>2
    <2> QED
        BY <1>5, <2>1, <2>2, <2>3, HalvesAre, WordsAre
<1> QED
    BY <1>4, <1>5

-----------------------------------------------------------------------------
(* The instructions.                                                       *)

LEMMA ShiftsAreDoublewords ==
    ASSUME NEW x \in Doublewords, NEW n \in Doublewords
    PROVE  dsllv(x, n) \in Doublewords /\ dsrav(x, n) \in Doublewords
<1>1. n % D \in Nat
    <2>1. n \in Int /\ D \in Nat \ {0}
        BY Bases, WordsAre, ShiftAssumption
    <2> QED
        BY <2>1, DivisionOf
<1>2. 2 ^ (n % D) \in Nat \ {0}
    BY <1>1, PowerIsPositive, Zenon
<1> DEFINE P == 2 ^ (n % D)
<1> HIDE DEF P
<1>3. P \in Nat \ {0} /\ x \in Int
    BY <1>2, WordsAre, Bases DEF P
<1>4. x * P \in Int /\ V!Signed(x, D) \div P \in Int
    <2>1. V!Signed(x, D) \in Int
        BY <1>3, SignedIsInt
    <2> QED
        BY <1>3, <2>1, DivisionOf
<1>5. V!Unsigned(x * P, D) \in Doublewords /\ V!Unsigned(V!Signed(x, D) \div P, D) \in Doublewords
    BY <1>4, UnsignedIsDoubleword
<1> QED
    BY <1>5, Zenon DEF dsllv, dsrav, P

LEMMA WordBitsAreFew == 2 ^ (WordBits % D) = B
<1>1. /\ WordBits \in Int /\ D \in Nat \ {0} /\ WordBits \in 0 .. D - 1
      /\ WordBits = D * 0 + WordBits
    BY Bases, ShiftAssumption
<1>2. WordBits % D = WordBits
    BY <1>1, DivisionIs
<1> QED
    BY <1>2, Zenon DEF B

\* dsll32 moves the low half up.
LEMMA dsll32Is ==
    ASSUME NEW x \in Doublewords
    PROVE  /\ dsll32(x) \in Doublewords
           /\ Hi(dsll32(x)) = Lo(x)
<1> DEFINE h == Hi(x)
           l == Lo(x)
<1>1. /\ B \in Nat \ {0} /\ h \in 0 .. B - 1 /\ l \in 0 .. B - 1
      /\ x = h * B + l
    BY Bases, WordsAre, JoinOfHalves, HalvesAre
<1>2. dsll32(x) = (x * B) % (B * B)
    BY WordBitsAreFew, SignedIs, Zenon DEF dsll32, dsllv
<1> HIDE DEF h, l
<1>3. l * B \in 0 .. B * B - 1
    <2>1. B * 0 <= B * l /\ B * l <= B * (B - 1)
        BY <1>1, TimesMonotonic
    <2>2. B * (B - 1) = B * B - B
        BY <1>1
    <2> QED
        BY <1>1, <2>1, <2>2
<1>4. x * B = (B * B) * h + l * B
    BY <1>1
<1>5. (x * B) % (B * B) = l * B
    <2>1. x * B \in Int /\ B * B \in Nat \ {0} /\ h \in Int
        BY <1>1
    <2> QED
        BY <1>3, <1>4, <2>1, DivisionIs
<1>6. 0 \in Words /\ l \in Words /\ l * B = l * B + 0
    BY <1>1, WordsAre
<1>7. dsll32(x) = Join(l, 0)
    BY <1>2, <1>5, <1>6, HalvesAre, Zenon
<1> QED
    BY <1>6, <1>7, HalvesOfJoin, Zenon DEF l

\* dsra32 takes the high half, sign-extended.
LEMMA dsra32Is ==
    ASSUME NEW x \in Doublewords
    PROVE  dsra32(x) = SignExtended(Hi(x))
<1> DEFINE h == Hi(x)
           l == Lo(x)
           s == V!Signed(x, D)
<1>1. /\ B \in Nat \ {0} /\ H \in Nat \ {0} /\ B = 2 * H
      /\ h \in 0 .. B - 1 /\ l \in 0 .. B - 1
      /\ x = h * B + l /\ x \in Int
    BY Bases, WordsAre, JoinOfHalves, HalvesAre
<1>2. dsra32(x) = V!Unsigned(s \div B, D)
    BY WordBitsAreFew, Zenon DEF dsra32, dsrav
<1>3. s = IF x >= H * B THEN x - B * B ELSE x
    BY SignedIs, Zenon
<1>4. SignExtended(h) = V!Unsigned(V!Signed(h, WordBits), D)
    BY Zenon DEF SignExtended
<1>5. V!Signed(h, WordBits) = IF h >= H THEN h - B ELSE h
    BY SignedIs, Zenon
<1> HIDE DEF h, l, s
<1>6. s \div B = IF h >= H THEN h - B ELSE h
    <2>1. CASE h >= H
        <3>1. B * H <= B * h
            BY <1>1, <2>1, TimesMonotonic
        <3>2. x >= H * B
            BY <1>1, <3>1
        <3>3. s = B * (h - B) + l
            BY <1>1, <1>3, <3>2
        <3>4. s \in Int /\ h - B \in Int
            BY <1>1, <3>3
        <3> QED
            BY <1>1, <2>1, <3>3, <3>4, DivisionIs
    <2>2. CASE ~(h >= H)
        <3>1. B * h <= B * (H - 1)
            BY <1>1, <2>2, TimesMonotonic
        <3>2. B * (H - 1) = H * B - B
            BY <1>1
        <3>3. ~(x >= H * B)
            BY <1>1, <3>1, <3>2
        <3>4. s = B * h + l /\ s \in Int /\ h \in Int
            BY <1>1, <1>3, <3>3
        <3> QED
            BY <1>1, <2>2, <3>4, DivisionIs
    <2> QED
        BY <2>1, <2>2
<1> QED
    BY <1>2, <1>4, <1>5, <1>6, Zenon DEF h
-----------------------------------------------------------------------------
(* The invariant.                                                          *)

Result(req) == IF req.op = "left" THEN dsllv(req.value, req.shift)
                                  ELSE dsrav(req.value, req.shift)

\* The words of x and y in a0 to a3.
InArguments(r, x, y) ==
    /\ r["a0"] = SignExtended(Hi(x)) /\ r["a1"] = SignExtended(Lo(x))
    /\ r["a2"] = SignExtended(Hi(y)) /\ r["a3"] = SignExtended(Lo(y))

\* How far a routine that is about to execute p has come with req, when its
\* thread sees the registers r and the argument area s.
Computed(r, s, p, req) ==
    /\ p \in {"sw a0", "sw a1", "sw a2", "sw a3"} => InArguments(r, req.value, req.shift)
    /\ p \in {"sw a1", "sw a2", "sw a3", "ld t7", "ld t6"} => s[0] = Hi(req.value)
    /\ p \in {"sw a2", "sw a3", "ld t7", "ld t6"} => s[1] = Lo(req.value)
    /\ p \in {"sw a3", "ld t7"} => s[2] = Hi(req.shift)
    /\ p = "ld t7" => s[3] = Lo(req.shift)
    /\ p \in {"ld t6", "shift"} => r["t7"] = req.shift
    /\ p = "shift" => r["t6"] = req.value
    /\ p \in {"dsll32", "dsra32", "jr"} => r["v0"] = Result(req)
    /\ p = "dsra32" => r["v1"] = dsll32(Result(req))
    /\ p = "jr" => r["v1"] = SignExtended(Lo(Result(req)))
    /\ p = "returned" => /\ r["v0"] = SignExtended(Hi(Result(req)))
                         /\ r["v1"] = SignExtended(Lo(Result(req)))

\* The shift getSIntValue asks for while it decodes x.
Decodes(p, req, x) ==
    p # "caller" /\ x # None =>
        /\ req.shift = ExtraBits(x)
        /\ req.value = IF req.op = "left" THEN x.Val ELSE V!U64_LeftShift(x.Val, ExtraBits(x))

RequestType == [op : {"left", "right"}, value : Doublewords, shift : Doublewords]

TypeInv ==
    /\ TypeOK
    /\ request \in [Threads -> RequestType]
    /\ decoding \in [Threads -> Operands \cup {None}]

IInv ==
    /\ TypeInv
    /\ \A t \in Threads :
        /\ Computed(Seen(t), stack[t], pc[t], request[t])
        /\ Decodes(pc[t], request[t], decoding[t])


LEMMA ResultIsDoubleword ==
    ASSUME NEW req \in RequestType
    PROVE  Result(req) \in Doublewords
<1>1. req.value \in Doublewords /\ req.shift \in Doublewords
    BY Zenon DEF RequestType
<1>2. dsllv(req.value, req.shift) \in Doublewords /\ dsrav(req.value, req.shift) \in Doublewords
    BY <1>1, ShiftsAreDoublewords
<1> QED
    BY <1>2, Zenon DEF Result

\* For an amount that C defines, the result is what the comment says.
LEMMA ResultIsAsInC ==
    ASSUME NEW req \in RequestType, req.shift < D
    PROVE  Result(req) = IF req.op = "left" THEN V!U64_LeftShift(req.value, req.shift)
                         ELSE V!Unsigned(V!U64_RightShift(req.value, req.shift), D)
<1>1. V!MaxBits = D
    BY DEF V!MaxBits, D
<1>2. req.shift % D = req.shift
    <2>1. req.shift \in Doublewords
        BY Zenon DEF RequestType
    <2>2. /\ req.shift \in Int /\ D \in Nat \ {0} /\ req.shift \in 0 .. D - 1
          /\ req.shift = D * 0 + req.shift
        BY <2>1, Bases, WordsAre, ShiftAssumption
    <2> QED
        BY <2>2, DivisionIs
<1> QED
    BY <1>1, <1>2, Zenon DEF Result, dsllv, dsrav, V!U64_LeftShift, V!U64_RightShift

\* The caller joins v0 and v1 to the result.
LEMMA ReturnedIsResult ==
    ASSUME NEW r, NEW s, NEW req \in RequestType, Computed(r, s, "returned", req)
    PROVE  Returned(r) = Result(req)
<1> DEFINE x == Result(req)
<1>1. x \in Doublewords
    BY ResultIsDoubleword
<1>2. r["v0"] = SignExtended(Hi(x)) /\ r["v1"] = SignExtended(Lo(x))
    BY DEF Computed
<1> HIDE DEF x
<1>3. Hi(x) \in Words /\ Lo(x) \in Words /\ Join(Hi(x), Lo(x)) = x
    BY <1>1, JoinOfHalves
<1>4. Lo(SignExtended(Hi(x))) = Hi(x) /\ Lo(SignExtended(Lo(x))) = Lo(x)
    BY <1>3, SignExtendedIs
<1>5. Returned(r) = x
    BY <1>2, <1>3, <1>4, Zenon DEF Returned
<1> QED
    BY <1>5 DEF x

LEMMA InitIInv == Init => IInv
<1> SUFFICES ASSUME Init PROVE IInv
    OBVIOUS
<1>1. 0 \in Words /\ 0 \in Doublewords
    BY Bases, WordsAre
<1>2. NoRequest \in RequestType
    BY <1>1 DEF NoRequest, RequestType
<1>3. /\ request \in [Threads -> RequestType]
      /\ decoding \in [Threads -> Operands \cup {None}]
    BY <1>2, Zenon DEF Init
<1>4. TypeOK
    <2>1. Unused \in [Registers -> Doublewords] /\ NoFrame \in [0 .. 3 -> Words]
        BY <1>1, Zenon DEF Unused, NoFrame
    <2>2. \A t \in Threads : request[t] \in RequestType /\ decoding[t] \in Operands \cup {None}
        BY <1>3
    <2>3. \A t \in Threads :
            /\ request[t].op \in {"left", "right"}
            /\ request[t].value \in Doublewords /\ request[t].shift \in Doublewords
        BY <2>2, Zenon DEF RequestType
    <2>4. "caller" \in PCs
        BY DEF PCs
    <2> QED
        BY <2>1, <2>2, <2>3, <2>4, Zenon DEF Init, TypeOK
<1>5. ASSUME NEW t \in Threads
      PROVE  Computed(Seen(t), stack[t], pc[t], request[t]) /\ Decodes(pc[t], request[t], decoding[t])
    <2>1. pc[t] = "caller"
        BY DEF Init
    <2> QED
        BY <2>1 DEF Computed, Decodes
<1> QED
    BY <1>3, <1>4, <1>5 DEF IInv, TypeInv

\* A step of the running thread that leaves it in a good state.
LEMMA LocalStep ==
    ASSUME IInv, NEW t \in Threads, running = t, running' = running, saved' = saved,
           NEW s \in [0 .. 3 -> Words], NEW p \in PCs,
           NEW req \in RequestType, NEW x \in Operands \cup {None},
           regs' \in [Registers -> Doublewords],
           stack' = [stack EXCEPT ![t] = s],
           pc' = [pc EXCEPT ![t] = p],
           request' = [request EXCEPT ![t] = req],
           decoding' = [decoding EXCEPT ![t] = x],
           Computed(regs', s, p, req), Decodes(p, req, x)
    PROVE  IInv'
<1>1. /\ stack \in [Threads -> [0 .. 3 -> Words]] /\ pc \in [Threads -> PCs]
      /\ request \in [Threads -> RequestType] /\ decoding \in [Threads -> Operands \cup {None}]
      /\ saved \in [Threads -> [Registers -> Doublewords]] /\ running \in Threads
    BY DEF IInv, TypeInv, TypeOK
<1>2. /\ stack' \in [Threads -> [0 .. 3 -> Words]] /\ pc' \in [Threads -> PCs]
      /\ request' \in [Threads -> RequestType] /\ decoding' \in [Threads -> Operands \cup {None}]
    BY <1>1, Zenon
<1>3. TypeOK'
    <2>1. \A u \in Threads : request'[u] \in RequestType /\ decoding'[u] \in Operands \cup {None}
        BY <1>2
    <2>2. \A u \in Threads :
            /\ request'[u].op \in {"left", "right"}
            /\ request'[u].value \in Doublewords /\ request'[u].shift \in Doublewords
        BY <2>1, Zenon DEF RequestType
    <2> QED
        BY <1>1, <1>2, <2>1, <2>2, Zenon DEF TypeOK
<1>4. ASSUME NEW u \in Threads
      PROVE  /\ Computed(Seen(u)', stack'[u], pc'[u], request'[u])
             /\ Decodes(pc'[u], request'[u], decoding'[u])
    <2>1. CASE u = t
        <3>1. Seen(u)' = regs'
            BY <2>1, Zenon DEF Seen
        <3>2. stack'[u] = s /\ pc'[u] = p /\ request'[u] = req /\ decoding'[u] = x
            BY <1>1, <2>1, Zenon
        <3> QED
            BY <3>1, <3>2, Zenon
    <2>2. CASE u # t
        <3>1. Seen(u)' = Seen(u)
            BY <2>2, Zenon DEF Seen
        <3>2. /\ stack'[u] = stack[u] /\ pc'[u] = pc[u]
              /\ request'[u] = request[u] /\ decoding'[u] = decoding[u]
            BY <1>1, <2>2, Zenon
        <3> QED
            BY <3>1, <3>2, Zenon DEF IInv
    <2> QED
        BY <2>1, <2>2
<1>5. \A u \in Threads : (/\ Computed(Seen(u), stack[u], pc[u], request[u])
                          /\ Decodes(pc[u], request[u], decoding[u]))'
    BY <1>4, Zenon
<1> QED
    BY <1>2, <1>3, <1>5, Zenon DEF IInv, TypeInv

-----------------------------------------------------------------------------
(* The instructions keep the invariant.                                    *)

\* What the invariant says of the thread that runs.
LEMMA Running ==
    ASSUME IInv, NEW t \in Threads, running = t
    PROVE  /\ regs \in [Registers -> Doublewords]
           /\ stack[t] \in [0 .. 3 -> Words]
           /\ request[t] \in RequestType /\ decoding[t] \in Operands \cup {None}
           /\ request[t].value \in Doublewords /\ request[t].shift \in Doublewords
           /\ Computed(regs, stack[t], pc[t], request[t])
           /\ Decodes(pc[t], request[t], decoding[t])
<1>1. /\ regs \in [Registers -> Doublewords]
      /\ stack \in [Threads -> [0 .. 3 -> Words]]
      /\ request \in [Threads -> RequestType] /\ decoding \in [Threads -> Operands \cup {None}]
    BY Zenon DEF IInv, TypeInv, TypeOK
<1>2. request[t] \in RequestType
    BY <1>1, Zenon
<1>3. request[t].value \in Doublewords /\ request[t].shift \in Doublewords
    BY <1>2, Zenon DEF RequestType
<1>4. Seen(t) = regs
    BY Zenon DEF Seen
<1> QED
    BY <1>1, <1>2, <1>3, <1>4, Zenon DEF IInv

LEMMA ExecuteKeepsIInv ==
    ASSUME IInv, NEW t \in Threads,
           NEW from \in PCs \ {"caller"}, NEW to \in PCs \ {"caller"}, Execute(t, from, to),
           NEW s \in [0 .. 3 -> Words], stack' = [stack EXCEPT ![t] = s],
           regs' \in [Registers -> Doublewords],
           Computed(regs', s, to, request[t])
    PROVE  IInv'
<1>1. /\ running = t /\ running' = running /\ saved' = saved /\ pc[t] = from
      /\ pc' = [pc EXCEPT ![t] = to]
      /\ request' = request /\ decoding' = decoding
    BY DEF Execute
<1>2. /\ request \in [Threads -> RequestType] /\ decoding \in [Threads -> Operands \cup {None}]
      /\ request[t] \in RequestType /\ decoding[t] \in Operands \cup {None}
    BY Zenon DEF IInv, TypeInv
<1>3. /\ request' = [request EXCEPT ![t] = request[t]]
      /\ decoding' = [decoding EXCEPT ![t] = decoding[t]]
    BY <1>1, <1>2
<1>4. Decodes(to, request[t], decoding[t])
    BY <1>1, Zenon DEF IInv, Decodes
<1> QED
    BY <1>1, <1>2, <1>3, <1>4, LocalStep, Zenon

LEMMA swKeepsIInv ==
    ASSUME IInv, NEW t \in Threads,
           NEW from \in PCs \ {"caller"}, NEW to \in PCs \ {"caller"},
           NEW r \in Registers, NEW k \in 0 .. 3, sw(t, from, to, r, k),
           Computed(regs, [stack[t] EXCEPT ![k] = Lo(regs[r])], to, request[t])
    PROVE  IInv'
<1> DEFINE s == [stack[t] EXCEPT ![k] = Lo(regs[r])]
<1>1. /\ Execute(t, from, to) /\ running = t
      /\ stack' = [stack EXCEPT ![t][k] = Lo(regs[r])] /\ regs' = regs
    BY DEF sw, Execute
<1>2. regs \in [Registers -> Doublewords] /\ stack[t] \in [0 .. 3 -> Words]
    BY <1>1, Running, Zenon
<1>3. Lo(regs[r]) \in Words
    BY <1>2, JoinOfHalves, Zenon
<1>4. s \in [0 .. 3 -> Words]
    BY <1>2, <1>3, Zenon
<1>5. stack' = [stack EXCEPT ![t] = s]
    BY <1>1, Zenon
<1> HIDE DEF s
<1>6. Computed(regs', s, to, request[t])
    BY <1>1, Zenon DEF s
<1> QED
    BY <1>1, <1>2, <1>4, <1>5, <1>6, ExecuteKeepsIInv, Zenon

LEMMA SetKeepsIInv ==
    ASSUME IInv, NEW t \in Threads,
           NEW from \in PCs \ {"caller"}, NEW to \in PCs \ {"caller"},
           NEW r \in Registers, NEW x \in Doublewords, Set(t, from, to, r, x),
           Computed([regs EXCEPT ![r] = x], stack[t], to, request[t])
    PROVE  IInv'
<1>1. /\ Execute(t, from, to) /\ running = t
      /\ regs' = [regs EXCEPT ![r] = x] /\ stack' = stack
    BY DEF Set, Execute
<1>2. regs \in [Registers -> Doublewords] /\ stack[t] \in [0 .. 3 -> Words]
    BY <1>1, Running, Zenon
<1>3. regs' \in [Registers -> Doublewords]
    BY <1>1, <1>2, Zenon
<1>4. stack' = [stack EXCEPT ![t] = stack[t]]
    <2>1. stack \in [Threads -> [0 .. 3 -> Words]]
        BY Zenon DEF IInv, TypeInv, TypeOK
    <2> QED
        BY <1>1, <2>1
<1>5. Computed(regs', stack[t], to, request[t])
    BY <1>1, Zenon
<1> QED
    BY <1>1, <1>2, <1>3, <1>4, <1>5, ExecuteKeepsIInv, Zenon

\* The argument registers hold the words that are stored.
LEMMA StoreArgumentsKeepsIInv ==
    ASSUME IInv, NEW t \in Threads, StoreArguments(t)
    PROVE  IInv'
<1> DEFINE req == request[t]
           a == stack[t]
           Stored(k, r) == [a EXCEPT ![k] = Lo(regs[r])]
<1>1. running = t /\ pc[t] \in {"sw a0", "sw a1", "sw a2", "sw a3"}
    BY DEF StoreArguments, sw, Execute
<1>2. /\ a \in [0 .. 3 -> Words]
      /\ Computed(regs, a, pc[t], req)
      /\ req.value \in Doublewords /\ req.shift \in Doublewords
    BY <1>1, Running, Zenon
<1>3. /\ Lo(SignExtended(Hi(req.value))) = Hi(req.value)
      /\ Lo(SignExtended(Lo(req.value))) = Lo(req.value)
      /\ Lo(SignExtended(Hi(req.shift))) = Hi(req.shift)
      /\ Lo(SignExtended(Lo(req.shift))) = Lo(req.shift)
    <2>1. /\ Hi(req.value) \in Words /\ Lo(req.value) \in Words
          /\ Hi(req.shift) \in Words /\ Lo(req.shift) \in Words
        BY <1>2, JoinOfHalves
    <2> QED
        BY <2>1, SignExtendedIs
<1> HIDE DEF req, a
<1>4. InArguments(regs, req.value, req.shift)
    BY <1>1, <1>2 DEF Computed
<1>5. /\ Lo(regs["a0"]) = Hi(req.value) /\ Lo(regs["a1"]) = Lo(req.value)
      /\ Lo(regs["a2"]) = Hi(req.shift) /\ Lo(regs["a3"]) = Lo(req.shift)
    BY <1>3, <1>4, Zenon DEF InArguments
<1>6. /\ "a0" \in Registers /\ "a1" \in Registers /\ "a2" \in Registers /\ "a3" \in Registers
      /\ "sw a0" \in PCs \ {"caller"} /\ "sw a1" \in PCs \ {"caller"}
      /\ "sw a2" \in PCs \ {"caller"} /\ "sw a3" \in PCs \ {"caller"}
      /\ "ld t7" \in PCs \ {"caller"}
      /\ 0 \in 0 .. 3 /\ 1 \in 0 .. 3 /\ 2 \in 0 .. 3 /\ 3 \in 0 .. 3
    BY DEF Registers, PCs
<1>7. \A k \in 0 .. 3, r \in Registers :
        /\ Stored(k, r)[k] = Lo(regs[r])
        /\ \A j \in 0 .. 3 : j # k => Stored(k, r)[j] = a[j]
    BY <1>2, Zenon
<1> HIDE DEF Stored
<1>8. CASE sw(t, "sw a0", "sw a1", "a0", 0)
    <2> DEFINE s == Stored(0, "a0")
    <2>1. Computed(regs, a, "sw a0", req)
        BY <1>2, <1>8, Zenon DEF sw, Execute
    <2>2. /\ s[0] = Lo(regs["a0"])
          /\ \A j \in 0 .. 3 : j # 0 => s[j] = a[j]
        <3>1. 0 \in 0 .. 3
            OBVIOUS
        <3> QED
            BY <1>6, <1>7, <3>1, Zenon
    <2> HIDE DEF s
    <2>3. Computed(regs, s, "sw a1", req)
        BY <1>4, <1>5, <2>1, <2>2 DEF Computed
    <2> QED
        BY <1>6, <1>8, <2>3, swKeepsIInv, Zenon DEF s, Stored, a, req
<1>9. CASE sw(t, "sw a1", "sw a2", "a1", 1)
    <2> DEFINE s == Stored(1, "a1")
    <2>1. Computed(regs, a, "sw a1", req)
        BY <1>2, <1>9, Zenon DEF sw, Execute
    <2>2. /\ s[1] = Lo(regs["a1"])
          /\ \A j \in 0 .. 3 : j # 1 => s[j] = a[j]
        <3>1. 1 \in 0 .. 3
            OBVIOUS
        <3> QED
            BY <1>6, <1>7, <3>1, Zenon
    <2> HIDE DEF s
    <2>3. Computed(regs, s, "sw a2", req)
        BY <1>4, <1>5, <2>1, <2>2 DEF Computed
    <2> QED
        BY <1>6, <1>9, <2>3, swKeepsIInv, Zenon DEF s, Stored, a, req
<1>10. CASE sw(t, "sw a2", "sw a3", "a2", 2)
    <2> DEFINE s == Stored(2, "a2")
    <2>1. Computed(regs, a, "sw a2", req)
        BY <1>2, <1>10, Zenon DEF sw, Execute
    <2>2. /\ s[2] = Lo(regs["a2"])
          /\ \A j \in 0 .. 3 : j # 2 => s[j] = a[j]
        <3>1. 2 \in 0 .. 3
            OBVIOUS
        <3> QED
            BY <1>6, <1>7, <3>1, Zenon
    <2> HIDE DEF s
    <2>3. Computed(regs, s, "sw a3", req)
        BY <1>4, <1>5, <2>1, <2>2 DEF Computed
    <2> QED
        BY <1>6, <1>10, <2>3, swKeepsIInv, Zenon DEF s, Stored, a, req
<1>11. CASE sw(t, "sw a3", "ld t7", "a3", 3)
    <2> DEFINE s == Stored(3, "a3")
    <2>1. Computed(regs, a, "sw a3", req)
        BY <1>2, <1>11, Zenon DEF sw, Execute
    <2>2. /\ s[3] = Lo(regs["a3"])
          /\ \A j \in 0 .. 3 : j # 3 => s[j] = a[j]
        <3>1. 3 \in 0 .. 3
            OBVIOUS
        <3> QED
            BY <1>6, <1>7, <3>1, Zenon
    <2> HIDE DEF s
    <2>3. Computed(regs, s, "ld t7", req)
        BY <1>4, <1>5, <2>1, <2>2 DEF Computed
    <2> QED
        BY <1>6, <1>11, <2>3, swKeepsIInv, Zenon DEF s, Stored, a, req
<1> QED
    BY <1>8, <1>9, <1>10, <1>11 DEF StoreArguments

\* ld puts the halves together again.
LEMMA LoadsKeepIInv ==
    ASSUME IInv, NEW t \in Threads, LoadShift(t) \/ LoadValue(t)
    PROVE  IInv'
<1> DEFINE req == request[t]
           a == stack[t]
           r(n, x) == [regs EXCEPT ![n] = x]
<1>1. running = t /\ pc[t] \in {"ld t7", "ld t6"}
    BY DEF LoadShift, LoadValue, Set, Execute
<1>2. /\ regs \in [Registers -> Doublewords]
      /\ Computed(regs, a, pc[t], req)
      /\ req.value \in Doublewords /\ req.shift \in Doublewords
    BY <1>1, Running, Zenon
<1> HIDE DEF req, a
<1>3. /\ Join(Hi(req.value), Lo(req.value)) = req.value
      /\ Join(Hi(req.shift), Lo(req.shift)) = req.shift
    BY <1>2, JoinOfHalves
<1>4. /\ "t6" \in Registers /\ "t7" \in Registers /\ "t6" # "t7"
      /\ "ld t7" \in PCs \ {"caller"} /\ "ld t6" \in PCs \ {"caller"}
      /\ "shift" \in PCs \ {"caller"}
    BY DEF Registers, PCs
<1>5. CASE LoadShift(t)
    <2> DEFINE x == Join(a[2], a[3])
    <2>1. Computed(regs, a, "ld t7", req)
        BY <1>2, <1>5, Zenon DEF LoadShift, Set, Execute
    <2>2. x = req.shift
        BY <1>3, <2>1 DEF Computed
    <2>3. r("t7", x)["t7"] = x
        BY <1>2, <1>4, Zenon
    <2> HIDE DEF x
    <2>4. Computed(r("t7", x), a, "ld t6", req)
        <3> HIDE DEF r
        <3> QED
            BY <2>1, <2>2, <2>3 DEF Computed
    <2> QED
        BY <1>2, <1>4, <1>5, <2>2, <2>4, SetKeepsIInv, Zenon DEF LoadShift, x, a, req
<1>6. CASE LoadValue(t)
    <2> DEFINE x == Join(a[0], a[1])
    <2>1. Computed(regs, a, "ld t6", req)
        BY <1>2, <1>6, Zenon DEF LoadValue, Set, Execute
    <2>2. x = req.value
        BY <1>3, <2>1 DEF Computed
    <2>3. r("t6", x)["t6"] = x /\ r("t6", x)["t7"] = regs["t7"]
        BY <1>2, <1>4, Zenon
    <2> HIDE DEF x
    <2>4. Computed(r("t6", x), a, "shift", req)
        <3> HIDE DEF r
        <3> QED
            BY <2>1, <2>2, <2>3 DEF Computed
    <2> QED
        BY <1>2, <1>4, <1>6, <2>2, <2>4, SetKeepsIInv, Zenon DEF LoadValue, x, a, req
<1> QED
    BY <1>5, <1>6

\* The shift and what makes two words of its result.
LEMMA ComputeKeepsIInv ==
    ASSUME IInv, NEW t \in Threads, Shift(t) \/ LowHalf(t) \/ LowExtend(t) \/ Return(t)
    PROVE  IInv'
<1> DEFINE req == request[t]
           a == stack[t]
           y == Result(req)
           r(n, x) == [regs EXCEPT ![n] = x]
<1>1. running = t /\ pc[t] \in {"shift", "dsll32", "dsra32", "jr"}
    BY DEF Shift, LowHalf, LowExtend, Return, Set, Execute
<1>2. /\ regs \in [Registers -> Doublewords]
      /\ req \in RequestType
      /\ Computed(regs, a, pc[t], req)
    BY <1>1, Running, Zenon
<1>3. y \in Doublewords /\ dsll32(y) \in Doublewords
    BY <1>2, ResultIsDoubleword, dsll32Is
<1>4. Hi(y) \in Words /\ Lo(y) \in Words
    BY <1>3, JoinOfHalves
<1>5. /\ dsra32(y) = SignExtended(Hi(y)) /\ dsra32(y) \in Doublewords
      /\ dsra32(dsll32(y)) = SignExtended(Lo(y)) /\ dsra32(dsll32(y)) \in Doublewords
    BY <1>3, <1>4, dsll32Is, dsra32Is, SignExtendedIs
<1> HIDE DEF req, a, y
<1>6. /\ "v0" \in Registers /\ "v1" \in Registers /\ "v0" # "v1"
      /\ "shift" \in PCs \ {"caller"} /\ "dsll32" \in PCs \ {"caller"}
      /\ "dsra32" \in PCs \ {"caller"} /\ "jr" \in PCs \ {"caller"}
      /\ "returned" \in PCs \ {"caller"}
    BY DEF Registers, PCs
<1>7. CASE Shift(t)
    <2>1. Computed(regs, a, "shift", req)
        BY <1>2, <1>7, Zenon DEF Shift, Set, Execute
    <2>2. regs["t6"] = req.value /\ regs["t7"] = req.shift
        BY <2>1 DEF Computed
    <2>3. Set(t, "shift", "dsll32", "v0", y)
        BY <1>7, <2>2, Zenon DEF Shift, Result, y, req
    <2>4. r("v0", y)["v0"] = y
        BY <1>2, <1>6, Zenon
    <2>5. Computed(r("v0", y), a, "dsll32", req)
        <3> HIDE DEF r
        <3> QED
            BY <2>4 DEF Computed, y
    <2> QED
        BY <1>3, <1>6, <2>3, <2>5, SetKeepsIInv, Zenon DEF a, req
<1>8. CASE LowHalf(t)
    <2>1. Computed(regs, a, "dsll32", req)
        BY <1>2, <1>8, Zenon DEF LowHalf, Set, Execute
    <2>2. regs["v0"] = y
        BY <2>1 DEF Computed, y
    <2>3. Set(t, "dsll32", "dsra32", "v1", dsll32(y))
        BY <1>8, <2>2, Zenon DEF LowHalf
    <2>4. r("v1", dsll32(y))["v1"] = dsll32(y) /\ r("v1", dsll32(y))["v0"] = y
        BY <1>2, <1>6, <2>2, Zenon
    <2>5. Computed(r("v1", dsll32(y)), a, "dsra32", req)
        <3> HIDE DEF r
        <3> QED
            BY <2>4 DEF Computed, y
    <2> QED
        BY <1>3, <1>6, <2>3, <2>5, SetKeepsIInv, Zenon DEF a, req
<1>9. CASE LowExtend(t)
    <2> DEFINE x == dsra32(dsll32(y))
    <2>1. Computed(regs, a, "dsra32", req)
        BY <1>2, <1>9, Zenon DEF LowExtend, Set, Execute
    <2>2. regs["v0"] = y /\ regs["v1"] = dsll32(y)
        BY <2>1 DEF Computed, y
    <2>3. Set(t, "dsra32", "jr", "v1", x)
        BY <1>9, <2>2, Zenon DEF LowExtend
    <2>4. r("v1", x)["v1"] = SignExtended(Lo(y)) /\ r("v1", x)["v0"] = y
        BY <1>2, <1>5, <1>6, <2>2, Zenon
    <2> HIDE DEF x
    <2>5. Computed(r("v1", x), a, "jr", req)
        <3> HIDE DEF r
        <3> QED
            BY <2>4 DEF Computed, y
    <2> QED
        BY <1>5, <1>6, <2>3, <2>5, SetKeepsIInv, Zenon DEF a, req, x
<1>10. CASE Return(t)
    <2> DEFINE x == dsra32(y)
    <2>1. Computed(regs, a, "jr", req)
        BY <1>2, <1>10, Zenon DEF Return, Set, Execute
    <2>2. regs["v0"] = y /\ regs["v1"] = SignExtended(Lo(y))
        BY <2>1 DEF Computed, y
    <2>3. Set(t, "jr", "returned", "v0", x)
        BY <1>10, <2>2, Zenon DEF Return
    <2>4. r("v0", x)["v0"] = SignExtended(Hi(y)) /\ r("v0", x)["v1"] = SignExtended(Lo(y))
        BY <1>2, <1>5, <1>6, <2>2, Zenon
    <2> HIDE DEF x
    <2>5. Computed(r("v0", x), a, "returned", req)
        <3> HIDE DEF r
        <3> QED
            BY <2>4 DEF Computed, y
    <2> QED
        BY <1>5, <1>6, <2>3, <2>5, SetKeepsIInv, Zenon DEF a, req, x
<1> QED
    BY <1>7, <1>8, <1>9, <1>10

-----------------------------------------------------------------------------
(* The callers keep it.                                                    *)

LEMMA EnterKeepsIInv ==
    ASSUME IInv, NEW t \in Threads, NEW req \in RequestType, Enter(t, req),
           NEW x \in Operands \cup {None}, decoding' = [decoding EXCEPT ![t] = x],
           Decodes("sw a0", req, x)
    PROVE  IInv'
<1> DEFINE a0 == SignExtended(Hi(req.value))
           a1 == SignExtended(Lo(req.value))
           a2 == SignExtended(Hi(req.shift))
           a3 == SignExtended(Lo(req.shift))
<1>1. /\ running = t /\ running' = running /\ saved' = saved
      /\ pc' = [pc EXCEPT ![t] = "sw a0"] /\ request' = [request EXCEPT ![t] = req]
      /\ stack' = stack
      /\ regs' = [regs EXCEPT !["a0"] = a0, !["a1"] = a1, !["a2"] = a2, !["a3"] = a3]
    BY DEF Enter
<1>2. regs \in [Registers -> Doublewords] /\ stack[t] \in [0 .. 3 -> Words]
    BY <1>1, Running, Zenon
<1>3. a0 \in Doublewords /\ a1 \in Doublewords /\ a2 \in Doublewords /\ a3 \in Doublewords
    <2>1. req.value \in Doublewords /\ req.shift \in Doublewords
        BY Zenon DEF RequestType
    <2> QED
        BY <2>1, JoinOfHalves, SignExtendedIs
<1> HIDE DEF a0, a1, a2, a3
<1>4. /\ regs' \in [Registers -> Doublewords]
      /\ regs'["a0"] = a0 /\ regs'["a1"] = a1 /\ regs'["a2"] = a2 /\ regs'["a3"] = a3
    BY <1>1, <1>2, <1>3 DEF Registers
<1>5. Computed(regs', stack[t], "sw a0", req)
    <2>1. InArguments(regs', req.value, req.shift)
        BY <1>4, Zenon DEF InArguments, a0, a1, a2, a3
    <2> QED
        BY <2>1 DEF Computed
<1>6. stack' = [stack EXCEPT ![t] = stack[t]]
    <2>1. stack \in [Threads -> [0 .. 3 -> Words]]
        BY Zenon DEF IInv, TypeInv, TypeOK
    <2> QED
        BY <1>1, <2>1
<1>7. "sw a0" \in PCs
    BY DEF PCs
<1> QED
    BY <1>1, <1>2, <1>4, <1>5, <1>6, <1>7, LocalStep, Zenon

LEMMA CallKeepsIInv ==
    ASSUME IInv, NEW t \in Threads, Call(t)
    PROVE  IInv'
<1>1. PICK req \in Requests : Enter(t, req)
    BY Zenon DEF Call
<1>2. decoding[t] = None /\ decoding' = decoding
    BY DEF Call
<1>3. req \in RequestType
    BY ShiftAssumption, Zenon DEF RequestType
<1>4. decoding' = [decoding EXCEPT ![t] = None]
    <2>1. decoding \in [Threads -> Operands \cup {None}]
        BY Zenon DEF IInv, TypeInv
    <2> QED
        BY <1>2, <2>1
<1>5. Decodes("sw a0", req, None)
    BY Zenon DEF Decodes
<1> QED
    BY <1>1, <1>3, <1>4, <1>5, EnterKeepsIInv, Zenon

\* An operand fits a doubleword, with ExtraBits to spare.
LEMMA OperandIs ==
    ASSUME NEW x \in Operands
    PROVE  /\ x # None
           /\ x.width \in Nat \ {0} /\ x.width - 1 \in Nat
           /\ ExtraBits(x) \in Nat /\ ExtraBits(x) < D /\ D = x.width + ExtraBits(x)
           /\ ExtraBits(x) \in Doublewords
           /\ x.Val \in 0 .. 2 ^ x.width - 1
           /\ 2 ^ x.width \in Nat \ {0} /\ 2 ^ ExtraBits(x) \in Nat \ {0}
           /\ B * B = 2 ^ x.width * 2 ^ ExtraBits(x)
           /\ x.Val \in Doublewords
<1> DEFINE w == x.width
           e == ExtraBits(x)
           v == x.Val
           W == 2 ^ w
           E == 2 ^ e
<1>1. w \in 1 .. WordBits /\ v \in 0 .. W - 1
    BY ShiftAssumption
<1>2. e = D - w
    BY DEF ExtraBits
<1>3. x # None
    <2>1. None.width = 0
        BY DEF None
    <2> QED
        BY <1>1, <2>1
<1> HIDE DEF w, e, v
<1>4. /\ w \in Nat \ {0} /\ w - 1 \in Nat /\ e \in Nat /\ e < D /\ D = w + e
    BY <1>1, <1>2, Bases, ShiftAssumption
<1>5. W \in Nat \ {0} /\ E \in Nat \ {0}
    BY <1>4, PowerIsPositive, Zenon
<1>6. B * B = W * E
    <2>1. 2 ^ (w + e) = W * E
        BY <1>4, PowerOfSum, Zenon
    <2> QED
        BY <1>4, <2>1, Bases, Zenon
<1>7. D < B * B
    <2>1. D < 2 ^ D
        BY Bases, PowerIsGreater, Zenon
    <2> QED
        BY <2>1, Bases, Zenon
<1> HIDE DEF W, E
<1>8. e \in 0 .. B * B - 1 /\ v \in 0 .. B * B - 1
    <2>1. W * 1 <= W * E
        BY <1>5, TimesMonotonic
    <2> QED
        BY <1>1, <1>4, <1>5, <1>6, <1>7, <2>1, Bases
<1> QED
    BY <1>1, <1>3, <1>4, <1>5, <1>6, <1>8, WordsAre, Zenon DEF w, e, v, W, E

LEMMA DecodeLeftKeepsIInv ==
    ASSUME IInv, NEW t \in Threads, DecodeLeft(t)
    PROVE  IInv'
<1>1. PICK x \in Operands :
        /\ Enter(t, [op |-> "left", value |-> x.Val, shift |-> ExtraBits(x)])
        /\ decoding' = [decoding EXCEPT ![t] = x]
    BY Zenon DEF DecodeLeft
<1> DEFINE req == [op |-> "left", value |-> x.Val, shift |-> ExtraBits(x)]
<1>2. x.Val \in Doublewords /\ ExtraBits(x) \in Doublewords
    BY OperandIs
<1>3. req \in RequestType
    BY <1>2 DEF RequestType
<1>4. Decodes("sw a0", req, x)
    BY DEF Decodes
<1> HIDE DEF req
<1> QED
    BY <1>1, <1>3, <1>4, EnterKeepsIInv, Zenon DEF req

LEMMA DecodeRightKeepsIInv ==
    ASSUME IInv, NEW t \in Threads, DecodeRight(t)
    PROVE  IInv'
<1> DEFINE x == decoding[t]
           old == request[t]
           req == [op |-> "right", value |-> Returned(regs), shift |-> ExtraBits(x)]
<1>1. /\ pc[t] = "returned" /\ x # None /\ old.op = "left"
      /\ Enter(t, req) /\ decoding' = decoding /\ running = t
    BY DEF DecodeRight, Enter
<1>2. /\ old \in RequestType /\ x \in Operands \cup {None}
      /\ Computed(regs, stack[t], "returned", old)
      /\ Decodes("returned", old, x)
    BY <1>1, Running, Zenon
<1> HIDE DEF x, old
<1>3. x \in Operands
    BY <1>1, <1>2
<1>4. /\ ExtraBits(x) \in Doublewords /\ ExtraBits(x) < D
    BY <1>3, OperandIs
<1>5. old.shift = ExtraBits(x) /\ old.value = x.Val
    BY <1>1, <1>2 DEF Decodes
<1>6. Returned(regs) = Result(old)
    BY <1>2, ReturnedIsResult, Zenon
<1>7. Returned(regs) = V!U64_LeftShift(x.Val, ExtraBits(x))
    BY <1>1, <1>2, <1>4, <1>5, <1>6, ResultIsAsInC
<1>8. Returned(regs) \in Doublewords
    BY <1>2, <1>6, ResultIsDoubleword
<1>9. req \in RequestType
    BY <1>4, <1>8 DEF RequestType
<1>10. Decodes("sw a0", req, x)
    BY <1>7 DEF Decodes
<1>11. decoding' = [decoding EXCEPT ![t] = x]
    <2>1. decoding \in [Threads -> Operands \cup {None}]
        BY Zenon DEF IInv, TypeInv
    <2> QED
        BY <1>1, <2>1 DEF x
<1> HIDE DEF req
<1> QED
    BY <1>1, <1>2, <1>9, <1>10, <1>11, EnterKeepsIInv, Zenon

LEMMA UseKeepsIInv ==
    ASSUME IInv, NEW t \in Threads, Use(t)
    PROVE  IInv'
<1>1. /\ running = t /\ running' = running /\ saved' = saved
      /\ pc' = [pc EXCEPT ![t] = "caller"]
      /\ decoding' = [decoding EXCEPT ![t] = None]
      /\ request' = [request EXCEPT ![t] = NoRequest]
      /\ regs' = Unused /\ stack' = [stack EXCEPT ![t] = NoFrame]
    BY DEF Use
<1>2. 0 \in Words /\ 0 \in Doublewords
    BY Bases, WordsAre
<1>3. Unused \in [Registers -> Doublewords] /\ NoFrame \in [0 .. 3 -> Words]
    BY <1>2, Zenon DEF Unused, NoFrame
<1>4. NoRequest \in RequestType
    BY <1>2 DEF NoRequest, RequestType
<1>5. Computed(regs', NoFrame, "caller", NoRequest) /\ Decodes("caller", NoRequest, None)
    BY DEF Computed, Decodes
<1>6. "caller" \in PCs /\ None \in Operands \cup {None}
    BY DEF PCs
<1> QED
    BY <1>1, <1>3, <1>4, <1>5, <1>6, LocalStep, Zenon

-----------------------------------------------------------------------------
(* The switches keep what every thread sees.                               *)

LEMMA SwitchKeepsSeen ==
    ASSUME TypeOK, NEW t \in Threads, Switch(t), NEW u \in Threads
    PROVE  Seen(u)' = Seen(u)
<1>1. /\ t # running /\ running' = t /\ regs' = saved[t]
      /\ saved' = [saved EXCEPT ![running] = regs, ![t] = Unused]
    BY DEF Switch
<1>2. saved \in [Threads -> [Registers -> Doublewords]] /\ running \in Threads
    BY Zenon DEF TypeOK
<1>3. CASE u = t
    BY <1>1, <1>3, Zenon DEF Seen
<1>4. CASE u = running
    <2>1. saved'[u] = regs
        BY <1>1, <1>2, <1>4
    <2> QED
        BY <1>1, <1>4, <2>1, Zenon DEF Seen
<1>5. CASE u # t /\ u # running
    <2>1. saved'[u] = saved[u]
        BY <1>1, <1>2, <1>5
    <2> QED
        BY <1>1, <1>5, <2>1, Zenon DEF Seen
<1> QED
    BY <1>3, <1>4, <1>5

LEMMA SwitchKeepsIInv ==
    ASSUME IInv, NEW t \in Threads, Switch(t)
    PROVE  IInv'
<1>1. /\ running' = t /\ regs' = saved[t]
      /\ saved' = [saved EXCEPT ![running] = regs, ![t] = Unused]
      /\ stack' = stack /\ pc' = pc /\ request' = request /\ decoding' = decoding
    BY DEF Switch
<1>2. TypeOK
    BY DEF IInv, TypeInv
<1>3. Unused \in [Registers -> Doublewords]
    <2>1. 0 \in Doublewords
        BY Bases, WordsAre
    <2> QED
        BY <2>1, Zenon DEF Unused
<1>4. regs' \in [Registers -> Doublewords] /\ saved' \in [Threads -> [Registers -> Doublewords]]
    <2>1. /\ saved \in [Threads -> [Registers -> Doublewords]] /\ running \in Threads
          /\ regs \in [Registers -> Doublewords]
        BY <1>2, Zenon DEF TypeOK
    <2> QED
        BY <1>1, <1>3, <2>1, Zenon
<1>5. TypeOK'
    BY <1>1, <1>2, <1>4, Zenon DEF TypeOK
<1>6. \A u \in Threads : Seen(u)' = Seen(u)
    BY <1>2, SwitchKeepsSeen
<1>7. \A u \in Threads : (/\ Computed(Seen(u), stack[u], pc[u], request[u])
                          /\ Decodes(pc[u], request[u], decoding[u]))'
    BY <1>1, <1>6, Zenon DEF IInv
<1> QED
    BY <1>1, <1>5, <1>7, Zenon DEF IInv, TypeInv

LEMMA NextKeepsIInv == IInv /\ [Next]_vars => IInv'
<1> SUFFICES ASSUME IInv, [Next]_vars PROVE IInv'
    OBVIOUS
<1>1. CASE Next
    <2>1. PICK t \in Threads : Caller(t) \/ Routine(t) \/ Switch(t)
        BY <1>1, Zenon DEF Next
    <2>2. CASE Caller(t)
        BY <2>2, CallKeepsIInv, DecodeLeftKeepsIInv, DecodeRightKeepsIInv, UseKeepsIInv, Zenon
        DEF Caller
    <2>3. CASE Routine(t)
        BY <2>3, StoreArgumentsKeepsIInv, LoadsKeepIInv, ComputeKeepsIInv, Zenon DEF Routine
    <2>4. CASE Switch(t)
        BY <2>4, SwitchKeepsIInv, Zenon
    <2> QED
        BY <2>1, <2>2, <2>3, <2>4
<1>2. CASE UNCHANGED vars
    <2>1. \A u \in Threads : Seen(u)' = Seen(u)
        BY <1>2, Zenon DEF vars, Seen
    <2>2. TypeInv'
        BY <1>2, Zenon DEF vars, IInv, TypeInv, TypeOK
    <2>3. \A u \in Threads : (/\ Computed(Seen(u), stack[u], pc[u], request[u])
                              /\ Decodes(pc[u], request[u], decoding[u]))'
        BY <1>2, <2>1, Zenon DEF vars, IInv
    <2> QED
        BY <2>2, <2>3, Zenon DEF IInv
<1> QED
    BY <1>1, <1>2

LEMMA Invariant == Spec => []IInv
BY InitIInv, NextKeepsIInv, PTL DEF Spec

-----------------------------------------------------------------------------
(* The theorems.                                                           *)

\* Registers, contexts and stored words keep their widths, and every request is
\* one of two doublewords.
THEOREM TypeCorrect == Spec => []TypeOK
<1>1. IInv => TypeOK
    BY DEF IInv, TypeInv
<1> QED
    BY <1>1, Invariant, PTL

\* U64_LeftShift and U64_RightShift return what their comments say, wherever
\* their threads are preempted.
THEOREM ReturnsTheShift == Spec => []ShiftsAsInC
<1>1. IInv => ShiftsAsInC
    <2> SUFFICES ASSUME IInv, NEW t \in Threads, pc[t] = "returned", request[t].shift < D
                 PROVE  Returned(Seen(t)) =
                            IF request[t].op = "left"
                            THEN V!U64_LeftShift(request[t].value, request[t].shift)
                            ELSE V!Unsigned(V!U64_RightShift(request[t].value, request[t].shift), D)
        BY Zenon DEF ShiftsAsInC
    <2>1. request[t] \in RequestType
        BY Zenon DEF IInv, TypeInv
    <2>2. Computed(Seen(t), stack[t], "returned", request[t])
        BY Zenon DEF IInv
    <2>3. Returned(Seen(t)) = Result(request[t])
        BY <2>1, <2>2, ReturnedIsResult, Zenon
    <2> QED
        BY <2>1, <2>3, ResultIsAsInC, Zenon
<1> QED
    BY <1>1, Invariant, PTL

\* The caller can use v0 and v1 in 32-bit instructions: both come back
\* sign-extended.
THEOREM ReturnsSignExtended == Spec => []ReturnsWords
<1>1. IInv => ReturnsWords
    <2> SUFFICES ASSUME IInv, NEW t \in Threads, pc[t] = "returned"
                 PROVE  /\ Seen(t)["v0"] = SignExtended(Lo(Seen(t)["v0"]))
                        /\ Seen(t)["v1"] = SignExtended(Lo(Seen(t)["v1"]))
        BY Zenon DEF ReturnsWords
    <2> DEFINE x == Result(request[t])
               r == Seen(t)
    <2>1. request[t] \in RequestType /\ Computed(r, stack[t], "returned", request[t])
        BY Zenon DEF IInv, TypeInv
    <2>2. Hi(x) \in Words /\ Lo(x) \in Words
        BY <2>1, ResultIsDoubleword, JoinOfHalves
    <2>3. r["v0"] = SignExtended(Hi(x)) /\ r["v1"] = SignExtended(Lo(x))
        BY <2>1 DEF Computed
    <2> HIDE DEF x, r
    <2>4. Lo(SignExtended(Hi(x))) = Hi(x) /\ Lo(SignExtended(Lo(x))) = Lo(x)
        BY <2>2, SignExtendedIs
    <2> QED
        BY <2>3, <2>4, Zenon DEF r
<1> QED
    BY <1>1, Invariant, PTL

LEMMA SignedOfUnsigned ==
    ASSUME NEW s \in Int, -(H * B) <= s, s < H * B
    PROVE  V!Signed(V!Unsigned(s, D), D) = s
<1> DEFINE m == B * B
           h == H * B
           u == V!Unsigned(s, D)
<1>1. h \in Nat \ {0} /\ m \in Nat \ {0} /\ m = 2 * h
    BY Bases
<1>2. u = s % m /\ V!Signed(u, D) = IF u >= h THEN u - m ELSE u
    BY SignedIs, Zenon
<1> HIDE DEF h, m, u
<1>3. CASE s >= 0
    <2>1. s \in 0 .. m - 1 /\ s = m * 0 + s
        BY <1>1, <1>3 DEF h
    <2>2. u = s
        <3>1. s % m = s
            BY <1>1, <2>1, DivisionIs
        <3> QED
            BY <1>2, <3>1
    <2>3. ~(s >= h)
        BY <1>1 DEF h
    <2> QED
        BY <1>2, <2>2, <2>3 DEF u
<1>4. CASE ~(s >= 0)
    <2>1. s + m \in 0 .. m - 1 /\ s = m * (-1) + (s + m)
        BY <1>1, <1>4 DEF h
    <2>2. u = s + m
        <3>1. s % m = s + m
            BY <1>1, <2>1, DivisionIs
        <3> QED
            BY <1>2, <3>1
    <2>3. s + m >= h
        BY <1>1 DEF h
    <2>4. (s + m) - m = s
        BY <1>1
    <2> QED
        BY <1>2, <2>2, <2>3, <2>4 DEF u
<1> QED
    BY <1>3, <1>4

\* Shifted left and right again, an operand is the number it had.
LEMMA ShiftedBack ==
    ASSUME NEW x \in Operands
    PROVE  LET y == V!U64_LeftShift(x.Val, ExtraBits(x))
           IN  V!Signed(V!Unsigned(V!U64_RightShift(y, ExtraBits(x)), D), D)
                   = V!Signed(x.Val, x.width)
<1> DEFINE e == ExtraBits(x)
           v == x.Val
           E == 2 ^ e
           W == 2 ^ x.width
           S == 2 ^ (x.width - 1)
           y == V!U64_LeftShift(v, e)
           s == V!Signed(v, x.width)
<1>1. /\ x.width - 1 \in Nat /\ e \in Nat
      /\ v \in 0 .. W - 1 /\ W \in Nat \ {0} /\ E \in Nat \ {0}
      /\ B * B = W * E /\ D = x.width + e /\ x.width \in Nat
    BY OperandIs, Zenon
<1>2. S \in Nat \ {0} /\ W = 2 * S
    <2>1. x.width = (x.width - 1) + 1
        BY <1>1
    <2>2. 2 ^ ((x.width - 1) + 1) = 2 * 2 ^ (x.width - 1)
        BY <1>1, PowerOfNext, Zenon
    <2> QED
        BY <1>1, <2>1, <2>2, PowerIsPositive, Zenon
<1>3. H * B = S * E
    <2>1. D - 1 = (x.width - 1) + e
        BY <1>1
    <2>2. 2 ^ ((x.width - 1) + e) = S * E
        BY <1>1, PowerOfSum, Zenon
    <2> QED
        BY <2>1, <2>2, Bases, Zenon
<1>4. V!MaxBits = D
    BY DEF V!MaxBits, D
<1>5. /\ y = (v * E) % (B * B)
      /\ V!U64_RightShift(y, e) = (IF y >= H * B THEN y - B * B ELSE y) \div E
      /\ s = IF v >= S THEN v - W ELSE v
    <2>1. y = (v * E) % (B * B)
        BY <1>4, SignedIs, Zenon DEF V!U64_LeftShift
    <2>2. V!U64_RightShift(y, e) = (IF y >= H * B THEN y - B * B ELSE y) \div E
        BY <1>4, SignedIs, Zenon DEF V!U64_RightShift
    <2>3. s = IF v >= S THEN v - W ELSE v
        BY Zenon DEF V!Signed
    <2> QED
        BY <2>1, <2>2, <2>3
<1> HIDE DEF e, v, E, W, S, y, s
<1>6. y = v * E
    <2>1. E * 0 <= E * v /\ E * v <= E * (W - 1)
        BY <1>1, TimesMonotonic
    <2>2. E * (W - 1) = W * E - E
        BY <1>1
    <2>3. v * E \in 0 .. B * B - 1 /\ v * E = (B * B) * 0 + v * E /\ B * B \in Nat \ {0}
        BY <1>1, <2>1, <2>2, Bases
    <2>4. v * E \in Int
        BY <2>3
    <2> QED
        BY <1>5, <2>3, <2>4, DivisionIs
<1>7. V!U64_RightShift(y, e) = s /\ s \in Int /\ -(H * B) <= s /\ s < H * B
    <2>1. S * 1 <= S * E
        BY <1>1, <1>2, TimesMonotonic
    <2>2. CASE v >= S
        <3>1. E * S <= E * v
            BY <1>1, <1>2, <2>2, TimesMonotonic
        <3>2. y >= H * B
            BY <1>1, <1>2, <1>3, <1>6, <3>1
        <3>3. s = v - W /\ s \in Int
            BY <1>1, <1>5, <2>2
        <3>4. y - B * B = E * s + 0 /\ y - B * B \in Int /\ 0 \in 0 .. E - 1
            BY <1>1, <1>6, <3>3
        <3>5. (y - B * B) \div E = s
            BY <1>1, <3>3, <3>4, DivisionIs
        <3>6. -(H * B) <= s /\ s < H * B
            BY <1>1, <1>2, <1>3, <2>1, <2>2, <3>3
        <3> QED
            BY <1>5, <3>2, <3>3, <3>5, <3>6
    <2>3. CASE ~(v >= S)
        <3>1. E * v <= E * (S - 1)
            BY <1>1, <1>2, <2>3, TimesMonotonic
        <3>2. E * (S - 1) = S * E - E
            BY <1>1, <1>2
        <3>3. ~(y >= H * B)
            BY <1>1, <1>2, <1>3, <1>6, <3>1, <3>2
        <3>4. s = v /\ s \in Int
            BY <1>1, <1>5, <2>3
        <3>5. y = E * s + 0 /\ y \in Int /\ 0 \in 0 .. E - 1
            BY <1>1, <1>6, <3>4
        <3>6. y \div E = s
            BY <1>1, <3>4, <3>5, DivisionIs
        <3>7. -(H * B) <= s /\ s < H * B
            BY <1>1, <1>2, <1>3, <2>1, <2>3, <3>4
        <3> QED
            BY <1>5, <3>3, <3>4, <3>6, <3>7
    <2> QED
        BY <2>2, <2>3
<1>8. V!Signed(V!Unsigned(V!U64_RightShift(y, e), D), D) = s
    BY <1>7, SignedOfUnsigned
<1> QED
    BY <1>8, Zenon DEF y, e, s, v

\* getSIntValue decodes a narrow operand to the number it had in the program,
\* for every width of an operand no wider than a word.
THEOREM DecodesOperands == Spec => []SignExtends
<1>1. IInv => SignExtends
    <2> SUFFICES ASSUME IInv, NEW t \in Threads,
                        pc[t] = "returned", decoding[t] # None, request[t].op = "right"
                 PROVE  V!Signed(Returned(Seen(t)), D) = V!Signed(decoding[t].Val, decoding[t].width)
        BY Zenon DEF SignExtends
    <2> DEFINE x == decoding[t]
               req == request[t]
    <2>1. /\ req \in RequestType /\ x \in Operands \cup {None}
          /\ Computed(Seen(t), stack[t], "returned", req)
          /\ Decodes("returned", req, x)
        BY Zenon DEF IInv, TypeInv
    <2>2. x \in Operands
        BY <2>1
    <2>3. Returned(Seen(t)) = Result(req)
        BY <2>1, ReturnedIsResult, Zenon
    <2> HIDE DEF x, req
    <2>4. req.shift = ExtraBits(x) /\ req.value = V!U64_LeftShift(x.Val, ExtraBits(x))
        BY <2>1 DEF Decodes, x, req
    <2>5. req.shift < D
        BY <2>2, <2>4, OperandIs
    <2>6. Result(req) = V!Unsigned(V!U64_RightShift(req.value, req.shift), D)
        BY <2>1, <2>5, ResultIsAsInC DEF req
    <2> QED
        BY <2>2, <2>3, <2>4, <2>6, ShiftedBack, Zenon DEF x
<1> QED
    BY <1>1, Invariant, PTL

-----------------------------------------------------------------------------
(* O32Calls follows the routines.                                          *)

\* Whatever a behaviour follows, its shifts are a behaviour of U64Shift, so that
\* what is proved there holds in every run of O32Calls.
THEOREM FollowsU64Shift == AllSpec => Spec
<1>1. AllInit => Init
    BY DEF AllInit
<1>2. [AllNext]_allVars => [Next]_vars
    <2>1. CASE EveryShift
        BY <2>1, Zenon DEF EveryShift, Next, Caller
    <2>2. CASE Preempted
        BY <2>2, Zenon DEF Preempted, Next, Caller
    <2>3. CASE PassArguments
        BY <2>3, Zenon DEF PassArguments
    <2>4. CASE UNCHANGED allVars
        BY <2>4, Zenon DEF allVars
    <2> QED
        BY <2>1, <2>2, <2>3, <2>4, Zenon DEF AllNext
<1> QED
    BY <1>1, <1>2, PTL DEF AllSpec, Spec

-----------------------------------------------------------------------------
(* The two sides of a call.                                                *)

\* What a caller puts, and what a conversion may take.
Modes == {"word", "string", "u64", "s64", "f64"}
ReadModes == Modes \cup {"none"}

\* Where the first argument after k of them starts to be put.
After(k) == IF k = 0 THEN call.fixed ELSE places[k].at + Arguments!SizeOf(places[k].mode)

\* Each argument was put after the one before it.
Placed ==
    /\ call \in Calls \cup {Arguments!NoCall}
    /\ places \in Seq([at : Nat, mode : Modes])
    /\ Len(places) <= Len(call.args)
    /\ \A k \in 1 .. Len(places) :
          /\ places[k].mode = call.args[k]
          /\ places[k].at = Arguments!Place(After(k - 1), places[k].mode)
    /\ free = After(Len(places))

\* The conversions walk after the arguments, as long as they fit them.
Walked ==
    /\ list \in Nat
    /\ reads \in Seq([at : Nat, mode : ReadModes])
    /\ Len(reads) <= Len(call.conversions)
    /\ reads # <<>> => Len(places) = Len(call.args)
    /\ (\A j \in 1 .. Len(reads) : Arguments!Fits(call, j)) => list = After(Len(reads))

ArgumentsInv == Placed /\ Walked /\ ReadsItsArgument

LEMMA SizeOfMode ==
    /\ \A mode \in Modes : Arguments!SizeOf(mode) \in {1, 2}
    /\ \A mode \in ReadModes : Arguments!SizeOf(mode) \in {0, 1, 2}
<1>1. /\ Arguments!SizeOf("none") = 0
      /\ Arguments!SizeOf("word") = 1 /\ Arguments!SizeOf("string") = 1
      /\ Arguments!SizeOf("u64") = 2 /\ Arguments!SizeOf("s64") = 2 /\ Arguments!SizeOf("f64") = 2
    BY DEF Arguments!SizeOf
<1> QED
    BY <1>1 DEF Modes, ReadModes

\* va_arg aligns the list to where the caller put the argument.
LEMMA AlignedAsPlaced ==
    ASSUME NEW p \in Nat, NEW mode \in Modes
    PROVE  /\ Arguments!_VA_ALIGN(p, Arguments!SizeOf(mode)) = Arguments!Place(p, mode)
           /\ Arguments!Place(p, mode) \in Nat
<1>1. CASE Arguments!SizeOf(mode) = 1
    <2>1. Arguments!_VA_ALIGN(p, 1) = p
        BY DEF Arguments!_VA_ALIGN
    <2> QED
        BY <1>1, <2>1 DEF Arguments!Place
<1>2. CASE Arguments!SizeOf(mode) = 2
    <2>1. Arguments!_VA_ALIGN(p, 2) = IF p % 2 = 1 THEN p + 1 ELSE p
        BY DEF Arguments!_VA_ALIGN
    <2> QED
        BY <1>2, <2>1 DEF Arguments!Place
<1> QED
    BY <1>1, <1>2, SizeOfMode

LEMMA AlignIsNat ==
    ASSUME NEW p \in Nat, NEW mode \in ReadModes
    PROVE  Arguments!_VA_ALIGN(p, Arguments!SizeOf(mode)) \in Nat
<1>1. CASE mode \in Modes
    BY <1>1, AlignedAsPlaced
<1>2. CASE mode = "none"
    <2>1. Arguments!SizeOf("none") = 0
        BY DEF Arguments!SizeOf
    <2>2. Arguments!_VA_ALIGN(p, 0) = p
        BY DEF Arguments!_VA_ALIGN
    <2> QED
        BY <1>2, <2>1, <2>2
<1> QED
    BY <1>1, <1>2 DEF ReadModes

LEMMA ModeIsReadMode ==
    ASSUME NEW c \in {"%i", "%d", "%u", "%X", "%lu", "%li", "%s", "%f", "%zx"}
    PROVE  Arguments!Mode(c) \subseteq ReadModes
<1>1. /\ \A d \in {"%i", "%d", "%u", "%X", "%lu", "%li"} : Arguments!Mode(d) = {"word"}
      /\ Arguments!Mode("%s") = {"string"} /\ Arguments!Mode("%f") = {"f64"}
      /\ Arguments!Mode("%zx") = {"none", "word", "u64"}
    BY DEF Arguments!Mode
<1> QED
    BY <1>1 DEF ReadModes, Modes

\* A call passes as many arguments as its format has conversions.
LEMMA CallIs ==
    ASSUME NEW c \in Calls \cup {Arguments!NoCall}
    PROVE  /\ c.fixed \in Nat
           /\ c.args \in Seq(Modes) /\ Len(c.args) \in Nat
           /\ c.conversions
                \in Seq({"%i", "%d", "%u", "%X", "%lu", "%li", "%s", "%f", "%zx"})
           /\ Len(c.conversions) = Len(c.args)
<1>1. CASE c \in Calls
    BY <1>1, CallsAssumption, LenProperties, Zenon DEF Modes
<1>2. CASE c = Arguments!NoCall
    <2>1. c.fixed = 0 /\ c.args = <<>> /\ c.conversions = <<>>
        BY <1>2 DEF Arguments!NoCall
    <2> QED
        BY <2>1, EmptySeq, LenProperties
<1> QED
    BY <1>1, <1>2

LEMMA InitArguments == Arguments!Init => ArgumentsInv
<1> SUFFICES ASSUME Arguments!Init PROVE ArgumentsInv
    OBVIOUS
<1>1. /\ call = Arguments!NoCall /\ places = <<>> /\ free = 0 /\ list = 0 /\ reads = <<>>
    BY DEF Arguments!Init
<1>2. call.fixed = 0 /\ call.args = <<>> /\ call.conversions = <<>>
    BY <1>1 DEF Arguments!NoCall
<1>3. Placed
    BY <1>1, <1>2, EmptySeq DEF Placed, After
<1>4. Walked
    BY <1>1, <1>2, EmptySeq DEF Walked, After
<1>5. ReadsItsArgument
    BY <1>1 DEF ReadsItsArgument, Arguments!ReadsItsArgument
<1> QED
    BY <1>3, <1>4, <1>5 DEF ArgumentsInv

LEMMA NextCallKeeps == ArgumentsInv /\ Arguments!NextCall => ArgumentsInv'
<1> SUFFICES ASSUME ArgumentsInv, Arguments!NextCall PROVE ArgumentsInv'
    OBVIOUS
<1>1. /\ call' \in Calls /\ places' = <<>> /\ free' = call'.fixed
      /\ list' = call'.fixed /\ reads' = <<>>
    BY DEF Arguments!NextCall
<1>2. call' \in Calls \cup {Arguments!NoCall}
    BY <1>1
<1>3. /\ call'.fixed \in Nat /\ Len(call'.args) \in Nat
      /\ Len(call'.conversions) = Len(call'.args)
    BY <1>2, CallIs, Zenon
<1>4. Placed'
    BY <1>1, <1>2, <1>3, EmptySeq DEF Placed, After
<1>5. Walked'
    BY <1>1, <1>3, EmptySeq DEF Walked, After
<1>6. ReadsItsArgument'
    BY <1>1 DEF ReadsItsArgument, Arguments!ReadsItsArgument
<1> QED
    BY <1>4, <1>5, <1>6 DEF ArgumentsInv

LEMMA PutArgumentKeeps == ArgumentsInv /\ Arguments!PutArgument => ArgumentsInv'
<1> SUFFICES ASSUME ArgumentsInv, Arguments!PutArgument PROVE ArgumentsInv'
    OBVIOUS
<1>0. PICK n : n = Len(places)
    OBVIOUS
<1> DEFINE mode == call.args[n + 1]
           place == Arguments!Place(free, mode)
           p == [at |-> place, mode |-> mode]
           P == [at : Nat, mode : Modes]
<1>1. /\ n < Len(call.args)
      /\ places' = Append(places, p) /\ free' = place + Arguments!SizeOf(mode)
      /\ call' = call /\ list' = list /\ reads' = reads
    BY <1>0 DEF Arguments!PutArgument
<1>2. Placed /\ Walked
    BY DEF ArgumentsInv
<1>3. /\ call \in Calls \cup {Arguments!NoCall} /\ places \in Seq(P) /\ n \in Nat
      /\ call.args \in Seq(Modes) /\ Len(call.args) \in Nat /\ call.fixed \in Nat
    <2>1. call \in Calls \cup {Arguments!NoCall} /\ places \in Seq(P)
        BY <1>2 DEF Placed
    <2> QED
        BY <1>0, <2>1, CallIs, LenProperties, Zenon
<1>4. mode \in Modes
    <2>1. n + 1 \in 1 .. Len(call.args)
        BY <1>1, <1>3
    <2> QED
        BY <1>3, <2>1, ElementOfSeq
<1>5. free \in Nat /\ free = After(n)
    <2>1. free = After(n)
        BY <1>0, <1>2 DEF Placed
    <2>2. CASE n = 0
        BY <1>3, <2>1, <2>2 DEF After
    <2>3. CASE n # 0
        <3>1. n \in 1 .. n
            BY <1>3, <2>3
        <3>2. places[n] \in P
            BY <1>0, <1>3, <3>1, ElementOfSeq
        <3>3. places[n].at \in Nat /\ Arguments!SizeOf(places[n].mode) \in Nat
            BY <3>2, SizeOfMode
        <3> QED
            BY <2>1, <2>3, <3>3 DEF After
    <2> QED
        BY <2>2, <2>3
<1>6. place \in Nat /\ p \in P
    <2>1. place \in Nat
        BY <1>4, <1>5, AlignedAsPlaced
    <2> QED
        BY <1>4, <2>1
<1> HIDE DEF mode, p, P
<1>7. /\ places' \in Seq(P) /\ Len(places') = n + 1
      /\ \A k \in 1 .. n : places'[k] = places[k]
      /\ places'[n + 1] = p
    BY <1>0, <1>1, <1>3, <1>6, AppendProperties
<1>8. p.at = place /\ p.mode = mode
    BY DEF p
<1> HIDE DEF place
<1>9. \A k \in 0 .. n : After(k)' = After(k)
    BY <1>1, <1>3, <1>7 DEF After
<1>10. After(n + 1)' = place + Arguments!SizeOf(mode)
    <2>1. n + 1 # 0
        BY <1>3
    <2>2. After(n + 1)' = places'[n + 1].at + Arguments!SizeOf(places'[n + 1].mode)
        BY <2>1 DEF After
    <2> QED
        BY <1>7, <1>8, <2>2
<1>11. ASSUME NEW k \in 1 .. n + 1
       PROVE  /\ places'[k].mode = call.args[k]
              /\ places'[k].at = Arguments!Place(After(k - 1)', places'[k].mode)
    <2>1. CASE k \in 1 .. n
        <3>1. k - 1 \in 0 .. n
            BY <1>3, <2>1
        <3>2. /\ places[k].mode = call.args[k]
              /\ places[k].at = Arguments!Place(After(k - 1), places[k].mode)
            BY <1>0, <1>2, <2>1 DEF Placed
        <3> QED
            BY <1>7, <1>9, <2>1, <3>1, <3>2
    <2>2. CASE k = n + 1
        <3>1. k - 1 = n /\ n \in 0 .. n
            BY <1>3, <2>2
        <3>2. After(k - 1)' = free
            BY <1>5, <1>9, <3>1
        <3> QED
            BY <1>7, <1>8, <2>2, <3>2 DEF place, mode
    <2> QED
        BY <1>3, <2>1, <2>2
<1>12. Placed'
    <2>1. n + 1 <= Len(call.args)
        BY <1>1, <1>3
    <2>2. free' = After(n + 1)'
        BY <1>1, <1>10
    <2>3. \A k \in 1 .. Len(places') :
            /\ places'[k].mode = call'.args[k]
            /\ places'[k].at = Arguments!Place(After(k - 1)', places'[k].mode)
        BY <1>1, <1>7, <1>11, Zenon
    <2> QED
        BY <1>1, <1>3, <1>7, <2>1, <2>2, <2>3, Zenon DEF Placed, P
<1>13. reads = <<>>
    BY <1>0, <1>1, <1>2, <1>3 DEF Walked
<1>14. Walked'
    <2>1. Len(reads) = 0 /\ 1 .. Len(reads) = {}
        BY <1>13
    <2>2. 0 \in 0 .. n
        BY <1>3
    <2>3. list = After(0)
        BY <1>2, <2>1 DEF Walked
    <2>4. list = After(0)'
        BY <1>9, <2>2, <2>3
    <2> QED
        BY <1>1, <1>2, <1>13, <2>1, <2>4 DEF Walked
<1>15. ReadsItsArgument'
    BY <1>1, <1>13 DEF ReadsItsArgument, Arguments!ReadsItsArgument
<1> QED
    BY <1>12, <1>14, <1>15 DEF ArgumentsInv

LEMMA ConvertKeeps == ArgumentsInv /\ Arguments!Convert => ArgumentsInv'
<1> SUFFICES ASSUME ArgumentsInv, Arguments!Convert PROVE ArgumentsInv'
    OBVIOUS
<1> DEFINE n == Len(reads)
           m == n + 1
           R == [at : Nat, mode : ReadModes]
<1>1. Placed /\ Walked /\ ReadsItsArgument
    BY DEF ArgumentsInv
<1>2. PICK mode \in Arguments!Mode(call.conversions[m]) : Arguments!va_arg(mode)
    BY DEF Arguments!Convert
<1> DEFINE size == Arguments!SizeOf(mode)
           place == Arguments!_VA_ALIGN(list, size)
           r == [at |-> place, mode |-> mode]
<1>3. /\ Len(places) = Len(call.args) /\ n < Len(call.conversions)
      /\ call' = call /\ places' = places /\ free' = free
    BY DEF Arguments!Convert
<1>4. /\ reads \in Seq(R) /\ n \in Nat /\ list \in Nat
      /\ call \in Calls \cup {Arguments!NoCall}
      /\ places \in Seq([at : Nat, mode : Modes])
      /\ Len(call.conversions) = Len(call.args) /\ Len(call.args) \in Nat
    <2>1. /\ reads \in Seq(R) /\ list \in Nat /\ call \in Calls \cup {Arguments!NoCall}
          /\ places \in Seq([at : Nat, mode : Modes])
        BY <1>1 DEF Placed, Walked
    <2> QED
        BY <2>1, CallIs, LenProperties, Zenon
<1>5. m \in 1 .. Len(places) /\ m \in 1 .. Len(call.conversions) /\ m - 1 = n
    BY <1>3, <1>4
<1>6. mode \in ReadModes
    <2>1. call.conversions[m] \in {"%i", "%d", "%u", "%X", "%lu", "%li", "%s", "%f", "%zx"}
        BY <1>4, <1>5, CallIs, ElementOfSeq
    <2> QED
        BY <2>1, ModeIsReadMode
<1>7. size \in Nat /\ place \in Nat
    <2>1. size \in {0, 1, 2}
        BY <1>6, SizeOfMode, Zenon
    <2>2. place \in Nat
        BY <1>4, <1>6, AlignIsNat, Zenon
    <2> QED
        BY <2>1, <2>2
<1>8. list' = place + size /\ reads' = Append(reads, r)
    <2>1. list' = place + size /\ reads' = Append(reads, [at |-> list' - size, mode |-> mode])
        BY <1>2 DEF Arguments!va_arg
    <2>2. list' - size = place
        BY <1>7, <2>1
    <2> QED
        BY <2>1, <2>2
<1>9. r \in R
    BY <1>6, <1>7
<1> HIDE DEF size, place, r, R, n
<1>10. /\ reads' \in Seq(R) /\ Len(reads') = m
       /\ \A k \in 1 .. n : reads'[k] = reads[k]
       /\ reads'[m] = r
    BY <1>4, <1>8, <1>9, AppendProperties DEF n
<1>11. \A k : After(k)' = After(k)
    BY <1>3, Zenon DEF After
<1>12. Placed'
    BY <1>1, <1>3, <1>11, Zenon DEF Placed
\* A conversion that fits, after others that fit, reads what the caller put.
<1>13. ASSUME \A j \in 1 .. m : Arguments!Fits(call, j)
       PROVE  r = places[m] /\ place + size = After(m)
    <2>1. Arguments!Fits(call, m) /\ \A j \in 1 .. n : Arguments!Fits(call, j)
        BY <1>4, <1>13
    <2>2. list = After(n)
        BY <1>1, <2>1 DEF Walked, n
    <2>3. mode = call.args[m]
        BY <1>2, <2>1 DEF Arguments!Fits
    <2>4. places[m] \in [at : Nat, mode : Modes]
        BY <1>4, <1>5, ElementOfSeq
    <2>5. /\ places[m].mode = mode
          /\ places[m].at = Arguments!Place(After(n), mode)
        BY <1>1, <1>5, <2>3 DEF Placed
    <2>6. mode \in Modes
        BY <2>4, <2>5
    <2>7. place = places[m].at
        BY <1>4, <2>2, <2>5, <2>6, AlignedAsPlaced DEF place, size
    <2>8. r = places[m]
        BY <2>4, <2>5, <2>7 DEF r
    <2>9. After(m) = places[m].at + Arguments!SizeOf(places[m].mode)
        BY <1>5 DEF After
    <2> QED
        BY <2>5, <2>7, <2>8, <2>9 DEF size
<1>14. Walked'
    <2>1. list' \in Nat
        BY <1>7, <1>8
    <2>2. m <= Len(call.conversions)
        BY <1>5
    <2>3. (\A j \in 1 .. m : Arguments!Fits(call, j)) => list' = After(m)
        BY <1>8, <1>13
    <2> QED
        BY <1>3, <1>10, <1>11, <2>1, <2>2, <2>3, Zenon DEF Walked, R
<1>15. ReadsItsArgument'
    <2> SUFFICES ASSUME NEW k \in DOMAIN reads', \A j \in 1 .. k : Arguments!Fits(call, j)
                 PROVE  reads'[k] = places[k]
        BY <1>3, Zenon DEF ReadsItsArgument, Arguments!ReadsItsArgument
    <2>1. k \in 1 .. m
        BY <1>10, LenProperties
    <2>2. CASE k = m
        BY <1>10, <1>13, <2>2
    <2>3. CASE k \in 1 .. n
        <3>1. k \in DOMAIN reads
            BY <1>4, <2>3, LenProperties DEF n
        <3>2. reads[k] = places[k]
            BY <1>1, <3>1, Zenon DEF ReadsItsArgument, Arguments!ReadsItsArgument
        <3> QED
            BY <1>10, <2>3, <3>2
    <2> QED
        BY <1>4, <2>1, <2>2, <2>3
<1> QED
    BY <1>12, <1>14, <1>15 DEF ArgumentsInv

LEMMA ArgumentsInvariant == AllSpec => []ArgumentsInv
<1>1. AllInit => ArgumentsInv
    BY InitArguments, Zenon DEF AllInit
<1>2. ArgumentsInv /\ [AllNext]_allVars => ArgumentsInv'
    <2> SUFFICES ASSUME ArgumentsInv, [AllNext]_allVars PROVE ArgumentsInv'
        OBVIOUS
    <2>1. CASE UNCHANGED argumentVars
        BY <2>1, Zenon DEF argumentVars, ArgumentsInv, Placed, Walked, After,
                           ReadsItsArgument, Arguments!ReadsItsArgument
    <2>2. CASE PassArguments
        BY <2>2, PutArgumentKeeps, ConvertKeeps, NextCallKeeps, Zenon
        DEF PassArguments, Arguments!Next
    <2> QED
        BY <2>1, <2>2, Zenon DEF AllNext, EveryShift, Preempted, allVars
<1> QED
    BY <1>1, <1>2, PTL DEF AllSpec

\* For every set of calls with a conversion for each argument, a conversion
\* reads its own argument unless it or one before it does not fit: the argument
\* list of va_arg keeps step with the caller through every alignment.
THEOREM ArgumentsArrive == AllSpec => []ReadsItsArgument
<1>1. ArgumentsInv => ReadsItsArgument
    BY DEF ArgumentsInv
<1> QED
    BY <1>1, ArgumentsInvariant, PTL
=============================================================================
