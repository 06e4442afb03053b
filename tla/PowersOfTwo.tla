---------------------------- MODULE PowersOfTwo ----------------------------
(***************************************************************************)
(* Lemmas about the powers of two, the quotients and remainders that words *)
(* are made of, sums over sets, and a number's binary digits.  The provers *)
(* take ^ and the folds of FiniteSetsExt for any functions, so what is     *)
(* known of them comes from counting: a set of n elements has 2 ^ n        *)
(* subsets, and a sum of numbers is the number of units they have.         *)
(***************************************************************************)
EXTENDS FiniteSetsExt, FiniteSetTheorems, FunctionTheorems, WellFoundedInduction, TLAPS

\* The subsets of 1 .. n are counted by 2 ^ n.
LEMMA SubsetsOfInterval ==
    ASSUME NEW a \in Int, NEW b \in Int, a <= b + 1
    PROVE  /\ IsFiniteSet(SUBSET (a .. b))
           /\ Cardinality(SUBSET (a .. b)) = 2 ^ (b - a + 1)
<1>1. IsFiniteSet(a .. b) /\ Cardinality(a .. b) = b - a + 1
    <2>1. IsFiniteSet(a .. b) /\ Cardinality(a .. b) = IF a > b THEN 0 ELSE b - a + 1
        BY FS_Interval
    <2> QED
        BY <2>1
<1>2. Cardinality(SUBSET (a .. b)) = 2 ^ Cardinality(a .. b)
    BY <1>1, FS_SUBSET, Zenon
<1> QED
    BY <1>1, <1>2, FS_SUBSET, Zenon

LEMMA PowerIsPositive ==
    ASSUME NEW n \in Nat
    PROVE  2 ^ n \in Nat \ {0}
<1> DEFINE S == SUBSET (1 .. n)
<1>1. IsFiniteSet(S) /\ Cardinality(S) = 2 ^ (n - 1 + 1)
    <2>1. 1 \in Int /\ n \in Int /\ 1 <= n + 1
        OBVIOUS
    <2> QED
        BY <2>1, SubsetsOfInterval, Zenon
<1>2. n - 1 + 1 = n
    OBVIOUS
<1>3. S # {}
    OBVIOUS
<1> HIDE DEF S
<1>4. Cardinality(S) \in Nat \ {0}
    BY <1>1, <1>3, FS_CardinalityType, FS_EmptySet
<1> QED
    BY <1>1, <1>2, <1>4, Zenon

\* A subset of 1 .. a+b is one of 1 .. a and one of a+1 .. a+b.
LEMMA PowerOfSum ==
    ASSUME NEW a \in Nat, NEW b \in Nat
    PROVE  2 ^ (a + b) = 2 ^ a * 2 ^ b
<1> DEFINE A == 1 .. a
           B == a + 1 .. a + b
           C == 1 .. a + b
           P == (SUBSET A) \X (SUBSET B)
           f == [s \in SUBSET C |-> <<s \cap A, s \cap B>>]
<1>1. A \cup B = C /\ A \cap B = {}
    OBVIOUS
<1>2. /\ IsFiniteSet(SUBSET A) /\ Cardinality(SUBSET A) = 2 ^ a
      /\ IsFiniteSet(SUBSET B) /\ Cardinality(SUBSET B) = 2 ^ b
      /\ IsFiniteSet(SUBSET C) /\ Cardinality(SUBSET C) = 2 ^ (a + b)
    <2>1. a - 1 + 1 = a /\ (a + b) - (a + 1) + 1 = b /\ (a + b) - 1 + 1 = a + b
        OBVIOUS
    <2>2. 1 \in Int /\ a \in Int /\ a + 1 \in Int /\ a + b \in Int
          /\ 1 <= a + 1 /\ a + 1 <= (a + b) + 1 /\ 1 <= (a + b) + 1
        OBVIOUS
    <2>3. IsFiniteSet(SUBSET A) /\ Cardinality(SUBSET A) = 2 ^ (a - 1 + 1)
        BY <2>2, SubsetsOfInterval, Zenon
    <2>4. IsFiniteSet(SUBSET B) /\ Cardinality(SUBSET B) = 2 ^ ((a + b) - (a + 1) + 1)
        BY <2>2, SubsetsOfInterval, Zenon
    <2>5. IsFiniteSet(SUBSET C) /\ Cardinality(SUBSET C) = 2 ^ ((a + b) - 1 + 1)
        BY <2>2, SubsetsOfInterval, Zenon
    <2> QED
        BY <2>1, <2>3, <2>4, <2>5, Zenon
<1> HIDE DEF A, B, C
<1>3. f \in Bijection(SUBSET C, P)
    <2>1. f \in [SUBSET C -> P]
        OBVIOUS
    <2>2. ASSUME NEW s \in SUBSET C, NEW u \in SUBSET C, f[s] = f[u] PROVE s = u
        <3>1. s \cap A = u \cap A /\ s \cap B = u \cap B
            BY <2>2
        <3> QED
            BY <1>1, <3>1
    <2>3. ASSUME NEW p \in P PROVE \E s \in SUBSET C : f[s] = p
        <3>1. PICK s1 \in SUBSET A, s2 \in SUBSET B : p = <<s1, s2>>
            OBVIOUS
        <3>2. (s1 \cup s2) \cap A = s1 /\ (s1 \cup s2) \cap B = s2 /\ s1 \cup s2 \in SUBSET C
            BY <1>1
        <3>3. f[s1 \cup s2] = p
            BY <3>1, <3>2
        <3> QED
            BY <3>2, <3>3
    <2> QED
        BY <2>1, <2>2, <2>3, Fun_IsBij
<1>4. Cardinality(P) = 2 ^ (a + b)
    <2> HIDE DEF f, P
    <2>1. ExistsBijection(SUBSET C, P)
        BY <1>3 DEF ExistsBijection
    <2> QED
        BY <1>2, <2>1, FS_Bijection, Zenon
<1>5. Cardinality(P) = Cardinality(SUBSET A) * Cardinality(SUBSET B)
    BY <1>2, FS_Product, Zenon
<1> QED
    BY <1>2, <1>4, <1>5, Zenon

\* The elements of 1 .. n are as many singletons, and there is the empty set.
LEMMA PowerIsGreater ==
    ASSUME NEW n \in Nat
    PROVE  n < 2 ^ n
<1> DEFINE S == 1 .. n
           T == SUBSET S
           f == [k \in S |-> {k}]
<1>1. IsFiniteSet(S) /\ Cardinality(S) = n
    <2>1. IsFiniteSet(S) /\ Cardinality(S) = IF 1 > n THEN 0 ELSE n - 1 + 1
        BY FS_Interval
    <2> QED
        BY <2>1
<1>2. IsFiniteSet(T) /\ Cardinality(T) = 2 ^ n
    BY <1>1, FS_SUBSET, Zenon
<1>3. f \in Injection(S, T)
    BY DEF Injection, IsInjective
<1>4. f \notin Surjection(S, T)
    <2>1. {} \in T /\ \A k \in S : f[k] # {}
        OBVIOUS
    <2> QED
        BY <2>1, Zenon DEF Surjection
<1> HIDE DEF f, S, T
<1>5. Cardinality(S) <= Cardinality(T) /\ Cardinality(S) # Cardinality(T)
    BY <1>2, <1>3, <1>4, FS_Injection
<1>6. Cardinality(T) \in Nat
    BY <1>2, FS_CardinalityType
<1>7. n < Cardinality(T)
    BY <1>1, <1>5, <1>6
<1> QED
    BY <1>2, <1>7, Zenon

LEMMA PowerOfNext ==
    ASSUME NEW n \in Nat
    PROVE  2 ^ (n + 1) = 2 * 2 ^ n
<1>1. 2 ^ (n + 1) = 2 ^ n * 2 ^ 1
    BY PowerOfSum, Zenon
<1>2. 2 ^ 1 = 2
    OBVIOUS
<1> DEFINE P == 2 ^ n
<1>3. P \in Nat
    BY PowerIsPositive
<1> HIDE DEF P
<1>4. P * 2 = 2 * P
    BY <1>3
<1> QED
    BY <1>1, <1>2, <1>4, Zenon DEF P

-----------------------------------------------------------------------------
(* Quotients and remainders.                                               *)

LEMMA TimesMonotonic ==
    ASSUME NEW m \in Nat, NEW a \in Int, NEW b \in Int, a <= b
    PROVE  m * a <= m * b
OBVIOUS

LEMMA DivisionOf ==
    ASSUME NEW x \in Int, NEW m \in Nat \ {0}
    PROVE  /\ x \div m \in Int
           /\ x % m \in 0 .. m - 1
           /\ x = m * (x \div m) + (x % m)
OBVIOUS

LEMMA DivisionIs ==
    ASSUME NEW x \in Int, NEW m \in Nat \ {0}, NEW q \in Int, NEW r \in 0 .. m - 1,
           x = m * q + r
    PROVE  x \div m = q /\ x % m = r
<1> DEFINE p == x \div m
           s == x % m
<1>1. p \in Int /\ s \in 0 .. m - 1 /\ x = m * p + s
    BY DivisionOf
<1> HIDE DEF p, s
<1>2. ~(p + 1 <= q)
    <2> SUFFICES ASSUME p + 1 <= q PROVE FALSE
        OBVIOUS
    <2>1. m * (p + 1) <= m * q
        BY <1>1, TimesMonotonic
    <2>2. m * (p + 1) = m * p + m
        BY <1>1
    <2> QED
        BY <1>1, <2>1, <2>2
<1>3. ~(q + 1 <= p)
    <2> SUFFICES ASSUME q + 1 <= p PROVE FALSE
        OBVIOUS
    <2>1. m * (q + 1) <= m * p
        BY <1>1, TimesMonotonic
    <2>2. m * (q + 1) = m * q + m
        OBVIOUS
    <2> QED
        BY <1>1, <2>1, <2>2
<1>4. p = q
    BY <1>1, <1>2, <1>3
<1>5. s = r
    BY <1>1, <1>4
<1> QED
    BY <1>4, <1>5 DEF p, s
-----------------------------------------------------------------------------
(* Sums.  A fold is a recursive function, found here by counting again.    *)

LEMMA LeastElement ==
    ASSUME NEW T \in SUBSET Nat, T # {}
    PROVE  \E n \in T : \A m \in T : n <= m
<1>1. \E n \in T : \A m \in T : ~(<<m, n>> \in OpToRel(<, Nat))
    <2>1. T \subseteq Nat
        OBVIOUS
    <2> QED
        BY <2>1, NatLessThanWellFounded, WFMin, Zenon
<1>2. PICK n \in T : \A m \in T : ~(<<m, n>> \in OpToRel(<, Nat))
    BY <1>1, Zenon
<1>3. \A m \in T : m \in Nat /\ n \in Nat
    OBVIOUS
<1>4. \A m \in T : ~(m < n)
    BY <1>2, <1>3 DEF OpToRel
<1> QED
    BY <1>3, <1>4

Units(w, s) == {p \in s \X Nat : 1 <= p[2] /\ p[2] <= w[p[1]]}
Tally(w, s) == Cardinality(Units(w, s))

\* Weights that a fold can add up.
Weighs(w, S) == IsFiniteSet(S) /\ \E M \in Nat : \A x \in S : w[x] \in 0 .. M

LEMMA UnitsFinite ==
    ASSUME NEW w, NEW S, Weighs(w, S)
    PROVE  IsFiniteSet(Units(w, S)) /\ Tally(w, S) \in Nat
<1>1. PICK M \in Nat : \A x \in S : w[x] \in 0 .. M
    BY Zenon DEF Weighs
<1>2. IsFiniteSet(0 .. M)
    <2>1. 0 \in Int /\ M \in Int
        OBVIOUS
    <2> QED
        BY <2>1, FS_Interval, Zenon
<1>3. IsFiniteSet(S \X (0 .. M))
    BY <1>2, FS_Product, Zenon DEF Weighs
<1>4. Units(w, S) \in SUBSET (S \X (0 .. M))
    BY <1>1 DEF Units
<1>5. IsFiniteSet(Units(w, S))
    BY <1>3, <1>4, FS_Subset, Zenon
<1> QED
    BY <1>5, FS_CardinalityType, Zenon DEF Tally

LEMMA TallyOfNone == \A w : Tally(w, {}) = 0
<1>1. \A w : Units(w, {}) = {}
    BY DEF Units
<1> QED
    BY <1>1, FS_EmptySet, Zenon DEF Tally

LEMMA TallyAdds ==
    ASSUME NEW w, NEW S, Weighs(w, S), NEW x \in S
    PROVE  Tally(w, S) = w[x] + Tally(w, S \ {x})
<1> DEFINE P == Units(w, S \ {x})
           Q == {x} \X (1 .. w[x])
<1>1. w[x] \in Nat
    BY DEF Weighs
<1>2. Weighs(w, S \ {x})
    <2>1. IsFiniteSet(S \ {x})
        BY FS_RemoveElement, Zenon DEF Weighs
    <2> QED
        BY <2>1, Zenon DEF Weighs
<1>3. IsFiniteSet(P) /\ Cardinality(P) \in Nat
    BY <1>2, UnitsFinite, Zenon DEF Tally
<1>4. IsFiniteSet(1 .. w[x]) /\ Cardinality(1 .. w[x]) = w[x]
    <2>1. 1 \in Int /\ w[x] \in Int
        BY <1>1
    <2>2. IsFiniteSet(1 .. w[x])
           /\ Cardinality(1 .. w[x]) = IF 1 > w[x] THEN 0 ELSE w[x] - 1 + 1
        BY <2>1, FS_Interval, Zenon
    <2> QED
        BY <1>1, <2>2
<1>5. IsFiniteSet(Q) /\ Cardinality(Q) = w[x]
    <2> DEFINE I == 1 .. w[x]
    <2> HIDE DEF I
    <2>1. IsFiniteSet(I) /\ Cardinality(I) = w[x]
        BY <1>4, Zenon DEF I
    <2>2. IsFiniteSet({x}) /\ Cardinality({x}) = 1
        BY FS_Singleton, Zenon
    <2>3. IsFiniteSet({x} \X I) /\ Cardinality({x} \X I) = Cardinality({x}) * Cardinality(I)
        BY <2>1, <2>2, FS_Product, Zenon
    <2>4. Cardinality({x} \X I) = 1 * w[x]
        BY <2>1, <2>2, <2>3, Zenon
    <2>5. 1 * w[x] = w[x]
        BY <1>1
    <2> QED
        BY <2>3, <2>4, <2>5, Zenon DEF I
<1>6. Units(w, S) = P \cup Q
    BY <1>1 DEF Units
<1>7. P \cap Q = {}
    BY DEF Units
<1> HIDE DEF P, Q
<1>8. Cardinality(P \cup Q) = Cardinality(P) + Cardinality(Q) - Cardinality(P \cap Q)
    BY <1>3, <1>5, FS_Union, Zenon
<1>9. Cardinality(P \cap Q) = 0
    BY <1>7, FS_EmptySet, Zenon
<1>10. Cardinality(P \cup Q) = w[x] + Cardinality(P)
    BY <1>1, <1>3, <1>5, <1>8, <1>9
<1> QED
    BY <1>6, <1>10, Zenon DEF Tally, P
Pick(s) == CHOOSE x \in s : TRUE

\* f is the function by which MapThenSumSet adds up the weights of S.
Adds(f, w, S) ==
    f = [s \in SUBSET S |-> IF s = {} THEN 0 ELSE w[Pick(s)] + f[s \ {Pick(s)}]]

LEMMA TallyIsFold ==
    ASSUME NEW w, NEW S, Weighs(w, S)
    PROVE  Adds([s \in SUBSET S |-> Tally(w, s)], w, S)
<1> DEFINE f == [s \in SUBSET S |-> Tally(w, s)]
<1>1. ASSUME NEW s \in SUBSET S
      PROVE  f[s] = IF s = {} THEN 0 ELSE w[Pick(s)] + f[s \ {Pick(s)}]
    <2>1. CASE s = {}
        BY <2>1, TallyOfNone, Zenon
    <2>2. CASE s # {}
        <3>1. Pick(s) \in s
            BY <2>2, Zenon DEF Pick
        <3>2. Weighs(w, s)
            <4>1. IsFiniteSet(s)
                BY FS_Subset, Zenon DEF Weighs
            <4> QED
                BY <4>1, Zenon DEF Weighs
        <3>3. \A x \in s : Tally(w, s) = w[x] + Tally(w, s \ {x})
            BY <3>2, TallyAdds, Zenon
        <3>4. s \ {Pick(s)} \in SUBSET S
            BY Zenon
        <3> QED
            BY <2>2, <3>1, <3>3, <3>4, Zenon
    <2> QED
        BY <2>1, <2>2
<1>2. f = [s \in SUBSET S |-> IF s = {} THEN 0 ELSE w[Pick(s)] + f[s \ {Pick(s)}]]
    BY <1>1, Zenon
<1> QED
    BY <1>2, Zenon DEF Adds

\* There is no other.
LEMMA FoldIsTally ==
    ASSUME NEW w, NEW S, Weighs(w, S), NEW f, Adds(f, w, S)
    PROVE  f[S] = Tally(w, S)
<1> DEFINE Bad == {s \in SUBSET S : f[s] # Tally(w, s)}
           Sizes == {Cardinality(s) : s \in Bad}
<1>1. \A s \in SUBSET S : IsFiniteSet(s) /\ Cardinality(s) \in Nat
    BY FS_Subset, FS_CardinalityType, Zenon DEF Weighs
<1>2. SUFFICES ASSUME Bad # {} PROVE FALSE
    BY Zenon
<1>3. Sizes \in SUBSET Nat /\ Sizes # {}
    BY <1>1, <1>2, Zenon
<1>4. PICK n \in Sizes : \A m \in Sizes : n <= m
    BY <1>3, LeastElement, Zenon
<1>5. PICK s \in Bad : n = Cardinality(s)
    BY <1>4, Zenon
<1>6. f[s] = IF s = {} THEN 0 ELSE w[Pick(s)] + f[s \ {Pick(s)}]
    BY Zenon DEF Adds
<1>7. s # {}
    BY <1>6, TallyOfNone, Zenon
<1>8. Pick(s) \in s
    BY <1>7, Zenon DEF Pick
<1>9. s \ {Pick(s)} \in SUBSET S
    BY Zenon
<1>10. Cardinality(s \ {Pick(s)}) = n - 1 /\ n \in Nat
    BY <1>1, <1>5, <1>8, FS_RemoveElement, Zenon
<1>11. s \ {Pick(s)} \notin Bad
    <2>1. ~(n <= n - 1)
        BY <1>10
    <2> QED
        BY <1>4, <1>10, <2>1, Zenon
<1>12. f[s \ {Pick(s)}] = Tally(w, s \ {Pick(s)})
    BY <1>9, <1>11, Zenon
<1>13. Weighs(w, s)
    BY <1>1, Zenon DEF Weighs
<1>14. \A x \in s : Tally(w, s) = w[x] + Tally(w, s \ {x})
    BY <1>13, TallyAdds, Zenon
<1> QED
    BY <1>6, <1>7, <1>8, <1>12, <1>14, Zenon

-----------------------------------------------------------------------------
(* Digits.                                                                 *)

Weight == [b \in Nat |-> 2 ^ b]
Value(S) == MapThenSumSet(LAMBDA b : 2 ^ b, S)

LEMMA PowersWeigh ==
    ASSUME NEW n \in Nat, NEW S \in SUBSET (0 .. n)
    PROVE  Weighs(Weight, S)
<1>1. IsFiniteSet(S)
    <2>1. 0 \in Int /\ n \in Int
        OBVIOUS
    <2> QED
        BY <2>1, FS_Interval, FS_Subset, Zenon
<1>2. ASSUME NEW b \in S PROVE Weight[b] \in 0 .. 2 ^ n
    <2> DEFINE P == 2 ^ b
               Q == 2 ^ (n - b)
               R == 2 ^ n
    <2>1. b \in Nat /\ n - b \in Nat /\ b + (n - b) = n
        OBVIOUS
    <2>2. P \in Nat \ {0} /\ Q \in Nat \ {0}
        BY <2>1, PowerIsPositive, Zenon
    <2>3. R = P * Q
        BY <2>1, PowerOfSum, Zenon
    <2>4. Weight[b] = P
        BY <2>1, Zenon DEF Weight
    <2> HIDE DEF P, Q, R
    <2>5. P * 1 <= P * Q
        BY <2>2, TimesMonotonic
    <2>6. P \in 0 .. R
        BY <2>2, <2>5, <2>3
    <2> QED
        BY <2>4, <2>6, Zenon DEF P, R
<1>3. 2 ^ n \in Nat
    BY PowerIsPositive
<1> QED
    BY <1>1, <1>2, <1>3, Zenon DEF Weighs

LEMMA ValueIsTally ==
    ASSUME NEW n \in Nat, NEW S \in SUBSET (0 .. n)
    PROVE  Value(S) = Tally(Weight, S)
<1> DEFINE T == [s \in SUBSET S |-> Tally(Weight, s)]
           F(f) == f = [s \in SUBSET S |-> IF s = {} THEN 0 ELSE 2 ^ (Pick(s)) + f[s \ {Pick(s)}]]
<1>1. Weighs(Weight, S)
    BY PowersWeigh, Zenon
<1>2. ASSUME NEW s \in SUBSET S, s # {} PROVE Weight[Pick(s)] = 2 ^ (Pick(s))
    <2>1. Pick(s) \in s
        BY <1>2, Zenon DEF Pick
    <2>2. \A x \in s : x \in Nat
        OBVIOUS
    <2>3. \A x \in s : Weight[x] = 2 ^ x
        BY <2>2, Zenon DEF Weight
    <2> QED
        BY <2>1, <2>3, Zenon
<1>3. \A f : F(f) <=> Adds(f, Weight, S)
    <2> SUFFICES ASSUME NEW f PROVE F(f) <=> Adds(f, Weight, S)
        BY Zenon
    <2>1. [s \in SUBSET S |-> IF s = {} THEN 0 ELSE 2 ^ (Pick(s)) + f[s \ {Pick(s)}]]
            = [s \in SUBSET S |-> IF s = {} THEN 0 ELSE Weight[Pick(s)] + f[s \ {Pick(s)}]]
        BY <1>2, Zenon
    <2> QED
        BY <2>1, Zenon DEF Adds
<1>4. F(T)
    BY <1>1, <1>3, TallyIsFold, Zenon
<1>5. Value(S) = (CHOOSE f : F(f))[S]
    BY Zenon DEF Value, MapThenSumSet, MapThenFoldSet, Pick
<1>6. F(CHOOSE f : F(f))
    BY <1>4, Zenon
<1>7. \A f : F(f) => f[S] = Tally(Weight, S)
    BY <1>1, <1>3, FoldIsTally, Zenon
<1> HIDE DEF F
<1> QED
    BY <1>5, <1>6, <1>7, Zenon

LEMMA ValueOfNone == Value({}) = 0
<1>1. {} \in SUBSET (0 .. 0) /\ 0 \in Nat
    OBVIOUS
<1> QED
    BY <1>1, ValueIsTally, TallyOfNone, Zenon

LEMMA ValueAdds ==
    ASSUME NEW n \in Nat, NEW S \in SUBSET (0 .. n), NEW b \in S
    PROVE  /\ Value(S) \in Nat
           /\ Value(S) = 2 ^ b + Value(S \ {b})
<1>1. Weighs(Weight, S)
    BY PowersWeigh, Zenon
<1>2. S \ {b} \in SUBSET (0 .. n)
    OBVIOUS
<1>3. Value(S) = Tally(Weight, S) /\ Value(S \ {b}) = Tally(Weight, S \ {b})
    BY <1>2, ValueIsTally, Zenon
<1>4. Weight[b] = 2 ^ b
    <2>1. b \in Nat
        OBVIOUS
    <2> QED
        BY <2>1, Zenon DEF Weight
<1>5. Tally(Weight, S) \in Nat
    BY <1>1, UnitsFinite, Zenon
<1>6. Tally(Weight, S) = Weight[b] + Tally(Weight, S \ {b})
    BY <1>1, TallyAdds
<1> QED
    BY <1>3, <1>4, <1>5, <1>6, Zenon

\* The bits of v below w.
Digits(v, w) == {b \in 0 .. (w - 1) : (v \div 2 ^ b) % 2 = 1}

LEMMA NextDigit ==
    ASSUME NEW v \in Int, NEW w \in Nat, Value(Digits(v, w)) = v % 2 ^ w
    PROVE  Value(Digits(v, w + 1)) = v % 2 ^ (w + 1)
<1> DEFINE P == 2 ^ w
           Q == 2 ^ (w + 1)
           q == v \div P
           r == v % P
           h == q \div 2
           e == q % 2
           S == Digits(v, w)
           T == Digits(v, w + 1)
<1>1. P \in Nat \ {0} /\ Q \in Nat \ {0} /\ Q = 2 * P
    <2>1. w + 1 \in Nat
        OBVIOUS
    <2> QED
        BY <2>1, PowerIsPositive, PowerOfNext, Zenon
<1>2. q \in Int /\ r \in 0 .. P - 1 /\ v = P * q + r
    <2> HIDE DEF P
    <2> QED
        BY <1>1, DivisionOf
<1>3. h \in Int /\ e \in {0, 1} /\ q = 2 * h + e
    <2> HIDE DEF q
    <2> QED
        BY <1>2
<1>4. v % Q = r + (IF e = 1 THEN P ELSE 0)
    <2> HIDE DEF P, Q, q, r, h, e
    <2> DEFINE x == r + (IF e = 1 THEN P ELSE 0)
    <2>1. P * q = Q * h + (IF e = 1 THEN P ELSE 0)
        BY <1>1, <1>3
    <2>2. x \in 0 .. Q - 1 /\ v = Q * h + x
        BY <1>1, <1>2, <1>3, <2>1
    <2> HIDE DEF x
    <2>3. v % Q = x
        BY <1>1, <1>3, <2>2, DivisionIs
    <2> QED
        BY <2>3, Zenon DEF x
<1>5. /\ \A b : b \in T <=> b \in S \/ (b = w /\ e = 1)
      /\ w \notin S
    <2>1. \A b : /\ b \in 0 .. w + 1 - 1 <=> b \in 0 .. w - 1 \/ b = w
                 /\ w \notin 0 .. w - 1
        OBVIOUS
    <2>2. \A n, b : b \in Digits(v, n) <=> b \in 0 .. n - 1 /\ (v \div 2 ^ b) % 2 = 1
        BY Zenon DEF Digits
    <2>3. /\ \A b : b \in S <=> b \in 0 .. w - 1 /\ (v \div 2 ^ b) % 2 = 1
          /\ \A b : b \in T <=> b \in 0 .. w + 1 - 1 /\ (v \div 2 ^ b) % 2 = 1
        BY <2>2
    <2>4. e = 1 <=> (v \div 2 ^ w) % 2 = 1
        BY Zenon
    <2> HIDE DEF S, T, e
    <2> QED
        BY <2>1, <2>2, <2>3, <2>4, Zenon
<1>6. T \in SUBSET (0 .. w)
    BY DEF Digits
<1>7. Value(S) = r
    BY Zenon
<1> HIDE DEF P, Q, q, r, h, e, S, T
<1>8. CASE e = 1
    <2>1. T \ {w} = S /\ w \in T
        BY <1>5, <1>8
    <2>2. Value(T) = 2 ^ w + Value(S)
        BY <1>6, <2>1, ValueAdds, Zenon
    <2>3. Value(T) = P + r
        BY <1>7, <2>2, Zenon DEF P
    <2>4. v % Q = P + r
        BY <1>1, <1>2, <1>4, <1>8
    <2> QED
        BY <2>3, <2>4, Zenon DEF T, Q
<1>9. CASE e # 1
    <2>1. T = S
        BY <1>5, <1>9
    <2>2. v % Q = r
        BY <1>1, <1>2, <1>4, <1>9
    <2> QED
        BY <1>7, <2>1, <2>2, Zenon DEF T, Q
<1> QED
    BY <1>8, <1>9

\* The bits below w stand for the remainder of v.
LEMMA ValueOfDigits ==
    ASSUME NEW v \in Int, NEW w \in Nat
    PROVE  Value(Digits(v, w)) = v % 2 ^ w
<1> DEFINE Bad == {n \in Nat : Value(Digits(v, n)) # v % 2 ^ n}
<1> SUFFICES ASSUME Bad # {} PROVE FALSE
    BY Zenon
<1>1. Bad \in SUBSET Nat
    BY Zenon
<1>2. PICK n \in Bad : \A m \in Bad : n <= m
    BY <1>1, LeastElement, Zenon
<1>3. n # 0
    <2>1. Digits(v, 0) = {}
        BY DEF Digits
    <2>2. v % 2 ^ 0 = 0
        OBVIOUS
    <2> QED
        BY <1>2, <2>1, <2>2, ValueOfNone, Zenon
<1>4. n - 1 \in Nat /\ n = (n - 1) + 1 /\ ~(n <= n - 1)
    BY <1>2, <1>3
<1>5. Value(Digits(v, n - 1)) = v % 2 ^ (n - 1)
    BY <1>2, <1>4, Zenon
<1>6. Value(Digits(v, n)) = v % 2 ^ n
    BY <1>4, <1>5, NextDigit, Zenon
<1> QED
    BY <1>2, <1>6, Zenon
============================================================================
