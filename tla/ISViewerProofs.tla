--------------------------- MODULE ISViewerProofs ---------------------------
(***************************************************************************)
(* Machine-checked proofs about ISViewer, for every ring, word and text.   *)
(***************************************************************************)
EXTENDS ISViewer, FiniteSetTheorems, SequenceTheorems, TLAPS

\* Going one cell on stays in the ring.
LEMMA WrapInCells ==
    ASSUME NEW c \in Cells
    PROVE  Wrap(c + 1) \in Cells
BY RingAssumption DEF Cells, Wrap

\* A fragment handed to the callback is a sequence of characters.
LEMMA TextIsSeq ==
    ASSUME NEW m \in Texts \cup {<<>>}
    PROVE  /\ m \in Seq(Chars)
           /\ Len(m) \in Nat
           /\ \A k \in 1 .. Len(m) : m[k] \in Chars
<1>1. CASE m \in Texts
    BY <1>1, RingAssumption
<1>2. CASE m = <<>>
    BY <1>2
<1> QED
    BY <1>1, <1>2

LEMMA EmptyText == <<>> \in Texts \cup {<<>>} /\ Len(<<>>) = 0
OBVIOUS

LEMMA InitTypeOK == Init => TypeOK
<1> SUFFICES ASSUME Init PROVE TypeOK
    OBVIOUS
<1>1. 0 \in Cells
    BY RingAssumption DEF Cells
<1>2. /\ attached \in BOOLEAN
      /\ magic \in {"unset", "IS64"}
      /\ get \in Cells /\ put \in Cells
      /\ data \in [Cells -> Chars]
    BY <1>1, RingAssumption DEF Init
<1>3. \A t \in Threads : pc[t] # "store"
    BY DEF Init, PowerOn
<1>4. \A t \in Threads : i[t] = 0 /\ text[t] = <<>>
    BY DEF Init, PowerOn
<1>5. /\ text \in [Threads -> Texts \cup {<<>>}]
      /\ i \in [Threads -> Nat]
      /\ pos \in [Threads -> Cells] /\ start \in [Threads -> Cells]
      /\ word \in [Threads -> {<<>>} \cup Words]
    BY <1>1 DEF Init, PowerOn
<1>6. /\ isInitialized \in BOOLEAN /\ sISVHandle \in BOOLEAN
      /\ pc \in [Threads -> PCs]
    BY DEF Init, PowerOn, PCs
<1>7. ASSUME NEW t \in Threads PROVE i[t] <= Len(text[t])
    <2>1. Len(text[t]) = 0
        BY <1>4, EmptyText
    <2> QED
        BY <1>4, <2>1
<1> QED
    BY <1>2, <1>3, <1>4, <1>5, <1>6, <1>7 DEF TypeOK

\* Type correctness is inductive: one step per action.
LEMMA NextTypeOK == TypeOK /\ [Next]_vars => TypeOK'
<1> SUFFICES ASSUME TypeOK, [Next]_vars PROVE TypeOK'
    OBVIOUS
<1> USE DEF device, static, locals, Goto, CopyPCs
<1>z. 0 \in Cells
    BY RingAssumption DEF Cells
<1>1. CASE HostTake
    <2>1. get' \in Cells
        BY <1>1, WrapInCells DEF HostTake, TypeOK, More
    <2> QED
        BY <1>1, <2>1 DEF HostTake, TypeOK, More
<1>2. CASE Reset
    <2>1. \A t \in Threads : i'[t] = 0 /\ text'[t] = <<>> /\ pc'[t] # "store"
        BY <1>2, EmptyText DEF Reset
    <2>2. \A t \in Threads : i'[t] <= Len(text'[t])
        BY <2>1, EmptyText
    <2> QED
        BY <1>2, <1>z, <2>1, <2>2 DEF Reset, TypeOK, PCs, More
<1>3. ASSUME NEW t \in Threads, Call(t) PROVE TypeOK'
    BY <1>3 DEF Call, TypeOK, PCs, More
<1>4. ASSUME NEW t \in Threads, INITIALIZE(t) PROVE TypeOK'
    BY <1>4, <1>z DEF INITIALIZE, Test, InitHandle, InitPut, InitGet, InitMagic,
        SetInitialized, TypeOK, More, PCs, InitPCs
<1>5. ASSUME NEW t \in Threads, Fragment(t) PROVE TypeOK'
    <2>1. PICK m \in Texts : text' = [text EXCEPT ![t] = m]
        BY <1>5 DEF Fragment
    <2>2. \A u \in Threads : i[u] <= Len(text'[u])
        <3>1. Len(m) \in Nat /\ i[t] = 0
            BY <1>5, TextIsSeq DEF Fragment, TypeOK
        <3> QED
            BY <2>1, <3>1 DEF TypeOK
    <2> QED
        BY <1>5, <2>1, <2>2 DEF Fragment, TypeOK, More, PCs, ProutPCs
<1>6. ASSUME NEW t \in Threads, Done(t) PROVE TypeOK'
    BY <1>6 DEF Done, TypeOK, PCs, More
<1>7. ASSUME NEW t \in Threads, is_proutSyncPrintf(t) PROVE TypeOK'
    <2> USE DEF ProutPCs, PCs
    <2>a. /\ text[t] \in Seq(Chars)
          /\ Len(text[t]) \in Nat
          /\ \A k \in 1 .. Len(text[t]) : text[t][k] \in Chars
        BY TextIsSeq DEF TypeOK
    <2>f. ASSUME ForgetLocals(t)
          PROVE  /\ text' \in [Threads -> Texts \cup {<<>>}]
                 /\ i' \in [Threads -> Nat]
                 /\ \A u \in Threads : i'[u] <= Len(text'[u])
                 /\ i'[t] = 0
                 /\ pos' \in [Threads -> Cells] /\ start' \in [Threads -> Cells]
                 /\ word' \in [Threads -> {<<>>} \cup Words]
                 /\ \A u \in Threads \ {t} :
                        /\ word'[u] = word[u] /\ start'[u] = start[u]
                        /\ i'[u] = i[u] /\ text'[u] = text[u]
        BY <2>f, <1>z, EmptyText DEF ForgetLocals, TypeOK
    <2>1. CASE NoViewer(t)
        BY <2>1, <2>f DEF NoViewer, TypeOK, More
    <2>2. CASE ReadMagic(t)
        BY <2>2 DEF ReadMagic, TypeOK, More
    <2>3. CASE ReadGet(t)
        BY <2>3 DEF ReadGet, TypeOK, More
    <2>4. CASE Admit(t)
        BY <2>4 DEF Admit, TypeOK, More
    <2>5. CASE Refuse(t)
        BY <2>5, <2>f DEF Refuse, TypeOK, More
    <2>6. CASE SkipNul(t)
        BY <2>6, <2>a DEF SkipNul, More, TypeOK
    <2>7. CASE ReadWord(t)
        <3> DEFINE w == [c \in WordOf(start[t]) |-> data[c]]
        <3>1. w \in [WordOf(start[t]) -> Chars]
            BY DEF TypeOK, WordOf
        <3>2. w \in Words
            BY <3>1 DEF Words, TypeOK
        <3>3. word' = [word EXCEPT ![t] = w]
            BY <2>7 DEF ReadWord
        <3> HIDE DEF w
        <3>4. word' \in [Threads -> {<<>>} \cup Words] /\ word'[t] = w
            BY <3>2, <3>3 DEF TypeOK
        <3>5. ASSUME NEW u \in Threads, pc'[u] = "store"
              PROVE  More(u)' /\ word'[u] \in [WordOf(start'[u]) -> Chars]
            BY <2>7, <3>1, <3>3, <3>4, <3>5 DEF ReadWord, TypeOK, More
        <3> QED
            BY <2>7, <3>4, <3>5 DEF ReadWord, TypeOK
    <2>8. CASE StoreWord(t)
        <3>1. More(t) /\ word[t] \in [WordOf(start[t]) -> Chars]
            BY <2>8 DEF StoreWord, TypeOK
        <3>2. Char(t) \in Chars /\ i[t] + 1 \in Nat /\ i[t] + 1 <= Len(text[t])
            BY <2>a, <3>1 DEF Char, More, TypeOK
        <3>3. start' \in [Threads -> Cells]
            BY <2>8, WrapInCells DEF StoreWord, TypeOK
        <3>4. data' \in [Cells -> Chars]
            <4>1. ASSUME NEW c \in Cells
                  PROVE  (IF c = start[t] THEN Char(t)
                          ELSE IF c \in WordOf(start[t]) THEN word[t][c]
                          ELSE data[c]) \in Chars
                BY <3>1, <3>2 DEF TypeOK
            <4> QED
                BY <2>8, <4>1 DEF StoreWord
        <3>5. /\ i' \in [Threads -> Nat]
              /\ \A u \in Threads : i'[u] <= Len(text'[u])
            BY <2>8, <3>2 DEF StoreWord, TypeOK
        <3>6. word' \in [Threads -> {<<>>} \cup Words]
            BY <2>8 DEF StoreWord, TypeOK
        <3>7. ASSUME NEW u \in Threads, pc'[u] = "store"
              PROVE  More(u)' /\ word'[u] \in [WordOf(start'[u]) -> Chars]
            BY <2>8, <3>7 DEF StoreWord, TypeOK, More
        <3> QED
            BY <2>8, <3>3, <3>4, <3>5, <3>6, <3>7 DEF StoreWord, TypeOK
    <2>9. CASE Publish(t)
        BY <2>9, <2>f DEF Publish, TypeOK, More
    <2> QED
        BY <1>7, <2>1, <2>2, <2>3, <2>4, <2>5, <2>6, <2>7, <2>8, <2>9
        DEF is_proutSyncPrintf
<1>8. CASE UNCHANGED vars
    BY <1>8 DEF vars, TypeOK, More
<1> QED
    BY <1>1, <1>2, <1>3, <1>4, <1>5, <1>6, <1>7, <1>8 DEF Next, Thread

(***************************************************************************)
(* Type correctness, for every set of threads, ring, word and text.        *)
(***************************************************************************)
THEOREM TypeCorrect == Spec => []TypeOK
BY InitTypeOK, NextTypeOK, PTL DEF Spec

-----------------------------------------------------------------------------
\* InitInv needs neither types nor a bound on the number of threads.
LEMMA InitInitInv == Init => InitInv
BY DEF Init, PowerOn, InitInv, UsedAfterInit, InitPCs, ProutPCs, CopyPCs

LEMMA NextInitInv == TypeOK /\ InitInv /\ [Next]_vars => InitInv'
<1> SUFFICES ASSUME TypeOK, InitInv, [Next]_vars PROVE InitInv'
    OBVIOUS
<1>p. pc \in [Threads -> PCs]
    BY DEF TypeOK
<1> USE <1>p DEF InitInv, UsedAfterInit, InitPCs, ProutPCs, CopyPCs, device, static, Goto
<1>1. CASE HostTake
    BY <1>1 DEF HostTake
<1>2. CASE Reset
    BY <1>2 DEF Reset
<1>3. ASSUME NEW t \in Threads, Call(t) \/ Fragment(t) \/ Done(t) PROVE InitInv'
    BY <1>3 DEF Call, Fragment, Done
<1>4. ASSUME NEW t \in Threads, INITIALIZE(t) PROVE InitInv'
    <2>1. CASE Test(t)
        BY <2>1 DEF Test
    <2>2. CASE InitHandle(t)
        BY <2>2 DEF InitHandle
    <2>3. CASE InitPut(t) \/ InitGet(t)
        BY <2>3 DEF InitPut, InitGet
    <2>4. CASE InitMagic(t)
        BY <2>4 DEF InitMagic
    <2>5. CASE SetInitialized(t)
        BY <2>5 DEF SetInitialized
    <2> QED
        BY <1>4, <2>1, <2>2, <2>3, <2>4, <2>5 DEF INITIALIZE
<1>5. ASSUME NEW t \in Threads, is_proutSyncPrintf(t) PROVE InitInv'
    <2>1. CASE NoViewer(t) \/ Refuse(t) \/ Publish(t)
        BY <2>1 DEF NoViewer, Refuse, Publish
    <2>2. CASE ReadMagic(t)
        BY <2>2 DEF ReadMagic
    <2>3. CASE ReadGet(t) \/ Admit(t)
        BY <2>3 DEF ReadGet, Admit
    <2>4. CASE SkipNul(t) \/ ReadWord(t) \/ StoreWord(t)
        BY <2>4 DEF SkipNul, ReadWord, StoreWord
    <2> QED
        BY <1>5, <2>1, <2>2, <2>3, <2>4 DEF is_proutSyncPrintf
<1>6. CASE UNCHANGED vars
    BY <1>6 DEF vars
<1> QED
    BY <1>1, <1>2, <1>3, <1>4, <1>5, <1>6 DEF Next, Thread

(***************************************************************************)
(* The lazy initialisation protects the log whatever the interleaving:     *)
(* nothing is sent before isPrintfInit ran to its end in this session, and *)
(* nothing is stored when there is no viewer (INITIALIZE, n64_io.c:104-110,*)
(* and the magic test of is_proutSyncPrintf, n64_io.c:55-58).              *)
(***************************************************************************)
THEOREM InitialisedBeforeUse == Spec => []UsedAfterInit
<1>1. TypeOK /\ InitInv /\ [Next]_vars => (TypeOK /\ InitInv)'
    BY NextTypeOK, NextInitInv
<1>2. InitInv => UsedAfterInit
    BY DEF InitInv
<1> QED
    BY <1>1, <1>2, InitTypeOK, InitInitInv, PTL DEF Spec

-----------------------------------------------------------------------------
(***************************************************************************)
(* One printing thread.                                                    *)
(***************************************************************************)

\* The two-armed comparison of n64_io.c:63-73 is exactly "does not fit".
LEMMA RefusedIffFull ==
    ASSUME NEW p \in Cells, NEW s \in Cells, NEW count \in Nat
    PROVE  Refused(p, s, count) <=> Dist(p, s) + count > RingSize
BY RingAssumption DEF Refused, Dist, Cells

LEMMA DistInCells ==
    ASSUME NEW a \in Cells, NEW b \in Cells
    PROVE  Dist(a, b) \in Cells /\ (Dist(a, b) = 0 <=> a = b)
BY RingAssumption DEF Dist, Cells

\* One cell on, the distance grows by one or starts again from nothing.
LEMMA DistNext ==
    ASSUME NEW a \in Cells, NEW b \in Cells
    PROVE  Dist(a, Wrap(b + 1)) = IF Dist(a, b) + 1 = RingSize THEN 0 ELSE Dist(a, b) + 1
BY RingAssumption DEF Dist, Cells, Wrap

\* Taking a character brings the host one cell nearer.
LEMMA DistTake ==
    ASSUME NEW a \in Cells, NEW b \in Cells, a # b
    PROVE  Dist(Wrap(a + 1), b) = Dist(a, b) - 1
BY RingAssumption DEF Dist, Cells, Wrap

\* Cells that lie ahead of both: distances add up unless they go round.
LEMMA DistAdd ==
    ASSUME NEW a \in Cells, NEW b \in Cells, NEW c \in Cells,
           Dist(a, b) + Dist(b, c) < RingSize
    PROVE  Dist(a, c) = Dist(a, b) + Dist(b, c)
BY RingAssumption DEF Dist, Cells

LEMMA InitSoloInv == Init => SoloInv
BY DEF Init, PowerOn, SoloInv, CopyPCs

LEMMA NextSoloInv ==
    ASSUME NEW t, Threads = {t}
    PROVE  TypeOK /\ SoloInv /\ [Next]_vars => SoloInv'
<1> SUFFICES ASSUME TypeOK, SoloInv, [Next]_vars PROVE SoloInv'
    OBVIOUS
<1>a. /\ t \in Threads /\ pc \in [Threads -> PCs]
      /\ text \in [Threads -> Texts \cup {<<>>}] /\ i \in [Threads -> Nat]
      /\ pos \in [Threads -> Cells] /\ start \in [Threads -> Cells]
      /\ word \in [Threads -> {<<>>} \cup Words]
      /\ get \in Cells /\ put \in Cells
      /\ pos[t] \in Cells /\ start[t] \in Cells
    BY DEF TypeOK
<1>b. i[t] \in Nat /\ Len(text[t]) \in Nat /\ i[t] <= Len(text[t])
    BY <1>a, TextIsSeq DEF TypeOK
<1>c. pc[t] \notin CopyPCs => i[t] = 0
    BY <1>a DEF TypeOK
<1>d. pc[t] = "store" => More(t)
    BY <1>a DEF TypeOK
<1> USE <1>a DEF device, static, Goto, CopyPCs
\* The three parts of SoloInv for the only thread.
<1> DEFINE
      A == pc[t] = "readPut" => Dist(get, put) <= Dist(pos[t], put)
      B == pc[t] \in CopyPCs =>
             Dist(get, put) + Dist(put, start[t]) + Len(text[t]) - i[t] <= RingSize
      C == pc[t] = "store" => \A c \in WordOf(start[t]) : word[t][c] = data[c]
<1>e. A /\ B /\ C
    BY DEF SoloInv
<1>f. A' /\ B' /\ C' => SoloInv'
    BY DEF SoloInv
<1>1. CASE HostTake
    <2>1. Dist(get', put) = Dist(get, put) - 1 /\ Dist(get, put) \in Nat
        BY <1>1, DistTake, DistInCells DEF HostTake, Cells
    <2>2. Dist(pos[t], put) \in Nat /\ Dist(put, start[t]) \in Nat
        BY DistInCells DEF Cells
    <2>3. UNCHANGED <<put, data, pc, text, i, pos, start, word>>
        BY <1>1 DEF HostTake, locals
    <2>4. A'
        BY <1>e, <2>1, <2>2, <2>3
    <2>5. B'
        <3>1. Dist(get, put) - 1 + Dist(put, start[t]) + Len(text[t]) - i[t]
              <= Dist(get, put) + Dist(put, start[t]) + Len(text[t]) - i[t]
            BY <1>b, <2>1, <2>2
        <3> QED
            BY <1>b, <1>e, <2>1, <2>2, <2>3, <3>1, RingAssumption
    <2>6. C'
        BY <1>e, <2>3
    <2> QED
        BY <2>4, <2>5, <2>6, <1>f
<1>2. CASE Reset
    <2>1. pc'[t] = "idle"
        BY <1>2 DEF Reset
    <2> QED
        BY <2>1, <1>f
<1>3. CASE Call(t) \/ Fragment(t) \/ Done(t)
    <2>1. pc'[t] \notin {"readPut", "copy", "store"}
        BY <1>3 DEF Call, Fragment, Done
    <2> QED
        BY <2>1, <1>f
<1>4. CASE INITIALIZE(t)
    <2>1. pc'[t] \notin {"readPut", "copy", "store"}
        BY <1>4 DEF INITIALIZE, Test, InitHandle, InitPut, InitGet, InitMagic, SetInitialized
    <2> QED
        BY <2>1, <1>f
<1>5. CASE NoViewer(t) \/ ReadMagic(t) \/ Refuse(t) \/ Publish(t)
    <2>1. pc'[t] \notin {"readPut", "copy", "store"}
        BY <1>5 DEF NoViewer, ReadMagic, Refuse, Publish
    <2> QED
        BY <2>1, <1>f
<1>6. CASE ReadGet(t)
    <2>1. pos'[t] = get /\ get' = get /\ put' = put /\ pc'[t] = "readPut"
        BY <1>6 DEF ReadGet
    <2>2. Dist(get, put) \in Nat
        BY DistInCells DEF Cells
    <2> QED
        BY <2>1, <2>2, <1>f
<1>7. CASE Admit(t)
    <2>1. /\ start'[t] = put /\ get' = get /\ put' = put
          /\ pc'[t] = "copy" /\ text' = text /\ i' = i
        BY <1>7 DEF Admit
    <2>2. Dist(pos[t], put) + Len(text[t]) <= RingSize
        <3>1. ~Refused(pos[t], put, Len(text[t]))
            BY <1>7 DEF Admit
        <3>2. ~(Dist(pos[t], put) + Len(text[t]) > RingSize)
            BY <3>1, <1>b, RefusedIffFull
        <3>3. Dist(pos[t], put) \in Nat
            BY DistInCells DEF Cells
        <3> QED
            BY <3>2, <3>3, <1>b, RingAssumption
    <2>3. Dist(put, put) = 0 /\ Dist(get, put) \in Nat /\ Dist(pos[t], put) \in Nat
        BY DistInCells DEF Cells
    <2>4. Dist(get, put) <= Dist(pos[t], put) /\ i[t] = 0
        BY <1>7, <1>e, <1>c DEF Admit
    <2> QED
        BY <2>1, <2>2, <2>3, <2>4, <1>b, <1>f, RingAssumption
<1>8. CASE SkipNul(t)
    <2>1. /\ i'[t] = i[t] + 1 /\ pc[t] = "copy" /\ pc'[t] = "copy"
          /\ UNCHANGED <<get, put, start, text>>
        BY <1>8 DEF SkipNul
    <2>2. Dist(get, put) \in Nat /\ Dist(put, start[t]) \in Nat
        BY DistInCells DEF Cells
    <2> QED
        BY <2>1, <2>2, <1>b, <1>e, <1>f, RingAssumption
<1>9. CASE ReadWord(t)
    <2>1. /\ pc[t] = "copy" /\ pc'[t] = "store"
          /\ word'[t] = [c \in WordOf(start[t]) |-> data[c]]
          /\ UNCHANGED <<get, put, data, start, text, i>>
        BY <1>9 DEF ReadWord
    <2>2. C'
        BY <2>1 DEF WordOf
    <2> QED
        BY <2>1, <2>2, <1>e, <1>f
<1>10. CASE StoreWord(t)
    <2>1. /\ pc[t] = "store" /\ pc'[t] = "copy"
          /\ start'[t] = Wrap(start[t] + 1) /\ i'[t] = i[t] + 1
          /\ UNCHANGED <<get, put, text>>
        BY <1>10 DEF StoreWord
    <2>2. Dist(get, put) \in Nat /\ Dist(put, start[t]) \in Nat
        BY DistInCells DEF Cells
    <2>3. Dist(put, start'[t]) <= Dist(put, start[t]) + 1 /\ Dist(put, start'[t]) \in Nat
        BY <2>1, <2>2, DistNext
    <2>4. Dist(get, put) + Dist(put, start[t]) + Len(text[t]) - i[t] <= RingSize
        BY <2>1, <1>e
    <2>5. Dist(get, put) + Dist(put, start'[t]) + Len(text[t]) - (i[t] + 1) <= RingSize
        BY <2>2, <2>3, <2>4, <1>b, RingAssumption
    <2>6. B'
        BY <2>1, <2>5
    <2> QED
        BY <2>1, <2>6, <1>f
<1>11. CASE UNCHANGED vars
    BY <1>11, <1>e, <1>f DEF vars, locals
<1> QED
    BY <1>1, <1>2, <1>3, <1>4, <1>5, <1>6, <1>7, <1>8, <1>9, <1>10, <1>11
    DEF Next, Thread, is_proutSyncPrintf

LEMMA SoloInvariant ==
    ASSUME NEW t, Threads = {t}
    PROVE  Spec => [](TypeOK /\ SoloInv)
<1>1. TypeOK /\ SoloInv /\ [Next]_vars => (TypeOK /\ SoloInv)'
    BY NextTypeOK, NextSoloInv
<1> QED
    BY <1>1, InitTypeOK, InitSoloInv, PTL DEF Spec

(***************************************************************************)
(* The host's position is read before put, and the host moves on while the *)
(* thread copies: the room found is still there for what is left to copy   *)
(* (is_proutSyncPrintf, n64_io.c:59-89).                                   *)
(***************************************************************************)
THEOREM RoomIsThere ==
    ASSUME NEW t, Threads = {t}
    PROVE  Spec => []RoomForRest
<1>1. SoloInv => RoomForRest
    BY DEF SoloInv, RoomForRest
<1> QED
    BY <1>1, SoloInvariant, PTL

\* No step changes an unread cell.
LEMMA StepKeepsUnread ==
    ASSUME NEW t, Threads = {t}, TypeOK, SoloInv, [Next]_vars, NEW c \in Unread
    PROVE  data'[c] = data[c]
<1>a. /\ t \in Threads /\ c \in Cells /\ data \in [Cells -> Chars]
      /\ get \in Cells /\ put \in Cells /\ start[t] \in Cells
      /\ pc \in [Threads -> PCs]
      /\ Dist(get, c) < Dist(get, put)
    BY DEF TypeOK, Unread
<1>b. i[t] \in Nat /\ Len(text[t]) \in Nat
    BY <1>a, TextIsSeq DEF TypeOK
<1>1. CASE StoreWord(t)
    <2>1. pc[t] = "store" /\ i[t] < Len(text[t])
        BY <1>1, <1>a DEF StoreWord, Goto, TypeOK, More
    <2>2. \A d \in WordOf(start[t]) : word[t][d] = data[d]
        BY <2>1, <1>a DEF SoloInv
    <2>3. c # start[t]
        <3>1. Dist(get, put) + Dist(put, start[t]) + Len(text[t]) - i[t] <= RingSize
            BY <2>1, <1>a DEF SoloInv, CopyPCs
        <3>2. Dist(get, put) \in Nat /\ Dist(put, start[t]) \in Nat
            <4>1. Dist(get, put) \in Cells /\ Dist(put, start[t]) \in Cells
                BY <1>a, DistInCells
            <4> QED
                BY <4>1 DEF Cells
        <3>3. Dist(get, put) + Dist(put, start[t]) < RingSize
            BY <3>1, <3>2, <2>1, <1>b, RingAssumption
        <3>4. Dist(get, start[t]) = Dist(get, put) + Dist(put, start[t])
            BY <3>3, <1>a, DistAdd
        <3> QED
            BY <3>2, <3>4, <1>a
    <2> QED
        BY <1>1, <1>a, <2>2, <2>3 DEF StoreWord
<1>2. CASE UNCHANGED data
    BY <1>2
<1>3. StoreWord(t) \/ UNCHANGED data
    BY DEF Next, Thread, vars, device, HostTake, Reset, Call, Fragment, Done, INITIALIZE,
        Test, InitHandle, InitPut, InitGet, InitMagic, SetInitialized, is_proutSyncPrintf,
        NoViewer, ReadMagic, ReadGet, Admit, Refuse, SkipNul, ReadWord, Publish
<1> QED
    BY <1>1, <1>2, <1>3

(***************************************************************************)
(* One printing thread never overwrites what the host has still to take:   *)
(* neither by a fragment that does not fit, nor by the write-back of the   *)
(* other bytes of a word (n64_io.c:63-80).                                 *)
(***************************************************************************)
THEOREM UnreadIsKept ==
    ASSUME NEW t, Threads = {t}
    PROVE  Spec => NoClobber
<1>1. TypeOK /\ SoloInv /\ [Next]_vars => [\A c \in Unread : data'[c] = data[c]]_vars
    BY StepKeepsUnread
<1> QED
    BY <1>1, SoloInvariant, PTL DEF Spec, NoClobber

(***************************************************************************)
(* Any number of threads: a fragment is refused exactly when the position  *)
(* read left no room for it, so nothing that fits is thrown away           *)
(* (the comparisons of n64_io.c:63-73).                                    *)
(***************************************************************************)
THEOREM RefusalIsJustified == Spec => RefusedOnlyWhenFull
<1>1. ASSUME TypeOK, NEW t \in Threads, Refuse(t)
      PROVE  Dist(pos[t], put) + Len(text[t]) > RingSize
    <2>1. pos[t] \in Cells /\ put \in Cells /\ Len(text[t]) \in Nat
        BY <1>1, TextIsSeq DEF TypeOK
    <2> QED
        BY <1>1, <2>1, RefusedIffFull DEF Refuse
<1> DEFINE A == \A t \in Threads : Refuse(t) => Dist(pos[t], put) + Len(text[t]) > RingSize
<1>2. TypeOK => [A]_vars
    BY <1>1
<1> QED
    BY <1>2, TypeCorrect, PTL DEF RefusedOnlyWhenFull

-----------------------------------------------------------------------------
(* The refinement of LogChannel.  With one printing thread each step of the *)
(* ring is a step of the bounded FIFO or leaves it alone.                   *)

Upto(m, k) == { j \in Log!Shown(m) : j <= k }

-----------------------------------------------------------------------------
(* The visible characters of a text.                                       *)

LEMMA UptoIsFinite ==
    ASSUME NEW m \in Seq(Chars), NEW k \in 0 .. Len(m)
    PROVE  /\ IsFiniteSet(Upto(m, k))
           /\ Log!Rank(m, k) = Cardinality(Upto(m, k))
           /\ Log!Rank(m, k) \in 0 .. k
<1>1. IsFiniteSet(1 .. k) /\ Cardinality(1 .. k) = k
    BY FS_Interval
<1>2. Upto(m, k) \in SUBSET (1 .. k)
    BY DEF Upto, Log!Shown
<1>3. IsFiniteSet(Upto(m, k)) /\ Cardinality(Upto(m, k)) <= k
    BY <1>1, <1>2, FS_Subset
<1>4. Cardinality(Upto(m, k)) \in Nat
    BY <1>3, FS_CardinalityType
<1>5. Log!Rank(m, k) = Cardinality(Upto(m, k))
    BY Zenon DEF Log!Rank, Upto, Log!Cardinality, Cardinality
<1> QED
    BY <1>3, <1>4, <1>5

\* Nothing comes before the first character, and each visible character is one
\* more.
LEMMA RankNext ==
    ASSUME NEW m \in Seq(Chars), NEW k \in 0 .. Len(m)
    PROVE  /\ k = 0 => Log!Rank(m, k) = 0
           /\ k < Len(m) /\ m[k + 1] = NUL => Log!Rank(m, k + 1) = Log!Rank(m, k)
           /\ k < Len(m) /\ m[k + 1] # NUL => Log!Rank(m, k + 1) = Log!Rank(m, k) + 1
<1>0. k = 0 => Log!Rank(m, k) = 0
    BY UptoIsFinite
<1>1. ASSUME k < Len(m), m[k + 1] = NUL
      PROVE  Log!Rank(m, k + 1) = Log!Rank(m, k)
    <2>1. Upto(m, k + 1) = Upto(m, k)
        BY <1>1 DEF Upto, Log!Shown
    <2> QED
        BY <1>1, <2>1, UptoIsFinite
<1>2. ASSUME k < Len(m), m[k + 1] # NUL
      PROVE  Log!Rank(m, k + 1) = Log!Rank(m, k) + 1
    <2>1. Upto(m, k + 1) = Upto(m, k) \cup {k + 1} /\ k + 1 \notin Upto(m, k)
        BY <1>2 DEF Upto, Log!Shown
    <2>2. k + 1 \in 0 .. Len(m)
        BY <1>2
    <2> QED
        BY <2>1, <2>2, UptoIsFinite, FS_AddElement
<1> QED
    BY <1>0, <1>1, <1>2

\* Two visible characters have different ranks.
LEMMA RankIsOrder ==
    ASSUME NEW m \in Seq(Chars), NEW k \in Log!Shown(m), NEW l \in Log!Shown(m), k < l
    PROVE  Log!Rank(m, k) < Log!Rank(m, l)
<1>1. k \in 0 .. Len(m) /\ l \in 0 .. Len(m)
    BY DEF Log!Shown
<1>2. Upto(m, k) \in SUBSET Upto(m, l) /\ l \in Upto(m, l) /\ l \notin Upto(m, k)
    BY <1>1 DEF Upto, Log!Shown
<1>3. Cardinality(Upto(m, k)) <= Cardinality(Upto(m, l))
      /\ Cardinality(Upto(m, k)) # Cardinality(Upto(m, l))
    BY <1>1, <1>2, UptoIsFinite, FS_Subset
<1> QED
    BY <1>1, <1>3, UptoIsFinite

\* The nth visible character is the one of rank n.
LEMMA VisibleNth ==
    ASSUME NEW m \in Seq(Chars), NEW k \in Log!Shown(m),
           NEW n \in 1 .. Log!Rank(m, Len(m)), Log!Rank(m, k) = n
    PROVE  Log!Visible(m)[n] = m[k]
<1> DEFINE l == CHOOSE j \in Log!Shown(m) : Log!Rank(m, j) = n
<1>1. l \in Log!Shown(m) /\ Log!Rank(m, l) = n
    OBVIOUS
<1>2. k \in Int /\ l \in Int
    BY <1>1 DEF Log!Shown
<1> HIDE DEF l
<1>3. ~(k < l) /\ ~(l < k)
    BY <1>1, RankIsOrder
<1>4. k = l
    BY <1>2, <1>3
<1> QED
    BY <1>4 DEF l, Log!Visible

-----------------------------------------------------------------------------
(* Going round the ring.                                                   *)

LEMMA WrapAhead ==
    ASSUME NEW p \in Cells, NEW n \in 0 .. RingSize - 1
    PROVE  /\ Wrap(p + n) \in Cells
           /\ Dist(p, Wrap(p + n)) = n
           /\ Wrap(Wrap(p + n) + 1) = Wrap(p + (n + 1))
BY RingAssumption DEF Cells, Wrap, Dist

LEMMA WrapApart ==
    ASSUME NEW p \in Cells, NEW a \in 0 .. RingSize - 1, NEW b \in 0 .. RingSize - 1, a # b
    PROVE  Wrap(p + a) # Wrap(p + b)
BY RingAssumption DEF Cells, Wrap

LEMMA DistBelowSize ==
    ASSUME NEW a \in Cells, NEW b \in Cells
    PROVE  /\ Dist(a, b) \in Cells /\ Dist(a, b) \in Nat /\ Dist(a, b) < RingSize
           /\ RingSize \in Nat
BY RingAssumption DEF Dist, Cells

\* n cells past put are as many more from get, or back at get.
LEMMA DistBeyond ==
    ASSUME NEW g \in Cells, NEW p \in Cells, NEW n \in Nat, Dist(g, p) + n <= RingSize
    PROVE  Dist(g, Wrap(p + n)) =
               IF Dist(g, p) + n = RingSize THEN 0 ELSE Dist(g, p) + n
BY RingAssumption DEF Cells, Wrap, Dist

\* The cell that is k-th from get is the n-th from put.
LEMMA FromPut ==
    ASSUME NEW g \in Cells, NEW p \in Cells, NEW n \in 1 .. RingSize,
           Dist(g, p) + n <= RingSize
    PROVE  Wrap(g + (Dist(g, p) + n) - 1) = Wrap(p + n - 1)
BY RingAssumption DEF Cells, Wrap, Dist

-----------------------------------------------------------------------------
(* FifoInv.                                                                *)

LEMMA InitFifoInv == Init => FifoInv
BY DEF Init, PowerOn, FifoInv, InitPCs, ProutPCs, CopyPCs

\* The loop of a fragment: what was copied lies past put.
Copied(t) ==
    /\ Dist(get, put) + Len(text[t]) <= RingSize
    /\ start[t] = Wrap(put + Log!Rank(text[t], i[t]))
    /\ \A n \in 1 .. Log!Rank(text[t], i[t]) :
         \E k \in Log!Shown(text[t]) :
             /\ k <= i[t] /\ Log!Rank(text[t], k) = n
             /\ data[Wrap(put + n - 1)] = text[t][k]

\* Everything else FifoInv says.
Around(t) ==
    /\ pc[t] \in InitPCs => ~isInitialized
    /\ pc[t] = "get" => put = 0
    /\ pc[t] \in {"magic", "flag"} => get = put
    /\ pc[t] \in ProutPCs => text[t] \in Texts
    /\ pc[t] = "store" => Char(t) # NUL

LEMMA FifoParts ==
    FifoInv <=> \A t \in Threads : Around(t) /\ (pc[t] \in CopyPCs => Copied(t))
BY DEF FifoInv, Around, Copied

LEMMA NextAround ==
    ASSUME NEW t, Threads = {t}, TypeOK, Around(t), [Next]_vars
    PROVE  Around(t)'
<1>p. pc \in [Threads -> PCs] /\ text \in [Threads -> Texts \cup {<<>>}]
      /\ t \in Threads
    BY DEF TypeOK
<1> USE <1>p DEF Around, Char, InitPCs, ProutPCs, CopyPCs, device, static, locals, Goto
<1>1. CASE HostTake
    BY <1>1 DEF HostTake
<1>2. CASE Reset
    BY <1>2 DEF Reset
<1>3. CASE Call(t) \/ Fragment(t) \/ Done(t)
    BY <1>3 DEF Call, Fragment, Done
<1>4. CASE INITIALIZE(t)
    <2>1. CASE Test(t) \/ InitHandle(t)
        BY <2>1 DEF Test, InitHandle
    <2>2. CASE InitPut(t) \/ InitGet(t)
        BY <2>2 DEF InitPut, InitGet
    <2>3. CASE InitMagic(t) \/ SetInitialized(t)
        BY <2>3 DEF InitMagic, SetInitialized
    <2> QED
        BY <1>4, <2>1, <2>2, <2>3 DEF INITIALIZE
<1>5. CASE is_proutSyncPrintf(t)
    <2>1. CASE NoViewer(t) \/ Refuse(t) \/ Publish(t)
        BY <2>1 DEF NoViewer, Refuse, Publish
    <2>2. CASE ReadMagic(t) \/ ReadGet(t) \/ Admit(t)
        BY <2>2 DEF ReadMagic, ReadGet, Admit
    <2>3. CASE SkipNul(t) \/ ReadWord(t) \/ StoreWord(t)
        BY <2>3 DEF SkipNul, ReadWord, StoreWord
    <2> QED
        BY <1>5, <2>1, <2>2, <2>3 DEF is_proutSyncPrintf
<1>6. CASE UNCHANGED vars
    BY <1>6 DEF vars
<1> QED
    BY <1>1, <1>2, <1>3, <1>4, <1>5, <1>6 DEF Next, Thread

\* A store of the copy loop: one more visible character, one cell further on.
LEMMA StoreKeepsCopied ==
    ASSUME NEW t, Threads = {t}, TypeOK, SoloInv, Around(t), Copied(t), StoreWord(t)
    PROVE  Copied(t)'
<1> DEFINE m == text[t]
           k == i[t]
           r == Log!Rank(m, k)
<1>1. /\ t \in Threads /\ m \in Seq(Chars) /\ Len(m) \in Nat /\ k \in Nat
      /\ get \in Cells /\ put \in Cells /\ data \in [Cells -> Chars]
      /\ start \in [Threads -> Cells] /\ i \in [Threads -> Nat]
    BY TextIsSeq DEF TypeOK
<1>2. pc[t] = "store" /\ k < Len(m)
    BY <1>1 DEF TypeOK, StoreWord, Goto, More
<1>3. /\ get' = get /\ put' = put /\ text' = text
      /\ i'[t] = k + 1 /\ start'[t] = Wrap(start[t] + 1)
      /\ data' = [c \in Cells |-> IF c = start[t] THEN m[k + 1]
                                  ELSE IF c \in WordOf(start[t]) THEN word[t][c]
                                  ELSE data[c]]
    BY <1>1 DEF StoreWord, Char
<1>4. \A c \in Cells : data'[c] = IF c = start[t] THEN m[k + 1] ELSE data[c]
    BY <1>1, <1>2, <1>3 DEF SoloInv
<1>5. /\ Dist(get, put) + Len(m) <= RingSize
      /\ start[t] = Wrap(put + r)
      /\ \A n \in 1 .. r : \E j \in Log!Shown(m) :
             j <= k /\ Log!Rank(m, j) = n /\ data[Wrap(put + n - 1)] = m[j]
    BY DEF Copied
<1>6. Dist(get, put) \in Nat
    BY <1>1, DistInCells DEF Cells
<1>7. r \in 0 .. k /\ r \in 0 .. RingSize - 1
    BY <1>1, <1>2, <1>5, <1>6, UptoIsFinite, RingAssumption
<1>8. m[k + 1] # NUL
    BY <1>2 DEF Around, Char
<1>9. Log!Rank(m, k + 1) = r + 1
    BY <1>1, <1>2, <1>8, RankNext
<1>10. start'[t] = Wrap(put + (r + 1))
    BY <1>1, <1>3, <1>5, <1>7, WrapAhead
<1>11. \A n \in 1 .. r + 1 : \E j \in Log!Shown(m) :
           j <= k + 1 /\ Log!Rank(m, j) = n /\ data'[Wrap(put + n - 1)] = m[j]
    <2>1. ASSUME NEW n \in 1 .. r
          PROVE  \E j \in Log!Shown(m) :
                   j <= k + 1 /\ Log!Rank(m, j) = n /\ data'[Wrap(put + n - 1)] = m[j]
        <3>1. PICK j \in Log!Shown(m) :
                  j <= k /\ Log!Rank(m, j) = n /\ data[Wrap(put + n - 1)] = m[j]
            BY <1>5
        <3>a. RingSize \in Int /\ r \in Int /\ put \in Int /\ r <= RingSize - 1
            BY <1>1, <1>7, RingAssumption DEF Cells
        <3>2. n - 1 \in 0 .. RingSize - 1 /\ n - 1 # r /\ put + n - 1 = put + (n - 1)
            BY <3>a
        <3>3. Wrap(put + n - 1) \in Cells /\ Wrap(put + n - 1) # start[t]
            BY <1>1, <1>5, <1>7, <3>2, WrapAhead, WrapApart
        <3>4. data'[Wrap(put + n - 1)] = m[j]
            BY <1>4, <3>1, <3>3
        <3>5. j <= k + 1
            BY <1>1, <3>1 DEF Log!Shown
        <3> QED
            BY <3>1, <3>4, <3>5
    <2>2. \E j \in Log!Shown(m) :
              j <= k + 1 /\ Log!Rank(m, j) = r + 1 /\ data'[Wrap(put + (r + 1) - 1)] = m[j]
        <3>1. k + 1 \in Log!Shown(m)
            BY <1>1, <1>2, <1>8 DEF Log!Shown
        <3>2. put + (r + 1) - 1 = put + r
            BY <1>1, <1>7 DEF Cells
        <3>3. data'[start[t]] = m[k + 1]
            BY <1>1, <1>4
        <3> QED
            BY <1>1, <1>5, <1>9, <3>1, <3>2, <3>3
    <2>3. \A n \in 1 .. r + 1 : n \in 1 .. r \/ n = r + 1
        BY <1>7
    <2> QED
        BY <2>1, <2>2, <2>3
<1> QED
    BY <1>3, <1>5, <1>9, <1>10, <1>11 DEF Copied

\* What the check found room for is all there is to copy.
LEMMA AdmitBeginsCopied ==
    ASSUME NEW t, Threads = {t}, TypeOK, SoloInv, Admit(t)
    PROVE  Copied(t)'
<1>1. /\ t \in Threads /\ text[t] \in Seq(Chars) /\ Len(text[t]) \in Nat
      /\ get \in Cells /\ put \in Cells /\ pos[t] \in Cells
      /\ start \in [Threads -> Cells]
    BY TextIsSeq DEF TypeOK
<1>2. i[t] = 0 /\ Dist(get, put) <= Dist(pos[t], put)
    BY <1>1 DEF TypeOK, SoloInv, Admit, Goto, CopyPCs
<1>3. Dist(pos[t], put) + Len(text[t]) <= RingSize
    <2>1. ~(Dist(pos[t], put) + Len(text[t]) > RingSize)
        BY <1>1, RefusedIffFull DEF Admit
    <2> QED
        BY <1>1, <2>1, DistInCells, RingAssumption DEF Cells
<1>4. Dist(get, put) + Len(text[t]) <= RingSize
    <2>1. Dist(get, put) \in Int /\ Dist(pos[t], put) \in Int /\ RingSize \in Int
        BY <1>1, DistBelowSize
    <2> QED
        BY <1>1, <1>2, <1>3, <2>1
<1>5. Log!Rank(text[t], 0) = 0
    BY <1>1, RankNext
<1>6. Wrap(put + 0) = put
    BY <1>1, RingAssumption DEF Cells, Wrap
<1>7. UNCHANGED <<get, put, data, text, i>> /\ start'[t] = put
    BY <1>1 DEF Admit, device
<1> QED
    BY <1>2, <1>4, <1>5, <1>6, <1>7 DEF Copied

LEMMA NextCopied ==
    ASSUME NEW t, Threads = {t}, TypeOK, SoloInv, Around(t),
           pc[t] \in CopyPCs => Copied(t), [Next]_vars
    PROVE  (pc[t] \in CopyPCs => Copied(t))'
<1>a. /\ t \in Threads /\ pc \in [Threads -> PCs] /\ i \in [Threads -> Nat]
      /\ text[t] \in Seq(Chars) /\ Len(text[t]) \in Nat /\ i[t] <= Len(text[t])
      /\ get \in Cells /\ put \in Cells
    BY TextIsSeq DEF TypeOK
<1> USE <1>a DEF CopyPCs, device, static, locals, Goto
<1>1. CASE HostTake
    <2>1. UNCHANGED <<put, data, pc, text, i, start>>
        BY <1>1 DEF HostTake
    <2>2. Dist(get', put) = Dist(get, put) - 1 /\ Dist(get, put) \in Nat
        BY <1>1, DistTake, DistInCells DEF HostTake, Cells
    <2>3. Dist(get, put) + Len(text[t]) <= RingSize
          => Dist(get', put) + Len(text[t]) <= RingSize
        BY <2>2, RingAssumption
    <2> QED
        BY <2>1, <2>3 DEF Copied
<1>2. CASE Reset
    BY <1>2 DEF Reset
<1>3. CASE Call(t) \/ Fragment(t) \/ Done(t)
    BY <1>3 DEF Call, Fragment, Done
<1>4. CASE INITIALIZE(t)
    BY <1>4 DEF INITIALIZE, Test, InitHandle, InitPut, InitGet, InitMagic, SetInitialized
<1>5. CASE NoViewer(t) \/ ReadMagic(t) \/ ReadGet(t) \/ Refuse(t) \/ Publish(t)
    BY <1>5 DEF NoViewer, ReadMagic, ReadGet, Refuse, Publish
<1>6. CASE Admit(t)
    BY <1>6, AdmitBeginsCopied
<1>7. CASE SkipNul(t)
    <2> DEFINE r == Log!Rank(text[t], i[t])
    <2>1. Copied(t) /\ i[t] < Len(text[t]) /\ text[t][i[t] + 1] = NUL
        BY <1>7 DEF SkipNul, More, Char
    <2>2. UNCHANGED <<get, put, data, text, start>> /\ i'[t] = i[t] + 1
        BY <1>7 DEF SkipNul
    <2>3. Log!Rank(text[t], i[t] + 1) = r
        BY <2>1, RankNext
    <2>4. \A k \in Log!Shown(text[t]) : k <= i[t] => k <= i[t] + 1
        BY DEF Log!Shown
    <2> QED
        BY <2>1, <2>2, <2>3, <2>4 DEF Copied
<1>8. CASE ReadWord(t)
    <2>1. Copied(t)
        BY <1>8 DEF ReadWord
    <2>2. UNCHANGED <<get, put, data, text, i, start>>
        BY <1>8 DEF ReadWord
    <2> QED
        BY <2>1, <2>2 DEF Copied
<1>9. CASE StoreWord(t)
    <2>1. Copied(t)
        BY <1>9 DEF StoreWord
    <2> QED
        BY <1>9, <2>1, StoreKeepsCopied
<1>10. CASE UNCHANGED vars
    BY <1>10 DEF vars, Copied
<1> QED
    BY <1>1, <1>2, <1>3, <1>4, <1>5, <1>6, <1>7, <1>8, <1>9, <1>10
    DEF Next, Thread, is_proutSyncPrintf

LEMMA NextFifoInv ==
    ASSUME NEW t, Threads = {t}
    PROVE  TypeOK /\ SoloInv /\ FifoInv /\ [Next]_vars => FifoInv'
<1> SUFFICES ASSUME TypeOK, SoloInv, FifoInv, [Next]_vars PROVE FifoInv'
    OBVIOUS
<1>1. Around(t) /\ (pc[t] \in CopyPCs => Copied(t))
    BY FifoParts
<1>2. Around(t)' /\ (pc[t] \in CopyPCs => Copied(t))'
    BY <1>1, NextAround, NextCopied
<1> QED
    BY <1>2 DEF FifoInv, Around, Copied

-----------------------------------------------------------------------------
(* The steps of the ring and those of the log.                             *)

unread == [k \in 1 .. Dist(get, put) |-> data[Wrap(get + k - 1)]]

\* The cells of what is unread, and that they hold characters.
LEMMA UnreadCells ==
    ASSUME TypeOK, NEW k \in 1 .. Dist(get, put)
    PROVE  Wrap(get + k - 1) \in Unread
<1>1. get \in Cells /\ put \in Cells
    BY DEF TypeOK
<1>2. Dist(get, put) \in Cells /\ RingSize \in Int
    BY <1>1, DistInCells, RingAssumption
<1>3. k - 1 \in 0 .. RingSize - 1 /\ k - 1 < Dist(get, put) /\ get + k - 1 = get + (k - 1)
    BY <1>1, <1>2 DEF Cells
<1>4. Wrap(get + k - 1) \in Cells /\ Dist(get, Wrap(get + k - 1)) = k - 1
    BY <1>1, <1>3, WrapAhead
<1> QED
    BY <1>3, <1>4 DEF Unread

\* So many cells from g on are a sequence of characters.
LEMMA RunIsSeq ==
    ASSUME NEW g \in Cells, NEW n \in Nat, n <= RingSize, NEW d \in [Cells -> Chars]
    PROVE  /\ [k \in 1 .. n |-> d[Wrap(g + k - 1)]] \in Seq(Chars)
           /\ Len([k \in 1 .. n |-> d[Wrap(g + k - 1)]]) = n
<1>1. ASSUME NEW k \in 1 .. n PROVE d[Wrap(g + k - 1)] \in Chars
    <2>1. k - 1 \in 0 .. RingSize - 1 /\ g + k - 1 = g + (k - 1)
        BY RingAssumption DEF Cells
    <2> QED
        BY <2>1, WrapAhead
<1> QED
    BY <1>1

LEMMA UnreadIsSeq ==
    ASSUME TypeOK
    PROVE  /\ Dist(get, put) \in Nat /\ Dist(get, put) < RingSize
           /\ unread \in Seq(Chars)
           /\ Len(unread) = Dist(get, put)
<1>1. get \in Cells /\ put \in Cells /\ data \in [Cells -> Chars]
    BY DEF TypeOK
<1>2. Dist(get, put) \in Nat /\ Dist(get, put) < RingSize /\ RingSize \in Nat
    BY <1>1, DistBelowSize
<1>3. Dist(get, put) <= RingSize
    BY <1>2
<1> QED
    BY <1>1, <1>2, <1>3, RunIsSeq DEF unread

\* Nothing unread changes while get and put stay.
LEMMA SameUnread ==
    ASSUME NEW t, Threads = {t}, TypeOK, SoloInv, [Next]_vars, UNCHANGED <<get, put>>
    PROVE  unread' = unread
<1>1. \A c \in Unread : data'[c] = data[c]
    BY StepKeepsUnread
<1>2. \A k \in 1 .. Dist(get, put) :
          data'[Wrap(get + k - 1)] = data[Wrap(get + k - 1)]
    BY <1>1, UnreadCells
<1> QED
    BY <1>2 DEF unread

LEMMA TakeIsTake ==
    ASSUME TypeOK, HostTake
    PROVE  unread # <<>> /\ unread' = Tail(unread)
<1>1. get \in Cells /\ put \in Cells /\ get # put /\ get' = Wrap(get + 1)
      /\ UNCHANGED <<put, data>>
    BY DEF TypeOK, HostTake
<1> DEFINE n == Dist(get, put)
<1>2. Dist(get', put) = n - 1 /\ n \in Nat /\ n # 0 /\ n < RingSize
    BY <1>1, DistTake, DistInCells, DistBelowSize
<1>3. \A k \in 1 .. n - 1 : Wrap(get' + k - 1) = Wrap(get + (k + 1) - 1)
    <2> SUFFICES ASSUME NEW k \in 1 .. n - 1
                 PROVE  Wrap(Wrap(get + 1) + k - 1) = Wrap(get + (k + 1) - 1)
        BY <1>1
    <2>1. k \in 1 .. RingSize - 1
        BY <1>2, RingAssumption
    <2> QED
        BY <1>1, <2>1, RingAssumption DEF Cells, Wrap
<1>4. unread \in Seq(Chars) /\ Len(unread) = n /\ unread # <<>>
    BY <1>2, UnreadIsSeq
<1>5. unread' = [k \in 1 .. n - 1 |-> data[Wrap(get' + k - 1)]]
    BY <1>1, <1>2 DEF unread
<1>6. unread' \in Seq(Chars) /\ Len(unread') = n - 1
    <2>1. get' \in Cells /\ n - 1 \in Nat /\ n - 1 <= RingSize /\ data \in [Cells -> Chars]
        BY <1>1, <1>2, WrapInCells, RingAssumption DEF TypeOK
    <2> QED
        BY <1>5, <2>1, RunIsSeq
<1>7. /\ Tail(unread) \in Seq(Chars) /\ Len(Tail(unread)) = n - 1
      /\ \A k \in 1 .. n - 1 : Tail(unread)[k] = unread[k + 1]
    BY <1>4, HeadTailProperties
<1>8. \A k \in 1 .. n - 1 : unread[k + 1] = data[Wrap(get + (k + 1) - 1)]
    BY <1>2 DEF unread
<1>9. \A k \in 1 .. n - 1 : unread'[k] = Tail(unread)[k]
    BY <1>3, <1>5, <1>7, <1>8
<1> QED
    BY <1>4, <1>6, <1>7, <1>9, SeqEqual

\* The fragment that was copied becomes unread as a whole, or overruns.
LEMMA PublishAppends ==
    ASSUME NEW t, Threads = {t}, TypeOK, Copied(t), Publish(t)
    PROVE  /\ Len(unread) + Len(text[t]) <= RingSize
           /\ unread' = IF Len(unread \o Log!Visible(text[t])) = RingSize THEN <<>>
                        ELSE unread \o Log!Visible(text[t])
<1> DEFINE m == text[t]
           r == Log!Rank(m, Len(m))
           v == Log!Visible(m)
           n == Dist(get, put)
<1>1. /\ t \in Threads /\ m \in Seq(Chars) /\ Len(m) \in Nat
      /\ get \in Cells /\ put \in Cells /\ data \in [Cells -> Chars]
      /\ i[t] \in Nat /\ i[t] <= Len(m) /\ RingSize \in Nat
    BY TextIsSeq, RingAssumption DEF TypeOK
<1>2. i[t] = Len(m) /\ put' = start[t] /\ UNCHANGED <<get, data>>
    BY <1>1 DEF Publish, More
<1>3. /\ n + Len(m) <= RingSize
      /\ start[t] = Wrap(put + r)
      /\ \A l \in 1 .. r : \E k \in Log!Shown(m) :
             k <= Len(m) /\ Log!Rank(m, k) = l /\ data[Wrap(put + l - 1)] = m[k]
    BY <1>2 DEF Copied
<1>4. n \in Nat /\ n < RingSize /\ unread \in Seq(Chars) /\ Len(unread) = n
    BY UnreadIsSeq
<1>5. r \in Nat /\ r <= Len(m)
    BY <1>1, UptoIsFinite
<1>6. \A l \in 1 .. r : v[l] = data[Wrap(put + l - 1)] /\ v[l] \in Chars
    <2> SUFFICES ASSUME NEW l \in 1 .. r
                 PROVE  v[l] = data[Wrap(put + l - 1)] /\ v[l] \in Chars
        OBVIOUS
    <2>1. PICK k \in Log!Shown(m) : Log!Rank(m, k) = l /\ data[Wrap(put + l - 1)] = m[k]
        BY <1>3
    <2>2. v[l] = m[k]
        BY <1>1, <2>1, VisibleNth
    <2>3. m[k] \in Chars
        BY <1>1 DEF Log!Shown
    <2> QED
        BY <2>1, <2>2, <2>3
<1>7. v \in Seq(Chars) /\ Len(v) = r
    <2>1. \E f : v = [l \in 1 .. r |-> f[l]]
        <3>1. v = [l \in 1 .. r |-> v[l]]
            BY DEF Log!Visible
        <3> QED
            BY <3>1
    <2> QED
        BY <1>5, <1>6, <2>1
<1>8. n + r <= RingSize
    BY <1>1, <1>3, <1>4, <1>5
<1>9. Dist(get', put') = IF n + r = RingSize THEN 0 ELSE n + r
    BY <1>1, <1>2, <1>3, <1>5, <1>8, DistBeyond
<1>10. /\ unread \o v \in Seq(Chars) /\ Len(unread \o v) = n + r
       /\ \A k \in 1 .. n + r :
              (unread \o v)[k] = IF k <= n THEN unread[k] ELSE v[k - n]
    <2> HIDE DEF r, v, n
    <2> QED
        BY <1>4, <1>7, ConcatProperties
<1>11. CASE n + r = RingSize
    <2>1. unread' = <<>>
        BY <1>9, <1>11 DEF unread
    <2> QED
        BY <1>3, <1>4, <1>10, <1>11, <2>1
<1>12. CASE n + r # RingSize
    <2>1. unread' = [k \in 1 .. n + r |-> data[Wrap(get + k - 1)]]
        BY <1>2, <1>9, <1>12 DEF unread
    <2>2. unread' \in Seq(Chars) /\ Len(unread') = n + r
        <3>1. n + r \in Nat
            BY <1>4, <1>5
        <3> QED
            BY <1>1, <1>8, <2>1, <3>1, RunIsSeq
    <2>3. \A k \in 1 .. n + r : unread'[k] = (unread \o v)[k]
        <3> SUFFICES ASSUME NEW k \in 1 .. n + r
                     PROVE  data[Wrap(get + k - 1)] = (unread \o v)[k]
            BY <2>1
        <3>1. CASE k <= n
            BY <1>4, <1>10, <3>1 DEF unread
        <3>2. CASE ~(k <= n)
            <4>1. k - n \in 1 .. r /\ n + (k - n) = k /\ k - n \in 1 .. RingSize
                  /\ n + (k - n) <= RingSize
                BY <1>1, <1>4, <1>5, <1>8, <3>2
            <4>2. Wrap(get + k - 1) = Wrap(put + (k - n) - 1)
                BY <1>1, <4>1, FromPut
            <4> QED
                BY <1>6, <1>10, <3>2, <4>1, <4>2
        <3> QED
            BY <3>1, <3>2
    <2>4. unread' = unread \o v
        BY <1>10, <2>2, <2>3, SeqEqual
    <2> QED
        BY <1>3, <1>4, <1>10, <1>12, <2>4
<1> QED
    BY <1>11, <1>12

\* Whatever isPrintfInit writes, the cells between get and put are a sequence of
\* characters shorter than the ring.
LEMMA BootIsBoot ==
    ASSUME NEW t, Threads = {t}, TypeOK, FifoInv, InitPut(t) \/ InitGet(t)
    PROVE  Log!Boot
<1>1. /\ t \in Threads /\ data \in [Cells -> Chars] /\ 0 \in Cells
      /\ get \in Cells /\ put \in Cells
    BY RingAssumption DEF TypeOK, Cells
<1>2. get' \in Cells /\ put' \in Cells /\ UNCHANGED <<data, isInitialized>>
    BY <1>1 DEF InitPut, InitGet, static
<1>3. ~isInitialized
    BY <1>1 DEF FifoInv, InitPut, InitGet, Goto, InitPCs
<1>4. isInitialized' = FALSE
    BY <1>2, <1>3 DEF TypeOK
<1>5. Dist(get', put') \in Nat /\ Dist(get', put') < RingSize /\ Dist(get', put') <= RingSize
    BY <1>2, DistBelowSize
<1>6. unread' = [k \in 1 .. Dist(get', put') |-> data[Wrap(get' + k - 1)]]
    BY <1>2 DEF unread
<1>7. unread' \in Seq(Chars) /\ Len(unread') = Dist(get', put')
    BY <1>1, <1>2, <1>5, <1>6, RunIsSeq
<1>8. unread' \in Seq(Chars) /\ Len(unread') < RingSize
    BY <1>5, <1>7
<1> QED
    BY <1>3, <1>4, <1>8 DEF Log!Boot, unread

LEMMA ReadyIsReady ==
    ASSUME NEW t, Threads = {t}, TypeOK, FifoInv, SetInitialized(t)
    PROVE  Log!Ready
<1>1. ~isInitialized /\ get = put /\ get \in Cells
    BY DEF FifoInv, SetInitialized, Goto, InitPCs, TypeOK
<1>2. isInitialized' = TRUE /\ UNCHANGED <<get, put, data>>
    BY DEF SetInitialized, device
<1>3. Dist(get, put) = 0
    BY <1>1, DistInCells
<1>4. unread' = <<>>
    BY <1>2, <1>3 DEF unread
<1> QED
    BY <1>1, <1>2, <1>4 DEF Log!Ready, unread

LEMMA PublishIsPrintText ==
    ASSUME NEW t, Threads = {t}, TypeOK, InitInv, FifoInv, Publish(t)
    PROVE  text[t] \in Texts /\ Log!PrintText(text[t])
<1>1. /\ text[t] \in Texts
      /\ Copied(t)
    BY DEF FifoInv, Copied, Publish, Goto, ProutPCs, CopyPCs
<1>2. isInitialized
    BY DEF InitInv, UsedAfterInit, Publish, Goto, ProutPCs, CopyPCs
<1>3. isInitialized' = isInitialized
    BY DEF Publish, static
<1> QED
    BY <1>1, <1>2, <1>3, PublishAppends DEF Log!PrintText, unread

\* Every step of the ring is a step of the log or none.
LEMMA StepIsLogStep ==
    ASSUME NEW t, Threads = {t}, TypeOK, InitInv, SoloInv, FifoInv, [Next]_vars
    PROVE  [Log!Next]_(Log!vars)
<1>a. ASSUME UNCHANGED <<get, put, isInitialized>> PROVE UNCHANGED Log!vars
    <2>1. unread' = unread
        BY <1>a, SameUnread
    <2> QED
        BY <1>a, <2>1 DEF Log!vars, unread
<1>1. CASE HostTake
    <2>1. Log!Take
        BY <1>1, TakeIsTake DEF HostTake, static, Log!Take, unread
    <2> QED
        BY <2>1 DEF Log!Next
<1>2. CASE Reset
    <2>1. unread' = unread /\ isInitialized' = FALSE
        BY <1>2 DEF Reset, device, unread
    <2>2. Log!Restart
        BY <2>1 DEF Log!Restart, unread
    <2> QED
        BY <2>2 DEF Log!Next
<1>3. CASE Call(t) \/ Fragment(t) \/ Done(t)
    BY <1>3, <1>a DEF Call, Fragment, Done, device, static
<1>4. CASE Test(t) \/ InitHandle(t) \/ InitMagic(t)
    BY <1>4, <1>a DEF Test, InitHandle, InitMagic, device, static
<1>5. CASE InitPut(t) \/ InitGet(t)
    BY <1>5, BootIsBoot DEF Log!Next
<1>6. CASE SetInitialized(t)
    BY <1>6, ReadyIsReady DEF Log!Next
<1>7. CASE NoViewer(t) \/ ReadMagic(t) \/ ReadGet(t) \/ Admit(t) \/ Refuse(t)
    BY <1>7, <1>a DEF NoViewer, ReadMagic, ReadGet, Admit, Refuse, device, static
<1>8. CASE SkipNul(t) \/ ReadWord(t) \/ StoreWord(t)
    BY <1>8, <1>a DEF SkipNul, ReadWord, StoreWord, device, static
<1>9. CASE Publish(t)
    BY <1>9, PublishIsPrintText DEF Log!Next
<1>10. CASE UNCHANGED vars
    BY <1>10, <1>a DEF vars, device, static
<1> QED
    BY <1>1, <1>2, <1>3, <1>4, <1>5, <1>6, <1>7, <1>8, <1>9, <1>10
    DEF Next, Thread, INITIALIZE, is_proutSyncPrintf

LEMMA InitIsLogInit == Init => Log!Init
<1> SUFFICES ASSUME Init PROVE Log!Init
    OBVIOUS
<1>1. isInitialized = FALSE /\ Dist(get, put) = 0
    BY DEF Init, PowerOn, Dist
<1>2. unread = <<>>
    BY <1>1 DEF unread
<1> QED
    BY <1>1, <1>2 DEF Log!Init, unread

\* What the refinement needs of every state.
RingInv == TypeOK /\ InitInv /\ SoloInv /\ FifoInv

LEMMA RingInvariant ==
    ASSUME NEW t, Threads = {t}
    PROVE  Spec => []RingInv
<1>1. Init => RingInv
    BY InitTypeOK, InitInitInv, InitSoloInv, InitFifoInv DEF RingInv
<1>2. RingInv /\ [Next]_vars => RingInv'
    BY NextTypeOK, NextInitInv, NextSoloInv, NextFifoInv DEF RingInv
<1> QED
    BY <1>1, <1>2, PTL DEF Spec

\* n64_io.c's ring, printed to by one thread and drained by the host, with
\* console resets at any step: every fragment reaches the host whole, in order
\* and once, or not at all, and only the one that takes the last cell loses text.
THEOREM RingImplementsFifo ==
    ASSUME NEW t, Threads = {t}
    PROVE  Spec => RingIsFifo
<1>1. RingInv /\ [Next]_vars => [Log!Next]_(Log!vars)
    BY StepIsLogStep DEF RingInv
<1>2. Init => Log!Init
    BY InitIsLogInit
<1> QED
    BY <1>1, <1>2, RingInvariant, PTL DEF Spec, RingIsFifo, Log!Spec
=============================================================================
