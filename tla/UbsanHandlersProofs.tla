------------------------ MODULE UbsanHandlersProofs ------------------------
(***************************************************************************)
(* Machine-checked proofs about UbsanHandlers, for every set of threads,   *)
(* operations and locations and every width of a handle.                   *)
(***************************************************************************)
EXTENDS UbsanHandlers, SequenceTheorems, PowersOfTwo

\* What a Printf of a diagnostic can print.
Frame == { Text("bold"), Text("file"), Text(":line"), Text(":column"), Text("<unknown>"),
           Text(":"), Text("runtime error"), Text("reset") }
Messages(op) ==
    handleTypeMismatchImpl(op) \cup handleIntegerOverflowImpl(op)
    \cup handleNegateOverflowImpl(op) \cup handleDivremOverflowImpl(op)
    \cup handleShiftOutOfBoundsImpl(op) \cup handleOutOfBoundsImpl(op)
    \cup handlePointerOverflowImpl(op) \cup handleFloatCastOverflow(op)
Pieces == Frame \cup UNION { Messages(op) : op \in Operations }

\* s starts with first, ends with last and has middle in it.
Framed(s, first, middle, last) ==
    /\ s # <<>>
    /\ s[1] = first
    /\ s[Len(s)] = last
    /\ \E k \in DOMAIN s : s[k] = middle

Diagnostics ==
    { d \in Seq(Pieces) : Framed(d, Text("bold"), Text("runtime error"), Text("reset")) }

-----------------------------------------------------------------------------
(* Sequences.                                                              *)

LEMMA Singleton ==
    ASSUME NEW S, NEW x \in S
    PROVE  /\ <<x>> \in Seq(S)
           /\ Len(<<x>>) = 1
           /\ <<x>>[1] = x
OBVIOUS

LEMMA Four ==
    ASSUME NEW S, NEW p \in S, NEW q \in S, NEW m \in S, NEW r \in S
    PROVE  /\ <<p, q, m, r>> \in Seq(S)
           /\ Len(<<p, q, m, r>>) = 4
           /\ <<p, q, m, r>>[2] = q
           /\ <<p, q, m, r>>[4] = r
OBVIOUS

LEMMA ConcatInSeq ==
    ASSUME NEW S, NEW s \in Seq(S), NEW u \in Seq(S)
    PROVE  s \o u \in Seq(S)
BY ConcatProperties

\* What is put around w frames it.
LEMMA AroundIsFramed ==
    ASSUME NEW S, NEW w \in Seq(S),
           NEW b \in S, NEW p \in S, NEW q \in S, NEW m \in S, NEW r \in S
    PROVE  /\ (<<b>> \o w) \o <<p, q, m, r>> \in Seq(S)
           /\ Framed((<<b>> \o w) \o <<p, q, m, r>>, b, q, r)
<1> DEFINE one == <<b>>
           four == <<p, q, m, r>>
           bw == one \o w
           d == bw \o four
<1>1. one \in Seq(S) /\ Len(one) = 1 /\ one[1] = b
    BY Singleton
<1>2. /\ four \in Seq(S)
      /\ Len(four) = 4
      /\ four[2] = q
      /\ four[4] = r
    BY Four
<1> HIDE DEF one, four
<1>3. Len(w) \in Nat
    BY LenProperties
<1>4. /\ bw \in Seq(S)
      /\ Len(bw) = Len(w) + 1
      /\ bw[1] = b
    <2>1. /\ bw \in Seq(S)
          /\ Len(bw) = Len(one) + Len(w)
          /\ \A k \in 1 .. Len(one) + Len(w) :
                bw[k] = IF k <= Len(one) THEN one[k] ELSE w[k - Len(one)]
        BY <1>1, ConcatProperties
    <2>2. 1 \in 1 .. Len(one) + Len(w) /\ 1 <= Len(one)
        BY <1>1, <1>3
    <2>3. bw[1] = one[1]
        BY <2>1, <2>2
    <2> QED
        BY <1>1, <1>3, <2>1, <2>3
<1> HIDE DEF bw
<1>5. /\ d \in Seq(S)
      /\ Len(d) = Len(w) + 5
      /\ \A k \in 1 .. Len(w) + 5 :
            d[k] = IF k <= Len(w) + 1 THEN bw[k] ELSE four[k - (Len(w) + 1)]
    <2>1. /\ d \in Seq(S)
          /\ Len(d) = Len(bw) + Len(four)
          /\ \A k \in 1 .. Len(bw) + Len(four) :
                d[k] = IF k <= Len(bw) THEN bw[k] ELSE four[k - Len(bw)]
        BY <1>2, <1>4, ConcatProperties
    <2>2. Len(bw) + Len(four) = Len(w) + 5
        BY <1>2, <1>3, <1>4
    <2> QED
        BY <1>4, <2>1, <2>2
<1> HIDE DEF d
<1>6. d[1] = b
    <2>1. 1 \in 1 .. Len(w) + 5 /\ 1 <= Len(w) + 1
        BY <1>3
    <2>2. d[1] = bw[1]
        BY <1>5, <2>1
    <2> QED
        BY <1>4, <2>2
<1>7. d[Len(w) + 3] = q
    <2>1. /\ Len(w) + 3 \in 1 .. Len(w) + 5
          /\ ~(Len(w) + 3 <= Len(w) + 1)
          /\ (Len(w) + 3) - (Len(w) + 1) = 2
        BY <1>3
    <2>2. d[Len(w) + 3] = four[(Len(w) + 3) - (Len(w) + 1)]
        BY <1>5, <2>1
    <2> QED
        BY <1>2, <2>1, <2>2
<1>8. d[Len(w) + 5] = r
    <2>1. /\ Len(w) + 5 \in 1 .. Len(w) + 5
          /\ ~(Len(w) + 5 <= Len(w) + 1)
          /\ (Len(w) + 5) - (Len(w) + 1) = 4
        BY <1>3
    <2>2. d[Len(w) + 5] = four[(Len(w) + 5) - (Len(w) + 1)]
        BY <1>5, <2>1
    <2> QED
        BY <1>2, <2>1, <2>2
<1>9. d # <<>>
    BY <1>3, <1>5, EmptySeq
<1>10. \E k \in DOMAIN d : d[k] = q
    <2>1. DOMAIN d = 1 .. Len(w) + 5
        BY <1>5, LenProperties
    <2>2. Len(w) + 3 \in 1 .. Len(w) + 5
        BY <1>3
    <2> QED
        BY <1>7, <2>1, <2>2
<1>11. d[Len(d)] = r
    BY <1>5, <1>8
<1>12. d \in Seq(S) /\ Framed(d, b, q, r)
    BY <1>5, <1>6, <1>9, <1>10, <1>11 DEF Framed
<1> QED
    BY <1>12 DEF d, bw, one, four

\* The last one of a sequence is its head when its tail is empty, and stays
\* the last one otherwise.
LEMMA LastOfTail ==
    ASSUME NEW S, NEW u \in Seq(S), u # <<>>
    PROVE  /\ Tail(u) = <<>> => Head(u) = u[Len(u)]
           /\ Tail(u) # <<>> => Tail(u)[Len(Tail(u))] = u[Len(u)]
<1> DEFINE v == Tail(u)
           n == Len(v)
<1>1. Len(u) \in Nat \ {0}
    BY EmptySeq
<1>2. /\ v \in Seq(S)
      /\ n = Len(u) - 1
      /\ \A i \in 1 .. n : v[i] = u[i + 1]
    BY HeadTailProperties
<1>3. Head(u) = u[1]
    OBVIOUS
<1> HIDE DEF v
<1>4. ASSUME v = <<>> PROVE Head(u) = u[Len(u)]
    <2>1. Len(<<>>) = 0
        BY EmptySeq
    <2>2. n = 0
        BY <1>4, <2>1
    <2>3. Len(u) = 1
        BY <1>1, <1>2, <2>2
    <2> QED
        BY <1>3, <2>3
<1>5. ASSUME v # <<>> PROVE v[n] = u[Len(u)]
    <2>1. n \in Nat \ {0}
        BY <1>2, <1>5, EmptySeq
    <2>2. n \in 1 .. n /\ n + 1 = Len(u)
        BY <1>1, <1>2, <2>1
    <2>3. v[n] = u[n + 1]
        BY <1>2, <2>2
    <2> QED
        BY <2>2, <2>3
<1> QED
    BY <1>4, <1>5 DEF v

-----------------------------------------------------------------------------
(* Diagnostics and entries.                                                *)

LEMMA TextsAreIn ==
    ASSUME NEW S, Frame \subseteq S
    PROVE  /\ Text("bold") \in S /\ Text("file") \in S /\ Text(":line") \in S
           /\ Text(":column") \in S /\ Text("<unknown>") \in S /\ Text(":") \in S
           /\ Text("runtime error") \in S /\ Text("reset") \in S
BY Zenon DEF Frame

LEMMA FrameIsPieces == Frame \subseteq Pieces
BY DEF Pieces

LEMMA TextsText == Text("reset").text = "reset" /\ Text("runtime error").text = "runtime error"
BY DEF Text, Message

LEMMA LocationIsSeq ==
    ASSUME NEW loc, NEW S, Frame \subseteq S
    PROVE  Ubsan_Location_Print(loc) \in Seq(S)
<1>1. /\ <<Text("file")>> \in Seq(S) /\ <<Text(":line")>> \in Seq(S)
      /\ <<Text(":column")>> \in Seq(S) /\ <<Text("<unknown>")>> \in Seq(S)
      /\ <<>> \in Seq(S)
    BY TextsAreIn, Singleton, EmptySeq, Zenon
<1>2. Ubsan_PrintSourceLocation(loc) \in Seq(S)
    <2> DEFINE line == IF loc.Line > 0 THEN <<Text(":line")>> ELSE <<>>
               column == IF loc.Line > 0 /\ loc.Column > 0 THEN <<Text(":column")>> ELSE <<>>
    <2>1. line \in Seq(S) /\ column \in Seq(S)
        BY <1>1, Zenon
    <2> HIDE DEF line, column
    <2>2. <<Text("file")>> \o line \in Seq(S)
        BY <1>1, <2>1, ConcatInSeq, Zenon
    <2>3. (<<Text("file")>> \o line) \o column \in Seq(S)
        BY <2>1, <2>2, ConcatInSeq, Zenon
    <2> QED
        BY <2>3, Zenon DEF Ubsan_PrintSourceLocation, line, column
<1> QED
    BY <1>1, <1>2, Zenon DEF Ubsan_Location_Print

\* Every diagnostic is whole, whatever its location and message.
LEMMA DiagIsWhole ==
    ASSUME NEW loc, NEW message \in Pieces
    PROVE  Ubsan_DiagImpl(loc, message) \in Diagnostics
<1> DEFINE d == (<<Text("bold")>> \o Ubsan_Location_Print(loc))
                \o <<Text(":"), Text("runtime error"), message, Text("reset")>>
<1>1. d \in Seq(Pieces) /\ Framed(d, Text("bold"), Text("runtime error"), Text("reset"))
    <2>1. /\ Text("bold") \in Pieces /\ Text(":") \in Pieces
          /\ Text("runtime error") \in Pieces /\ Text("reset") \in Pieces
        BY FrameIsPieces, TextsAreIn, Zenon
    <2>2. Ubsan_Location_Print(loc) \in Seq(Pieces)
        BY FrameIsPieces, LocationIsSeq, Zenon
    <2> QED
        BY <2>1, <2>2, AroundIsFramed, Zenon
<1> QED
    BY <1>1, Zenon DEF Diagnostics, Ubsan_DiagImpl

\* What an entry leaves: a whole diagnostic to print, or nothing and death.
Entered(t, op, abort, loc, next, pieces) ==
    /\ MayEnter(t)
    /\ Begin(t, op, abort, loc, next, pieces)
    /\ \/ next = "diag" /\ pieces \in Diagnostics
       \/ next \in {"check", "assert", "crash"} /\ pieces = <<>>

LEMMA ReportEnters ==
    ASSUME NEW t \in Threads, NEW op \in Operations, NEW abort \in BOOLEAN,
           NEW loc \in Locations, NEW messages \in SUBSET Pieces,
           MayEnter(t), Report(t, op, abort, loc, messages)
    PROVE  \E next, pieces : Entered(t, op, abort, loc, next, pieces)
<1>1. CASE \E message \in messages :
              Begin(t, op, abort, loc, "diag", Ubsan_DiagImpl(loc, message))
    <2>1. PICK message \in messages :
              Begin(t, op, abort, loc, "diag", Ubsan_DiagImpl(loc, message))
        BY <1>1
    <2>2. Ubsan_DiagImpl(loc, message) \in Diagnostics
        BY DiagIsWhole
    <2> QED
        BY <2>1, <2>2, Zenon DEF Entered
<1>2. CASE Begin(t, op, abort, loc, "check", <<>>)
    BY <1>2, Zenon DEF Entered
<1> QED
    BY <1>1, <1>2 DEF Report

LEMMA MessagesArePieces ==
    ASSUME NEW op \in Operations
    PROVE  /\ handleTypeMismatchImpl(op) \in SUBSET Pieces
           /\ handleIntegerOverflowImpl(op) \in SUBSET Pieces
           /\ handleNegateOverflowImpl(op) \in SUBSET Pieces
           /\ handleDivremOverflowImpl(op) \in SUBSET Pieces
           /\ handleShiftOutOfBoundsImpl(op) \in SUBSET Pieces
           /\ handleOutOfBoundsImpl(op) \in SUBSET Pieces
           /\ handlePointerOverflowImpl(op) \in SUBSET Pieces
           /\ handleFloatCastOverflow(op) \in SUBSET Pieces
<1>1. Messages(op) \in SUBSET Pieces
    BY DEF Pieces
<1> QED
    BY <1>1, Zenon DEF Messages

LEMMA EnterBegins ==
    ASSUME NEW t \in Threads, Enter(t)
    PROVE  \E op \in Operations, abort \in BOOLEAN, loc \in Locations :
              \E next, pieces : Entered(t, op, abort, loc, next, pieces)
<1>1. CASE TypeMismatch(t)
    BY <1>1, ReportEnters, MessagesArePieces, Zenon DEF TypeMismatch, Handle
<1>2. CASE IntegerOverflow(t)
    BY <1>2, ReportEnters, MessagesArePieces, Zenon DEF IntegerOverflow, Handle
<1>3. CASE NegateOverflow(t)
    BY <1>3, ReportEnters, MessagesArePieces, Zenon DEF NegateOverflow, Handle
<1>4. CASE DivremOverflow(t)
    BY <1>4, ReportEnters, MessagesArePieces, Zenon DEF DivremOverflow, Handle
<1>5. CASE ShiftOutOfBounds(t)
    BY <1>5, ReportEnters, MessagesArePieces, Zenon DEF ShiftOutOfBounds, Handle
<1>6. CASE OutOfBounds(t)
    BY <1>6, ReportEnters, MessagesArePieces, Zenon DEF OutOfBounds, Handle
<1>7. CASE PointerOverflow(t)
    BY <1>7, ReportEnters, MessagesArePieces, Zenon DEF PointerOverflow, Handle
<1>8. CASE FloatCastOverflow(t)
    <2>1. PICK op \in Operations, abort \in BOOLEAN, loc \in Locations :
              \/ Begin(t, op, abort, loc, "crash", <<>>)
              \/ Begin(t, op, abort, loc, "assert", <<>>)
              \/ Report(t, op, abort, loc, handleFloatCastOverflow(op))
        BY <1>8, Zenon DEF FloatCastOverflow
    <2>2. MayEnter(t)
        BY <1>8, Zenon DEF FloatCastOverflow
    <2>3. CASE Begin(t, op, abort, loc, "crash", <<>>)
        BY <2>2, <2>3, Zenon DEF Entered
    <2>4. CASE Begin(t, op, abort, loc, "assert", <<>>)
        BY <2>2, <2>4, Zenon DEF Entered
    <2>5. CASE Report(t, op, abort, loc, handleFloatCastOverflow(op))
        BY <2>2, <2>5, ReportEnters, MessagesArePieces, Zenon
    <2> QED
        BY <2>1, <2>3, <2>4, <2>5
<1> QED
    BY <1>1, <1>2, <1>3, <1>4, <1>5, <1>6, <1>7, <1>8 DEF Enter

-----------------------------------------------------------------------------
(* The invariant.                                                          *)

Calls == [op : Operations \cup {<<>>}, abort : BOOLEAN, loc : Locations \cup {<<>>}]

TypeInv ==
    /\ TypeOK
    /\ call \in [Threads -> Calls]
    /\ todo \in [Threads -> Seq(Pieces)]

\* What makes StyleReset inductive: the reset is the last of what a thread has left
\* to print, and the style is normal when no thread has anything left.
ResetIsLast ==
    \A t \in Threads : todo[t] # <<>> => todo[t][Len(todo[t])] = Text("reset")

NoneLeft == (\A t \in Threads : todo[t] = <<>>) => style = "normal"

IInv == TypeInv /\ ResetIsLast /\ NoneLeft

LEMMA InitIInv == Init => IInv
<1> SUFFICES ASSUME Init PROVE IInv
    OBVIOUS
<1>1. TypeOK
    <2>1. calls \in 0 .. MaxCalls
        BY CallsAssumption DEF Init
    <2> QED
        BY <2>1, Zenon DEF TypeOK, Init
<1>2. <<>> \in Seq(Pieces)
    BY EmptySeq
<1>3. todo \in [Threads -> Seq(Pieces)]
    BY <1>2, Zenon DEF Init
<1>4. call \in [Threads -> Calls]
    <2>1. NoCall \in Calls
        BY DEF NoCall, Calls
    <2> QED
        BY <2>1, Zenon DEF Init
<1>5. ResetIsLast /\ NoneLeft
    BY Zenon DEF Init, ResetIsLast, NoneLeft
<1> QED
    BY <1>1, <1>3, <1>4, <1>5 DEF IInv, TypeInv

LEMMA BeginKeepsIInv ==
    ASSUME IInv, NEW t \in Threads, NEW op \in Operations, NEW abort \in BOOLEAN,
           NEW loc \in Locations, NEW next, NEW pieces,
           Entered(t, op, abort, loc, next, pieces)
    PROVE  IInv'
<1>1. /\ pc' = [pc EXCEPT ![t] = next]
      /\ call' = [call EXCEPT ![t] = [op |-> op, abort |-> abort, loc |-> loc]]
      /\ todo' = [todo EXCEPT ![t] = pieces]
      /\ calls' = calls + 1 /\ style' = style /\ halted' = halted
      /\ pc[t] = "idle" /\ calls < MaxCalls
    BY DEF Entered, Begin, MayEnter
<1>2. \/ next = "diag" /\ pieces \in Diagnostics
      \/ next \in {"check", "assert", "crash"} /\ pieces = <<>>
    BY DEF Entered
<1>3. pieces \in Seq(Pieces) /\ <<>> \in Seq(Pieces)
    BY <1>2, EmptySeq, Zenon DEF Diagnostics
<1>4. /\ pc \in [Threads -> {"idle", "diag", "check", "assert", "crash"}]
      /\ call \in [Threads -> Calls]
      /\ todo \in [Threads -> Seq(Pieces)]
    BY DEF IInv, TypeInv, TypeOK
<1>5. TypeOK'
    <2>1. calls' \in 0 .. MaxCalls
        BY <1>1, CallsAssumption DEF IInv, TypeInv, TypeOK
    <2>2. pc' \in [Threads -> {"idle", "diag", "check", "assert", "crash"}]
        BY <1>1, <1>2, <1>4
    <2>3. ASSUME NEW u \in Threads
          PROVE  /\ pc'[u] # "idle" => /\ call'[u].op \in Operations
                                       /\ call'[u].abort \in BOOLEAN
                                       /\ call'[u].loc \in Locations
                 /\ pc'[u] # "diag" => todo'[u] = <<>>
        <3>1. CASE u = t
            BY <1>1, <1>2, <1>4, <3>1
        <3>2. CASE u # t
            BY <1>1, <1>4, <3>2 DEF IInv, TypeInv, TypeOK
        <3> QED
            BY <3>1, <3>2
    <2> QED
        BY <1>1, <2>1, <2>2, <2>3 DEF IInv, TypeInv, TypeOK
<1>6. TypeInv'
    <2>1. [op |-> op, abort |-> abort, loc |-> loc] \in Calls
        BY DEF Calls
    <2>2. call' \in [Threads -> Calls]
        BY <1>1, <1>4, <2>1, Zenon
    <2>3. todo' \in [Threads -> Seq(Pieces)]
        BY <1>1, <1>3, <1>4, Zenon
    <2> QED
        BY <1>5, <2>2, <2>3 DEF TypeInv
<1>7. ASSUME NEW u \in Threads
      PROVE  /\ u = t => pc'[u] = next /\ todo'[u] = pieces
             /\ u # t => pc'[u] = pc[u] /\ todo'[u] = todo[u]
    BY <1>1, <1>4, Zenon
<1>9. ResetIsLast'
    <2> SUFFICES ASSUME NEW u \in Threads, todo'[u] # <<>>
                 PROVE  todo'[u][Len(todo'[u])] = Text("reset")
        BY DEF ResetIsLast
    <2>1. CASE u = t
        BY <1>2, <1>7, <2>1, Zenon DEF Diagnostics, Framed
    <2>2. CASE u # t
        BY <1>7, <2>2, Zenon DEF IInv, ResetIsLast
    <2> QED
        BY <2>1, <2>2
<1>10. NoneLeft'
    <2> SUFFICES ASSUME \A u \in Threads : todo'[u] = <<>>
                 PROVE  style' = "normal"
        BY Zenon DEF NoneLeft
    <2>1. todo[t] = <<>>
        BY <1>1, Zenon DEF IInv, TypeInv, TypeOK
    <2>2. \A u \in Threads : todo[u] = <<>>
        BY <1>7, <2>1, Zenon
    <2> QED
        BY <1>1, <2>2, Zenon DEF IInv, NoneLeft
<1> QED
    BY <1>6, <1>9, <1>10 DEF IInv

LEMMA PrintPieceKeepsIInv ==
    ASSUME IInv, NEW t \in Threads, PrintPiece(t)
    PROVE  IInv'
<1> DEFINE u == todo[t]
<1>1. /\ pc[t] = "diag" /\ u # <<>>
      /\ todo' = [todo EXCEPT ![t] = Tail(@)]
      /\ pc' = pc /\ call' = call /\ halted' = halted /\ calls' = calls
    BY DEF PrintPiece
<1>2. /\ todo \in [Threads -> Seq(Pieces)]
      /\ u \in Seq(Pieces)
    BY DEF IInv, TypeInv
<1>3. Tail(u) \in Seq(Pieces)
    BY <1>1, <1>2, HeadTailProperties, Zenon
<1>4. ASSUME NEW v \in Threads
      PROVE  /\ v = t => todo'[v] = Tail(u)
             /\ v # t => todo'[v] = todo[v]
    BY <1>1, <1>2, Zenon
<1>5. style' = CASE Head(u).text \in {"bold", "runtime error"} -> "bold"
                 [] Head(u).text = "reset" -> "normal"
                 [] OTHER -> style
    BY Zenon DEF PrintPiece
<1>6. style' \in {"normal", "bold"}
    <2>1. style \in {"normal", "bold"}
        BY DEF IInv, TypeInv, TypeOK
    <2>2. CASE Head(u).text \in {"bold", "runtime error"}
        <3>1. Head(u).text # "reset"
            BY <2>2
        <3> QED
            BY <1>5, <2>2, <3>1
    <2>3. CASE Head(u).text \notin {"bold", "runtime error"}
        BY <1>5, <2>1, <2>3
    <2> QED
        BY <2>2, <2>3
<1>7. TypeInv'
    <2>1. TypeOK'
        <3>1. ASSUME NEW v \in Threads, pc'[v] # "diag" PROVE todo'[v] = <<>>
            BY <1>1, <1>4, <3>1, Zenon DEF IInv, TypeInv, TypeOK
        <3> QED
            BY <1>1, <1>6, <3>1, Zenon DEF IInv, TypeInv, TypeOK
    <2>2. todo' \in [Threads -> Seq(Pieces)]
        BY <1>1, <1>2, <1>3, Zenon
    <2> QED
        BY <1>1, <2>1, <2>2, Zenon DEF IInv, TypeInv
<1>9. u[Len(u)] = Text("reset")
    BY <1>1, Zenon DEF IInv, ResetIsLast
<1>10. ResetIsLast'
    <2> SUFFICES ASSUME NEW v \in Threads, todo'[v] # <<>>
                 PROVE  todo'[v][Len(todo'[v])] = Text("reset")
        BY DEF ResetIsLast
    <2>1. CASE v = t
        <3>1. Tail(u) # <<>>
            BY <1>4, <2>1, Zenon
        <3>2. Tail(u)[Len(Tail(u))] = u[Len(u)]
            BY <1>1, <1>2, <3>1, LastOfTail, Zenon
        <3> QED
            BY <1>4, <1>9, <2>1, <3>2, Zenon
    <2>2. CASE v # t
        BY <1>4, <2>2, Zenon DEF IInv, ResetIsLast
    <2> QED
        BY <2>1, <2>2
<1>11. NoneLeft'
    <2> SUFFICES ASSUME \A v \in Threads : todo'[v] = <<>>
                 PROVE  style' = "normal"
        BY Zenon DEF NoneLeft
    <2>1. Tail(u) = <<>>
        <3>1. todo'[t] = Tail(u)
            BY <1>4, Zenon
        <3>2. todo'[t] = <<>>
            OBVIOUS
        <3> QED
            BY <3>1, <3>2, Zenon
    <2>2. Head(u) = Text("reset")
        BY <1>1, <1>2, <1>9, <2>1, LastOfTail, Zenon
    <2>3. Head(u).text = "reset"
        BY <2>2, TextsText, Zenon
    <2>4. Head(u).text \notin {"bold", "runtime error"}
        BY <2>3
    <2> QED
        BY <1>5, <2>3, <2>4
<1> QED
    BY <1>7, <1>10, <1>11 DEF IInv

\* The end of a handler: pc goes on, with nothing left to print.
LEMMA EndKeepsIInv ==
    ASSUME IInv, NEW t \in Threads,
           Finish(t) \/ CheckFailed(t) \/ N64Wrapper_Assert(t) \/ Crash(t)
    PROVE  IInv'
<1>1. /\ UNCHANGED <<call, todo, style, calls>>
      /\ \/ halted' = halted \/ halted' = TRUE
      /\ \/ pc' = pc
         \/ \E next \in {"idle", "check", "assert", "crash"} :
                /\ pc[t] # "idle" /\ todo[t] = <<>>
                /\ pc' = [pc EXCEPT ![t] = next]
    <2>1. pc[t] # "diag" => todo[t] = <<>>
        BY DEF IInv, TypeInv, TypeOK
    <2>2. CASE Finish(t)
        BY <2>2, Zenon DEF Finish
    <2>3. CASE CheckFailed(t)
        BY <2>1, <2>3 DEF CheckFailed
    <2>4. CASE N64Wrapper_Assert(t)
        BY <2>1, <2>4 DEF N64Wrapper_Assert
    <2>5. CASE Crash(t)
        BY <2>5 DEF Crash
    <2> QED
        BY <2>2, <2>3, <2>4, <2>5
<1>2. CASE pc' = pc
    BY <1>1, <1>2, Zenon DEF IInv, TypeInv, TypeOK, ResetIsLast, NoneLeft
<1>3. CASE \E next \in {"idle", "check", "assert", "crash"} :
                /\ pc[t] # "idle" /\ todo[t] = <<>>
                /\ pc' = [pc EXCEPT ![t] = next]
    <2>1. PICK next \in {"idle", "check", "assert", "crash"} :
                /\ pc[t] # "idle" /\ todo[t] = <<>>
                /\ pc' = [pc EXCEPT ![t] = next]
        BY <1>3, Zenon
    <2>2. pc \in [Threads -> {"idle", "diag", "check", "assert", "crash"}]
        BY DEF IInv, TypeInv, TypeOK
    <2>3. /\ pc' \in [Threads -> {"idle", "diag", "check", "assert", "crash"}]
          /\ \A v \in Threads : pc'[v] = IF v = t THEN next ELSE pc[v]
        BY <2>1, <2>2
    <2>4. TypeInv'
        <3>1. ASSUME NEW v \in Threads
              PROVE  /\ pc'[v] # "idle" => pc[v] # "idle"
                     /\ pc'[v] # "diag" => todo[v] = <<>>
            BY <2>1, <2>3, Zenon DEF IInv, TypeInv, TypeOK
        <3>2. TypeOK'
            BY <1>1, <2>3, <3>1, Zenon DEF IInv, TypeInv, TypeOK
        <3> QED
            BY <1>1, <3>2, Zenon DEF IInv, TypeInv
    <2> QED
        BY <1>1, <2>4, Zenon DEF IInv, ResetIsLast, NoneLeft
<1> QED
    BY <1>1, <1>2, <1>3

LEMMA NextIInv == IInv /\ [Next]_vars => IInv'
<1> SUFFICES ASSUME IInv, [Next]_vars PROVE IInv'
    OBVIOUS
<1>1. ASSUME NEW t \in Threads, Enter(t) PROVE IInv'
    BY <1>1, EnterBegins, BeginKeepsIInv, Zenon
<1>2. ASSUME NEW t \in Threads, Continue(t) PROVE IInv'
    BY <1>2, PrintPieceKeepsIInv, EndKeepsIInv, Zenon DEF Continue
<1>3. CASE UNCHANGED vars
    BY <1>3, Zenon DEF vars, IInv, TypeInv, TypeOK, ResetIsLast, NoneLeft
<1> QED
    BY <1>1, <1>2, <1>3, Zenon DEF Next

-----------------------------------------------------------------------------
\* The state stays well-formed, and a handler that is not printing has nothing
\* left to print: ubsan_handlers.c enters and leaves Ubsan_DiagImpl whole.
THEOREM TypeCorrect == Spec => []TypeOK
<1>1. IInv => TypeOK
    BY DEF IInv, TypeInv
<1> QED
    BY InitIInv, NextIInv, <1>1, PTL DEF Spec

\* VT_BOLD never stays on: when no handler is printing, each of those that did
\* has sent its VT_RST last.
THEOREM StyleIsReset == Spec => []StyleReset
<1>1. IInv => StyleReset
    BY Zenon DEF IInv, TypeInv, TypeOK, NoneLeft, StyleReset
<1> QED
    BY InitIInv, NextIInv, <1>1, PTL DEF Spec

\* Whatever the other threads do, the _abort entry of a handler does not return:
\* it is NORETURN.
THEOREM AbortIsNoreturn == Spec => AbortNeverReturns
<1> DEFINE Stays == \A t \in Threads : pc[t] # "idle" /\ call[t].abort => pc'[t] # "idle"
<1>1. ASSUME IInv, Next, NEW u \in Threads, pc[u] # "idle", call[u].abort
      PROVE  pc'[u] # "idle"
    <2>1. pc \in [Threads -> {"idle", "diag", "check", "assert", "crash"}]
        BY <1>1 DEF IInv, TypeInv, TypeOK
    <2>2. PICK t \in Threads : Enter(t) \/ Continue(t)
        BY <1>1, Zenon DEF Next
    <2>3. CASE Enter(t)
        <3>1. pc[t] = "idle" /\ \E next : pc' = [pc EXCEPT ![t] = next]
            BY <2>3, EnterBegins, Zenon DEF Entered, MayEnter, Begin
        <3> QED
            BY <1>1, <2>1, <3>1
    <2>4. CASE PrintPiece(t)
        BY <1>1, <2>4, Zenon DEF PrintPiece
    <2>5. CASE Finish(t)
        BY <1>1, <2>1, <2>5 DEF Finish
    <2>6. CASE CheckFailed(t)
        BY <1>1, <2>1, <2>6 DEF CheckFailed
    <2>7. CASE N64Wrapper_Assert(t)
        BY <1>1, <2>1, <2>7 DEF N64Wrapper_Assert
    <2>8. CASE Crash(t)
        BY <1>1, <2>8, Zenon DEF Crash
    <2> QED
        BY <2>2, <2>3, <2>4, <2>5, <2>6, <2>7, <2>8 DEF Continue
<1>2. IInv /\ [Next]_vars => [Stays]_vars
    BY <1>1, Zenon
<1> HIDE DEF Stays
<1>3. Spec => [][Stays]_vars
    BY InitIInv, NextIInv, <1>2, PTL DEF Spec
<1> QED
    BY <1>3, Zenon DEF AbortNeverReturns, Stays

-----------------------------------------------------------------------------
(* Two's complement and the decoding of operands.                          *)

LEMMA Halves ==
    ASSUME NEW w \in Nat \ {0}
    PROVE  /\ 2 ^ w \in Nat \ {0} /\ 2 ^ (w - 1) \in Nat \ {0}
           /\ 2 ^ w = 2 * 2 ^ (w - 1)
<1>1. w \in Nat /\ w - 1 \in Nat /\ w = (w - 1) + 1
    OBVIOUS
<1>2. 2 ^ ((w - 1) + 1) = 2 * 2 ^ (w - 1)
    BY <1>1, PowerOfNext, Zenon
<1> QED
    BY <1>1, <1>2, PowerIsPositive, Zenon

\* A number that fits is its own two's complement.
LEMMA UnsignedOfSmall ==
    ASSUME NEW w \in Nat \ {0}, NEW v \in Int, 0 <= v, v < 2 ^ w
    PROVE  Unsigned(v, w) = v
<1> DEFINE W == 2 ^ w
<1>1. W \in Nat \ {0} /\ v < W
    BY Halves, Zenon
<1>2. Unsigned(v, w) = v % W
    BY Zenon DEF Unsigned
<1> HIDE DEF W
<1>3. v \in 0 .. W - 1 /\ v = W * 0 + v
    BY <1>1
<1>4. v % W = v
    BY <1>1, <1>3, DivisionIs
<1> QED
    BY <1>2, <1>4

\* The two's complement of a number in range, read back, is the number.
LEMMA SignedOfUnsigned ==
    ASSUME NEW w \in Nat \ {0}, NEW v \in Int,
           -(2 ^ (w - 1)) <= v, v < 2 ^ (w - 1)
    PROVE  /\ Unsigned(v, w) \in 0 .. 2 ^ w - 1
           /\ Signed(Unsigned(v, w), w) = v
<1> DEFINE W == 2 ^ w
           S == 2 ^ (w - 1)
           u == Unsigned(v, w)
<1>1. W \in Nat \ {0} /\ S \in Nat \ {0} /\ W = 2 * S /\ -S <= v /\ v < S
    BY Halves, Zenon
<1>2. u = v % W /\ Signed(u, w) = IF u >= S THEN u - W ELSE u
    BY Zenon DEF Unsigned, Signed
<1> HIDE DEF W, S, u
<1>3. u \in 0 .. W - 1 /\ Signed(u, w) = v
    <2>1. CASE v >= 0
        <3>1. v \in 0 .. W - 1 /\ v = W * 0 + v
            BY <1>1, <2>1
        <3>2. v % W = v
            BY <1>1, <3>1, DivisionIs
        <3> QED
            BY <1>1, <1>2, <3>1, <3>2
    <2>2. CASE ~(v >= 0)
        <3>1. v + W \in 0 .. W - 1 /\ v = W * (-1) + (v + W)
            BY <1>1, <2>2
        <3>2. v % W = v + W
            BY <1>1, <3>1, DivisionIs
        <3>3. v + W >= S /\ (v + W) - W = v
            BY <1>1
        <3> QED
            BY <1>2, <3>1, <3>2, <3>3
    <2> QED
        BY <2>1, <2>2
<1> QED
    BY <1>3, Zenon DEF W, u

\* A word of w bits, shifted to the top of 64 and back, is the number of that
\* two's complement.
LEMMA ShiftedBack ==
    ASSUME NEW w \in Nat \ {0}, w <= MaxBits, NEW x \in 0 .. 2 ^ w - 1
    PROVE  U64_RightShift(U64_LeftShift(x, MaxBits - w), MaxBits - w) = Signed(x, w)
<1> DEFINE e == MaxBits - w
           E == 2 ^ e
           W == 2 ^ w
           S == 2 ^ (w - 1)
           M == 2 ^ MaxBits
           N == 2 ^ (MaxBits - 1)
           y == U64_LeftShift(x, e)
<1>1. /\ MaxBits \in Nat \ {0} /\ e \in Nat /\ MaxBits = w + e
      /\ MaxBits - 1 = (w - 1) + e /\ w - 1 \in Nat /\ w \in Nat
    BY HandleAssumption DEF MaxBits
<1>2. /\ W \in Nat \ {0} /\ S \in Nat \ {0} /\ W = 2 * S
      /\ M \in Nat \ {0} /\ N \in Nat \ {0} /\ M = 2 * N
    BY <1>1, Halves, Zenon
<1>3. E \in Nat \ {0} /\ M = W * E /\ N = S * E
    <2>1. 2 ^ (w + e) = W * E /\ 2 ^ ((w - 1) + e) = S * E
        BY <1>1, PowerOfSum, Zenon
    <2> QED
        BY <1>1, <2>1, PowerIsPositive, Zenon
<1>4. /\ y = (x * E) % M
      /\ U64_RightShift(y, e) = (IF y >= N THEN y - M ELSE y) \div E
      /\ Signed(x, w) = IF x >= S THEN x - W ELSE x
      /\ x \in 0 .. W - 1
    BY Zenon DEF U64_LeftShift, U64_RightShift, Unsigned, Signed
<1> HIDE DEF e, E, W, S, M, N, y
<1>5. y = x * E
    <2>1. E * 0 <= E * x /\ E * x <= E * (W - 1)
        BY <1>2, <1>3, <1>4, TimesMonotonic
    <2>2. E * (W - 1) = W * E - E
        BY <1>2, <1>3
    <2>3. x * E \in 0 .. M - 1 /\ x * E = M * 0 + x * E /\ x * E \in Int
        BY <1>2, <1>3, <1>4, <2>1, <2>2
    <2>4. (x * E) % M = x * E
        BY <1>2, <2>3, DivisionIs
    <2> QED
        BY <1>4, <2>4
<1>6. ASSUME x >= S PROVE U64_RightShift(y, e) = Signed(x, w)
    <2>1. E * S <= E * x
        BY <1>2, <1>3, <1>4, <1>6, TimesMonotonic
    <2>2. y >= N
        BY <1>2, <1>3, <1>4, <1>5, <2>1
    <2>3. y - M = E * (x - W) + 0 /\ y - M \in Int /\ x - W \in Int /\ 0 \in 0 .. E - 1
        BY <1>2, <1>3, <1>4, <1>5
    <2>4. (y - M) \div E = x - W
        BY <1>3, <2>3, DivisionIs
    <2> QED
        BY <1>4, <1>6, <2>2, <2>4
<1>7. ASSUME ~(x >= S) PROVE U64_RightShift(y, e) = Signed(x, w)
    <2>1. E * x <= E * (S - 1)
        BY <1>2, <1>3, <1>4, <1>7, TimesMonotonic
    <2>2. E * (S - 1) = S * E - E
        BY <1>2, <1>3
    <2>3. ~(y >= N)
        BY <1>2, <1>3, <1>4, <1>5, <2>1, <2>2
    <2>4. y = E * x + 0 /\ y \in Int /\ x \in Int /\ 0 \in 0 .. E - 1
        BY <1>2, <1>3, <1>4, <1>5
    <2>5. y \div E = x
        BY <1>3, <2>4, DivisionIs
    <2> QED
        BY <1>4, <1>7, <2>3, <2>5
<1> QED
    BY <1>6, <1>7, Zenon DEF e, y

\* The widths and ranges of the types of operands.
LEMMA TypeIs ==
    ASSUME NEW T \in IntegerTypes
    PROVE  /\ getIntegerBitWidth(T) \in Nat \ {0} /\ getIntegerBitWidth(T) <= MaxBits
           /\ isInlineInt(T) \/ getIntegerBitWidth(T) = MaxBits
           /\ isIntegerTy(T) /\ T.TypeInfo % 2 \in {0, 1}
           /\ isSignedIntegerTy(T) <=> T.TypeInfo % 2 = 1
           /\ isUnsignedIntegerTy(T) <=> ~isSignedIntegerTy(T)
<1> DEFINE n == T.TypeInfo \div 2
           w == getIntegerBitWidth(T)
<1>1. /\ T.TypeInfo \in Nat /\ T.TypeKind = "TK_Integer"
      /\ isInlineInt(T) \/ w = MaxBits
    BY DEF IntegerTypes
<1>2. n \in Nat /\ T.TypeInfo % 2 \in {0, 1}
    BY <1>1
<1>3. w \in Nat \ {0}
    BY <1>2, PowerIsPositive, Zenon DEF getIntegerBitWidth
<1>4. /\ isIntegerTy(T)
      /\ isSignedIntegerTy(T) <=> T.TypeInfo % 2 = 1
      /\ isUnsignedIntegerTy(T) <=> T.TypeInfo % 2 = 0
    BY <1>1, Zenon DEF isIntegerTy, isSignedIntegerTy, isUnsignedIntegerTy
<1>5. isInlineInt(T) <=> w <= HandleBits
    BY Zenon DEF isInlineInt
<1> HIDE DEF w
<1>6. w <= MaxBits
    BY <1>1, <1>3, <1>5, HandleAssumption DEF MaxBits
<1>7. isUnsignedIntegerTy(T) <=> ~isSignedIntegerTy(T)
    BY <1>2, <1>4
<1> QED
    BY <1>1, <1>2, <1>3, <1>4, <1>6, <1>7 DEF w

LEMMA RangeIs ==
    ASSUME NEW T \in IntegerTypes, NEW v \in Int
    PROVE  LET w == getIntegerBitWidth(T)
           IN  /\ isSignedIntegerTy(T) =>
                    /\ Least(T) = -(2 ^ (w - 1)) /\ Greatest(T) = 2 ^ (w - 1) - 1
                    /\ InType(T, v) <=> -(2 ^ (w - 1)) <= v /\ v < 2 ^ (w - 1)
               /\ ~isSignedIntegerTy(T) =>
                    /\ Least(T) = 0 /\ Greatest(T) = 2 ^ w - 1
                    /\ InType(T, v) <=> 0 <= v /\ v < 2 ^ w
<1> DEFINE w == getIntegerBitWidth(T)
           W == 2 ^ w
           S == 2 ^ (w - 1)
<1>1. W \in Nat \ {0} /\ S \in Nat \ {0} /\ W = 2 * S
    BY TypeIs, Halves, Zenon
<1>2. /\ Least(T) = IF isSignedIntegerTy(T) THEN -S ELSE 0
      /\ Greatest(T) = Least(T) + W - 1
      /\ InType(T, v) <=> v >= Least(T) /\ v <= Greatest(T)
    BY Zenon DEF Least, Greatest, InType
<1> HIDE DEF w, W, S
<1>3. CASE isSignedIntegerTy(T)
    <2>1. Least(T) = -S /\ Greatest(T) = S - 1
        BY <1>1, <1>2, <1>3
    <2>2. v >= -S /\ v <= S - 1 <=> -S <= v /\ v < S
        BY <1>1
    <2> QED
        BY <1>2, <1>3, <2>1, <2>2, Zenon DEF w, W, S
<1>4. CASE ~isSignedIntegerTy(T)
    <2>1. Least(T) = 0 /\ Greatest(T) = W - 1
        BY <1>1, <1>2, <1>4
    <2>2. v >= 0 /\ v <= W - 1 <=> 0 <= v /\ v < W
        BY <1>1
    <2> QED
        BY <1>2, <1>4, <2>1, <2>2, Zenon DEF w, W, S
<1> QED
    BY <1>3, <1>4

\* What getSIntValue and getUIntValue make of a handle is the number the
\* compiler made it from.
LEMMA Decoded ==
    ASSUME NEW T \in IntegerTypes, NEW v \in Int, InType(T, v), NEW address
    PROVE  /\ isSignedIntegerTy(T) => getSIntValue(T, Encode(T, v, address)) = {v}
           /\ ~isSignedIntegerTy(T) => v >= 0 /\ getUIntValue(T, Encode(T, v, address)) = {v}
<1> DEFINE w == getIntegerBitWidth(T)
           h == Encode(T, v, address)
<1>1. /\ w \in Nat \ {0} /\ w <= MaxBits
      /\ isInlineInt(T) \/ w = MaxBits
      /\ isUnsignedIntegerTy(T) <=> ~isSignedIntegerTy(T)
    BY TypeIs, Zenon
<1>2. CASE isSignedIntegerTy(T)
    <2>1. -(2 ^ (w - 1)) <= v /\ v < 2 ^ (w - 1)
        BY <1>2, RangeIs, Zenon
    <2>2. Unsigned(v, w) \in 0 .. 2 ^ w - 1 /\ Signed(Unsigned(v, w), w) = v
        BY <1>1, <2>1, SignedOfUnsigned, Zenon
    <2>3. CASE isInlineInt(T)
        <3>1. h.word = Unsigned(v, w)
            BY <2>3 DEF Encode
        <3>2. U64_RightShift(U64_LeftShift(h.word, MaxBits - w), MaxBits - w) = v
            BY <1>1, <2>2, <3>1, ShiftedBack, Zenon
        <3> QED
            BY <1>2, <2>3, <3>2, Zenon DEF getSIntValue
    <2>4. CASE ~isInlineInt(T)
        <3>1. h.pointee = Unsigned(v, w) /\ w = MaxBits
            BY <1>1, <2>4 DEF Encode
        <3>2. Signed(h.pointee, MaxBits) = v
            BY <2>2, <3>1, Zenon
        <3> QED
            BY <1>2, <2>4, <3>1, <3>2, Zenon DEF getSIntValue
    <2> QED
        BY <1>2, <2>3, <2>4
<1>3. CASE ~isSignedIntegerTy(T)
    <2>1. 0 <= v /\ v < 2 ^ w
        BY <1>3, RangeIs, Zenon
    <2>2. Unsigned(v, w) = v
        BY <1>1, <2>1, UnsignedOfSmall, Zenon
    <2>3. CASE isInlineInt(T)
        <3>1. h.word = v
            BY <2>2, <2>3 DEF Encode
        <3> QED
            BY <1>1, <1>3, <2>1, <2>3, <3>1, Zenon DEF getUIntValue
    <2>4. CASE ~isInlineInt(T)
        <3>1. h.pointee = v /\ w = MaxBits
            BY <1>1, <2>2, <2>4 DEF Encode
        <3> QED
            BY <1>1, <1>3, <2>1, <2>4, <3>1, Zenon DEF getUIntValue
    <2>5. v >= 0
        BY <2>1
    <2> QED
        BY <1>3, <2>3, <2>4, <2>5
<1> QED
    BY <1>2, <1>3

\* What the handlers ask of an operand is what it was in the program.
LEMMA AskedOf ==
    ASSUME NEW T \in IntegerTypes, NEW v \in Int, InType(T, v), NEW address
    PROVE  LET h == Encode(T, v, address)
           IN  /\ isMinusOne(T, h) = {v = -1}
               /\ isNegative(T, h) = {v < 0}
               /\ v >= 0 => getPositiveIntValue(T, h) = {v}
<1> DEFINE h == Encode(T, v, address)
<1>1. isUnsignedIntegerTy(T) <=> ~isSignedIntegerTy(T)
    BY TypeIs, Zenon
<1>2. CASE isSignedIntegerTy(T)
    <2>1. getSIntValue(T, h) = {v}
        BY <1>2, Decoded, Zenon
    <2> HIDE DEF h
    <2>2. isMinusOne(T, h) = {v = -1}
        BY <1>2, <2>1 DEF isMinusOne
    <2>3. isNegative(T, h) = {v < 0}
        BY <1>2, <2>1 DEF isNegative
    <2>4. v >= 0 => getPositiveIntValue(T, h) = {v}
        BY <1>1, <1>2, <2>1 DEF getPositiveIntValue
    <2> QED
        BY <2>2, <2>3, <2>4 DEF h
<1>3. CASE ~isSignedIntegerTy(T)
    <2>1. v >= 0 /\ getUIntValue(T, h) = {v}
        BY <1>3, Decoded, Zenon
    <2> HIDE DEF h
    <2>2. (v = -1) = FALSE /\ (v < 0) = FALSE
        BY <2>1
    <2>3. isMinusOne(T, h) = {v = -1} /\ isNegative(T, h) = {v < 0}
        BY <1>3, <2>2 DEF isMinusOne, isNegative
    <2>4. getPositiveIntValue(T, h) = {v}
        BY <1>1, <1>3, <2>1 DEF getPositiveIntValue
    <2> QED
        BY <2>3, <2>4 DEF h
<1> QED
    BY <1>2, <1>3

\* %i of a handle shows an operand that is an int, or fits one.
LEMMA ShownIs ==
    ASSUME NEW T \in IntegerTypes, NEW v \in Int, InType(T, v), NEW address, FitsInt(T, v)
    PROVE  Shown(Encode(T, v, address).word) = v
<1> DEFINE w == getIntegerBitWidth(T)
<1>1. w \in Nat \ {0} /\ HandleBits \in Nat \ {0}
    BY TypeIs, HandleAssumption, Zenon
<1>2. isInlineInt(T)
    <2>1. w = HandleBits => w <= HandleBits
        BY <1>1
    <2> QED
        BY <2>1, Zenon DEF FitsInt, isInlineInt
<1>3. Encode(T, v, address).word = Unsigned(v, w)
    BY <1>2 DEF Encode
<1>4. CASE isSignedIntegerTy(T) /\ w = HandleBits
    <2>1. -(2 ^ (w - 1)) <= v /\ v < 2 ^ (w - 1)
        BY <1>4, RangeIs, Zenon
    <2>2. Signed(Unsigned(v, w), w) = v
        BY <1>1, <2>1, SignedOfUnsigned, Zenon
    <2> QED
        BY <1>3, <1>4, <2>2, Zenon DEF Shown
<1>5. CASE v >= 0 /\ IsPositive(v)
    <2>1. v < 2 ^ w
        <3> DEFINE W == 2 ^ w
                   S == 2 ^ (w - 1)
        <3>1. W \in Nat \ {0} /\ S \in Nat \ {0} /\ W = 2 * S
            BY <1>1, Halves, Zenon
        <3>2. v < S \/ v < W
            BY RangeIs, Zenon
        <3> HIDE DEF W, S
        <3>3. v < W
            BY <3>1, <3>2
        <3> QED
            BY <3>3 DEF W
    <2>2. 0 <= v
        BY <1>5
    <2>3. Unsigned(v, w) = v
        BY <1>1, <2>1, <2>2, UnsignedOfSmall, Zenon
    <2>4. Signed(v, HandleBits) = v
        <3> DEFINE S == 2 ^ (HandleBits - 1)
        <3>1. S \in Nat \ {0} /\ v < S
            BY <1>1, <1>5, Halves, Zenon DEF IsPositive
        <3>2. Signed(v, HandleBits) = IF v >= S THEN v - 2 ^ HandleBits ELSE v
            BY Zenon DEF Signed
        <3> HIDE DEF S
        <3>3. ~(v >= S)
            BY <3>1
        <3> QED
            BY <3>2, <3>3, Zenon
    <2> QED
        BY <1>3, <2>3, <2>4, Zenon DEF Shown
<1> QED
    BY <1>4, <1>5, Zenon DEF FitsInt

-----------------------------------------------------------------------------
(* What the messages say.                                                  *)

ShowsInts(op) ==
    /\ "a" \in DOMAIN op => FitsInt(op.type, op.a)
    /\ "b" \in DOMAIN op => FitsInt(op.rhsType, op.b)

\* The message m is true of op, and shows its operands when they are ints.
Says(op, m) ==
    /\ Means(op, m.text)
    /\ m.text \in ShowsOperands /\ ShowsInts(op) => m.args = Operands(op, m.text)

Claims ==
    { "division by zero", "division by -1", "negative exponent", "exponent too large",
      "negative base", "base overflow", "zero offset to null", "offset to null",
      "offset made null", "addition overflowed", "subtraction overflowed" }

LEMMA MeansIs ==
    ASSUME NEW op, NEW text
    PROVE  LET bits == getIntegerBitWidth(op.type)
           IN  /\ text \notin Claims => Means(op, text)
               /\ text = "division by zero" => (Means(op, text) <=> op.b = 0)
               /\ text = "division by -1" =>
                    (Means(op, text) <=> op.b = -1 /\ ~InType(op.type, -op.a))
               /\ text = "negative exponent" => (Means(op, text) <=> op.b < 0)
               /\ text = "exponent too large" => (Means(op, text) <=> op.b >= bits)
               /\ text = "negative base" =>
                    (Means(op, text) <=> op.b >= 0 /\ op.b < bits /\ op.a < 0)
               /\ text = "base overflow" =>
                    (Means(op, text) <=> /\ op.b >= 0 /\ op.b < bits /\ op.a >= 0
                                         /\ op.a * 2 ^ op.b > Greatest(op.type))
               /\ text = "zero offset to null" =>
                    (Means(op, text) <=> op.base = 0 /\ op.offset = 0)
               /\ text = "offset to null" =>
                    (Means(op, text) <=> op.base = 0 /\ op.offset # 0)
               /\ text = "offset made null" =>
                    (Means(op, text) <=> op.base # 0 /\ op.offset # 0)
               /\ text = "addition overflowed" =>
                    (Means(op, text) <=> op.base + op.offset > 2 ^ HandleBits)
               /\ text = "subtraction overflowed" =>
                    (Means(op, text) <=> op.base + op.offset < 0)
<1> DEFINE bits == getIntegerBitWidth(op.type)
           overflows == op.a * 2 ^ op.b > Greatest(op.type)
           above == op.base + op.offset > 2 ^ HandleBits
           below == op.base + op.offset < 0
           least == op.b = -1 /\ ~InType(op.type, -op.a)
           low == op.b < 0
           high == op.b >= bits
           inside == op.b >= 0 /\ op.b < bits
           negative == op.a < 0
           positive == op.a >= 0
           zero == op.b = 0
           null == op.base = 0
           none == op.offset = 0
<1>1. Means(op, text) <=>
        /\ text = "division by zero"   => zero
        /\ text = "division by -1"     => least
        /\ text = "negative exponent"  => low
        /\ text = "exponent too large" => high
        /\ text \in {"negative base", "base overflow"} => inside
        /\ text = "negative base"      => negative
        /\ text = "base overflow"      => positive /\ overflows
        /\ text = "zero offset to null" => null /\ none
        /\ text = "offset to null"     => null /\ ~none
        /\ text = "offset made null"   => ~null /\ ~none
        /\ text = "addition overflowed" => above
        /\ text = "subtraction overflowed" => below
    BY Zenon DEF Means
<1> HIDE DEF overflows, above, below, least, low, high, inside, negative, positive,
             zero, null, none
<1>2. /\ text \notin Claims => Means(op, text)
      /\ text = "division by zero" => (Means(op, text) <=> zero)
      /\ text = "division by -1" => (Means(op, text) <=> least)
      /\ text = "negative exponent" => (Means(op, text) <=> low)
      /\ text = "exponent too large" => (Means(op, text) <=> high)
      /\ text = "negative base" => (Means(op, text) <=> inside /\ negative)
      /\ text = "base overflow" => (Means(op, text) <=> inside /\ positive /\ overflows)
      /\ text = "zero offset to null" => (Means(op, text) <=> null /\ none)
      /\ text = "offset to null" => (Means(op, text) <=> null /\ ~none)
      /\ text = "offset made null" => (Means(op, text) <=> ~null /\ ~none)
      /\ text = "addition overflowed" => (Means(op, text) <=> above)
      /\ text = "subtraction overflowed" => (Means(op, text) <=> below)
    BY <1>1 DEF Claims
<1> QED
    BY <1>2, Zenon DEF overflows, above, below, least, low, high, inside, negative, positive,
                       zero, null, none

LEMMA MessageIs ==
    ASSUME NEW text, NEW args
    PROVE  Message(text, args).text = text /\ Message(text, args).args = args
BY DEF Message

\* A message that shows no operands.
LEMMA MutelySays ==
    ASSUME NEW op, NEW text, NEW args, Means(op, text), text \notin ShowsOperands
    PROVE  Says(op, Message(text, args))
<1>1. Means(op, text)
    OBVIOUS
<1>2. Message(text, args).text \notin ShowsOperands
    BY MessageIs
<1>3. Means(op, Message(text, args).text)
    BY <1>1, MessageIs, Zenon
<1> QED
    BY <1>2, <1>3, Zenon DEF Says

\* One that makes no claim either.
LEMMA PlainSays ==
    ASSUME NEW op, NEW text, NEW args, text \notin Claims, text \notin ShowsOperands
    PROVE  Says(op, Message(text, args))
<1>1. Means(op, text)
    BY MeansIs, Zenon
<1> QED
    BY <1>1, MutelySays, Zenon

LEMMA OperandsIs ==
    ASSUME NEW op, NEW text
    PROVE  /\ text \in {"signed overflow", "unsigned overflow", "base overflow"} =>
                 Operands(op, text) = <<op.a, op.b>>
           /\ text \in {"signed negation", "unsigned negation", "division by -1",
                        "negative base", "index"} => Operands(op, text) = <<op.a>>
           /\ text \in {"negative exponent", "exponent too large"} =>
                 Operands(op, text) = <<op.b>>
BY DEF Operands

\* The operands of an operation of two, and what the compiler passes of them.
LEMMA BinaryIs ==
    ASSUME NEW op, Compiled(op), op.handler \in Binary, op.type \in IntegerTypes
    PROVE  /\ op.rhsType \in IntegerTypes
           /\ op.a \in Int /\ op.b \in Int
           /\ InType(op.type, op.a) /\ InType(op.rhsType, op.b)
           /\ op.handler # "shift" => op.rhsType = op.type
           /\ ShowsInts(op) => Shown(LHS(op).word) = op.a /\ Shown(RHS(op).word) = op.b
<1>1. /\ op \in [handler : Binary, type : IntegerTypes, rhsType : IntegerTypes, a : Int, b : Int]
      /\ InType(op.type, op.a) /\ InType(op.rhsType, op.b)
      /\ op.handler # "shift" => op.rhsType = op.type
    <2>1. op.type \notin FloatTypes
        BY DEF IntegerTypes, FloatTypes
    <2> QED
        BY <2>1 DEF Compiled, Binary
<1>2. "a" \in DOMAIN op /\ "b" \in DOMAIN op
    BY <1>1
<1>3. ASSUME ShowsInts(op)
      PROVE  Shown(LHS(op).word) = op.a /\ Shown(RHS(op).word) = op.b
    <2>1. FitsInt(op.type, op.a) /\ FitsInt(op.rhsType, op.b)
        BY <1>2, <1>3 DEF ShowsInts
    <2> QED
        BY <1>1, <2>1, ShownIs, Zenon DEF LHS, RHS
<1> QED
    BY <1>1, <1>3

LEMMA UnaryIs ==
    ASSUME NEW op, Compiled(op), op.handler \in {"negate", "out_of_bounds"}
    PROVE  /\ op.type \in IntegerTypes /\ op.a \in Int /\ InType(op.type, op.a)
           /\ ShowsInts(op) => Shown(LHS(op).word) = op.a
<1>1. /\ op \in [handler : {"negate", "out_of_bounds"}, type : IntegerTypes, a : Int]
      /\ InType(op.type, op.a)
    BY DEF Compiled, Binary
<1>2. "a" \in DOMAIN op
    BY <1>1
<1>3. ASSUME ShowsInts(op) PROVE Shown(LHS(op).word) = op.a
    <2>1. FitsInt(op.type, op.a)
        BY <1>2, <1>3 DEF ShowsInts
    <2> QED
        BY <1>1, <2>1, ShownIs, Zenon DEF LHS
<1> QED
    BY <1>1, <1>3

\* A message that shows one operand, or both.
LEMMA ShowingSays ==
    ASSUME NEW op, NEW text, NEW args, Means(op, text),
           ShowsInts(op) => args = Operands(op, text)
    PROVE  Says(op, Message(text, args))
BY MessageIs, Zenon DEF Says

LEMMA OverflowSays ==
    ASSUME NEW op, Compiled(op), op.handler \in {"add", "sub", "mul"}
    PROVE  \A m \in handleIntegerOverflowImpl(op) : Says(op, m)
<1> DEFINE text == IF isSignedIntegerTy(op.type) THEN "signed overflow" ELSE "unsigned overflow"
           args == <<Shown(LHS(op).word), Shown(RHS(op).word)>>
<1>1. op.type \in IntegerTypes /\ op.handler \in Binary
    BY DEF Compiled, Binary
<1>2. text \in {"signed overflow", "unsigned overflow"} /\ text \notin Claims
    BY DEF Claims
<1>3. handleIntegerOverflowImpl(op) = { Message(text, args) }
    BY Zenon DEF handleIntegerOverflowImpl
<1>4. ShowsInts(op) => args = <<op.a, op.b>>
    BY <1>1, BinaryIs, Zenon
<1> HIDE DEF text, args
<1>5. Means(op, text) /\ Operands(op, text) = <<op.a, op.b>>
    <2>1. text \in {"signed overflow", "unsigned overflow", "base overflow"}
        BY <1>2
    <2> QED
        BY <1>2, <2>1, MeansIs, OperandsIs, Zenon
<1>6. Says(op, Message(text, args))
    BY <1>4, <1>5, ShowingSays, Zenon
<1> QED
    BY <1>3, <1>6, Zenon

LEMMA NegationSays ==
    ASSUME NEW op, Compiled(op), op.handler = "negate"
    PROVE  \A m \in handleNegateOverflowImpl(op) : Says(op, m)
<1> DEFINE text == IF isSignedIntegerTy(op.type) THEN "signed negation" ELSE "unsigned negation"
           args == <<Shown(LHS(op).word)>>
<1>1. op.handler \in {"negate", "out_of_bounds"}
    OBVIOUS
<1>2. /\ text \notin Claims
      /\ text \in {"signed negation", "unsigned negation", "division by -1",
                   "negative base", "index"}
    BY DEF Claims
<1>3. handleNegateOverflowImpl(op) = { Message(text, args) }
    BY Zenon DEF handleNegateOverflowImpl
<1>4. ShowsInts(op) => args = <<op.a>>
    BY <1>1, UnaryIs, Zenon
<1> HIDE DEF text, args
<1>5. Means(op, text) /\ Operands(op, text) = <<op.a>>
    BY <1>2, MeansIs, OperandsIs, Zenon
<1>6. Says(op, Message(text, args))
    BY <1>4, <1>5, ShowingSays, Zenon
<1> QED
    BY <1>3, <1>6, Zenon

LEMMA IndexSays ==
    ASSUME NEW op, Compiled(op), op.handler = "out_of_bounds"
    PROVE  \A m \in handleOutOfBoundsImpl(op) : Says(op, m)
<1> DEFINE args == <<Shown(LHS(op).word)>>
<1>1. op.handler \in {"negate", "out_of_bounds"}
    OBVIOUS
<1>2. /\ "index" \notin Claims
      /\ "index" \in {"signed negation", "unsigned negation", "division by -1",
                      "negative base", "index"}
    BY DEF Claims
<1>3. handleOutOfBoundsImpl(op) = { Message("index", args) }
    BY Zenon DEF handleOutOfBoundsImpl
<1>4. ShowsInts(op) => args = <<op.a>>
    BY <1>1, UnaryIs, Zenon
<1> HIDE DEF args
<1>5. Means(op, "index") /\ Operands(op, "index") = <<op.a>>
    BY <1>2, MeansIs, OperandsIs, Zenon
<1>6. Says(op, Message("index", args))
    BY <1>4, <1>5, ShowingSays, Zenon
<1> QED
    BY <1>3, <1>6, Zenon

LEMMA AccessSays ==
    ASSUME NEW op
    PROVE  \A m \in handleTypeMismatchImpl(op) : Says(op, m)
<1>1. \A m \in handleTypeMismatchImpl(op) :
        \E text \in {"null pointer", "misaligned", "insufficient space"} :
            m = Message(text, <<op.Pointer>>)
    <2> DEFINE misaligned == op.Pointer % (2 ^ op.LogAlignment) # 0
               text == IF op.Pointer = 0 THEN "null pointer"
                       ELSE IF misaligned THEN "misaligned" ELSE "insufficient space"
    <2>1. handleTypeMismatchImpl(op) = { Message(text, <<op.Pointer>>) }
        BY Zenon DEF handleTypeMismatchImpl
    <2> HIDE DEF misaligned
    <2>2. text \in {"null pointer", "misaligned", "insufficient space"}
        OBVIOUS
    <2> QED
        BY <2>1, <2>2, Zenon
<1>2. \A text \in {"null pointer", "misaligned", "insufficient space"} :
        text \notin Claims /\ text \notin ShowsOperands
    BY DEF Claims, ShowsOperands
<1>3. \A text \in {"null pointer", "misaligned", "insufficient space"} :
        Says(op, Message(text, <<op.Pointer>>))
    BY <1>2, PlainSays, Zenon
<1> QED
    BY <1>1, <1>3, Zenon

LEMMA CastSays ==
    ASSUME NEW op
    PROVE  \A m \in handleFloatCastOverflow(op) : Says(op, m)
<1>1. "float cast" \notin Claims /\ "float cast" \notin ShowsOperands
    BY DEF Claims, ShowsOperands
<1> QED
    BY <1>1, PlainSays, Zenon DEF handleFloatCastOverflow

\* -1 divides anything but the least value of a type; what is left is zero.
LEMMA DivisionSays ==
    ASSUME NEW op, Compiled(op), Faulty(op), op.handler = "divrem"
    PROVE  /\ \A m \in handleDivremOverflowImpl(op) : Says(op, m)
           /\ handleDivremOverflowImpl(op) # {}
<1>1. op.b = 0 \/ (isSignedIntegerTy(op.type) /\ op.b = -1 /\ op.a = Least(op.type))
    BY DEF Faulty
<1>2. ASSUME op.b = 0 PROVE Says(op, Message("division by zero", <<>>))
    <2>1. "division by zero" \notin ShowsOperands
        BY DEF ShowsOperands
    <2>2. Means(op, "division by zero")
        BY <1>2, MeansIs, Zenon
    <2> QED
        BY <2>1, <2>2, MutelySays, Zenon
<1>3. CASE op.type \in IntegerTypes
    <2>1. /\ op.rhsType = op.type /\ op.a \in Int /\ op.b \in Int
          /\ InType(op.type, op.b)
          /\ ShowsInts(op) => Shown(LHS(op).word) = op.a
        <3>1. op.handler \in Binary /\ op.handler # "shift"
            BY DEF Binary
        <3> QED
            BY <1>3, <3>1, BinaryIs, Zenon
    <2>2. isMinusOne(op.rhsType, RHS(op)) = {op.b = -1}
        <3>1. \A address : isMinusOne(op.type, Encode(op.type, op.b, address)) = {op.b = -1}
            BY <1>3, <2>1, AskedOf
        <3> QED
            BY <2>1, <3>1, Zenon DEF RHS
    <2>3. handleDivremOverflowImpl(op) =
            { IF op.b = -1 THEN Message("division by -1", <<Shown(LHS(op).word)>>)
              ELSE Message("division by zero", <<>>) }
        BY <2>2 DEF handleDivremOverflowImpl
    <2>4. ASSUME op.b = -1
          PROVE  Says(op, Message("division by -1", <<Shown(LHS(op).word)>>))
        <3>1. isSignedIntegerTy(op.type) /\ op.a = Least(op.type)
            BY <1>1, <2>4
        <3>2. ~InType(op.type, -op.a)
            <4> DEFINE S == 2 ^ (getIntegerBitWidth(op.type) - 1)
            <4>1. -op.a \in Int
                BY <2>1
            <4>2. Least(op.type) = -S /\ (InType(op.type, -op.a) <=> -S <= -op.a /\ -op.a < S)
                BY <1>3, <3>1, <4>1, RangeIs, Zenon
            <4>3. S \in Nat
                BY <1>3, TypeIs, Halves, Zenon
            <4> HIDE DEF S
            <4> QED
                BY <3>1, <4>2, <4>3
        <3>3. Means(op, "division by -1")
            BY <2>4, <3>2, MeansIs, Zenon
        <3>4. Operands(op, "division by -1") = <<op.a>>
            BY OperandsIs
        <3> QED
            BY <2>1, <3>3, <3>4, ShowingSays, Zenon
    <2>5. ASSUME op.b # -1 PROVE Says(op, Message("division by zero", <<>>))
        BY <1>1, <1>2, <2>5
    <2> QED
        BY <2>3, <2>4, <2>5, Zenon
<1>4. CASE ~(op.type \in IntegerTypes)
    <2>1. op \in [handler : {"divrem"}, type : FloatTypes, rhsType : FloatTypes, a : {0}, b : {0}]
        BY <1>4 DEF Compiled, Binary
    <2>2. op.b = 0 /\ ~isSignedIntegerTy(op.rhsType)
        BY <2>1 DEF FloatTypes, isSignedIntegerTy, isIntegerTy
    <2>3. isMinusOne(op.rhsType, RHS(op)) = {FALSE}
        BY <2>2, Zenon DEF isMinusOne
    <2>4. handleDivremOverflowImpl(op) = { Message("division by zero", <<>>) }
        BY <2>3 DEF handleDivremOverflowImpl
    <2> QED
        BY <1>2, <2>2, <2>4, Zenon
<1> QED
    BY <1>3, <1>4

\* What is known of the operands of a shift, and what the handler asks of them.
LEMMA ShiftIs ==
    ASSUME NEW op, Compiled(op), Faulty(op), op.handler = "shift"
    PROVE  /\ op.type \in IntegerTypes /\ op.a \in Int /\ op.b \in Int
           /\ getIntegerBitWidth(op.type) \in Nat
           /\ isNegative(op.rhsType, RHS(op)) = {op.b < 0}
           /\ isNegative(op.type, LHS(op)) = {op.a < 0}
           /\ op.b >= 0 => getPositiveIntValue(op.rhsType, RHS(op)) = {op.b}
           /\ ShowsInts(op) => Shown(LHS(op).word) = op.a /\ Shown(RHS(op).word) = op.b
           /\ op.b >= 0 /\ op.b < getIntegerBitWidth(op.type) /\ ~(op.a < 0) =>
                op.a * 2 ^ op.b > Greatest(op.type)
<1>1. op.type \in IntegerTypes /\ op.handler \in Binary
    BY DEF Compiled, Binary
<1>2. /\ op.rhsType \in IntegerTypes /\ op.a \in Int /\ op.b \in Int
      /\ InType(op.type, op.a) /\ InType(op.rhsType, op.b)
      /\ ShowsInts(op) => Shown(LHS(op).word) = op.a /\ Shown(RHS(op).word) = op.b
    BY <1>1, BinaryIs, Zenon
<1>3. \A address : isNegative(op.type, Encode(op.type, op.a, address)) = {op.a < 0}
    BY <1>1, <1>2, AskedOf
<1>4. \A address : isNegative(op.rhsType, Encode(op.rhsType, op.b, address)) = {op.b < 0}
    BY <1>2, AskedOf
<1>5. ASSUME op.b >= 0
      PROVE  \A address : getPositiveIntValue(op.rhsType, Encode(op.rhsType, op.b, address)) = {op.b}
    BY <1>2, <1>5, AskedOf
<1>6. getIntegerBitWidth(op.type) \in Nat
    BY <1>1, TypeIs, Zenon
<1>7. ASSUME op.b >= 0, op.b < getIntegerBitWidth(op.type), ~(op.a < 0)
      PROVE  op.a * 2 ^ op.b > Greatest(op.type)
    <2> DEFINE bits == getIntegerBitWidth(op.type)
               overflows == op.a * 2 ^ op.b > Greatest(op.type)
    <2>1. \/ op.b < 0 \/ op.b >= bits
          \/ isSignedIntegerTy(op.type) /\ (op.a < 0 \/ overflows)
        BY Zenon DEF Faulty
    <2>2. ~(op.b < 0) /\ ~(op.b >= bits)
        BY <1>2, <1>6, <1>7
    <2> HIDE DEF bits, overflows
    <2>3. overflows
        BY <1>7, <2>1, <2>2
    <2> QED
        BY <2>3 DEF overflows
<1> QED
    BY <1>1, <1>2, <1>3, <1>4, <1>5, <1>6, <1>7, Zenon DEF LHS, RHS

LEMMA ShiftBaseSays ==
    ASSUME NEW op, Compiled(op), Faulty(op), op.handler = "shift",
           op.b >= 0, op.b < getIntegerBitWidth(op.type)
    PROVE  ShiftBase(op) # {} /\ \A m \in ShiftBase(op) : Says(op, m)
<1> DEFINE a == <<Shown(LHS(op).word)>>
           ab == <<Shown(LHS(op).word), Shown(RHS(op).word)>>
<1>1. isNegative(op.type, LHS(op)) = {op.a < 0}
    BY ShiftIs, Zenon
<1>2. ShowsInts(op) => a = <<op.a>> /\ ab = <<op.a, op.b>>
    BY ShiftIs, Zenon
<1>3. ShiftBase(op) = { IF op.a < 0 THEN Message("negative base", a)
                        ELSE Message("base overflow", ab) }
    <2> DEFINE negative == op.a < 0
    <2>1. isNegative(op.type, LHS(op)) = {negative}
        BY <1>1
    <2> HIDE DEF negative
    <2>2. { IF x THEN Message("negative base", a) ELSE Message("base overflow", ab)
            : x \in {negative} }
          = { IF negative THEN Message("negative base", a) ELSE Message("base overflow", ab) }
        OBVIOUS
    <2> QED
        BY <2>1, <2>2, Zenon DEF ShiftBase, negative
<1> HIDE DEF a, ab
<1>4. ASSUME op.a < 0 PROVE Says(op, Message("negative base", a))
    <2>1. Means(op, "negative base") /\ Operands(op, "negative base") = <<op.a>>
        BY <1>4, MeansIs, OperandsIs, Zenon
    <2> QED
        BY <1>2, <2>1, ShowingSays, Zenon
<1>5. ASSUME ~(op.a < 0) PROVE Says(op, Message("base overflow", ab))
    <2>1. op.a >= 0 /\ op.a * 2 ^ op.b > Greatest(op.type)
        <3>1. op.a >= 0
            BY <1>5, ShiftIs
        <3> QED
            BY <1>5, <3>1, ShiftIs, Zenon
    <2>2. Means(op, "base overflow")
        BY <2>1, MeansIs, Zenon
    <2>3. Operands(op, "base overflow") = <<op.a, op.b>>
        BY OperandsIs
    <2> QED
        BY <1>2, <2>2, <2>3, ShowingSays, Zenon
<1> QED
    BY <1>3, <1>4, <1>5, Zenon

LEMMA ShiftExponentSays ==
    ASSUME NEW op, Compiled(op), Faulty(op), op.handler = "shift"
    PROVE  /\ op.b < 0 => \A m \in ShiftExponent(op, TRUE) : Says(op, m)
           /\ op.b >= getIntegerBitWidth(op.type) =>
                \A m \in ShiftExponent(op, FALSE) : Says(op, m)
<1> DEFINE args == <<Shown(RHS(op).word)>>
<1>1. ShowsInts(op) => args = <<op.b>>
    BY ShiftIs, Zenon
<1>2. /\ ShiftExponent(op, TRUE) = { Message("negative exponent", args) }
      /\ ShiftExponent(op, FALSE) = { Message("exponent too large", args) }
    BY DEF ShiftExponent
<1> HIDE DEF args
<1>3. /\ Operands(op, "negative exponent") = <<op.b>>
      /\ Operands(op, "exponent too large") = <<op.b>>
    BY OperandsIs
<1>4. ASSUME op.b < 0 PROVE Says(op, Message("negative exponent", args))
    <2>1. Means(op, "negative exponent")
        BY <1>4, MeansIs, Zenon
    <2> QED
        BY <1>1, <1>3, <2>1, ShowingSays, Zenon
<1>5. ASSUME op.b >= getIntegerBitWidth(op.type)
      PROVE  Says(op, Message("exponent too large", args))
    <2>1. Means(op, "exponent too large")
        BY <1>5, MeansIs, Zenon
    <2> QED
        BY <1>1, <1>3, <2>1, ShowingSays, Zenon
<1> QED
    BY <1>2, <1>4, <1>5, Zenon

LEMMA ShiftSays ==
    ASSUME NEW op, Compiled(op), Faulty(op), op.handler = "shift"
    PROVE  /\ handleShiftOutOfBoundsImpl(op) # {}
           /\ \A m \in handleShiftOutOfBoundsImpl(op) : Says(op, m)
<1>1. /\ op.b \in Int /\ getIntegerBitWidth(op.type) \in Nat
      /\ isNegative(op.rhsType, RHS(op)) = {op.b < 0}
      /\ op.b >= 0 => getPositiveIntValue(op.rhsType, RHS(op)) = {op.b}
    BY ShiftIs, Zenon
<1>2. CASE op.b < 0
    <2>1. handleShiftOutOfBoundsImpl(op) = ShiftExponent(op, TRUE)
        BY <1>1, <1>2 DEF handleShiftOutOfBoundsImpl
    <2>2. ShiftExponent(op, TRUE) # {}
        BY DEF ShiftExponent
    <2> QED
        BY <1>2, <2>1, <2>2, ShiftExponentSays, Zenon
<1>3. CASE ~(op.b < 0)
    <2>1. op.b >= 0
        BY <1>1, <1>3
    <2>2. handleShiftOutOfBoundsImpl(op) =
            IF op.b >= getIntegerBitWidth(op.type) THEN ShiftExponent(op, FALSE)
            ELSE ShiftBase(op)
        <3> DEFINE negative == op.b < 0
                   At(x) == IF x >= getIntegerBitWidth(op.type)
                            THEN ShiftExponent(op, FALSE) ELSE ShiftBase(op)
                   Of(x) == IF x THEN ShiftExponent(op, TRUE)
                            ELSE UNION { At(y) : y \in getPositiveIntValue(op.rhsType, RHS(op)) }
        <3>1. isNegative(op.rhsType, RHS(op)) = {negative} /\ ~negative
            BY <1>1, <1>3
        <3>2. getPositiveIntValue(op.rhsType, RHS(op)) = {op.b}
            BY <1>1, <2>1
        <3>3. handleShiftOutOfBoundsImpl(op) =
                UNION { Of(x) : x \in isNegative(op.rhsType, RHS(op)) }
            BY Zenon DEF handleShiftOutOfBoundsImpl
        <3> HIDE DEF negative, At
        <3>4. UNION { At(y) : y \in {op.b} } = At(op.b)
            OBVIOUS
        <3>5. Of(negative) = At(op.b)
            BY <3>1, <3>2, <3>4, Zenon
        <3> HIDE DEF Of
        <3>6. UNION { Of(x) : x \in {negative} } = Of(negative)
            OBVIOUS
        <3> QED
            BY <3>1, <3>3, <3>5, <3>6, Zenon DEF At
    <2>3. CASE op.b >= getIntegerBitWidth(op.type)
        <3>1. ShiftExponent(op, FALSE) # {}
            BY DEF ShiftExponent
        <3> QED
            BY <2>2, <2>3, <3>1, ShiftExponentSays, Zenon
    <2>4. CASE ~(op.b >= getIntegerBitWidth(op.type))
        <3>1. op.b < getIntegerBitWidth(op.type)
            BY <1>1, <2>4
        <3> QED
            BY <2>1, <2>2, <2>4, <3>1, ShiftBaseSays, Zenon
    <2> QED
        BY <2>3, <2>4
<1> QED
    BY <1>2, <1>3

\* From the two addresses alone, the direction of the overflow.
LEMMA PointerSays ==
    ASSUME NEW op, Compiled(op), Faulty(op), op.handler = "pointer_overflow"
    PROVE  \A m \in handlePointerOverflowImpl(op) : Says(op, m)
<1> DEFINE M == 2 ^ HandleBits
           base == op.base
           offset == op.offset
           sum == base + offset
           to == Result(op)
           crosses == IsPositive(base) # IsPositive(to)
           text == IF base = 0 /\ to = 0 THEN "zero offset to null"
                   ELSE IF base = 0 THEN "offset to null"
                   ELSE IF to = 0 THEN "offset made null"
                   ELSE IF crosses THEN "index overflowed"
                   ELSE IF base > to THEN "addition overflowed" ELSE "subtraction overflowed"
<1>1. handlePointerOverflowImpl(op) = { Message(text, <<base, to>>) }
    BY Zenon DEF handlePointerOverflowImpl
<1>2. /\ M \in Nat \ {0} /\ base \in 0 .. M - 1 /\ offset \in Int
      /\ -M < offset /\ offset < M
    <2>1. M \in Nat \ {0}
        BY HandleAssumption, Halves, Zenon
    <2>2. op \in [handler : {"pointer_overflow"}, base : Pointers, offset : Int]
          /\ -(2 ^ HandleBits) < op.offset /\ op.offset < 2 ^ HandleBits
        <3> HIDE DEF M
        <3>1. op.handler \notin Binary
            BY DEF Binary
        <3> DEFINE bounded == -(2 ^ HandleBits) < op.offset /\ op.offset < 2 ^ HandleBits
        <3>2. \/ op.handler \in Binary \/ op.handler \in {"negate", "out_of_bounds"}
              \/ op.handler \in {"divrem"}
              \/ /\ op \in [handler : {"pointer_overflow"}, base : Pointers, offset : Int]
                 /\ bounded
              \/ op.handler \in {"type_mismatch"} \/ op.handler \in {"float_cast"}
            <4> HIDE DEF bounded
            <4>1. Compiled(op) => bounded \/ op.handler # "pointer_overflow"
                BY DEF Compiled, Binary, bounded
            <4> QED
                BY <4>1 DEF Compiled, Binary
        <3> HIDE DEF bounded
        <3>3. bounded /\ op \in [handler : {"pointer_overflow"}, base : Pointers, offset : Int]
            BY <3>1, <3>2
        <3> QED
            BY <3>3 DEF bounded
    <2>3. op.base \in Pointers /\ op.offset \in Int
        BY <2>2
    <2>4. Pointers = 0 .. M - 1
        BY DEF Pointers
    <2> QED
        BY <2>1, <2>2, <2>3, <2>4, Zenon
<1>3. to = sum % M
    BY Zenon DEF Result, Unsigned
<1>4. base = 0 \/ ~(sum \in 1 .. M - 1)
    <2>1. op.base = 0 \/ op.base + op.offset \notin Pointers \ {0}
        BY Zenon DEF Faulty
    <2>2. Pointers = 0 .. M - 1
        BY DEF Pointers
    <2> HIDE DEF M
    <2> QED
        BY <1>2, <2>1, <2>2
<1> HIDE DEF M, to, crosses
<1>5. sum \in Int /\ -M < sum /\ sum < M + M
    BY <1>2
<1>6. \/ 0 <= sum /\ sum < M /\ to = sum
      \/ sum < 0 /\ to = sum + M
      \/ M <= sum /\ to = sum - M
    <2>1. CASE 0 <= sum /\ sum < M
        <3>1. sum \in 0 .. M - 1 /\ sum = M * 0 + sum
            BY <1>2, <1>5, <2>1
        <3>2. sum % M = sum
            BY <1>2, <1>5, <3>1, DivisionIs
        <3> QED
            BY <1>3, <2>1, <3>2
    <2>2. CASE sum < 0
        <3>1. sum + M \in 0 .. M - 1 /\ sum = M * (-1) + (sum + M) /\ -1 \in Int
            BY <1>2, <1>5, <2>2
        <3>2. sum % M = sum + M
            BY <1>2, <1>5, <3>1, DivisionIs, Zenon
        <3> QED
            BY <1>3, <2>2, <3>2
    <2>3. CASE M <= sum
        <3> DEFINE rest == sum - M
        <3>1. rest \in 0 .. M - 1 /\ sum = M * 1 + rest /\ 1 \in Int
            BY <1>2, <1>5, <2>3
        <3> HIDE DEF rest
        <3>2. sum % M = rest
            BY <1>2, <1>5, <3>1, DivisionIs, Zenon
        <3> QED
            BY <1>3, <2>3, <3>2 DEF rest
    <2> QED
        BY <1>2, <1>5, <2>1, <2>2, <2>3
<1>7. text \notin ShowsOperands
    BY DEF ShowsOperands
<1>8. Means(op, text)
    <2>1. CASE base = 0 /\ to = 0
        <3>1. offset = 0
            BY <1>2, <1>6, <2>1
        <3>2. text = "zero offset to null"
            BY <2>1
        <3> QED
            BY <2>1, <3>1, <3>2, MeansIs, Zenon
    <2>2. CASE base = 0 /\ to # 0
        <3>1. offset # 0
            BY <1>2, <1>6, <2>2
        <3>2. text = "offset to null"
            BY <2>2
        <3> QED
            BY <2>2, <3>1, <3>2, MeansIs, Zenon
    <2>3. CASE base # 0 /\ to = 0
        <3>1. offset # 0
            BY <1>2, <1>6, <2>3
        <3>2. text = "offset made null"
            BY <2>3
        <3> QED
            BY <2>3, <3>1, <3>2, MeansIs, Zenon
    <2>4. CASE base # 0 /\ to # 0 /\ crosses
        <3>1. text = "index overflowed"
            BY <2>4
        <3>2. "index overflowed" \notin Claims
            BY DEF Claims
        <3> QED
            BY <3>1, <3>2, MeansIs, Zenon
    <2>5. CASE base # 0 /\ to # 0 /\ ~crosses /\ base > to
        <3>1. sum > M
            BY <1>2, <1>4, <1>5, <1>6, <2>5
        <3>2. text = "addition overflowed"
            BY <2>5
        <3>3. Means(op, text) <=> op.base + op.offset > 2 ^ HandleBits
            BY <3>2, MeansIs, Zenon
        <3> QED
            BY <3>1, <3>3, Zenon DEF M
    <2>6. CASE base # 0 /\ to # 0 /\ ~crosses /\ ~(base > to)
        <3>1. sum < 0
            BY <1>2, <1>4, <1>5, <1>6, <2>6
        <3>2. text = "subtraction overflowed"
            BY <2>6
        <3> QED
            BY <3>1, <3>2, MeansIs, Zenon
    <2> QED
        BY <2>1, <2>2, <2>3, <2>4, <2>5, <2>6
<1>9. Says(op, Message(text, <<base, to>>))
    BY <1>7, <1>8, MutelySays, Zenon
<1> QED
    BY <1>1, <1>9, Zenon DEF to, crosses

LEMMA FrameSays ==
    ASSUME NEW op, NEW piece \in Frame
    PROVE  Says(op, piece)
<1> DEFINE Texts == { "bold", "file", ":line", ":column", "<unknown>", ":",
                      "runtime error", "reset" }
<1>1. \A text \in Texts : text \notin Claims /\ text \notin ShowsOperands
    BY DEF Claims, ShowsOperands
<1>2. PICK text \in Texts : piece = Message(text, <<>>)
    BY Zenon DEF Frame, Text
<1> QED
    BY <1>1, <1>2, PlainSays, Zenon

\* Every piece of the diagnostic of a message that says op.
Saying(op) == { piece \in Pieces : Says(op, piece) }

LEMMA DiagSays ==
    ASSUME NEW op, NEW loc, NEW message \in Saying(op)
    PROVE  Ubsan_DiagImpl(loc, message) \in Seq(Saying(op))
<1>1. Frame \subseteq Saying(op)
    BY FrameIsPieces, FrameSays DEF Saying
<1> DEFINE d == (<<Text("bold")>> \o Ubsan_Location_Print(loc))
                \o <<Text(":"), Text("runtime error"), message, Text("reset")>>
<1>2. d \in Seq(Saying(op))
    BY <1>1, LocationIsSeq, TextsAreIn, AroundIsFramed, Zenon
<1> QED
    BY <1>2, Zenon DEF Ubsan_DiagImpl

-----------------------------------------------------------------------------
(* What a current compiler passes is always reported.                      *)

LEMMA CastIsReported ==
    ASSUME NEW op, Compiled(op), op.handler = "float_cast"
    PROVE  op.V2 /\ handleFloatCastOverflow(op) # {}
<1>1. op \in [handler : {"float_cast"}, V2 : {TRUE}, type : IntegerTypes \cup FloatTypes,
              val : Handles]
    <2>1. op.handler \notin Binary
        BY DEF Binary
    <2> DEFINE bounded == -(2 ^ HandleBits) < op.offset /\ op.offset < 2 ^ HandleBits
    <2>2. Compiled(op) =>
            \/ op.handler \in Binary \/ op.handler \in {"negate", "out_of_bounds"}
            \/ op.handler \in {"divrem"} \/ op.handler \in {"pointer_overflow"}
            \/ op.handler \in {"type_mismatch"}
            \/ op \in [handler : {"float_cast"}, V2 : {TRUE},
                       type : IntegerTypes \cup FloatTypes, val : Handles]
        BY DEF Compiled
    <2> QED
        BY <2>1, <2>2
<1>2. op.V2 /\ op.type \in IntegerTypes \cup FloatTypes
    BY <1>1
<1> DEFINE values == IF isFloatTy(op.type) THEN getFloatValue(op.type, op.val)
                     ELSE IF isUnsignedIntegerTy(op.type) THEN getUIntValue(op.type, op.val)
                     ELSE getSIntValue(op.type, op.val)
<1>3. values # {}
    <2>1. CASE op.type \in IntegerTypes
        <3>1. /\ isInlineInt(op.type) \/ getIntegerBitWidth(op.type) = MaxBits
              /\ isUnsignedIntegerTy(op.type) <=> ~isSignedIntegerTy(op.type)
            BY <2>1, TypeIs, Zenon
        <3>2. ~isFloatTy(op.type)
            BY <2>1 DEF IntegerTypes, isFloatTy
        <3>3. CASE isUnsignedIntegerTy(op.type)
            <4>1. getUIntValue(op.type, op.val) # {}
                BY <3>1, <3>3, Zenon DEF getUIntValue
            <4> QED
                BY <3>2, <3>3, <4>1, Zenon
        <3>4. CASE ~isUnsignedIntegerTy(op.type)
            <4>1. getSIntValue(op.type, op.val) # {}
                BY <3>1, <3>4, Zenon DEF getSIntValue
            <4> QED
                BY <3>2, <3>4, <4>1, Zenon
        <3> QED
            BY <3>3, <3>4
    <2>2. CASE op.type \in FloatTypes
        <3>1. isFloatTy(op.type) /\ op.type.TypeInfo \in {HandleBits, MaxBits}
            BY <2>2 DEF FloatTypes, isFloatTy
        <3>2. isInlineFloat(op.type) <=> op.type.TypeInfo = HandleBits
            BY <3>1, HandleAssumption DEF isInlineFloat, getFloatBitWidth, MaxBits
        <3>3. getFloatValue(op.type, op.val) # {}
            BY <3>1, <3>2, Zenon DEF getFloatValue, getFloatBitWidth
        <3> QED
            BY <3>1, <3>3, Zenon
    <2> QED
        BY <1>2, <2>1, <2>2
<1>4. handleFloatCastOverflow(op) = { Message("float cast", <<v>>) : v \in values }
    BY Zenon DEF handleFloatCastOverflow
<1> HIDE DEF values
<1> QED
    BY <1>2, <1>3, <1>4, Zenon

LEMMA NamedFileIsNew ==
    ASSUME NEW loc, NamesFile(loc)
    PROVE  loc.Filename # NoFile /\ ~looksLikeFloatCastOverflowDataV1(loc.Filename)
<1> DEFINE name == loc.Filename
<1>1. name \in (32 .. 254) \X (0 .. 254)
    BY DEF NamesFile
<1> HIDE DEF name
<1>2. name # <<>> /\ name[1] \in 32 .. 254 /\ name[2] \in 0 .. 254
    BY <1>1
<1>3. PICK c \in 32 .. 254 : c = name[1]
    BY <1>2
<1>4. PICK d \in 0 .. 254 : d = name[2]
    BY <1>2
<1>5. ~(c + d < 2 \/ c = 255 \/ d = 255)
    OBVIOUS
<1>6. ~looksLikeFloatCastOverflowDataV1(name)
    BY <1>3, <1>4, <1>5, Zenon DEF looksLikeFloatCastOverflowDataV1
<1>7. name # NoFile
    BY <1>2 DEF NoFile
<1> QED
    BY <1>6, <1>7 DEF name

Reported(t) ==
    \E op \in Operations, abort \in BOOLEAN, loc \in Locations : \E message \in Saying(op) :
        MayEnter(t) /\ Begin(t, op, abort, loc, "diag", Ubsan_DiagImpl(loc, message))

LEMMA ReportReports ==
    ASSUME NEW t \in Threads, NEW op \in Operations, NEW abort \in BOOLEAN,
           NEW loc \in Locations, NEW messages \in SUBSET Pieces,
           messages # {}, \A m \in messages : Says(op, m),
           MayEnter(t), Report(t, op, abort, loc, messages)
    PROVE  Reported(t)
<1>1. PICK message \in messages :
          Begin(t, op, abort, loc, "diag", Ubsan_DiagImpl(loc, message))
    BY Zenon DEF Report
<1>2. message \in Saying(op)
    BY DEF Saying
<1> QED
    BY <1>1, <1>2, Zenon DEF Reported

\* Each handler reports: it has something to say, and what it says is true.
LEMMA HandlersReport ==
    ASSUME CurrentCompiler, NEW t \in Threads, Enter(t)
    PROVE  Reported(t)
<1>1. \A op \in Operations : Compiled(op) /\ Faulty(op)
    BY FaultyOperations, Zenon DEF CurrentCompiler
<1>2. CASE TypeMismatch(t)
    <2>1. PICK op \in Operations, abort \in BOOLEAN, loc \in Locations :
              op.handler \in {"type_mismatch"} /\ MayEnter(t) /\ Report(t, op, abort, loc, handleTypeMismatchImpl(op))
        BY <1>2, Zenon DEF TypeMismatch, Handle
    <2>2. \A m \in handleTypeMismatchImpl(op) : Says(op, m)
        BY <1>1, <2>1, AccessSays
    <2>3. handleTypeMismatchImpl(op) # {}
        BY Zenon DEF handleTypeMismatchImpl
    <2> QED
        BY <2>1, <2>2, <2>3, MessagesArePieces, ReportReports, Zenon
<1>3. CASE IntegerOverflow(t)
    <2>1. PICK op \in Operations, abort \in BOOLEAN, loc \in Locations :
              op.handler \in {"add", "sub", "mul"} /\ MayEnter(t) /\ Report(t, op, abort, loc, handleIntegerOverflowImpl(op))
        BY <1>3, Zenon DEF IntegerOverflow, Handle
    <2>2. \A m \in handleIntegerOverflowImpl(op) : Says(op, m)
        BY <1>1, <2>1, OverflowSays
    <2>3. handleIntegerOverflowImpl(op) # {}
        BY Zenon DEF handleIntegerOverflowImpl
    <2> QED
        BY <2>1, <2>2, <2>3, MessagesArePieces, ReportReports, Zenon
<1>4. CASE NegateOverflow(t)
    <2>1. PICK op \in Operations, abort \in BOOLEAN, loc \in Locations :
              op.handler \in {"negate"} /\ MayEnter(t) /\ Report(t, op, abort, loc, handleNegateOverflowImpl(op))
        BY <1>4, Zenon DEF NegateOverflow, Handle
    <2>2. \A m \in handleNegateOverflowImpl(op) : Says(op, m)
        BY <1>1, <2>1, NegationSays
    <2>3. handleNegateOverflowImpl(op) # {}
        BY Zenon DEF handleNegateOverflowImpl
    <2> QED
        BY <2>1, <2>2, <2>3, MessagesArePieces, ReportReports, Zenon
<1>5. CASE DivremOverflow(t)
    <2>1. PICK op \in Operations, abort \in BOOLEAN, loc \in Locations :
              op.handler \in {"divrem"} /\ MayEnter(t) /\ Report(t, op, abort, loc, handleDivremOverflowImpl(op))
        BY <1>5, Zenon DEF DivremOverflow, Handle
    <2>2. handleDivremOverflowImpl(op) # {} /\ \A m \in handleDivremOverflowImpl(op) : Says(op, m)
        BY <1>1, <2>1, DivisionSays
    <2> QED
        BY <2>1, <2>2, MessagesArePieces, ReportReports, Zenon
<1>6. CASE ShiftOutOfBounds(t)
    <2>1. PICK op \in Operations, abort \in BOOLEAN, loc \in Locations :
              op.handler \in {"shift"} /\ MayEnter(t) /\ Report(t, op, abort, loc, handleShiftOutOfBoundsImpl(op))
        BY <1>6, Zenon DEF ShiftOutOfBounds, Handle
    <2>2. handleShiftOutOfBoundsImpl(op) # {} /\ \A m \in handleShiftOutOfBoundsImpl(op) : Says(op, m)
        BY <1>1, <2>1, ShiftSays
    <2> QED
        BY <2>1, <2>2, MessagesArePieces, ReportReports, Zenon
<1>7. CASE OutOfBounds(t)
    <2>1. PICK op \in Operations, abort \in BOOLEAN, loc \in Locations :
              op.handler \in {"out_of_bounds"} /\ MayEnter(t) /\ Report(t, op, abort, loc, handleOutOfBoundsImpl(op))
        BY <1>7, Zenon DEF OutOfBounds, Handle
    <2>2. \A m \in handleOutOfBoundsImpl(op) : Says(op, m)
        BY <1>1, <2>1, IndexSays
    <2>3. handleOutOfBoundsImpl(op) # {}
        BY Zenon DEF handleOutOfBoundsImpl
    <2> QED
        BY <2>1, <2>2, <2>3, MessagesArePieces, ReportReports, Zenon
<1>8. CASE PointerOverflow(t)
    <2>1. PICK op \in Operations, abort \in BOOLEAN, loc \in Locations :
              op.handler \in {"pointer_overflow"} /\ MayEnter(t) /\ Report(t, op, abort, loc, handlePointerOverflowImpl(op))
        BY <1>8, Zenon DEF PointerOverflow, Handle
    <2>2. \A m \in handlePointerOverflowImpl(op) : Says(op, m)
        BY <1>1, <2>1, PointerSays
    <2>3. handlePointerOverflowImpl(op) # {}
        BY Zenon DEF handlePointerOverflowImpl
    <2> QED
        BY <2>1, <2>2, <2>3, MessagesArePieces, ReportReports, Zenon
<1>9. CASE FloatCastOverflow(t)
    <2>1. MayEnter(t)
        BY <1>9, Zenon DEF FloatCastOverflow
    <2>2. PICK op \in Operations, abort \in BOOLEAN, loc \in Locations :
            LET bytes == FirstBytes(op, loc)
            IN  /\ op.handler = "float_cast"
                /\ \/ bytes = NoFile
                   \/ looksLikeFloatCastOverflowDataV1(bytes)
                   \/ Report(t, op, abort, loc, handleFloatCastOverflow(op))
        BY <1>9, Zenon DEF FloatCastOverflow
    <2>3. op.V2 /\ handleFloatCastOverflow(op) # {}
        BY <1>1, <2>2, CastIsReported, Zenon
    <2>4. FirstBytes(op, loc) = loc.Filename
        BY <2>3, Zenon DEF FirstBytes
    <2>5. loc.Filename # NoFile /\ ~looksLikeFloatCastOverflowDataV1(loc.Filename)
        BY NamedFileIsNew, Zenon DEF CurrentCompiler
    <2>6. Report(t, op, abort, loc, handleFloatCastOverflow(op))
        BY <2>2, <2>4, <2>5, Zenon
    <2> QED
        BY <2>1, <2>3, <2>6, CastSays, MessagesArePieces, ReportReports, Zenon
<1> QED
    BY <1>2, <1>3, <1>4, <1>5, <1>6, <1>7, <1>8, <1>9 DEF Enter

-----------------------------------------------------------------------------
(* The invariant of what is reported.                                      *)

TodoSays == \A t \in Threads : todo[t] \in Seq(Saying(call[t].op))

\* With a current compiler, what is left to print is true of the operation, and
\* a handler that stops the game was entered by its _abort entry.
ReportsInv == IInv /\ TodoSays /\ RecoverableReturns

LEMMA InitReports == Init => ReportsInv
<1> SUFFICES ASSUME Init PROVE ReportsInv
    OBVIOUS
<1>1. TodoSays
    <2>1. \A S : <<>> \in Seq(S)
        BY EmptySeq
    <2> QED
        BY <2>1, Zenon DEF Init, TodoSays
<1>2. RecoverableReturns
    BY DEF Init, RecoverableReturns
<1> QED
    BY <1>1, <1>2, InitIInv DEF ReportsInv

LEMMA ReportedKeeps ==
    ASSUME ReportsInv, NEW t \in Threads, Reported(t)
    PROVE  TodoSays' /\ RecoverableReturns'
<1>0. PICK op \in Operations, abort \in BOOLEAN, loc \in Locations : \E message \in Saying(op) :
        MayEnter(t) /\ Begin(t, op, abort, loc, "diag", Ubsan_DiagImpl(loc, message))
    BY Zenon DEF Reported
<1>1. PICK message \in Saying(op) :
        Begin(t, op, abort, loc, "diag", Ubsan_DiagImpl(loc, message))
    BY <1>0
<1>2. /\ pc' = [pc EXCEPT ![t] = "diag"]
      /\ call' = [call EXCEPT ![t] = [op |-> op, abort |-> abort, loc |-> loc]]
      /\ todo' = [todo EXCEPT ![t] = Ubsan_DiagImpl(loc, message)]
    BY <1>1, Zenon DEF Begin
<1>3. /\ pc \in [Threads -> {"idle", "diag", "check", "assert", "crash"}]
      /\ call \in [Threads -> Calls] /\ todo \in [Threads -> Seq(Pieces)]
    BY DEF ReportsInv, IInv, TypeInv, TypeOK
<1> DEFINE d == Ubsan_DiagImpl(loc, message)
           c == [op |-> op, abort |-> abort, loc |-> loc]
<1>4. d \in Seq(Saying(op)) /\ c.op = op
    BY DiagSays
<1> HIDE DEF d, c
<1>5. ASSUME NEW u \in Threads
      PROVE  /\ u = t => pc'[u] = "diag" /\ todo'[u] = d /\ call'[u] = c
             /\ u # t => pc'[u] = pc[u] /\ todo'[u] = todo[u] /\ call'[u] = call[u]
    BY <1>2, <1>3, Zenon DEF d, c
<1>6. TodoSays'
    <2> SUFFICES ASSUME NEW u \in Threads PROVE todo'[u] \in Seq(Saying(call'[u].op))
        BY Zenon DEF TodoSays
    <2>1. CASE u = t
        BY <1>4, <1>5, <2>1, Zenon
    <2>2. CASE u # t
        BY <1>5, <2>2, Zenon DEF ReportsInv, TodoSays
    <2> QED
        BY <2>1, <2>2
<1>7. RecoverableReturns'
    <2> SUFFICES ASSUME NEW u \in Threads, pc'[u] \in {"check", "assert", "crash"}
                 PROVE  call'[u].abort
        BY Zenon DEF RecoverableReturns
    <2>1. u # t
        BY <1>5
    <2> QED
        BY <1>5, <2>1, Zenon DEF ReportsInv, RecoverableReturns
<1> QED
    BY <1>6, <1>7

LEMMA ContinueKeepsReports ==
    ASSUME ReportsInv, NEW t \in Threads, Continue(t)
    PROVE  TodoSays' /\ RecoverableReturns'
<1>1. /\ pc \in [Threads -> {"idle", "diag", "check", "assert", "crash"}]
      /\ todo \in [Threads -> Seq(Pieces)]
    BY DEF ReportsInv, IInv, TypeInv, TypeOK
<1>2. call' = call
    BY Zenon DEF Continue, PrintPiece, Finish, CheckFailed, N64Wrapper_Assert, Crash
<1>3. TodoSays'
    <2> SUFFICES ASSUME NEW u \in Threads PROVE todo'[u] \in Seq(Saying(call[u].op))
        BY <1>2, Zenon DEF TodoSays
    <2>1. todo[u] \in Seq(Saying(call[u].op))
        BY Zenon DEF ReportsInv, TodoSays
    <2>2. \/ todo'[u] = todo[u]
          \/ todo[u] # <<>> /\ todo'[u] = Tail(todo[u])
        <3>1. CASE PrintPiece(t)
            BY <1>1, <3>1, Zenon DEF PrintPiece
        <3>2. CASE ~PrintPiece(t)
            BY <3>2, Zenon DEF Continue, Finish, CheckFailed, N64Wrapper_Assert, Crash
        <3> QED
            BY <3>1, <3>2
    <2>3. CASE todo[u] # <<>> /\ todo'[u] = Tail(todo[u])
        BY <2>1, <2>3, HeadTailProperties, Zenon
    <2> QED
        BY <2>1, <2>2, <2>3, Zenon
<1>4. RecoverableReturns'
    <2> SUFFICES ASSUME NEW u \in Threads, pc'[u] \in {"check", "assert", "crash"}
                 PROVE  call[u].abort
        BY <1>2, Zenon DEF RecoverableReturns
    <2>1. pc[u] \in {"check", "assert", "crash"} => call[u].abort
        BY Zenon DEF ReportsInv, RecoverableReturns
    <2>2. CASE pc'[u] = pc[u]
        BY <2>1, <2>2
    <2>3. CASE pc'[u] # pc[u]
        <3>1. u = t /\ (Finish(t) \/ CheckFailed(t) \/ N64Wrapper_Assert(t))
            BY <1>1, <2>3, Zenon
            DEF Continue, PrintPiece, Finish, CheckFailed, N64Wrapper_Assert, Crash
        <3>2. CASE Finish(t)
            BY <1>1, <3>1, <3>2 DEF Finish
        <3>3. CASE CheckFailed(t)
            BY <1>1, <2>1, <3>1, <3>3 DEF CheckFailed
        <3>4. CASE N64Wrapper_Assert(t)
            BY <1>1, <2>1, <3>1, <3>4 DEF N64Wrapper_Assert
        <3> QED
            BY <3>1, <3>2, <3>3, <3>4
    <2> QED
        BY <2>2, <2>3
<1> QED
    BY <1>3, <1>4

LEMMA NextReports ==
    ASSUME CurrentCompiler
    PROVE  ReportsInv /\ [Next]_vars => ReportsInv'
<1> SUFFICES ASSUME ReportsInv, [Next]_vars PROVE ReportsInv'
    OBVIOUS
<1>1. IInv'
    BY NextIInv DEF ReportsInv
<1>2. ASSUME NEW t \in Threads, Enter(t) PROVE TodoSays' /\ RecoverableReturns'
    BY <1>2, HandlersReport, ReportedKeeps
<1>3. ASSUME NEW t \in Threads, Continue(t) PROVE TodoSays' /\ RecoverableReturns'
    BY <1>3, ContinueKeepsReports
<1>4. ASSUME UNCHANGED vars PROVE TodoSays' /\ RecoverableReturns'
    BY <1>4, Zenon DEF vars, ReportsInv, TodoSays, RecoverableReturns
<1>5. TodoSays' /\ RecoverableReturns'
    BY <1>2, <1>3, <1>4, Zenon DEF Next
<1> QED
    BY <1>1, <1>5 DEF ReportsInv

\* With a current compiler no CHECK of ubsan_value.c fails and no cast is taken
\* for an old compiler's: only an _abort entry ends the game.
THEOREM RecoverableEntriesReturn ==
    ASSUME CurrentCompiler
    PROVE  Spec => []RecoverableReturns
<1>1. ReportsInv => RecoverableReturns
    BY DEF ReportsInv
<1> QED
    BY InitReports, NextReports, <1>1, PTL DEF Spec

\* What ubsan_handlers.c concludes of the operands from their handles and types,
\* and of a pointer overflow from the two addresses, is what happened in the
\* program, for every width of a handle and every operand of every type.
THEOREM DiagnosticsTrue ==
    ASSUME CurrentCompiler
    PROVE  Spec => []Truthful
<1>1. ReportsInv => Truthful
    <2> SUFFICES ASSUME ReportsInv, NEW t \in Threads, NEW k \in DOMAIN todo[t]
                 PROVE  Means(call[t].op, todo[t][k].text)
        BY Zenon DEF Truthful
    <2>1. todo[t][k] \in Saying(call[t].op)
        BY ElementOfSeq, LenProperties DEF ReportsInv, TodoSays
    <2> QED
        BY <2>1, Zenon DEF Saying, Says
<1> QED
    BY InitReports, NextReports, <1>1, PTL DEF Spec

\* %i shows an operand that is an int, or fits one, as it was in the program.
THEOREM IntsAreShown ==
    ASSUME CurrentCompiler
    PROVE  Spec => []IntOperandsShown
<1>1. ReportsInv => IntOperandsShown
    <2> SUFFICES ASSUME ReportsInv, NEW t \in Threads, NEW k \in DOMAIN todo[t],
                        todo[t][k].text \in ShowsOperands, ShowsInts(call[t].op)
                 PROVE  todo[t][k].args = Operands(call[t].op, todo[t][k].text)
        BY Zenon DEF IntOperandsShown, ShowsInts
    <2>1. todo[t][k] \in Saying(call[t].op)
        BY ElementOfSeq, LenProperties DEF ReportsInv, TodoSays
    <2> QED
        BY <2>1, Zenon DEF Saying, Says
<1> QED
    BY InitReports, NextReports, <1>1, PTL DEF Spec
=============================================================================
