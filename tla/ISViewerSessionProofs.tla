----------------------- MODULE ISViewerSessionProofs -----------------------
(***************************************************************************)
(* A reset never lets text of the previous session through once the        *)
(* wrapper is initialised: for every ring, word and set of texts, with one *)
(* printing thread.                                                        *)
(***************************************************************************)
EXTENDS ISViewerSession, ISViewerProofs

\* A step of a session is a step of the log.
LEMMA SessionStep == [SessionNext]_sessionVars => [Next]_vars
BY DEF SessionNext, Next, sessionVars, vars

\* What the host still has to take after a fragment is published: what it had
\* to take before, and the cells the copy loop went over.
LEMMA PublishedCells ==
    ASSUME NEW g \in Cells, NEW p \in Cells, NEW s \in Cells, NEW c \in Cells,
           Dist(g, p) + Dist(p, s) <= RingSize,
           Dist(g, c) < Dist(g, s)
    PROVE  Dist(g, c) < Dist(g, p) \/ Dist(p, c) < Dist(p, s)
BY RingAssumption DEF Dist, Cells

\* Cells before the next one: the cell just stored and those before it.
LEMMA NextCells ==
    ASSUME NEW p \in Cells, NEW s \in Cells, NEW c \in Cells,
           Dist(p, c) < Dist(p, Wrap(s + 1))
    PROVE  Dist(p, c) < Dist(p, s) \/ c = s
BY RingAssumption DEF Dist, Cells, Wrap

\* Taking a character leaves nothing new to take.
LEMMA TakeCells ==
    ASSUME NEW g \in Cells, NEW p \in Cells, NEW c \in Cells, g # p,
           Dist(Wrap(g + 1), c) < Dist(Wrap(g + 1), p)
    PROVE  Dist(g, c) < Dist(g, p)
BY RingAssumption DEF Dist, Cells, Wrap

LEMMA InitSessionInv == SessionInit => SessionInv
BY DEF SessionInit, Init, PowerOn, SessionInv, OnlyThisSession, CopyPCs

LEMMA NextSessionInv ==
    ASSUME NEW t, Threads = {t}
    PROVE  TypeOK /\ SoloInv /\ InitInv /\ SessionInv /\ [SessionNext]_sessionVars => SessionInv'
<1> SUFFICES ASSUME TypeOK, SoloInv, InitInv, SessionInv, [SessionNext]_sessionVars
             PROVE  SessionInv'
    OBVIOUS
<1>a. /\ t \in Threads /\ pc \in [Threads -> PCs]
      /\ get \in Cells /\ put \in Cells /\ start \in [Threads -> Cells] /\ start[t] \in Cells
    BY DEF TypeOK
<1> USE <1>a DEF device, static, locals, Goto
\* The parts of SessionInv for the only thread.
<1> DEFINE
      A == isInitialized => \A c \in Cells : Dist(get, c) < Dist(get, put) => c \in fresh
      B == /\ pc[t] \in InitPCs => ~isInitialized
           /\ pc[t] = "get" => put = 0
           /\ pc[t] \in {"magic", "flag"} => get = put
      C == pc[t] \in CopyPCs =>
             \A c \in Cells : Dist(put, c) < Dist(put, start[t]) => c \in fresh
<1>b. A /\ B /\ C
    BY DEF SessionInv, OnlyThisSession, Unread
<1>c. A' /\ B' /\ C' => SessionInv'
    BY DEF SessionInv, OnlyThisSession, Unread, Cells
<1>d. \/ Reset
      \/ fresh' = fresh \cup Stored /\ (HostTake \/ Thread(t))
      \/ UNCHANGED <<vars, fresh>>
    BY DEF SessionNext, sessionVars
<1>1. CASE Reset
    <2>1. pc'[t] = "idle" /\ ~isInitialized'
        BY <1>1 DEF Reset
    <2> QED
        BY <2>1, <1>c DEF CopyPCs
<1>8. CASE UNCHANGED <<vars, fresh>>
    BY <1>8, <1>b, <1>c DEF vars
<1> SUFFICES ASSUME fresh' = fresh \cup Stored, HostTake \/ Thread(t) PROVE SessionInv'
    BY <1>1, <1>8, <1>d
<1>7. fresh \subseteq fresh' /\ Stored \subseteq fresh'
    OBVIOUS
<1>2. CASE HostTake
    <2>1. /\ get' = Wrap(get + 1) /\ get # put
          /\ UNCHANGED <<put, pc, start, isInitialized>>
        BY <1>2 DEF HostTake
    <2>2. A'
        BY <1>b, <2>1, TakeCells
    <2>3. B' /\ C'
        BY <1>b, <2>1
    <2> QED
        BY <2>2, <2>3, <1>c
\* What moves neither register, nor the flag, nor the thread into the loop.
<1>3. ASSUME UNCHANGED <<get, put, isInitialized>>, pc'[t] \notin InitPCs \cup CopyPCs
      PROVE  SessionInv'
    <2>1. A' /\ B' /\ C'
        BY <1>3, <1>b DEF InitPCs
    <2> QED
        BY <2>1, <1>c
<1>4. CASE Call(t) \/ Fragment(t) \/ Done(t)
    BY <1>4, <1>3 DEF Call, Fragment, Done, InitPCs, CopyPCs
<1>5. CASE INITIALIZE(t)
    <2> USE DEF InitPCs, CopyPCs
    <2>1. CASE Test(t) \/ InitHandle(t)
        <3>1. /\ UNCHANGED <<get, put, isInitialized>>
              /\ pc'[t] \in {"fragment", "handle", "put"}
              /\ pc'[t] # "fragment" => ~isInitialized
            BY <2>1, <1>b DEF Test, InitHandle
        <3> QED
            BY <3>1, <1>b, <1>c
    <2>2. CASE InitPut(t)
        <3>1. put' = 0 /\ pc'[t] = "get" /\ ~isInitialized'
            BY <2>2, <1>b DEF InitPut
        <3> QED
            BY <3>1, <1>c
    <2>3. CASE InitGet(t)
        <3>1. get' = 0 /\ put' = 0 /\ pc'[t] = "magic" /\ ~isInitialized'
            BY <2>3, <1>b DEF InitGet
        <3> QED
            BY <3>1, <1>c
    <2>4. CASE InitMagic(t)
        <3>1. get' = put' /\ pc'[t] = "flag" /\ ~isInitialized'
            BY <2>4, <1>b DEF InitMagic
        <3> QED
            BY <3>1, <1>c
    <2>5. CASE SetInitialized(t)
        <3>1. get' = put' /\ get' \in Cells /\ pc'[t] = "fragment"
            BY <2>5, <1>b DEF SetInitialized
        <3>2. Dist(get', put') = 0 /\ \A c \in Cells : Dist(get', c) \in Nat
            BY <3>1, DistInCells DEF Cells
        <3>3. A'
            BY <3>1, <3>2
        <3> QED
            BY <3>1, <3>3, <1>c
    <2> QED
        BY <1>5, <2>1, <2>2, <2>3, <2>4, <2>5 DEF INITIALIZE
<1>6. CASE is_proutSyncPrintf(t)
    <2>1. CASE NoViewer(t) \/ ReadMagic(t) \/ ReadGet(t) \/ Refuse(t)
        BY <2>1, <1>3 DEF NoViewer, ReadMagic, ReadGet, Refuse, InitPCs, CopyPCs
    <2>2. CASE Admit(t)
        <3>1. /\ UNCHANGED <<get, put, isInitialized>> /\ pc'[t] = "copy" /\ start'[t] = put
            BY <2>2 DEF Admit
        <3>2. \A c \in Cells : ~(Dist(put, c) < Dist(put, put))
            BY RingAssumption DEF Dist, Cells
        <3> QED
            BY <3>1, <3>2, <1>b, <1>c DEF InitPCs
    <2>3. CASE SkipNul(t) \/ ReadWord(t)
        <3>1. /\ UNCHANGED <<get, put, start, isInitialized>>
              /\ pc[t] \in CopyPCs /\ pc'[t] \in CopyPCs
            BY <2>3 DEF SkipNul, ReadWord, CopyPCs
        <3> QED
            BY <3>1, <1>b, <1>c DEF InitPCs, CopyPCs
    <2>4. CASE StoreWord(t)
        <3>1. /\ UNCHANGED <<get, put, isInitialized>>
              /\ pc[t] = "store" /\ pc'[t] = "copy" /\ start'[t] = Wrap(start[t] + 1)
            BY <2>4 DEF StoreWord
        <3>2. start[t] \in fresh'
            BY <3>1, <1>7 DEF Stored
        <3> QED
            BY <3>1, <3>2, <1>b, <1>c, NextCells DEF InitPCs, CopyPCs
    <2>5. CASE Publish(t)
        <3>1. /\ UNCHANGED <<get, isInitialized>> /\ put' = start[t]
              /\ pc[t] = "copy" /\ pc'[t] = "fragment" /\ ~More(t)
            BY <2>5 DEF Publish
        <3>2. Dist(get, put) + Dist(put, start[t]) <= RingSize
            <4>1. Dist(get, put) + Dist(put, start[t]) + Len(text[t]) - i[t] <= RingSize
                BY <3>1 DEF SoloInv, CopyPCs
            <4>2. Len(text[t]) = i[t] /\ i[t] \in Nat
                BY <3>1, TextIsSeq DEF TypeOK, More
            <4>3. Dist(get, put) \in Nat /\ Dist(put, start[t]) \in Nat
                BY DistInCells DEF Cells
            <4> QED
                BY <4>1, <4>2, <4>3, RingAssumption
        <3>3. A'
            BY <3>1, <3>2, <1>b, PublishedCells DEF CopyPCs, InitPCs
        <3> QED
            BY <3>1, <3>3, <1>c DEF CopyPCs, InitPCs
    <2> QED
        BY <1>6, <2>1, <2>2, <2>3, <2>4, <2>5 DEF is_proutSyncPrintf
<1> QED
    BY <1>2, <1>4, <1>5, <1>6 DEF Thread

(***************************************************************************)
(* After a reset at any point of the previous session, the host is offered *)
(* nothing of that session once isPrintfInit has run to its end            *)
(* (n64_io.c:42-46, 104-110) and one thread prints.                        *)
(***************************************************************************)
THEOREM NothingStale ==
    ASSUME NEW t, Threads = {t}
    PROVE  SessionSpec => []OnlyThisSession
<1>1. SessionInit => TypeOK /\ SoloInv /\ InitInv /\ SessionInv
    BY InitTypeOK, InitSoloInv, InitInitInv, InitSessionInv DEF SessionInit
<1>2. TypeOK /\ SoloInv /\ InitInv /\ SessionInv /\ [SessionNext]_sessionVars
      => (TypeOK /\ SoloInv /\ InitInv /\ SessionInv)'
    BY SessionStep, NextTypeOK, NextSoloInv, NextInitInv, NextSessionInv
<1>3. SessionInv => OnlyThisSession
    BY DEF SessionInv
<1> QED
    BY <1>1, <1>2, <1>3, PTL DEF SessionSpec
=============================================================================
