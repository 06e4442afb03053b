------------------------- MODULE SanitizedLogProofs -------------------------
(***************************************************************************)
(* The handlers over the ring, for every set of threads, operations and    *)
(* locations and every ring: the composition is a behaviour of ISViewer    *)
(* and of UbsanHandlers, and with one thread the host's screen is back in  *)
(* its normal style unless a style was lost for want of room.              *)
(***************************************************************************)
EXTENDS SanitizedLog, SequenceTheorems, TLAPS

\* What is proved of the ring, for the wrapper of this module.
Ring == INSTANCE ISViewerProofs WITH pc <- place, NUL <- "NUL"

\* What is proved of the handlers.
Reports == INSTANCE UbsanHandlersProofs

LEMMA RingOfChars == Ring!RingAssumption
<1>1. Texts \subseteq Seq(Chars)
    BY DEF Texts, Chars
<1> QED
    BY <1>1, RingAssumption DEF Ring!RingAssumption, Chars

-----------------------------------------------------------------------------
(* The steps of the wrapper are steps of ISViewer.                         *)

LEMMA RunIsRingStep ==
    ASSUME NEW t \in Threads, W!Call(t) \/ W!INITIALIZE(t) \/ W!Fragment(t) \/ W!Done(t)
    PROVE  Ring!Call(t) \/ Ring!INITIALIZE(t) \/ Ring!Fragment(t) \/ Ring!Done(t)
<1> USE DEF W!Goto, Ring!Goto, W!device, Ring!device, W!static, Ring!static, W!locals, Ring!locals
<1>1. CASE W!Call(t) \/ W!Done(t) \/ W!Fragment(t)
    BY Zenon, <1>1 DEF W!Call, W!Done, W!Fragment, Ring!Call, Ring!Done, Ring!Fragment
<1>2. CASE W!Test(t) \/ W!InitHandle(t) \/ W!InitPut(t)
    BY Zenon, <1>2 DEF W!Test, W!InitHandle, W!InitPut, Ring!Test, Ring!InitHandle, Ring!InitPut,
        Ring!INITIALIZE
<1>3. CASE W!InitGet(t) \/ W!InitMagic(t) \/ W!SetInitialized(t)
    BY Zenon, <1>3 DEF W!InitGet, W!InitMagic, W!SetInitialized, Ring!InitGet, Ring!InitMagic,
        Ring!SetInitialized, Ring!INITIALIZE
<1> QED
    BY <1>1, <1>2, <1>3 DEF W!INITIALIZE

LEMMA CallbackIsRingStep ==
    ASSUME NEW t \in Threads
    PROVE  /\ W!NoViewer(t) => Ring!NoViewer(t)
           /\ W!Refuse(t) => Ring!Refuse(t)
           /\ W!Publish(t) => Ring!Publish(t)
           /\ W!is_proutSyncPrintf(t) => Ring!is_proutSyncPrintf(t)
<1> USE DEF W!Goto, Ring!Goto, W!device, Ring!device, W!static, Ring!static, W!locals, Ring!locals,
        W!More, Ring!More, W!Char, Ring!Char, W!ForgetLocals, Ring!ForgetLocals, W!Cells, Ring!Cells,
        W!WordOf, Ring!WordOf, W!Wrap, Ring!Wrap, W!Refused, Ring!Refused
<1>1. W!NoViewer(t) => Ring!NoViewer(t)
    BY Zenon DEF W!NoViewer, Ring!NoViewer
<1>2. W!ReadMagic(t) \/ W!ReadGet(t) => Ring!ReadMagic(t) \/ Ring!ReadGet(t)
    BY Zenon DEF W!ReadMagic, W!ReadGet, Ring!ReadMagic, Ring!ReadGet
<1>3. W!Admit(t) => Ring!Admit(t)
    BY Zenon DEF W!Admit, Ring!Admit
<1>4. W!Refuse(t) => Ring!Refuse(t)
    BY Zenon DEF W!Refuse, Ring!Refuse
<1>5. W!SkipNul(t) => Ring!SkipNul(t)
    BY Zenon DEF W!SkipNul, Ring!SkipNul
<1>6. W!ReadWord(t) => Ring!ReadWord(t)
    BY Zenon DEF W!ReadWord, Ring!ReadWord
<1>7. W!StoreWord(t) => Ring!StoreWord(t)
    BY Zenon DEF W!StoreWord, Ring!StoreWord
<1>8. W!Publish(t) => Ring!Publish(t)
    BY Zenon DEF W!Publish, Ring!Publish
<1> QED
    BY Zenon, <1>1, <1>2, <1>3, <1>4, <1>5, <1>6, <1>7, <1>8
    DEF W!is_proutSyncPrintf, Ring!is_proutSyncPrintf

LEMMA TakeIsRingStep == W!HostTake => Ring!HostTake
BY Zenon DEF W!HostTake, Ring!HostTake, W!Wrap, Ring!Wrap, W!static, Ring!static, W!locals, Ring!locals

LEMMA InitIsRingInit == Init => Ring!Init
BY Zenon DEF Init, W!Init, Ring!Init, W!PowerOn, Ring!PowerOn, W!Cells, Ring!Cells

LEMMA StepIsRingStep == [Next]_vars => [Ring!Next]_(Ring!vars)
<1> SUFFICES ASSUME [Next]_vars PROVE [Ring!Next]_(Ring!vars)
    OBVIOUS
<1>1. CASE HostTake
    BY Zenon, <1>1, TakeIsRingStep DEF HostTake, Ring!Next
<1>2. ASSUME NEW t \in Threads, Handler(t) PROVE UNCHANGED Ring!vars
    BY Zenon, <1>2 DEF Handler, wrapper, Ring!vars, Ring!device, Ring!static, Ring!locals
<1>3. ASSUME NEW t \in Threads, Call(t) \/ Fragment(t) \/ Callback(t) \/ Done(t)
      PROVE  Ring!Next
    BY Zenon, <1>3, RunIsRingStep, CallbackIsRingStep
    DEF Call, Fragment, Callback, Done, Ring!Next, Ring!Thread
<1>4. CASE UNCHANGED vars
    BY Zenon, <1>4 DEF vars, wrapper, Ring!vars, Ring!device, Ring!static, Ring!locals
<1> QED
    BY Zenon, <1>1, <1>2, <1>3, <1>4 DEF Next, Running

\* Diagnostics reach the log only through the wrapper: what the handlers and the
\* host do to it is a behaviour of ISViewer without console resets.
THEOREM PrintsThroughTheWrapper == Spec => Ring!Spec
<1>1. Init => Ring!Init
    BY InitIsRingInit
<1>2. [Next]_vars => [Ring!Next]_(Ring!vars)
    BY StepIsRingStep
<1> QED
    BY <1>1, <1>2, PTL DEF Spec, Ring!Spec

-----------------------------------------------------------------------------
(* The steps of the handlers are steps of UbsanHandlers.                   *)

\* Handlers over the ring behave like handlers whose Printf is one step that
\* always succeeds: no refusal, slow host or other thread makes one skip a step
\* or take it in another order.  It is the safety part of ImplementsHandlers.
THEOREM HandlersUnaware == Spec => H!Spec
<1>1. Init => H!Init
    BY DEF Init
<1>2. [Next]_vars => [H!Next]_(H!vars)
    <2> SUFFICES ASSUME [Next]_vars PROVE [H!Next]_(H!vars)
        OBVIOUS
    <2>1. ASSUME NEW t \in Threads, Handler(t) \/ Done(t) PROVE H!Next
        BY Zenon, <2>1 DEF Handler, Done, H!Next, H!Continue
    <2>2. ASSUME NEW t \in Threads, Call(t) \/ Fragment(t) \/ Callback(t)
          PROVE  UNCHANGED H!vars
        BY Zenon, <2>2 DEF Call, Fragment, Callback, handlers, H!vars
    <2>3. HostTake \/ UNCHANGED vars => UNCHANGED H!vars
        BY Zenon DEF HostTake, vars, handlers, H!vars
    <2> QED
        BY Zenon, <2>1, <2>2, <2>3 DEF Next, Running
<1> QED
    BY <1>1, <1>2, PTL DEF Spec, H!Spec
-----------------------------------------------------------------------------
(* What is proved of the handlers holds over the ring.                     *)

LEMMA SameMessages ==
    ASSUME NEW op
    PROVE  /\ H!handleTypeMismatchImpl(op) = Reports!handleTypeMismatchImpl(op)
           /\ H!handleIntegerOverflowImpl(op) = Reports!handleIntegerOverflowImpl(op)
           /\ H!handleNegateOverflowImpl(op) = Reports!handleNegateOverflowImpl(op)
           /\ H!handleDivremOverflowImpl(op) = Reports!handleDivremOverflowImpl(op)
           /\ H!handleShiftOutOfBoundsImpl(op) = Reports!handleShiftOutOfBoundsImpl(op)
           /\ H!handleOutOfBoundsImpl(op) = Reports!handleOutOfBoundsImpl(op)
           /\ H!handleFloatCastOverflow(op) = Reports!handleFloatCastOverflow(op)
           /\ H!handlePointerOverflowImpl(op) = Reports!handlePointerOverflowImpl(op)
<1> USE DEF H!MaxBits, Reports!MaxBits, H!isIntegerTy, Reports!isIntegerTy,
        H!isSignedIntegerTy, Reports!isSignedIntegerTy, H!isUnsignedIntegerTy,
        Reports!isUnsignedIntegerTy, H!isFloatTy, Reports!isFloatTy,
        H!getIntegerBitWidth, Reports!getIntegerBitWidth, H!getFloatBitWidth,
        Reports!getFloatBitWidth, H!isInlineInt, Reports!isInlineInt, H!isInlineFloat,
        Reports!isInlineFloat, H!Signed, Reports!Signed, H!Unsigned, Reports!Unsigned,
        H!U64_LeftShift, Reports!U64_LeftShift, H!U64_RightShift,
        Reports!U64_RightShift, H!getSIntValue, Reports!getSIntValue, H!getUIntValue,
        Reports!getUIntValue, H!getPositiveIntValue, Reports!getPositiveIntValue,
        H!isMinusOne, Reports!isMinusOne, H!isNegative, Reports!isNegative,
        H!getFloatValue, Reports!getFloatValue, H!Encode, Reports!Encode, H!LHSAddress,
        Reports!LHSAddress, H!RHSAddress, Reports!RHSAddress, H!LHS, Reports!LHS, H!RHS,
        Reports!RHS, H!Pointers, Reports!Pointers, H!IsPositive, Reports!IsPositive,
        H!Result, Reports!Result, H!Shown, Reports!Shown, H!Message, Reports!Message
<1>1. H!handleTypeMismatchImpl(op) = Reports!handleTypeMismatchImpl(op)
    BY Zenon DEF H!handleTypeMismatchImpl, Reports!handleTypeMismatchImpl
<1>2. H!handleIntegerOverflowImpl(op) = Reports!handleIntegerOverflowImpl(op)
    BY Zenon DEF H!handleIntegerOverflowImpl, Reports!handleIntegerOverflowImpl
<1>3. H!handleNegateOverflowImpl(op) = Reports!handleNegateOverflowImpl(op)
    BY Zenon DEF H!handleNegateOverflowImpl, Reports!handleNegateOverflowImpl
<1>4. H!handleDivremOverflowImpl(op) = Reports!handleDivremOverflowImpl(op)
    BY Zenon DEF H!handleDivremOverflowImpl, Reports!handleDivremOverflowImpl
<1>5. H!handleShiftOutOfBoundsImpl(op) = Reports!handleShiftOutOfBoundsImpl(op)
    BY Zenon DEF H!handleShiftOutOfBoundsImpl, Reports!handleShiftOutOfBoundsImpl,
        H!ShiftExponent, Reports!ShiftExponent, H!ShiftBase, Reports!ShiftBase
<1>6. H!handleOutOfBoundsImpl(op) = Reports!handleOutOfBoundsImpl(op)
    BY Zenon DEF H!handleOutOfBoundsImpl, Reports!handleOutOfBoundsImpl
<1>7. H!handleFloatCastOverflow(op) = Reports!handleFloatCastOverflow(op)
    BY Zenon DEF H!handleFloatCastOverflow, Reports!handleFloatCastOverflow
<1>8. H!handlePointerOverflowImpl(op) = Reports!handlePointerOverflowImpl(op)
    BY Zenon DEF H!handlePointerOverflowImpl, Reports!handlePointerOverflowImpl
<1> QED
    BY Zenon, <1>1, <1>2, <1>3, <1>4, <1>5, <1>6, <1>7, <1>8

LEMMA SameDiagnostic ==
    ASSUME NEW loc, NEW message
    PROVE  H!Ubsan_DiagImpl(loc, message) = Reports!Ubsan_DiagImpl(loc, message)
BY Zenon DEF H!Ubsan_DiagImpl, Reports!Ubsan_DiagImpl, H!Ubsan_Location_Print,
    Reports!Ubsan_Location_Print, H!Ubsan_PrintSourceLocation,
    Reports!Ubsan_PrintSourceLocation, H!Text, Reports!Text, H!Message, Reports!Message,
    H!NoFile, Reports!NoFile

LEMMA SameReport ==
    ASSUME NEW t, NEW op, NEW abort, NEW loc
    PROVE  /\ \A next, pieces : H!Begin(t, op, abort, loc, next, pieces)
                                <=> Reports!Begin(t, op, abort, loc, next, pieces)
           /\ \A messages : H!Report(t, op, abort, loc, messages)
                            <=> Reports!Report(t, op, abort, loc, messages)
BY Zenon, SameDiagnostic DEF H!Begin, Reports!Begin, H!Report, Reports!Report

LEMMA SameCast ==
    ASSUME NEW t
    PROVE  H!FloatCastOverflow(t) => Reports!FloatCastOverflow(t)
<1>1. \A op, loc : H!FirstBytes(op, loc) = Reports!FirstBytes(op, loc)
    BY Zenon DEF H!FirstBytes, Reports!FirstBytes, H!TypeKindBytes, Reports!TypeKindBytes
<1>2. \A bytes : H!looksLikeFloatCastOverflowDataV1(bytes)
                 <=> Reports!looksLikeFloatCastOverflowDataV1(bytes)
    BY Zenon DEF H!looksLikeFloatCastOverflowDataV1, Reports!looksLikeFloatCastOverflowDataV1
<1>3. H!NoFile = Reports!NoFile
    BY Zenon DEF H!NoFile, Reports!NoFile
<1>4. H!MayEnter(t) <=> Reports!MayEnter(t)
    BY Zenon DEF H!MayEnter, Reports!MayEnter
<1> QED
    BY Zenon, <1>1, <1>2, <1>3, <1>4, SameReport, SameMessages
    DEF H!FloatCastOverflow, Reports!FloatCastOverflow

LEMMA SameEntry ==
    ASSUME NEW t
    PROVE  H!Enter(t) => Reports!Enter(t)
<1> USE Zenon, SameReport, SameMessages
    DEF H!Handle, Reports!Handle, H!MayEnter, Reports!MayEnter
<1>1. H!TypeMismatch(t) => Reports!TypeMismatch(t)
    BY Zenon DEF H!TypeMismatch, Reports!TypeMismatch
<1>2. H!IntegerOverflow(t) => Reports!IntegerOverflow(t)
    BY Zenon DEF H!IntegerOverflow, Reports!IntegerOverflow
<1>3. H!NegateOverflow(t) => Reports!NegateOverflow(t)
    BY Zenon DEF H!NegateOverflow, Reports!NegateOverflow
<1>4. H!DivremOverflow(t) => Reports!DivremOverflow(t)
    BY Zenon DEF H!DivremOverflow, Reports!DivremOverflow
<1>5. H!ShiftOutOfBounds(t) => Reports!ShiftOutOfBounds(t)
    BY Zenon DEF H!ShiftOutOfBounds, Reports!ShiftOutOfBounds
<1>6. H!OutOfBounds(t) => Reports!OutOfBounds(t)
    BY Zenon DEF H!OutOfBounds, Reports!OutOfBounds
<1>7. H!PointerOverflow(t) => Reports!PointerOverflow(t)
    BY Zenon DEF H!PointerOverflow, Reports!PointerOverflow
<1> QED
    BY Zenon, SameCast, <1>1, <1>2, <1>3, <1>4, <1>5, <1>6, <1>7
    DEF H!Enter, Reports!Enter

LEMMA SameContinue ==
    ASSUME NEW t
    PROVE  H!Continue(t) => Reports!Continue(t)
BY Zenon DEF H!Continue, Reports!Continue, H!PrintPiece, Reports!PrintPiece, H!Finish,
    Reports!Finish, H!CheckFailed, Reports!CheckFailed, H!N64Wrapper_Assert,
    Reports!N64Wrapper_Assert, H!Crash, Reports!Crash

LEMMA SameHandlers == H!Spec => Reports!Spec
<1>1. H!Init => Reports!Init
    BY Zenon DEF H!Init, Reports!Init, H!NoCall, Reports!NoCall
<1>2. [H!Next]_(H!vars) => [Reports!Next]_(Reports!vars)
    BY Zenon, SameEntry, SameContinue
    DEF H!Next, Reports!Next, H!vars, Reports!vars
<1> QED
    BY <1>1, <1>2, PTL DEF H!Spec, Reports!Spec

LEMMA HandlersAreSound ==
    Reports!HandleAssumption /\ Reports!CallsAssumption /\ Reports!FaultyOperations
<1>1. Reports!HandleAssumption /\ Reports!CallsAssumption
    BY Zenon, HandlersAssumption
    DEF H!HandleAssumption, Reports!HandleAssumption, H!CallsAssumption, Reports!CallsAssumption
<1>2. \A op : H!Faulty(op) <=> Reports!Faulty(op)
    BY Zenon DEF H!Faulty, Reports!Faulty, H!InType, Reports!InType, H!Exact, Reports!Exact,
        H!isSignedIntegerTy, Reports!isSignedIntegerTy, H!isIntegerTy, Reports!isIntegerTy,
        H!Least, Reports!Least, H!Greatest, Reports!Greatest, H!getIntegerBitWidth,
        Reports!getIntegerBitWidth, H!Pointers, Reports!Pointers
<1>3. Reports!FaultyOperations
    BY Zenon, <1>2, HandlersAssumption DEF H!FaultyOperations, Reports!FaultyOperations
<1> QED
    BY <1>1, <1>3

\* However slow or absent the host and whatever the ring refuses: when no handler
\* is printing, the last style handed over is the normal one, and an _abort entry
\* does not return.
THEOREM HandlersStaySound == Spec => []H!StyleReset /\ H!AbortNeverReturns
<1>1. Spec => Reports!Spec
    BY HandlersUnaware, SameHandlers
<1>2. Reports!Spec => []Reports!StyleReset /\ Reports!AbortNeverReturns
    BY HandlersAreSound, Reports!StyleIsReset, Reports!AbortIsNoreturn
<1>3. Reports!StyleReset <=> H!StyleReset
    BY Zenon DEF Reports!StyleReset, H!StyleReset
<1>4. Reports!AbortNeverReturns => H!AbortNeverReturns
    <2>1. [\A t \in Threads : pc[t] # "idle" /\ call[t].abort => pc'[t] # "idle"]_(Reports!vars)
          => [\A t \in Threads : pc[t] # "idle" /\ call[t].abort => pc'[t] # "idle"]_(H!vars)
        BY Zenon DEF Reports!vars, H!vars
    <2> QED
        BY <2>1, PTL DEF Reports!AbortNeverReturns, H!AbortNeverReturns
<1> QED
    BY <1>1, <1>2, <1>3, <1>4, PTL

-----------------------------------------------------------------------------
(* One thread: the style of the host's screen.                             *)

\* Has the thread no diagnostic left, or handed over the reset that ends it?
Settled(t) ==
    pc[t] = "diag" /\ todo[t] # <<>> =>
        /\ Len(todo[t]) = 1
        /\ sent[t] = 2 \/ (sent[t] = 1 /\ place[t] \notin Ring!ProutPCs)

\* A screen that shows `pending` next ends in the normal style: no bold comes
\* after the last reset.
EndsNormal(shown, pending) ==
    \/ shown = "normal" /\ \A k \in DOMAIN pending : pending[k] # "bold"
    \/ \E k \in DOMAIN pending :
          pending[k] = "reset" /\ \A l \in DOMAIN pending : l > k => pending[l] # "bold"

\* The fragment in the callback is the one the Printf under way sent last.
Handing(t) ==
    /\ place[t] = "idle" => sent[t] = 0
    /\ place[t] \in Ring!ProutPCs =>
          /\ Prints(t)
          /\ sent[t] \in 1 .. Len(Fragments(Printf(t)))
          /\ text[t] = Fragments(Printf(t))[sent[t]]

\* The viewer is there, found by its first initialisation.
Attached ==
    /\ attached
    /\ ~isInitialized => get = 0 /\ put = 0 /\ screen = "normal"
    /\ \A t \in Threads : isInitialized \/ place[t] = "flag" => magic = "IS64"

\* What makes ScreenReset inductive when one thread prints: what a settled thread
\* handed over and the ring has not lost ends in the normal style.
StyleInv ==
    /\ Attached
    /\ sent \in [Threads -> Nat]
    /\ \A t \in Threads :
        /\ Handing(t)
        /\ Settled(t) /\ ~lost => EndsNormal(screen, Ring!unread)

BaseInv == Ring!RingInv /\ Reports!IInv

LEMMA BaseInvariant ==
    ASSUME NEW t, Threads = {t}
    PROVE  Spec => []BaseInv
<1>1. Ring!Spec => []Ring!RingInv
    BY RingOfChars, Ring!RingInvariant
<1>2. Reports!Init => Reports!IInv
    BY HandlersAreSound, Reports!InitIInv
<1>3. Reports!IInv /\ [Reports!Next]_(Reports!vars) => Reports!IInv'
    BY HandlersAreSound, Reports!NextIInv
<1>4. Reports!Spec => []Reports!IInv
    BY <1>2, <1>3, PTL DEF Reports!Spec
<1> QED
    BY <1>1, <1>4, PrintsThroughTheWrapper, HandlersUnaware, SameHandlers, PTL DEF BaseInv
-----------------------------------------------------------------------------
(* What the host and the ring do to the style.                             *)

\* Taking the first character shows it.
LEMMA TakeEnds ==
    ASSUME NEW p \in Seq(Chars), p # <<>>, NEW shown, NEW after, EndsNormal(shown, p),
           after = CASE p[1] = "bold" -> "bold"
                     [] p[1] = "reset" -> "normal"
                     [] OTHER -> shown
    PROVE  EndsNormal(after, Tail(p))
<1> DEFINE v == Tail(p)
<1>1. /\ v \in Seq(Chars) /\ Len(v) = Len(p) - 1 /\ Len(p) \in Nat \ {0}
      /\ \A k \in 1 .. Len(v) : v[k] = p[k + 1]
    BY EmptySeq, HeadTailProperties
<1>2. DOMAIN p = 1 .. Len(p) /\ DOMAIN v = 1 .. Len(v)
    BY <1>1
<1> HIDE DEF v
<1>3. ASSUME \A k \in DOMAIN p : k > 1 => p[k] # "bold"
      PROVE  \A k \in DOMAIN v : v[k] # "bold"
    <2> SUFFICES ASSUME NEW k \in 1 .. Len(v) PROVE v[k] # "bold"
        BY <1>2
    <2>1. k + 1 \in DOMAIN p /\ k + 1 > 1
        BY <1>1, <1>2
    <2> QED
        BY <1>1, <1>3, <2>1
<1>4. 1 \in DOMAIN p
    BY <1>1, <1>2
<1>5. CASE shown = "normal" /\ \A k \in DOMAIN p : p[k] # "bold"
    <2>1. after = "normal"
        BY <1>4, <1>5
    <2> QED
        BY <1>3, <1>5, <2>1 DEF EndsNormal, v
<1>6. ASSUME NEW k \in DOMAIN p, p[k] = "reset",
             \A l \in DOMAIN p : l > k => p[l] # "bold"
      PROVE  EndsNormal(after, v)
    <2>1. CASE k = 1
        BY <1>3, <1>6, <2>1 DEF EndsNormal
    <2>2. CASE k # 1
        <3>1. k - 1 \in DOMAIN v /\ v[k - 1] = "reset"
            BY <1>1, <1>2, <1>6, <2>2
        <3>2. ASSUME NEW l \in DOMAIN v, l > k - 1 PROVE v[l] # "bold"
            <4>1. l + 1 \in DOMAIN p /\ l + 1 > k /\ v[l] = p[l + 1]
                BY <1>1, <1>2, <3>2
            <4> QED
                BY <1>6, <4>1
        <3> QED
            BY <3>1, <3>2 DEF EndsNormal
    <2> QED
        BY <2>1, <2>2
<1> QED
    BY <1>5, <1>6 DEF EndsNormal, v

\* A plain character keeps the style, a reset makes it the normal one.
LEMMA AppendEnds ==
    ASSUME NEW p \in Seq(Chars), NEW shown, NEW c \in Chars,
           c = "reset" \/ (c = "plain" /\ EndsNormal(shown, p))
    PROVE  EndsNormal(shown, p \o <<c>>)
<1> DEFINE q == p \o <<c>>
<1>1. /\ q \in Seq(Chars) /\ Len(q) = Len(p) + 1 /\ Len(p) \in Nat
      /\ \A k \in 1 .. Len(p) : q[k] = p[k]
      /\ q[Len(p) + 1] = c
    <2>1. <<c>> \in Seq(Chars) /\ Len(<<c>>) = 1 /\ <<c>>[1] = c
        OBVIOUS
    <2> QED
        BY <2>1, ConcatProperties
<1>2. DOMAIN p = 1 .. Len(p) /\ DOMAIN q = 1 .. Len(p) + 1
    BY <1>1
<1>3. \A k \in DOMAIN q : (k \in DOMAIN p /\ q[k] = p[k]) \/ (k = Len(p) + 1 /\ q[k] = c)
    BY <1>1, <1>2
<1> HIDE DEF q
<1>4. CASE c = "reset"
    <2>1. Len(p) + 1 \in DOMAIN q /\ \A l \in DOMAIN q : ~(l > Len(p) + 1)
        BY <1>1, <1>2
    <2> QED
        BY <1>1, <1>4, <2>1 DEF EndsNormal, q
<1>5. ASSUME c = "plain", shown = "normal", \A k \in DOMAIN p : p[k] # "bold"
      PROVE  EndsNormal(shown, q)
    BY <1>3, <1>5 DEF EndsNormal
<1>6. ASSUME c = "plain", NEW k \in DOMAIN p, p[k] = "reset",
             \A l \in DOMAIN p : l > k => p[l] # "bold"
      PROVE  EndsNormal(shown, q)
    <2>1. k \in DOMAIN q /\ q[k] = "reset"
        BY <1>1, <1>2, <1>6
    <2>2. \A l \in DOMAIN q : l > k => q[l] # "bold"
        BY <1>3, <1>6
    <2> QED
        BY <2>1, <2>2 DEF EndsNormal
<1> QED
    BY <1>4, <1>5, <1>6 DEF EndsNormal, q

\* A fragment of one character reaches the ring as it is.
LEMMA VisibleOne ==
    ASSUME NEW c \in Chars, c # "NUL"
    PROVE  Ring!Log!Visible(<<c>>) = <<c>>
<1> DEFINE m == <<c>>
<1>1. m \in Seq(Chars) /\ Len(m) = 1 /\ m[1] = c /\ DOMAIN m = {1}
    OBVIOUS
<1> HIDE DEF m
<1>2. Ring!Log!Rank(m, 0) = 0 /\ Ring!Log!Rank(m, 0 + 1) = Ring!Log!Rank(m, 0) + 1
    BY <1>1, RingOfChars, Ring!RankNext
<1>3. Ring!Log!Rank(m, 1) = 1
    BY <1>2
<1>4. 1 \in Ring!Log!Shown(m)
    BY <1>1 DEF Ring!Log!Shown
<1>5. Ring!Log!Visible(m)[1] = c
    <2>1. 1 \in 1 .. Ring!Log!Rank(m, Len(m))
        BY <1>1, <1>3
    <2>2. Ring!Log!Visible(m)[1] = m[1]
        BY Zenon, <1>1, <1>3, <1>4, <2>1, RingOfChars, Ring!VisibleNth
    <2> QED
        BY <1>1, <2>2
<1>6. /\ Ring!Log!Visible(m) = [k \in 1 .. 1 |-> Ring!Log!Visible(m)[k]]
    BY <1>1, <1>3 DEF Ring!Log!Visible
<1> QED
    BY <1>5, <1>6 DEF m

\* The fragments that matter: of the last Printf of a diagnostic, and of those
\* that end the game.
LEMMA LastFragments ==
    /\ Fragments(H!Text("reset")) = << <<"reset">>, <<"plain">> >>
    /\ Fragments(H!Text("assertion")) = << <<"plain">> >>
BY DEF Fragments, H!Text, H!Message

\* At most two fragments make a Printf.
LEMMA FragmentsAreFew == \A piece : Len(Fragments(piece)) \in {1, 2}
BY DEF Fragments

-----------------------------------------------------------------------------
(* StyleInv.                                                               *)

\* The facts about types that the steps use.
LEMMA BaseFacts ==
    ASSUME NEW t \in Threads, BaseInv
    PROVE  /\ place \in [Threads -> Ring!PCs]
           /\ text \in [Threads -> Texts \cup {<<>>}]
           /\ get \in Ring!Cells /\ put \in Ring!Cells
           /\ isInitialized \in BOOLEAN
           /\ pc \in [Threads -> {"idle", "diag", "check", "assert", "crash"}]
           /\ todo \in [Threads -> Seq(Reports!Pieces)]
           /\ place[t] \in Ring!ProutPCs => isInitialized
           /\ place[t] \in Ring!InitPCs => ~isInitialized
           /\ todo[t] # <<>> => todo[t][Len(todo[t])] = H!Text("reset")
<1>1. Ring!TypeOK /\ Ring!InitInv /\ Ring!FifoInv /\ Reports!IInv
    BY Zenon DEF BaseInv, Ring!RingInv
<1>2. /\ place \in [Threads -> Ring!PCs]
      /\ text \in [Threads -> Texts \cup {<<>>}]
      /\ get \in Ring!Cells /\ put \in Ring!Cells
      /\ isInitialized \in BOOLEAN
    BY Zenon, <1>1 DEF Ring!TypeOK
<1>3. /\ pc \in [Threads -> {"idle", "diag", "check", "assert", "crash"}]
      /\ todo \in [Threads -> Seq(Reports!Pieces)]
    BY Zenon, <1>1 DEF Reports!IInv, Reports!TypeInv, Reports!TypeOK
<1>4. place[t] \in Ring!ProutPCs => isInitialized
    BY <1>1 DEF Ring!InitInv, Ring!UsedAfterInit
<1>5. place[t] \in Ring!InitPCs => ~isInitialized
    BY Zenon, <1>1 DEF Ring!FifoInv
<1>6. todo[t] # <<>> => todo[t][Len(todo[t])] = H!Text("reset")
    BY Zenon, <1>1 DEF Reports!IInv, Reports!ResetIsLast, Reports!Text, H!Text,
        Reports!Message, H!Message
<1> QED
    BY <1>2, <1>3, <1>4, <1>5, <1>6

LEMMA SameCells ==
    ASSUME NEW t, Threads = {t}, BaseInv, [Next]_vars, UNCHANGED <<get, put>>
    PROVE  Ring!unread' = Ring!unread
<1>1. Ring!TypeOK /\ Ring!SoloInv
    BY Zenon DEF BaseInv, Ring!RingInv
<1>2. [Ring!Next]_(Ring!vars)
    BY Zenon, StepIsRingStep
<1> QED
    BY Zenon, <1>1, <1>2, RingOfChars, Ring!SameUnread

\* A step that leaves the ring and the screen alone, and after which no more is
\* claimed than before it, keeps the claim.
LEMMA SameStyle ==
    ASSUME NEW t, Threads = {t}, BaseInv, [Next]_vars, UNCHANGED <<get, put, screen>>,
           Settled(t) /\ ~lost => EndsNormal(screen, Ring!unread),
           Settled(t)' /\ ~lost' => Settled(t) /\ ~lost
    PROVE  Settled(t)' /\ ~lost' => EndsNormal(screen', Ring!unread')
BY SameCells

LEMMA InitStyle == Init => StyleInv
<1> SUFFICES ASSUME Init PROVE StyleInv
    OBVIOUS
<1>1. /\ attached /\ get = 0 /\ put = 0 /\ screen = "normal" /\ ~isInitialized
      /\ place = [u \in Threads |-> "idle"] /\ sent = [u \in Threads |-> 0]
    BY DEF Init, W!Init, W!PowerOn
<1>2. 0 \in Ring!Cells
    BY RingAssumption DEF Ring!Cells
<1>3. Ring!Dist(get, put) = 0
    BY <1>1, <1>2, RingOfChars, Ring!DistInCells
<1>4. DOMAIN Ring!unread = 1 .. 0
    BY <1>3 DEF Ring!unread
<1>5. EndsNormal(screen, Ring!unread)
    BY <1>1, <1>4 DEF EndsNormal
<1> QED
    BY <1>1, <1>5 DEF StyleInv, Attached, Handing, Ring!ProutPCs, Ring!CopyPCs

\* Between its Printfs a handler is settled.
LEMMA HandlerKeepsStyle ==
    ASSUME NEW t, Threads = {t}, BaseInv, StyleInv, Handler(t)
    PROVE  StyleInv'
<1>1. /\ place[t] = "idle" /\ UNCHANGED <<wrapper, sent, screen, lost>>
      /\ H!Enter(t) \/ H!Finish(t) \/ H!Crash(t)
    BY DEF Handler
<1>2. Settled(t)
    <2>1. CASE H!Enter(t)
        <3>1. pc[t] = "idle"
            BY Zenon, <2>1 DEF H!Enter, H!TypeMismatch, H!IntegerOverflow, H!NegateOverflow,
                H!DivremOverflow, H!ShiftOutOfBounds, H!OutOfBounds, H!FloatCastOverflow,
                H!PointerOverflow, H!Handle, H!MayEnter
        <3> QED
            BY <3>1 DEF Settled
    <2>2. CASE H!Finish(t) \/ H!Crash(t)
        BY <2>2 DEF H!Finish, H!Crash, Settled
    <2> QED
        BY <1>1, <2>1, <2>2
<1>3. UNCHANGED <<get, put, screen, lost, sent, place, attached, isInitialized, magic>>
    BY <1>1 DEF wrapper
<1>4. [Next]_vars /\ t \in Threads
    BY Zenon DEF Next, Running
<1>5. Settled(t)' /\ ~lost' => EndsNormal(screen', Ring!unread')
    BY <1>2, <1>3, <1>4, SameStyle DEF StyleInv
<1>6. Handing(t)'
    BY <1>1, <1>3, <1>4 DEF StyleInv, Handing, Ring!ProutPCs, Ring!CopyPCs
<1>7. Attached'
    BY <1>3 DEF StyleInv, Attached
<1> QED
    BY <1>3, <1>5, <1>6, <1>7 DEF StyleInv

LEMMA CallKeepsStyle ==
    ASSUME NEW t, Threads = {t}, BaseInv, StyleInv, Call(t)
    PROVE  StyleInv'
<1>1. /\ place[t] = "idle" /\ place'[t] = "test"
      /\ UNCHANGED <<get, put, screen, lost, sent, attached, isInitialized, magic, pc, todo>>
      /\ place' = [place EXCEPT ![t] = "test"]
    BY BaseFacts DEF Call, W!Call, W!Goto, W!device, W!static, handlers
<1>2. [Next]_vars /\ t \in Threads
    BY Zenon DEF Next, Running
<1>3. sent[t] = 0
    BY <1>1, <1>2 DEF StyleInv, Handing
<1>4. Settled(t)' => Settled(t)
    BY <1>1, <1>3 DEF Settled
<1>5. Settled(t)' /\ ~lost' => EndsNormal(screen', Ring!unread')
    BY <1>1, <1>2, <1>4, SameStyle DEF StyleInv
<1>6. Handing(t)'
    BY <1>1 DEF Handing, Ring!ProutPCs, Ring!CopyPCs
<1>7. Attached'
    BY <1>1, <1>2 DEF StyleInv, Attached
<1> QED
    BY <1>1, <1>5, <1>6, <1>7 DEF StyleInv

LEMMA FragmentKeepsStyle ==
    ASSUME NEW t, Threads = {t}, BaseInv, StyleInv, Fragment(t)
    PROVE  StyleInv'
<1>0. t \in Threads /\ sent \in [Threads -> Nat] /\ [Next]_vars
    BY Zenon DEF StyleInv, Next, Running
<1>1. /\ place[t] = "fragment" /\ place'[t] = "readMagic"
      /\ UNCHANGED <<get, put, screen, lost, attached, isInitialized, magic, pc, todo>>
      /\ sent' = [sent EXCEPT ![t] = @ + 1]
      /\ Prints(t) /\ sent[t] < Len(Fragments(Printf(t)))
      /\ text'[t] = Fragments(Printf(t))[sent[t] + 1]
    BY <1>0, BaseFacts DEF Fragment, W!Fragment, W!Goto, W!device, W!static, handlers
<1>2. sent'[t] = sent[t] + 1 /\ sent[t] \in Nat /\ sent' \in [Threads -> Nat]
    BY <1>0, <1>1
<1>3. Printf(t)' = Printf(t) /\ Prints(t)'
    BY Zenon, <1>1 DEF Printf, Prints, H!Text, H!Message
<1>4. Settled(t)' => Settled(t)
    BY <1>1, <1>2 DEF Settled, Ring!ProutPCs, Ring!CopyPCs
<1>5. Settled(t)' /\ ~lost' => EndsNormal(screen', Ring!unread')
    BY <1>0, <1>1, <1>4, SameStyle DEF StyleInv
<1>6. Handing(t)'
    <2>1. Len(Fragments(Printf(t))) \in {1, 2}
        BY FragmentsAreFew
    <2>2. sent'[t] \in 1 .. Len(Fragments(Printf(t)))
        BY <1>1, <1>2, <2>1
    <2>3. /\ Prints(t)' /\ sent'[t] \in 1 .. Len(Fragments(Printf(t)'))
          /\ text'[t] = Fragments(Printf(t)')[sent'[t]]
        BY <1>1, <1>2, <1>3, <2>2
    <2> QED
        BY <1>1, <2>3 DEF Handing
<1>7. Attached'
    BY <1>0, <1>1 DEF StyleInv, Attached
<1> QED
    BY <1>2, <1>5, <1>6, <1>7 DEF StyleInv

LEMMA InitialiseKeepsStyle ==
    ASSUME NEW t, Threads = {t}, BaseInv, StyleInv, Callback(t), W!INITIALIZE(t), UNCHANGED lost
    PROVE  StyleInv'
<1>0. t \in Threads /\ [Next]_vars /\ UNCHANGED <<pc, todo, sent, screen>>
    BY Zenon DEF Next, Running, Callback, handlers
<1>1. /\ place \in [Threads -> Ring!PCs] /\ isInitialized \in BOOLEAN
      /\ place[t] \in Ring!InitPCs => ~isInitialized
    BY <1>0, BaseFacts
<1>2. Attached
    BY DEF StyleInv
<1>3. /\ place[t] \in {"test", "handle", "put", "get", "magic", "flag"}
      /\ place'[t] \in {"handle", "put", "get", "magic", "flag", "fragment"}
    BY <1>0, <1>1 DEF W!INITIALIZE, W!Test, W!InitHandle, W!InitPut, W!InitGet, W!InitMagic,
        W!SetInitialized, W!Goto
<1>4. UNCHANGED <<get, put>> /\ Attached'
    <2> USE <1>0, <1>1, <1>2 DEF Attached, W!Goto, W!device, W!static, Ring!InitPCs
    <2>1. CASE W!Test(t)
        BY <2>1 DEF W!Test
    <2>2. CASE W!InitHandle(t)
        BY <2>2 DEF W!InitHandle
    <2>3. CASE W!InitPut(t)
        BY <2>3 DEF W!InitPut
    <2>4. CASE W!InitGet(t)
        BY <2>4 DEF W!InitGet
    <2>5. CASE W!InitMagic(t)
        BY <2>5 DEF W!InitMagic
    <2>6. CASE W!SetInitialized(t)
        BY <2>6 DEF W!SetInitialized
    <2> QED
        BY <2>1, <2>2, <2>3, <2>4, <2>5, <2>6 DEF W!INITIALIZE
<1>5. place[t] \notin Ring!ProutPCs /\ place'[t] \notin Ring!ProutPCs /\ place'[t] # "idle"
    BY <1>3 DEF Ring!ProutPCs, Ring!CopyPCs
<1>6. Settled(t)' => Settled(t)
    BY <1>0, <1>5 DEF Settled
<1>7. Settled(t)' /\ ~lost' => EndsNormal(screen', Ring!unread')
    BY <1>0, <1>4, <1>6, SameStyle DEF StyleInv
<1>8. Handing(t)'
    BY <1>5 DEF Handing
<1> QED
    BY <1>0, <1>4, <1>7, <1>8 DEF StyleInv

\* The callback under way, and what a step of it leaves alone.
LEMMA CallbackFacts ==
    ASSUME NEW t, Threads = {t}, BaseInv, StyleInv, Callback(t), W!is_proutSyncPrintf(t)
    PROVE  /\ t \in Threads /\ [Next]_vars /\ UNCHANGED <<pc, todo, sent, screen>>
           /\ lost' = (Loses(t) \/ (lost /\ ~Resets(t)))
           /\ UNCHANGED <<get, attached, isInitialized, magic>>
           /\ place[t] \in Ring!ProutPCs /\ magic = "IS64"
           /\ Attached'
           /\ Printf(t)' = Printf(t) /\ Prints(t)'
           /\ Prints(t)
<1>0. /\ t \in Threads /\ [Next]_vars /\ UNCHANGED <<pc, todo, sent, screen>>
    BY Zenon DEF Next, Running, Callback, handlers
<1>1. W!is_proutSyncPrintf(t) => ~W!INITIALIZE(t)
    BY DEF W!is_proutSyncPrintf, W!INITIALIZE, W!Test, W!InitHandle, W!InitPut, W!InitGet,
        W!InitMagic, W!SetInitialized, W!Goto, W!NoViewer, W!ReadMagic, W!ReadGet, W!Admit,
        W!Refuse, W!SkipNul, W!ReadWord, W!StoreWord, W!Publish
<1>2. lost' = (Loses(t) \/ (lost /\ ~Resets(t)))
    BY Zenon, <1>1 DEF Callback
<1>3. place[t] \in Ring!ProutPCs
    BY DEF W!is_proutSyncPrintf, W!Goto, W!NoViewer, W!ReadMagic, W!ReadGet, W!Admit,
        W!Refuse, W!SkipNul, W!ReadWord, W!StoreWord, W!Publish, Ring!ProutPCs, Ring!CopyPCs
<1>4. isInitialized /\ magic = "IS64" /\ Handing(t)
    BY <1>0, <1>3, BaseFacts DEF StyleInv, Attached
<1>5. UNCHANGED <<get, attached, isInitialized, magic>>
    BY DEF W!is_proutSyncPrintf, W!device, W!static, W!NoViewer, W!ReadMagic, W!ReadGet,
        W!Admit, W!Refuse, W!SkipNul, W!ReadWord, W!StoreWord, W!Publish
<1>6. Attached'
    BY <1>4, <1>5 DEF StyleInv, Attached
<1>7. Prints(t)
    BY <1>3, <1>4 DEF Handing
<1>8. Printf(t)' = Printf(t) /\ Prints(t)'
    BY Zenon, <1>0, <1>7 DEF Printf, Prints, H!Text, H!Message
<1> QED
    BY Zenon, <1>0, <1>2, <1>3, <1>4, <1>5, <1>6, <1>7, <1>8

\* What is being handed over when the thread is settled once it is there: plain
\* text after which it was settled already, or the reset of a diagnostic.
LEMMA LastHanded ==
    ASSUME NEW t, Threads = {t}, BaseInv, StyleInv, place[t] \in Ring!ProutPCs,
           pc[t] = "diag" /\ todo[t] # <<>> => Len(todo[t]) = 1 /\ sent[t] \in {1, 2}
    PROVE  (text[t] = <<"plain">> /\ Settled(t)) \/ text[t] = <<"reset">>
<1>1. /\ t \in Threads /\ Prints(t)
      /\ sent[t] \in 1 .. Len(Fragments(Printf(t)))
      /\ text[t] = Fragments(Printf(t))[sent[t]]
    BY DEF StyleInv, Handing
<1>2. CASE pc[t] # "diag"
    <2>1. Printf(t) = H!Text("assertion")
        BY Zenon, <1>2 DEF Printf
    <2>2. Fragments(Printf(t)) = << <<"plain">> >>
        BY Zenon, <2>1, LastFragments
    <2>3. text[t] = <<"plain">>
        BY <1>1, <2>2
    <2> QED
        BY <1>2, <2>3 DEF Settled
<1>3. CASE pc[t] = "diag"
    <2>1. todo[t] # <<>> /\ Len(todo[t]) = 1 /\ sent[t] \in {1, 2}
        BY <1>1, <1>3 DEF Prints
    <2>2. todo[t] \in Seq(Reports!Pieces) /\ todo[t][Len(todo[t])] = H!Text("reset")
        BY <1>1, <2>1, BaseFacts
    <2>3. Head(todo[t]) = H!Text("reset")
        BY <2>1, <2>2
    <2>4. Fragments(Printf(t)) = << <<"reset">>, <<"plain">> >>
        BY Zenon, <1>3, <2>3, LastFragments DEF Printf
    <2>5. CASE sent[t] = 1
        BY <1>1, <2>4, <2>5
    <2>6. CASE sent[t] = 2
        BY <1>1, <2>1, <2>4, <2>6 DEF Settled
    <2> QED
        BY <2>1, <2>5, <2>6
<1> QED
    BY <1>2, <1>3

LEMMA RefusalKeepsStyle ==
    ASSUME NEW t, Threads = {t}, BaseInv, StyleInv, Callback(t), W!is_proutSyncPrintf(t),
           W!Refuse(t)
    PROVE  StyleInv'
<1> USE CallbackFacts
<1>1. /\ place[t] = "readPut" /\ place' = [place EXCEPT ![t] = "fragment"]
      /\ UNCHANGED put
    BY DEF W!Refuse, W!Goto, W!device
<1>2. place'[t] = "fragment"
    BY <1>1, BaseFacts
<1>3. ASSUME Settled(t)', ~lost' PROVE Settled(t) /\ ~lost
    <2>1. pc[t] = "diag" /\ todo[t] # <<>> => Len(todo[t]) = 1 /\ sent[t] \in {1, 2}
        BY <1>3 DEF Settled
    <2>2. (text[t] = <<"plain">> /\ Settled(t)) \/ text[t] = <<"reset">>
        BY <2>1, LastHanded
    <2>3. text[t] # <<"reset">>
        <3>1. ~Loses(t)
            BY <1>3
        <3>2. \A k \in DOMAIN text[t] : text[t][k] = "plain"
            BY <3>1 DEF Loses
        <3>3. 1 \in DOMAIN <<"reset">> /\ <<"reset">>[1] # "plain"
            OBVIOUS
        <3> QED
            BY <3>2, <3>3
    <2>4. ~Resets(t)
        BY <1>1, <1>2 DEF Resets, W!Publish, W!Goto
    <2> QED
        BY <1>3, <2>2, <2>3, <2>4
<1>4. Settled(t)' /\ ~lost' => EndsNormal(screen', Ring!unread')
    BY <1>1, <1>3, SameStyle DEF StyleInv
<1>5. Handing(t)'
    BY <1>2 DEF Handing, Ring!ProutPCs, Ring!CopyPCs
<1> QED
    BY <1>4, <1>5 DEF StyleInv

\* The ring after a fragment that left something to take.
LEMMA PublishedOne ==
    ASSUME NEW t, Threads = {t}, BaseInv, BaseInv', Ring!Publish(t), get' # put',
           NEW c \in Chars \ {"NUL"}, text[t] = <<c>>
    PROVE  Ring!unread \in Seq(Chars) /\ Ring!unread' = Ring!unread \o <<c>>
<1>1. /\ Ring!TypeOK /\ Ring!FifoInv /\ Ring!TypeOK' /\ t \in Threads
    BY Zenon DEF BaseInv, Ring!RingInv
<1>2. place[t] \in Ring!CopyPCs
    BY DEF Ring!Publish, Ring!Goto, Ring!CopyPCs
<1>3. Ring!Copied(t)
    BY Zenon, <1>1, <1>2 DEF Ring!FifoInv, Ring!Copied
<1>4. \/ Ring!unread' = <<>>
      \/ Ring!unread' = Ring!unread \o Ring!Log!Visible(text[t])
    BY Zenon, <1>1, <1>3, RingOfChars, Ring!PublishAppends
<1>5. Ring!unread' # <<>>
    <2>1. get' \in Ring!Cells /\ put' \in Ring!Cells
        BY Zenon, <1>1 DEF Ring!TypeOK
    <2>2. Ring!Dist(get', put') \in Nat \ {0}
        <3>1. Ring!Dist(get', put') \in Ring!Cells /\ Ring!Dist(get', put') # 0
            BY <2>1, RingOfChars, Ring!DistInCells
        <3> QED
            BY <3>1 DEF Ring!Cells
    <2>3. Ring!Dist(get', put') = Ring!Dist(get, put)'
        BY Zenon DEF Ring!Dist
    <2>4. DOMAIN Ring!unread' = 1 .. Ring!Dist(get', put')
        BY <2>3 DEF Ring!unread
    <2>5. 1 \in DOMAIN Ring!unread'
        BY <2>2, <2>4
    <2> QED
        BY <2>5
<1>6. Ring!Log!Visible(text[t]) = <<c>>
    BY Zenon, VisibleOne
<1>7. Ring!unread \in Seq(Chars)
    BY Zenon, <1>1, RingOfChars, Ring!UnreadIsSeq
<1> QED
    BY Zenon, <1>4, <1>5, <1>6, <1>7

LEMMA PublicationKeepsStyle ==
    ASSUME NEW t, Threads = {t}, BaseInv, BaseInv', StyleInv, Callback(t),
           W!is_proutSyncPrintf(t), W!Publish(t)
    PROVE  StyleInv'
<1> USE CallbackFacts
<1>1. place[t] = "copy" /\ place' = [place EXCEPT ![t] = "fragment"]
    BY DEF W!Publish, W!Goto
<1>2. place'[t] = "fragment"
    BY <1>1, BaseFacts
<1>3. Ring!Publish(t)
    BY CallbackIsRingStep
<1>4. ASSUME Settled(t)', ~lost' PROVE EndsNormal(screen', Ring!unread')
    <2>1. pc[t] = "diag" /\ todo[t] # <<>> => Len(todo[t]) = 1 /\ sent[t] \in {1, 2}
        BY <1>4 DEF Settled
    <2>2. (text[t] = <<"plain">> /\ Settled(t)) \/ text[t] = <<"reset">>
        BY <2>1, LastHanded
    <2>3. get' # put'
        <3>1. ~(W!Publish(t) /\ get = put')
            BY Zenon, <1>4 DEF Loses
        <3> QED
            BY <3>1
    <2>4. CASE text[t] = <<"reset">>
        <3>1. Ring!unread \in Seq(Chars) /\ Ring!unread' = Ring!unread \o <<"reset">>
            BY <1>3, <2>3, <2>4, PublishedOne DEF Chars
        <3> QED
            BY <3>1, AppendEnds DEF Chars
    <2>5. CASE text[t] = <<"plain">> /\ Settled(t)
        <3>1. Ring!unread \in Seq(Chars) /\ Ring!unread' = Ring!unread \o <<"plain">>
            BY <1>3, <2>3, <2>5, PublishedOne DEF Chars
        <3>2. ~Resets(t)
            BY <2>5 DEF Resets
        <3>3. EndsNormal(screen, Ring!unread)
            BY <1>4, <2>5, <3>2 DEF StyleInv
        <3> QED
            BY <3>1, <3>3, AppendEnds DEF Chars
    <2> QED
        BY <2>2, <2>4, <2>5
<1>5. Handing(t)'
    BY <1>2 DEF Handing, Ring!ProutPCs, Ring!CopyPCs
<1> QED
    BY <1>4, <1>5 DEF StyleInv

\* The steps of the callback that do not return from it.
LEMMA CopyKeepsStyle ==
    ASSUME NEW t, Threads = {t}, BaseInv, StyleInv, Callback(t), W!is_proutSyncPrintf(t),
           ~W!Refuse(t), ~W!Publish(t)
    PROVE  StyleInv'
<1> USE CallbackFacts
<1>1. ~W!NoViewer(t)
    BY DEF W!NoViewer
<1>2. /\ UNCHANGED <<put, text>>
      /\ \E p \in Ring!ProutPCs : place' = [place EXCEPT ![t] = p]
    BY <1>1 DEF W!is_proutSyncPrintf, W!Goto, W!device, W!locals, W!ReadMagic, W!ReadGet,
        W!Admit, W!SkipNul, W!ReadWord, W!StoreWord, Ring!ProutPCs, Ring!CopyPCs
<1>3. place'[t] \in Ring!ProutPCs
    BY <1>2, BaseFacts
<1>4. Settled(t)' => Settled(t)
    BY <1>3 DEF Settled
<1>5. ~lost' => ~lost
    BY DEF Resets
<1>6. Settled(t)' /\ ~lost' => EndsNormal(screen', Ring!unread')
    BY <1>2, <1>4, <1>5, SameStyle DEF StyleInv
<1>7. Handing(t)'
    <2>1. place'[t] # "idle"
        BY <1>3 DEF Ring!ProutPCs, Ring!CopyPCs
    <2>2. /\ sent'[t] \in 1 .. Len(Fragments(Printf(t)'))
          /\ text'[t] = Fragments(Printf(t)')[sent'[t]]
        BY <1>2 DEF StyleInv, Handing
    <2> QED
        BY <2>1, <2>2 DEF Handing
<1> QED
    BY <1>6, <1>7 DEF StyleInv

\* A sequence with an empty tail has one element.
LEMMA OneLeft ==
    ASSUME NEW S, NEW u \in Seq(S), u # <<>>, Tail(u) = <<>>
    PROVE  Len(u) = 1
<1> DEFINE v == Tail(u)
<1>1. Len(u) \in Nat \ {0} /\ Len(v) = Len(u) - 1
    BY EmptySeq, HeadTailProperties
<1>2. v = <<>> /\ Len(<<>>) = 0
    OBVIOUS
<1> HIDE DEF v
<1>3. Len(v) = 0
    BY <1>2
<1> QED
    BY <1>1, <1>3

LEMMA DoneKeepsStyle ==
    ASSUME NEW t, Threads = {t}, BaseInv, StyleInv, Done(t)
    PROVE  StyleInv'
<1>0. t \in Threads /\ sent \in [Threads -> Nat] /\ [Next]_vars
    BY Zenon DEF StyleInv, Next, Running
<1>1. /\ place[t] = "fragment" /\ place'[t] = "idle"
      /\ UNCHANGED <<get, put, screen, lost, attached, isInitialized, magic>>
      /\ sent' = [sent EXCEPT ![t] = 0]
      /\ sent[t] = Len(Fragments(Printf(t)))
      /\ H!PrintPiece(t) \/ H!CheckFailed(t) \/ H!N64Wrapper_Assert(t)
    BY <1>0, BaseFacts DEF Done, W!Done, W!Goto, W!device, W!static
<1>2. sent'[t] = 0 /\ sent' \in [Threads -> Nat]
    BY <1>0, <1>1
<1>3. Settled(t)' => Settled(t)
    <2>1. CASE H!CheckFailed(t) \/ H!N64Wrapper_Assert(t)
        BY <2>1 DEF H!CheckFailed, H!N64Wrapper_Assert, Settled
    <2>2. ASSUME H!PrintPiece(t), Settled(t)' PROVE Settled(t)
        <3>1. /\ pc[t] = "diag" /\ todo[t] # <<>> /\ pc' = pc
              /\ todo'[t] = Tail(todo[t]) /\ todo[t] \in Seq(Reports!Pieces)
              /\ todo[t][Len(todo[t])] = H!Text("reset")
            BY <1>0, <2>2, BaseFacts DEF H!PrintPiece
        <3>2. Tail(todo[t]) = <<>>
            BY <1>2, <2>2, <3>1 DEF Settled
        <3>3. Len(todo[t]) = 1
            BY Zenon, <3>1, <3>2, OneLeft
        <3>4. Head(todo[t]) = H!Text("reset")
            BY <3>1, <3>3
        <3>5. Fragments(Printf(t)) = << <<"reset">>, <<"plain">> >>
            BY Zenon, <3>1, <3>4, LastFragments DEF Printf
        <3>6. sent[t] = 2
            BY <1>1, <3>5
        <3> QED
            BY <3>3, <3>6 DEF Settled
    <2> QED
        BY <1>1, <2>1, <2>2
<1>4. Settled(t)' /\ ~lost' => EndsNormal(screen', Ring!unread')
    BY <1>0, <1>1, <1>3, SameStyle DEF StyleInv
<1>5. Handing(t)'
    BY <1>1, <1>2 DEF Handing, Ring!ProutPCs, Ring!CopyPCs
<1>6. Attached'
    BY <1>0, <1>1 DEF StyleInv, Attached
<1> QED
    BY <1>2, <1>4, <1>5, <1>6 DEF StyleInv

\* What the host shows is what it takes first.
LEMMA TakeKeepsStyle ==
    ASSUME NEW t, Threads = {t}, BaseInv, StyleInv, HostTake
    PROVE  StyleInv'
<1>0. /\ t \in Threads /\ get # put
      /\ UNCHANGED <<place, text, put, attached, isInitialized, magic, sent, lost, pc, todo>>
      /\ screen' = CASE data[get] = "bold" -> "bold"
                     [] data[get] = "reset" -> "normal"
                     [] OTHER -> screen
    BY DEF HostTake, W!HostTake, W!static, W!locals, handlers
<1>1. Ring!TypeOK /\ Ring!HostTake
    BY Zenon, TakeIsRingStep DEF BaseInv, Ring!RingInv, HostTake
<1> DEFINE u == Ring!unread
<1>2. u \in Seq(Chars) /\ u # <<>> /\ u' = Tail(u) /\ Len(u) = Ring!Dist(get, put)
    BY Zenon, <1>1, RingOfChars, Ring!UnreadIsSeq, Ring!TakeIsTake
<1>3. u[1] = data[get]
    <2>1. Len(u) \in Nat \ {0}
        BY <1>2, EmptySeq
    <2>2. 1 \in 1 .. Ring!Dist(get, put)
        BY <1>2, <2>1
    <2>3. u[1] = data[Ring!Wrap(get + 1 - 1)]
        BY <2>2 DEF Ring!unread
    <2>4. Ring!Wrap(get + 1 - 1) = get
        BY <1>0, BaseFacts, RingAssumption DEF Ring!Wrap, Ring!Cells
    <2> QED
        BY <2>3, <2>4
<1> HIDE DEF u
<1>4. EndsNormal(screen, u) => EndsNormal(screen', Tail(u))
    BY Zenon, <1>0, <1>2, <1>3, TakeEnds
<1>5. Settled(t)' <=> Settled(t)
    BY <1>0 DEF Settled
<1>6. Settled(t)' /\ ~lost' => EndsNormal(screen', Ring!unread')
    BY <1>0, <1>2, <1>4, <1>5 DEF StyleInv, u
<1>7. Handing(t)'
    BY <1>0 DEF StyleInv, Handing, Printf, Prints, H!Text, H!Message
<1>8. Attached'
    BY <1>0 DEF StyleInv, Attached
<1> QED
    BY <1>0, <1>6, <1>7, <1>8 DEF StyleInv

LEMMA NextStyle ==
    ASSUME NEW t, Threads = {t}
    PROVE  BaseInv /\ BaseInv' /\ StyleInv /\ [Next]_vars => StyleInv'
<1> SUFFICES ASSUME BaseInv, BaseInv', StyleInv, [Next]_vars PROVE StyleInv'
    OBVIOUS
<1>1. CASE HostTake
    BY Zenon, <1>1, TakeKeepsStyle
<1>2. CASE Handler(t) \/ Call(t) \/ Fragment(t) \/ Done(t)
    BY Zenon, <1>2, HandlerKeepsStyle, CallKeepsStyle, FragmentKeepsStyle, DoneKeepsStyle
<1>3. CASE Callback(t)
    <2>1. CASE W!INITIALIZE(t) /\ UNCHANGED lost
        BY Zenon, <1>3, <2>1, InitialiseKeepsStyle
    <2>2. CASE W!is_proutSyncPrintf(t)
        BY Zenon, <1>3, <2>2, RefusalKeepsStyle, PublicationKeepsStyle, CopyKeepsStyle
    <2> QED
        BY Zenon, <1>3, <2>1, <2>2 DEF Callback
<1>4. CASE UNCHANGED vars
    <2>1. /\ UNCHANGED <<get, put, screen, lost, sent, place, text, attached, isInitialized>>
          /\ UNCHANGED <<magic, pc, todo>>
        BY Zenon, <1>4 DEF vars, handlers, wrapper
    <2>2. Settled(t)' <=> Settled(t)
        BY <2>1 DEF Settled
    <2>3. Settled(t)' /\ ~lost' => EndsNormal(screen', Ring!unread')
        BY <2>1, <2>2, SameStyle DEF StyleInv
    <2>4. Handing(t)'
        BY <2>1 DEF StyleInv, Handing, Printf, Prints, H!Text, H!Message
    <2>5. Attached'
        BY <2>1 DEF StyleInv, Attached
    <2> QED
        BY <2>1, <2>3, <2>4, <2>5 DEF StyleInv
<1> QED
    BY Zenon, <1>1, <1>2, <1>3, <1>4 DEF Next, Running

\* With one thread, whatever the ring refuses or drops and however slow the host
\* is: when no diagnostic is being printed and the host has taken everything, its
\* screen is in the normal style, unless a style was lost since the last reset
\* that was handed over (Ubsan_DiagImpl's closing VT_RST, n64_io.c's room check).
THEOREM ScreenIsReset ==
    ASSUME NEW t, Threads = {t}
    PROVE  Spec => []ScreenReset
<1>1. BaseInv /\ StyleInv => ScreenReset
    <2> SUFFICES ASSUME BaseInv, StyleInv, pc[t] # "diag", get = put, ~lost
                 PROVE  screen = "normal"
        BY DEF ScreenReset
    <2>1. EndsNormal(screen, Ring!unread)
        BY DEF StyleInv, Settled
    <2>2. Ring!Dist(get, put) = 0
        <3>1. get \in Ring!Cells /\ put \in Ring!Cells
            BY BaseFacts
        <3> QED
            BY <3>1, RingOfChars, Ring!DistInCells
    <2>3. DOMAIN Ring!unread = {}
        BY <2>2 DEF Ring!unread
    <2> QED
        BY <2>1, <2>3 DEF EndsNormal
<1>2. Init => StyleInv
    BY InitStyle
<1>3. BaseInv /\ BaseInv' /\ StyleInv /\ [Next]_vars => StyleInv'
    BY NextStyle
<1>4. Spec => []BaseInv
    BY BaseInvariant
<1> QED
    BY <1>1, <1>2, <1>3, <1>4, PTL DEF Spec

=============================================================================
