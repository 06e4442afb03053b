------------------------------ MODULE ISViewer ------------------------------
(***************************************************************************)
(* The Majora's Mask log of the N64 wrapper (src/src/n64_wrapper/n64_io.c):*)
(* lazy initialisation (INITIALIZE, isPrintfInit) and the _Printf callback *)
(* is_proutSyncPrintf, which copies a fragment into the ring buffer of an  *)
(* IS-Viewer cartridge.  Every osEPiReadIo / osEPiWriteIo is one step,     *)
(* because a thread may block on the PI bus or be preempted at each, and   *)
(* the code takes no lock of its own.  The host drains the ring meanwhile. *)
(***************************************************************************)
EXTENDS Integers, Sequences

CONSTANTS
    Threads,    \* game threads whose handlers print
    RingSize,   \* 0xFFE0 cells in the build
    WordSize,   \* 4: the PI transfers whole words
    Chars, NUL,
    Texts       \* fragments _Printf hands to the callback

ASSUME RingAssumption ==
    /\ RingSize \in Nat \ {0}
    /\ WordSize \in Nat \ {0}
    /\ NUL \in Chars
    /\ Texts \subseteq Seq(Chars)

VARIABLES
    attached,       \* is there an IS-Viewer on the bus?  Never changes
    magic, get, put, data,      \* its registers and ring; they survive a reset
    isInitialized,  \* static bool of n64_io.c
    sISVHandle,     \* has osCartRomInit returned a handle?
    pc,             \* per thread: where in the wrapper it is
    text, i,        \* the fragment being printed, characters consumed so far
    pos, start,     \* locals of is_proutSyncPrintf
    word            \* the word read back for the byte store

device == <<attached, magic, get, put, data>>
static == <<isInitialized, sISVHandle>>
locals == <<text, i, pos, start, word>>
vars   == <<device, static, pc, locals>>

Cells == 0 .. RingSize - 1

InitPCs  == {"handle", "put", "get", "magic", "flag"}
CopyPCs  == {"copy", "store"}
ProutPCs == {"readMagic", "readGet", "readPut"} \cup CopyPCs
PCs      == {"idle", "test", "fragment"} \cup InitPCs \cup ProutPCs

\* Mutant: the wrap tested with > instead of >=.
WrapLate(c) == IF c > RingSize THEN c - RingSize ELSE c

Wrap(c) == IF c >= RingSize THEN c - RingSize ELSE c

\* Mutants: a room check without the second test of its wrapping arm; one that
\* compares with <=.
RefusedUnlessWrapped(p, s, count) ==
    IF s + count >= RingSize THEN p < s + count - RingSize ELSE s < p /\ p < s + count
RefusedEarly(p, s, count) ==
    IF s + count >= RingSize
    THEN p <= s + count - RingSize \/ s < p
    ELSE s < p /\ p <= s + count

\* The room check of is_proutSyncPrintf: `count` characters from `s` on
\* would run past the host's position `p`.
Refused(p, s, count) ==
    LET end == s + count
    IN  IF end >= RingSize
        THEN p < end - RingSize \/ s < p
        ELSE s < p /\ p < end

\* The cells of the aligned word that holds cell c.
WordOf(c) == { d \in Cells : d \div WordSize = c \div WordSize }

Goto(t, from, to) ==
    /\ pc[t] = from
    /\ pc' = [pc EXCEPT ![t] = to]

-----------------------------------------------------------------------------

PowerOn ==
    /\ isInitialized = FALSE
    /\ sISVHandle = FALSE
    /\ pc = [t \in Threads |-> "idle"]
    /\ text = [t \in Threads |-> <<>>]
    /\ i = [t \in Threads |-> 0]
    /\ pos = [t \in Threads |-> 0]
    /\ start = [t \in Threads |-> 0]
    /\ word = [t \in Threads |-> <<>>]

Init ==
    /\ attached \in BOOLEAN
    /\ magic = "unset"
    /\ get = 0
    /\ put = 0
    /\ data = [c \in Cells |-> NUL]
    /\ PowerOn

\* N64Wrapper_Printf and its siblings are called.
Call(t) ==
    /\ Goto(t, "idle", "test")
    /\ UNCHANGED <<device, static, locals>>

\* Mutant: the flag set by the test, before isPrintfInit has run.
TestAndSet(t) ==
    /\ Goto(t, "test", IF isInitialized THEN "fragment" ELSE "handle")
    /\ isInitialized' = TRUE
    /\ UNCHANGED <<device, sISVHandle, locals>>

\* INITIALIZE: the test, isPrintfInit's four steps, then the flag.  The second
\* INITIALIZE of a nested wrapper call always finds the flag set.
Test(t) ==
    /\ Goto(t, "test", IF isInitialized THEN "fragment" ELSE "handle")
    /\ UNCHANGED <<device, static, locals>>

InitHandle(t) ==
    /\ Goto(t, "handle", "put")
    /\ sISVHandle' = TRUE
    /\ UNCHANGED <<device, isInitialized, locals>>

InitPut(t) ==
    /\ Goto(t, "put", "get")
    /\ put' = 0
    /\ UNCHANGED <<attached, magic, get, data, static, locals>>

\* Mutant: get left where the last session had it.
InitGetKept(t) ==
    /\ Goto(t, "get", "magic")
    /\ UNCHANGED <<device, static, locals>>

InitGet(t) ==
    /\ Goto(t, "get", "magic")
    /\ get' = 0
    /\ UNCHANGED <<attached, magic, put, data, static, locals>>

\* Without a viewer the write has no effect: the register never reads IS64.
InitMagic(t) ==
    /\ Goto(t, "magic", "flag")
    /\ magic' = IF attached THEN "IS64" ELSE magic
    /\ UNCHANGED <<attached, get, put, data, static, locals>>

SetInitialized(t) ==
    /\ Goto(t, "flag", "fragment")
    /\ isInitialized' = TRUE
    /\ UNCHANGED <<device, sISVHandle, locals>>

-----------------------------------------------------------------------------

\* _Printf (the game's) formats a fragment and calls is_proutSyncPrintf.
Fragment(t) ==
    /\ Goto(t, "fragment", "readMagic")
    /\ \E m \in Texts : text' = [text EXCEPT ![t] = m]
    /\ UNCHANGED <<device, static, i, pos, start, word>>

\* _Printf (or vsprintf, which has no fragment) is done and the call returns.
Done(t) ==
    /\ Goto(t, "fragment", "idle")
    /\ UNCHANGED <<device, static, locals>>

\* is_proutSyncPrintf returns to _Printf, whose next fragment may follow; its
\* result is (void*)1 on every path, so _Printf never learns of a refusal.
ForgetLocals(t) ==
    /\ text' = [text EXCEPT ![t] = <<>>]
    /\ i' = [i EXCEPT ![t] = 0]
    /\ pos' = [pos EXCEPT ![t] = 0]
    /\ start' = [start EXCEPT ![t] = 0]
    /\ word' = [word EXCEPT ![t] = <<>>]

NoViewer(t) ==
    /\ magic # "IS64"
    /\ Goto(t, "readMagic", "fragment")
    /\ ForgetLocals(t)
    /\ UNCHANGED <<device, static>>

ReadMagic(t) ==
    /\ magic = "IS64"
    /\ Goto(t, "readMagic", "readGet")
    /\ UNCHANGED <<device, static, locals>>

ReadGet(t) ==
    /\ Goto(t, "readGet", "readPut")
    /\ pos' = [pos EXCEPT ![t] = get]
    /\ UNCHANGED <<device, static, text, i, start, word>>

Admit(t) ==
    /\ ~Refused(pos[t], put, Len(text[t]))
    /\ Goto(t, "readPut", "copy")
    /\ start' = [start EXCEPT ![t] = put]
    /\ UNCHANGED <<device, static, text, i, pos, word>>

\* Mutant: a full ring waited for.
RefuseWaits(t) ==
    /\ Refused(pos[t], put, Len(text[t]))
    /\ Goto(t, "readPut", "readGet")
    /\ UNCHANGED <<device, static, locals>>

Refuse(t) ==
    /\ Refused(pos[t], put, Len(text[t]))
    /\ Goto(t, "readPut", "fragment")
    /\ ForgetLocals(t)
    /\ UNCHANGED <<device, static>>

\* The copy loop: NULs are consumed but not stored; any other character goes
\* through a read and a write-back of its word.
Char(t) == text[t][i[t] + 1]
More(t) == i[t] < Len(text[t])

\* Mutant: a NUL moves the position on, like any other character.
SkipNulLeavesHole(t) ==
    /\ More(t)
    /\ Char(t) = NUL
    /\ Goto(t, "copy", "copy")
    /\ i' = [i EXCEPT ![t] = @ + 1]
    /\ start' = [start EXCEPT ![t] = Wrap(@ + 1)]
    /\ UNCHANGED <<device, static, text, pos, word>>

SkipNul(t) ==
    /\ More(t)
    /\ Char(t) = NUL
    /\ Goto(t, "copy", "copy")
    /\ i' = [i EXCEPT ![t] = @ + 1]
    /\ UNCHANGED <<device, static, text, pos, start, word>>

ReadWord(t) ==
    /\ More(t)
    /\ Char(t) # NUL
    /\ Goto(t, "copy", "store")
    /\ word' = [word EXCEPT ![t] = [c \in WordOf(start[t]) |-> data[c]]]
    /\ UNCHANGED <<device, static, text, i, pos, start>>

\* Mutants: the store without its mask clears the rest of the word; the loop
\* without its count-- never ends.
StoreWordUnmasked(t) ==
    /\ Goto(t, "store", "copy")
    /\ data' = [c \in Cells |-> IF c = start[t] THEN Char(t)
                                ELSE IF c \in WordOf(start[t]) THEN NUL
                                ELSE data[c]]
    /\ start' = [start EXCEPT ![t] = Wrap(@ + 1)]
    /\ i' = [i EXCEPT ![t] = @ + 1]
    /\ word' = [word EXCEPT ![t] = <<>>]
    /\ UNCHANGED <<attached, magic, get, put, static, text, pos>>
StoreWordForever(t) ==
    /\ Goto(t, "store", "copy")
    /\ start' = [start EXCEPT ![t] = Wrap(@ + 1)]
    /\ word' = [word EXCEPT ![t] = <<>>]
    /\ UNCHANGED <<device, static, text, i, pos>>

StoreWord(t) ==
    /\ Goto(t, "store", "copy")
    /\ data' = [c \in Cells |-> IF c = start[t] THEN Char(t)
                                ELSE IF c \in WordOf(start[t]) THEN word[t][c]
                                ELSE data[c]]
    /\ start' = [start EXCEPT ![t] = Wrap(@ + 1)]
    /\ i' = [i EXCEPT ![t] = @ + 1]
    /\ word' = [word EXCEPT ![t] = <<>>]
    /\ UNCHANGED <<attached, magic, get, put, static, text, pos>>

Publish(t) ==
    /\ ~More(t)
    /\ Goto(t, "copy", "fragment")
    /\ put' = start[t]
    /\ ForgetLocals(t)
    /\ UNCHANGED <<attached, magic, get, data, static>>

-----------------------------------------------------------------------------

\* The host takes the oldest unread character.
HostTake ==
    /\ get # put
    /\ get' = Wrap(get + 1)
    /\ UNCHANGED <<attached, magic, put, data, static, pc, locals>>

\* The console is reset: RAM is reloaded, the cartridge keeps its contents.
Reset ==
    /\ isInitialized' = FALSE
    /\ sISVHandle' = FALSE
    /\ pc' = [t \in Threads |-> "idle"]
    /\ text' = [t \in Threads |-> <<>>]
    /\ i' = [t \in Threads |-> 0]
    /\ pos' = [t \in Threads |-> 0]
    /\ start' = [t \in Threads |-> 0]
    /\ word' = [t \in Threads |-> <<>>]
    /\ UNCHANGED device

INITIALIZE(t) ==
    Test(t) \/ InitHandle(t) \/ InitPut(t) \/ InitGet(t) \/ InitMagic(t) \/ SetInitialized(t)

is_proutSyncPrintf(t) ==
    \/ NoViewer(t) \/ ReadMagic(t) \/ ReadGet(t) \/ Admit(t) \/ Refuse(t)
    \/ SkipNul(t) \/ ReadWord(t) \/ StoreWord(t) \/ Publish(t)

Thread(t) == Call(t) \/ INITIALIZE(t) \/ Fragment(t) \/ Done(t) \/ is_proutSyncPrintf(t)

Next == HostTake \/ Reset \/ \E t \in Threads : Thread(t)

Spec == Init /\ [][Next]_vars

\* Started code keeps running: nothing in it waits for another thread.
Fairness == \A t \in Threads : WF_vars(INITIALIZE(t) \/ is_proutSyncPrintf(t))

FairSpec == Spec /\ Fairness
-----------------------------------------------------------------------------

Words == UNION { [WordOf(c) -> Chars] : c \in Cells }

TypeOK ==
    /\ attached \in BOOLEAN
    /\ magic \in {"unset", "IS64"}
    /\ get \in Cells /\ put \in Cells
    /\ data \in [Cells -> Chars]
    /\ isInitialized \in BOOLEAN /\ sISVHandle \in BOOLEAN
    /\ pc \in [Threads -> PCs]
    /\ text \in [Threads -> Texts \cup {<<>>}]
    /\ i \in [Threads -> Nat]
    /\ \A t \in Threads :
        i[t] <= Len(text[t]) /\ (pc[t] \notin CopyPCs => i[t] = 0)
    /\ pos \in [Threads -> Cells] /\ start \in [Threads -> Cells]
    /\ word \in [Threads -> {<<>>} \cup Words]
    /\ \A t \in Threads :
        pc[t] = "store" => More(t) /\ word[t] \in [WordOf(start[t]) -> Chars]

\* How far cell b is ahead of cell a, going round the ring.
Dist(a, b) == IF a <= b THEN b - a ELSE b - a + RingSize

\* The cells the host still has to take.
Unread == { c \in Cells : Dist(get, c) < Dist(get, put) }

\* Whichever thread ran isPrintfInit, and however threads interleave with it
\* and with resets: a fragment is sent only when initialisation was completed
\* in this session, and stored only into the ring of a viewer that is there.
UsedAfterInit ==
    \A t \in Threads :
        /\ pc[t] \in {"fragment"} \cup ProutPCs => isInitialized /\ sISVHandle
        /\ pc[t] \in {"readGet", "readPut"} \cup CopyPCs => attached

\* What makes UsedAfterInit inductive.
InitInv ==
    /\ UsedAfterInit
    /\ isInitialized => sISVHandle
    /\ magic = "IS64" => attached
    /\ \A t \in Threads : pc[t] \in InitPCs \ {"handle"} => sISVHandle

\* With one printing thread, the copy loop always has room for what it has
\* left to store, although the host's position it tested is an old one.
RoomForRest ==
    \A t \in Threads :
        pc[t] \in CopyPCs /\ More(t) =>
            Dist(get, put) + Dist(put, start[t]) + Len(text[t]) - i[t] <= RingSize

\* What makes RoomForRest and NoClobber inductive when one thread prints: the
\* position it read only underestimates what the host has taken, and the word
\* it is about to write back is still what the ring holds.
SoloInv ==
    \A t \in Threads :
        /\ pc[t] = "readPut" => Dist(get, put) <= Dist(pos[t], put)
        /\ pc[t] \in CopyPCs =>
              Dist(get, put) + Dist(put, start[t]) + Len(text[t]) - i[t] <= RingSize
        /\ pc[t] = "store" =>
              \A c \in WordOf(start[t]) : word[t][c] = data[c]

\* With one printing thread, no step changes a character the host has still
\* to take: neither an admitted fragment nor the write-back of a word that
\* also holds older characters.
NoClobber == [][\A c \in Unread : data'[c] = data[c]]_vars

\* A fragment is refused only if it would not have fitted when the host's
\* position was read.
RefusedOnlyWhenFull ==
    [][\A t \in Threads :
        Refuse(t) => Dist(pos[t], put) + Len(text[t]) > RingSize]_vars

\* is_proutSyncPrintf returns to _Printf (or the console is reset): the copy
\* loop ends and no thread waits for another.
CallbackReturns ==
    \A t \in Threads : pc[t] = "readMagic" ~> pc[t] \in {"fragment", "idle"}

\* With one printing thread the ring implements the bounded FIFO.
Log == INSTANCE LogChannel WITH
           Capacity <- RingSize,
           ready <- isInitialized,
           unread <- [k \in 1 .. Dist(get, put) |-> data[Wrap(get + k - 1)]]

RingIsFifo == Log!Spec

\* Why the ring implements the FIFO when one thread prints: initialisation is
\* done with the flag unset and empties the ring; an admitted fragment has room
\* as a whole until it is published, and of what the copy loop has consumed, the
\* nth visible character lies n cells past put.
FifoInv ==
    \A t \in Threads :
        /\ pc[t] \in InitPCs => ~isInitialized
        /\ pc[t] = "get" => put = 0
        /\ pc[t] \in {"magic", "flag"} => get = put
        /\ pc[t] \in ProutPCs => text[t] \in Texts
        /\ pc[t] = "store" => Char(t) # NUL
        /\ pc[t] \in CopyPCs =>
              /\ Dist(get, put) + Len(text[t]) <= RingSize
              /\ start[t] = Wrap(put + Log!Rank(text[t], i[t]))
              /\ \A n \in 1 .. Log!Rank(text[t], i[t]) :
                    \E k \in Log!Shown(text[t]) :
                        /\ k <= i[t] /\ Log!Rank(text[t], k) = n
                        /\ data[Wrap(put + n - 1)] = text[t][k]

\* n64_io.h says of N64Wrapper_Printf that it prints the string.  So the visible
\* characters of an admitted fragment are there for the host to take once the
\* put register is written;
Prints ==
    [][\A t \in Threads :
        Publish(t) => Dist(get', put') >= Len(Log!Visible(text[t]))]_vars

\* one thread's write to put does not take back what another has printed;
KeepsPrinted ==
    [][\A t \in Threads : Publish(t) => Dist(get', put') >= Dist(get, put)]_vars

\* and isPrintfInit does not run again in a session that has already printed.
InitOnce ==
    [][\A t \in Threads : InitPut(t) /\ isInitialized => get = put]_vars
=============================================================================
