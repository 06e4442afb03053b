---------------------------- MODULE SanitizedLog ----------------------------
(***************************************************************************)
(* The handlers and the log together: every Printf of a diagnostic, of     *)
(* CheckFailed and of N64Wrapper_Assert is a call of the wrapper, which    *)
(* hands its fragments to the ring, and a fragment may be refused while    *)
(* the host is slow or gone.  One session of the console: ISViewer has the *)
(* resets.                                                                 *)
(***************************************************************************)
EXTENDS Integers, Sequences

CONSTANTS
    Threads,
    HandleBits, Operations, Locations, MaxCalls,    \* of UbsanHandlers
    RingSize, WordSize                              \* of ISViewer

ASSUME RingAssumption == RingSize \in Nat \ {0} /\ WordSize \in Nat \ {0}

VARIABLES
    pc, call, todo, style, halted, calls,  \* of UbsanHandlers
    attached, magic, get, put, data,                \* of ISViewer
    isInitialized, sISVHandle,
    place,      \* ISViewer's pc
    text, i, pos, start, word,
    sent,       \* per thread: fragments handed over by the Printf under way
    screen,     \* the style in which the host shows what comes next
    lost        \* has a style been lost since the last reset was handed over?

handlers == <<pc, call, todo, style, halted, calls>>
wrapper  == <<attached, magic, get, put, data, isInitialized, sISVHandle,
              place, text, i, pos, start, word>>
vars     == <<handlers, wrapper, sent, screen, lost>>

H == INSTANCE UbsanHandlers

ASSUME HandlersAssumption ==
    H!HandleAssumption /\ H!CallsAssumption /\ H!FaultyOperations

\* A character is what it does to the screen.
Chars == {"NUL", "bold", "reset", "plain"}

\* The fragments _Printf makes of one Printf: a message has the text before its
\* conversion and what the conversion yields.
Fragments(piece) ==
    CASE piece.text = "bold" -> << <<"bold">> >>
      [] piece.text = "reset" -> << <<"reset">>, <<"plain">> >>
      [] piece.text = "runtime error" -> << <<"bold">>, <<"reset", "bold">> >>
      [] OTHER -> << <<"plain">> >>

Texts == { <<"bold">>, <<"reset">>, <<"plain">>, <<"reset", "bold">> }

W == INSTANCE ISViewer WITH pc <- place, NUL <- "NUL"

\* The Printf a thread is about to make or is making: of a diagnostic, of
\* CheckFailed, or of N64Wrapper_Assert.
Printf(t) == IF pc[t] = "diag" THEN Head(todo[t]) ELSE H!Text("assertion")
Prints(t) == (pc[t] = "diag" /\ todo[t] # <<>>) \/ pc[t] \in {"check", "assert"}

-----------------------------------------------------------------------------

Init ==
    /\ H!Init
    /\ W!Init /\ attached
    /\ sent = [t \in Threads |-> 0]
    /\ screen = "normal"
    /\ lost = FALSE

\* What a handler does between its Printfs.
Handler(t) ==
    /\ place[t] = "idle"
    /\ H!Enter(t) \/ H!Finish(t) \/ H!Crash(t)
    /\ UNCHANGED <<wrapper, sent, screen, lost>>

Call(t) ==
    /\ ~halted /\ Prints(t)
    /\ W!Call(t)
    /\ UNCHANGED <<handlers, sent, screen, lost>>

\* _Printf formats the next fragment.
Fragment(t) ==
    /\ ~halted /\ Prints(t)
    /\ sent[t] < Len(Fragments(Printf(t)))
    /\ W!Fragment(t)
    /\ text'[t] = Fragments(Printf(t))[sent[t] + 1]
    /\ sent' = [sent EXCEPT ![t] = @ + 1]
    /\ UNCHANGED <<handlers, screen, lost>>

\* A style is lost with the fragment the ring refuses, or with the whole ring
\* when a fragment takes its last cell.
Loses(t) ==
    \/ W!Refuse(t) /\ \E k \in DOMAIN text[t] : text[t][k] # "plain"
    \/ W!Publish(t) /\ get = put'
Resets(t) == W!Publish(t) /\ get # put' /\ text[t][Len(text[t])] = "reset"

Callback(t) ==
    /\ ~halted
    /\ \/ W!INITIALIZE(t) /\ UNCHANGED lost
       \/ /\ W!is_proutSyncPrintf(t)
          /\ lost' = (Loses(t) \/ (lost /\ ~Resets(t)))
    /\ UNCHANGED <<handlers, sent, screen>>

\* The Printf returns to the handler.
Done(t) ==
    /\ ~halted /\ Prints(t)
    /\ sent[t] = Len(Fragments(Printf(t)))
    /\ W!Done(t)
    /\ H!PrintPiece(t) \/ H!CheckFailed(t) \/ H!N64Wrapper_Assert(t)
    /\ sent' = [sent EXCEPT ![t] = 0]
    /\ UNCHANGED <<screen, lost>>

\* The host takes a character and shows it.
HostTake ==
    /\ W!HostTake
    /\ screen' = CASE data[get] = "bold" -> "bold"
                   [] data[get] = "reset" -> "normal"
                   [] OTHER -> screen
    /\ UNCHANGED <<handlers, sent, lost>>

Running(t) == Handler(t) \/ Call(t) \/ Fragment(t) \/ Callback(t) \/ Done(t)

Next == HostTake \/ \E t \in Threads : Running(t)

\* A handler that was entered keeps running, in the wrapper too.  Nothing is
\* asked of the host.
Spec == Init /\ [][Next]_vars
Fairness == \A t \in Threads : WF_vars(pc[t] # "idle" /\ Running(t))
FairSpec == Spec /\ Fairness
-----------------------------------------------------------------------------

\* Handlers that print through the ring behave like handlers whose Printf is one
\* step that always succeeds: no slow or absent host, refusal or other thread
\* makes one wait, leave its diagnostic half-way, return from an _abort entry or
\* keep the game from stopping.
ImplementsHandlers == H!FairSpec

\* With one thread: when no diagnostic is being printed and the host has taken
\* everything, its screen is in the normal style, unless a style was lost for
\* want of room; what was lost is made good by the end of the next diagnostic
\* the host leaves room for.
ScreenReset ==
    /\ \A t \in Threads : pc[t] # "diag"
    /\ get = put
    /\ ~lost
    => screen = "normal"
=============================================================================
