-------------------------- MODULE ISViewerSession --------------------------
(***************************************************************************)
(* ISViewer with a record of what was written since the last reset.  The   *)
(* cartridge keeps the magic, get, put and the text of the session before, *)
(* and isPrintfInit writes put before get: until it is done, the host can  *)
(* take cells of the old session as if they were text.                     *)
(***************************************************************************)
EXTENDS ISViewer

VARIABLE fresh      \* the cells this session has stored a character in

sessionVars == <<vars, fresh>>

SessionInit == Init /\ fresh = {}

\* The cells a store of this step fills.
Stored == { start[t] : t \in { u \in Threads : pc[u] = "store" /\ pc'[u] = "copy" } }

SessionNext ==
    \/ Reset /\ fresh' = {}
    \/ /\ HostTake \/ \E t \in Threads : Thread(t)
       /\ fresh' = fresh \cup Stored

SessionSpec == SessionInit /\ [][SessionNext]_sessionVars
-----------------------------------------------------------------------------

\* With one printing thread: from the moment the wrapper is initialised, and
\* wherever in the previous session the console was reset, the host takes only
\* characters of this session.
OnlyThisSession == isInitialized => Unread \subseteq fresh

\* What makes OnlyThisSession inductive when one thread prints: isPrintfInit
\* runs with the flag unset and leaves the ring empty before it is set, and
\* what the copy loop has stored from put on is fresh.
SessionInv ==
    /\ OnlyThisSession
    /\ \A t \in Threads :
        /\ pc[t] \in InitPCs => ~isInitialized
        /\ pc[t] = "get" => put = 0
        /\ pc[t] \in {"magic", "flag"} => get = put
        /\ pc[t] \in CopyPCs =>
              \A c \in Cells : Dist(put, c) < Dist(put, start[t]) => c \in fresh
=============================================================================
