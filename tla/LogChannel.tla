----------------------------- MODULE LogChannel -----------------------------
(***************************************************************************)
(* What the IS-Viewer log promises to one printing thread: a bounded FIFO  *)
(* of characters between the game and the host.  A fragment is appended    *)
(* whole or not at all, the host takes characters in order, and a fragment *)
(* that fills the last free cell makes the ring look empty, so everything  *)
(* unread is lost (put = get means "empty" and never "full").              *)
(* ISViewer implements this module when a single thread prints.            *)
(***************************************************************************)
EXTENDS Integers, Sequences, FiniteSets

CONSTANTS
    Chars,     \* characters, NUL included
    NUL,       \* never stored: the printer skips it
    Texts,     \* the fragments _Printf hands to its callback
    Capacity   \* cells of the ring, at least one

VARIABLES
    ready,     \* the log was initialised since the console started
    unread     \* characters the host can still take, oldest first

vars == <<ready, unread>>

\* The characters of a fragment that reach the ring, in their order: the nth is
\* the one that has n of them up to it.
Shown(text) == { k \in DOMAIN text : text[k] # NUL }
Rank(text, k) == Cardinality({ j \in Shown(text) : j <= k })
Visible(text) ==
    [n \in 1 .. Rank(text, Len(text)) |->
        text[CHOOSE k \in Shown(text) : Rank(text, k) = n]]

Init ==
    /\ ready = FALSE
    /\ unread = <<>>

\* Nothing is promised about the contents while the registers are rewritten.
Boot ==
    /\ ~ready
    /\ ready' = FALSE
    /\ unread' \in Seq(Chars)
    /\ Len(unread') < Capacity

\* Initialisation leaves an empty log.
Ready ==
    /\ ~ready
    /\ ready' = TRUE
    /\ unread' = <<>>

\* A fragment fits as a whole; the one that takes the last cell overruns.
PrintText(text) ==
    /\ ready
    /\ Len(unread) + Len(text) <= Capacity
    /\ LET all == unread \o Visible(text)
       IN  unread' = IF Len(all) = Capacity THEN <<>> ELSE all
    /\ UNCHANGED ready

Take ==
    /\ unread # <<>>
    /\ unread' = Tail(unread)
    /\ UNCHANGED ready

\* The console restarts: the viewer keeps what it holds.
Restart ==
    /\ ready' = FALSE
    /\ UNCHANGED unread

Next == Boot \/ Ready \/ Take \/ Restart \/ \E text \in Texts : PrintText(text)

Spec == Init /\ [][Next]_vars
=============================================================================
