----------------------------- MODULE MCISViewer -----------------------------
(***************************************************************************)
(* Instances of ISViewer for TLC: a ring of four cells in words of two, so *)
(* that a word is shared by two fragments, a fragment wraps, fills the     *)
(* last cell, or is longer than the ring, and a NUL is skipped.            *)
(***************************************************************************)
EXTENDS ISViewer

MCTexts == { <<1>>, <<2, 1>>, <<1, NUL, 2>>, <<2, 1, 2, 1>>, <<1, 2, 1, 2, 1>> }
MCShortTexts == { <<1>>, <<1, 1>> }
MCTextsWithNul == MCShortTexts \cup { <<NUL, 1>> }
=============================================================================
