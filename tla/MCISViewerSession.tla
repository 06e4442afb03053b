-------------------------- MODULE MCISViewerSession --------------------------
(***************************************************************************)
(* MCISViewer with the cells of the session, for one printing thread.      *)
(***************************************************************************)
EXTENDS ISViewerSession, MCISViewer
=============================================================================
