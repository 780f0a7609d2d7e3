-------------------------- MODULE MCDesktopSession --------------------------
(***************************************************************************)
(* Model values for the runs of DesktopSession.                            *)
(***************************************************************************)
EXTENDS DesktopSession

CONSTANTS ui, engine, c1, c2, c3

=============================================================================
