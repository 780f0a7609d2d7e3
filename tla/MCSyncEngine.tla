---------------------------- MODULE MCSyncEngine ----------------------------
(***************************************************************************)
(* Model values for the runs of SyncEngine.                                *)
(***************************************************************************)
EXTENDS SyncEngine

CONSTANTS f1, f2, l1, l2

=============================================================================
