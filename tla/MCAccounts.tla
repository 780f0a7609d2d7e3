----------------------------- MODULE MCAccounts -----------------------------
(***************************************************************************)
(* Model values and symmetry for the runs of Accounts.                     *)
(***************************************************************************)
EXTENDS Accounts, TLC

CONSTANTS r1, r2, i1, i2, i3, d1

Symmetry == Permutations(Requests) \cup Permutations(SessionIds)

=============================================================================
