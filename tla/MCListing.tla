----------------------------- MODULE MCListing -----------------------------
(***************************************************************************)
(* One client whose page and sync engine list independently.               *)
(***************************************************************************)
EXTENDS Listing, TLC

CONSTANTS c1, t1, t2

MCOwner == [k \in Callers |-> c1]

SameTimes == Permutations(Times)

=============================================================================
