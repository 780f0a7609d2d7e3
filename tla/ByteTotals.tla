---------------------------- MODULE ByteTotals ----------------------------
(***************************************************************************)
(* Sums of byte counts.  The server adds sizes up in three places: the     *)
(* reservations of a user, the objects of a bucket, the objects of a       *)
(* listing.  Each is a function f from a finite set to Nat, and its sum is *)
(* the number of its "byte tokens": the pairs <<x, i>>, one for every      *)
(* single byte that x counts for.  Sums become cardinalities, so that the  *)
(* facts of FiniteSetTheorems apply to them.                               *)
(***************************************************************************)
EXTENDS Integers, FiniteSets

TokensOf(x, n) == {x} \X (1..n)

Tokens(f) == UNION {TokensOf(x, f[x]) : x \in DOMAIN f}

\* The sum of f[x] over the domain of f.
TotalBytes(f) == Cardinality(Tokens(f))

=============================================================================
