--------------------------------- MODULE Ranks ---------------------------------
(***************************************************************************)
(* The numbers of a finite set by their rank, and what code that filters   *)
(* or sorts a list in order makes of it.                                   *)
(***************************************************************************)
EXTENDS Naturals, FiniteSets

(* The k-th number of a set, in order.                                     *)
Nth(S, k) == CHOOSE x \in S : Cardinality({y \in S : y <= x}) = k

(* The entries of a sequence at a set of places, in order.                 *)
Entries(seq, S) == [k \in 1 .. Cardinality(S) |-> seq[Nth(S, k)]]
=============================================================================
