------------------------------- MODULE Sorted -------------------------------
(***************************************************************************)
(* sorted(set(...)): the elements of a finite set of numbers by rank.      *)
(***************************************************************************)
EXTENDS Naturals, FiniteSets

\* How many elements of S are not greater than x.
Rank(S, x) == Cardinality({y \in S : y <= x})

\* The k-th element of S.
Nth(S, k) == CHOOSE x \in S : Rank(S, x) = k
=============================================================================
