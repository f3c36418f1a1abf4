--------------------------------- MODULE Ranks ---------------------------------
(***************************************************************************)
(* The members of a finite set of numbers in their order: what a loop that *)
(* keeps some of the places of a list, in turn, goes through.              *)
(***************************************************************************)
EXTENDS Integers, FiniteSets

\* The n-th smallest number of a finite set.
Nth(S, n) == CHOOSE i \in S : Cardinality({j \in S : j < i}) = n - 1
=============================================================================
