------------------------------ MODULE Ordered -------------------------------
(***************************************************************************)
(* Parts of sequences, chosen by their indices: what SetToSortSeq and      *)
(* SelectSeq of the libraries compute, without the recursion that puts     *)
(* them out of reach of the provers.                                       *)
(***************************************************************************)
EXTENDS Naturals, Sequences, FiniteSets

(* A finite set of numbers in rising order.                                *)
Ordered(S) ==
    [i \in 1..Cardinality(S) |-> CHOOSE k \in S : Cardinality({j \in S : j <= k}) = i]

(* The elements of l at the indices in S, in their order.                  *)
Kept(l, S) == [i \in 1..Cardinality(S) |-> l[Ordered(S)[i]]]
=============================================================================
