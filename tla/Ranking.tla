------------------------------- MODULE Ranking -------------------------------
(***************************************************************************)
(* Sorting as the code's sort.SliceStable does it with a comparison of one *)
(* attribute after the other: what the sorted sequence is, not how it is   *)
(* found.                                                                  *)
(***************************************************************************)
EXTENDS Integers, Sequences, FiniteSets

\* Tuple k comes before tuple l in lexicographic order.
Precedes(k, l) == \E i \in DOMAIN k : k[i] < l[i] /\ \A j \in 1..(i - 1) : k[j] = l[j]

\* The members of the domain of key in the order of their keys, tuples of integers
\* no two of which are the same: each at the place that as many others come before.
Ranked(key) ==
  [i \in 1..Cardinality(DOMAIN key) |->
     CHOOSE x \in DOMAIN key : Cardinality({y \in DOMAIN key : Precedes(key[y], key[x])}) = i - 1]
=============================================================================
