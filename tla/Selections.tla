----------------------------- MODULE Selections -----------------------------
(***************************************************************************)
(* Parts of sequences, by the places that are kept: what std::erase_if     *)
(* leaves of a vector, and what a loop copies that skips some elements.    *)
(***************************************************************************)
EXTENDS Naturals, FiniteSets

\* The numbers of K in their order.
Ascending(K) ==
  CHOOSE f \in [1..Cardinality(K) -> K] : \A i, j \in DOMAIN f : i < j => f[i] < f[j]

\* The elements of s at the places K, in their order.
Selected(s, K) == [i \in 1..Cardinality(K) |-> s[Ascending(K)[i]]]
=============================================================================
