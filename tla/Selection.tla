------------------------------ MODULE Selection ------------------------------
(***************************************************************************)
(* The elements of a sequence at some of its places, in their order: what   *)
(* SelectSeq returns, with the places named and without recursion.          *)
(***************************************************************************)
EXTENDS Naturals, Sequences, FiniteSets

\* How many of the places K are not behind place j
Rank(K, j) == Cardinality({k \in K : k <= j})

Selected(s, K) == [i \in 1..Cardinality(K) |-> s[CHOOSE j \in K : Rank(K, j) = i]]
=============================================================================
