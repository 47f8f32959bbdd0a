------------------------------ MODULE ArraySort ------------------------------
(* Array.prototype.sort, as the tables and the charts use it: a comparison  *)
(* under which no two elements are equal has one sorted list.               *)
EXTENDS Naturals, FiniteSets

\* The elements of S in the order of the pairs R: each comes after as many as
\* go before it.
Sorted(S, R) ==
  [i \in 1..Cardinality(S) |->
     CHOOSE x \in S : Cardinality({y \in S : <<y, x>> \in R}) = i - 1]
=============================================================================
