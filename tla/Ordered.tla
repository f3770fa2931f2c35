---- MODULE Ordered ----
(***************************************************************************)
(* Rows in an order: what a query returns that says ORDER BY and LIMIT,    *)
(* and the entries of a Map, which keeps them as they were set.            *)
(***************************************************************************)
EXTENDS Naturals, FiniteSets, Sequences

\* The elements of S in an order of them, each at the place that the number of those before
\* it says; ahead[p] are the elements before p.
InOrder(S, ahead) ==
  [i \in 1..Cardinality(S) |-> CHOOSE p \in S : Cardinality(ahead[p]) = i - 1]

\* The first n of a sequence, or all of it.
FirstOf(n, s) == IF Len(s) > n THEN SubSeq(s, 1, n) ELSE s

\* What is left of a sequence when only the entries at some places are kept.
Kept(s, places) ==
  LET at == InOrder(places, [i \in places |-> {j \in places : j < i}])
  IN [i \in 1..Len(at) |-> s[at[i]]]
====
