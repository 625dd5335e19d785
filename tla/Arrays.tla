--------------------------------- MODULE Arrays ---------------------------------
(***************************************************************************)
(* Array.prototype.sort with a comparison that tells every two apart: the  *)
(* members of a set, each at the place that the number of those before it  *)
(* gives it.  (With \o TLC computes it once and not at every use.)         *)
(* Array.prototype.filter: those of an array that are in a set.            *)
(***************************************************************************)
EXTENDS Integers, Sequences, FiniteSets

Before(S, R, i) == {j \in S : <<j, i>> \in R}
SortedBy(S, R) ==
  <<>> \o [k \in 1..Cardinality(S) |-> CHOOSE i \in S : Cardinality(Before(S, R, i)) = k - 1]

Only(array, S) ==
  LET some[n \in 0..Len(array)] ==
        IF n = 0 THEN <<>> ELSE IF array[n] \in S THEN Append(some[n - 1], array[n]) ELSE some[n - 1]
  IN some[Len(array)]
=============================================================================
