----------------------------- MODULE ArrayFilter -----------------------------
(***************************************************************************)
(* Array.prototype.filter: the elements of an array that are kept, in the  *)
(* order in which they stand in it.                                        *)
(***************************************************************************)
EXTENDS Naturals, FiniteSets

\* How many of the positions lie at or before i.
RankIn(positions, i) == Cardinality({j \in positions : j <= i})

\* The k-th of a set of positions.
Nth(positions, k) == CHOOSE i \in positions : RankIn(positions, i) = k

\* The elements of s at these positions.
Filter(s, positions) == [k \in 1 .. Cardinality(positions) |-> s[Nth(positions, k)]]
=============================================================================
