-------------------------------- MODULE Ranks --------------------------------
(***************************************************************************)
(* The order in which loops of the firmware visit a set of keys, slots,    *)
(* entries or addresses: the rank of an element, and the elements by rank. *)
(***************************************************************************)
EXTENDS Integers, Sequences, FiniteSets

RankIn(S, x) == Cardinality({y \in S : y < x})

\* The elements of a finite set of numbers, the lowest first.
Ascending(S) == [i \in 1..Cardinality(S) |-> CHOOSE x \in S : RankIn(S, x) = i - 1]

\* The highest first.
Descending(S) == [i \in 1..Cardinality(S) |-> Ascending(S)[Cardinality(S) + 1 - i]]
=============================================================================
