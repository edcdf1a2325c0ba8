------------------------------ MODULE Listing ------------------------------
(***************************************************************************)
(* Lists in an order and lists that keep some elements, written out: of    *)
(* SortSeq and SelectSeq, which are built in, nothing could be proved.     *)
(***************************************************************************)
EXTENDS Integers, Sequences, FiniteSets

\* The elements of S in the order of R, a set of pairs: the k-th has k - 1 before it.
Listed(S, R) == [k \in 1..Cardinality(S) |-> CHOOSE x \in S : Cardinality({y \in S : <<y, x>> \in R}) = k - 1]

\* Some numbers, from the least to the greatest.
Ascending(S) == Listed(S, {p \in S \X S : p[1] < p[2]})

\* The elements of list at the indices S.
Picked(list, S) == [k \in 1..Cardinality(S) |-> list[Ascending(S)[k]]]

\* The elements of list that are in K.
Those(list, K) == Picked(list, {i \in DOMAIN list : list[i] \in K})
=============================================================================
