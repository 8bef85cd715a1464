---------------------------- MODULE Subsequences ----------------------------
(* The part of a list at some of its indices, in the list's own order: what *)
(* a filter keeps of it, with no recursion, so that it can be proved about. *)
EXTENDS Naturals, FiniteSets, Sequences

Rank(S, j) == Cardinality({x \in S : x <= j})
Kept(s, S) == [i \in 1..Cardinality(S) |-> s[CHOOSE j \in S : Rank(S, j) = i]]
=============================================================================
