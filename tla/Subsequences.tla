---------------------------- MODULE Subsequences ----------------------------
(***************************************************************************)
(* Part of a sequence: what a Go loop that appends the elements it keeps    *)
(* leaves in the new slice.                                                 *)
(***************************************************************************)
EXTENDS Integers, Sequences, FiniteSets

\* The n-th position in K.
Nth(K, n) == CHOOSE k \in K : Cardinality({ j \in K : j =< k }) = n

\* The elements of s at the positions K, in their order.
Subsequence(s, K) == [n \in 1..Cardinality(K) |-> s[Nth(K, n)]]
=============================================================================
