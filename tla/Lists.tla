-------------------------------- MODULE Lists --------------------------------
(***************************************************************************)
(* What the walks over the list of transaction.c and over the arrays of    *)
(* chunklock.c and nodeid_set.c leave of them, without recursion.          *)
(***************************************************************************)
EXTENDS Integers, Sequences, FiniteSets

\* The i-th smallest of the positions K.
Nth(K, i) == CHOOSE k \in K : Cardinality({j \in K : j <= k}) = i

\* The entries of s at the positions K, in their order.
Kept(s, K) == [i \in 1 .. Cardinality(K) |-> s[Nth(K, i)]]

\* The entries of s that are in S.
Those(s, S) == Kept(s, {k \in DOMAIN s : s[k] \in S})
=============================================================================
