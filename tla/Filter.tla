-------------------------------- MODULE Filter --------------------------------
(***************************************************************************)
(* What a filter leaves of a sequence, written with counts instead of      *)
(* recursion, so that its use can be proved about.                         *)
(***************************************************************************)
EXTENDS Naturals, Sequences, FiniteSets

\* The elements of s at the places K, in their order: as the k-th comes the one
\* whose place is the k-th of K.
Kept(s, K) ==
    [k \in 1..Cardinality(K) |->
        s[CHOOSE i \in K : Cardinality({j \in K : j <= i}) = k]]
=============================================================================
