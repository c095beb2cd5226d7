------------------------------- MODULE Lists --------------------------------
(***************************************************************************)
(* The part of a list that a loop with a condition and an append keeps.    *)
(***************************************************************************)
EXTENDS Integers, Sequences, FiniteSets

\* How many of the positions I are at most i.
Rank(I, i) == Cardinality({j \in I : j <= i})

\* The k-th of the positions I.
Nth(I, k) == CHOOSE i \in I : Rank(I, i) = k

\* The elements of s at the positions I, in their order.
Pick(s, I) == [k \in 1 .. Cardinality(I) |-> s[Nth(I, k)]]
=============================================================================
