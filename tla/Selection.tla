------------------------------ MODULE Selection ------------------------------
(* The loops that keep some elements of a slice, in the order they had.    *)
EXTENDS Integers, FiniteSets

\* The k-th of the indices in I.
Nth(I, k) == CHOOSE i \in I : Cardinality({j \in I : j <= i}) = k

\* The elements of s at the indices in I.
Selected(s, I) == [k \in 1..Cardinality(I) |-> s[Nth(I, k)]]
=============================================================================
