------------------------------- MODULE Places -------------------------------
(***************************************************************************)
(* Places in a sequence or a text, in their order.  The rank of a place is *)
(* the number of places up to it.                                          *)
(***************************************************************************)
EXTENDS Naturals, FiniteSets

\* The i-th of a set of places.
Nth(I, i) == {k \in I : Cardinality({j \in I : j <= k}) = i}

\* All of them, and the elements of a sequence that are at them.
InOrder(I) == [i \in 1..Cardinality(I) |-> CHOOSE k \in Nth(I, i) : TRUE]
Pick(words, I) == [i \in 1..Cardinality(I) |-> words[CHOOSE k \in Nth(I, i) : TRUE]]
=============================================================================
