------------------------------- MODULE Selection -------------------------------
(***************************************************************************)
(* The part of a list that is kept when the others are left out, as        *)
(* list.remove and a comprehension with a condition do.                    *)
(***************************************************************************)
EXTENDS Integers, Sequences, FiniteSets

\* Which of the places P the place i is, counted from the front.
Rank(P, i) == Cardinality({h \in P : h <= i})

\* What s holds at the places P, in the order of s.
AtPlaces(s, P) ==
    [n \in 1 .. Cardinality(P) |-> s[CHOOSE i \in P : Rank(P, i) = n]]
================================================================================
