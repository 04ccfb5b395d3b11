------------------------------ MODULE Selection ------------------------------
(* Some of the items of a sequence, in its order: a comprehension with an if. *)
EXTENDS Integers, FiniteSets

\* How many of the positions P are not after n.
Rank(P, n) == Cardinality({m \in P : m <= n})

\* The items at the positions P of s.
Chosen(s, P) == [k \in 1 .. Cardinality(P) |-> s[CHOOSE n \in P : Rank(P, n) = k]]
=============================================================================
