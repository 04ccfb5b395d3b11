------------------------------ MODULE MCCoreMemory ----------------------------
(* CoreMemory for TLC: batches that overlap, repeat, permute and contradict;
   model outputs that permute, grow, shrink and repeat texts. *)
EXTENDS CoreMemory, TLC

CONSTANTS s1, s2, s3, r1, r2, r3, r4, a1, a2, a3, x, y, A, B, g1, g2

Item(r, c, a) == [id |-> r, content |-> c, author |-> a]

MCBodies == {
    \* brings in the profile and the author a3
    [session |-> s2, items |-> <<Item(r3, x, a3)>>],
    \* two new authors, in both orders, and the same ids in two sessions
    [session |-> s1, items |-> <<Item(r1, x, a1), Item(r2, x, a2)>>],
    [session |-> s2, items |-> <<Item(r2, x, a2), Item(r1, x, a1)>>],
    \* the same ids again, in both orders, by an author who may be known
    [session |-> s1, items |-> <<Item(r1, x, a3), Item(r2, x, a3)>>],
    [session |-> s2, items |-> <<Item(r2, x, a3), Item(r1, x, a3)>>],
    \* overlaps another batch of its session
    [session |-> s1, items |-> <<Item(r2, x, a2), Item(r4, x, a3)>>],
    \* other content for an id
    [session |-> s1, items |-> <<Item(r1, y, a1)>>],
    \* no such session
    [session |-> s3, items |-> <<Item(r3, x, a1)>>] }

Says(t, g, withEdge) == [text |-> t, segment |-> g, edge |-> withEdge]

MCOutputs == {
    <<>>,
    <<Says(A, g1, TRUE), Says(B, g2, FALSE)>>,
    <<Says(B, g1, FALSE), Says(A, g2, TRUE)>>,
    <<Says(A, g2, FALSE), Says(A, g1, FALSE)>>,
    <<Says(Empty, g1, FALSE), Says(B, g1, TRUE)>> }

Symmetry == Permutations(Requests) \cup Permutations(Executions)
=============================================================================
