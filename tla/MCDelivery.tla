----------------------------- MODULE MCDelivery -----------------------------
(* Delivery for TLC: one record id, sent to one node or to two. *)
EXTENDS Delivery, TLC

CONSTANTS c1, c2, r1, t1, t2, x, y

Write(c, S) == [record |-> r1, content |-> c, targets |-> S]

MCBodies == {Write(x, {t1, t2}), Write(x, {t1}), Write(y, {t1})}

MCConfigs == {{t1, t2}, {t2}}

\* One node, the same content again: what a caller's retry is.
MCRetryBodies == {Write(x, {t1})}

MCOneConfig == {{t1}}

Symmetry == Permutations(Calls)
=============================================================================
