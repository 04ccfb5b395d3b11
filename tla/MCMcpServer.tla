----------------------------- MODULE MCMcpServer -----------------------------
(* McpServer for TLC: three Cores that answer with lists of up to two items. *)
EXTENDS McpServer

CONSTANTS n1, n2, n3, k1, k2

Item(id, rank) == [id |-> id, rank |-> rank]

\* Reported ranks may be missing, equal or out of order; an item may be unnamed.
Items == {Item(k1, 0), Item(k1, 3), Item(k2, 1), Item(NoId, 0)}

UpToTwo == UNION {[1..n -> Items] : n \in 0..2}

All == <<n1, n2, n3>>
Home == <<n1>>
SomeTargets == {<<>>, <<n2, n2>>, All}

Interchangeable == Permutations(Requests) \cup Permutations(Credentials) \cup Permutations(Sids)
=============================================================================
