------------------------------ MODULE RecordLog ------------------------------
(***************************************************************************)
(* What the record API of the memory core promises: each session is an      *)
(* append-only log, a batch is appended whole or not at all, and an item    *)
(* that is already in the log of its session is not appended again.         *)
(***************************************************************************)
EXTENDS Sequences, SequencesExt, Selection

CONSTANTS Sessions, Bodies

VARIABLE log

\* Where an item may be found: the sessions whose log holds its id.
Homes(id) == {s \in Sessions : \E n \in DOMAIN log[s] : log[s][n].id = id}

\* The items of a body that no log holds yet, in the order of the body.
Unseen(b) == Chosen(b.items, {n \in DOMAIN b.items : Homes(b.items[n].id) = {}})

\* Every item the service has seen before is in the same session, unchanged.
Consistent(b) ==
    \A i \in ToSet(b.items) :
        Homes(i.id) # {} => i \in ToSet(log[b.session])

LogInit == log = [s \in Sessions |-> <<>>]

AppendBatch(b) ==
    /\ b.session \in Sessions
    /\ Consistent(b)
    /\ log' = [log EXCEPT ![b.session] = @ \o Unseen(b)]

LogNext == \E b \in Bodies : AppendBatch(b)

LogSpec == LogInit /\ [][LogNext]_log
=============================================================================
