---------------------------- MODULE MCModelPanel ----------------------------
(* ModelPanel for TLC: the page, and one other caller. *)
EXTENDS ModelPanel

CONSTANTS cli

\* Bounds.  Calls of the two overlap while no card is there: the operator has left
\* the page over a call of its own.  A card is edited, and its probes are asked
\* and answered, over a Node that was changed and not started since.
OneAtATime == Free(cli) \/ saved = Keep

CardFirst ==
    \/ form = saved /\ probe = NoProbe /\ asked = {} /\ ~dialog
    \/ busy
    \/ health = None /\ \A c \in Callers : call[c] = Done

\* Selections are made on the Node that the CLI has made, of an embedding model
\* or of a generation model.
Chosen(c) ==
    call[c].wanted # None =>
        /\ env.secrets = cli
        /\ Keep \in {call[c].wanted.embedding, call[c].wanted.generation}

Bounds == OneAtATime /\ CardFirst /\ \A c \in Callers : Chosen(c)
=============================================================================
