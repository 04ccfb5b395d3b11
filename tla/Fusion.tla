-------------------------------- MODULE Fusion --------------------------------
(***************************************************************************)
(* A federated read of the MCP router (router.ts): the call goes to every   *)
(* selected Core at once, each answers with a ranked list or fails, and      *)
(* reciprocal rank fusion makes one list of what came back.                  *)
(*                                                                           *)
(* An item is its identity (NoId when the Core gave it none) and the rank    *)
(* the Core reported (0 when it reported none).  A score is the exact sum of *)
(* the fractions 1 / (K + rank) times Scale.  The order in which the nodes   *)
(* answer cannot matter, Promise.all keeps the order of the targets, so they *)
(* answer in that order.                                                     *)
(***************************************************************************)
EXTENDS Integers, FiniteSets, SequencesExt

CONSTANTS
    Nodes,          \* the configured Cores
    DefaultRead, DefaultWrite,      \* sequences of nodes
    Requested,      \* the targets a caller may name: sequences, perhaps empty
    Limits,         \* the limits a caller may ask for
    Lists,          \* the lists a Core may answer a recall with
    NoId,           \* the identity of an item that has none
    K, Scale        \* rrfK; a multiple of every K + rank

VARIABLES
    reading,           \* the read in progress: [view, targets, limit]
    answers,        \* what the targets answered so far, in their order
    fused           \* the results returned

fusionVars == <<reading, answers, fused>>

NoCall == [view |-> "none", targets |-> <<>>, limit |-> 0]
Failed == [ok |-> FALSE, items |-> <<>>]
Answer(items) == [ok |-> TRUE, items |-> items]
NotFused == [done |-> FALSE, results |-> <<>>]
ViewLimit == 50

FusionInit == reading = NoCall /\ answers = <<>> /\ fused = NotFused

-----------------------------------------------------------------------------
\* Which nodes a call goes to: what it names, or the defaults, each once.
SelectTargets(requested, defaults) ==
    LET selected == IF requested = <<>> THEN defaults ELSE requested
        firsts == {i \in DOMAIN selected :
                      \A j \in 1..(i - 1) : selected[j] # selected[i]}
        order == SetToSortSeq(firsts, <)
    IN  [i \in DOMAIN order |-> selected[order[i]]]

\* A name that is not configured refuses the whole reading.
Start(view, targets, limit) ==
    /\ reading = NoCall
    /\ ToSet(targets) \subseteq Nodes
    /\ reading' = [view |-> view, targets |-> targets, limit |-> limit]
    /\ UNCHANGED <<answers, fused>>

Recall == \E requested \in Requested, limit \in Limits :
             Start("list", SelectTargets(requested, DefaultRead), limit)

\* Record contexts, claim evidence, wikis, graphs, representations, cards,
\* session and dynamic contexts, chats: one container per node.
ReadView == \E requested \in Requested :
               Start("container", SelectTargets(requested, DefaultRead), ViewLimit)

\* Dreams and transfer requests go to the nodes that are written to.
OrderWork == \E requested \in Requested :
                Start("container", SelectTargets(requested, DefaultWrite), ViewLimit)

-----------------------------------------------------------------------------
\* A node that fails, or answers with something else than was asked for,
\* contributes an error and no items.
AnswersTo(view) ==
    {Failed} \cup (IF view = "list" THEN {Answer(l) : l \in Lists}
                                    ELSE {Answer(<<[id |-> NoId, rank |-> 0]>>)})

CoreAnswers ==
    /\ Len(answers) < Len(reading.targets)
    /\ \E a \in AnswersTo(reading.view) : answers' = Append(answers, a)
    /\ UNCHANGED <<reading, fused>>

\* The rank an item takes part with, and the key it is fused under: an item
\* without an identity is that of its node and rank alone.
RankAt(items, i) == IF items[i].rank > 0 THEN items[i].rank ELSE i

DedupeKey(item, node, rank) ==
    IF item.id = NoId THEN <<"unique", node, rank>> ELSE <<"memory", item.id>>

\* All items in the order of the targets and of each answer.
RankedOf(n) ==
    LET items == answers[n].items
    IN  [i \in DOMAIN items |->
            [key |-> DedupeKey(items[i], reading.targets[n], RankAt(items, i)),
             node |-> n, rank |-> RankAt(items, i)]]

Ranked == FlattenSeq([n \in DOMAIN answers |-> RankedOf(n)])

Weight(rank) == Scale \div (K + rank)

Unranked == 0

NewEntry(r) ==
    [key |-> r.key, score |-> Weight(r.rank), best |-> r.rank, primary |-> r.node,
     ranks |-> [n \in DOMAIN reading.targets |-> IF n = r.node THEN r.rank ELSE Unranked]]

\* Mutant: every occurrence counts.
CountedAgain(prior, rank) == Weight(rank)

\* A node counts once, with the best of its ranks.
Counted(prior, rank) ==
    IF prior = Unranked THEN Weight(rank)
    ELSE IF rank < prior THEN Weight(rank) - Weight(prior) ELSE 0

Improve(entry, r) ==
    LET prior == entry.ranks[r.node]
        leads == \/ r.rank < entry.best
                 \/ r.rank = entry.best /\ r.node < entry.primary
    IN  [entry EXCEPT
            !.score = @ + Counted(prior, r.rank),
            !.ranks[r.node] = IF prior = Unranked \/ r.rank < prior THEN r.rank ELSE prior,
            !.best = IF leads THEN r.rank ELSE @,
            !.primary = IF leads THEN r.node ELSE @]

Merge(entries, r) ==
    LET at == {i \in DOMAIN entries : entries[i].key = r.key}
    IN  IF at = {} THEN Append(entries, NewEntry(r))
        ELSE LET i == CHOOSE i \in at : TRUE
             IN  [entries EXCEPT ![i] = Improve(@, r)]

\* Higher scores first, then better ranks, then earlier targets.
Better(a, b) ==
    \/ a.score > b.score
    \/ a.score = b.score /\ a.best < b.best
    \/ a.score = b.score /\ a.best = b.best /\ a.primary < b.primary

Fuse ==
    /\ reading # NoCall
    /\ Len(answers) = Len(reading.targets)
    /\ ~fused.done
    /\ LET entries == FoldLeft(Merge, <<>>, Ranked)
           Earlier(i, j) == \/ Better(entries[i], entries[j])
                            \/ ~Better(entries[j], entries[i]) /\ i < j
           order == SetToSortSeq(DOMAIN entries, Earlier)
       IN  fused' = [done |-> TRUE,
                     results |-> [i \in {i \in DOMAIN order : i <= reading.limit} |->
                                     entries[order[i]]]]
    /\ UNCHANGED <<reading, answers>>

FusionNext == Recall \/ ReadView \/ OrderWork \/ CoreAnswers \/ Fuse

-----------------------------------------------------------------------------
FusionAssumption ==
    /\ ToSet(DefaultRead) \cup ToSet(DefaultWrite) \subseteq Nodes
    /\ \A l \in Lists : \A i \in DOMAIN l :
          l[i].rank >= 0 /\ Scale % (K + RankAt(l, i)) = 0

\* What the fusion of the answers is, said without a fold: a memory appears
\* once, its score is the sum over the nodes that returned it of 1 / (K + the
\* node's best rank for it), its body is that of the best rank, the first
\* target's among equals; the list is sorted, cut at the limit, and loses what
\* is worst.  A node that failed takes nothing from the others (#federated,
\* #rrf).
FusedIsReference ==
    fused.done =>
        LET results == fused.results
            items == ToSet(Ranked)
            keys == {r.key : r \in items}
            returned == {results[i].key : i \in DOMAIN results}
            NodesOf(k) == {r.node : r \in {x \in items : x.key = k}}
            RankIn(k, n) == Min({r.rank : r \in {x \in items : x.key = k /\ x.node = n}})
            Score(k) == MapThenSumSet(LAMBDA n : Weight(RankIn(k, n)), NodesOf(k))
            Best(k) == Min({RankIn(k, n) : n \in NodesOf(k)})
            Primary(k) == Min({n \in NodesOf(k) : RankIn(k, n) = Best(k)})
            Reference(k) == [score |-> Score(k), best |-> Best(k), primary |-> Primary(k)]
        IN  /\ Cardinality(returned) = Len(results)
            /\ returned \subseteq keys
            /\ Len(results) = Min({reading.limit, Cardinality(keys)})
            /\ \A i \in DOMAIN results :
                  LET e == results[i]
                  IN  /\ [score |-> e.score, best |-> e.best, primary |-> e.primary]
                            = Reference(e.key)
                      /\ {n \in DOMAIN e.ranks : e.ranks[n] # Unranked} = NodesOf(e.key)
                      /\ \A j \in DOMAIN results : j > i => ~Better(results[j], e)
                      /\ \A k \in keys \ returned : ~Better(Reference(k), e)
=============================================================================
