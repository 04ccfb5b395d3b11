------------------------------ MODULE Delivery ------------------------------
(***************************************************************************)
(* How the MCP server delivers a memory record to several memory nodes: the *)
(* spool and the retry queue of retry-queue.ts, memoryRecord, #deliver,     *)
(* #drain and #retryEntry of router.ts.  One server process uses the state   *)
(* directory and its #exclusive operations do not overlap (module FileLock); *)
(* what they await outside of them does.  The two files an operation writes  *)
(* are written one after the other, and the process may die in between.      *)
(***************************************************************************)
EXTENDS Naturals, FiniteSets

CONSTANTS
    Calls,          \* memory_record tool calls
    Drain,          \* the retry worker
    Records,        \* record ids
    Contents,       \* what a record says
    Targets,        \* memory nodes
    Bodies,         \* tool inputs: a record, its content, the target nodes
    Configs,        \* the sets of nodes the server may be configured with
    Absent, NoBody,
    DrainLimit,     \* options.limit of a drain
    Outages,        \* the nodes that may become unreachable
    Refusers        \* the nodes that may refuse writes (401, 403, no project)

ASSUME DeliveryAssumption ==
    /\ Drain \notin Calls
    /\ Absent \notin Contents \cup [content : Contents, pending : SUBSET Targets]
    /\ Bodies \subseteq [record : Records, content : Contents, targets : (SUBSET Targets) \ {{}}]
    /\ NoBody \notin Bodies
    /\ Configs \subseteq SUBSET Targets
    /\ DrainLimit \in Nat \ {0}
    /\ Outages \cup Refusers \subseteq Targets

Pairs == Records \X Targets
Tasks == (Calls \cup {Drain}) \X Pairs

VARIABLES
    spool,      \* records/<id>.json
    queue,      \* retry-queue.json, as (record, node) pairs
    up, clients, draining,      \* the process, its nodes, #drainPromise
    body, answer,               \* each call and what it was told for each node
    task, carried,              \* each delivery attempt and the content it posts
    core, session, reachable, refusing,     \* the memory nodes
    accepted, refused           \* history: pairs spooled, pairs refused

fileVars    == <<spool, queue>>
processVars == <<up, clients, draining, task, carried>>
callVars    == <<body, answer>>
nodeVars    == <<core, session, reachable, refusing>>
historyVars == <<accepted, refused>>
vars        == <<fileVars, processVars, callVars, nodeVars, historyVars>>

Attempting == {"listed", "posting", "creating", "reposting"}
Removing   == {"stored", "refused", "missing"}
Keeping    == {"retry", "unavailable"}
Stages     == {"idle"} \cup Attempting \cup Removing \cup Keeping
Answers    == {"none", "stored", "pending", "failed", "error"}

PendingTargets(r) == IF spool[r] = Absent THEN {} ELSE spool[r].pending

SpoolPairs == {p \in Pairs : p[2] \in PendingTargets(p[1])}

\* #reconcileSpool at start: the queue is what the spool says.
NotReconciled == queue

Reconciled == SpoolPairs

Init ==
    /\ spool = [r \in Records |-> Absent]
    /\ queue = {}
    /\ up = TRUE
    /\ clients \in Configs
    /\ draining = FALSE
    /\ body = [c \in Calls |-> NoBody]
    /\ answer = [c \in Calls |-> [t \in Targets |-> "none"]]
    /\ task = [k \in Tasks |-> "idle"]
    /\ carried = [k \in Tasks |-> Absent]
    /\ core = [p \in Pairs |-> Absent]
    /\ session = {}
    /\ reachable = Targets
    /\ refusing = {}
    /\ accepted = {} /\ refused = {}

-----------------------------------------------------------------------------
\* The process dies: everything it was doing is gone.
Die ==
    /\ up' = FALSE
    /\ task' = [k \in Tasks |-> "idle"]
    /\ carried' = [k \in Tasks |-> Absent]
    /\ draining' = FALSE
    /\ UNCHANGED clients

\* The spool file enqueueRecord writes: a new one, or the union of the targets.
SpoolWith(b) ==
    [content |-> b.content, pending |-> PendingTargets(b.record) \cup b.targets]

\* An unfinished record with the same id and another payload.
SpoolCollision(b) == spool[b.record] # Absent /\ spool[b.record].content # b.content

PairsOf(b) == {b.record} \X b.targets

Arrive(c, b) ==
    /\ up /\ body[c] = NoBody /\ b.targets \subseteq clients
    /\ body' = [body EXCEPT ![c] = b]

\* memoryRecord: spool, then queue, then an attempt for every target at once.
Record(c, b) ==
    /\ Arrive(c, b)
    /\ ~SpoolCollision(b)
    /\ spool' = [spool EXCEPT ![b.record] = SpoolWith(b)]
    /\ queue' = queue \cup PairsOf(b)
    /\ task' = [k \in Tasks |-> IF k \in {c} \X PairsOf(b) THEN "posting" ELSE task[k]]
    /\ carried' = [k \in Tasks |-> IF k \in {c} \X PairsOf(b) THEN b.content ELSE carried[k]]
    /\ accepted' = accepted \cup PairsOf(b)
    /\ UNCHANGED <<up, clients, draining, answer, nodeVars, refused>>

RecordCollides(c, b) ==
    /\ Arrive(c, b)
    /\ SpoolCollision(b)
    /\ answer' = [answer EXCEPT ![c] = [t \in Targets |-> "error"]]
    /\ UNCHANGED <<fileVars, processVars, nodeVars, historyVars>>

\* The process dies between the spool file and the queue file.
RecordDies(c, b) ==
    /\ Arrive(c, b)
    /\ ~SpoolCollision(b)
    /\ spool' = [spool EXCEPT ![b.record] = SpoolWith(b)]
    /\ accepted' = accepted \cup PairsOf(b)
    /\ Die
    /\ UNCHANGED <<queue, answer, nodeVars, refused>>

\* #drain lists entries; #drainPromise keeps a second drain from starting.
DrainStart(S) ==
    /\ up /\ ~draining
    /\ S # {} /\ S \subseteq queue /\ Cardinality(S) <= DrainLimit
    /\ \A p \in S : task[<<Drain, p>>] = "idle"
    /\ draining' = TRUE
    /\ task' = [k \in Tasks |-> IF k \in {Drain} \X S THEN "listed" ELSE task[k]]
    /\ UNCHANGED <<fileVars, up, clients, carried, callVars, nodeVars, historyVars>>

\* #retryEntry reads the spool outside of #exclusive.
ReadRecord(p) ==
    LET k == <<Drain, p>> IN
    /\ up /\ task[k] = "listed"
    /\ task' = [task EXCEPT ![k] = IF spool[p[1]] = Absent THEN "missing"
                                   ELSE IF p[2] \notin clients THEN "unavailable"
                                   ELSE "posting"]
    /\ carried' = [carried EXCEPT ![k] = IF spool[p[1]] = Absent THEN Absent
                                         ELSE spool[p[1]].content]
    /\ UNCHANGED <<fileVars, up, clients, draining, callVars, nodeVars, historyVars>>

Posting(k) == up /\ task[k] \in {"posting", "reposting"}

\* ingest_records on the node: a repeated record is accepted, a changed one is not.
AcceptsAnyContent(k) == k[2][2] \in session \ refusing

Accepts(k) ==
    /\ k[2][2] \in session \ refusing
    /\ core[k[2]] \in {Absent, carried[k]}

Refuses(k) ==
    \/ k[2][2] \in refusing
    \/ k[2][2] \in session /\ core[k[2]] \notin {Absent, carried[k]}

\* The node stores the record; the answer gets through or is lost.
PostStored(k) ==
    /\ Posting(k) /\ Accepts(k)
    /\ core' = [core EXCEPT ![k[2]] = carried[k]]
    /\ task' = [task EXCEPT ![k] = IF k[2][2] \in reachable THEN "stored" ELSE "retry"]
    /\ UNCHANGED <<fileVars, up, clients, draining, carried, callVars,
                   session, reachable, refusing, accepted, refused>>

\* 408, 425, 429, 5xx, a timeout or a network error.
PostLost(k) ==
    /\ up /\ task[k] \in {"posting", "reposting", "creating"}
    /\ k[2][2] \notin reachable
    /\ task' = [task EXCEPT ![k] = "retry"]
    /\ UNCHANGED <<fileVars, up, clients, draining, carried, callVars, nodeVars, historyVars>>

\* Another 4xx, of the post or of the creation of the session.
PostRefused(k) ==
    /\ up /\ k[2][2] \in reachable
    /\ \/ task[k] \in {"posting", "reposting"} /\ Refuses(k)
       \/ task[k] = "creating" /\ k[2][2] \in refusing
    /\ task' = [task EXCEPT ![k] = "refused"]
    /\ refused' = refused \cup {k[2]}
    /\ UNCHANGED <<fileVars, up, clients, draining, carried, callVars, nodeVars, accepted>>

\* The first 404: #createMissingSession, then the post again.
SessionMissing(k) ==
    /\ up /\ task[k] = "posting"
    /\ k[2][2] \in reachable /\ k[2][2] \notin session \cup refusing
    /\ task' = [task EXCEPT ![k] = "creating"]
    /\ UNCHANGED <<fileVars, up, clients, draining, carried, callVars, nodeVars, historyVars>>

CreateSession(k) ==
    /\ up /\ task[k] = "creating" /\ k[2][2] \notin refusing
    /\ session' = session \cup {k[2][2]}
    /\ task' = [task EXCEPT ![k] = IF k[2][2] \in reachable THEN "reposting" ELSE "retry"]
    /\ UNCHANGED <<fileVars, up, clients, draining, carried, callVars,
                   core, reachable, refusing, historyVars>>

-----------------------------------------------------------------------------
\* What the caller of an attempt is told, unless its call has failed already; a
\* drain keeps its answer to itself.
Told(k, a) ==
    answer' = IF k[1] = Drain THEN answer
              ELSE [answer EXCEPT ![k[1]][k[2][2]] = IF @ = "error" THEN "error" ELSE a]

Finish(k) ==
    /\ task' = [task EXCEPT ![k] = "idle"]
    /\ carried' = [carried EXCEPT ![k] = Absent]
    /\ draining' = (draining /\ \E d \in Tasks : d # k /\ d[1] = Drain /\ task[d] # "idle")
    /\ UNCHANGED <<up, clients>>

\* resolve: the target leaves the spool file, the last one removes it.
SpoolRemoved(k) == [spool EXCEPT ![k[2][1]] = Absent]

SpoolWithout(k) ==
    LET left == PendingTargets(k[2][1]) \ {k[2][2]} IN
    [spool EXCEPT ![k[2][1]] =
        IF left = {} THEN Absent ELSE [content |-> @.content, pending |-> left]]

Resolve(k) ==
    /\ up /\ task[k] \in Removing
    /\ spool' = SpoolWithout(k)
    /\ queue' = queue \ {k[2]}
    /\ Told(k, IF task[k] = "stored" THEN "stored" ELSE "failed")
    /\ Finish(k)
    /\ UNCHANGED <<body, nodeVars, historyVars>>

\* The process dies between the spool file and the queue file.
ResolveDies(k) ==
    /\ up /\ task[k] \in Removing
    /\ spool' = SpoolWithout(k)
    /\ Die
    /\ UNCHANGED <<queue, callVars, nodeVars, historyVars>>

\* markPending: the entry is rescheduled.
MarkPending(k) ==
    /\ up /\ task[k] \in Keeping /\ k[2] \in queue
    /\ Told(k, "pending")
    /\ Finish(k)
    /\ UNCHANGED <<fileVars, body, nodeVars, historyVars>>

\* markPending throws "retry entry disappeared": the whole call or drain fails,
\* what it runs for other targets goes on.
EntryDisappeared(k) ==
    /\ up /\ task[k] \in Keeping /\ k[2] \notin queue
    /\ answer' = IF k[1] = Drain THEN answer
                 ELSE [answer EXCEPT ![k[1]] = [t \in Targets |-> "error"]]
    /\ task' = [task EXCEPT ![k] = "idle"]
    /\ carried' = [carried EXCEPT ![k] = Absent]
    /\ draining' = (draining /\ k[1] # Drain)
    /\ UNCHANGED <<fileVars, up, clients, body, nodeVars, historyVars>>

Crash ==
    /\ up
    /\ Die
    /\ UNCHANGED <<fileVars, callVars, nodeVars, historyVars>>

\* initialize, with the nodes of the configuration of the day.
Restart(C) ==
    /\ ~up
    /\ up' = TRUE
    /\ clients' = C
    /\ queue' = Reconciled
    /\ UNCHANGED <<spool, draining, task, carried, callVars, nodeVars, historyVars>>

Toggle(S, t) == IF t \in S THEN S \ {t} ELSE S \cup {t}

NodeChanges(t) ==
    /\ \/ t \in Outages /\ reachable' = Toggle(reachable, t) /\ UNCHANGED refusing
       \/ t \in Refusers /\ refusing' = Toggle(refusing, t) /\ UNCHANGED reachable
    /\ UNCHANGED <<fileVars, processVars, callVars, core, session, historyVars>>

Attempt(k) ==
    \/ PostStored(k) \/ PostLost(k) \/ PostRefused(k) \/ SessionMissing(k) \/ CreateSession(k)

Settle(k) == Resolve(k) \/ MarkPending(k) \/ EntryDisappeared(k)

Next ==
    \/ \E c \in Calls, b \in Bodies : Record(c, b) \/ RecordCollides(c, b) \/ RecordDies(c, b)
    \/ \E S \in SUBSET Pairs : DrainStart(S)
    \/ \E p \in Pairs : ReadRecord(p)
    \/ \E k \in Tasks : Attempt(k) \/ Settle(k) \/ ResolveDies(k)
    \/ Crash
    \/ \E C \in Configs : Restart(C)
    \/ \E t \in Targets : NodeChanges(t)

Spec == Init /\ [][Next]_vars

\* The event loop runs what is ready, requests end by their timeout, the process
\* is restarted, and the retry timer, which takes the longest-waiting entries
\* first, comes round to every entry that stays.
Fairness ==
    /\ \A k \in Tasks : WF_vars(Attempt(k)) /\ WF_vars(Settle(k))
    /\ \A p \in Pairs :
         /\ WF_vars(ReadRecord(p))
         /\ SF_vars(\E S \in SUBSET Pairs : p \in S /\ DrainStart(S))
    /\ WF_vars(\E C \in Configs : Restart(C))

FairSpec == Spec /\ Fairness

-----------------------------------------------------------------------------
Stored(p) == core[p] # Absent

\* Every variable has its type.
TypeOK ==
    /\ spool \in [Records -> [content : Contents, pending : (SUBSET Targets) \ {{}}] \cup {Absent}]
    /\ queue \subseteq Pairs
    /\ up \in BOOLEAN /\ draining \in BOOLEAN
    /\ clients \in Configs
    /\ body \in [Calls -> Bodies \cup {NoBody}]
    /\ answer \in [Calls -> [Targets -> Answers]]
    /\ task \in [Tasks -> Stages]
    /\ carried \in [Tasks -> Contents \cup {Absent}]
    /\ core \in [Pairs -> Contents \cup {Absent}]
    /\ session \subseteq Targets /\ reachable \subseteq Targets /\ refusing \subseteq Targets
    /\ accepted \subseteq Pairs /\ refused \subseteq Pairs

\* A spooled write survives crashes and concurrent resolves of other targets
\* until its node has stored it or refused it, and while the server runs the
\* queue, from which it is sent again, has what the spool has, whatever died
\* before.
DurableUntilDecided ==
    /\ \A p \in accepted : p \in SpoolPairs \/ Stored(p) \/ p \in refused
    /\ up => queue = SpoolPairs

\* A call that was told "stored" finds its own content on that node for good.
StoredIsStored ==
    \A c \in Calls, t \in Targets :
        answer[c][t] = "stored" => core[<<body[c].record, t>>] = body[c].content

\* Once a node is configured and reachable for good, everything spooled for it is
\* stored or refused: "Pending writes retry automatically when the process
\* starts and on a timer" (apps/mcp/README.md:70).
EventuallyDecided ==
    \A p \in Pairs :
        <>[](up /\ p[2] \in reachable \cap clients) =>
            (p \in SpoolPairs ~> p \notin SpoolPairs)

=============================================================================
