------------------------------- MODULE Ingest -------------------------------
(***************************************************************************)
(* ingest_records of services.py under the two records:batch handlers of    *)
(* app.py: concurrent HTTP requests, each one database transaction at READ  *)
(* COMMITTED.  A request that timed out at its client keeps running, so a   *)
(* retry is simply another request with the same body.                      *)
(*                                                                         *)
(* A record stands for its row, its segments and its two jobs: one flush    *)
(* writes them and no other code inserts them.  An author and the embedding *)
(* profile are rows upserted with ON CONFLICT DO NOTHING.                   *)
(***************************************************************************)
EXTENDS Integers, Sequences, FiniteSets, SequencesExt, Selection

CONSTANTS
    Requests,   \* HTTP requests, each served once
    NoRequest,  \* nobody holds the lock of a session
    Sessions,   \* rows of the table sessions
    Ids,        \* record ids clients choose
    Contents,   \* record contents (told apart by their hash)
    Authors,    \* external keys of authors
    Profile,    \* name of the embedding profile
    Bodies,     \* request bodies: a session and items with distinct ids
    Absent      \* a record id that is not in the table

ASSUME IngestAssumption ==
    /\ NoRequest \notin Requests
    /\ Bodies # {}
    /\ Absent \notin [session : Sessions, content : Contents, seq : Nat]
    /\ \A b \in Bodies :
         /\ b.items \in Seq([id : Ids, content : Contents, author : Authors])
         /\ b.items # <<>>
         /\ \A m, n \in DOMAIN b.items : b.items[m].id = b.items[n].id => m = n

VARIABLES
    nextSeq,    \* sessions.next_record_sequence, committed
    lock,       \* who holds the row lock of the session
    record,     \* the table records, committed
    upserted,   \* authors and profile, committed
    phase,      \* how far each request is
    body,       \* what it was sent with
    base,       \* the next_record_sequence it read
    prior,      \* the ids of its batch it found in the table
    step,       \* the next row to upsert or to insert
    receipt     \* the answer of a request that committed

tableVars   == <<nextSeq, lock, record, upserted>>
requestVars == <<phase, body, base, prior, step, receipt>>
vars        == <<tableVars, requestVars>>

Active   == {"locked", "upserting", "writing", "written"}
Refusals == {"missing", "conflict", "collision", "deadlock", "crashed"}
Phases   == {"idle", "queued"} \cup Active \cup {"created"} \cup Refusals

NoBody == CHOOSE b \in Bodies : TRUE

Items(q) == body[q].items

\* The items without a prior record, in batch order.
Fresh(q) == Chosen(Items(q), {n \in DOMAIN Items(q) : Items(q)[n].id \notin prior[q]})

\* next_sequence counts the new items only.
SequenceReversed(q, n) == base[q] + Len(Fresh(q)) - n

Sequence(q, n) == base[q] + n - 1

NextSequence(q) == base[q] + Len(Fresh(q))

\* ensure_embedding_profile, then _resolve_author for each new item.
Upserts(q) == <<Profile>> \o [n \in DOMAIN Fresh(q) |-> Fresh(q)[n].author]

\* The unique keys of the n-th row the flush inserts: records.id and
\* uq_records_session_sequence.
RowKeys(q, n) ==
    {<<"id", Fresh(q)[n].id>>, <<"sequence", body[q].session, Sequence(q, n)>>}

StoredKeys ==
    LET stored == {r \in Ids : record[r] # Absent}
    IN  {<<"id", r>> : r \in stored}
        \cup {<<"sequence", record[r].session, record[r].seq>> : r \in stored}

\* Rows a transaction has written and not committed: others wait for them.
HeldUpserts(q) ==
    CASE phase[q] = "upserting" -> {Upserts(q)[n] : n \in 1 .. (step[q] - 1)} \ upserted
      [] phase[q] \in {"writing", "written"} -> ToSet(Upserts(q)) \ upserted
      [] OTHER -> {}

HeldKeys(q) ==
    CASE phase[q] = "writing" -> UNION {RowKeys(q, n) : n \in 1 .. (step[q] - 1)}
      [] phase[q] = "written" -> UNION {RowKeys(q, n) : n \in DOMAIN Fresh(q)}
      [] OTHER -> {}

\* q's next statement waits for the end of p's transaction.
WaitsFor(q, p) ==
    /\ p # q
    /\ \/ phase[q] = "queued" /\ body[q].session \in Sessions /\ lock[body[q].session] = p
       \/ /\ phase[q] = "upserting" /\ step[q] \in DOMAIN Upserts(q)
          /\ Upserts(q)[step[q]] \in HeldUpserts(p)
       \/ /\ phase[q] = "writing" /\ step[q] \in DOMAIN Fresh(q)
          /\ RowKeys(q, step[q]) \cap HeldKeys(p) # {}

Blocked(q) == \E p \in Requests : WaitsFor(q, p)

\* The cycle PostgreSQL's deadlock detector looks for.
InDeadlock(q) ==
    \E C \in SUBSET Requests :
        /\ q \in C
        /\ \A p \in C : (\E r \in C : WaitsFor(p, r)) /\ (\E r \in C : WaitsFor(r, p))

\* The rows of the batch already in the table that are not the same record.
ConflictsOnScope(q) ==
    {i \in ToSet(Items(q)) : record[i.id] # Absent /\ record[i.id].session # body[q].session}

Conflicts(q) ==
    {i \in ToSet(Items(q)) :
        /\ record[i.id] # Absent
        /\ \/ record[i.id].content # i.content
           \/ record[i.id].session # body[q].session}

Init ==
    /\ nextSeq = [s \in Sessions |-> 1]
    /\ lock = [s \in Sessions |-> NoRequest]
    /\ record = [r \in Ids |-> Absent]
    /\ upserted = {}
    /\ phase = [q \in Requests |-> "idle"]
    /\ body = [q \in Requests |-> NoBody]
    /\ base = [q \in Requests |-> 0]
    /\ prior = [q \in Requests |-> {}]
    /\ step = [q \in Requests |-> 0]
    /\ receipt = [q \in Requests |-> <<>>]

-----------------------------------------------------------------------------
Enter(q, p) == phase' = [phase EXCEPT ![q] = p]

\* The transaction ends and the row locks it holds go with it.
Release(q) == lock' = [s \in Sessions |-> IF lock[s] = q THEN NoRequest ELSE lock[s]]

\* The request fails: nothing it wrote stays.
RollBack(q, refusal) ==
    /\ Enter(q, refusal)
    /\ Release(q)
    /\ UNCHANGED <<nextSeq, record, upserted, body, base, prior, step, receipt>>

Send(q, b) ==
    /\ phase[q] = "idle"
    /\ Enter(q, "queued")
    /\ body' = [body EXCEPT ![q] = b]
    /\ UNCHANGED <<tableVars, base, prior, step, receipt>>

\* SELECT ... FOR UPDATE finds no such session: 404.
SessionMissing(q) ==
    /\ phase[q] = "queued" /\ body[q].session \notin Sessions
    /\ RollBack(q, "missing")

\* SELECT ... FOR UPDATE on the session, once nobody else holds it.
LockUnlocked(q) == TRUE

LockGranted(q) == lock[body[q].session] = NoRequest

LockSession(q) ==
    /\ phase[q] = "queued" /\ body[q].session \in Sessions
    /\ LockGranted(q)
    /\ Enter(q, "locked")
    /\ lock' = [lock EXCEPT ![body[q].session] = q]
    /\ base' = [base EXCEPT ![q] = nextSeq[body[q].session]]
    /\ UNCHANGED <<nextSeq, record, upserted, body, prior, step, receipt>>

\* The select of existing records, and RecordConflictError: 409.
ReadExisting(q) ==
    /\ phase[q] = "locked"
    /\ IF Conflicts(q) # {}
       THEN RollBack(q, "conflict")
       ELSE /\ Enter(q, "upserting")
            /\ prior' = [prior EXCEPT ![q] =
                            {i.id : i \in {i \in ToSet(Items(q)) : record[i.id] # Absent}}]
            /\ step' = [step EXCEPT ![q] = 1]
            /\ UNCHANGED <<tableVars, body, base, receipt>>

\* INSERT ... ON CONFLICT DO NOTHING of the profile or of an author.
Upsert(q) ==
    /\ phase[q] = "upserting" /\ ~Blocked(q)
    /\ IF step[q] < Len(Upserts(q))
       THEN step' = [step EXCEPT ![q] = @ + 1] /\ UNCHANGED phase
       ELSE step' = [step EXCEPT ![q] = 1] /\ Enter(q, "writing")
    /\ UNCHANGED <<tableVars, body, base, prior, receipt>>

\* The flush inserts the next new record, or meets a committed row: 500.
InsertRecord(q) ==
    /\ phase[q] = "writing" /\ step[q] \in DOMAIN Fresh(q) /\ ~Blocked(q)
    /\ IF RowKeys(q, step[q]) \cap StoredKeys # {}
       THEN RollBack(q, "collision")
       ELSE /\ step' = [step EXCEPT ![q] = @ + 1]
            /\ UNCHANGED <<tableVars, phase, body, base, prior, receipt>>

\* The rest of the flush: next_record_sequence of the locked session.
FlushDone(q) ==
    /\ phase[q] = "writing" /\ step[q] > Len(Fresh(q))
    /\ Enter(q, "written")
    /\ UNCHANGED <<tableVars, body, base, prior, step, receipt>>

\* The row the n-th new item becomes.
NewRecord(q, n) ==
    [session |-> body[q].session, content |-> Fresh(q)[n].content, seq |-> Sequence(q, n)]

PositionIn(items, r) == CHOOSE n \in DOMAIN items : items[n].id = r

FreshIds(q) == {i.id : i \in ToSet(Fresh(q))}

\* What the receipt says of an item.
Receipt(q, r) ==
    [seq |-> IF r \in prior[q] THEN record[r].seq ELSE Sequence(q, PositionIn(Fresh(q), r)),
     created |-> r \notin prior[q]]

\* The handler commits, then answers 201.
Commit(q) ==
    /\ phase[q] = "written"
    /\ Enter(q, "created")
    /\ Release(q)
    /\ record' = [r \in Ids |-> IF r \in FreshIds(q)
                                THEN NewRecord(q, PositionIn(Fresh(q), r)) ELSE record[r]]
    /\ nextSeq' = [nextSeq EXCEPT ![body[q].session] = NextSequence(q)]
    /\ upserted' = upserted \cup ToSet(Upserts(q))
    /\ receipt' = [receipt EXCEPT ![q] =
                      [r \in {i.id : i \in ToSet(Items(q))} |-> Receipt(q, r)]]
    /\ UNCHANGED <<body, base, prior, step>>

\* PostgreSQL aborts one transaction of a cycle: 500.
DeadlockAbort(q) ==
    /\ InDeadlock(q)
    /\ RollBack(q, "deadlock")

\* The process or its database connection dies in the middle of a request.
Crash(q) ==
    /\ phase[q] \in Active
    /\ RollBack(q, "crashed")

Next ==
    \/ \E q \in Requests, b \in Bodies : Send(q, b)
    \/ \E q \in Requests :
         \/ SessionMissing(q) \/ LockSession(q) \/ ReadExisting(q)
         \/ Upsert(q) \/ InsertRecord(q) \/ FlushDone(q) \/ Commit(q)
         \/ DeadlockAbort(q) \/ Crash(q)

Spec == Init /\ [][Next]_vars

-----------------------------------------------------------------------------
Stored(s) == {r \in Ids : record[r] # Absent /\ record[r].session = s}

Reuses(q, p) ==
    \E i \in ToSet(Items(q)), k \in ToSet(Items(p)) :
        /\ i.id = k.id
        /\ i.content # k.content \/ body[q].session # body[p].session

\* Every variable has its type.
TypeOK ==
    /\ nextSeq \in [Sessions -> Nat \ {0}]
    /\ lock \in [Sessions -> Requests \cup {NoRequest}]
    /\ record \in [Ids -> [session : Sessions, content : Contents, seq : Nat \ {0}] \cup {Absent}]
    /\ upserted \subseteq Authors \cup {Profile}
    /\ phase \in [Requests -> Phases]
    /\ body \in [Requests -> Bodies]
    /\ base \in [Requests -> Nat]
    /\ prior \in [Requests -> SUBSET Ids]
    /\ step \in [Requests -> Nat]
    /\ DOMAIN receipt = Requests

\* The records of a session carry the sequences 1 .. next_record_sequence - 1,
\* each one once: concurrent, failed and repeated batches leave no gap.
Gapless ==
    \A s \in Sessions :
        /\ {record[r].seq : r \in Stored(s)} = 1 .. (nextSeq[s] - 1)
        /\ \A r1, r2 \in Stored(s) : record[r1].seq = record[r2].seq => r1 = r2

\* What a 201 said stays true: every item of the batch is in the table, in the
\* session and with the content that was sent, at the sequence of the receipt;
\* and every record was reported as created by exactly one answer, however often
\* its batch was sent.
ReceiptsHold ==
    /\ \A q \in Requests : phase[q] = "created" =>
         \A i \in ToSet(Items(q)) :
             record[i.id] = [session |-> body[q].session, content |-> i.content,
                             seq |-> receipt[q][i.id].seq]
    /\ \A r \in Ids : record[r] # Absent =>
         Cardinality({q \in Requests : /\ phase[q] = "created"
                                       /\ r \in DOMAIN receipt[q]
                                       /\ receipt[q][r].created}) = 1

\* A client that never reuses an id for other content or another session is
\* refused neither by a 409 nor by a unique violation: a retry that races the
\* request it repeats waits for it and then finds its records.
HonestNotRefused ==
    \A q \in Requests : phase[q] \in {"conflict", "collision"} =>
        \E p \in Requests : Reuses(q, p)

\* The table read as the log of RecordLog: the records of a session by sequence.
LogOf(s) ==
    [n \in 1 .. (nextSeq[s] - 1) |->
        LET r == CHOOSE r \in Stored(s) : record[r].seq = n
        IN  [id |-> r, content |-> record[r].content]]

Log == INSTANCE RecordLog WITH
           log <- [s \in Sessions |-> LogOf(s)],
           Bodies <- {[session |-> b.session,
                       items |-> [n \in DOMAIN b.items |->
                                    [id |-> b.items[n].id, content |-> b.items[n].content]]]
                      : b \in Bodies}

\* Whatever interleaves, the committed tables are RecordLog's append-only logs:
\* the sequences number them without a gap, and each commit appends a batch.
ImplementsLog == []Gapless /\ Log!LogSpec
=============================================================================
