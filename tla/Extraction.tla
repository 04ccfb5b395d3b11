----------------------------- MODULE Extraction -----------------------------
(***************************************************************************)
(* _process_extract_claims of worker.py: executions of extraction jobs that *)
(* turn what the generation model returned into claims, their sources,      *)
(* embed_claim jobs and edges, each execution one database transaction at   *)
(* READ COMMITTED.  A job runs again, with another model output, when its    *)
(* worker died after the commit or lost its lease, so that executions of    *)
(* one job may also overlap (module JobQueue).                              *)
(*                                                                         *)
(* A candidate is [text, segment, edge]: its normalised content (Empty when *)
(* nothing is left of it), the segment its quote was found in or else the   *)
(* first one, and whether it yields an edge.                                *)
(***************************************************************************)
EXTENDS Integers, Sequences, FiniteSets, SequencesExt

CONSTANTS
    Executions,     \* executions of extraction jobs
    ExtractJobs,    \* extraction jobs, one for each record
    Spoken,         \* the jobs whose record a human or an agent wrote
    Texts,          \* normalised contents
    Empty,          \* the normalised content of a blank candidate
    Segments,       \* segments of a record
    Outputs,        \* what the model may return: sequences of candidates
    NoClaim

ExtractionAssumption ==
    /\ ExtractJobs # {}
    /\ Spoken \subseteq ExtractJobs
    /\ Empty \notin Texts
    /\ Outputs \subseteq Seq([text : Texts \cup {Empty}, segment : Segments, edge : BOOLEAN])

VARIABLES
    claims, sources, embeds, edges,     \* committed rows
    done,       \* jobs in state done
    phase,      \* how far each execution is
    job,        \* the job it executes
    output,     \* what the model returned to it
    at,         \* the candidate it is at: candidate_ordinal + 1
    target,     \* inserted_id for that candidate
    tx,         \* the rows it has written and not committed
    kept        \* history: executions that committed

tableVars     == <<claims, sources, embeds, edges>>
executionVars == <<phase, job, output, at, target, tx>>
vars          == <<tableVars, done, executionVars, kept>>

Phases == {"idle", "calling", "claiming", "sourcing", "committed", "ended"}

NoRows == [claims |-> {}, sources |-> {}, embeds |-> {}, edges |-> {}]

Candidate(e) == output[e][at[e]]

\* if not normalized: continue.
Blank(e) == Candidate(e).text = Empty

\* claim_id, a fresh uuid7 for every candidate of every execution.
OwnClaim(e) == <<e, at[e]>>

\* The unique keys of claims and of claim_sources.
Clash(k, e) ==
    \/ k.text = Candidate(e).text
    \/ k.job = job[e] /\ k.ordinal = at[e]

SameSource(s, e) ==
    s.claim = target[e] /\ s.record = job[e] /\ s.segment = Candidate(e).segment

\* An insert waits for a transaction that holds an uncommitted row with its key.
WaitsFor(e, f) ==
    /\ e # f
    /\ \/ /\ phase[e] = "claiming" /\ at[e] \in DOMAIN output[e]
          /\ \E k \in tx[f].claims : Clash(k, e)
       \/ phase[e] = "sourcing" /\ \E s \in tx[f].sources : SameSource(s, e)

Blocked(e) == \E f \in Executions : WaitsFor(e, f)

InDeadlock(e) ==
    \E C \in SUBSET Executions :
        /\ e \in C
        /\ \A f \in C : (\E g \in C : WaitsFor(f, g)) /\ (\E g \in C : WaitsFor(g, f))

\* The rows e sees: the committed ones and its own.
Visible(e) == claims \cup tx[e].claims

\* The row an insert that hit a conflict falls back on: the claim of this job at
\* this ordinal, else the claim with this text.
ExistingByOrdinal(e) ==
    LET atOrdinal == {k \in Visible(e) : k.ordinal = at[e]}
    IN  IF atOrdinal # {} THEN (CHOOSE k \in atOrdinal : TRUE).id
        ELSE (CHOOSE k \in Visible(e) : k.text = Candidate(e).text).id

Existing(e) ==
    LET atSlot == {k \in Visible(e) : k.job = job[e] /\ k.ordinal = at[e]}
    IN  IF atSlot # {} THEN (CHOOSE k \in atSlot : TRUE).id
        ELSE (CHOOSE k \in Visible(e) : k.text = Candidate(e).text).id

\* Only the execution that inserted a claim enqueues its embedding and its edge.
FirstCandidateInserted(e) == target[e] = OwnClaim(e) /\ at[e] = 1

InsertedHere(e) == target[e] = OwnClaim(e)

Init ==
    /\ claims = {} /\ sources = {} /\ embeds = {} /\ edges = {}
    /\ done = {}
    /\ phase = [e \in Executions |-> "idle"]
    /\ job = [e \in Executions |-> CHOOSE j \in ExtractJobs : TRUE]
    /\ output = [e \in Executions |-> <<>>]
    /\ at = [e \in Executions |-> 1]
    /\ target = [e \in Executions |-> NoClaim]
    /\ tx = [e \in Executions |-> NoRows]
    /\ kept = {}

-----------------------------------------------------------------------------
Enter(e, p) == phase' = [phase EXCEPT ![e] = p]

\* A worker that claimed j loads its record; tool output yields no claims.
Start(e, j) ==
    /\ phase[e] = "idle" /\ j \notin done
    /\ job' = [job EXCEPT ![e] = j]
    /\ Enter(e, IF j \in Spoken THEN "calling" ELSE "committed")
    /\ UNCHANGED <<tableVars, done, output, at, target, tx, kept>>

\* The model answers; the transaction begins.
Extracted(e, o) ==
    /\ phase[e] = "calling"
    /\ output' = [output EXCEPT ![e] = o]
    /\ Enter(e, "claiming")
    /\ UNCHANGED <<tableVars, done, job, at, target, tx, kept>>

SkipBlank(e) ==
    /\ phase[e] = "claiming" /\ at[e] \in DOMAIN output[e]
    /\ Blank(e)
    /\ at' = [at EXCEPT ![e] = @ + 1]
    /\ UNCHANGED <<tableVars, done, phase, job, output, target, tx, kept>>

\* INSERT INTO claims ... ON CONFLICT DO NOTHING, and the two selects after it.
UpsertClaim(e) ==
    /\ phase[e] = "claiming" /\ at[e] \in DOMAIN output[e]
    /\ ~Blank(e)
    /\ ~Blocked(e)
    /\ IF \E k \in Visible(e) : Clash(k, e)
       THEN target' = [target EXCEPT ![e] = Existing(e)] /\ UNCHANGED tx
       ELSE /\ target' = [target EXCEPT ![e] = OwnClaim(e)]
            /\ tx' = [tx EXCEPT ![e].claims = @ \cup
                        {[id |-> OwnClaim(e), job |-> job[e], ordinal |-> at[e],
                          text |-> Candidate(e).text]}]
    /\ Enter(e, "sourcing")
    /\ UNCHANGED <<tableVars, done, job, output, at, kept>>

\* The source of the claim and, for a claim this execution inserted, its embed
\* job and edge; all three ON CONFLICT DO NOTHING.
AddSource(e) ==
    /\ phase[e] = "sourcing" /\ ~Blocked(e)
    /\ tx' = [tx EXCEPT
         ![e].sources = IF \E s \in sources \cup tx[e].sources : SameSource(s, e) THEN @
                        ELSE @ \cup {[claim |-> target[e], record |-> job[e],
                                      segment |-> Candidate(e).segment,
                                      says |-> Candidate(e).text]},
         ![e].embeds = IF InsertedHere(e) THEN @ \cup {target[e]} ELSE @,
         ![e].edges = IF InsertedHere(e) /\ Candidate(e).edge THEN @ \cup {target[e]} ELSE @]
    /\ at' = [at EXCEPT ![e] = @ + 1]
    /\ Enter(e, "claiming")
    /\ UNCHANGED <<tableVars, done, job, output, target, kept>>

Commit(e) ==
    /\ phase[e] = "claiming" /\ at[e] > Len(output[e])
    /\ claims' = claims \cup tx[e].claims
    /\ sources' = sources \cup tx[e].sources
    /\ embeds' = embeds \cup tx[e].embeds
    /\ edges' = edges \cup tx[e].edges
    /\ tx' = [tx EXCEPT ![e] = NoRows]
    /\ kept' = kept \cup {e}
    /\ Enter(e, "committed")
    /\ UNCHANGED <<done, job, output, at, target>>

\* complete_job, in a transaction of its own.
Complete(e) ==
    /\ phase[e] = "committed"
    /\ done' = done \cup {job[e]}
    /\ Enter(e, "ended")
    /\ UNCHANGED <<tableVars, job, output, at, target, tx, kept>>

RollBack(e) ==
    /\ tx' = [tx EXCEPT ![e] = NoRows]
    /\ Enter(e, "ended")
    /\ UNCHANGED <<tableVars, done, job, output, at, target, kept>>

\* The worker dies, the model fails or the lease is lost: before the commit
\* nothing stays, after it only complete_job is missing.
Fail(e) == phase[e] \notin {"idle", "ended"} /\ RollBack(e)

\* PostgreSQL aborts one transaction of a cycle.
DeadlockAbort(e) == InDeadlock(e) /\ RollBack(e)

Next ==
    \E e \in Executions :
        \/ \E j \in ExtractJobs : Start(e, j)
        \/ \E o \in Outputs : Extracted(e, o)
        \/ SkipBlank(e) \/ UpsertClaim(e) \/ AddSource(e) \/ Commit(e)
        \/ Complete(e) \/ Fail(e) \/ DeadlockAbort(e)

Spec == Init /\ [][Next]_vars

-----------------------------------------------------------------------------
ClaimIds == {k.id : k \in claims}

ClaimRow == [id : Executions \X Nat, job : ExtractJobs, ordinal : Nat, text : Texts]

SourceRow == [claim : Executions \X Nat, record : ExtractJobs, segment : Segments, says : Texts]

Rows == [claims : SUBSET ClaimRow, sources : SUBSET SourceRow,
         embeds : SUBSET (Executions \X Nat), edges : SUBSET (Executions \X Nat)]

\* Every variable has its type.
TypeOK ==
    /\ claims \subseteq ClaimRow
    /\ sources \subseteq SourceRow
    /\ embeds \subseteq Executions \X Nat
    /\ edges \subseteq Executions \X Nat
    /\ done \subseteq ExtractJobs
    /\ phase \in [Executions -> Phases]
    /\ job \in [Executions -> ExtractJobs]
    /\ output \in [Executions -> Outputs \cup {<<>>}]
    /\ at \in [Executions -> Nat \ {0}]
    /\ target \in [Executions -> (Executions \X Nat) \cup {NoClaim}]
    /\ tx \in [Executions -> Rows]
    /\ kept \subseteq Executions

\* Every claim was stated by the record it was extracted from and will be
\* embedded; sources, embed jobs and edges belong to claims that exist, although
\* replays and other jobs keep adding to claims they did not insert.
ClaimsBacked ==
    /\ \A k \in claims :
         \E s \in sources : s.claim = k.id /\ s.record = k.job /\ s.says = k.text
    /\ {s.claim : s \in sources} \subseteq ClaimIds
    /\ embeds = ClaimIds
    /\ edges \subseteq ClaimIds

\* Of every job that committed, one committed execution is represented in full:
\* each of its candidates has a claim with its text that cites its segment.
OneOutputKept ==
    \A e \in kept :
        \E f \in kept :
            /\ job[f] = job[e]
            /\ \A n \in DOMAIN output[f] :
                 output[f][n].text # Empty =>
                    \E k \in claims, s \in sources :
                        /\ k.text = output[f][n].text
                        /\ s.claim = k.id /\ s.record = job[f]
                        /\ s.segment = output[f][n].segment

=============================================================================
