----------------------------- MODULE CoreMemory -----------------------------
(***************************************************************************)
(* The two kinds of transactions that build the Core's memory: batches of   *)
(* records (Ingest) and the claims extracted from them (Extraction).  They  *)
(* write different tables, and an extraction works on records that do not   *)
(* change any more, so that any behaviour of both is, seen from one, a      *)
(* behaviour of that one with the other at rest: each behaviour here lets   *)
(* one kind act, and its properties are about that kind alone.              *)
(***************************************************************************)
EXTENDS Ingest

CONSTANTS Executions, ExtractJobs, Spoken, Texts, Empty, Segments, Outputs, NoClaim

VARIABLES
    claims, sources, embeds, edges, done, execution, job, output, at, target, tx, kept,
    \* ... the variables of Extraction
    kind            \* the kind of transactions that run

extractionVars == <<claims, sources, embeds, edges, done, execution, job, output, at, target, tx, kept>>

Extract == INSTANCE Extraction WITH phase <- execution

ASSUME MemoryAssumption == Extract!ExtractionAssumption

MemoryInit == Init /\ Extract!Init /\ kind \in {"ingest", "extract"}

MemoryNext ==
    \/ kind = "ingest" /\ Next /\ UNCHANGED <<extractionVars, kind>>
    \/ kind = "extract" /\ Extract!Next /\ UNCHANGED <<vars, kind>>

MemorySpec == MemoryInit /\ [][MemoryNext]_<<vars, extractionVars, kind>>

-----------------------------------------------------------------------------
\* Every claim was stated by the record it was extracted from and will be
\* embedded; sources, embed jobs and edges belong to claims that exist, although
\* replays and other jobs keep adding to claims they did not insert
\* (_process_extract_claims).
ClaimsBacked == Extract!ClaimsBacked

\* Of every extraction job that committed, one committed execution is represented
\* in full, whichever answers the model gave to its replays.
OneOutputKept == Extract!OneOutputKept
=============================================================================
