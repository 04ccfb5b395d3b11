------------------------------ MODULE LocalHost ------------------------------
(***************************************************************************)
(* What the processes of one host settle through its file system: the lock   *)
(* of the retry queue (FileLock), the two locks of the Node Manager           *)
(* (HostLocks), its child processes (CodexRuns) and its file of folders       *)
(* (FolderSources).  The four share no file and no variable, so that any      *)
(* behaviour of all is, seen from one of them, a behaviour of that one with   *)
(* the others at rest: each behaviour here lets one of them act.              *)
(***************************************************************************)
EXTENDS FileLock

CONSTANTS
    Procs, Nobody, MaxDeaths,                               \* HostLocks
    Generations, Statuses,                                  \* CodexRuns
    Contexts, Folders, NoFolder, Picks, Detaches, MaxIds    \* FolderSources

VARIABLES
    kind, lock, step, running, socket, port, rivals,
    server, client, call, child, verdict, runDir, sentenced,
    store, pickerActive, writeQueue, loaded, folderReq, lastId,
    side    \* the part that acts

Locks   == INSTANCE HostLocks
Runs    == INSTANCE CodexRuns
Sources == INSTANCE FolderSources

ASSUME LocalHostAssumption ==
    Locks!HostLocksAssumption /\ Runs!CodexAssumption /\ Sources!FolderAssumption

locksVars  == <<kind, lock, step, running, socket, port, rivals>>
runsVars   == <<server, client, call, child, verdict, runDir, sentenced>>
sourceVars == <<store, pickerActive, writeQueue, loaded, folderReq, lastId>>

Sides == {"queue", "locks", "codex", "folders"}

HostInit ==
    /\ Init /\ Locks!LocksInit /\ Runs!CodexInit /\ Sources!FolderInit
    /\ side \in Sides
    /\ side # "locks" => kind = "node"

HostNext ==
    \/ side = "queue" /\ Next /\ UNCHANGED <<locksVars, runsVars, sourceVars, side>>
    \/ side = "locks" /\ Locks!LocksNext /\ UNCHANGED <<vars, runsVars, sourceVars, side>>
    \/ side = "codex" /\ Runs!CodexNext /\ UNCHANGED <<vars, locksVars, sourceVars, side>>
    \/ side = "folders" /\ Sources!FolderNext /\ UNCHANGED <<vars, locksVars, runsVars, side>>

HostSpec == HostInit /\ [][HostNext]_<<vars, locksVars, runsVars, sourceVars, side>> /\ Fairness

-----------------------------------------------------------------------------
\* One lifecycle operation per Node and one daemon per home directory
\* (withNodeLock, acquireInstanceLock).
OneInside == Locks!OneInside

\* Nothing the daemon started outlives it; a generation is answered when its
\* child has ended (LocalCodexProvider.close, generateJson).
LeavesNothing == Runs!LeavesNothing

\* "one canonical folder cannot be connected to a different principal or
\* Project" (folder-sources.test.ts:120), whatever picks and detaches overlap,
\* and none of them undoes another's change: a request that saves what it loaded
\* saves the file as it is, but for its own Project's source.
FoldersHold == [][store' # store => Sources!WriteIsOneChange]_sourceVars
=============================================================================
