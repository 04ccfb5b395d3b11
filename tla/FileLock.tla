------------------------------ MODULE FileLock ------------------------------
(***************************************************************************)
(* The lock directory of the MCP server's retry queue: #exclusive and       *)
(* #acquireFileLock of retry-queue.ts.  Several queue instances, each in a  *)
(* process of its own, share one state directory; under the lock each of    *)
(* them reads retry-queue.json, adds an entry and writes the file back.     *)
(* Every step is one file system call (atomicJsonWrite counts as one).      *)
(***************************************************************************)
EXTENDS Naturals, FiniteSets

CONSTANTS
    Instances,      \* queue instances, each making one exclusive operation
    NoOwner,        \* a lock directory without an owner.json
    NoDir,          \* there is no lock directory
    MaxCrashes      \* bound: processes that die

ASSUME FileLockAssumption ==
    /\ NoOwner \notin Instances
    /\ NoDir \notin [by : Instances, owner : Instances \cup {NoOwner}, old : BOOLEAN]
    /\ MaxCrashes \in Nat

VARIABLES
    dir,        \* the lock directory: who made it, owner.json, older than 5 s
    pc,         \* the next step of each instance
    alive,      \* is its process running
    sawOld,     \* what stat said of the age of the directory
    entries,    \* the entries it read from retry-queue.json
    queue,      \* retry-queue.json, as the set of instances whose entry is in it
    robbed      \* history: the directory of a process that is alive was reclaimed

vars == <<dir, pc, alive, sawOld, entries, queue, robbed>>

Critical == {"read", "write", "release"}
Waiting  == {"mkdir", "stat", "owner?", "steal"}
Steps    == {"idle"} \cup Waiting \cup {"owning"} \cup Critical \cup {"remove", "done", "failed"}

Init ==
    /\ dir = NoDir
    /\ pc = [p \in Instances |-> "idle"]
    /\ alive = [p \in Instances |-> TRUE]
    /\ sawOld = [p \in Instances |-> FALSE]
    /\ entries = [p \in Instances |-> {}]
    /\ queue = {} /\ robbed = FALSE

-----------------------------------------------------------------------------
At(p, step) == alive[p] /\ pc[p] = step

Goto(p, step) == pc' = [pc EXCEPT ![p] = step]

Begin(p) ==
    /\ At(p, "idle")
    /\ Goto(p, "mkdir")
    /\ UNCHANGED <<dir, alive, sawOld, entries, queue, robbed>>

\* mkdir without recursive: EEXIST while there is a lock directory.
MkdirRecursive == TRUE

MkdirSucceeds == dir = NoDir

Mkdir(p) ==
    /\ At(p, "mkdir")
    /\ IF MkdirSucceeds
       THEN /\ dir' = [by |-> p, owner |-> NoOwner, old |-> FALSE]
            /\ Goto(p, "owning")
       ELSE Goto(p, "stat") /\ UNCHANGED dir
    /\ UNCHANGED <<alive, sawOld, entries, queue, robbed>>

\* atomicJsonWrite of owner.json makes the directory again if it is gone, and
\* touches it if it is there.
WriteOwner(p) ==
    /\ At(p, "owning")
    /\ dir' = IF dir = NoDir THEN [by |-> p, owner |-> p, old |-> FALSE]
              ELSE [dir EXCEPT !.owner = p, !.old = FALSE]
    /\ Goto(p, "read")
    /\ UNCHANGED <<alive, sawOld, entries, queue, robbed>>

\* ... or fails, and the directory is removed before the error is thrown.
WriteOwnerFails(p) ==
    /\ At(p, "owning")
    /\ dir' = NoDir
    /\ Goto(p, "failed")
    /\ UNCHANGED <<alive, sawOld, entries, queue, robbed>>

\* stat of the directory that was in the way.
Stat(p) ==
    /\ At(p, "stat")
    /\ IF dir = NoDir
       THEN Goto(p, "mkdir") /\ UNCHANGED sawOld
       ELSE sawOld' = [sawOld EXCEPT ![p] = dir.old] /\ Goto(p, "owner?")
    /\ UNCHANGED <<dir, alive, entries, queue, robbed>>

\* processIsAlive on the pid in owner.json; no pid counts as alive.
OwnerIsDead == dir # NoDir /\ dir.owner # NoOwner /\ ~alive[dir.owner]

\* The pid alone: a lock whose maker died before it wrote owner.json never ends.
StaleByPidOnly(p) == OwnerIsDead

Stale(p) == OwnerIsDead \/ sawOld[p]

ReadOwner(p) ==
    /\ At(p, "owner?")
    /\ Goto(p, IF Stale(p) THEN "steal" ELSE "mkdir")
    /\ sawOld' = [sawOld EXCEPT ![p] = FALSE]
    /\ UNCHANGED <<dir, alive, entries, queue, robbed>>

\* rename of whatever directory is there now to a name of its own, and rm.
Steal(p) ==
    /\ At(p, "steal")
    /\ dir' = NoDir
    /\ robbed' = (robbed \/ (dir # NoDir /\ alive[dir.by]))
    /\ Goto(p, "mkdir")
    /\ UNCHANGED <<alive, sawOld, entries, queue>>

\* 30 seconds of waiting.
TimeOut(p) ==
    /\ alive[p] /\ pc[p] \in {"stat", "owner?"}
    /\ Goto(p, "failed")
    /\ sawOld' = [sawOld EXCEPT ![p] = FALSE]
    /\ UNCHANGED <<dir, alive, entries, queue, robbed>>

\* The operation under the lock.
ReadQueue(p) ==
    /\ At(p, "read")
    /\ entries' = [entries EXCEPT ![p] = queue]
    /\ Goto(p, "write")
    /\ UNCHANGED <<dir, alive, sawOld, queue, robbed>>

WithEntry(p) == entries[p] \cup {p}

WriteQueue(p) ==
    /\ At(p, "write")
    /\ queue' = WithEntry(p)
    /\ entries' = [entries EXCEPT ![p] = {}]
    /\ Goto(p, "release")
    /\ UNCHANGED <<dir, alive, sawOld, robbed>>

\* Read owner.json and compare, then rm -rf: two calls.
OwnsDir(p) == dir # NoDir /\ dir.owner = p

Release(p) ==
    /\ At(p, "release")
    /\ Goto(p, IF OwnsDir(p) THEN "remove" ELSE "done")
    /\ UNCHANGED <<dir, alive, sawOld, entries, queue, robbed>>

Remove(p) ==
    /\ At(p, "remove")
    /\ dir' = NoDir
    /\ Goto(p, "done")
    /\ UNCHANGED <<alive, sawOld, entries, queue, robbed>>

Crash(p) ==
    /\ alive[p] /\ pc[p] \notin {"idle", "done", "failed"}
    /\ Cardinality({q \in Instances : ~alive[q]}) < MaxCrashes
    /\ alive' = [alive EXCEPT ![p] = FALSE]
    /\ UNCHANGED <<dir, pc, sawOld, entries, queue, robbed>>

\* The directory gets older than 5 seconds, whether the process that made it has
\* died or is slow.
Age ==
    /\ dir # NoDir /\ ~dir.old
    /\ dir' = [dir EXCEPT !.old = TRUE]
    /\ UNCHANGED <<pc, alive, sawOld, entries, queue, robbed>>

Act(p) ==
    \/ Begin(p) \/ Mkdir(p) \/ WriteOwner(p) \/ WriteOwnerFails(p)
    \/ Stat(p) \/ ReadOwner(p) \/ Steal(p) \/ TimeOut(p)
    \/ ReadQueue(p) \/ WriteQueue(p) \/ Release(p) \/ Remove(p)

Next ==
    \/ \E p \in Instances : Act(p) \/ Crash(p)
    \/ Age

Spec == Init /\ [][Next]_vars

\* A live process takes its steps, and time passes.  TimeOut is left unfair: the
\* wait is shown to end without it.
Fairness ==
    /\ \A p \in Instances :
         /\ WF_vars(Mkdir(p) \/ Stat(p) \/ ReadOwner(p) \/ Steal(p))
         /\ WF_vars(WriteOwner(p) \/ ReadQueue(p) \/ WriteQueue(p) \/ Release(p) \/ Remove(p))
         /\ SF_vars(Mkdir(p) /\ MkdirSucceeds)
    /\ WF_vars(Age)

FairSpec == Spec /\ Fairness

-----------------------------------------------------------------------------
\* Every variable has its type.
TypeOK ==
    /\ dir \in [by : Instances, owner : Instances \cup {NoOwner}, old : BOOLEAN] \cup {NoDir}
    /\ pc \in [Instances -> Steps]
    /\ alive \in [Instances -> BOOLEAN]
    /\ sawOld \in [Instances -> BOOLEAN]
    /\ entries \in [Instances -> SUBSET Instances]
    /\ queue \subseteq Instances /\ robbed \in BOOLEAN

\* "two queue instances do not lose concurrent durable entries"
\* (router.test.ts:799), although waiters look at the directory while its
\* owner.json is written and removed, and reclaim what dead processes left: of the
\* processes that are alive at most one is between the owner.json it wrote and its
\* release, the directory it will remove is its own, and the entries that were
\* written stay in the file.  All that can break it is that a waiter reclaims the
\* directory of a process that is alive: one that is older than 5 seconds, or that
\* was made after the waiter had judged the one before it.
MutualExclusion ==
    ~robbed =>
        /\ \A p, q \in Instances :
             alive[p] /\ pc[p] \in Critical /\ alive[q] /\ pc[q] \in Critical => p = q
        /\ \A p \in Instances : At(p, "remove") => dir # NoDir /\ dir.owner = p
        /\ \A p \in Instances : pc[p] \in {"release", "remove", "done"} => p \in queue

\* A lock left behind by a dead process does not stop the others: whoever waits
\* gets the lock, or gave up on an error of its own.
WaitersServed ==
    \A p \in Instances : pc[p] = "mkdir" ~> (pc[p] \in {"done", "failed"} \/ ~alive[p])
=============================================================================
