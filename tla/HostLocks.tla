------------------------------ MODULE HostLocks ------------------------------
(***************************************************************************)
(* The two lock directories of the Node Manager: the lock of a Node         *)
(* (withNodeLock of state.ts), under which one lifecycle operation runs, and *)
(* the instance lock of the daemon (admin-server.ts), under which it takes   *)
(* the TCP port and the socket.  The protocol is written twice, with small   *)
(* differences.  Every step is one file system or network call.              *)
(***************************************************************************)
EXTENDS Naturals, FiniteSets

CONSTANTS
    Procs,      \* processes: daemons being started, or callers of one Node
    Nobody,     \* no owner file, no lock, no socket, nobody listening
    MaxDeaths   \* bound: processes that die

HostLocksAssumption == Nobody \notin Procs /\ MaxDeaths \in Nat

VARIABLES
    kind,       \* which of the two locks this is
    lock,       \* the directory: who made it, the pid in it, under 30 s old
    step,       \* the next step of each process
    running,    \* is the process alive
    socket,     \* who bound the socket file last, if there is one
    port,       \* who listens on the TCP port
    rivals      \* history: two processes were taking over at the same time

lockVars == <<kind, lock, step, running, socket, port, rivals>>

NoLock == [by |-> Nobody, pid |-> Nobody, young |-> FALSE]

\* From the verdict that the lock is dead to the second mkdir.
TakingOver == {"judged", "rm"}

LocksInit ==
    /\ kind \in {"node", "instance"}
    /\ lock = NoLock
    /\ step = [p \in Procs |-> "idle"]
    /\ running = [p \in Procs |-> TRUE]
    /\ socket = Nobody /\ port = Nobody
    /\ rivals = FALSE

-----------------------------------------------------------------------------
At(p, s) == running[p] /\ step[p] = s

Go(p, s) == step' = [step EXCEPT ![p] = s]

TheLockOnly == UNCHANGED <<kind, running, socket, port, rivals>>

Made(p) == lock' = [by |-> p, pid |-> Nobody, young |-> TRUE]

\* mkdir, the first time.
TryLock(p) ==
    /\ At(p, "idle")
    /\ IF lock = NoLock THEN Made(p) /\ Go(p, "mine") ELSE Go(p, "taken") /\ UNCHANGED lock
    /\ TheLockOnly

AnotherTakesOver(p) == \E q \in Procs \ {p} : running[q] /\ step[q] \in TakingOver

\* The owner file of the directory that was in the way: a live owner ends the
\* attempt.  The Node's lock is removed on the word of a dead owner alone; the
\* daemon looks at the age in any case, which fails if the directory has gone.
ReadPid(p) ==
    /\ At(p, "taken")
    /\ LET dead == lock.pid # Nobody /\ ~running[lock.pid]
       IN /\ Go(p, IF lock.pid = Nobody THEN "age"
                   ELSE IF ~dead THEN "refused"
                   ELSE IF kind = "node" THEN "rm" ELSE "judged")
          /\ rivals' = (rivals \/ (dead /\ AnotherTakesOver(p)))
    /\ UNCHANGED <<kind, lock, running, socket, port>>

\* Mistaken: a lock without an owner is dead.
NoAgeCheck == FALSE

TooYoung == lock.young

\* The age of a directory without an owner file.
ReadAge(p) ==
    /\ At(p, "age")
    /\ Go(p, IF lock = NoLock THEN "failed" ELSE IF TooYoung THEN "refused" ELSE "rm")
    /\ rivals' = (rivals \/ (lock # NoLock /\ ~TooYoung /\ AnotherTakesOver(p)))
    /\ UNCHANGED <<kind, lock, running, socket, port>>

StatJudged(p) ==
    /\ At(p, "judged")
    /\ Go(p, IF lock = NoLock THEN "failed" ELSE "rm")
    /\ UNCHANGED lock /\ TheLockOnly

\* rm -rf of whatever directory is there now.
Clear(p) ==
    /\ At(p, "rm")
    /\ lock' = NoLock
    /\ Go(p, "again")
    /\ TheLockOnly

\* mkdir, the second time: EEXIST is an error.
LockAgain(p) ==
    /\ At(p, "again")
    /\ IF lock = NoLock THEN Made(p) /\ Go(p, "mine") ELSE Go(p, "failed") /\ UNCHANGED lock
    /\ TheLockOnly

\* The Node's owner.json is written atomically, over any other and with its
\* directory; the daemon's pid file is made exclusively, and on any error the
\* lock directory is removed.
WritePid(p) ==
    /\ At(p, "mine")
    /\ \/ /\ kind = "node" \/ (lock # NoLock /\ lock.pid = Nobody)
          /\ lock' = IF lock = NoLock THEN [by |-> p, pid |-> p, young |-> TRUE]
                     ELSE [lock EXCEPT !.pid = p]
          /\ Go(p, IF kind = "node" THEN "working" ELSE "unlink")
       \/ /\ lock' = IF kind = "node" THEN lock ELSE NoLock
          /\ Go(p, "failed")
    /\ TheLockOnly

\* The end of the Node's operation, and of the daemon: rm -rf, whoever owns it.
Unlock(p) ==
    /\ step[p] \in {"working", "unlocking"} /\ running[p]
    /\ lock' = NoLock
    /\ Go(p, "done")
    /\ TheLockOnly

-----------------------------------------------------------------------------
\* AdminServer.start under the instance lock: rm of the old socket, the port,
\* then the socket; a failure closes what was opened and unlocks.
UnlinkSocket(p) ==
    /\ At(p, "unlink")
    /\ socket' = Nobody
    /\ Go(p, "port")
    /\ UNCHANGED <<kind, lock, running, port, rivals>>

ListenTcp(p) ==
    /\ At(p, "port")
    /\ IF port = Nobody THEN port' = p /\ Go(p, "socket") ELSE Go(p, "unlocking") /\ UNCHANGED port
    /\ UNCHANGED <<kind, lock, running, socket, rivals>>

ListenUnix(p) ==
    /\ At(p, "socket")
    /\ IF socket = Nobody
       THEN socket' = p /\ Go(p, "serving") /\ UNCHANGED port
       ELSE port' = Nobody /\ Go(p, "unlocking") /\ UNCHANGED socket
    /\ UNCHANGED <<kind, lock, running, rivals>>

\* stop(), at SIGTERM: close both servers, remove the socket.
StopServing(p) ==
    /\ At(p, "serving")
    /\ socket' = Nobody /\ port' = Nobody
    /\ Go(p, "unlocking")
    /\ UNCHANGED <<kind, lock, running, rivals>>

\* A death leaves the lock and the socket file; the port is free again.
Die(p) ==
    /\ running[p] /\ step[p] \notin {"idle", "done", "failed", "refused"}
    /\ Cardinality({q \in Procs : ~running[q]}) < MaxDeaths
    /\ running' = [running EXCEPT ![p] = FALSE]
    /\ port' = IF port = p THEN Nobody ELSE port
    /\ UNCHANGED <<kind, lock, step, socket, rivals>>

\* 30 seconds pass for a directory whose maker died or gave it up; a live
\* process does not take that long between two of its calls.
GrowOld ==
    /\ lock.young
    /\ ~running[lock.by] \/ step[lock.by] \in {"failed", "done"}
    /\ lock' = [lock EXCEPT !.young = FALSE]
    /\ UNCHANGED <<kind, step, running, socket, port, rivals>>

LocksNext ==
    \/ \E p \in Procs :
          \/ TryLock(p) \/ ReadPid(p) \/ ReadAge(p) \/ StatJudged(p) \/ Clear(p) \/ LockAgain(p)
          \/ WritePid(p) \/ Unlock(p)
          \/ UnlinkSocket(p) \/ ListenTcp(p) \/ ListenUnix(p) \/ StopServing(p)
          \/ Die(p)
    \/ GrowOld

-----------------------------------------------------------------------------
Inside(p) == running[p] /\ step[p] \in {"working", "unlink", "port", "socket", "serving", "unlocking"}

\* One lifecycle operation per Node and one daemon per home directory, whatever
\* starts collide, stop or die (withNodeLock, acquireInstanceLock): who is inside
\* holds the lock in its name, and a daemon that serves is reached by the socket
\* and the port.  Two processes that take over one dead lock at the same time are
\* the exception: the slower removes the lock the faster has just made.
OneInside ==
    ~rivals =>
        \A p \in Procs : Inside(p) =>
            /\ lock.by = p /\ lock.pid = p
            /\ \A q \in Procs : Inside(q) => q = p
            /\ step[p] = "serving" => socket = p /\ port = p
=============================================================================
