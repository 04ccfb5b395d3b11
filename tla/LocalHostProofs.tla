--------------------------- MODULE LocalHostProofs ---------------------------
(***************************************************************************)
(* What the run of LocalHost checks of the safety of locks, children and     *)
(* folders, proved for any number of processes, calls and requests.          *)
(***************************************************************************)
EXTENDS LocalHost, SequenceTheorems, TLAPS

(* The retry queue's lock directory (FileLock). *)

\* From the mkdir that succeeded to the removal.
Holding == {"owning", "remove"} \cup Critical

\* Until the directory of a live process is reclaimed, a live process that has not
\* given its directory up finds it as it left it; so there is only one.
QueueSound ==
    ~robbed =>
        \A p \in Instances :
            /\ alive[p] =>
                 /\ pc[p] \in Holding => dir # NoDir /\ dir.by = p
                 /\ pc[p] \in Critical \cup {"remove"} => dir.owner = p
                 /\ pc[p] = "write" => entries[p] = queue
            /\ pc[p] \in {"release", "remove", "done"} => p \in queue

QueueInv == TypeOK /\ QueueSound

-----------------------------------------------------------------------------
(* The two locks of the Node Manager (HostLocks). *)

InsideSteps == {"working", "unlink", "port", "socket", "serving", "unlocking"}

\* Who made the lock that is there and has not given it up.
HasLock(p) == running[p] /\ step[p] \in {"mine"} \cup InsideSteps

TakesOver(p) == running[p] /\ step[p] \in Locks!TakingOver

Given(p) == ~running[p] \/ step[p] \in {"failed", "done"}

LocksTyped ==
    /\ kind \in {"node", "instance"}
    /\ lock \in {Locks!NoLock} \cup
                [by : Procs, pid : Procs \cup {Nobody}, young : BOOLEAN]
    /\ step \in [Procs -> {"idle", "mine", "taken", "age", "judged", "rm", "again", "failed",
                           "refused", "done"} \cup InsideSteps]
    /\ running \in [Procs -> BOOLEAN]
    /\ socket \in Procs \cup {Nobody} /\ port \in Procs \cup {Nobody}
    /\ rivals \in BOOLEAN

\* Without rivals, a lock is its holder's; it is only taken over when nobody has
\* it any more, and by one process.
LocksSound ==
    ~rivals =>
        /\ lock.pid \in {Nobody, lock.by}
        /\ lock # Locks!NoLock /\ ~lock.young => Given(lock.by)
        /\ \A p \in Procs :
             /\ HasLock(p) => lock # Locks!NoLock /\ lock.by = p
             /\ HasLock(p) /\ step[p] # "mine" => lock.pid = p
             /\ HasLock(p) /\ step[p] \in {"socket", "serving"} => port = p
             /\ HasLock(p) /\ step[p] = "serving" => socket = p
             /\ TakesOver(p) => /\ lock # Locks!NoLock
                                /\ \A q \in Procs : ~HasLock(q) /\ (TakesOver(q) => q = p)

LocksInv == LocksTyped /\ LocksSound

-----------------------------------------------------------------------------
(* The children of the daemon (CodexRuns). *)

\* From the moment the provider closes, the children it has a list of are all
\* there are; a generation does not go on beside its child.
RunsSound ==
    /\ server = "terminating" => \A c \in Runs!Calls : Runs!Alive(c) => c \in sentenced
    /\ server = "exited" => \A c \in Runs!Calls : ~Runs!Alive(c)
    /\ \A c \in Generations :
         /\ Runs!Alive(c) => call[c] \in {"run", "abort"}
         /\ call[c] = "ok" => c \notin runDir

RunsInv ==
    /\ DOMAIN call = Runs!Calls /\ DOMAIN child = Runs!Calls
    /\ RunsSound

-----------------------------------------------------------------------------
(* The file of folders (FolderSources). *)

\* No context has two folders, and no folder two contexts.
Unambiguous(sources) ==
    \A s, t \in sources : s # t => s.context # t.context /\ s.path # t.path

FolderSteps == {"idle", "dialog", "write", "change", "over"}

FolderRequest == [step : FolderSteps, context : Contexts \cup {"none"},
                  folder : Folders \cup {NoFolder}, id : Nat]

FoldersTyped ==
    /\ writeQueue \in Seq(Sources!FolderRequests)
    /\ folderReq \in [Sources!FolderRequests -> FolderRequest]
    /\ DOMAIN loaded = Sources!FolderRequests
    /\ lastId \in Nat

\* A request is queued at most once, and only the first has loaded the file, as
\* it is.
FoldersSound ==
    /\ \A i \in 1 .. Len(writeQueue) : folderReq[writeQueue[i]].step \in {"write", "change"}
    /\ \A i, j \in 1 .. Len(writeQueue) : writeQueue[i] = writeQueue[j] => i = j
    /\ \A r \in Sources!FolderRequests : folderReq[r].step = "change" =>
         /\ writeQueue # <<>> /\ writeQueue[1] = r
         /\ loaded[r] = store
    /\ Unambiguous(store)

FoldersInv == FoldersTyped /\ FoldersSound

-----------------------------------------------------------------------------
LEMMA QueueTyped == TypeOK /\ [Next]_vars => TypeOK'
  <1> SUFFICES ASSUME TypeOK, [Next]_vars PROVE TypeOK'
    OBVIOUS
  <1> USE DEF TypeOK, Goto, At
  <1>1. CASE UNCHANGED vars
    BY <1>1 DEF vars
  <1>2. CASE Age
    BY <1>2 DEF Age
  <1>3. ASSUME NEW p \in Instances, Crash(p) PROVE TypeOK'
    BY <1>3 DEF Crash
  <1>4. ASSUME NEW p \in Instances, Begin(p) \/ Mkdir(p) \/ WriteOwner(p) \/ WriteOwnerFails(p)
        PROVE  TypeOK'
    <2>1. CASE Begin(p)
      BY <2>1 DEF Begin, Steps, Waiting
    <2>2. CASE Mkdir(p)
      <3>1. [by |-> p, owner |-> NoOwner, old |-> FALSE]
               \in [by : Instances, owner : Instances \cup {NoOwner}, old : BOOLEAN]
        OBVIOUS
      <3>2. dir' \in [by : Instances, owner : Instances \cup {NoOwner}, old : BOOLEAN] \cup {NoDir}
        BY <2>2, <3>1 DEF Mkdir
      <3>3. pc' \in [Instances -> Steps]
        BY <2>2 DEF Mkdir, Steps, Waiting
      <3>4. QED
        BY <2>2, <3>2, <3>3 DEF Mkdir
    <2>3. CASE WriteOwner(p)
      BY <2>3 DEF WriteOwner, Steps, Critical
    <2>4. CASE WriteOwnerFails(p)
      BY <2>4 DEF WriteOwnerFails, Steps
    <2>5. QED
      BY <1>4, <2>1, <2>2, <2>3, <2>4
  <1>5. ASSUME NEW p \in Instances, Stat(p) \/ ReadOwner(p) \/ Steal(p) \/ TimeOut(p)
        PROVE  TypeOK'
    <2>1. CASE Stat(p)
      BY <2>1 DEF Stat, Steps, Waiting
    <2>2. CASE ReadOwner(p)
      BY <2>2 DEF ReadOwner, Steps, Waiting
    <2>3. CASE Steal(p)
      BY <2>3 DEF Steal, Steps, Waiting
    <2>4. CASE TimeOut(p)
      BY <2>4 DEF TimeOut, Steps
    <2>5. QED
      BY <1>5, <2>1, <2>2, <2>3, <2>4
  <1>6. ASSUME NEW p \in Instances, ReadQueue(p) \/ WriteQueue(p) \/ Release(p) \/ Remove(p)
        PROVE  TypeOK'
    <2>1. CASE ReadQueue(p)
      BY <2>1 DEF ReadQueue, Steps, Critical
    <2>2. CASE WriteQueue(p)
      BY <2>2 DEF WriteQueue, WithEntry, Steps, Critical
    <2>3. CASE Release(p)
      BY <2>3 DEF Release, Steps
    <2>4. CASE Remove(p)
      BY <2>4 DEF Remove, Steps
    <2>5. QED
      BY <1>6, <2>1, <2>2, <2>3, <2>4
  <1>7. QED
    BY <1>1, <1>2, <1>3, <1>4, <1>5, <1>6 DEF Next, Act

LEMMA QueueExclusive == QueueInv /\ [Next]_vars => QueueSound'
  <1> SUFFICES ASSUME TypeOK, QueueSound, [Next]_vars, ~robbed' PROVE QueueSound'
    BY DEF QueueInv, QueueSound
  <1>1. ~robbed
    BY DEF TypeOK, Next, Act, vars, Age, Crash, Begin, Mkdir, WriteOwner,
           WriteOwnerFails, Stat, ReadOwner, Steal, TimeOut, ReadQueue, WriteQueue, Release, Remove
  <1>2. \A p \in Instances :
            /\ alive[p] =>
                 /\ pc[p] \in Holding => dir # NoDir /\ dir.by = p
                 /\ pc[p] \in Critical \cup {"remove"} => dir.owner = p
                 /\ pc[p] = "write" => entries[p] = queue
            /\ pc[p] \in {"release", "remove", "done"} => p \in queue
    BY <1>1 DEF QueueSound
  <1>3. dir # NoDir => dir \in [by : Instances, owner : Instances \cup {NoOwner}, old : BOOLEAN]
    BY DEF TypeOK
  <1> USE DEF Holding, Critical, Goto, At
  <1>4. CASE UNCHANGED vars
    BY <1>2, <1>4 DEF vars, QueueSound
  <1>5. CASE Age
    <2>1. /\ dir # NoDir /\ dir' = [dir EXCEPT !.old = TRUE]
          /\ UNCHANGED <<pc, alive, sawOld, entries, queue, robbed>>
      BY <1>5 DEF Age
    <2>2. dir' # NoDir /\ dir'.by = dir.by /\ dir'.owner = dir.owner
      <3>1. /\ dir' \in [by : Instances, owner : Instances \cup {NoOwner}, old : BOOLEAN]
            /\ dir'.by = dir.by /\ dir'.owner = dir.owner
        BY <1>3, <2>1
      <3>2. QED
        BY <3>1, FileLockAssumption
    <2>3. QED
      BY <1>2, <2>1, <2>2 DEF QueueSound
  <1>6. ASSUME NEW p \in Instances, Crash(p) PROVE QueueSound'
    BY <1>2, <1>6 DEF Crash, QueueSound, TypeOK
  <1>7. ASSUME NEW p \in Instances, Begin(p) \/ TimeOut(p) \/ Stat(p) \/ ReadOwner(p) \/ Steal(p)
        PROVE  QueueSound'
    <2>1. CASE Begin(p)
      BY <1>2, <2>1 DEF Begin, QueueSound, TypeOK
    <2>2. CASE TimeOut(p)
      BY <1>2, <2>2 DEF TimeOut, QueueSound, TypeOK
    <2>3. CASE Stat(p)
      BY <1>2, <2>3 DEF Stat, QueueSound, TypeOK
    <2>4. CASE ReadOwner(p)
      BY <1>2, <2>4 DEF ReadOwner, QueueSound, TypeOK
    <2>5. CASE Steal(p)
      <3>1. /\ pc[p] = "steal" /\ dir' = NoDir /\ pc' = [pc EXCEPT ![p] = "mkdir"]
            /\ UNCHANGED <<alive, sawOld, entries, queue>>
            /\ dir # NoDir => ~alive[dir.by]
        BY <2>5 DEF Steal
      <3>2. \A q \in Instances : alive[q] => pc[q] \notin Holding
        BY <1>2, <3>1
      <3>3. QED
        BY <1>2, <3>1, <3>2 DEF QueueSound, TypeOK
    <2>6. QED
      BY <1>7, <2>1, <2>2, <2>3, <2>4, <2>5
  <1>8. ASSUME NEW p \in Instances, Mkdir(p) PROVE QueueSound'
    <2>1. CASE MkdirSucceeds
      <3>1. \A q \in Instances : alive[q] => pc[q] \notin Holding
        BY <1>2, <2>1 DEF MkdirSucceeds
      <3>2. /\ dir' = [by |-> p, owner |-> NoOwner, old |-> FALSE] /\ pc' = [pc EXCEPT ![p] = "owning"]
            /\ UNCHANGED <<alive, sawOld, entries, queue>>
        BY <1>8, <2>1 DEF Mkdir
      <3>3. dir' # NoDir
        <4>1. dir' \in [by : Instances, owner : Instances \cup {NoOwner}, old : BOOLEAN]
          BY <3>2
        <4>2. QED
          BY <4>1, FileLockAssumption
      <3>4. QED
        BY <1>2, <3>1, <3>2, <3>3 DEF QueueSound, TypeOK
    <2>2. CASE ~MkdirSucceeds
      BY <1>2, <1>8, <2>2 DEF Mkdir, QueueSound, TypeOK
    <2>3. QED
      BY <2>1, <2>2
  <1>9. ASSUME NEW p \in Instances, WriteOwner(p) PROVE QueueSound'
    <2>1. /\ dir # NoDir /\ alive[p] /\ pc[p] = "owning" /\ pc' = [pc EXCEPT ![p] = "read"]
          /\ dir' = [dir EXCEPT !.owner = p, !.old = FALSE] /\ UNCHANGED <<alive, sawOld, entries, queue>>
      BY <1>2, <1>9 DEF WriteOwner
    <2>2. /\ dir' # NoDir /\ dir'.by = dir.by /\ dir'.owner = p
      <3>1. /\ dir' \in [by : Instances, owner : Instances \cup {NoOwner}, old : BOOLEAN]
            /\ dir'.by = dir.by /\ dir'.owner = p
        BY <1>3, <2>1
      <3>2. QED
        BY <3>1, FileLockAssumption
    <2>3. QED
      BY <1>2, <2>1, <2>2 DEF QueueSound, TypeOK
  <1>10. ASSUME NEW p \in Instances, WriteOwnerFails(p) \/ Remove(p) PROVE QueueSound'
    <2>1. alive[p] /\ \A q \in Instances : alive[q] /\ q # p => pc[q] \notin Holding
      BY <1>2, <1>10 DEF WriteOwnerFails, Remove
    <2>2. /\ dir' = NoDir /\ UNCHANGED <<alive, sawOld, entries, queue>>
          /\ pc' = [pc EXCEPT ![p] = pc'[p]]
          /\ pc'[p] = "failed" \/ (pc'[p] = "done" /\ pc[p] = "remove")
      BY <1>10 DEF WriteOwnerFails, Remove, TypeOK
    <2>3. QED
      BY <1>2, <2>1, <2>2 DEF QueueSound, TypeOK
  <1>11. ASSUME NEW p \in Instances, ReadQueue(p) \/ Release(p) PROVE QueueSound'
    <2>1. CASE ReadQueue(p)
      BY <1>2, <2>1 DEF ReadQueue, QueueSound, TypeOK
    <2>2. CASE Release(p)
      <3>1. OwnsDir(p)
        BY <1>2, <2>2 DEF Release, OwnsDir
      <3>2. QED
        BY <1>2, <2>2, <3>1 DEF Release, QueueSound, TypeOK
    <2>3. QED
      BY <1>11, <2>1, <2>2
  <1>12. ASSUME NEW p \in Instances, WriteQueue(p) PROVE QueueSound'
    <2>1. /\ queue' = queue \cup {p} /\ pc[p] = "write" /\ pc' = [pc EXCEPT ![p] = "release"]
          /\ alive[p] /\ entries' = [entries EXCEPT ![p] = {}] /\ UNCHANGED <<dir, alive, sawOld>>
      BY <1>2, <1>12 DEF WriteQueue, WithEntry
    <2>2. \A q \in Instances : alive[q] /\ q # p => pc[q] \notin Holding
      BY <1>2, <2>1
    <2>3. QED
      BY <1>2, <2>1, <2>2 DEF QueueSound, TypeOK
  <1>13. QED
    BY <1>4, <1>5, <1>6, <1>7, <1>8, <1>9, <1>10, <1>11, <1>12 DEF Next, Act

LEMMA QueueStep == QueueInv /\ [HostNext]_<<vars, locksVars, runsVars, sourceVars, side>> => QueueInv'
  <1>1. [HostNext]_<<vars, locksVars, runsVars, sourceVars, side>> => [Next]_vars
    BY DEF HostNext
  <1>2. QED
    BY <1>1, QueueTyped, QueueExclusive DEF QueueInv

LEMMA QueueInit == Init => QueueInv
  BY DEF Init, QueueInv, TypeOK, Steps, QueueSound, Holding, Critical

THEOREM QueueInvHolds == HostSpec => []QueueInv
  <1>1. HostInit => QueueInv
    BY QueueInit DEF HostInit
  <1>2. QED
    BY <1>1, QueueStep, PTL DEF HostSpec

\* No durable entry of the retry queue is lost to another process, however many
\* wait for its lock, die at any of its steps and are reclaimed, as long as no
\* waiter reclaims the directory of a process that is alive (#exclusive,
\* #acquireFileLock).
THEOREM QueueIsExclusive == HostSpec => []MutualExclusion
  <1>1. QueueInv => MutualExclusion
    BY DEF QueueInv, QueueSound, MutualExclusion, Holding, Critical, At
  <1>2. QED
    BY <1>1, QueueInvHolds, PTL

-----------------------------------------------------------------------------
LockOf == [by : Procs, pid : Procs \cup {Nobody}, young : BOOLEAN]

LockSteps == {"idle", "mine", "taken", "age", "judged", "rm", "again", "failed", "refused", "done"}
             \cup InsideSteps

LEMMA LockFacts ==
  ASSUME LocksTyped
  PROVE  /\ Nobody \notin Procs
         /\ lock # Locks!NoLock => /\ lock \in LockOf
                                   /\ lock.by \in Procs /\ lock.pid \in Procs \cup {Nobody}
                                   /\ lock.young \in BOOLEAN
         /\ Locks!NoLock.pid = Nobody /\ Locks!NoLock.by = Nobody /\ ~Locks!NoLock.young
         /\ Locks!NoLock \notin LockOf
         /\ step \in [Procs -> LockSteps]
  BY LocalHostAssumption DEF Locks!HostLocksAssumption, LocksTyped, Locks!NoLock, LockOf, LockSteps

LEMMA MadeLock ==
  ASSUME LocksTyped, NEW p \in Procs, Locks!Made(p)
  PROVE  /\ lock' \in LockOf /\ lock' # Locks!NoLock
         /\ lock'.by = p /\ lock'.pid = Nobody /\ lock'.young
  <1>1. lock' = [by |-> p, pid |-> Nobody, young |-> TRUE]
    BY DEF Locks!Made
  <1>2. lock' \in LockOf /\ lock'.by = p /\ lock'.pid = Nobody /\ lock'.young
    BY <1>1 DEF LockOf
  <1>3. QED
    BY <1>2, LockFacts

LEMMA LocksTypedStep == LocksTyped /\ [Locks!LocksNext]_locksVars => LocksTyped'
  <1> SUFFICES ASSUME LocksTyped, [Locks!LocksNext]_locksVars PROVE LocksTyped'
    OBVIOUS
  <1> USE DEF Locks!TheLockOnly
  <1>1. /\ kind \in {"node", "instance"} /\ lock \in {Locks!NoLock} \cup LockOf
        /\ step \in [Procs -> LockSteps] /\ running \in [Procs -> BOOLEAN]
        /\ socket \in Procs \cup {Nobody} /\ port \in Procs \cup {Nobody} /\ rivals \in BOOLEAN
    BY DEF LocksTyped, LockOf, LockSteps
  <1>2. ASSUME /\ kind' = kind /\ lock' \in {Locks!NoLock} \cup LockOf
               /\ step' \in [Procs -> LockSteps] /\ running' \in [Procs -> BOOLEAN]
               /\ socket' \in Procs \cup {Nobody} /\ port' \in Procs \cup {Nobody}
               /\ rivals' \in BOOLEAN
        PROVE  LocksTyped'
    BY <1>1, <1>2 DEF LocksTyped, LockOf, LockSteps, Locks!NoLock
  <1>3. ASSUME NEW p \in Procs, NEW s \in LockSteps, Locks!Go(p, s) PROVE step' \in [Procs -> LockSteps]
    BY <1>1, <1>3 DEF Locks!Go
  <1>4. CASE UNCHANGED locksVars
    BY <1>1, <1>2, <1>4 DEF locksVars
  <1>5. CASE Locks!GrowOld
    <2>1. lock \in LockOf /\ lock' = [lock EXCEPT !.young = FALSE]
      BY <1>1, <1>5, LockFacts DEF Locks!GrowOld
    <2>2. lock' \in LockOf
      BY <2>1 DEF LockOf
    <2>3. QED
      BY <1>1, <1>2, <1>5, <2>2 DEF Locks!GrowOld
  <1>6. ASSUME NEW p \in Procs, Locks!TryLock(p) \/ Locks!LockAgain(p) PROVE LocksTyped'
    <2>1. /\ \E s \in LockSteps : Locks!Go(p, s)
          /\ Locks!Made(p) \/ lock' = lock
          /\ UNCHANGED <<kind, running, socket, port, rivals>>
      BY <1>6 DEF Locks!TryLock, Locks!LockAgain, LockSteps
    <2>2. lock' \in {Locks!NoLock} \cup LockOf
      BY <1>1, <2>1, MadeLock
    <2>3. QED
      BY <1>1, <1>2, <1>3, <2>1, <2>2
  <1>7. ASSUME NEW p \in Procs, Locks!ReadPid(p) \/ Locks!ReadAge(p) PROVE LocksTyped'
    <2>1. /\ \E s \in LockSteps : Locks!Go(p, s)
          /\ UNCHANGED <<kind, lock, running, socket, port>>
          /\ rivals' \in BOOLEAN
      BY <1>1, <1>7 DEF Locks!ReadPid, Locks!ReadAge, LockSteps
    <2>2. QED
      BY <1>1, <1>2, <1>3, <2>1
  <1>8. ASSUME NEW p \in Procs, Locks!StatJudged(p) \/ Locks!Clear(p) \/ Locks!Unlock(p)
        PROVE  LocksTyped'
    <2>1. /\ \E s \in LockSteps : Locks!Go(p, s)
          /\ UNCHANGED <<kind, running, socket, port, rivals>>
          /\ lock' = Locks!NoLock \/ lock' = lock
      BY <1>1, <1>8 DEF Locks!StatJudged, Locks!Clear, Locks!Unlock, LockSteps
    <2>2. QED
      BY <1>1, <1>2, <1>3, <2>1
  <1>9. ASSUME NEW p \in Procs, Locks!WritePid(p) PROVE LocksTyped'
    <2>1. /\ \E s \in LockSteps : Locks!Go(p, s)
          /\ UNCHANGED <<kind, running, socket, port, rivals>>
      BY <1>9 DEF Locks!WritePid, LockSteps, InsideSteps
    <2>2. [by |-> p, pid |-> p, young |-> TRUE] \in LockOf
      BY DEF LockOf
    <2>3. lock # Locks!NoLock => [lock EXCEPT !.pid = p] \in LockOf
      BY LockFacts DEF LockOf
    <2>4. lock' \in {Locks!NoLock} \cup LockOf
      BY <1>1, <1>9, <2>2, <2>3 DEF Locks!WritePid
    <2>5. QED
      BY <1>1, <1>2, <1>3, <2>1, <2>4
  <1>10. ASSUME NEW p \in Procs, Locks!UnlinkSocket(p) \/ Locks!ListenTcp(p) \/ Locks!ListenUnix(p)
                                 \/ Locks!StopServing(p)
         PROVE  LocksTyped'
    <2>1. /\ \E s \in LockSteps : Locks!Go(p, s)
          /\ UNCHANGED <<kind, lock, running, rivals>>
          /\ socket' \in Procs \cup {Nobody} /\ port' \in Procs \cup {Nobody}
      BY <1>1, <1>10 DEF Locks!UnlinkSocket, Locks!ListenTcp, Locks!ListenUnix, Locks!StopServing,
                         LockSteps, InsideSteps
    <2>2. QED
      BY <1>1, <1>2, <1>3, <2>1
  <1>11. ASSUME NEW p \in Procs, Locks!Die(p) PROVE LocksTyped'
    BY <1>1, <1>2, <1>11 DEF Locks!Die
  <1>12. QED
    BY <1>4, <1>5, <1>6, <1>7, <1>8, <1>9, <1>10, <1>11 DEF Locks!LocksNext

\* Nothing is settled about who holds a lock by a step of p that keeps the lock
\* and only takes p to where it neither holds it nor takes it over.
LEMMA WaiterMoves ==
  ASSUME LocksTyped, LocksSound, NEW p \in Procs, NEW s \in LockSteps \ ({"mine", "judged", "rm"} \cup InsideSteps),
         step' = [step EXCEPT ![p] = s], step[p] \notin {"failed", "done"}, running[p],
         UNCHANGED <<lock, running, socket, port>>, rivals' = rivals
  PROVE  LocksSound'
  <1>1. \A q \in Procs : step'[q] = IF q = p THEN s ELSE step[q]
    BY LockFacts
  <1>2. /\ \A q \in Procs : HasLock(q)' => q # p /\ HasLock(q) /\ step'[q] = step[q]
        /\ \A q \in Procs : TakesOver(q)' => q # p /\ TakesOver(q)
    BY <1>1 DEF HasLock, TakesOver, Locks!TakingOver
  <1>3. ~rivals /\ lock # Locks!NoLock /\ ~lock.young => Given(lock.by) /\ lock.by # p
    BY LockFacts DEF LocksSound, Given
  <1>4. ~rivals /\ lock # Locks!NoLock /\ ~lock.young => Given(lock.by)'
    BY <1>1, <1>3, LockFacts DEF Given
  <1>5. QED
    BY <1>2, <1>4 DEF LocksSound

\* The holder goes on, with the lock in its name.
LEMMA HolderMoves ==
  ASSUME LocksTyped, LocksSound, NEW p \in Procs, HasLock(p), NEW s \in InsideSteps,
         step' = [step EXCEPT ![p] = s], UNCHANGED <<running, rivals>>,
         ~rivals => /\ lock' # Locks!NoLock /\ lock'.by = p /\ lock'.pid = p
                    /\ ~lock'.young => ~lock.young
                    /\ s \in {"socket", "serving"} => port' = p
                    /\ s = "serving" => socket' = p
  PROVE  LocksSound'
  <1>1. \A q \in Procs : step'[q] = IF q = p THEN s ELSE step[q]
    BY LockFacts
  <1>2. ASSUME ~rivals
        PROVE  /\ lock.by = p /\ lock # Locks!NoLock
               /\ \A q \in Procs : HasLock(q) => q = p
               /\ \A q \in Procs : ~TakesOver(q)
               /\ lock.young
    BY <1>2, LockFacts DEF LocksSound, Given, HasLock, InsideSteps
  <1>3. ASSUME ~rivals
        PROVE  /\ \A q \in Procs : HasLock(q)' => q = p
               /\ \A q \in Procs : ~TakesOver(q)'
               /\ lock'.young
    BY <1>1, <1>2, <1>3, LockFacts DEF HasLock, TakesOver, Locks!TakingOver, InsideSteps
  <1>4. QED
    BY <1>1, <1>2, <1>3, LockFacts DEF LocksSound

\* p makes the lock where there is none.
LEMMA MakerHolds ==
  ASSUME LocksTyped, LocksSound, NEW p \in Procs, running[p], Locks!Made(p), lock = Locks!NoLock,
         step' = [step EXCEPT ![p] = "mine"], UNCHANGED <<running, rivals, socket, port>>
  PROVE  LocksSound'
  <1>1. \A q \in Procs : step'[q] = IF q = p THEN "mine" ELSE step[q]
    BY LockFacts
  <1>2. lock' # Locks!NoLock /\ lock'.by = p /\ lock'.pid = Nobody /\ lock'.young
    BY MadeLock
  <1>3. ~rivals => \A q \in Procs : ~HasLock(q) /\ ~TakesOver(q)
    BY DEF LocksSound
  <1>4. ~rivals => /\ \A q \in Procs : HasLock(q)' => q = p /\ step'[q] = "mine"
                   /\ \A q \in Procs : ~TakesOver(q)'
    BY <1>1, <1>3 DEF HasLock, TakesOver, Locks!TakingOver
  <1>5. QED
    BY <1>2, <1>4 DEF LocksSound

\* p finds the lock dead; unless another does so too, it is the only one.
LEMMA OneTakesOver ==
  ASSUME LocksTyped, LocksSound, NEW p \in Procs, running[p], NEW s \in {"judged", "rm"},
         step[p] \notin {"failed", "done"} \cup {"mine"} \cup InsideSteps,
         step' = [step EXCEPT ![p] = s], UNCHANGED <<lock, running, socket, port>>,
         ~rivals' => /\ ~rivals /\ lock # Locks!NoLock
                     /\ \A q \in Procs : ~HasLock(q)
                     /\ \A q \in Procs : q # p => ~TakesOver(q)
  PROVE  LocksSound'
  <1>1. \A q \in Procs : step'[q] = IF q = p THEN s ELSE step[q]
    BY LockFacts
  <1>2. ~rivals' => /\ \A q \in Procs : ~HasLock(q)'
                    /\ \A q \in Procs : TakesOver(q)' => q = p
    BY <1>1 DEF HasLock, TakesOver, Locks!TakingOver, InsideSteps
  <1>3. ~rivals' /\ lock # Locks!NoLock /\ ~lock.young => Given(lock.by)'
    <2>1. ~rivals' /\ lock # Locks!NoLock /\ ~lock.young => Given(lock.by) /\ lock.by \in Procs
      BY LockFacts DEF LocksSound
    <2>2. QED
      BY <1>1, <2>1 DEF Given
  <1>4. QED
    BY <1>2, <1>3 DEF LocksSound

\* The lock goes, with its holder or before the one that takes it over.
LEMMA LockGoes ==
  ASSUME LocksTyped, LocksSound, NEW p \in Procs, HasLock(p) \/ TakesOver(p), lock' = Locks!NoLock,
         NEW s \in {"failed", "done", "again"}, step' = [step EXCEPT ![p] = s],
         UNCHANGED <<running, rivals>>
  PROVE  LocksSound'
  <1>1. \A q \in Procs : step'[q] = IF q = p THEN s ELSE step[q]
    BY LockFacts
  <1>2. ~rivals => \A q \in Procs : HasLock(q) \/ TakesOver(q) => q = p
    BY DEF LocksSound
  <1>3. ~rivals => \A q \in Procs : ~HasLock(q)' /\ ~TakesOver(q)'
    BY <1>1, <1>2 DEF HasLock, TakesOver, Locks!TakingOver, InsideSteps
  <1>4. QED
    BY <1>3, LockFacts DEF LocksSound

LEMMA LocksSoundStep == LocksInv /\ [Locks!LocksNext]_locksVars => LocksSound'
  <1> SUFFICES ASSUME LocksTyped, LocksSound, [Locks!LocksNext]_locksVars PROVE LocksSound'
    BY DEF LocksInv
  <1> USE DEF Locks!TheLockOnly, Locks!Go, Locks!At
  <1>1. CASE UNCHANGED locksVars
    BY <1>1 DEF locksVars, LocksSound, HasLock, TakesOver, Given
  <1>2. CASE Locks!GrowOld
    <2>1. /\ lock \in LockOf /\ lock' = [lock EXCEPT !.young = FALSE] /\ lock' # Locks!NoLock
          /\ lock'.by = lock.by /\ lock'.pid = lock.pid /\ Given(lock.by)
      BY <1>2, LockFacts DEF Locks!GrowOld, LockOf, Given
    <2>2. UNCHANGED <<step, running, socket, port, rivals>>
      BY <1>2 DEF Locks!GrowOld
    <2>3. QED
      BY <2>1, <2>2, LockFacts DEF LocksSound, HasLock, TakesOver, Given
  <1>3. ASSUME NEW p \in Procs, Locks!TryLock(p) \/ Locks!LockAgain(p) PROVE LocksSound'
    <2>1. running[p] /\ step[p] \in {"idle", "again"} /\ UNCHANGED <<running, socket, port, rivals>>
      BY <1>3 DEF Locks!TryLock, Locks!LockAgain
    <2>2. CASE lock = Locks!NoLock
      BY <1>3, <2>1, <2>2, MakerHolds DEF Locks!TryLock, Locks!LockAgain
    <2>3. CASE lock # Locks!NoLock
      <3>1. lock' = lock /\ (step' = [step EXCEPT ![p] = "taken"] \/ step' = [step EXCEPT ![p] = "failed"])
        BY <1>3, <2>3 DEF Locks!TryLock, Locks!LockAgain
      <3>2. {"taken", "failed"} \subseteq LockSteps \ ({"mine", "judged", "rm"} \cup InsideSteps)
        BY DEF LockSteps, InsideSteps
      <3>3. QED
        BY <2>1, <3>1, <3>2, WaiterMoves
    <2>4. QED
      BY <2>2, <2>3
  <1>4. ASSUME NEW p \in Procs, Locks!ReadPid(p) PROVE LocksSound'
    <2> DEFINE dead == lock.pid # Nobody /\ ~running[lock.pid]
               s == IF lock.pid = Nobody THEN "age" ELSE IF ~dead THEN "refused"
                    ELSE IF kind = "node" THEN "rm" ELSE "judged"
    <2>1. /\ running[p] /\ step[p] = "taken" /\ UNCHANGED <<lock, running, socket, port>>
          /\ step' = [step EXCEPT ![p] = s]
          /\ rivals' = (rivals \/ (dead /\ Locks!AnotherTakesOver(p)))
      BY <1>4 DEF Locks!ReadPid
    <2>2. CASE dead
      <3>1. s \in {"judged", "rm"}
        BY <2>2
      <3>2. ASSUME ~rivals'
            PROVE  /\ ~rivals /\ lock # Locks!NoLock
                   /\ \A q \in Procs : ~HasLock(q)
                   /\ \A q \in Procs : q # p => ~TakesOver(q)
        <4>1. ~rivals /\ lock # Locks!NoLock /\ lock.pid = lock.by /\ ~running[lock.by]
          BY <2>1, <2>2, <3>2, LockFacts DEF LocksSound
        <4>2. \A q \in Procs : ~HasLock(q)
          BY <4>1 DEF LocksSound, HasLock
        <4>3. \A q \in Procs : q # p => ~TakesOver(q)
          BY <2>1, <2>2, <3>2 DEF Locks!AnotherTakesOver, TakesOver
        <4>4. QED
          BY <4>1, <4>2, <4>3
      <3>3. step[p] \notin {"failed", "done"} \cup {"mine"} \cup InsideSteps
        BY <2>1 DEF InsideSteps
      <3> HIDE DEF dead, s
      <3>4. QED
        BY <2>1, <3>1, <3>2, <3>3, OneTakesOver
    <2>3. CASE ~dead
      <3>1. s \in LockSteps \ ({"mine", "judged", "rm"} \cup InsideSteps)
        BY <2>3 DEF LockSteps, InsideSteps
      <3>2. rivals' = rivals
        BY <2>1, <2>3 DEF LocksTyped
      <3> HIDE DEF dead, s
      <3>3. QED
        BY <2>1, <3>1, <3>2, WaiterMoves
    <2>4. QED
      BY <2>2, <2>3
  <1>5. ASSUME NEW p \in Procs, Locks!ReadAge(p) PROVE LocksSound'
    <2> DEFINE old == lock # Locks!NoLock /\ ~lock.young
               s == IF lock = Locks!NoLock THEN "failed" ELSE IF lock.young THEN "refused" ELSE "rm"
    <2>1. /\ running[p] /\ step[p] = "age" /\ UNCHANGED <<lock, running, socket, port>>
          /\ step' = [step EXCEPT ![p] = s]
          /\ rivals' = (rivals \/ (old /\ Locks!AnotherTakesOver(p)))
      BY <1>5 DEF Locks!ReadAge, Locks!TooYoung
    <2>2. CASE old
      <3>1. s = "rm"
        BY <2>2
      <3>2. ASSUME ~rivals'
            PROVE  /\ ~rivals /\ lock # Locks!NoLock
                   /\ \A q \in Procs : ~HasLock(q)
                   /\ \A q \in Procs : q # p => ~TakesOver(q)
        <4>1. ~rivals /\ lock # Locks!NoLock /\ Given(lock.by)
          BY <2>1, <2>2, <3>2 DEF LocksSound
        <4>2. \A q \in Procs : ~HasLock(q)
          BY <4>1 DEF LocksSound, HasLock, Given, InsideSteps
        <4>3. \A q \in Procs : q # p => ~TakesOver(q)
          BY <2>1, <2>2, <3>2 DEF Locks!AnotherTakesOver, TakesOver
        <4>4. QED
          BY <4>1, <4>2, <4>3
      <3>3. step[p] \notin {"failed", "done"} \cup {"mine"} \cup InsideSteps
        BY <2>1 DEF InsideSteps
      <3> HIDE DEF old, s
      <3>4. QED
        BY <2>1, <3>1, <3>2, <3>3, OneTakesOver
    <2>3. CASE ~old
      <3>1. s \in LockSteps \ ({"mine", "judged", "rm"} \cup InsideSteps)
        BY <2>3 DEF LockSteps, InsideSteps
      <3>2. rivals' = rivals
        BY <2>1, <2>3 DEF LocksTyped
      <3> HIDE DEF old, s
      <3>3. QED
        BY <2>1, <3>1, <3>2, WaiterMoves
    <2>4. QED
      BY <2>2, <2>3
  <1>6. ASSUME NEW p \in Procs, Locks!StatJudged(p) PROVE LocksSound'
    <2>1. /\ running[p] /\ step[p] = "judged" /\ UNCHANGED <<lock, running, socket, port, rivals>>
          /\ step' = [step EXCEPT ![p] = IF lock = Locks!NoLock THEN "failed" ELSE "rm"]
      BY <1>6 DEF Locks!StatJudged
    <2>2. CASE lock = Locks!NoLock
      <3>1. "failed" \in LockSteps \ ({"mine", "judged", "rm"} \cup InsideSteps)
        BY DEF LockSteps, InsideSteps
      <3>2. QED
        BY <2>1, <2>2, <3>1, WaiterMoves
    <2>3. CASE lock # Locks!NoLock
      <3>1. TakesOver(p) /\ step[p] \notin {"failed", "done"} \cup {"mine"} \cup InsideSteps
        BY <2>1 DEF TakesOver, Locks!TakingOver, InsideSteps
      <3>2. QED
        BY <2>1, <2>3, <3>1, OneTakesOver DEF LocksSound
    <2>4. QED
      BY <2>2, <2>3
  <1>7. ASSUME NEW p \in Procs, Locks!Clear(p) \/ Locks!Unlock(p) PROVE LocksSound'
    <2>1. HasLock(p) \/ TakesOver(p)
      BY <1>7 DEF Locks!Clear, Locks!Unlock, HasLock, TakesOver, Locks!TakingOver, InsideSteps
    <2>2. QED
      BY <1>7, <2>1, LockGoes DEF Locks!Clear, Locks!Unlock
  <1>8. ASSUME NEW p \in Procs, Locks!WritePid(p) PROVE LocksSound'
    <2>1. running[p] /\ step[p] = "mine" /\ HasLock(p) /\ UNCHANGED <<running, socket, port, rivals>>
      BY <1>8 DEF Locks!WritePid, HasLock
    <2>2. CASE /\ lock' = IF lock = Locks!NoLock THEN [by |-> p, pid |-> p, young |-> TRUE]
                          ELSE [lock EXCEPT !.pid = p]
               /\ step' = [step EXCEPT ![p] = IF kind = "node" THEN "working" ELSE "unlink"]
      <3>1. ~rivals => lock # Locks!NoLock /\ lock.by = p /\ lock' = [lock EXCEPT !.pid = p]
        BY <2>1, <2>2 DEF LocksSound
      <3>2. ~rivals => lock' \in LockOf /\ lock'.by = p /\ lock'.pid = p /\ lock'.young = lock.young
        BY <3>1, LockFacts DEF LockOf
      <3>3. {"working", "unlink"} \subseteq InsideSteps
        BY DEF InsideSteps
      <3>4. QED
        BY <2>1, <2>2, <3>2, <3>3, LockFacts, HolderMoves
    <2>3. CASE lock' = lock /\ step' = [step EXCEPT ![p] = "failed"]
      <3>1. "failed" \in LockSteps \ ({"mine", "judged", "rm"} \cup InsideSteps)
        BY DEF LockSteps, InsideSteps
      <3>2. QED
        BY <2>1, <2>3, <3>1, WaiterMoves
    <2>4. CASE lock' = Locks!NoLock /\ step' = [step EXCEPT ![p] = "failed"]
      BY <2>1, <2>4, LockGoes
    <2>5. QED
      BY <1>8, <2>2, <2>3, <2>4 DEF Locks!WritePid
  <1>9. ASSUME NEW p \in Procs, Locks!UnlinkSocket(p) \/ Locks!ListenTcp(p) \/ Locks!ListenUnix(p)
                                \/ Locks!StopServing(p)
        PROVE  LocksSound'
    <2>1. HasLock(p) /\ UNCHANGED <<lock, running, rivals>>
          /\ step[p] \in {"unlink", "port", "socket", "serving"}
      BY <1>9 DEF Locks!UnlinkSocket, Locks!ListenTcp, Locks!ListenUnix, Locks!StopServing, HasLock,
                  InsideSteps
    <2>2. ~rivals => /\ lock # Locks!NoLock /\ lock.by = p /\ lock.pid = p
                     /\ step[p] = "socket" => port = p
      BY <2>1 DEF LocksSound
    <2>3. PICK s \in InsideSteps : /\ step' = [step EXCEPT ![p] = s]
                                   /\ s = "socket" => port' = p
                                   /\ s = "serving" => socket' = p /\ step[p] = "socket" /\ port' = port
      BY <1>9 DEF Locks!UnlinkSocket, Locks!ListenTcp, Locks!ListenUnix, Locks!StopServing, InsideSteps
    <2>4. QED
      BY <2>1, <2>2, <2>3, HolderMoves
  <1>10. ASSUME NEW p \in Procs, Locks!Die(p) PROVE LocksSound'
    <2>1. /\ \A q \in Procs : running'[q] = (q # p /\ running[q])
          /\ port' = IF port = p THEN Nobody ELSE port
          /\ UNCHANGED <<lock, step, socket, rivals>>
      BY <1>10 DEF Locks!Die, LocksTyped
    <2>2. \A q \in Procs : /\ HasLock(q)' => HasLock(q) /\ q # p
                           /\ TakesOver(q)' => TakesOver(q)
      BY <2>1 DEF HasLock, TakesOver
    <2>3. lock # Locks!NoLock => (Given(lock.by) => Given(lock.by)')
      BY <2>1, LockFacts DEF Given
    <2>4. QED
      BY <2>1, <2>2, <2>3 DEF LocksSound
  <1>11. QED
    BY <1>1, <1>2, <1>3, <1>4, <1>5, <1>6, <1>7, <1>8, <1>9, <1>10 DEF Locks!LocksNext

LEMMA LocksInit == Locks!LocksInit => LocksInv
  <1> SUFFICES ASSUME Locks!LocksInit PROVE LocksInv
    OBVIOUS
  <1>1. LocksTyped
    BY DEF Locks!LocksInit, LocksTyped
  <1>2. \A p \in Procs : ~HasLock(p) /\ ~TakesOver(p)
    BY DEF Locks!LocksInit, HasLock, TakesOver, Locks!TakingOver, InsideSteps
  <1>3. QED
    BY <1>1, <1>2, LockFacts DEF LocksInv, LocksSound, Locks!LocksInit

LEMMA LocksStep == LocksInv /\ [HostNext]_<<vars, locksVars, runsVars, sourceVars, side>> => LocksInv'
  <1>1. [HostNext]_<<vars, locksVars, runsVars, sourceVars, side>> => [Locks!LocksNext]_locksVars
    BY DEF HostNext
  <1>2. QED
    BY <1>1, LocksTypedStep, LocksSoundStep DEF LocksInv

THEOREM LocksInvHolds == HostSpec => []LocksInv
  <1>1. HostInit => LocksInv
    BY LocksInit DEF HostInit
  <1>2. QED
    BY <1>1, LocksStep, PTL DEF HostSpec

\* Starts of the daemon and lifecycle operations of a Node that collide, stop or
\* die leave one process inside, with the lock in its name, unless two took over
\* one dead lock at the same time (withNodeLock, acquireInstanceLock).
THEOREM OneIsInside == HostSpec => []OneInside
  <1>1. LocksInv => OneInside
    <2> SUFFICES ASSUME LocksInv, ~rivals, NEW p \in Procs, Locks!Inside(p)
                 PROVE  /\ lock.by = p /\ lock.pid = p
                        /\ \A q \in Procs : Locks!Inside(q) => q = p
                        /\ step[p] = "serving" => socket = p /\ port = p
      BY DEF OneInside, Locks!OneInside
    <2>1. \A q \in Procs : Locks!Inside(q) => HasLock(q) /\ step[q] # "mine"
      BY DEF Locks!Inside, HasLock, InsideSteps
    <2>2. QED
      BY <2>1 DEF LocksInv, LocksSound
  <1>2. QED
    BY <1>1, LocksInvHolds, PTL

-----------------------------------------------------------------------------
(* The daemon's children. *)

\* A call changes its own step only.
LEMMA GoesOn ==
  ASSUME RunsInv, NEW c \in Runs!Calls,
         \/ call' = call
         \/ \E s : Runs!Go(c, s)
         \/ \E outcome : Runs!Finished(c, outcome)
         \/ Runs!Failed(c)
  PROVE  DOMAIN call' = Runs!Calls /\ \A d \in Runs!Calls : d # c => call'[d] = call[d]
  <1>1. (\E s : call' = [call EXCEPT ![c] = s]) \/ call' = call
    BY DEF Runs!Go, Runs!Finished, Runs!Failed
  <1>2. QED
    BY <1>1 DEF RunsInv

\* A generation that is finished, well or not, has its files to remove.
LEMMA GoesToRemove ==
  ASSUME RunsInv, NEW c \in Generations,
         Runs!Failed(c) \/ \E outcome : Runs!Finished(c, outcome)
  PROVE  call'[c] = "rm"
  <1>1. call' = [call EXCEPT ![c] = "rm"]
    BY DEF Runs!Go, Runs!Finished, Runs!Failed
  <1>2. QED
    BY <1>1 DEF RunsInv, Runs!Calls

\* A step of c in a daemon that runs: no child is born while it closes, and the
\* other calls stay as they are.
LEMMA CallMoves ==
  ASSUME RunsInv, NEW c \in Runs!Calls, server # "exited", server' = server, sentenced' = sentenced,
         DOMAIN call' = Runs!Calls, DOMAIN child' = Runs!Calls,
         \A d \in Runs!Calls : d # c => /\ call'[d] = call[d] /\ child'[d] = child[d]
                                        /\ d \in runDir' <=> d \in runDir,
         Runs!Alive(c)' => Runs!Alive(c) \/ server # "terminating",
         c \in Generations => /\ Runs!Alive(c)' => call'[c] \in {"run", "abort"}
                              /\ call'[c] = "ok" => c \notin runDir'
  PROVE  RunsInv'
  <1>1. \A d \in Runs!Calls : d # c => (Runs!Alive(d)' <=> Runs!Alive(d))
    BY DEF Runs!Alive
  <1>2. Generations \subseteq Runs!Calls
    BY DEF Runs!Calls
  <1>3. QED
    BY <1>1, <1>2 DEF RunsInv, RunsSound

LEMMA RunsStep == RunsInv /\ [Runs!CodexNext]_runsVars => RunsInv'
  <1> SUFFICES ASSUME RunsInv, [Runs!CodexNext]_runsVars PROVE RunsInv'
    OBVIOUS
  <1> USE DEF Runs!Go, Runs!At
  <1>1. CASE UNCHANGED runsVars
    BY <1>1 DEF runsVars, RunsInv, RunsSound, Runs!Alive
  <1>2. CASE Runs!Stop
    BY <1>2 DEF Runs!Stop, RunsInv, RunsSound, Runs!Alive
  <1>3. CASE Runs!CloseProvider
    <2>1. \A c \in Runs!Calls : Runs!Alive(c)' <=> Runs!Alive(c)
      BY <1>3 DEF Runs!CloseProvider, Runs!Alive
    <2>2. /\ server' = "terminating" /\ sentenced' = {c \in Runs!Calls : Runs!Alive(c)}
          /\ DOMAIN child' = Runs!Calls /\ UNCHANGED <<call, runDir>>
      BY <1>3 DEF Runs!CloseProvider
    <2>3. Generations \subseteq Runs!Calls
      BY DEF Runs!Calls
    <2>4. QED
      BY <2>1, <2>2, <2>3 DEF RunsInv, RunsSound
  <1>4. CASE Runs!Exit
    BY <1>4 DEF Runs!Exit, RunsInv, RunsSound, Runs!Alive
  <1>5. ASSUME NEW c \in Runs!Calls, Runs!Disconnect(c) PROVE RunsInv'
    BY <1>5 DEF Runs!Disconnect, RunsInv, RunsSound, Runs!Alive
  <1>6. ASSUME NEW c \in Runs!Calls, Runs!Begin(c) \/ Runs!Enter(c) \/ Runs!FindBinary(c)
        PROVE  RunsInv'
    <2>1. /\ server # "exited" /\ UNCHANGED <<server, child, runDir, sentenced>>
          /\ \E s \in {"enter", "error", "resolve", "mkdir", "spawn", "unavailable"} :
               call' = [call EXCEPT ![c] = s]
          /\ call[c] \in {"idle", "enter", "resolve"}
      BY <1>6 DEF Runs!Begin, Runs!Enter, Runs!FindBinary
    <2>2. c \in Generations => ~Runs!Alive(c)
      BY <2>1 DEF RunsInv, RunsSound
    <2>3. Runs!Alive(c)' <=> Runs!Alive(c)
      BY <2>1 DEF Runs!Alive
    <2>4. QED
      BY <2>1, <2>2, <2>3, CallMoves DEF RunsInv
  <1>7. ASSUME NEW c \in Runs!Calls, Runs!MakeRunDir(c) \/ Runs!RemoveRunDir(c) PROVE RunsInv'
    <2>1. /\ server # "exited" /\ UNCHANGED <<server, child, sentenced>>
          /\ call' = [call EXCEPT ![c] = call'[c]]
          /\ call'[c] = "ok" => c \notin runDir'
          /\ call[c] \in {"mkdir", "rm"}
          /\ \A d : d # c => (d \in runDir' <=> d \in runDir)
      BY <1>7 DEF Runs!MakeRunDir, Runs!RemoveRunDir, RunsInv
    <2>2. c \in Generations => ~Runs!Alive(c)
      BY <2>1 DEF RunsInv, RunsSound
    <2>3. Runs!Alive(c)' <=> Runs!Alive(c)
      BY <2>1 DEF Runs!Alive
    <2>4. QED
      BY <2>1, <2>2, <2>3, CallMoves DEF RunsInv
  <1>8. ASSUME NEW c \in Runs!Calls, Runs!WritePrompt(c) \/ Runs!ReadOutput(c) PROVE RunsInv'
    <2>1. /\ server # "exited" /\ UNCHANGED <<server, child, runDir, sentenced>>
          /\ call' = [call EXCEPT ![c] = call'[c]]
          /\ c \in Generations => call'[c] \in {"spawn", "rm"}
          /\ call[c] \in {"prompt", "read"}
      BY <1>8 DEF Runs!WritePrompt, Runs!ReadOutput, Runs!Failed, Runs!Finished, RunsInv
    <2>2. c \in Generations => ~Runs!Alive(c)
      BY <2>1 DEF RunsInv, RunsSound
    <2>3. Runs!Alive(c)' <=> Runs!Alive(c)
      BY <2>1 DEF Runs!Alive
    <2>4. QED
      BY <2>1, <2>2, <2>3, CallMoves DEF RunsInv
  <1>9. ASSUME NEW c \in Runs!Calls, Runs!Spawn(c) PROVE RunsInv'
    <2>1. /\ server # "exited" /\ call[c] = "spawn" /\ UNCHANGED <<server, runDir, sentenced>>
          /\ call' = [call EXCEPT ![c] = call'[c]]
      BY <1>9 DEF Runs!Spawn, Runs!Failed, Runs!Finished, RunsInv
    <2>2. \/ /\ server # "terminating" /\ child' = [child EXCEPT ![c] = "alive"] /\ call'[c] = "run"
          \/ /\ child' = child
             /\ c \in Generations => call'[c] = "rm"
      BY <1>9 DEF Runs!Spawn, Runs!MaySpawn, Runs!Closing, Runs!Failed, Runs!Finished, RunsInv
    <2>3. c \in Generations => ~Runs!Alive(c)
      BY <2>1 DEF RunsInv, RunsSound
    <2>4. Runs!Alive(c)' => Runs!Alive(c) \/ (server # "terminating" /\ call'[c] = "run")
      BY <2>1, <2>2 DEF Runs!Alive
    <2>5. c \in Generations => call'[c] \in {"run", "rm"}
      BY <2>2
    <2>6. \A d \in Runs!Calls : d # c => call'[d] = call[d] /\ child'[d] = child[d]
      BY <2>1, <2>2 DEF RunsInv
    <2>7. DOMAIN call' = Runs!Calls /\ DOMAIN child' = Runs!Calls
      BY <2>1, <2>2 DEF RunsInv
    <2>8. QED
      BY <2>1, <2>3, <2>4, <2>5, <2>6, <2>7, CallMoves
  <1>10. ASSUME NEW c \in Runs!Calls, Runs!ChildCloses(c) PROVE RunsInv'
    <2>1. /\ server # "exited" /\ Runs!Alive(c) /\ child' = [child EXCEPT ![c] = "gone"]
          /\ UNCHANGED <<server, runDir, sentenced>>
          /\ Runs!Go(c, "read") \/ Runs!Failed(c) \/ call' = call
      BY <1>10 DEF Runs!ChildCloses
    <2>2. ~Runs!Alive(c)' /\ (c \in Generations => call[c] # "ok")
      BY <2>1 DEF Runs!Alive, RunsInv, RunsSound
    <2>3. DOMAIN call' = Runs!Calls /\ \A d \in Runs!Calls : d # c => call'[d] = call[d]
      BY <2>1, GoesOn
    <2>4. c \in Generations => call'[c] # "ok"
      <3>1. Runs!Go(c, "read") => call'[c] = "read"
        BY DEF RunsInv
      <3>2. QED
        BY <2>1, <2>2, <3>1, GoesToRemove
    <2>5. QED
      BY <2>1, <2>2, <2>3, <2>4, CallMoves DEF RunsInv
  <1>11. ASSUME NEW c \in Runs!Calls, Runs!Abort(c) \/ Runs!Replies(c) \/ Runs!Kill(c) PROVE RunsInv'
    <2>1. /\ server # "exited" /\ Runs!Alive(c)
          /\ \E s : child' = [child EXCEPT ![c] = s]
          /\ UNCHANGED <<server, runDir, sentenced>>
      BY <1>11 DEF Runs!Abort, Runs!Replies, Runs!Kill, Runs!Alive
    <2>2. DOMAIN call' = Runs!Calls /\ \A d \in Runs!Calls : d # c => call'[d] = call[d]
      BY <1>11, GoesOn DEF Runs!Abort, Runs!Replies, Runs!Kill
    <2>3. ASSUME c \in Generations PROVE call'[c] \in {"run", "abort"}
      <3>1. c \notin Statuses
        BY <2>3, LocalHostAssumption DEF Runs!CodexAssumption
      <3>2. call' = [call EXCEPT ![c] = "abort"] \/ call' = call
        BY <1>11, <2>3, <3>1 DEF Runs!Abort, Runs!Replies, Runs!Kill
      <3>3. call[c] \in {"run", "abort"}
        BY <2>1, <2>3 DEF RunsInv, RunsSound
      <3>4. QED
        BY <3>2, <3>3 DEF RunsInv
    <2>4. QED
      BY <2>1, <2>2, <2>3, CallMoves DEF RunsInv
  <1>12. QED
    BY <1>1, <1>2, <1>3, <1>4, <1>5, <1>6, <1>7, <1>8, <1>9, <1>10, <1>11 DEF Runs!CodexNext

LEMMA RunsInit == Runs!CodexInit => RunsInv
  BY DEF Runs!CodexInit, RunsInv, RunsSound, Runs!Alive, Runs!Calls

THEOREM RunsInvHolds == HostSpec => []RunsInv
  <1>1. HostInit => RunsInv
    BY RunsInit DEF HostInit
  <1>2. [HostNext]_<<vars, locksVars, runsVars, sourceVars, side>> => [Runs!CodexNext]_runsVars
    BY DEF HostNext
  <1>3. QED
    BY <1>1, <1>2, RunsStep, PTL DEF HostSpec

\* No child outlives the daemon, and a generation is answered when its child has
\* ended, with success only without its files, for any number of calls that come
\* and go while the daemon stops (LocalCodexProvider.close, generateJson).
THEOREM NothingIsLeft == HostSpec => []LeavesNothing
  <1>1. RunsInv => LeavesNothing
    BY DEF RunsInv, RunsSound, LeavesNothing, Runs!LeavesNothing, Runs!Over
  <1>2. QED
    BY <1>1, RunsInvHolds, PTL

-----------------------------------------------------------------------------
(* The file of folders. *)

LEMMA RequestMoves ==
  ASSUME FoldersTyped, NEW r \in Sources!FolderRequests, NEW s \in FolderSteps, Sources!Go(r, s)
  PROVE  /\ folderReq' \in [Sources!FolderRequests -> FolderRequest]
         /\ folderReq'[r].step = s
         /\ \A q \in Sources!FolderRequests : q # r => folderReq'[q] = folderReq[q]
  <1>1. folderReq[r] \in FolderRequest /\ folderReq' = [folderReq EXCEPT ![r].step = s]
    BY DEF FoldersTyped, Sources!Go
  <1>2. [folderReq[r] EXCEPT !.step = s] \in FolderRequest /\ [folderReq[r] EXCEPT !.step = s].step = s
    BY <1>1 DEF FolderRequest
  <1>3. QED
    BY <1>1, <1>2 DEF FoldersTyped

LEMMA QueueFacts ==
  ASSUME FoldersTyped
  PROVE  /\ Len(writeQueue) \in Nat /\ (writeQueue # <<>> <=> Len(writeQueue) >= 1)
         /\ \A i \in 1 .. Len(writeQueue) : writeQueue[i] \in Sources!FolderRequests
         /\ writeQueue # <<>> => Head(writeQueue) = writeQueue[1]
  BY LenProperties, EmptySeq DEF FoldersTyped

\* A request that is not in the queue moves on outside it.
LEMMA OutsideQueue ==
  ASSUME FoldersInv, NEW r \in Sources!FolderRequests,
         folderReq[r].step \in {"idle", "dialog"}, folderReq'[r].step \in {"idle", "dialog", "over"},
         \A q \in Sources!FolderRequests : q # r => folderReq'[q] = folderReq[q],
         UNCHANGED <<store, writeQueue, loaded>>
  PROVE  FoldersSound'
  <1>1. \A i \in 1 .. Len(writeQueue) : writeQueue[i] # r
    BY DEF FoldersInv, FoldersSound
  <1>2. QED
    BY <1>1, QueueFacts DEF FoldersInv, FoldersSound, Unambiguous

\* A request joins the queue.
LEMMA JoinsQueue ==
  ASSUME FoldersInv, NEW r \in Sources!FolderRequests,
         folderReq[r].step \in {"idle", "dialog"}, folderReq'[r].step = "write",
         \A q \in Sources!FolderRequests : q # r => folderReq'[q] = folderReq[q],
         writeQueue' = Append(writeQueue, r), UNCHANGED <<store, loaded>>
  PROVE  writeQueue' \in Seq(Sources!FolderRequests) /\ FoldersSound'
  <1> DEFINE n == Len(writeQueue)
  <1>1. /\ writeQueue' \in Seq(Sources!FolderRequests) /\ writeQueue' # <<>>
        /\ Len(writeQueue') = n + 1 /\ n \in Nat
        /\ \A i \in 1 .. n : writeQueue'[i] = writeQueue[i]
        /\ writeQueue'[n + 1] = r
    BY AppendProperties, QueueFacts DEF FoldersInv, FoldersTyped
  <1>2. \A i \in 1 .. n : writeQueue[i] \in Sources!FolderRequests /\ writeQueue[i] # r
    BY QueueFacts DEF FoldersInv, FoldersSound
  <1> HIDE DEF n
  <1>3. \A i \in 1 .. (n + 1) : i \in 1 .. n \/ i = n + 1
    BY <1>1
  <1>4. \A i \in 1 .. (n + 1) : folderReq'[writeQueue'[i]].step \in {"write", "change"}
    BY <1>1, <1>2, <1>3 DEF FoldersInv, FoldersSound, n
  <1>5. \A i, j \in 1 .. (n + 1) : writeQueue'[i] = writeQueue'[j] => i = j
    BY <1>1, <1>2, <1>3 DEF FoldersInv, FoldersSound, n
  <1>6. ASSUME NEW q \in Sources!FolderRequests, folderReq'[q].step = "change"
        PROVE  writeQueue'[1] = q /\ loaded'[q] = store'
    <2>1. q # r /\ folderReq[q].step = "change"
      BY <1>6
    <2>2. writeQueue # <<>> /\ writeQueue[1] = q /\ loaded[q] = store
      BY <2>1 DEF FoldersInv, FoldersSound
    <2>3. 1 \in 1 .. n
      BY <1>1, <2>2, QueueFacts DEF FoldersInv, n
    <2>4. QED
      BY <1>1, <2>2, <2>3
  <1>7. QED
    BY <1>1, <1>4, <1>5, <1>6 DEF FoldersInv, FoldersSound, Unambiguous

\* The first of the queue has saved what it made of the file, or nothing.
LEMMA LeavesQueue ==
  ASSUME FoldersInv, NEW r \in Sources!FolderRequests,
         folderReq[r].step = "change", folderReq'[r].step = "over",
         \A q \in Sources!FolderRequests : q # r => folderReq'[q] = folderReq[q],
         writeQueue' = Tail(writeQueue), Unambiguous(store)'
  PROVE  writeQueue' \in Seq(Sources!FolderRequests) /\ FoldersSound'
  <1> DEFINE n == Len(writeQueue)
             m == Len(writeQueue')
  <1>1. writeQueue # <<>> /\ writeQueue[1] = r /\ n \in Nat /\ n >= 1
    BY QueueFacts DEF FoldersInv, FoldersSound
  <1>2. /\ writeQueue' \in Seq(Sources!FolderRequests) /\ m = n - 1
        /\ \A i \in 1 .. m : writeQueue'[i] = writeQueue[i + 1]
    BY <1>1, HeadTailProperties DEF FoldersInv, FoldersTyped
  <1> HIDE DEF m, n
  <1>3. \A i \in 1 .. m : i + 1 \in 1 .. n /\ i + 1 # 1
    BY <1>1, <1>2
  <1>4. 1 \in 1 .. n
    BY <1>1
  <1>5. \A i \in 1 .. m : writeQueue[i + 1] # r /\ writeQueue[i + 1] \in Sources!FolderRequests
    BY <1>1, <1>3, <1>4, QueueFacts DEF FoldersInv, FoldersSound, n
  <1>6. \A i \in 1 .. m : folderReq'[writeQueue'[i]].step \in {"write", "change"}
    BY <1>2, <1>3, <1>5 DEF FoldersInv, FoldersSound, n
  <1>7. \A i, j \in 1 .. m : writeQueue'[i] = writeQueue'[j] => i = j
    <2>1. ASSUME NEW i \in 1 .. m, NEW j \in 1 .. m, writeQueue'[i] = writeQueue'[j] PROVE i = j
      <3>1. i + 1 = j + 1
        BY <1>2, <1>3, <2>1 DEF FoldersInv, FoldersSound, n
      <3>2. QED
        BY <3>1
    <2>2. QED
      BY <2>1
  <1>8. \A q \in Sources!FolderRequests : folderReq'[q].step # "change"
    BY <1>1 DEF FoldersInv, FoldersSound
  <1>9. QED
    BY <1>2, <1>6, <1>7, <1>8 DEF FoldersSound, m

\* What a write makes of the file, if it changes one context only.
LEMMA OneChange ==
  ASSUME NEW context,
         \A s, t \in store \ store' : s = t, \A s, t \in store' \ store : s = t,
         \A s \in (store \ store') \cup (store' \ store) : s.context = context,
         Unambiguous(store)'
  PROVE  Sources!WriteIsOneChange
  <1>1. \A s, t \in (store \ store') \cup (store' \ store) : s.context = t.context
    OBVIOUS
  <1>2. \A s \in store' : \A t \in store' \ {s} : s.context # t.context /\ s.path # t.path
    BY DEF Unambiguous
  <1>3. QED
    BY <1>1, <1>2 DEF Sources!WriteIsOneChange

\* The change attach and detach make of a file they read as it is.
LEMMA AttachChanges ==
  ASSUME FoldersInv, NEW r \in Sources!FolderRequests, Sources!Attach(r), store' # store
  PROVE  Unambiguous(store)' /\ Sources!WriteIsOneChange
  <1> DEFINE context == folderReq[r].context
             own == {s \in store : s.context = context}
             source == Sources!SourceOf(context, lastId', folderReq[r].folder)
  <1>1. loaded[r] = store /\ Unambiguous(store)
    BY DEF Sources!Attach, Sources!At, FoldersInv, FoldersSound
  <1>2. /\ store' = (store \ own) \cup {source}
        /\ \A s \in store : s.path = folderReq[r].folder => s.context = context
    BY <1>1 DEF Sources!Attach, Sources!Conflict, Sources!Own
  <1>3. source.context = context /\ source.path = folderReq[r].folder
    BY DEF Sources!SourceOf
  <1> HIDE DEF source
  <1>4. \A s \in store \ own : s.context # context /\ s.path # source.path
    BY <1>2, <1>3
  <1>5. \A s, t \in store' : s # t => s.context # t.context /\ s.path # t.path
    BY <1>1, <1>2, <1>3, <1>4 DEF Unambiguous
  <1>6. /\ store \ store' \subseteq own /\ store' \ store \subseteq {source}
        /\ \A s \in own : s.context = context
        /\ \A s, t \in own : s = t
    BY <1>1, <1>2 DEF Unambiguous
  <1> HIDE DEF own, context
  <1>7. Unambiguous(store)'
    BY <1>5 DEF Unambiguous
  <1>8. QED
    BY <1>3, <1>6, <1>7, OneChange

LEMMA RemoveChanges ==
  ASSUME FoldersInv, NEW r \in Sources!FolderRequests, Sources!Remove(r)
  PROVE  Unambiguous(store)' /\ Sources!WriteIsOneChange
  <1> DEFINE own == {s \in store : s.context = folderReq[r].context}
  <1>1. loaded[r] = store /\ Unambiguous(store)
    BY DEF Sources!Remove, Sources!At, FoldersInv, FoldersSound
  <1>2. store' \subseteq store /\ store \ store' \subseteq own
    BY <1>1 DEF Sources!Remove, Sources!Own
  <1>3. \A s, t \in own : s = t
    BY <1>1 DEF Unambiguous
  <1>4. \A s, t \in store' : s # t => s.context # t.context /\ s.path # t.path
    BY <1>1, <1>2 DEF Unambiguous
  <1>5. \A s \in own : s.context = folderReq[r].context
    OBVIOUS
  <1> HIDE DEF own
  <1>6. Unambiguous(store)'
    BY <1>4 DEF Unambiguous
  <1>7. QED
    BY <1>2, <1>3, <1>5, <1>6, OneChange

LEMMA FoldersStep == FoldersInv /\ [Sources!FolderNext]_sourceVars => FoldersInv'
  <1> SUFFICES ASSUME FoldersInv, [Sources!FolderNext]_sourceVars PROVE FoldersInv'
    OBVIOUS
  <1>1. CASE UNCHANGED sourceVars
    BY <1>1 DEF sourceVars, FoldersInv, FoldersTyped, FoldersSound, Unambiguous
  <1>2. FoldersTyped
    BY DEF FoldersInv
  <1>3. ASSUME NEW r \in Sources!FolderRequests, Sources!Refuse(r) PROVE FoldersInv'
    <2>1. /\ folderReq[r].step = "idle" /\ Sources!Go(r, "over")
          /\ UNCHANGED <<store, writeQueue, loaded, lastId>>
      BY <1>3 DEF Sources!Refuse, Sources!At
    <2>2. /\ folderReq' \in [Sources!FolderRequests -> FolderRequest] /\ folderReq'[r].step = "over"
          /\ \A q \in Sources!FolderRequests : q # r => folderReq'[q] = folderReq[q]
      BY <1>2, <2>1, RequestMoves DEF FolderSteps
    <2>3. QED
      BY <1>2, <2>1, <2>2, OutsideQueue DEF FoldersInv, FoldersTyped
  <1>4. ASSUME NEW r \in Sources!FolderRequests, NEW context \in Contexts, Sources!Pick(r, context)
        PROVE  FoldersInv'
    <2> DEFINE asked == [Sources!Idle EXCEPT !.step = "dialog", !.context = context]
    <2>1. folderReq[r].step = "idle" /\ UNCHANGED <<store, writeQueue, loaded, lastId>>
      BY <1>4 DEF Sources!Pick, Sources!At
    <2>2. asked \in FolderRequest /\ asked.step = "dialog"
      BY DEF Sources!Idle, FolderRequest, FolderSteps
    <2>3. Sources!Go(r, "over") \/ folderReq' = [folderReq EXCEPT ![r] = asked]
      BY <1>4 DEF Sources!Pick
    <2> HIDE DEF asked
    <2>4. /\ folderReq' \in [Sources!FolderRequests -> FolderRequest]
          /\ folderReq'[r].step \in {"dialog", "over"}
          /\ \A q \in Sources!FolderRequests : q # r => folderReq'[q] = folderReq[q]
      <3>1. CASE Sources!Go(r, "over")
        BY <1>2, <3>1, RequestMoves DEF FolderSteps
      <3>2. CASE folderReq' = [folderReq EXCEPT ![r] = asked]
        BY <1>2, <2>2, <3>2 DEF FoldersTyped
      <3>3. QED
        BY <2>3, <3>1, <3>2
    <2>5. QED
      BY <1>2, <2>1, <2>4, OutsideQueue DEF FoldersInv, FoldersTyped
  <1>5. ASSUME NEW r \in Sources!FolderRequests, NEW folder \in Sources!Choices,
               Sources!Chosen(r, folder)
        PROVE  FoldersInv'
    <2>1. folderReq[r].step = "dialog" /\ UNCHANGED <<store, loaded, lastId>>
      BY <1>5 DEF Sources!Chosen, Sources!At
    <2>2. CASE folder = NoFolder
      <3>1. Sources!Go(r, "over") /\ UNCHANGED writeQueue
        BY <1>5, <2>2 DEF Sources!Chosen
      <3>2. /\ folderReq' \in [Sources!FolderRequests -> FolderRequest] /\ folderReq'[r].step = "over"
            /\ \A q \in Sources!FolderRequests : q # r => folderReq'[q] = folderReq[q]
        BY <1>2, <3>1, RequestMoves DEF FolderSteps
      <3>3. QED
        BY <1>2, <2>1, <3>1, <3>2, OutsideQueue DEF FoldersInv, FoldersTyped
    <2>3. CASE folder # NoFolder
      <3>1. /\ folderReq' = [folderReq EXCEPT ![r].step = "write", ![r].folder = folder]
            /\ writeQueue' = Append(writeQueue, r)
        BY <1>5, <2>3 DEF Sources!Chosen
      <3>2. folder \in Folders \cup {NoFolder} /\ folderReq[r] \in FolderRequest
        BY <1>2 DEF Sources!Choices, FoldersTyped
      <3>3. /\ [folderReq[r] EXCEPT !.step = "write", !.folder = folder] \in FolderRequest
            /\ [folderReq[r] EXCEPT !.step = "write", !.folder = folder].step = "write"
        BY <3>2 DEF FolderRequest, FolderSteps
      <3>4. folderReq' = [folderReq EXCEPT ![r] = [folderReq[r] EXCEPT !.step = "write", !.folder = folder]]
        BY <1>2, <3>1 DEF FoldersTyped
      <3>5. /\ folderReq' \in [Sources!FolderRequests -> FolderRequest] /\ folderReq'[r].step = "write"
            /\ \A q \in Sources!FolderRequests : q # r => folderReq'[q] = folderReq[q]
        BY <1>2, <3>3, <3>4 DEF FoldersTyped
      <3>6. QED
        BY <1>2, <2>1, <3>1, <3>5, JoinsQueue DEF FoldersInv, FoldersTyped
    <2>4. QED
      BY <2>2, <2>3
  <1>6. ASSUME NEW r \in Sources!FolderRequests, NEW context \in Contexts, NEW id \in 1 .. lastId,
               Sources!Detach(r, context, id)
        PROVE  FoldersInv'
    <2> DEFINE asked == [step |-> "write", context |-> context, folder |-> NoFolder, id |-> id]
    <2>1. /\ folderReq[r].step = "idle" /\ UNCHANGED <<store, loaded, lastId>>
          /\ folderReq' = [folderReq EXCEPT ![r] = asked]
          /\ writeQueue' = Append(writeQueue, r)
      BY <1>6 DEF Sources!Detach, Sources!At
    <2>2. id \in Nat
      BY <1>2 DEF FoldersTyped
    <2>3. asked \in FolderRequest /\ asked.step = "write"
      BY <2>2 DEF FolderRequest, FolderSteps
    <2> HIDE DEF asked
    <2>4. /\ folderReq' \in [Sources!FolderRequests -> FolderRequest] /\ folderReq'[r].step = "write"
          /\ \A q \in Sources!FolderRequests : q # r => folderReq'[q] = folderReq[q]
      BY <1>2, <2>1, <2>3 DEF FoldersTyped
    <2>5. QED
      BY <1>2, <2>1, <2>4, JoinsQueue DEF FoldersInv, FoldersTyped
  <1>7. ASSUME NEW r \in Sources!FolderRequests, Sources!Load(r) PROVE FoldersInv'
    <2>1. /\ writeQueue # <<>> /\ Head(writeQueue) = r /\ Sources!Go(r, "change")
          /\ loaded' = [loaded EXCEPT ![r] = store]
          /\ UNCHANGED <<store, writeQueue, lastId>>
      BY <1>7 DEF Sources!Load, Sources!Turn
    <2>2. writeQueue[1] = r
      BY <1>2, <2>1, QueueFacts
    <2>3. /\ folderReq' \in [Sources!FolderRequests -> FolderRequest] /\ folderReq'[r].step = "change"
          /\ \A q \in Sources!FolderRequests : q # r => folderReq'[q] = folderReq[q]
      BY <1>2, <2>1, RequestMoves DEF FolderSteps
    <2>4. /\ DOMAIN loaded' = Sources!FolderRequests /\ loaded'[r] = store
          /\ \A q \in Sources!FolderRequests : q # r => loaded'[q] = loaded[q]
      BY <1>2, <2>1 DEF FoldersTyped
    <2>5. \A i \in 1 .. Len(writeQueue) : folderReq'[writeQueue[i]].step \in {"write", "change"}
      BY <1>2, <2>3, QueueFacts DEF FoldersInv, FoldersSound
    <2>6. \A q \in Sources!FolderRequests : folderReq'[q].step = "change" =>
            writeQueue # <<>> /\ writeQueue[1] = q /\ loaded'[q] = store
      BY <2>1, <2>2, <2>3, <2>4 DEF FoldersInv, FoldersSound
    <2>7. FoldersSound'
      BY <2>1, <2>5, <2>6 DEF FoldersInv, FoldersSound, Unambiguous
    <2>8. QED
      BY <1>2, <2>1, <2>3, <2>4, <2>7 DEF FoldersInv, FoldersTyped
  <1>8. ASSUME NEW r \in Sources!FolderRequests, Sources!At(r, "change"), Sources!Over(r),
               Unambiguous(store)', lastId' \in Nat
        PROVE  FoldersInv'
    <2>1. /\ Sources!Go(r, "over") /\ writeQueue' = Tail(writeQueue) /\ folderReq[r].step = "change"
          /\ loaded' = [loaded EXCEPT ![r] = {}]
      BY <1>8 DEF Sources!Over, Sources!At
    <2>2. /\ folderReq' \in [Sources!FolderRequests -> FolderRequest] /\ folderReq'[r].step = "over"
          /\ \A q \in Sources!FolderRequests : q # r => folderReq'[q] = folderReq[q]
      BY <1>2, <2>1, RequestMoves DEF FolderSteps
    <2>3. DOMAIN loaded' = Sources!FolderRequests
      BY <1>2, <2>1 DEF FoldersTyped
    <2>4. writeQueue' \in Seq(Sources!FolderRequests) /\ FoldersSound'
      BY <1>8, <2>1, <2>2, LeavesQueue
    <2>5. QED
      BY <1>8, <2>2, <2>3, <2>4 DEF FoldersInv, FoldersTyped
  <1>9. ASSUME NEW r \in Sources!FolderRequests, Sources!Attach(r) PROVE FoldersInv'
    <2>1. Sources!At(r, "change") /\ Sources!Over(r) /\ lastId' \in Nat
      BY <1>2, <1>9 DEF Sources!Attach, FoldersTyped
    <2>2. Unambiguous(store)'
      <3>1. CASE store' = store
        BY <3>1 DEF FoldersInv, FoldersSound, Unambiguous
      <3>2. QED
        BY <1>9, <3>1, AttachChanges
    <2>3. QED
      BY <1>8, <2>1, <2>2
  <1>10. ASSUME NEW r \in Sources!FolderRequests, Sources!Remove(r) PROVE FoldersInv'
    <2>1. Sources!At(r, "change") /\ Sources!Over(r) /\ lastId' \in Nat
      BY <1>2, <1>10 DEF Sources!Remove, FoldersTyped
    <2>2. QED
      BY <1>8, <1>10, <2>1, RemoveChanges
  <1>11. ASSUME NEW r \in Sources!FolderRequests, Sources!WriteFails(r) PROVE FoldersInv'
    <2>1. Sources!At(r, "change") /\ Sources!Over(r) /\ lastId' \in Nat /\ store' = store
      BY <1>2, <1>11 DEF Sources!WriteFails, FoldersTyped
    <2>2. Unambiguous(store)'
      BY <2>1 DEF FoldersInv, FoldersSound, Unambiguous
    <2>3. QED
      BY <1>8, <2>1, <2>2
  <1>12. QED
    BY <1>1, <1>3, <1>4, <1>5, <1>6, <1>7, <1>9, <1>10, <1>11 DEF Sources!FolderNext

LEMMA FoldersInit == Sources!FolderInit => FoldersInv
  <1> SUFFICES ASSUME Sources!FolderInit PROVE FoldersInv
    OBVIOUS
  <1>1. Sources!Idle \in FolderRequest /\ Sources!Idle.step = "idle"
    BY DEF Sources!Idle, FolderRequest, FolderSteps
  <1>2. /\ folderReq \in [Sources!FolderRequests -> FolderRequest]
        /\ \A r \in Sources!FolderRequests : folderReq[r].step = "idle"
    BY <1>1 DEF Sources!FolderInit
  <1>3. writeQueue = <<>> /\ writeQueue \in Seq(Sources!FolderRequests) /\ Len(writeQueue) = 0
    BY DEF Sources!FolderInit
  <1>4. store = {} /\ DOMAIN loaded = Sources!FolderRequests /\ lastId \in Nat
    BY DEF Sources!FolderInit
  <1>5. QED
    BY <1>2, <1>3, <1>4 DEF FoldersInv, FoldersTyped, FoldersSound, Unambiguous

THEOREM FoldersInvHolds == HostSpec => []FoldersInv
  <1>1. HostInit => FoldersInv
    BY FoldersInit DEF HostInit
  <1>2. [HostNext]_<<vars, locksVars, runsVars, sourceVars, side>> => [Sources!FolderNext]_sourceVars
    BY DEF HostNext
  <1>3. QED
    BY <1>1, <1>2, FoldersStep, PTL DEF HostSpec

\* Whatever picks and detaches overlap, each write of the file puts in or takes
\* out the one source of one Project and leaves no folder with two Projects and
\* no Project with two folders, for any number of requests (attach and detach
\* through #writeQueue of folder-sources.ts).
THEOREM EachWriteIsOneChange == HostSpec => FoldersHold
  <1>1. FoldersInv /\ [Sources!FolderNext]_sourceVars => [store' # store => Sources!WriteIsOneChange]_sourceVars
    <2> SUFFICES ASSUME FoldersInv, [Sources!FolderNext]_sourceVars, store' # store
                 PROVE  Sources!WriteIsOneChange
      OBVIOUS
    <2>1. ASSUME NEW r \in Sources!FolderRequests, NEW context, NEW folder, NEW id,
                 \/ Sources!Refuse(r) \/ Sources!Pick(r, context) \/ Sources!Chosen(r, folder)
                 \/ Sources!Detach(r, context, id) \/ Sources!Load(r) \/ Sources!WriteFails(r)
          PROVE  store' = store
      BY <2>1 DEF Sources!Refuse, Sources!Pick, Sources!Chosen, Sources!Detach, Sources!Load, Sources!WriteFails
    <2>2. \E r \in Sources!FolderRequests : Sources!Attach(r) \/ Sources!Remove(r)
      BY <2>1 DEF Sources!FolderNext, sourceVars
    <2>3. QED
      BY <2>2, AttachChanges, RemoveChanges
  <1>2. [HostNext]_<<vars, locksVars, runsVars, sourceVars, side>> => [Sources!FolderNext]_sourceVars
    BY DEF HostNext
  <1>3. QED
    BY <1>1, <1>2, FoldersInvHolds, PTL DEF HostSpec, FoldersHold

=============================================================================
