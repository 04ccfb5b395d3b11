------------------------------ MODULE Cutover ------------------------------
(***************************************************************************)
(* One Node under the manager daemon: start, stop, restart and              *)
(* restoreApply under the Node's operation lock, the cutover to a new       *)
(* database volume with its journal and its rollback, and what a restarted  *)
(* daemon makes of an operation it finds half done.  A step ends where the  *)
(* code writes .env, nodes.json or the operation file or calls Docker: the  *)
(* daemon can die between any two of them, while the containers live on.    *)
(***************************************************************************)
EXTENDS Naturals, Sequences, FiniteSets, Functions, FiniteSetsExt, SequencesExt

CONSTANTS
    Callers,        \* API callers of the daemon, one request at a time each
    Timer,          \* the reconcile timer, a caller as well
    Records,        \* records a running stack may accept
    MaxGeneration,  \* bound: volume generations
    MaxRestores,    \* bound: restore operations
    MaxCrashes,     \* bound: deaths of the daemon
    MaxOutages      \* bound: outages of the Docker engine

ASSUME CutoverAssumption ==
    /\ Timer \in Callers
    /\ {MaxGeneration, MaxRestores, MaxCrashes, MaxOutages} \subseteq Nat
    /\ MaxGeneration > MaxRestores

VARIABLES
    node,       \* the registry's record: generation and desired_state
    env,        \* DB_VOLUME_NAME of the Node's .env, as a generation
    stack,      \* the containers: what runs, on which volume
    docker,     \* does the Docker engine answer
    volumes,    \* generation |-> the records in that volume
    sick,       \* volumes the stack never becomes ready on
    backups,    \* the record sets of the verified backups
    ops,        \* the journal of restore operations
    call,       \* a request that has read the Node and wants the lock
    job,        \* the operation in progress: under the lock, or at boot
    daemon,     \* "dead", "booting" or "serving"
    crashes, outages

vars == <<node, env, stack, docker, volumes, sick, backups, ops, call, job, daemon,
          crashes, outages>>
data == <<volumes, sick, backups>>
faults == <<docker, crashes, outages>>

Generations == 1 .. MaxGeneration
Kinds == {"start", "stop", "restart", "restore"}
Idle == [step |-> "idle"]
NoCutover == [from |-> 0, to |-> 0]
NoBackup == [of |-> 0, records |-> {}]
NewOp == [state |-> "running", cutover |-> NoCutover, safety |-> NoBackup, active |-> NoCutover]

Init ==
    /\ node = [generation |-> 1, desired |-> "stopped"]
    /\ env = 1
    /\ stack = [runs |-> "nothing", volume |-> 1]
    /\ docker = TRUE
    /\ volumes = [g \in {1} |-> {}]
    /\ sick = {}
    /\ backups = {{}}
    /\ ops = <<>>
    /\ call = [c \in Callers |-> Idle]
    /\ job = Idle
    /\ daemon = "serving"
    /\ crashes = 0 /\ outages = 0

-----------------------------------------------------------------------------
WritersLeftRunning == stack

\* docker compose up recreates the database container on the volume .env names.
Up == stack' = [runs |-> "all", volume |-> env]
Halted == [stack EXCEPT !.runs = "nothing"]
WritersStopped == [stack EXCEPT !.runs = IF @ = "all" THEN "database" ELSE @]

\* waitForReady after an up: ready or degraded on a good volume only, and not
\* always within the start timeout.
Ready == env \notin sick

At(step) == daemon # "dead" /\ job.step = step

Goto(step) == job' = [job EXCEPT !.step = step]

ThisOp == ops[job.op]
Journal(entry) == ops' = [ops EXCEPT ![job.op] = entry]

Release == job' = Idle

\* The failure of a step: restoreApply's catch, or the catch of lifecycle.
Throw == Goto("resume") /\ UNCHANGED <<node, env, stack, data, ops, call, daemon, faults>>

-----------------------------------------------------------------------------
(* Requests.  Each reads the Node before it asks for the lock. *)

Ask(c, kind) ==
    /\ daemon = "serving"
    /\ call[c] = Idle
    /\ call' = [call EXCEPT ![c] = [step |-> kind, node |-> node]]
    /\ UNCHANGED <<node, env, stack, data, ops, job, daemon, faults>>

Request(c, kind) == c # Timer /\ Ask(c, kind)

\* Mistaken: status calls a Node that should run failed, never stopped.
StartsStoppedOnly == FALSE

\* reconcileDesiredNodes: skipped while Docker does not answer.
NeedsStop  == node.desired = "stopped" /\ stack.runs # "nothing"
NeedsStart == node.desired = "running" /\ (stack.runs # "all" \/ stack.volume \in sick)

Reconcile ==
    /\ docker
    /\ \/ NeedsStop /\ Ask(Timer, "stop")
       \/ NeedsStart /\ Ask(Timer, "start")

LockFree == job = Idle

\* withNodeLock: a live holder makes it refuse; a dead one it pushes aside.
Refused(c) ==
    /\ daemon = "serving" /\ call[c] # Idle
    /\ ~LockFree \/ (call[c].step = "restore" /\ Len(ops) = MaxRestores)
    /\ call' = [call EXCEPT ![c] = Idle]
    /\ UNCHANGED <<node, env, stack, data, ops, job, daemon, faults>>

Begin(c) ==
    /\ daemon = "serving" /\ LockFree
    /\ call[c].step \in {"start", "stop", "restart"}
    /\ job' = [step |-> call[c].step, read |-> call[c].node]
    /\ call' = [call EXCEPT ![c] = Idle]
    /\ UNCHANGED <<node, env, stack, data, ops, daemon, faults>>

BeginRestore(c) ==
    /\ daemon = "serving" /\ LockFree
    /\ call[c].step = "restore" /\ Len(ops) < MaxRestores
    /\ ops' = Append(ops, NewOp)
    /\ job' = [step |-> "check", read |-> call[c].node, op |-> Len(ops) + 1, to |-> 0, env |-> 0]
    /\ call' = [call EXCEPT ![c] = Idle]
    /\ UNCHANGED <<node, env, stack, data, daemon, faults>>

-----------------------------------------------------------------------------
(* start, restart and stop.  A step that fails ends the operation. *)

\* validateRuntimeIdentity compares .env with the Node as the request read it.
IdentityValid == env = job.read.generation

\* ensureImages throws while Docker does not answer, and nothing is marked.
MarkRunning ==
    /\ At("start") \/ At("restart")
    /\ IF IdentityValid /\ docker
       THEN /\ node' = [node EXCEPT !.desired = "running"]
            /\ Goto(IF job.step = "restart" THEN "restart stop" ELSE "up")
       ELSE Release /\ UNCHANGED node
    /\ UNCHANGED <<env, stack, data, ops, call, daemon, faults>>

RestartStop ==
    /\ At("restart stop")
    /\ IF docker THEN stack' = Halted /\ Goto("up") ELSE Release /\ UNCHANGED stack
    /\ UNCHANGED <<node, env, data, ops, call, daemon, faults>>

BringUp ==
    /\ At("up")
    /\ IF docker THEN Up ELSE UNCHANGED stack
    /\ Release
    /\ UNCHANGED <<node, env, data, ops, call, daemon, faults>>

MarkStopped ==
    /\ At("stop")
    /\ node' = [node EXCEPT !.desired = "stopped"]
    /\ Goto("halt")
    /\ UNCHANGED <<env, stack, data, ops, call, daemon, faults>>

Halt ==
    /\ At("halt")
    /\ IF docker THEN stack' = Halted ELSE UNCHANGED stack
    /\ Release
    /\ UNCHANGED <<node, env, data, ops, call, daemon, faults>>

-----------------------------------------------------------------------------
(* restoreApply up to the journal entry. *)

\* The Node is read again under the lock; verifyDump before that needs Docker.
Check ==
    /\ At("check")
    /\ \/ /\ docker
          /\ job' = [job EXCEPT !.read = node, !.step =
                IF job.read.generation = node.generation THEN "quiesce" ELSE "resume"]
          /\ UNCHANGED <<node, env, stack, data, ops, call, daemon, faults>>
       \/ Throw

Quiesce ==
    /\ At("quiesce")
    /\ \/ docker /\ stack' = WritersStopped /\ Goto("snapshot")
          /\ UNCHANGED <<node, env, data, ops, call, daemon, faults>>
       \/ Throw                                     \* Docker, or a pending MCP queue

\* snapshotWhileQuiesced dumps the database container that runs.
Snapshot ==
    /\ At("snapshot")
    /\ \/ /\ docker /\ stack.runs # "nothing"
          /\ backups' = backups \cup {volumes[stack.volume]}
          /\ Journal([ThisOp EXCEPT !.safety =
                        [of |-> stack.volume, records |-> volumes[stack.volume]]])
          /\ Goto("stage")
          /\ UNCHANGED <<node, env, stack, volumes, sick, call, daemon, faults>>
       \/ Throw

NextGeneration == job.read.generation + 1

\* nextUnusedGeneration skips volumes that earlier attempts left behind.
NextUnused == Min({g \in Generations : g > job.read.generation /\ g \notin DOMAIN volumes})

WithVolume(g, records) ==
    [h \in DOMAIN volumes \cup {g} |-> IF h = g THEN records ELSE volumes[h]]

\* stageDatabase loads a backup into a new volume; a volume it gives up stays.
Stage ==
    /\ At("stage")
    /\ \/ /\ docker
          /\ \E backup \in backups, healthy \in BOOLEAN :
                /\ volumes' = WithVolume(NextUnused, backup)
                /\ sick' = IF healthy THEN sick ELSE sick \cup {NextUnused}
          /\ job' = [job EXCEPT !.step = "journal", !.to = NextUnused]
       \/ /\ docker
          /\ volumes' = WithVolume(NextUnused, {})
          /\ Goto("resume") /\ UNCHANGED sick
       \/ ~docker /\ Goto("resume") /\ UNCHANGED <<volumes, sick>>
    /\ UNCHANGED <<node, env, stack, backups, ops, call, daemon, faults>>

JournalCutover ==
    /\ At("journal")
    /\ Journal([ThisOp EXCEPT !.cutover = [from |-> job.read.generation, to |-> job.to]])
    /\ Goto("cut stop")
    /\ UNCHANGED <<node, env, stack, data, call, daemon, faults>>

-----------------------------------------------------------------------------
(* cutover: switch .env and the registry, then see whether the stack lives. *)

CutStop ==
    /\ At("cut stop")
    /\ IF docker
       THEN /\ job' = [job EXCEPT !.step = "cut env", !.env = env]
            /\ stack' = Halted
       ELSE Goto("resume") /\ UNCHANGED stack
    /\ UNCHANGED <<node, env, data, ops, call, daemon, faults>>

CutEnv ==
    /\ At("cut env")
    /\ env' = job.to
    /\ Goto("cut node")
    /\ UNCHANGED <<node, stack, data, ops, call, daemon, faults>>

CutNode ==
    /\ At("cut node")
    /\ node' = [generation |-> job.to, desired |-> "running"]
    /\ Goto("cut up")
    /\ UNCHANGED <<env, stack, data, ops, call, daemon, faults>>

CutUp ==
    /\ At("cut up")
    /\ IF docker THEN Up ELSE UNCHANGED stack
    /\ \/ docker /\ Ready /\ Goto("succeed")
       \/ Goto("back stop")
    /\ UNCHANGED <<node, env, data, ops, call, daemon, faults>>

\* The result that reports success takes the place of the journal entry.
Succeed ==
    /\ At("succeed")
    /\ Journal([ThisOp EXCEPT !.state = "succeeded", !.cutover = NoCutover,
                                  !.active = ThisOp.cutover])
    /\ Release
    /\ UNCHANGED <<node, env, stack, data, call, daemon, faults>>

BackStop ==
    /\ At("back stop")
    /\ stack' = IF docker THEN Halted ELSE stack
    /\ Goto("back env")
    /\ UNCHANGED <<node, env, data, ops, call, daemon, faults>>

EnvOfNow == env

OriginalEnv == job.env

BackEnv ==
    /\ At("back env")
    /\ env' = OriginalEnv
    /\ Goto("back node")
    /\ UNCHANGED <<node, stack, data, ops, call, daemon, faults>>

BackNode ==
    /\ At("back node")
    /\ node' = [generation |-> job.read.generation, desired |-> "running"]
    /\ Goto("back up")
    /\ UNCHANGED <<env, stack, data, ops, call, daemon, faults>>

BackUp ==
    /\ At("back up")
    /\ IF docker THEN Up ELSE UNCHANGED stack
    /\ Goto("resume")
    /\ UNCHANGED <<node, env, data, ops, call, daemon, faults>>

\* resumeExistingGeneration goes by the Node the operation read.
Resume ==
    /\ At("resume")
    /\ IF docker /\ job.read.desired = "running" THEN Up ELSE UNCHANGED stack
    /\ Goto("fail")
    /\ UNCHANGED <<node, env, data, ops, call, daemon, faults>>

Fail ==
    /\ At("fail")
    /\ Journal([ThisOp EXCEPT !.state = "failed"])
    /\ Release
    /\ UNCHANGED <<node, env, stack, data, call, daemon, faults>>

-----------------------------------------------------------------------------
(* The daemon dies and comes back. *)

Crash ==
    /\ daemon # "dead" /\ crashes < MaxCrashes
    /\ crashes' = crashes + 1
    /\ daemon' = "dead"
    /\ job' = Idle
    /\ call' = [c \in Callers |-> Idle]
    /\ UNCHANGED <<node, env, stack, docker, data, ops, outages>>

InterruptedForgotten == ops

\* recoverInterruptedOperations, with what it makes of the journal.
Interrupted == [i \in DOMAIN ops |->
    IF ops[i].state = "running" THEN [ops[i] EXCEPT !.state = "needs_attention"] ELSE ops[i]]

\* reconcileInterruptedCutovers looks for the newest entry it has not recovered.
Unrecovered(journal) ==
    {i \in DOMAIN journal : journal[i].state = "needs_attention" /\ journal[i].cutover # NoCutover}

Boot ==
    /\ daemon = "dead"
    /\ ops' = Interrupted
    /\ IF Unrecovered(Interrupted) = {}
       THEN daemon' = "serving" /\ UNCHANGED job
       ELSE /\ daemon' = "booting"
            /\ job' = [step |-> "boot stop", op |-> Max(Unrecovered(Interrupted))]
    /\ UNCHANGED <<node, env, stack, data, call, faults>>

BootStop ==
    /\ At("boot stop")
    /\ stack' = IF docker THEN Halted ELSE stack
    /\ Goto("boot env")
    /\ UNCHANGED <<node, env, data, ops, call, daemon, faults>>

BootEnv ==
    /\ At("boot env")
    /\ env' = ThisOp.cutover.from
    /\ Goto("boot node")
    /\ UNCHANGED <<node, stack, data, ops, call, daemon, faults>>

BootNode ==
    /\ At("boot node")
    /\ node' = [node EXCEPT !.generation = ThisOp.cutover.from]
    /\ Goto(IF node.desired = "running" THEN "boot up" ELSE "boot done")
    /\ UNCHANGED <<env, stack, data, ops, call, daemon, faults>>

\* A failure to come up leaves the entry to the next start of the daemon.
BootUp ==
    /\ At("boot up")
    /\ IF docker THEN Up ELSE UNCHANGED stack
    /\ \/ docker /\ Ready /\ Goto("boot done") /\ UNCHANGED daemon
       \/ Release /\ daemon' = "serving"
    /\ UNCHANGED <<node, env, data, ops, call, faults>>

BootDone ==
    /\ At("boot done")
    /\ Journal([ThisOp EXCEPT !.state = "recovered"])
    /\ daemon' = "serving"
    /\ Release
    /\ UNCHANGED <<node, env, stack, data, call, faults>>

-----------------------------------------------------------------------------
(* The containers and the Docker engine. *)

\* Core takes records only on a volume it becomes ready on.
Accept(r) ==
    /\ stack.runs = "all" /\ stack.volume \notin sick
    /\ r \notin UNION Range(volumes)
    /\ volumes' = [volumes EXCEPT ![stack.volume] = @ \cup {r}]
    /\ UNCHANGED <<node, env, stack, sick, backups, ops, call, job, daemon, faults>>

\* The engine stops answering; containers that run go on running.
DockerFails ==
    /\ docker /\ outages < MaxOutages
    /\ docker' = FALSE /\ outages' = outages + 1
    /\ UNCHANGED <<node, env, stack, data, ops, call, job, daemon, crashes>>

DockerReturns ==
    /\ ~docker /\ docker' = TRUE
    /\ UNCHANGED <<node, env, stack, data, ops, call, job, daemon, crashes, outages>>

-----------------------------------------------------------------------------
Lifecycle == MarkRunning \/ RestartStop \/ BringUp \/ MarkStopped \/ Halt

Staging == Check \/ Quiesce \/ Snapshot \/ Stage \/ JournalCutover

Switching == CutStop \/ CutEnv \/ CutNode \/ CutUp \/ Succeed

RollingBack == BackStop \/ BackEnv \/ BackNode \/ BackUp \/ Resume \/ Fail

Booting == Boot \/ BootStop \/ BootEnv \/ BootNode \/ BootUp \/ BootDone

Serve(c) == Refused(c) \/ Begin(c) \/ BeginRestore(c)

Step == Lifecycle \/ Staging \/ Switching \/ RollingBack \/ Booting

Next ==
    \/ \E c \in Callers : Serve(c) \/ \E kind \in Kinds : Request(c, kind)
    \/ Step \/ Reconcile \/ Crash \/ DockerFails \/ DockerReturns
    \/ \E r \in Records : Accept(r)

Spec == Init /\ [][Next]_vars

\* Node runs the daemon's promises to their end, setInterval fires the timer,
\* the service manager restarts the daemon and Docker comes back.
Fairness ==
    /\ WF_vars(Step) /\ WF_vars(DockerReturns)
    /\ WF_vars(Reconcile) /\ \A c \in Callers : WF_vars(Serve(c))

FairSpec == Spec /\ Fairness

-----------------------------------------------------------------------------
NodeRows == [generation : Generations, desired : {"running", "stopped"}]

Cuts == [from : Generations, to : Generations] \cup {NoCutover}

Ops == [state : {"running", "needs_attention", "recovered", "failed", "succeeded"},
        cutover : Cuts, active : Cuts,
        safety : [of : 0 .. MaxGeneration, records : SUBSET Records]]

LifecycleSteps == {"start", "stop", "restart", "restart stop", "up", "halt"}
StagingSteps   == {"check", "quiesce", "snapshot", "stage", "journal"}
CutoverSteps   == {"cut stop", "cut env", "cut node", "cut up", "succeed",
                   "back stop", "back env", "back node", "back up"}
RestoreSteps   == StagingSteps \cup CutoverSteps \cup {"resume", "fail"}
BootSteps      == {"boot stop", "boot env", "boot node", "boot up", "boot done"}

Jobs == {Idle} \cup [step : LifecycleSteps, read : NodeRows]
               \cup [step : RestoreSteps, read : NodeRows, op : Nat, to : 0 .. MaxGeneration,
                     env : 0 .. MaxGeneration]
               \cup [step : BootSteps, op : Nat]

\* Every variable keeps its type; .env, the registry, the containers and a
\* journal entry name volumes that exist.
TypeOK ==
    /\ node \in NodeRows
    /\ volumes \in [DOMAIN volumes -> SUBSET Records] /\ DOMAIN volumes \subseteq Generations
    /\ {env, node.generation} \subseteq DOMAIN volumes
    /\ stack \in [runs : {"nothing", "database", "all"}, volume : DOMAIN volumes]
    /\ sick \subseteq DOMAIN volumes /\ backups \subseteq SUBSET Records
    /\ ops \in Seq(Ops)
    /\ \A i \in DOMAIN ops : {ops[i].cutover.from, ops[i].cutover.to} \subseteq DOMAIN volumes \cup {0}
    /\ call \in [Callers -> {Idle} \cup [step : Kinds, node : NodeRows]]
    /\ job \in Jobs
    /\ daemon \in {"dead", "booting", "serving"} /\ docker \in BOOLEAN
    /\ crashes \in 0 .. MaxCrashes /\ outages \in 0 .. MaxOutages

\* Between operations .env and the registry name the same generation, whatever
\* write a crash fell between and however the recovery of it went: otherwise
\* validateRuntimeIdentity would refuse every later start.
IdentityHolds == daemon = "serving" /\ LockFree => env = node.generation

\* No operation overwrites a volume or takes a record out of one: "Preserve both
\* the previous generation and the backup" (restorePlan).
GenerationsPreserved ==
    [][\A g \in DOMAIN volumes : g \in DOMAIN volumes' /\ volumes[g] \subseteq volumes'[g]]_vars

\* When a restore reports success its pre-restore backup holds every record of the
\* database it replaced: nothing was accepted there since the snapshot.
RestoreIsBackedUp ==
    [][\A i \in DOMAIN ops :
         ops[i].state # "succeeded" /\ ops'[i].state = "succeeded"
            => volumes[ops[i].safety.of] = ops[i].safety.records]_vars

\* A restore that reports failure, or is recovered at the next start, leaves the
\* Node on the generation it found.
UndoneIsUndone ==
    [][\A i \in DOMAIN ops :
         /\ ops[i].state # ops'[i].state
         /\ ops'[i].state \in {"failed", "recovered"} /\ ops[i].cutover # NoCutover
         => env = ops[i].cutover.from /\ node.generation = ops[i].cutover.from]_vars

\* The stack comes to what the Node desires, or the desire changes.
Served == stack.runs = "all" /\ stack.volume \notin sick

ReachesDesired ==
    /\ node.desired = "running" ~> Served \/ node.desired = "stopped"
    /\ node.desired = "stopped" ~> stack.runs = "nothing" \/ node.desired = "running"

=============================================================================
