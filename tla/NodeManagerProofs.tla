-------------------------- MODULE NodeManagerProofs --------------------------
(***************************************************************************)
(* What the run of NodeManager checks of the safety of restores and of model *)
(* changes, proved for any number of callers, generations, models, deaths    *)
(* of the daemon and outages of Docker.                                      *)
(***************************************************************************)
EXTENDS NodeManager, SequenceTheorems, WellFoundedInduction, TLAPS

(* Restores (Cutover). *)

\* Volumes are numbered without gaps, one at most for each restore.
Numbered ==
    /\ Len(ops) <= MaxRestores
    /\ \E n \in Generations :
        /\ DOMAIN volumes = 1 .. n
        /\ n <= Len(ops) + 1
        /\ job.step \in {"check", "quiesce", "snapshot", "stage"} => n <= Len(ops)

\* .env and the registry differ at two steps of a restore only, or after a death
\* at one of them while the journal knows the generation to go back to.
RestoreSettled ==
    /\ job.op \in DOMAIN ops /\ ops[job.op].state = "running"
    /\ job.step \in StagingSteps => ops[job.op].cutover = NoCutover
    /\ job.step \in CutoverSteps =>
         ops[job.op].cutover = [from |-> job.read.generation, to |-> job.to]
    /\ job.step \notin {"cut node", "back node"} => env = node.generation
    /\ job.step \in {"quiesce", "snapshot", "stage", "journal", "cut stop", "cut env", "cut node", "back up"} =>
         node.generation = job.read.generation
    /\ job.step \in {"cut env", "cut node", "cut up", "succeed", "back stop", "back env", "back node"} =>
         job.env = job.read.generation
    /\ job.step \in {"cut node", "cut up", "succeed"} => env = job.to
    /\ job.step = "back node" => env = job.read.generation
    /\ job.step \in {"resume", "fail"} =>
         ops[job.op].cutover = NoCutover \/ ops[job.op].cutover.from = env

BootSettled ==
    /\ job.op \in Unrecovered(ops)
    /\ job.step \in {"boot node", "boot up", "boot done"} => env = ops[job.op].cutover.from
    /\ job.step \in {"boot up", "boot done"} => node.generation = ops[job.op].cutover.from

Settled ==
    /\ daemon = "dead" => job = Idle /\ (env = node.generation \/ Unrecovered(Interrupted) # {})
    /\ daemon = "booting" <=> job.step \in BootSteps
    /\ job.step = "idle" /\ daemon = "serving" => env = node.generation
    /\ job.step \in LifecycleSteps => env = node.generation
    /\ job.step \in RestoreSteps => RestoreSettled
    /\ job.step \in BootSteps => BootSettled

\* From the snapshot on nothing writes to the volume it was taken of: the writers
\* are stopped, and then run on the new one.
Snapshotted ==
    /\ job.step \in {"snapshot", "stage", "journal", "cut stop", "cut env", "cut node", "cut up"} =>
         stack.runs # "all"
    /\ job.step \in {"stage", "journal", "cut stop", "cut env", "cut node", "cut up", "succeed"} =>
         /\ ops[job.op].safety.of \in DOMAIN volumes
         /\ volumes[ops[job.op].safety.of] = ops[job.op].safety.records
    /\ job.step \in {"journal", "cut stop", "cut env", "cut node", "cut up", "succeed"} =>
         job.to \in DOMAIN volumes /\ job.to # ops[job.op].safety.of
    /\ job.step = "succeed" => stack.volume = job.to

Coherent == Numbered /\ Settled /\ Snapshotted

CutoverInv == TypeOK /\ Coherent

-----------------------------------------------------------------------------
(* The operation in progress. *)

LifecycleJobs == [step : LifecycleSteps, read : NodeRows]
RestoreJobs   == [step : RestoreSteps, read : NodeRows, op : Nat, to : 0 .. MaxGeneration,
                  env : 0 .. MaxGeneration]
BootJobs      == [step : BootSteps, op : Nat]

LEMMA JobKinds ==
  ASSUME TypeOK
  PROVE  /\ job.step = "idle" => job = Idle
         /\ job.step \in LifecycleSteps => job \in LifecycleJobs
         /\ job.step \in RestoreSteps => job \in RestoreJobs
         /\ job.step \in BootSteps => job \in BootJobs
         /\ job.step \in {"idle"} \cup LifecycleSteps \cup RestoreSteps \cup BootSteps
  <1> DEFINE Steps == {"idle"} \cup LifecycleSteps \cup RestoreSteps \cup BootSteps
  <1>1. job = Idle \/ job \in LifecycleJobs \/ job \in RestoreJobs \/ job \in BootJobs
    BY DEF TypeOK, Jobs, LifecycleJobs, RestoreJobs, BootJobs
  <1>2. job = Idle => job.step = "idle"
    BY DEF Idle
  <1>3. /\ job \in LifecycleJobs => job.step \in LifecycleSteps
        /\ job \in RestoreJobs => job.step \in RestoreSteps
        /\ job \in BootJobs => job.step \in BootSteps
    BY DEF LifecycleJobs, RestoreJobs, BootJobs
  <1>4. /\ "idle" \notin LifecycleSteps \cup RestoreSteps \cup BootSteps
        /\ \A s \in LifecycleSteps : s \notin RestoreSteps \cup BootSteps
        /\ \A s \in RestoreSteps : s \notin BootSteps
    BY DEF LifecycleSteps, RestoreSteps, StagingSteps, CutoverSteps, BootSteps
  <1>5. QED
    BY <1>1, <1>2, <1>3, <1>4

\* An operation goes on to its next step.
LEMMA RestoreGoes ==
  ASSUME TypeOK, job.step \in RestoreSteps, NEW s \in RestoreSteps, Goto(s)
  PROVE  /\ job' \in Jobs /\ job'.step = s
         /\ job'.read = job.read /\ job'.op = job.op /\ job'.to = job.to /\ job'.env = job.env
  <1>1. job \in RestoreJobs /\ job' = [job EXCEPT !.step = s]
    BY JobKinds DEF Goto
  <1>2. job' \in RestoreJobs
    BY <1>1 DEF RestoreJobs
  <1>3. QED
    BY <1>1, <1>2 DEF RestoreJobs, Jobs

LEMMA LifecycleGoes ==
  ASSUME TypeOK, job.step \in LifecycleSteps, NEW s \in LifecycleSteps, Goto(s)
  PROVE  job' \in Jobs /\ job'.step = s
  <1>1. job \in LifecycleJobs /\ job' = [job EXCEPT !.step = s]
    BY JobKinds DEF Goto
  <1>2. job' \in LifecycleJobs
    BY <1>1 DEF LifecycleJobs
  <1>3. QED
    BY <1>1, <1>2 DEF LifecycleJobs, Jobs

LEMMA BootGoes ==
  ASSUME TypeOK, job.step \in BootSteps, NEW s \in BootSteps, Goto(s)
  PROVE  job' \in Jobs /\ job'.step = s /\ job'.op = job.op
  <1>1. job \in BootJobs /\ job' = [job EXCEPT !.step = s]
    BY JobKinds DEF Goto
  <1>2. job' \in BootJobs
    BY <1>1 DEF BootJobs
  <1>3. QED
    BY <1>1, <1>2 DEF BootJobs, Jobs

\* The state of an operation in the journal.
LEMMA OpParts ==
  ASSUME TypeOK, NEW i \in DOMAIN ops
  PROVE  /\ ops[i] \in Ops /\ i \in 1 .. Len(ops) /\ Len(ops) \in Nat
         /\ ops[i].cutover \in Cuts
         /\ ops[i].cutover # NoCutover => ops[i].cutover.from \in DOMAIN volumes
  <1>1. ops[i] \in Ops /\ i \in 1 .. Len(ops) /\ Len(ops) \in Nat
    BY LenProperties, ElementOfSeq DEF TypeOK
  <1>2. ops[i].cutover \in Cuts
    BY <1>1 DEF Ops
  <1>3. ops[i].cutover.from \in DOMAIN volumes \cup {0}
    BY DEF TypeOK
  <1>4. ops[i].cutover # NoCutover => ops[i].cutover.from # 0
    BY <1>2 DEF Cuts, Generations
  <1>5. QED
    BY <1>1, <1>2, <1>3, <1>4

\* A write of the journal's entry of the operation in progress.
LEMMA JournalWrites ==
  ASSUME TypeOK, job.op \in DOMAIN ops, NEW entry \in Ops, Journal(entry)
  PROVE  /\ ops' \in Seq(Ops) /\ DOMAIN ops' = DOMAIN ops /\ Len(ops') = Len(ops)
         /\ ops'[job.op] = entry
         /\ \A i \in DOMAIN ops : i # job.op => ops'[i] = ops[i]
  <1>1. ops \in Seq(Ops) /\ ops' = [ops EXCEPT ![job.op] = entry] /\ job.op \in 1 .. Len(ops)
    BY OpParts DEF Journal, TypeOK
  <1>2. /\ ops' \in Seq(Ops) /\ Len(ops') = Len(ops)
        /\ \A i \in 1 .. Len(ops) : ops'[i] = IF i = job.op THEN entry ELSE ops[i]
    BY <1>1, ExceptSeq
  <1>3. DOMAIN ops = 1 .. Len(ops) /\ DOMAIN ops' = 1 .. Len(ops')
    BY <1>1, <1>2, LenProperties
  <1>4. QED
    BY <1>1, <1>2, <1>3

-----------------------------------------------------------------------------
(* Types. *)

Stacks == [runs : {"nothing", "database", "all"}, volume : DOMAIN volumes]

LEMMA StackTypes ==
  ASSUME TypeOK
  PROVE  /\ stack \in Stacks /\ Halted \in Stacks /\ WritersStopped \in Stacks
         /\ [runs |-> "all", volume |-> env] \in Stacks
         /\ Halted.runs = "nothing" /\ WritersStopped.runs \in {"nothing", "database"}
  <1>1. stack \in Stacks /\ env \in DOMAIN volumes
    BY DEF TypeOK, Stacks
  <1>2. Halted \in Stacks /\ Halted.runs = "nothing"
    BY <1>1 DEF Halted, Stacks
  <1>3. WritersStopped \in Stacks /\ WritersStopped.runs \in {"nothing", "database"}
    BY <1>1 DEF WritersStopped, Stacks
  <1>4. [runs |-> "all", volume |-> env] \in Stacks
    BY <1>1 DEF Stacks
  <1>5. QED
    BY <1>1, <1>2, <1>3, <1>4

\* A step that writes neither the volumes nor the journal.
LEMMA TypesKept ==
  ASSUME TypeOK, job' \in Jobs, stack' \in Stacks, node' \in NodeRows,
         env' \in DOMAIN volumes, node'.generation \in DOMAIN volumes,
         UNCHANGED <<data, ops, call, docker, outages>>, crashes' \in 0 .. MaxCrashes,
         daemon' \in {"dead", "booting", "serving"}
  PROVE  TypeOK'
  BY DEF TypeOK, data, Stacks

\* The generation an operation read is that of a volume, once it is journalled.
LEMMA ReadExists ==
  ASSUME CutoverInv, job.step \in CutoverSteps
  PROVE  /\ job.read.generation \in DOMAIN volumes
         /\ ops[job.op].cutover # NoCutover /\ ops[job.op].cutover.from = job.read.generation
  <1>1. job.step \in RestoreSteps
    BY DEF RestoreSteps
  <1>2. job.op \in DOMAIN ops /\ ops[job.op].cutover = [from |-> job.read.generation, to |-> job.to]
    BY <1>1 DEF CutoverInv, Coherent, Settled, RestoreSettled
  <1>3. job.read.generation \in Nat \ {0}
    BY <1>1, JobKinds DEF CutoverInv, Coherent, RestoreJobs, NodeRows, Generations
  <1>4. ops[job.op].cutover # NoCutover
    BY <1>2, <1>3 DEF NoCutover
  <1>5. QED
    BY <1>2, <1>4, OpParts DEF CutoverInv, Coherent

LEMMA LifecycleTypes == CutoverInv /\ Lifecycle => TypeOK'
  <1> SUFFICES ASSUME CutoverInv, Lifecycle PROVE TypeOK'
    OBVIOUS
  <1>0. /\ TypeOK /\ Idle \in Jobs /\ node \in NodeRows /\ env \in DOMAIN volumes
        /\ node.generation \in DOMAIN volumes /\ crashes \in 0 .. MaxCrashes
        /\ daemon \in {"dead", "booting", "serving"} /\ job \in Jobs
    BY DEF CutoverInv, Coherent, TypeOK, Jobs
  <1>1. \A d \in {"running", "stopped"} :
          [node EXCEPT !.desired = d] \in NodeRows /\ [node EXCEPT !.desired = d].generation = node.generation
    BY <1>0 DEF NodeRows
  <1>2. CASE MarkRunning
    <2>1. job.step \in LifecycleSteps
      BY <1>2 DEF MarkRunning, At, LifecycleSteps
    <2>2. /\ UNCHANGED <<env, stack, data, ops, call, daemon, faults>>
          /\ node' = node \/ node' = [node EXCEPT !.desired = "running"]
          /\ job' = Idle \/ Goto("restart stop") \/ Goto("up")
      BY <1>2 DEF MarkRunning, Release
    <2>3. job' \in Jobs
      BY <1>0, <2>1, <2>2, LifecycleGoes DEF LifecycleSteps
    <2>4. QED
      BY <1>0, <1>1, <2>2, <2>3, StackTypes, TypesKept DEF faults
  <1>3. CASE RestartStop
    <2>1. job.step \in LifecycleSteps
      BY <1>3 DEF RestartStop, At, LifecycleSteps
    <2>2. job' \in Jobs
      BY <1>0, <1>3, <2>1, LifecycleGoes DEF RestartStop, Release, LifecycleSteps
    <2>3. QED
      BY <1>0, <1>3, <2>2, StackTypes, TypesKept DEF RestartStop, faults
  <1>4. CASE BringUp
    BY <1>0, <1>4, StackTypes, TypesKept DEF BringUp, Release, Up, faults
  <1>5. CASE MarkStopped
    <2>1. job.step \in LifecycleSteps
      BY <1>5 DEF MarkStopped, At, LifecycleSteps
    <2>2. job' \in Jobs
      BY <1>0, <1>5, <2>1, LifecycleGoes DEF MarkStopped, LifecycleSteps
    <2>3. QED
      BY <1>0, <1>1, <1>5, <2>2, StackTypes, TypesKept DEF MarkStopped, faults
  <1>6. CASE Halt
    BY <1>0, <1>6, StackTypes, TypesKept DEF Halt, Release, faults
  <1>7. QED
    BY <1>2, <1>3, <1>4, <1>5, <1>6 DEF Lifecycle

\* A step that writes the journal's entry of the operation in progress.
LEMMA EntryTypes ==
  ASSUME TypeOK, job.op \in DOMAIN ops, NEW entry \in Ops, Journal(entry),
         {entry.cutover.from, entry.cutover.to} \subseteq DOMAIN volumes \cup {0},
         job' \in Jobs, backups' \subseteq SUBSET Records,
         daemon' \in {"dead", "booting", "serving"},
         UNCHANGED <<node, env, stack, volumes, sick, call, faults>>
  PROVE  TypeOK'
  <1>1. /\ ops' \in Seq(Ops) /\ DOMAIN ops' = DOMAIN ops
        /\ \A i \in DOMAIN ops : {ops'[i].cutover.from, ops'[i].cutover.to} \subseteq DOMAIN volumes \cup {0}
    <2>1. QED
      BY JournalWrites DEF TypeOK
  <1>2. QED
    BY <1>1 DEF TypeOK, faults

\* The generation that a restore stages is the one after all the volumes.
LEMMA NextIsNew ==
  ASSUME CutoverInv, job.step = "stage", NEW n \in Generations,
         DOMAIN volumes = 1 .. n, n <= Len(ops)
  PROVE  NextUnused = n + 1 /\ n + 1 \in Generations
  <1>1. job.step \in RestoreSteps
    BY DEF RestoreSteps, StagingSteps
  <1>2. job.read.generation \in 1 .. n
    BY <1>1 DEF CutoverInv, Coherent, Settled, RestoreSettled, TypeOK
  <1>3. /\ n \in Nat /\ MaxGeneration \in Nat /\ MaxRestores \in Nat /\ Len(ops) \in Nat
        /\ n < MaxGeneration
    BY CutoverAssumption, LenProperties DEF CutoverInv, Coherent, TypeOK, Numbered, Generations
  <1>4. n + 1 \in Generations
    BY <1>3 DEF Generations
  <1> DEFINE Free == {g \in Generations : g > job.read.generation /\ g \notin DOMAIN volumes}
  <1>5. n + 1 \in Free /\ \A g \in Free : n + 1 <= g
    BY <1>2, <1>3, <1>4 DEF Generations
  <1>6. \A m \in Free : (\A g \in Free : m <= g) => m = n + 1
    BY <1>5, <1>3 DEF Generations
  <1>7. Min(Free) = n + 1
    <2> HIDE DEF Free
    <2>1. QED
      BY <1>5, <1>6 DEF Min
  <1>8. QED
    BY <1>4, <1>7 DEF NextUnused

\* A step that stages one more volume.
LEMMA VolumeTypes ==
  ASSUME TypeOK, NEW g \in Generations, g \notin DOMAIN volumes, NEW b \in SUBSET Records,
         volumes' = WithVolume(g, b), sick' = sick \/ sick' = sick \cup {g},
         job' \in Jobs, UNCHANGED <<node, env, stack, backups, ops, call, daemon, faults>>
  PROVE  TypeOK' /\ DOMAIN volumes' = DOMAIN volumes \cup {g}
         /\ \A h \in DOMAIN volumes : volumes'[h] = volumes[h]
  <1>1. /\ DOMAIN volumes' = DOMAIN volumes \cup {g}
        /\ \A h \in DOMAIN volumes : volumes'[h] = volumes[h]
        /\ volumes' \in [DOMAIN volumes' -> SUBSET Records]
    BY DEF TypeOK, WithVolume
  <1>2. QED
    BY <1>1 DEF TypeOK, faults

\* What the types of a step follow from.
LEMMA Parts ==
  ASSUME CutoverInv
  PROVE  /\ TypeOK /\ Idle \in Jobs /\ node \in NodeRows /\ env \in DOMAIN volumes
         /\ node.generation \in DOMAIN volumes /\ crashes \in 0 .. MaxCrashes
         /\ daemon \in {"dead", "booting", "serving"} /\ job \in Jobs
         /\ backups \subseteq SUBSET Records /\ DOMAIN volumes \subseteq Generations
         /\ stack.volume \in DOMAIN volumes /\ \A g \in DOMAIN volumes : volumes[g] \in SUBSET Records
         /\ \A d \in {"running", "stopped"}, g \in DOMAIN volumes :
              /\ [generation |-> g, desired |-> d] \in NodeRows
              /\ [node EXCEPT !.generation = g] \in NodeRows
              /\ [node EXCEPT !.generation = g].generation = g
         /\ job.step \in RestoreSteps => job.op \in DOMAIN ops /\ ops[job.op].state = "running"
         /\ job.step \in BootSteps => /\ job.op \in DOMAIN ops /\ ops[job.op].cutover # NoCutover
                                      /\ ops[job.op].state = "needs_attention"
                                      /\ ops[job.op].cutover.from \in DOMAIN volumes
  <1>1. TypeOK
    BY DEF CutoverInv, Coherent
  <1>2. job.step \in RestoreSteps => job.op \in DOMAIN ops /\ ops[job.op].state = "running"
    BY DEF CutoverInv, Coherent, Settled, RestoreSettled
  <1>3. job.step \in BootSteps => /\ job.op \in DOMAIN ops /\ ops[job.op].cutover # NoCutover
                                  /\ ops[job.op].state = "needs_attention"
    BY DEF CutoverInv, Coherent, Settled, BootSettled, Unrecovered
  <1>4. job.step \in BootSteps => ops[job.op].cutover.from \in DOMAIN volumes
    BY <1>1, <1>3, OpParts
  <1>5. \A d \in {"running", "stopped"}, g \in DOMAIN volumes :
              /\ [generation |-> g, desired |-> d] \in NodeRows
              /\ [node EXCEPT !.generation = g] \in NodeRows
              /\ [node EXCEPT !.generation = g].generation = g
    BY <1>1 DEF TypeOK, NodeRows
  <1>6. QED
    BY <1>1, <1>2, <1>3, <1>4, <1>5 DEF TypeOK, Jobs

\* What the steps of an operation write to its entry in the journal.
LEMMA Entries ==
  ASSUME CutoverInv, job.step \in RestoreSteps \cup BootSteps, NEW s \in DOMAIN volumes
  PROVE  /\ [ThisOp EXCEPT !.state = "failed"] \in Ops
         /\ [ThisOp EXCEPT !.state = "recovered"] \in Ops
         /\ [ThisOp EXCEPT !.safety = [of |-> s, records |-> volumes[s]]] \in Ops
         /\ [ThisOp EXCEPT !.state = "succeeded", !.cutover = NoCutover, !.active = ThisOp.cutover] \in Ops
         /\ \A from, to \in Generations :
              [ThisOp EXCEPT !.cutover = [from |-> from, to |-> to]] \in Ops
         /\ ThisOp \in Ops /\ {ThisOp.cutover.from, ThisOp.cutover.to} \subseteq DOMAIN volumes \cup {0}
         /\ NoCutover \in Cuts /\ NoCutover.from = 0 /\ NoCutover.to = 0
  <1>1. ThisOp \in Ops /\ s \in 0 .. MaxGeneration /\ volumes[s] \in SUBSET Records
    BY Parts, OpParts, CutoverAssumption DEF ThisOp, Generations
  <1>2. {ThisOp.cutover.from, ThisOp.cutover.to} \subseteq DOMAIN volumes \cup {0}
    BY Parts DEF ThisOp, TypeOK
  <1>3. NoCutover \in Cuts /\ ThisOp.cutover \in Cuts
    BY <1>1 DEF Cuts, Ops
  <1>4. \A from, to \in Generations : [from |-> from, to |-> to] \in Cuts
    BY DEF Cuts
  <1>5. \A from, to \in Generations :
              [ThisOp EXCEPT !.cutover = [from |-> from, to |-> to]] \in Ops
    BY <1>1, <1>4 DEF Ops
  <1>6. [ThisOp EXCEPT !.safety = [of |-> s, records |-> volumes[s]]] \in Ops
    BY <1>1 DEF Ops
  <1>7. QED
    BY <1>1, <1>2, <1>3, <1>5, <1>6 DEF Ops, NoCutover

LEMMA StagingTypes == CutoverInv /\ Staging => TypeOK'
  <1> SUFFICES ASSUME CutoverInv, Staging PROVE TypeOK'
    OBVIOUS
  <1>1. job.step \in StagingSteps /\ job.step \in RestoreSteps
    BY DEF Staging, Check, Quiesce, Snapshot, Stage, JournalCutover, At, StagingSteps, RestoreSteps
  <1>2. \A s \in RestoreSteps : Goto(s) => job' \in Jobs
    BY <1>1, Parts, RestoreGoes
  <1>3. CASE Throw
    BY <1>2, <1>3, Parts, StackTypes, TypesKept DEF Throw, RestoreSteps, faults
  <1>4. CASE Check
    <2>1. job \in RestoreJobs
      BY <1>1, Parts, JobKinds
    <2>2. CASE job' = [job EXCEPT !.read = node, !.step =
                IF job.read.generation = node.generation THEN "quiesce" ELSE "resume"]
      <3>1. job' \in RestoreJobs
        BY <2>1, <2>2, Parts DEF RestoreJobs, RestoreSteps, StagingSteps
      <3>2. job' \in Jobs
        BY <3>1 DEF RestoreJobs, Jobs
      <3>3. CASE Throw
        BY <1>3, <3>3
      <3>4. QED
        BY <1>4, <3>2, <3>3, Parts, StackTypes, TypesKept DEF Check, faults
    <2>3. QED
      BY <1>3, <1>4, <2>2 DEF Check
  <1>5. CASE Quiesce
    <2>1. Goto("snapshot") => job' \in Jobs
      BY <1>2 DEF RestoreSteps, StagingSteps
    <2>2. QED
      BY <1>3, <1>5, <2>1, Parts, StackTypes, TypesKept DEF Quiesce, faults
  <1>6. CASE Snapshot
    <2>1. Goto("stage") => job' \in Jobs
      BY <1>2 DEF RestoreSteps, StagingSteps
    <2> DEFINE entry == [ThisOp EXCEPT !.safety = [of |-> stack.volume, records |-> volumes[stack.volume]]]
    <2>2. entry \in Ops /\ entry.cutover = ThisOp.cutover
      BY <1>1, Parts, Entries DEF Ops
    <2>3. {entry.cutover.from, entry.cutover.to} \subseteq DOMAIN volumes \cup {0}
      BY <1>1, <2>2, Parts, Entries
    <2>4. CASE ~Throw
      <3>1. Journal(entry) /\ job' \in Jobs /\ backups' = backups \cup {volumes[stack.volume]}
            /\ UNCHANGED <<node, env, stack, volumes, sick, call, daemon, faults>>
        BY <1>6, <2>1, <2>4 DEF Snapshot
      <3> HIDE DEF entry
      <3>2. QED
        BY <1>1, <2>2, <2>3, <3>1, Parts, EntryTypes
    <2>5. QED
      BY <1>3, <2>4
  <1>7. CASE Stage
    <2>1. job.step = "stage" /\ job \in RestoreJobs
      BY <1>1, <1>7, Parts, JobKinds DEF Stage, At
    <2>2. PICK n \in Generations : DOMAIN volumes = 1 .. n /\ n <= Len(ops)
      BY <2>1 DEF CutoverInv, Coherent, Numbered
    <2>3. NextUnused = n + 1 /\ n + 1 \in Generations
      BY <2>1, <2>2, NextIsNew
    <2>4. NextUnused \in Generations /\ NextUnused \notin DOMAIN volumes
      BY <2>2, <2>3 DEF Generations
    <2>5. [job EXCEPT !.step = "journal", !.to = NextUnused] \in RestoreJobs
      <3>1. NextUnused \in 0 .. MaxGeneration
        BY <2>4, CutoverAssumption DEF Generations
      <3>2. QED
        BY <2>1, <3>1 DEF RestoreJobs, RestoreSteps, StagingSteps
    <2>6. Goto("resume") => job' \in Jobs
      BY <1>2 DEF RestoreSteps
    <2>7. job' \in Jobs
      BY <1>7, <2>5, <2>6 DEF Stage, RestoreJobs, Jobs
    <2>8. CASE UNCHANGED <<volumes, sick>>
      BY <1>7, <2>7, <2>8, Parts, StackTypes, TypesKept DEF Stage, faults, data
    <2>9. CASE ~UNCHANGED <<volumes, sick>>
      <3>1. \E b \in SUBSET Records : volumes' = WithVolume(NextUnused, b)
        BY <1>7, <2>9, Parts DEF Stage
      <3>2. sick' = sick \/ sick' = sick \cup {NextUnused}
        BY <1>7 DEF Stage
      <3>3. QED
        BY <1>7, <2>4, <2>7, <3>1, <3>2, Parts, VolumeTypes DEF Stage
    <2>10. QED
      BY <2>8, <2>9
  <1>8. CASE JournalCutover
    <2>1. Goto("cut stop") => job' \in Jobs
      BY <1>2 DEF RestoreSteps, CutoverSteps
    <2>2. job.step = "journal"
      BY <1>8 DEF JournalCutover, At
    <2>3. job.read.generation \in DOMAIN volumes /\ job.to \in DOMAIN volumes
      BY <1>1, <2>2, Parts DEF CutoverInv, Coherent, Settled, RestoreSettled, Snapshotted
    <2> DEFINE entry == [ThisOp EXCEPT !.cutover = [from |-> job.read.generation, to |-> job.to]]
    <2>4. entry \in Ops
      BY <1>1, <2>3, Parts, Entries
    <2>5. entry.cutover = [from |-> job.read.generation, to |-> job.to]
      BY <1>1, <2>3, Parts, Entries DEF Ops
    <2>6. {entry.cutover.from, entry.cutover.to} \subseteq DOMAIN volumes \cup {0}
      BY <2>3, <2>5
    <2>7. Journal(entry) /\ job' \in Jobs /\ UNCHANGED <<backups, daemon>>
          /\ UNCHANGED <<node, env, stack, volumes, sick, call, faults>>
      BY <1>8, <2>1 DEF JournalCutover, data
    <2> HIDE DEF entry
    <2>8. QED
      BY <1>1, <2>4, <2>6, <2>7, Parts, EntryTypes
  <1>9. QED
    BY <1>4, <1>5, <1>6, <1>7, <1>8 DEF Staging

LEMMA SwitchingTypes == CutoverInv /\ Switching => TypeOK'
  <1> SUFFICES ASSUME CutoverInv, Switching PROVE TypeOK'
    OBVIOUS
  <1>1. job.step \in CutoverSteps /\ job.step \in RestoreSteps
    BY DEF Switching, CutStop, CutEnv, CutNode, CutUp, Succeed, At, CutoverSteps, RestoreSteps
  <1>2. \A s \in RestoreSteps : Goto(s) => job' \in Jobs
    BY <1>1, Parts, RestoreGoes
  <1>3. CASE CutStop
    <2>1. job \in RestoreJobs /\ env \in 0 .. MaxGeneration
      BY <1>1, Parts, JobKinds, CutoverAssumption DEF Generations
    <2>2. [job EXCEPT !.step = "cut env", !.env = env] \in RestoreJobs
      BY <2>1 DEF RestoreJobs, RestoreSteps, CutoverSteps
    <2>3. job' \in Jobs
      BY <1>2, <1>3, <2>2 DEF CutStop, RestoreJobs, Jobs, RestoreSteps
    <2>4. QED
      BY <1>3, <2>3, Parts, StackTypes, TypesKept DEF CutStop, faults
  <1>4. CASE CutEnv
    <2>1. job' \in Jobs
      BY <1>2, <1>4 DEF CutEnv, RestoreSteps, CutoverSteps
    <2>2. job.to \in DOMAIN volumes
      BY <1>4 DEF CutEnv, At, CutoverInv, Coherent, Snapshotted
    <2>3. QED
      BY <1>4, <2>1, <2>2, Parts, StackTypes, TypesKept DEF CutEnv, faults
  <1>5. CASE CutNode
    <2>1. job' \in Jobs
      BY <1>2, <1>5 DEF CutNode, RestoreSteps, CutoverSteps
    <2>2. job.to \in DOMAIN volumes
      BY <1>5 DEF CutNode, At, CutoverInv, Coherent, Snapshotted
    <2>3. node' \in NodeRows /\ node'.generation = job.to
      BY <1>5, <2>2, Parts DEF CutNode
    <2>4. QED
      BY <1>5, <2>1, <2>2, <2>3, Parts, StackTypes, TypesKept DEF CutNode, faults
  <1>6. CASE CutUp
    <2>1. job' \in Jobs
      BY <1>2, <1>6 DEF CutUp, RestoreSteps, CutoverSteps
    <2>2. stack' \in Stacks
      BY <1>6, Parts, StackTypes DEF CutUp, Up
    <2>3. QED
      BY <1>6, <2>1, <2>2, Parts, TypesKept DEF CutUp, faults
  <1>7. CASE Succeed
    <2> DEFINE entry == [ThisOp EXCEPT !.state = "succeeded", !.cutover = NoCutover,
                                       !.active = ThisOp.cutover]
    <2>1. entry \in Ops /\ entry.cutover = NoCutover
      BY <1>1, Parts, Entries DEF Ops
    <2>2. {entry.cutover.from, entry.cutover.to} \subseteq DOMAIN volumes \cup {0}
      BY <1>1, <2>1, Parts, Entries
    <2>3. Journal(entry) /\ job' \in Jobs /\ UNCHANGED <<backups, daemon>>
          /\ UNCHANGED <<node, env, stack, volumes, sick, call, faults>>
      BY <1>7, Parts DEF Succeed, data, Release
    <2> HIDE DEF entry
    <2>4. QED
      BY <1>1, <2>1, <2>2, <2>3, Parts, EntryTypes
  <1>8. QED
    BY <1>3, <1>4, <1>5, <1>6, <1>7 DEF Switching

LEMMA RollingBackTypes == CutoverInv /\ RollingBack => TypeOK'
  <1> SUFFICES ASSUME CutoverInv, RollingBack PROVE TypeOK'
    OBVIOUS
  <1>1. job.step \in RestoreSteps
    BY DEF RollingBack, BackStop, BackEnv, BackNode, BackUp, Resume, Fail, At, CutoverSteps, RestoreSteps
  <1>2. \A s \in RestoreSteps : Goto(s) => job' \in Jobs
    BY <1>1, Parts, RestoreGoes
  <1>3. CASE BackStop
    <2>1. job' \in Jobs
      BY <1>2, <1>3 DEF BackStop, RestoreSteps, CutoverSteps
    <2>2. QED
      BY <1>3, <2>1, Parts, StackTypes, TypesKept DEF BackStop, faults
  <1>4. CASE BackEnv
    <2>1. job' \in Jobs
      BY <1>2, <1>4 DEF BackEnv, RestoreSteps, CutoverSteps
    <2>2. job.step = "back env" /\ env' = job.env
      BY <1>4 DEF BackEnv, OriginalEnv, At
    <2>3. job.env = job.read.generation /\ job.read.generation \in DOMAIN volumes
      BY <1>1, <2>2, ReadExists DEF CutoverInv, Coherent, Settled, RestoreSettled, CutoverSteps
    <2>4. QED
      BY <1>4, <2>1, <2>2, <2>3, Parts, StackTypes, TypesKept DEF BackEnv, faults
  <1>5. CASE BackNode
    <2>1. job' \in Jobs
      BY <1>2, <1>5 DEF BackNode, RestoreSteps, CutoverSteps
    <2>2. job.read.generation \in DOMAIN volumes
      BY <1>5, ReadExists DEF BackNode, At, CutoverSteps
    <2>3. node' \in NodeRows /\ node'.generation = job.read.generation
      BY <1>5, <2>2, Parts DEF BackNode
    <2>4. QED
      BY <1>5, <2>1, <2>2, <2>3, Parts, StackTypes, TypesKept DEF BackNode, faults
  <1>6. CASE BackUp
    <2>1. job' \in Jobs
      BY <1>2, <1>6 DEF BackUp, RestoreSteps
    <2>2. stack' \in Stacks
      BY <1>6, Parts, StackTypes DEF BackUp, Up
    <2>3. QED
      BY <1>6, <2>1, <2>2, Parts, TypesKept DEF BackUp, faults
  <1>7. CASE Resume
    <2>1. job' \in Jobs
      BY <1>2, <1>7 DEF Resume, RestoreSteps
    <2>2. stack' \in Stacks
      BY <1>7, Parts, StackTypes DEF Resume, Up
    <2>3. QED
      BY <1>7, <2>1, <2>2, Parts, TypesKept DEF Resume, faults
  <1>8. CASE Fail
    <2> DEFINE entry == [ThisOp EXCEPT !.state = "failed"]
    <2>1. entry \in Ops /\ entry.cutover = ThisOp.cutover
      BY <1>1, Parts, Entries DEF Ops
    <2>2. {entry.cutover.from, entry.cutover.to} \subseteq DOMAIN volumes \cup {0}
      BY <1>1, <2>1, Parts, Entries
    <2>3. Journal(entry) /\ job' \in Jobs /\ UNCHANGED <<backups, daemon>>
          /\ UNCHANGED <<node, env, stack, volumes, sick, call, faults>>
      BY <1>8, Parts DEF Fail, data, Release
    <2> HIDE DEF entry
    <2>4. QED
      BY <1>1, <2>1, <2>2, <2>3, Parts, EntryTypes
  <1>9. QED
    BY <1>3, <1>4, <1>5, <1>6, <1>7, <1>8 DEF RollingBack

-----------------------------------------------------------------------------
(* A new start of the daemon. *)

\* The order of the natural numbers as a relation.
Less == {p \in Nat \X Nat : p[1] < p[2]}

LEMMA NatOrder == IsWellFoundedOn(Less, Nat)
  BY Zenon, NatLessThanWellFounded DEF OpToRel, Less

\* A set of indices that is not empty has a greatest element.
LEMMA MaxOf ==
  ASSUME NEW n \in Nat, NEW S \in SUBSET (1 .. n), NEW s \in S
  PROVE  Max(S) \in S
  <1> DEFINE T == {n - x : x \in S}
  <1>1. \A x \in S : n - x \in Nat /\ x \in Nat
    OBVIOUS
  <1>2. T \subseteq Nat /\ n - s \in T
    BY <1>1
  <1>3. PICK m \in T : \A k \in T : <<k, m>> \notin Less
    <2> HIDE DEF T
    <2>1. QED
      BY <1>2, NatOrder, WFMin
  <1>4. PICK x \in S : m = n - x
    OBVIOUS
  <1>5. ASSUME NEW y \in S PROVE x >= y
    <2>1. n - y \in T /\ n - y \in Nat /\ m \in Nat
      BY <1>1, <1>4
    <2>2. <<n - y, m>> \notin Less
      BY <1>3, <2>1
    <2>3. ~(n - y < m)
      BY <2>1, <2>2 DEF Less
    <2>4. QED
      BY <1>1, <1>4, <2>3
  <1>6. \E z \in S : \A y \in S : z >= y
    BY <1>5
  <1>7. QED
    BY <1>6 DEF Max

\* What recoverInterruptedOperations leaves of an entry.
LEMMA InterruptedParts ==
  ASSUME TypeOK
  PROVE  /\ Interrupted \in Seq(Ops) /\ DOMAIN Interrupted = DOMAIN ops /\ Len(Interrupted) = Len(ops)
         /\ \A i \in DOMAIN ops :
              /\ Interrupted[i].cutover = ops[i].cutover
              /\ Interrupted[i].state = IF ops[i].state = "running" THEN "needs_attention"
                                                                  ELSE ops[i].state
  <1>1. /\ Len(ops) \in Nat /\ DOMAIN ops = 1 .. Len(ops)
        /\ \A i \in DOMAIN ops : ops[i] \in Ops
    BY OpParts, LenProperties DEF TypeOK
  <1>2. /\ DOMAIN Interrupted = DOMAIN ops
        /\ \A i \in DOMAIN ops : Interrupted[i] =
             IF ops[i].state = "running" THEN [ops[i] EXCEPT !.state = "needs_attention"] ELSE ops[i]
    BY DEF Interrupted
  <1>3. \A i \in DOMAIN ops : /\ Interrupted[i] \in Ops
                              /\ Interrupted[i].cutover = ops[i].cutover
                              /\ Interrupted[i].state = IF ops[i].state = "running"
                                                        THEN "needs_attention" ELSE ops[i].state
    BY <1>1, <1>2 DEF Ops
  <1>4. Interrupted \in [1 .. Len(ops) -> Ops]
    <2>1. Interrupted = [i \in DOMAIN ops |-> Interrupted[i]]
      BY DEF Interrupted
    <2> HIDE DEF Interrupted
    <2>2. QED
      BY <1>1, <1>3, <2>1
  <1>5. Interrupted \in Seq(Ops) /\ Len(Interrupted) = Len(ops)
    <2>1. Interrupted \in Seq(Ops)
      BY <1>1, <1>4, SeqDef
    <2>2. DOMAIN Interrupted = 1 .. Len(Interrupted) /\ Len(Interrupted) \in Nat
      BY <2>1, LenProperties
    <2>3. 1 .. Len(Interrupted) = 1 .. Len(ops)
      BY <1>1, <1>2, <2>2
    <2>4. \A m, k \in Nat : 1 .. m = 1 .. k => m = k
      <3> SUFFICES ASSUME NEW m \in Nat, NEW k \in Nat, 1 .. m = 1 .. k PROVE m = k
        OBVIOUS
      <3>1. m > 0 => m \in 1 .. k
        OBVIOUS
      <3>2. k > 0 => k \in 1 .. m
        OBVIOUS
      <3>3. QED
        BY <3>1, <3>2
    <2>5. QED
      BY <1>1, <2>1, <2>2, <2>3, <2>4
  <1>6. QED
    BY <1>2, <1>3, <1>5

LEMMA BootingTypes == CutoverInv /\ Booting => TypeOK'
  <1> SUFFICES ASSUME CutoverInv, Booting PROVE TypeOK'
    OBVIOUS
  <1>1. \A s \in BootSteps : job.step \in BootSteps /\ Goto(s) => job' \in Jobs
    BY Parts, BootGoes
  <1>2. CASE Boot
    <2>1. ops' = Interrupted /\ UNCHANGED <<node, env, stack, data, call, faults>>
      BY <1>2 DEF Boot
    <2>2. \A s \in Unrecovered(Interrupted) : Max(Unrecovered(Interrupted)) \in Unrecovered(Interrupted)
      <3>1. Unrecovered(Interrupted) \in SUBSET (1 .. Len(ops)) /\ Len(ops) \in Nat
        BY Parts, InterruptedParts, LenProperties DEF Unrecovered, TypeOK
      <3>2. QED
        BY <3>1, MaxOf
    <2>3. job' \in Jobs
      <3>1. CASE Unrecovered(Interrupted) = {}
        BY <1>2, <3>1, Parts DEF Boot
      <3>2. CASE Unrecovered(Interrupted) # {}
        <4>1. Max(Unrecovered(Interrupted)) \in Nat
          BY <2>2, <3>2, Parts, InterruptedParts, LenProperties DEF Unrecovered, TypeOK
        <4>2. job' = [step |-> "boot stop", op |-> Max(Unrecovered(Interrupted))]
          BY <1>2, <3>2 DEF Boot
        <4>3. QED
          BY <4>1, <4>2 DEF Jobs, BootSteps
      <3>3. QED
        BY <3>1, <3>2
    <2>4. daemon' \in {"dead", "booting", "serving"}
      BY <1>2 DEF Boot
    <2>5. \A i \in DOMAIN ops' : {ops'[i].cutover.from, ops'[i].cutover.to} \subseteq DOMAIN volumes \cup {0}
      BY <2>1, Parts, InterruptedParts DEF TypeOK
    <2>6. QED
      BY <2>1, <2>3, <2>4, <2>5, Parts, InterruptedParts DEF TypeOK, data, faults
  <1>3. CASE BootStop
    <2>1. job' \in Jobs
      BY <1>1, <1>3 DEF BootStop, At, BootSteps
    <2>2. QED
      BY <1>3, <2>1, Parts, StackTypes, TypesKept DEF BootStop, faults
  <1>4. CASE BootEnv
    <2>1. job' \in Jobs
      BY <1>1, <1>4 DEF BootEnv, At, BootSteps
    <2>2. ThisOp.cutover.from \in DOMAIN volumes
      BY <1>4, Parts DEF BootEnv, At, BootSteps, ThisOp
    <2>3. QED
      BY <1>4, <2>1, <2>2, Parts, StackTypes, TypesKept DEF BootEnv, faults
  <1>5. CASE BootNode
    <2>1. job' \in Jobs
      BY <1>1, <1>5 DEF BootNode, At, BootSteps
    <2>2. ThisOp.cutover.from \in DOMAIN volumes
      BY <1>5, Parts DEF BootNode, At, BootSteps, ThisOp
    <2>3. node' \in NodeRows /\ node'.generation \in DOMAIN volumes
      BY <1>5, <2>2, Parts DEF BootNode
    <2>4. QED
      BY <1>5, <2>1, <2>2, <2>3, Parts, StackTypes, TypesKept DEF BootNode, faults
  <1>6. CASE BootUp
    <2>1. job' \in Jobs
      BY <1>1, <1>6, Parts DEF BootUp, At, BootSteps, Release
    <2>2. stack' \in Stacks /\ daemon' \in {"dead", "booting", "serving"}
      BY <1>6, Parts, StackTypes DEF BootUp, Up
    <2>3. QED
      BY <1>6, <2>1, <2>2, Parts, TypesKept DEF BootUp, faults
  <1>7. CASE BootDone
    <2> DEFINE entry == [ThisOp EXCEPT !.state = "recovered"]
    <2>0. job.step \in BootSteps
      BY <1>7 DEF BootDone, At, BootSteps
    <2>1. entry \in Ops /\ entry.cutover = ThisOp.cutover
      <3>1. env \in DOMAIN volumes
        BY Parts
      <3>2. entry \in Ops /\ ThisOp \in Ops
        BY <2>0, <3>1, Entries
      <3>3. QED
        BY <3>2 DEF Ops
    <2>2. {entry.cutover.from, entry.cutover.to} \subseteq DOMAIN volumes \cup {0}
      <3>1. env \in DOMAIN volumes
        BY Parts
      <3>2. {ThisOp.cutover.from, ThisOp.cutover.to} \subseteq DOMAIN volumes \cup {0}
        BY <2>0, <3>1, Entries
      <3> HIDE DEF entry
      <3>3. QED
        BY <2>1, <3>2
    <2>3. Journal(entry) /\ job' \in Jobs /\ UNCHANGED backups /\ daemon' = "serving"
          /\ UNCHANGED <<node, env, stack, volumes, sick, call, faults>>
      BY <1>7, Parts DEF BootDone, data, Release
    <2> HIDE DEF entry
    <2>4. QED
      BY <2>0, <2>1, <2>2, <2>3, Parts, EntryTypes
  <1>8. QED
    BY <1>2, <1>3, <1>4, <1>5, <1>6, <1>7 DEF Booting

-----------------------------------------------------------------------------
(* Requests, and what happens around the daemon. *)

Request1(c) == Serve(c) \/ \E kind \in Kinds : Ask(c, kind)

LEMMA RequestTypes == \A c \in Callers : CutoverInv /\ Request1(c) => TypeOK'
  <1> SUFFICES ASSUME NEW c \in Callers, CutoverInv, Request1(c) PROVE TypeOK'
    OBVIOUS
  <1>1. /\ call[c] \in {Idle} \cup [step : Kinds, node : NodeRows]
        /\ call[c] # Idle => call[c].node \in NodeRows
    BY Parts DEF TypeOK
  <1>2. \A v \in {Idle} \cup [step : Kinds, node : NodeRows] :
          [call EXCEPT ![c] = v] \in [Callers -> {Idle} \cup [step : Kinds, node : NodeRows]]
    BY Parts DEF TypeOK
  <1>3. CASE \E kind \in Kinds : Ask(c, kind)
    <2>1. PICK kind \in Kinds : Ask(c, kind)
      BY <1>3
    <2>2. [step |-> kind, node |-> node] \in [step : Kinds, node : NodeRows]
      BY Parts
    <2>3. call' \in [Callers -> {Idle} \cup [step : Kinds, node : NodeRows]]
      BY <1>2, <2>1, <2>2 DEF Ask
    <2>4. QED
      BY <2>1, <2>3, Parts DEF Ask, TypeOK, data, faults
  <1>4. CASE Refused(c)
    <2>1. call' \in [Callers -> {Idle} \cup [step : Kinds, node : NodeRows]]
      BY <1>2, <1>4 DEF Refused
    <2>2. QED
      BY <1>4, <2>1, Parts DEF Refused, TypeOK, data, faults
  <1>5. CASE Begin(c)
    <2>1. call' \in [Callers -> {Idle} \cup [step : Kinds, node : NodeRows]]
      BY <1>2, <1>5 DEF Begin
    <2>2. call[c] # Idle /\ call[c].step \in LifecycleSteps
      <3>1. call[c].step \in {"start", "stop", "restart"}
        BY <1>5 DEF Begin
      <3>2. Idle.step = "idle"
        BY DEF Idle
      <3>3. QED
        BY <3>1, <3>2 DEF LifecycleSteps
    <2>3. job' \in Jobs
      <3>1. job' = [step |-> call[c].step, read |-> call[c].node]
        BY <1>5 DEF Begin
      <3>2. job' \in LifecycleJobs
        BY <1>1, <2>2, <3>1 DEF LifecycleJobs
      <3>3. QED
        BY <3>2 DEF LifecycleJobs, Jobs
    <2>4. QED
      BY <1>5, <2>1, <2>3, Parts DEF Begin, TypeOK, data, faults
  <1>6. CASE BeginRestore(c)
    <2>1. call' \in [Callers -> {Idle} \cup [step : Kinds, node : NodeRows]]
      BY <1>2, <1>6 DEF BeginRestore
    <2>2. call[c] # Idle
      <3>1. call[c].step = "restore" /\ Idle.step = "idle"
        BY <1>6 DEF BeginRestore, Idle
      <3>2. QED
        BY <3>1
    <2>3. Len(ops) + 1 \in Nat /\ 0 \in 0 .. MaxGeneration
      BY Parts, CutoverAssumption, LenProperties DEF TypeOK
    <2>4. job' = [step |-> "check", read |-> call[c].node, op |-> Len(ops) + 1, to |-> 0, env |-> 0]
      BY <1>6 DEF BeginRestore
    <2>5. job' \in Jobs
      <3>1. "check" \in RestoreSteps
        BY DEF RestoreSteps, StagingSteps
      <3>2. job' \in RestoreJobs
        BY <1>1, <2>2, <2>3, <2>4, <3>1 DEF RestoreJobs
      <3>3. QED
        BY <3>2 DEF RestoreJobs, Jobs
    <2>6. NewOp \in Ops /\ NewOp.cutover.from = 0 /\ NewOp.cutover.to = 0
      BY CutoverAssumption DEF NewOp, NoCutover, NoBackup, Ops, Cuts
    <2>7. ops' = Append(ops, NewOp) /\ ops \in Seq(Ops)
      BY <1>6, Parts DEF BeginRestore, TypeOK
    <2>8. /\ ops' \in Seq(Ops)
          /\ \A i \in DOMAIN ops' : (i \in DOMAIN ops /\ ops'[i] = ops[i]) \/ ops'[i] = NewOp
      BY <2>6, <2>7, AppendProperties, LenProperties
    <2>9. \A i \in DOMAIN ops' : {ops'[i].cutover.from, ops'[i].cutover.to} \subseteq DOMAIN volumes \cup {0}
      BY <2>6, <2>8, Parts DEF TypeOK
    <2>10. QED
      BY <1>6, <2>1, <2>5, <2>8, <2>9, Parts DEF BeginRestore, TypeOK, data, faults
  <1>7. QED
    BY <1>3, <1>4, <1>5, <1>6 DEF Request1, Serve

\* Deaths of the daemon, outages of Docker and records that come in.
Around == Crash \/ DockerFails \/ DockerReturns \/ \E r \in Records : Accept(r)

LEMMA AroundTypes == CutoverInv /\ Around => TypeOK' /\ DOMAIN volumes' = DOMAIN volumes
  <1> SUFFICES ASSUME CutoverInv, Around PROVE TypeOK' /\ DOMAIN volumes' = DOMAIN volumes
    OBVIOUS
  <1>1. CASE Crash
    <2>1. call' \in [Callers -> {Idle} \cup [step : Kinds, node : NodeRows]]
      BY <1>1 DEF Crash
    <2>2. crashes' \in 0 .. MaxCrashes
      BY <1>1, Parts, CutoverAssumption DEF Crash
    <2>3. QED
      BY <1>1, <2>1, <2>2, Parts DEF Crash, TypeOK, data
  <1>2. CASE DockerFails
    <2>1. outages' \in 0 .. MaxOutages
      BY <1>2, Parts, CutoverAssumption DEF DockerFails, TypeOK
    <2>2. QED
      BY <1>2, <2>1, Parts DEF DockerFails, TypeOK, data
  <1>3. CASE DockerReturns
    BY <1>3, Parts DEF DockerReturns, TypeOK, data
  <1>4. ASSUME NEW r \in Records, Accept(r) PROVE TypeOK' /\ DOMAIN volumes' = DOMAIN volumes
    <2>1. volumes' = [volumes EXCEPT ![stack.volume] = @ \cup {r}]
          /\ UNCHANGED <<node, env, stack, sick, backups, ops, call, job, daemon, faults>>
      BY <1>4 DEF Accept
    <2>2. volumes' \in [DOMAIN volumes -> SUBSET Records] /\ DOMAIN volumes' = DOMAIN volumes
      BY <2>1, Parts DEF TypeOK
    <2>3. QED
      BY <2>1, <2>2, Parts DEF TypeOK, faults
  <1>5. QED
    BY <1>1, <1>2, <1>3, <1>4 DEF Around

\* The steps by who takes them.
LEMMA Steps ==
  ASSUME Next
  PROVE  (\E c \in Callers : Request1(c)) \/ Lifecycle \/ Staging \/ Switching \/ RollingBack
         \/ Booting \/ Around
  BY CutoverAssumption DEF Next, Step, Request, Reconcile, Request1, Around, Kinds

LEMMA TypeStep == CutoverInv /\ [Next]_vars => TypeOK'
  <1> SUFFICES ASSUME CutoverInv, [Next]_vars PROVE TypeOK'
    OBVIOUS
  <1>1. CASE UNCHANGED vars
    BY <1>1, Parts DEF vars, TypeOK
  <1>2. CASE Next
    BY <1>2, Steps, RequestTypes, LifecycleTypes, StagingTypes, SwitchingTypes, RollingBackTypes,
       BootingTypes, AroundTypes
  <1>3. QED
    BY <1>1, <1>2

-----------------------------------------------------------------------------
(* Coherence: what one step may not disturb. *)

Counted == {"check", "quiesce", "snapshot", "stage"}

LEMMA Apart ==
  /\ \A s \in LifecycleSteps : s \notin RestoreSteps \cup BootSteps \cup Counted
  /\ \A s \in RestoreSteps : s \notin BootSteps
  /\ \A s \in BootSteps : s \notin Counted
  /\ "idle" \notin LifecycleSteps \cup RestoreSteps \cup BootSteps \cup Counted
  /\ Idle.step = "idle"
  BY DEF LifecycleSteps, RestoreSteps, StagingSteps, CutoverSteps, BootSteps, Counted, Idle

\* The snapshot counts between these steps of a restore.
SnapshotSteps == {"snapshot", "stage", "journal", "cut stop", "cut env", "cut node", "cut up", "succeed"}

LEMMA NoSnapshot ==
  ASSUME job.step \notin SnapshotSteps
  PROVE  Snapshotted
  BY DEF Snapshotted, SnapshotSteps

LEMMA NumbersKept ==
  ASSUME Numbered, DOMAIN volumes' = DOMAIN volumes, Len(ops') = Len(ops),
         job'.step \in Counted => job.step \in Counted
  PROVE  Numbered'
  BY DEF Numbered, Counted, Generations

\* The end of an operation.
LEMMA Ended ==
  ASSUME CutoverInv, job' = Idle, daemon' = "serving", env' = node'.generation,
         DOMAIN volumes' = DOMAIN volumes, Len(ops') = Len(ops)
  PROVE  Coherent'
  <1>1. Numbered'
    BY NumbersKept, Apart DEF CutoverInv, Coherent
  <1>2. Settled'
    BY Apart DEF Settled
  <1>3. Snapshotted'
    BY Apart DEF Snapshotted
  <1>4. QED
    BY <1>1, <1>2, <1>3 DEF Coherent

\* A step of a start, stop or restart.
LEMMA LifecycleStays ==
  ASSUME CutoverInv, job'.step \in LifecycleSteps, daemon' = "serving", env' = node'.generation,
         DOMAIN volumes' = DOMAIN volumes, Len(ops') = Len(ops)
  PROVE  Coherent'
  <1>1. Numbered'
    BY NumbersKept, Apart DEF CutoverInv, Coherent
  <1>2. Settled'
    BY Apart DEF Settled
  <1>3. Snapshotted'
    BY Apart DEF Snapshotted, LifecycleSteps
  <1>4. QED
    BY <1>1, <1>2, <1>3 DEF Coherent

\* A step of a restore, and one of a recovery.
LEMMA RestoreStays ==
  ASSUME job'.step \in RestoreSteps, daemon' = "serving",
         RestoreSettled', Snapshotted', Numbered'
  PROVE  Coherent'
  <1>1. Settled'
    BY Apart DEF Settled
  <1>2. QED
    BY <1>1 DEF Coherent

LEMMA BootStays ==
  ASSUME CutoverInv, job'.step \in BootSteps, daemon' = "booting", BootSettled',
         DOMAIN volumes' = DOMAIN volumes, Len(ops') = Len(ops)
  PROVE  Coherent'
  <1>1. Numbered'
    BY NumbersKept, Apart DEF CutoverInv, Coherent
  <1>2. Settled'
    BY Apart DEF Settled
  <1>3. Snapshotted'
    BY Apart DEF Snapshotted, BootSteps
  <1>4. QED
    BY <1>1, <1>2, <1>3 DEF Coherent

\* What holds while an operation goes on.
LEMMA Serving ==
  ASSUME CutoverInv, daemon # "dead"
  PROVE  /\ job.step \notin BootSteps => daemon = "serving"
         /\ job.step \in BootSteps => daemon = "booting" /\ BootSettled
         /\ job.step \in LifecycleSteps => env = node.generation
         /\ job.step = "idle" => daemon = "serving" /\ env = node.generation
         /\ job.step \in RestoreSteps => RestoreSettled
         /\ Numbered /\ Snapshotted
  <1>1. TypeOK /\ Settled /\ Numbered /\ Snapshotted
    BY DEF CutoverInv, Coherent
  <1>2. QED
    BY <1>1, Apart DEF Settled, TypeOK

LEMMA LifecycleCoherent == CutoverInv /\ Lifecycle => Coherent'
  <1> SUFFICES ASSUME CutoverInv, Lifecycle PROVE Coherent'
    OBVIOUS
  <1>1. job.step \in LifecycleSteps /\ daemon # "dead"
    BY DEF Lifecycle, MarkRunning, RestartStop, BringUp, MarkStopped, Halt, At, LifecycleSteps
  <1>2. daemon = "serving" /\ env = node.generation
    BY <1>1, Serving, Apart
  <1>3. /\ UNCHANGED <<env, data, ops, daemon>> /\ node'.generation = node.generation
        /\ job' = Idle \/ \E s \in LifecycleSteps : Goto(s)
    <2>1. CASE MarkRunning
      <3>1. node' = node \/ node' = [node EXCEPT !.desired = "running"]
        BY <2>1 DEF MarkRunning
      <3>2. job' = Idle \/ Goto("restart stop") \/ Goto("up")
        BY <2>1 DEF MarkRunning, Release
      <3>3. QED
        BY <2>1, <3>1, <3>2, Parts DEF MarkRunning, NodeRows, LifecycleSteps
    <2>2. CASE RestartStop \/ BringUp \/ Halt
      <3>1. job' = Idle \/ Goto("up")
        BY <2>2 DEF RestartStop, BringUp, Halt, Release
      <3>2. QED
        BY <2>2, <3>1 DEF RestartStop, BringUp, Halt, LifecycleSteps
    <2>3. CASE MarkStopped
      <3>1. node' = [node EXCEPT !.desired = "stopped"] /\ Goto("halt")
        BY <2>3 DEF MarkStopped
      <3>2. QED
        BY <2>3, <3>1, Parts DEF MarkStopped, NodeRows, LifecycleSteps
    <2>4. QED
      BY <2>1, <2>2, <2>3 DEF Lifecycle
  <1>4. job' = Idle \/ job'.step \in LifecycleSteps
    BY <1>1, <1>3, Parts, LifecycleGoes
  <1>5. QED
    BY <1>2, <1>3, <1>4, Ended, LifecycleStays DEF data

\* A restore that gives up.
LEMMA GivesUp ==
  ASSUME CutoverInv, job.step \in RestoreSteps, NEW s \in {"resume", "fail"}, Goto(s),
         UNCHANGED <<node, env, ops>>, daemon' = "serving", Numbered',
         env = node.generation, ops[job.op].cutover = NoCutover \/ ops[job.op].cutover.from = env
  PROVE  Coherent'
  <1>1. s \in RestoreSteps /\ s \notin StagingSteps \cup CutoverSteps \cup SnapshotSteps
    BY DEF RestoreSteps, StagingSteps, CutoverSteps, SnapshotSteps
  <1>2. job'.step = s /\ job'.op = job.op
    BY <1>1, Parts, RestoreGoes
  <1>3. RestoreSettled'
    BY <1>1, <1>2, Parts DEF RestoreSettled
  <1>4. Snapshotted'
    BY <1>1, <1>2 DEF Snapshotted, SnapshotSteps
  <1>5. QED
    BY <1>1, <1>2, <1>3, <1>4, RestoreStays

LEMMA StagingCoherent == CutoverInv /\ Staging => Coherent'
  <1> SUFFICES ASSUME CutoverInv, Staging PROVE Coherent'
    OBVIOUS
  <1>1. job.step \in StagingSteps /\ job.step \in RestoreSteps /\ daemon # "dead"
    BY DEF Staging, Check, Quiesce, Snapshot, Stage, JournalCutover, At, StagingSteps, RestoreSteps
  <1>2. /\ daemon = "serving" /\ RestoreSettled /\ Numbered /\ Snapshotted
        /\ job.op \in DOMAIN ops /\ ops[job.op].state = "running" /\ ops[job.op].cutover = NoCutover
        /\ env = node.generation
    BY <1>1, Serving, Apart DEF RestoreSettled, StagingSteps
  <1>3. \A s \in RestoreSteps : Goto(s) =>
          /\ job'.step = s
          /\ job'.read = job.read /\ job'.op = job.op /\ job'.to = job.to /\ job'.env = job.env
    BY <1>1, Parts, RestoreGoes
  <1>4. CASE Throw
    <2>1. UNCHANGED <<node, env, stack, volumes, ops, daemon>> /\ Goto("resume")
      BY <1>4 DEF Throw, data
    <2>2. job'.step = "resume"
      BY <1>3, <2>1 DEF RestoreSteps
    <2>3. Numbered'
      BY <1>2, <2>1, <2>2, NumbersKept DEF Counted
    <2>4. QED
      BY <1>1, <1>2, <2>1, <2>3, GivesUp
  <1>5. CASE Check
    <2>1. CASE Throw
      BY <1>4, <2>1
    <2>2. CASE ~Throw
      <3>1. /\ UNCHANGED <<node, env, stack, volumes, ops, daemon>>
            /\ job' = [job EXCEPT !.read = node, !.step =
                IF job.read.generation = node.generation THEN "quiesce" ELSE "resume"]
        BY <1>5, <2>2 DEF Check, data
      <3>2. job \in RestoreJobs /\ job.step = "check"
        BY <1>1, <1>5, Parts, JobKinds DEF Check, At
      <3>3. job'.op = job.op /\ job'.read = node /\ job'.step \in {"quiesce", "resume"}
        BY <3>1, <3>2 DEF RestoreJobs
      <3>4. Numbered'
        BY <1>2, <3>1, <3>2, <3>3, NumbersKept DEF Counted
      <3>5. RestoreSettled'
        BY <1>2, <3>1, <3>3 DEF RestoreSettled, StagingSteps, CutoverSteps
      <3>6. Snapshotted'
        BY <3>3 DEF Snapshotted
      <3>7. QED
        BY <1>2, <3>1, <3>3, <3>4, <3>5, <3>6, RestoreStays DEF RestoreSteps, StagingSteps
    <2>3. QED
      BY <2>1, <2>2
  <1>6. CASE Quiesce
    <2>1. CASE Throw
      BY <1>4, <2>1
    <2>2. CASE ~Throw
      <3>1. /\ UNCHANGED <<node, env, volumes, ops, daemon>>
            /\ stack' = WritersStopped /\ Goto("snapshot") /\ job.step = "quiesce"
        BY <1>6, <2>2 DEF Quiesce, data, At
      <3>2. job'.step = "snapshot" /\ job'.op = job.op /\ job'.read = job.read
        BY <1>3, <3>1 DEF RestoreSteps, StagingSteps
      <3>3. Numbered'
        BY <1>2, <3>1, <3>2, NumbersKept DEF Counted
      <3>4. RestoreSettled'
        BY <1>2, <3>1, <3>2 DEF RestoreSettled, StagingSteps, CutoverSteps
      <3>5. Snapshotted'
        BY <3>1, <3>2, Parts, StackTypes DEF Snapshotted
      <3>6. QED
        BY <1>2, <3>1, <3>2, <3>3, <3>4, <3>5, RestoreStays DEF RestoreSteps, StagingSteps
    <2>3. QED
      BY <2>1, <2>2
  <1>7. CASE Snapshot
    <2>1. CASE Throw
      BY <1>4, <2>1
    <2>2. CASE ~Throw
      <3> DEFINE safety == [of |-> stack.volume, records |-> volumes[stack.volume]]
      <3> DEFINE entry == [ThisOp EXCEPT !.safety = safety]
      <3>1. /\ UNCHANGED <<node, env, stack, volumes, daemon>>
            /\ Journal(entry) /\ Goto("stage") /\ job.step = "snapshot"
        BY <1>7, <2>2 DEF Snapshot, At
      <3>2. job'.step = "stage" /\ job'.op = job.op /\ job'.read = job.read
        BY <1>3, <3>1 DEF RestoreSteps, StagingSteps
      <3>3. entry \in Ops
        BY <1>1, Parts, Entries
      <3>4. entry.state = "running" /\ entry.cutover = NoCutover /\ entry.safety = safety
        BY <1>1, <1>2, Parts, Entries DEF Ops, ThisOp
      <3> HIDE DEF entry
      <3>5. ops'[job.op] = entry /\ DOMAIN ops' = DOMAIN ops /\ Len(ops') = Len(ops)
        BY <1>2, <3>1, <3>3, Parts, JournalWrites
      <3>6. Numbered'
        BY <1>2, <3>1, <3>2, <3>5, NumbersKept DEF Counted
      <3>7. RestoreSettled'
        BY <1>2, <3>1, <3>2, <3>4, <3>5 DEF RestoreSettled, StagingSteps, CutoverSteps
      <3>8. Snapshotted'
        BY <1>2, <3>1, <3>2, <3>4, <3>5, Parts DEF Snapshotted
      <3>9. QED
        BY <1>2, <3>1, <3>2, <3>6, <3>7, <3>8, RestoreStays DEF RestoreSteps, StagingSteps
    <2>3. QED
      BY <2>1, <2>2
  <1>8. CASE Stage
    <2>1. job.step = "stage" /\ job \in RestoreJobs /\ UNCHANGED <<node, env, stack, ops, daemon>>
      BY <1>1, <1>8, Parts, JobKinds DEF Stage, At
    <2>2. PICK n \in Generations : DOMAIN volumes = 1 .. n /\ n <= Len(ops)
      BY <1>2, <2>1 DEF Numbered
    <2>3. NextUnused = n + 1 /\ n + 1 \in Generations
      BY <2>1, <2>2, NextIsNew
    <2>4. \A b : volumes' = WithVolume(NextUnused, b) =>
            /\ DOMAIN volumes' = 1 .. (n + 1)
            /\ \A g \in DOMAIN volumes : volumes'[g] = volumes[g]
      BY <2>2, <2>3 DEF WithVolume, Generations
    <2>5. CASE Goto("resume")
      <3>1. job'.step = "resume"
        BY <1>3, <2>5 DEF RestoreSteps
      <3>2. CASE volumes' = volumes
        BY <1>1, <1>2, <2>1, <2>5, <3>1, <3>2, NumbersKept, GivesUp DEF Counted
      <3>3. CASE volumes' # volumes
        <4>1. DOMAIN volumes' = 1 .. (n + 1)
          BY <1>8, <2>4, <3>3 DEF Stage
        <4>2. Numbered'
          BY <1>2, <2>1, <2>2, <2>3, <3>1, <4>1, LenProperties, Parts DEF Numbered, Generations, TypeOK
        <4>3. QED
          BY <1>1, <1>2, <2>1, <2>5, <4>2, GivesUp
      <3>4. QED
        BY <3>2, <3>3
    <2>6. CASE ~Goto("resume")
      <3>1. /\ job' = [job EXCEPT !.step = "journal", !.to = NextUnused]
            /\ \E b \in backups : volumes' = WithVolume(NextUnused, b)
        BY <1>8, <2>6 DEF Stage
      <3>2. job'.step = "journal" /\ job'.op = job.op /\ job'.read = job.read /\ job'.to = NextUnused
        BY <2>1, <3>1 DEF RestoreJobs
      <3>3. /\ DOMAIN volumes' = 1 .. (n + 1)
            /\ \A g \in DOMAIN volumes : volumes'[g] = volumes[g]
        BY <2>4, <3>1
      <3>4. Numbered'
        BY <1>2, <2>1, <2>2, <2>3, <3>2, <3>3, LenProperties, Parts DEF Numbered, Generations, TypeOK
      <3>5. RestoreSettled'
        BY <1>2, <2>1, <3>2 DEF RestoreSettled, StagingSteps, CutoverSteps
      <3>6. Snapshotted'
        BY <1>2, <2>1, <2>2, <2>3, <3>2, <3>3 DEF Snapshotted, Generations
      <3>7. QED
        BY <1>2, <2>1, <3>2, <3>4, <3>5, <3>6, RestoreStays DEF RestoreSteps, StagingSteps
    <2>7. QED
      BY <2>5, <2>6
  <1>9. CASE JournalCutover
    <2> DEFINE cut == [from |-> job.read.generation, to |-> job.to]
    <2> DEFINE entry == [ThisOp EXCEPT !.cutover = cut]
    <2>1. /\ UNCHANGED <<node, env, stack, volumes, daemon>>
          /\ Journal(entry) /\ Goto("cut stop") /\ job.step = "journal"
      BY <1>9 DEF JournalCutover, At, data
    <2>2. /\ job'.step = "cut stop" /\ job'.op = job.op /\ job'.read = job.read
          /\ job'.to = job.to /\ job'.env = job.env
      BY <1>3, <2>1 DEF RestoreSteps, CutoverSteps
    <2>3. job.read.generation \in Generations /\ job.to \in Generations
      BY <1>2, <2>1, Parts DEF RestoreSettled, Snapshotted
    <2>4. entry \in Ops
      BY <1>1, <2>3, Parts, Entries
    <2>5. entry.state = "running" /\ entry.cutover = cut /\ entry.safety = ops[job.op].safety
      BY <1>1, <1>2, Parts, Entries DEF Ops, ThisOp
    <2> HIDE DEF entry
    <2>6. ops'[job.op] = entry /\ DOMAIN ops' = DOMAIN ops /\ Len(ops') = Len(ops)
      BY <1>2, <2>1, <2>4, Parts, JournalWrites
    <2>7. Numbered'
      BY <1>2, <2>1, <2>2, <2>6, NumbersKept DEF Counted
    <2>8. RestoreSettled'
      BY <1>2, <2>1, <2>2, <2>5, <2>6 DEF RestoreSettled, StagingSteps, CutoverSteps
    <2>9. Snapshotted'
      BY <1>2, <2>1, <2>2, <2>5, <2>6, Parts DEF Snapshotted
    <2>10. QED
      BY <1>2, <2>1, <2>2, <2>7, <2>8, <2>9, RestoreStays DEF RestoreSteps, CutoverSteps
  <1>10. QED
    BY <1>5, <1>6, <1>7, <1>8, <1>9 DEF Staging

\* A step of the cutover or its rollback that keeps the journal and the volumes.
LEMMA CutoverStays ==
  ASSUME CutoverInv, job.step \in CutoverSteps, NEW s \in CutoverSteps, job'.step = s,
         UNCHANGED <<ops, volumes, daemon>>, daemon # "dead", RestoreSettled', Snapshotted'
  PROVE  Coherent'
  <1>1. daemon = "serving" /\ Numbered
    BY Serving, Apart DEF RestoreSteps
  <1>2. s \notin Counted /\ s \in RestoreSteps
    BY DEF CutoverSteps, RestoreSteps, Counted
  <1>3. Numbered'
    BY <1>1, <1>2, NumbersKept
  <1>4. QED
    BY <1>1, <1>2, <1>3, RestoreStays

\* What a step of the cutover or its rollback keeps and finds.
LEMMA InCutover ==
  ASSUME CutoverInv, job.step \in CutoverSteps, daemon # "dead"
  PROVE  /\ daemon = "serving" /\ RestoreSettled /\ Snapshotted /\ job.step \in RestoreSteps
         /\ job.op \in DOMAIN ops /\ ops[job.op].state = "running"
         /\ ops[job.op].cutover = [from |-> job.read.generation, to |-> job.to]
         /\ \A s \in RestoreSteps : Goto(s) =>
              /\ job'.step = s
              /\ job'.read = job.read /\ job'.op = job.op /\ job'.to = job.to /\ job'.env = job.env
         /\ Goto("resume") /\ UNCHANGED <<node, env, ops, volumes, daemon>> /\ env = node.generation
              /\ env = job.read.generation => Coherent'
  <1>1. job.step \in RestoreSteps
    BY DEF RestoreSteps
  <1>2. /\ daemon = "serving" /\ RestoreSettled /\ Snapshotted /\ Numbered
        /\ job.op \in DOMAIN ops /\ ops[job.op].state = "running"
        /\ ops[job.op].cutover = [from |-> job.read.generation, to |-> job.to]
    BY <1>1, Serving, Apart DEF RestoreSettled
  <1>3. \A s \in RestoreSteps : Goto(s) =>
              /\ job'.step = s
              /\ job'.read = job.read /\ job'.op = job.op /\ job'.to = job.to /\ job'.env = job.env
    BY <1>1, Parts, RestoreGoes
  <1>4. ASSUME Goto("resume"), UNCHANGED <<node, env, ops, volumes, daemon>>, env = node.generation,
               env = job.read.generation
        PROVE  Coherent'
    <2>1. job'.step = "resume"
      BY <1>3, <1>4 DEF RestoreSteps
    <2>2. Numbered'
      BY <1>2, <1>4, <2>1, NumbersKept DEF Counted
    <2>3. QED
      BY <1>1, <1>2, <1>4, <2>2, GivesUp
  <1>5. QED
    BY <1>1, <1>2, <1>3, <1>4

LEMMA SwitchingCoherent == CutoverInv /\ Switching => Coherent'
  <1> SUFFICES ASSUME CutoverInv, Switching PROVE Coherent'
    OBVIOUS
  <1>1. job.step \in CutoverSteps /\ daemon # "dead"
    BY DEF Switching, CutStop, CutEnv, CutNode, CutUp, Succeed, At, CutoverSteps
  <1>2. \A s \in CutoverSteps : s \in RestoreSteps
    BY DEF RestoreSteps
  <1>3. CASE CutStop
    <2>1. UNCHANGED <<node, env, volumes, ops, daemon>> /\ job.step = "cut stop" /\ job \in RestoreJobs
      BY <1>1, <1>2, <1>3, Parts, JobKinds DEF CutStop, At, data
    <2>2. env = node.generation /\ env = job.read.generation
      BY <1>1, <2>1, InCutover DEF RestoreSettled
    <2>3. CASE ~docker
      BY <1>1, <1>3, <2>1, <2>2, <2>3, InCutover DEF CutStop
    <2>4. CASE docker
      <3>1. job' = [job EXCEPT !.step = "cut env", !.env = env] /\ stack' = Halted
        BY <1>3, <2>4 DEF CutStop
      <3>2. /\ job'.step = "cut env" /\ job'.op = job.op /\ job'.read = job.read
            /\ job'.to = job.to /\ job'.env = env
        BY <2>1, <3>1 DEF RestoreJobs
      <3>3. RestoreSettled'
        BY <1>1, <2>1, <2>2, <3>2, InCutover DEF RestoreSettled, StagingSteps
      <3>4. Snapshotted'
        BY <1>1, <2>1, <3>1, <3>2, Parts, InCutover, StackTypes DEF Snapshotted
      <3>5. QED
        BY <1>1, <2>1, <3>2, <3>3, <3>4, CutoverStays DEF CutoverSteps
    <2>5. QED
      BY <2>3, <2>4
  <1>4. CASE CutEnv
    <2>1. /\ UNCHANGED <<node, stack, volumes, ops, daemon>> /\ job.step = "cut env"
          /\ env' = job.to /\ Goto("cut node")
      BY <1>4 DEF CutEnv, At, data
    <2>2. /\ job'.step = "cut node" /\ job'.op = job.op /\ job'.read = job.read
          /\ job'.to = job.to /\ job'.env = job.env
      BY <1>1, <2>1, InCutover DEF RestoreSteps, CutoverSteps
    <2>3. RestoreSettled'
      BY <1>1, <2>1, <2>2, InCutover DEF RestoreSettled, StagingSteps
    <2>4. Snapshotted'
      BY <1>1, <2>1, <2>2, InCutover DEF Snapshotted
    <2>5. QED
      BY <1>1, <2>1, <2>2, <2>3, <2>4, CutoverStays DEF CutoverSteps
  <1>5. CASE CutNode
    <2>1. /\ UNCHANGED <<env, stack, volumes, ops, daemon>> /\ job.step = "cut node"
          /\ node'.generation = job.to /\ Goto("cut up")
      BY <1>5 DEF CutNode, At, data
    <2>2. /\ job'.step = "cut up" /\ job'.op = job.op /\ job'.read = job.read
          /\ job'.to = job.to /\ job'.env = job.env
      BY <1>1, <2>1, InCutover DEF RestoreSteps, CutoverSteps
    <2>3. RestoreSettled'
      BY <1>1, <2>1, <2>2, InCutover DEF RestoreSettled, StagingSteps
    <2>4. Snapshotted'
      BY <1>1, <2>1, <2>2, InCutover DEF Snapshotted
    <2>5. QED
      BY <1>1, <2>1, <2>2, <2>3, <2>4, CutoverStays DEF CutoverSteps
  <1>6. CASE CutUp
    <2>1. /\ UNCHANGED <<node, env, volumes, ops, daemon>> /\ job.step = "cut up"
          /\ Goto("back stop") \/ (docker /\ Goto("succeed"))
      BY <1>6 DEF CutUp, At, data
    <2>2. /\ job'.step \in {"back stop", "succeed"} /\ job'.op = job.op /\ job'.read = job.read
          /\ job'.to = job.to /\ job'.env = job.env
      BY <1>1, <2>1, InCutover DEF RestoreSteps, CutoverSteps
    <2>3. job'.step = "succeed" => stack'.volume = env
      <3>1. Goto("back stop") => job'.step = "back stop"
        BY <1>1, InCutover DEF RestoreSteps, CutoverSteps
      <3>2. docker => stack'.volume = env
        <4>1. docker => Up
          BY <1>6, Zenon DEF CutUp
        <4>2. Up => stack'.volume = env
          BY DEF Up
        <4>3. QED
          BY <4>1, <4>2
      <3>3. QED
        BY <2>1, <3>1, <3>2
    <2>4. RestoreSettled'
      BY <1>1, <2>1, <2>2, InCutover DEF RestoreSettled, StagingSteps
    <2>5. Snapshotted'
      BY <1>1, <2>1, <2>2, <2>3, InCutover DEF Snapshotted, RestoreSettled
    <2>6. QED
      BY <1>1, <2>1, <2>2, <2>4, <2>5, CutoverStays DEF CutoverSteps
  <1>7. CASE Succeed
    <2> DEFINE entry == [ThisOp EXCEPT !.state = "succeeded", !.cutover = NoCutover,
                                       !.active = ThisOp.cutover]
    <2>1. /\ UNCHANGED <<node, env, volumes, daemon>> /\ job.step = "succeed"
          /\ Journal(entry) /\ job' = Idle
      BY <1>7 DEF Succeed, At, data, Release
    <2>2. entry \in Ops
      BY <1>1, <1>2, Parts, Entries
    <2> HIDE DEF entry
    <2>3. Len(ops') = Len(ops)
      BY <1>1, <2>1, <2>2, Parts, InCutover, JournalWrites
    <2>4. env = node.generation
      BY <1>1, <2>1, InCutover DEF RestoreSettled
    <2>5. QED
      BY <1>1, <2>1, <2>3, <2>4, InCutover, Ended
  <1>8. QED
    BY <1>3, <1>4, <1>5, <1>6, <1>7 DEF Switching

LEMMA RollingBackCoherent == CutoverInv /\ RollingBack => Coherent'
  <1> SUFFICES ASSUME CutoverInv, RollingBack PROVE Coherent'
    OBVIOUS
  <1>1. CASE BackStop
    <2>1. /\ UNCHANGED <<node, env, volumes, ops, daemon>> /\ job.step = "back stop"
          /\ Goto("back env") /\ daemon # "dead"
      BY <1>1 DEF BackStop, At, data
    <2>2. job.step \in CutoverSteps
      BY <2>1 DEF CutoverSteps
    <2>3. /\ job'.step = "back env" /\ job'.op = job.op /\ job'.read = job.read
          /\ job'.to = job.to /\ job'.env = job.env
      BY <2>1, <2>2, InCutover DEF RestoreSteps, CutoverSteps
    <2>4. RestoreSettled'
      BY <2>1, <2>2, <2>3, InCutover DEF RestoreSettled, StagingSteps
    <2>5. Snapshotted'
      BY <2>3 DEF Snapshotted
    <2>6. QED
      BY <2>1, <2>2, <2>3, <2>4, <2>5, CutoverStays DEF CutoverSteps
  <1>2. CASE BackEnv
    <2>1. /\ UNCHANGED <<node, volumes, ops, daemon>> /\ job.step = "back env"
          /\ env' = job.env /\ Goto("back node") /\ daemon # "dead"
      BY <1>2 DEF BackEnv, OriginalEnv, At, data
    <2>2. job.step \in CutoverSteps
      BY <2>1 DEF CutoverSteps
    <2>3. /\ job'.step = "back node" /\ job'.op = job.op /\ job'.read = job.read
          /\ job'.to = job.to /\ job'.env = job.env
      BY <2>1, <2>2, InCutover DEF RestoreSteps, CutoverSteps
    <2>4. RestoreSettled'
      BY <2>1, <2>2, <2>3, InCutover DEF RestoreSettled, StagingSteps
    <2>5. Snapshotted'
      BY <2>3 DEF Snapshotted
    <2>6. QED
      BY <2>1, <2>2, <2>3, <2>4, <2>5, CutoverStays DEF CutoverSteps
  <1>3. CASE BackNode
    <2>1. /\ UNCHANGED <<env, volumes, ops, daemon>> /\ job.step = "back node"
          /\ node'.generation = job.read.generation /\ Goto("back up") /\ daemon # "dead"
      BY <1>3 DEF BackNode, At, data
    <2>2. job.step \in CutoverSteps
      BY <2>1 DEF CutoverSteps
    <2>3. /\ job'.step = "back up" /\ job'.op = job.op /\ job'.read = job.read
          /\ job'.to = job.to /\ job'.env = job.env
      BY <2>1, <2>2, InCutover DEF RestoreSteps, CutoverSteps
    <2>4. RestoreSettled'
      BY <2>1, <2>2, <2>3, InCutover DEF RestoreSettled, StagingSteps
    <2>5. Snapshotted'
      BY <2>3 DEF Snapshotted
    <2>6. QED
      BY <2>1, <2>2, <2>3, <2>4, <2>5, CutoverStays DEF CutoverSteps
  <1>4. CASE BackUp
    <2>1. /\ UNCHANGED <<node, env, volumes, ops, daemon>> /\ job.step = "back up"
          /\ Goto("resume") /\ daemon # "dead"
      BY <1>4 DEF BackUp, At, data
    <2>2. job.step \in CutoverSteps
      BY <2>1 DEF CutoverSteps
    <2>3. env = node.generation /\ env = job.read.generation
      BY <2>1, <2>2, InCutover DEF RestoreSettled
    <2>4. QED
      BY <2>1, <2>2, <2>3, InCutover
  <1>5. CASE Resume
    <2>1. /\ UNCHANGED <<node, env, volumes, ops, daemon>> /\ job.step = "resume"
          /\ Goto("fail") /\ daemon # "dead"
      BY <1>5 DEF Resume, At, data
    <2>2. job.step \in RestoreSteps /\ daemon = "serving" /\ RestoreSettled /\ Numbered
      BY <2>1, Serving, Apart DEF RestoreSteps
    <2>3. Numbered'
      <3>1. job'.step = "fail"
        BY <2>1, <2>2, Parts, RestoreGoes DEF RestoreSteps
      <3>2. QED
        BY <2>1, <2>2, <3>1, NumbersKept DEF Counted
    <2>4. /\ env = node.generation
          /\ ops[job.op].cutover = NoCutover \/ ops[job.op].cutover.from = env
      BY <2>1, <2>2 DEF RestoreSettled
    <2>5. QED
      BY <2>1, <2>2, <2>3, <2>4, GivesUp
  <1>6. CASE Fail
    <2> DEFINE entry == [ThisOp EXCEPT !.state = "failed"]
    <2>1. /\ UNCHANGED <<node, env, volumes, daemon>> /\ job.step = "fail"
          /\ Journal(entry) /\ job' = Idle /\ daemon # "dead"
      BY <1>6 DEF Fail, At, data, Release
    <2>2. job.step \in RestoreSteps /\ daemon = "serving" /\ RestoreSettled
      BY <2>1, Serving, Apart DEF RestoreSteps
    <2>3. entry \in Ops
      BY <2>2, Parts, Entries
    <2> HIDE DEF entry
    <2>4. Len(ops') = Len(ops)
      BY <2>1, <2>2, <2>3, Parts, JournalWrites
    <2>5. QED
      BY <2>1, <2>2, <2>4, Ended DEF RestoreSettled
  <1>7. QED
    BY <1>1, <1>2, <1>3, <1>4, <1>5, <1>6 DEF RollingBack

\* A step of the recovery that keeps the journal and the volumes.
LEMMA RecoveryStays ==
  ASSUME CutoverInv, job.step \in BootSteps, daemon = "booting", NEW s \in BootSteps, Goto(s),
         UNCHANGED <<ops, volumes, daemon>>,
         s \in {"boot node", "boot up", "boot done"} => env' = ops[job.op].cutover.from,
         s \in {"boot up", "boot done"} => node'.generation = ops[job.op].cutover.from
  PROVE  Coherent'
  <1>1. job'.step = s /\ job'.op = job.op
    BY Parts, BootGoes
  <1>2. BootSettled
    BY Serving
  <1>3. BootSettled'
    BY <1>1, <1>2 DEF BootSettled, Unrecovered
  <1>4. QED
    BY <1>1, <1>3, BootStays

LEMMA BootingCoherent == CutoverInv /\ Booting => Coherent'
  <1> SUFFICES ASSUME CutoverInv, Booting PROVE Coherent'
    OBVIOUS
  <1>1. CASE Boot
    <2>1. /\ daemon = "dead" /\ ops' = Interrupted /\ UNCHANGED <<node, env, volumes>>
          /\ Len(ops') = Len(ops)
      BY <1>1, Parts, InterruptedParts DEF Boot, data
    <2>2. job = Idle /\ (env = node.generation \/ Unrecovered(Interrupted) # {})
      BY <2>1 DEF CutoverInv, Coherent, Settled
    <2>3. CASE Unrecovered(Interrupted) = {}
      BY <1>1, <2>1, <2>2, <2>3, Ended DEF Boot
    <2>4. CASE Unrecovered(Interrupted) # {}
      <3>1. /\ job' = [step |-> "boot stop", op |-> Max(Unrecovered(Interrupted))]
            /\ daemon' = "booting"
        BY <1>1, <2>4 DEF Boot
      <3>2. Max(Unrecovered(Interrupted)) \in Unrecovered(Interrupted)
        <4>1. Unrecovered(Interrupted) \in SUBSET (1 .. Len(ops)) /\ Len(ops) \in Nat
          BY Parts, InterruptedParts, LenProperties DEF Unrecovered, TypeOK
        <4>2. QED
          BY <2>4, <4>1, MaxOf
      <3>3. job'.step = "boot stop" /\ job'.op \in Unrecovered(ops')
        BY <2>1, <3>1, <3>2
      <3>4. BootSettled'
        BY <3>3 DEF BootSettled
      <3>5. QED
        BY <2>1, <3>1, <3>3, <3>4, BootStays DEF BootSteps
    <2>5. QED
      BY <2>3, <2>4
  <1>2. ASSUME job.step \in BootSteps, daemon # "dead"
        PROVE  daemon = "booting" /\ BootSettled
    BY <1>2, Serving
  <1>3. CASE BootStop
    <2>1. job.step = "boot stop" /\ daemon # "dead" /\ Goto("boot env")
          /\ UNCHANGED <<ops, volumes, daemon>>
      BY <1>3 DEF BootStop, At, data
    <2>2. QED
      BY <1>2, <2>1, RecoveryStays DEF BootSteps
  <1>4. CASE BootEnv
    <2>1. job.step = "boot env" /\ daemon # "dead" /\ Goto("boot node")
          /\ UNCHANGED <<ops, volumes, daemon>> /\ env' = ops[job.op].cutover.from
      BY <1>4 DEF BootEnv, At, data, ThisOp
    <2>2. QED
      BY <1>2, <2>1, RecoveryStays DEF BootSteps
  <1>5. CASE BootNode
    <2>1. /\ job.step = "boot node" /\ daemon # "dead" /\ UNCHANGED <<env, ops, volumes, daemon>>
          /\ Goto("boot up") \/ Goto("boot done")
          /\ node' = [node EXCEPT !.generation = ops[job.op].cutover.from]
      BY <1>5 DEF BootNode, At, data, ThisOp
    <2>2. job.step \in BootSteps
      BY <2>1 DEF BootSteps
    <2>3. node'.generation = ops[job.op].cutover.from
      BY <2>1, <2>2, Parts
    <2>4. env = ops[job.op].cutover.from
      BY <1>2, <2>1, <2>2 DEF BootSettled
    <2>5. QED
      BY <1>2, <2>1, <2>2, <2>3, <2>4, RecoveryStays DEF BootSteps
  <1>6. CASE BootUp
    <2>1. /\ job.step = "boot up" /\ daemon # "dead" /\ UNCHANGED <<node, env, ops, volumes>>
          /\ (Goto("boot done") /\ UNCHANGED daemon) \/ (job' = Idle /\ daemon' = "serving")
      BY <1>6 DEF BootUp, At, data, Release
    <2>2. env = ops[job.op].cutover.from /\ node.generation = ops[job.op].cutover.from
      BY <1>2, <2>1 DEF BootSteps, BootSettled
    <2>3. CASE Goto("boot done") /\ UNCHANGED daemon
      BY <1>2, <2>1, <2>2, <2>3, RecoveryStays DEF BootSteps
    <2>4. CASE job' = Idle /\ daemon' = "serving"
      BY <2>1, <2>2, <2>4, Ended
    <2>5. QED
      BY <2>1, <2>3, <2>4
  <1>7. CASE BootDone
    <2> DEFINE entry == [ThisOp EXCEPT !.state = "recovered"]
    <2>1. /\ UNCHANGED <<node, env, volumes>> /\ job.step = "boot done" /\ daemon # "dead"
          /\ Journal(entry) /\ job' = Idle /\ daemon' = "serving"
      BY <1>7 DEF BootDone, At, data, Release
    <2>2. job.step \in BootSteps
      BY <2>1 DEF BootSteps
    <2>3. entry \in Ops
      BY <2>2, Parts, Entries
    <2> HIDE DEF entry
    <2>4. Len(ops') = Len(ops)
      BY <2>1, <2>2, <2>3, Parts, JournalWrites
    <2>5. env = node.generation
      BY <1>2, <2>1, <2>2 DEF BootSettled
    <2>6. QED
      BY <2>1, <2>4, <2>5, Ended
  <1>8. QED
    BY <1>1, <1>3, <1>4, <1>5, <1>6, <1>7 DEF Booting

\* A step that leaves all that coherence is about.
LEMMA StillSettled ==
  ASSUME Settled, UNCHANGED <<node, env, ops, job, daemon>>
  PROVE  Settled'
  <1>1. /\ (Unrecovered(Interrupted))' = Unrecovered(Interrupted)
        /\ (Unrecovered(ops))' = Unrecovered(ops)
    BY DEF Unrecovered, Interrupted
  <1>2. RestoreSettled' = RestoreSettled
    BY DEF RestoreSettled
  <1>3. BootSettled' = BootSettled
    BY <1>1 DEF BootSettled
  <1>4. QED
    BY <1>1, <1>2, <1>3 DEF Settled

LEMMA Untouched ==
  ASSUME Coherent, UNCHANGED <<node, env, stack, volumes, ops, job, daemon>>
  PROVE  Coherent'
  <1>1. Numbered'
    BY NumbersKept DEF Coherent
  <1>2. Settled'
    BY StillSettled DEF Coherent
  <1>3. Snapshotted'
    BY DEF Coherent, Snapshotted
  <1>4. QED
    BY <1>1, <1>2, <1>3 DEF Coherent

LEMMA RequestCoherent == \A c \in Callers : CutoverInv /\ Request1(c) => Coherent'
  <1> SUFFICES ASSUME NEW c \in Callers, CutoverInv, Request1(c) PROVE Coherent'
    OBVIOUS
  <1>1. CASE Refused(c) \/ \E kind \in Kinds : Ask(c, kind)
    BY <1>1, Untouched DEF Refused, Ask, data, CutoverInv
  <1>2. ASSUME daemon = "serving", LockFree
        PROVE  env = node.generation /\ Numbered
    BY <1>2, Serving, Apart DEF LockFree
  <1>3. CASE Begin(c)
    <2>1. /\ daemon = "serving" /\ LockFree /\ UNCHANGED <<node, env, stack, volumes, ops, daemon>>
          /\ call[c].step \in LifecycleSteps /\ job' = [step |-> call[c].step, read |-> call[c].node]
      BY <1>3 DEF Begin, data, LifecycleSteps
    <2>2. job'.step \in LifecycleSteps
      BY <2>1
    <2>3. QED
      BY <1>2, <2>1, <2>2, LifecycleStays
  <1>4. CASE BeginRestore(c)
    <2>1. /\ daemon = "serving" /\ LockFree /\ UNCHANGED <<node, env, stack, volumes, daemon>>
          /\ Len(ops) < MaxRestores /\ ops' = Append(ops, NewOp)
          /\ job' = [step |-> "check", read |-> call[c].node, op |-> Len(ops) + 1, to |-> 0, env |-> 0]
      BY <1>4 DEF BeginRestore, data
    <2>2. job'.step = "check" /\ job'.op = Len(ops) + 1
      BY <2>1
    <2>3. NewOp \in Ops /\ NewOp.state = "running" /\ NewOp.cutover = NoCutover
      BY CutoverAssumption DEF NewOp, NoCutover, NoBackup, Ops, Cuts
    <2>4. /\ Len(ops) \in Nat /\ Len(ops') = Len(ops) + 1
          /\ job'.op \in DOMAIN ops' /\ ops'[job'.op] = NewOp
      BY <2>1, <2>2, <2>3, Parts, AppendProperties, LenProperties DEF TypeOK
    <2>5. Numbered'
      BY <1>2, <2>1, <2>4, CutoverAssumption DEF Numbered, Generations
    <2>6. RestoreSettled'
      BY <1>2, <2>1, <2>2, <2>3, <2>4 DEF RestoreSettled, StagingSteps, CutoverSteps
    <2>7. Snapshotted'
      BY <2>2 DEF Snapshotted
    <2>8. QED
      BY <2>1, <2>2, <2>5, <2>6, <2>7, RestoreStays DEF RestoreSteps, StagingSteps
  <1>5. QED
    BY <1>1, <1>3, <1>4 DEF Request1, Serve

LEMMA AroundCoherent == CutoverInv /\ Around => Coherent'
  <1> SUFFICES ASSUME CutoverInv, Around PROVE Coherent'
    OBVIOUS
  <1>1. CASE DockerFails \/ DockerReturns
    BY <1>1, Untouched DEF DockerFails, DockerReturns, data, CutoverInv
  <1>2. CASE Crash
    <2>1. /\ daemon # "dead" /\ daemon' = "dead" /\ job' = Idle
          /\ UNCHANGED <<node, env, stack, volumes, ops>>
      BY <1>2 DEF Crash, data
    <2>2. env = node.generation \/ Unrecovered(Interrupted) # {}
      <3>1. CASE job.step \in RestoreSteps
        <4>1. RestoreSettled
          BY <2>1, <3>1, Serving
        <4>2. CASE job.step \in {"cut node", "back node"}
          <5>1. job.step \in CutoverSteps
            BY <4>2 DEF CutoverSteps
          <5>2. job.op \in DOMAIN ops /\ ops[job.op].state = "running" /\ ops[job.op].cutover # NoCutover
            BY <3>1, <5>1, Parts, ReadExists
          <5>3. job.op \in Unrecovered(Interrupted)
            BY <5>2, Parts, InterruptedParts DEF Unrecovered
          <5>4. QED
            BY <5>3
        <4>3. QED
          BY <4>1, <4>2 DEF RestoreSettled
      <3>2. CASE job.step \in BootSteps
        <4>1. job.op \in Unrecovered(ops)
          BY <2>1, <3>2, Serving DEF BootSettled
        <4>2. job.op \in Unrecovered(Interrupted)
          BY <4>1, Parts, InterruptedParts DEF Unrecovered
        <4>3. QED
          BY <4>2
      <3>3. QED
        BY <2>1, <3>1, <3>2, Parts, Serving, JobKinds
    <2>3. (Unrecovered(Interrupted))' = Unrecovered(Interrupted)
      BY <2>1 DEF Unrecovered, Interrupted
    <2>4. Numbered'
      BY <2>1, NumbersKept, Apart DEF CutoverInv, Coherent
    <2>5. Settled'
      BY <2>1, <2>2, <2>3, Apart DEF Settled, BootSteps
    <2>6. Snapshotted'
      BY <2>1, Apart DEF Snapshotted
    <2>7. QED
      BY <2>4, <2>5, <2>6 DEF Coherent
  <1>3. ASSUME NEW r \in Records, Accept(r) PROVE Coherent'
    <2>1. /\ stack.runs = "all" /\ volumes' = [volumes EXCEPT ![stack.volume] = @ \cup {r}]
          /\ UNCHANGED <<node, env, stack, ops, job, daemon>>
      BY <1>3 DEF Accept
    <2>2. /\ DOMAIN volumes' = DOMAIN volumes
          /\ \A g \in DOMAIN volumes : g # stack.volume => volumes'[g] = volumes[g]
      BY <2>1
    <2>3. Numbered'
      BY <2>1, <2>2, NumbersKept DEF CutoverInv, Coherent
    <2>4. Settled'
      BY <2>1, StillSettled DEF CutoverInv, Coherent
    <2>5. Snapshotted'
      BY <2>1, <2>2 DEF CutoverInv, Coherent, Snapshotted
    <2>6. QED
      BY <2>3, <2>4, <2>5 DEF Coherent
  <1>4. QED
    BY <1>1, <1>2, <1>3 DEF Around

LEMMA CutoverStep == CutoverInv /\ [Next]_vars => CutoverInv'
  <1> SUFFICES ASSUME CutoverInv, [Next]_vars PROVE CutoverInv'
    OBVIOUS
  <1>1. TypeOK'
    BY TypeStep
  <1>2. Coherent'
    <2>1. CASE UNCHANGED vars
      BY <2>1, Untouched DEF vars, CutoverInv
    <2>2. CASE Next
      BY <2>2, Steps, RequestCoherent, LifecycleCoherent, StagingCoherent, SwitchingCoherent,
         RollingBackCoherent, BootingCoherent, AroundCoherent
    <2>3. QED
      BY <2>1, <2>2
  <1>3. QED
    BY <1>1, <1>2 DEF CutoverInv

LEMMA CutoverInit == Init => CutoverInv
  <1> SUFFICES ASSUME Init PROVE CutoverInv
    OBVIOUS
  <1>1. 1 \in Generations /\ {MaxGeneration, MaxRestores, MaxCrashes, MaxOutages} \subseteq Nat
    BY CutoverAssumption DEF Generations
  <1>2. DOMAIN volumes = {1} /\ 1 .. 1 = {1} /\ ops = <<>> /\ Len(ops) = 0 /\ DOMAIN ops = {}
    BY DEF Init
  <1>3. TypeOK
    BY <1>1, <1>2 DEF Init, TypeOK, NodeRows, Jobs
  <1>4. Numbered
    BY <1>1, <1>2, Apart DEF Init, Numbered, Counted
  <1>5. Settled
    BY Apart DEF Init, Settled
  <1>6. Snapshotted
    BY Apart DEF Init, Snapshotted
  <1>7. QED
    BY <1>3, <1>4, <1>5, <1>6 DEF CutoverInv, Coherent

-----------------------------------------------------------------------------
(* What a step of a restore may never do. *)

\* Only a step that ends an operation writes such a state, and to its own entry.
LEMMA KeepsStates ==
  ASSUME CutoverInv, Next, ~Succeed, ~Fail, ~BootDone, NEW i \in DOMAIN ops
  PROVE  ops'[i].state \in {ops[i].state, "needs_attention"}
  <1>1. CASE ops' = ops
    BY <1>1
  <1>2. CASE Boot
    BY <1>2, Parts, InterruptedParts DEF Boot
  <1>3. ASSUME NEW c \in Callers, BeginRestore(c)
        PROVE  ops'[i].state = ops[i].state
    <2>1. NewOp \in Ops /\ ops' = Append(ops, NewOp) /\ ops \in Seq(Ops)
      BY <1>3, Parts, CutoverAssumption DEF BeginRestore, NewOp, NoCutover, NoBackup, Ops, Cuts, TypeOK
    <2>2. ops'[i] = ops[i]
      BY <2>1, AppendProperties, LenProperties
    <2>3. QED
      BY <2>2
  <1>4. CASE Snapshot
    <2> DEFINE entry == [ThisOp EXCEPT !.safety = [of |-> stack.volume, records |-> volumes[stack.volume]]]
    <2>1. job.step = "snapshot" /\ (ops' = ops \/ Journal(entry))
      BY <1>4 DEF Snapshot, At, Throw
    <2>2. job.step \in RestoreSteps
      BY <2>1 DEF RestoreSteps, StagingSteps
    <2>3. entry \in Ops /\ entry.state = ops[job.op].state
      BY <2>2, Parts, Entries DEF Ops, ThisOp
    <2> HIDE DEF entry
    <2>4. QED
      BY <1>1, <2>1, <2>2, <2>3, Parts, JournalWrites
  <1>5. CASE JournalCutover
    <2> DEFINE entry == [ThisOp EXCEPT !.cutover = [from |-> job.read.generation, to |-> job.to]]
    <2>1. job.step = "journal" /\ Journal(entry) /\ daemon # "dead"
      BY <1>5 DEF JournalCutover, At
    <2>2. job.step \in RestoreSteps
      BY <2>1 DEF RestoreSteps, StagingSteps
    <2>3. job.read.generation \in Generations /\ job.to \in Generations
      BY <2>1, <2>2, Serving, Parts DEF RestoreSettled, Snapshotted
    <2>4. entry \in Ops /\ entry.state = ops[job.op].state
      BY <2>2, <2>3, Parts, Entries DEF Ops, ThisOp
    <2> HIDE DEF entry
    <2>5. QED
      BY <2>1, <2>2, <2>4, Parts, JournalWrites
  <1>6. ASSUME ops' # ops
        PROVE  Boot \/ Snapshot \/ JournalCutover \/ \E c \in Callers : BeginRestore(c)
    <2>1. ~Lifecycle
      BY <1>6 DEF Lifecycle, MarkRunning, RestartStop, BringUp, MarkStopped, Halt
    <2>2. Staging => Snapshot \/ JournalCutover
      BY <1>6 DEF Staging, Check, Quiesce, Stage, Throw
    <2>3. ~Switching
      BY <1>6 DEF Switching, CutStop, CutEnv, CutNode, CutUp
    <2>4. ~RollingBack
      BY <1>6 DEF RollingBack, BackStop, BackEnv, BackNode, BackUp, Resume
    <2>5. Booting => Boot
      BY <1>6 DEF Booting, BootStop, BootEnv, BootNode, BootUp
    <2>6. ~Around
      BY <1>6 DEF Around, Crash, DockerFails, DockerReturns, Accept
    <2>7. \A c \in Callers : Request1(c) => BeginRestore(c)
      BY <1>6 DEF Request1, Serve, Refused, Begin, Ask
    <2>8. QED
      BY <2>1, <2>2, <2>3, <2>4, <2>5, <2>6, <2>7, Steps
  <1>7. QED
    BY <1>1, <1>2, <1>3, <1>4, <1>5, <1>6

\* The volumes there are, with their records, are there after any step.
LEMMA VolumesGrow ==
  CutoverInv /\ [Next]_vars =>
    \A g \in DOMAIN volumes : g \in DOMAIN volumes' /\ volumes[g] \subseteq volumes'[g]
  <1> SUFFICES ASSUME CutoverInv, [Next]_vars, NEW g \in DOMAIN volumes
               PROVE  g \in DOMAIN volumes' /\ volumes[g] \subseteq volumes'[g]
    OBVIOUS
  <1>1. CASE volumes' = volumes
    BY <1>1
  <1>2. ASSUME NEW r \in Records, Accept(r)
        PROVE  g \in DOMAIN volumes' /\ volumes[g] \subseteq volumes'[g]
    BY <1>2 DEF Accept
  <1>3. CASE Stage
    <2>1. job.step = "stage" /\ Numbered
      BY <1>3 DEF Stage, At, CutoverInv, Coherent
    <2>2. PICK n \in Generations : DOMAIN volumes = 1 .. n /\ n <= Len(ops)
      BY <2>1 DEF Numbered
    <2>3. NextUnused # g
      BY <2>1, <2>2, NextIsNew DEF Generations
    <2>4. \E b : volumes' = volumes \/ volumes' = WithVolume(NextUnused, b)
      BY <1>3 DEF Stage
    <2>5. QED
      BY <2>3, <2>4 DEF WithVolume
  <1>4. ASSUME volumes' # volumes
        PROVE  Stage \/ \E r \in Records : Accept(r)
    <2>1. ~Lifecycle
      BY <1>4 DEF Lifecycle, MarkRunning, RestartStop, BringUp, MarkStopped, Halt, data
    <2>2. Staging => Stage
      BY <1>4 DEF Staging, Check, Quiesce, Snapshot, JournalCutover, Throw, data
    <2>3. ~Switching
      BY <1>4 DEF Switching, CutStop, CutEnv, CutNode, CutUp, Succeed, data
    <2>4. ~RollingBack
      BY <1>4 DEF RollingBack, BackStop, BackEnv, BackNode, BackUp, Resume, Fail, data
    <2>5. ~Booting
      BY <1>4 DEF Booting, Boot, BootStop, BootEnv, BootNode, BootUp, BootDone, data
    <2>6. Around => \E r \in Records : Accept(r)
      BY <1>4 DEF Around, Crash, DockerFails, DockerReturns, data
    <2>7. \A c \in Callers : ~Request1(c)
      BY <1>4 DEF Request1, Serve, Refused, Begin, BeginRestore, Ask, data
    <2>8. QED
      BY <1>4, <2>1, <2>2, <2>3, <2>4, <2>5, <2>6, <2>7, Steps DEF vars
  <1>5. QED
    BY <1>1, <1>2, <1>3, <1>4

\* The action of RestoreIsBackedUp.
LEMMA BackedUp ==
  CutoverInv /\ [Next]_vars =>
    \A i \in DOMAIN ops :
      ops[i].state # "succeeded" /\ ops'[i].state = "succeeded"
        => volumes[ops[i].safety.of] = ops[i].safety.records
  <1> SUFFICES ASSUME CutoverInv, [Next]_vars, NEW i \in DOMAIN ops,
                      ops[i].state # "succeeded", ops'[i].state = "succeeded"
               PROVE  volumes[ops[i].safety.of] = ops[i].safety.records
    OBVIOUS
  <1>1. CASE Succeed
    <2>1. job.step = "succeed" /\ Snapshotted
      BY <1>1 DEF Succeed, At, CutoverInv, Coherent
    <2>2. job.step \in RestoreSteps /\ Journal([ThisOp EXCEPT !.state = "succeeded", !.cutover = NoCutover,
                                                            !.active = ThisOp.cutover])
      BY <1>1, <2>1 DEF Succeed, RestoreSteps, CutoverSteps
    <2>3. i # job.op => ops'[i] = ops[i]
      BY <2>2, Parts, Entries, JournalWrites
    <2>4. QED
      BY <2>1, <2>3 DEF Snapshotted
  <1>2. CASE Fail
    <2>1. job.step \in RestoreSteps /\ Journal([ThisOp EXCEPT !.state = "failed"])
      BY <1>2 DEF Fail, At, RestoreSteps
    <2> DEFINE entry == [ThisOp EXCEPT !.state = "failed"]
    <2>2. entry \in Ops /\ entry.state = "failed"
      BY <2>1, Parts, Entries DEF Ops, ThisOp
    <2>3. Journal(entry)
      BY <2>1
    <2> HIDE DEF entry
    <2>4. ops'[i] = ops[i] \/ ops'[i].state = "failed"
      BY <2>1, <2>2, <2>3, Parts, JournalWrites
    <2>5. QED
      BY <2>4
  <1>3. CASE BootDone
    <2>1. job.step \in BootSteps /\ Journal([ThisOp EXCEPT !.state = "recovered"])
      BY <1>3 DEF BootDone, At, BootSteps
    <2> DEFINE entry == [ThisOp EXCEPT !.state = "recovered"]
    <2>2. entry \in Ops /\ entry.state = "recovered"
      BY <2>1, Parts, Entries DEF Ops, ThisOp
    <2>3. Journal(entry)
      BY <2>1
    <2> HIDE DEF entry
    <2>4. ops'[i] = ops[i] \/ ops'[i].state = "recovered"
      BY <2>1, <2>2, <2>3, Parts, JournalWrites
    <2>5. QED
      BY <2>4
  <1>4. QED
    BY <1>1, <1>2, <1>3, KeepsStates DEF vars

\* The action of UndoneIsUndone.
LEMMA Undone ==
  CutoverInv /\ [Next]_vars =>
    \A i \in DOMAIN ops :
      /\ ops[i].state # ops'[i].state
      /\ ops'[i].state \in {"failed", "recovered"} /\ ops[i].cutover # NoCutover
      => env = ops[i].cutover.from /\ node.generation = ops[i].cutover.from
  <1> SUFFICES ASSUME CutoverInv, [Next]_vars, NEW i \in DOMAIN ops,
                      ops[i].state # ops'[i].state, ops'[i].state \in {"failed", "recovered"},
                      ops[i].cutover # NoCutover
               PROVE  env = ops[i].cutover.from /\ node.generation = ops[i].cutover.from
    OBVIOUS
  <1>1. CASE Succeed
    <2>1. job.step \in RestoreSteps /\ Journal([ThisOp EXCEPT !.state = "succeeded", !.cutover = NoCutover,
                                                            !.active = ThisOp.cutover])
      BY <1>1 DEF Succeed, At, RestoreSteps, CutoverSteps
    <2> DEFINE entry == [ThisOp EXCEPT !.state = "succeeded", !.cutover = NoCutover,
                                       !.active = ThisOp.cutover]
    <2>2. entry \in Ops /\ entry.state = "succeeded"
      BY <2>1, Parts, Entries DEF Ops, ThisOp
    <2>3. Journal(entry)
      BY <2>1
    <2> HIDE DEF entry
    <2>4. ops'[i] = ops[i] \/ ops'[i].state = "succeeded"
      BY <2>1, <2>2, <2>3, Parts, JournalWrites
    <2>5. QED
      BY <2>4
  <1>2. CASE Fail
    <2>1. job.step = "fail" /\ daemon # "dead" /\ Journal([ThisOp EXCEPT !.state = "failed"])
      BY <1>2 DEF Fail, At
    <2>2. job.step \in RestoreSteps /\ RestoreSettled
      BY <2>1, Serving DEF RestoreSteps
    <2>3. i # job.op => ops'[i] = ops[i]
      BY <2>1, <2>2, Parts, Entries, JournalWrites
    <2>4. QED
      BY <2>1, <2>2, <2>3 DEF RestoreSettled
  <1>3. CASE BootDone
    <2>1. job.step = "boot done" /\ daemon # "dead" /\ Journal([ThisOp EXCEPT !.state = "recovered"])
      BY <1>3 DEF BootDone, At
    <2>2. job.step \in BootSteps /\ BootSettled
      BY <2>1, Serving DEF BootSteps
    <2>3. i # job.op => ops'[i] = ops[i]
      BY <2>1, <2>2, Parts, Entries, JournalWrites
    <2>4. QED
      BY <2>1, <2>2, <2>3 DEF BootSettled
  <1>4. QED
    BY <1>1, <1>2, <1>3, KeepsStates DEF vars

-----------------------------------------------------------------------------
\* The inductive invariant of the restores, whichever kind of operation the
\* behaviour is about.
LEMMA ManagerSteps ==
  [ManagerNext]_<<vars, switchVars, doing>> => [Next]_vars /\ [Switch!SwitchNext]_switchVars
  BY DEF ManagerNext

THEOREM RestoresCohere == ManagerSpec => []CutoverInv
  <1>1. ManagerInit => CutoverInv
    BY CutoverInit DEF ManagerInit
  <1>2. CutoverInv /\ [ManagerNext]_<<vars, switchVars, doing>> => CutoverInv'
    BY ManagerSteps, CutoverStep
  <1>3. QED
    BY <1>1, <1>2, PTL DEF ManagerSpec

\* Between operations .env and the registry name one generation (restoreApply and
\* reconcileInterruptedCutovers), wherever the daemon died.
THEOREM IdentityIsKept == ManagerSpec => []IdentityHolds
  <1>1. CutoverInv => IdentityHolds
    BY Apart DEF CutoverInv, Coherent, Settled, IdentityHolds, LockFree
  <1>2. QED
    BY <1>1, RestoresCohere, PTL

\* No step of any operation overwrites a volume or takes a record out of one
\* (stageDatabase, nextUnusedGeneration).
THEOREM NothingIsOverwritten == ManagerSpec => GenerationsPreserved
  <1>1. CutoverInv /\ [ManagerNext]_<<vars, switchVars, doing>> =>
          [\A g \in DOMAIN volumes : g \in DOMAIN volumes' /\ volumes[g] \subseteq volumes'[g]]_vars
    BY ManagerSteps, VolumesGrow
  <1>2. QED
    BY <1>1, RestoresCohere, PTL DEF ManagerSpec, GenerationsPreserved

\* A restore that reports success replaced a database its backup holds all of
\* (restoreApply: writers stopped before the snapshot).
THEOREM SuccessIsBackedUp == ManagerSpec => RestoreIsBackedUp
  <1>1. CutoverInv /\ [ManagerNext]_<<vars, switchVars, doing>> =>
          [\A i \in DOMAIN ops :
             ops[i].state # "succeeded" /\ ops'[i].state = "succeeded"
               => volumes[ops[i].safety.of] = ops[i].safety.records]_vars
    BY ManagerSteps, BackedUp
  <1>2. QED
    BY <1>1, RestoresCohere, PTL DEF ManagerSpec, RestoreIsBackedUp

\* A restore that reports failure or recovery left the Node on the generation it
\* found (rollback in cutover, reconcileInterruptedCutovers).
THEOREM FailureIsUndone == ManagerSpec => UndoneIsUndone
  <1>1. CutoverInv /\ [ManagerNext]_<<vars, switchVars, doing>> =>
          [\A i \in DOMAIN ops :
             /\ ops[i].state # ops'[i].state
             /\ ops'[i].state \in {"failed", "recovered"} /\ ops[i].cutover # NoCutover
             => env = ops[i].cutover.from /\ node.generation = ops[i].cutover.from]_vars
    BY ManagerSteps, Undone
  <1>2. QED
    BY <1>1, RestoresCohere, PTL DEF ManagerSpec, UndoneIsUndone

-----------------------------------------------------------------------------
(* Changes of models (ModelSwitch). *)

\* What .env says of the models: the bridge is the provider of a Codex session,
\* and of nothing else.
EnvFiles ==
    {e \in [embedding : Embeddings, dims : BOOLEAN, source : {"codex", "api"}, model : Models,
            provider : Apis \cup {Bridge}, direct : Apis \cup {None}] :
        e.provider = Bridge <=> e.source = "codex"}

SettingNames == {"embedding", "dims", "source", "model", "provider", "direct"}

\* What an operation writes over it.
IsChange(new) ==
    /\ DOMAIN new \subseteq SettingNames
    /\ "embedding" \in DOMAIN new => new.embedding \in Embeddings
    /\ "dims" \in DOMAIN new => new.dims \in BOOLEAN
    /\ "model" \in DOMAIN new => new.model \in Models
    /\ "direct" \in DOMAIN new => new.direct \in Apis
    /\ "source" \in DOMAIN new <=> "provider" \in DOMAIN new
    /\ "source" \in DOMAIN new =>
         /\ new.source \in {"codex", "api"} /\ new.provider \in Apis \cup {Bridge}
         /\ new.provider = Bridge <=> new.source = "codex"

ChangeSteps   == {"quiesce", "verify", "probe", "compose", "env", "stop", "up", "succeed"}
BackSteps     == {"back env", "back compose", "back stop", "back up", "fail"}
RecoverySteps == {"recover", "saved", "recover stop", "recover up", "synced", "recover failed"}

JournalStates == {"running", "succeeded", "failed", "manager_restarted", "recovery_restarting",
                  "recovery_failed", "recovered"}

IsTask(t) ==
    \/ t = Switch!Rest
    \/ /\ t.step \in ChangeSteps \cup BackSteps
       /\ DOMAIN t = {"step", "op", "new", "probed", "was", "composeWas", "ran"}
       /\ t.was \in EnvFiles /\ t.composeWas \in BOOLEAN /\ IsChange(t.new)
    \/ t.step \in RecoverySteps /\ DOMAIN t = {"step", "op"}

SwitchTypes ==
    /\ settings \in EnvFiles /\ compose \in BOOLEAN /\ desired \in {"running", "stopped"}
    /\ runtime \in [runs : {"nothing", "database", "all"}, with : EnvFiles]
    /\ database \in [filled : BOOLEAN, vectors : SUBSET Embeddings]
    /\ journal \in Seq(JournalStates)
    /\ IsTask(task)

\* The vectors there are come from the model of .env, and so will those of the
\* containers that run, but for models that were taken back after they had run.
SameModel ==
    /\ database.vectors # {} => database.filled
    /\ \A v \in database.vectors : v = settings.embedding \/ v \in undone
    /\ runtime.runs = "all" => \/ runtime.with.embedding = settings.embedding
                               \/ runtime.with.embedding \in undone

\* Nothing writes to the database, and nothing is in it.
Empty == ~database.filled /\ runtime.runs # "all"

EmbeddingChanges == "embedding" \in DOMAIN task.new /\ task.new.embedding # task.was.embedding

\* A change of the embedding model finds the database empty and the writers
\* stopped, until the containers run with the new model or .env is as it was.
EmptyMeanwhile ==
    /\ task.step = "verify" => runtime.runs # "all"
    /\ task.step \in {"probe", "compose", "env", "stop", "up"} /\ EmbeddingChanges => Empty
    /\ task.step = "back env" /\ ~task.ran /\ settings.embedding # task.was.embedding => Empty

\* What .env is at each step of an operation.
EnvKnown ==
    /\ task.step \in {"quiesce", "verify", "probe", "compose", "env"} => settings = task.was
    /\ task.step \in {"stop", "up"} => settings = Switch!Over(task.new, task.was)
    /\ task.step \in {"back compose", "back stop", "back up", "fail"} => settings = task.was

\* The dimensions flag is in compose.yaml whenever it is in .env.
DimsKnown ==
    /\ settings.dims => compose
    /\ task.step \in ChangeSteps \cup {"back env", "back compose"} =>
         (task.was.dims => task.composeWas) /\ (task.composeWas => compose)
    /\ task.step = "env" => ("dims" \in DOMAIN task.new => compose)

\* What an operation is about to report.
ReportReady ==
    /\ task.step \in {"succeed", "synced"} /\ desired = "running" => runtime = Switch!BroughtUp
    /\ task.step = "saved" => desired = "stopped"

SwitchInv == SwitchTypes /\ SameModel /\ EmptyMeanwhile /\ EnvKnown /\ DimsKnown /\ ReportReady

\* .env with settings written over it.
LEMMA OverEnv ==
  ASSUME NEW e \in EnvFiles, NEW new, IsChange(new)
  PROVE  /\ Switch!Over(new, e) \in EnvFiles
         /\ Switch!Over(new, e).embedding = IF "embedding" \in DOMAIN new THEN new.embedding ELSE e.embedding
         /\ Switch!Over(new, e).dims = IF "dims" \in DOMAIN new THEN new.dims ELSE e.dims
  <1> DEFINE o == Switch!Over(new, e)
  <1>1. DOMAIN e = SettingNames /\ DOMAIN new \cup DOMAIN e = SettingNames
    BY DEF EnvFiles, SettingNames, IsChange
  <1>2. o = [f \in SettingNames |-> IF f \in DOMAIN new THEN new[f] ELSE e[f]]
    BY <1>1 DEF Switch!Over
  <1>3. /\ DOMAIN o = SettingNames
        /\ o.embedding = IF "embedding" \in DOMAIN new THEN new.embedding ELSE e.embedding
        /\ o.dims = IF "dims" \in DOMAIN new THEN new.dims ELSE e.dims
        /\ o.source = IF "source" \in DOMAIN new THEN new.source ELSE e.source
        /\ o.model = IF "model" \in DOMAIN new THEN new.model ELSE e.model
        /\ o.provider = IF "provider" \in DOMAIN new THEN new.provider ELSE e.provider
        /\ o.direct = IF "direct" \in DOMAIN new THEN new.direct ELSE e.direct
    BY <1>2 DEF SettingNames
  <1>4. o = [embedding |-> o.embedding, dims |-> o.dims, source |-> o.source, model |-> o.model,
             provider |-> o.provider, direct |-> o.direct]
    BY <1>2 DEF SettingNames
  <1>5. o \in EnvFiles
    <2> HIDE DEF o
    <2>1. /\ o.embedding \in Embeddings /\ o.dims \in BOOLEAN /\ o.source \in {"codex", "api"}
          /\ o.model \in Models /\ o.provider \in Apis \cup {Bridge} /\ o.direct \in Apis \cup {None}
          /\ o.provider = Bridge <=> o.source = "codex"
      BY <1>3 DEF EnvFiles, IsChange
    <2>2. QED
      BY <1>4, <2>1 DEF EnvFiles
  <1>6. QED
    BY <1>3, <1>5

\* What configureModels and selectModels write over it.
LEMMA SettingsChange == \A c \in Switch!Settings : IsChange(c)
  <1> SUFFICES ASSUME NEW c \in Switch!Settings PROVE IsChange(c)
    OBVIOUS
  <1>1. PICK S \in SUBSET {"embedding", "model"} : c \in [S -> Embeddings \cup Models]
    BY DEF Switch!Settings
  <1>2. DOMAIN c \subseteq {"embedding", "model"}
    BY <1>1
  <1>3. QED
    BY <1>2 DEF Switch!Settings, IsChange, SettingNames

LEMMA SelectionChange ==
  ASSUME settings \in EnvFiles, NEW s \in Switch!Selections, NEW api, NEW codex \in SUBSET Models,
         api \subseteq Embeddings \cup Models, Switch!Offered(s, api, codex)
  PROVE  IsChange(Switch!Configuration(s))
  <1> DEFINE g == s.generation
  <1> DEFINE saved == Switch!SavedApi
  <1>1. saved \in Apis \cup {None}
    BY DEF Switch!SavedApi, EnvFiles
  <1>2. IsChange(Switch!NewEmbedding(s)) /\ DOMAIN Switch!NewEmbedding(s) \subseteq {"embedding", "dims"}
    BY DEF Switch!NewEmbedding, Switch!Unchanged, Switch!Selections, IsChange, SettingNames
  <1> DEFINE n == Switch!NewGeneration(g)
  <1>3. IsChange(n) /\ DOMAIN n \subseteq {"source", "model", "provider", "direct"}
    <2>1. Keep \notin {"codex", "api"} /\ Bridge \notin Apis
      BY NodeManagerAssumption DEF Switch!ModelSwitchAssumption
    <2>2. g.source \in {"codex", "api", Keep}
      BY DEF Switch!Selections
    <2>3. CASE g.source = "codex"
      <3>1. g.model \in Models
        BY <2>1, <2>3 DEF Switch!Selections
      <3> DEFINE first == [source |-> "codex", provider |-> Bridge, model |-> g.model]
      <3> DEFINE rest == IF saved = None THEN Switch!Unchanged ELSE [direct |-> saved]
      <3>2. n = Switch!Over(first, rest)
        BY <2>1, <2>3 DEF Switch!NewGeneration
      <3>3. DOMAIN rest \subseteq {"direct"} /\ ("direct" \in DOMAIN rest => rest.direct \in Apis)
        BY <1>1 DEF Switch!Unchanged
      <3>4. DOMAIN first = {"source", "provider", "model"}
        OBVIOUS
      <3> HIDE DEF rest, saved, g
      <3>5. /\ DOMAIN n = DOMAIN first \cup DOMAIN rest
            /\ n.source = "codex" /\ n.provider = Bridge /\ n.model = g.model
            /\ "direct" \in DOMAIN rest => n.direct = rest.direct
        BY <3>2, <3>3, <3>4 DEF Switch!Over
      <3>6. QED
        BY <3>1, <3>3, <3>4, <3>5 DEF IsChange, SettingNames
    <2>4. CASE g.source = "api"
      <3>1. g.model \in Models /\ g.api \in Apis \cup {Keep}
        BY <2>1, <2>4 DEF Switch!Selections
      <3>2. Switch!ApiOf(g) # None
        BY <2>1, <2>4 DEF Switch!Offered
      <3>3. Switch!ApiOf(g) \in Apis
        BY <1>1, <3>1, <3>2 DEF Switch!ApiOf
      <3>4. n = [source |-> "api", provider |-> Switch!ApiOf(g), model |-> g.model, direct |-> Switch!ApiOf(g)]
        BY <2>1, <2>4 DEF Switch!NewGeneration
      <3>5. QED
        BY <2>1, <3>1, <3>3, <3>4 DEF IsChange, SettingNames
    <2>5. CASE g.source = Keep
      <3>1. g.model \in Models \cup {Keep}
        BY <2>1, <2>5 DEF Switch!Selections
      <3>2. n = IF g.model \in {Keep, settings.model} THEN Switch!Unchanged ELSE [model |-> g.model]
        BY <2>1, <2>5 DEF Switch!NewGeneration
      <3>3. QED
        BY <3>1, <3>2 DEF IsChange, SettingNames, Switch!Unchanged
    <2>6. QED
      BY <2>2, <2>3, <2>4, <2>5
  <1>4. Switch!Configuration(s) = Switch!Over(Switch!NewEmbedding(s), n)
    BY DEF Switch!Configuration
  <1> DEFINE m == Switch!NewEmbedding(s)
  <1> HIDE DEF m, n, g, saved
  <1>5. \A f \in DOMAIN m \cup DOMAIN n :
          Switch!Over(m, n)[f] = IF f \in DOMAIN m THEN m[f] ELSE n[f]
    BY DEF Switch!Over
  <1>6. DOMAIN Switch!Over(m, n) = DOMAIN m \cup DOMAIN n
    BY DEF Switch!Over
  <1>7. IsChange(Switch!Over(m, n))
    BY <1>2, <1>3, <1>5, <1>6 DEF IsChange, SettingNames, m
  <1>8. QED
    BY <1>4, <1>7 DEF m

\* The operation goes on to its next step.
LEMMA TaskGoes ==
  ASSUME IsTask(task), NEW steps \in {ChangeSteps \cup BackSteps, RecoverySteps},
         task.step \in steps, NEW s \in steps, Switch!Goto(s)
  PROVE  /\ IsTask(task') /\ task'.step = s
         /\ steps # RecoverySteps =>
              /\ task'.new = task.new /\ task'.was = task.was
              /\ task'.composeWas = task.composeWas /\ task'.ran = task.ran
  <1>1. task' = [task EXCEPT !.step = s]
    BY DEF Switch!Goto
  <1>2. "rest" \notin ChangeSteps \cup BackSteps \cup RecoverySteps /\ Switch!Rest.step = "rest"
        /\ \A x \in RecoverySteps : x \notin ChangeSteps \cup BackSteps
    BY DEF ChangeSteps, BackSteps, RecoverySteps, Switch!Rest
  <1>3. CASE steps = ChangeSteps \cup BackSteps
    <2>1. /\ DOMAIN task = {"step", "op", "new", "probed", "was", "composeWas", "ran"}
          /\ task.was \in EnvFiles /\ task.composeWas \in BOOLEAN /\ IsChange(task.new)
      BY <1>2, <1>3 DEF IsTask
    <2>2. /\ DOMAIN task' = DOMAIN task /\ task'.step = s
          /\ task'.new = task.new /\ task'.was = task.was
          /\ task'.composeWas = task.composeWas /\ task'.ran = task.ran
      BY <1>1, <2>1
    <2>3. QED
      BY <1>3, <2>1, <2>2 DEF IsTask
  <1>4. CASE steps = RecoverySteps
    <2>1. DOMAIN task = {"step", "op"}
      BY <1>2, <1>4 DEF IsTask
    <2>2. DOMAIN task' = DOMAIN task /\ task'.step = s
      BY <1>1, <2>1
    <2>3. QED
      BY <1>4, <2>1, <2>2 DEF IsTask
  <1>5. QED
    BY <1>3, <1>4

\* A write of the journal changes the entry of the operation alone.
LEMMA Recorded ==
  ASSUME journal \in Seq(JournalStates), NEW state \in JournalStates, Switch!Record(state)
  PROVE  journal' \in Seq(JournalStates) /\ \A i \in DOMAIN journal : journal'[i] \in {journal[i], state}
  <1>1. journal' = [journal EXCEPT ![task.op] = state]
    BY DEF Switch!Record
  <1>2. /\ Len(journal) \in Nat /\ DOMAIN journal = 1 .. Len(journal)
        /\ \A i \in DOMAIN journal : journal[i] \in JournalStates
    BY LenProperties, ElementOfSeq
  <1>3. DOMAIN journal' = DOMAIN journal /\ \A i \in DOMAIN journal : journal'[i] \in {journal[i], state}
    BY <1>1
  <1>4. journal' = [i \in 1 .. Len(journal) |-> journal'[i]]
    BY <1>1, <1>2
  <1>5. journal' \in [1 .. Len(journal) -> JournalStates]
    BY <1>2, <1>3, <1>4
  <1>6. QED
    BY <1>2, <1>3, <1>5, SeqDef

\* Containers that stop, and containers made anew.
LEMMA RuntimeTypes ==
  ASSUME SwitchTypes
  PROVE  /\ Switch!BroughtUp \in [runs : {"nothing", "database", "all"}, with : EnvFiles]
         /\ Switch!BroughtUp.runs = "all" /\ Switch!BroughtUp.with = settings
         /\ Switch!Halted \in [runs : {"nothing", "database", "all"}, with : EnvFiles]
         /\ Switch!Halted.runs = "nothing"
         /\ Switch!WritersStopped \in [runs : {"nothing", "database", "all"}, with : EnvFiles]
         /\ Switch!WritersStopped.runs # "all"
  BY DEF SwitchTypes, Switch!BroughtUp, Switch!Halted, Switch!WritersStopped

\* An operation ends, or its daemon does.
LEMMA TaskEnds ==
  ASSUME SwitchInv, task' = Switch!Rest, journal' \in Seq(JournalStates),
         UNCHANGED <<settings, compose, desired, runtime, database, undone>>
  PROVE  SwitchInv'
  <1>1. task'.step = "rest"
    BY DEF Switch!Rest
  <1>2. SwitchTypes'
    BY DEF SwitchInv, SwitchTypes, IsTask
  <1>3. SameModel'
    BY DEF SwitchInv, SameModel
  <1>4. EmptyMeanwhile' /\ EnvKnown' /\ ReportReady'
    BY <1>1 DEF EmptyMeanwhile, EnvKnown, ReportReady
  <1>5. DimsKnown'
    BY <1>1 DEF SwitchInv, DimsKnown, ChangeSteps
  <1>6. QED
    BY <1>2, <1>3, <1>4, <1>5 DEF SwitchInv

\* A step of an operation, by what it knows of the task.
LEMMA Working ==
  ASSUME SwitchInv, task.step \in ChangeSteps \cup BackSteps,
         NEW s \in ChangeSteps \cup BackSteps, Switch!Goto(s)
  PROVE  /\ IsTask(task') /\ task'.step = s
         /\ task'.new = task.new /\ task'.was = task.was
         /\ task'.composeWas = task.composeWas /\ task'.ran = task.ran
  <1>1. "quiesce" \in ChangeSteps \cup BackSteps /\ "quiesce" \notin RecoverySteps
    BY DEF ChangeSteps, RecoverySteps
  <1>2. QED
    BY <1>1, TaskGoes DEF SwitchInv, SwitchTypes

LEMMA TaskParts ==
  ASSUME SwitchInv, task.step \in ChangeSteps \cup BackSteps
  PROVE  /\ task.was \in EnvFiles /\ task.composeWas \in BOOLEAN /\ IsChange(task.new)
         /\ DOMAIN task = {"step", "op", "new", "probed", "was", "composeWas", "ran"}
         /\ Switch!Over(task.new, task.was) \in EnvFiles
         /\ ~EmbeddingChanges => Switch!Over(task.new, task.was).embedding = task.was.embedding
         /\ Switch!Over(task.new, task.was).dims \in {task.was.dims, task.new.dims}
         /\ Switch!Over(task.new, task.was).dims = task.was.dims \/ "dims" \in DOMAIN task.new
  <1>1. "rest" \notin ChangeSteps \cup BackSteps /\ Switch!Rest.step = "rest"
        /\ \A x \in RecoverySteps : x \notin ChangeSteps \cup BackSteps
    BY DEF ChangeSteps, BackSteps, RecoverySteps, Switch!Rest
  <1>2. /\ task.was \in EnvFiles /\ task.composeWas \in BOOLEAN /\ IsChange(task.new)
        /\ DOMAIN task = {"step", "op", "new", "probed", "was", "composeWas", "ran"}
    BY <1>1 DEF SwitchInv, SwitchTypes, IsTask
  <1>3. QED
    BY <1>2, OverEnv DEF EmbeddingChanges

\* An operation that goes to its catch.
LEMMA TakesBack ==
  ASSUME SwitchInv, task.step \in {"quiesce", "verify", "probe", "stop", "up"}, Switch!Goto("back env"),
         UNCHANGED <<settings, compose, desired, runtime, database, journal, undone>>
  PROVE  SwitchInv'
  <1>1. task.step \in ChangeSteps \cup BackSteps /\ "back env" \in ChangeSteps \cup BackSteps
    BY DEF ChangeSteps, BackSteps
  <1>2. /\ IsTask(task') /\ task'.step = "back env"
        /\ task'.new = task.new /\ task'.was = task.was
        /\ task'.composeWas = task.composeWas /\ task'.ran = task.ran
    BY <1>1, Working
  <1>3. SwitchTypes' /\ SameModel'
    BY <1>2 DEF SwitchInv, SwitchTypes, SameModel
  <1>4. EmptyMeanwhile'
    <2>1. settings.embedding # task.was.embedding => EmbeddingChanges /\ task.step \in {"stop", "up"}
      BY <1>1, TaskParts DEF SwitchInv, EnvKnown
    <2>2. settings.embedding # task.was.embedding => Empty
      BY <2>1 DEF SwitchInv, EmptyMeanwhile
    <2>3. QED
      BY <1>2, <2>2 DEF EmptyMeanwhile, Empty
  <1>5. EnvKnown'
    BY <1>2 DEF EnvKnown
  <1>6. DimsKnown'
    BY <1>2 DEF SwitchInv, DimsKnown, ChangeSteps
  <1>7. ReportReady'
    BY <1>2 DEF ReportReady
  <1>8. QED
    BY <1>3, <1>4, <1>5, <1>6, <1>7 DEF SwitchInv

LEMMA ChangingKeeps == SwitchInv /\ Switch!Changing => SwitchInv'
  <1> SUFFICES ASSUME SwitchInv, Switch!Changing PROVE SwitchInv'
    OBVIOUS
  <1>1. task.step \in ChangeSteps /\ task.step \in ChangeSteps \cup BackSteps
    BY DEF Switch!Changing, Switch!Quiesce, Switch!Verify, Switch!Probe, Switch!WriteCompose,
           Switch!WriteEnv, Switch!Stop, Switch!Up, Switch!Succeed, Switch!At, ChangeSteps
  <1>2. \A s \in ChangeSteps \cup BackSteps : Switch!Goto(s) =>
          /\ IsTask(task') /\ task'.step = s
          /\ task'.new = task.new /\ task'.was = task.was
          /\ task'.composeWas = task.composeWas /\ task'.ran = task.ran
    BY <1>1, Working
  <1>3. ASSUME Switch!Throw, task.step \in {"quiesce", "verify", "probe", "stop"}
        PROVE  SwitchInv'
    BY <1>3, TakesBack DEF Switch!Throw, Switch!files
  <1>4. CASE Switch!Quiesce
    <2>1. task.step = "quiesce"
      BY <1>4 DEF Switch!Quiesce, Switch!At
    <2>2. CASE Switch!Throw
      BY <1>3, <2>1, <2>2
    <2>3. CASE ~Switch!Throw
      <3>1. /\ runtime' = Switch!WritersStopped /\ Switch!Goto("verify")
            /\ UNCHANGED <<settings, compose, desired, database, journal, undone>>
        BY <1>4, <2>3 DEF Switch!Quiesce, Switch!files
      <3>2. /\ IsTask(task') /\ task'.step = "verify" /\ task'.new = task.new /\ task'.was = task.was
            /\ task'.composeWas = task.composeWas
        BY <1>2, <3>1 DEF ChangeSteps
      <3>3. SwitchTypes' /\ runtime'.runs # "all"
        BY <3>1, <3>2, RuntimeTypes DEF SwitchInv, SwitchTypes
      <3>4. SameModel' /\ EmptyMeanwhile'
        BY <3>1, <3>2, <3>3 DEF SwitchInv, SameModel, EmptyMeanwhile
      <3>5. EnvKnown' /\ ReportReady'
        BY <2>1, <3>1, <3>2 DEF SwitchInv, EnvKnown, ReportReady
      <3>6. DimsKnown'
        BY <1>1, <3>1, <3>2 DEF SwitchInv, DimsKnown
      <3>7. QED
        BY <3>3, <3>4, <3>5, <3>6 DEF SwitchInv
    <2>4. QED
      BY <2>2, <2>3
  <1>5. CASE Switch!Verify
    <2>1. task.step = "verify"
      BY <1>5 DEF Switch!Verify, Switch!At
    <2>2. CASE Switch!Throw
      BY <1>3, <2>1, <2>2
    <2>3. CASE ~Switch!Throw
      <3>1. /\ ~database.filled /\ Switch!Goto("probe")
            /\ UNCHANGED <<settings, compose, desired, runtime, database, journal, undone>>
        BY <1>5, <2>3 DEF Switch!Verify, Switch!ModelBoundRows, Switch!files
      <3>2. /\ IsTask(task') /\ task'.step = "probe" /\ task'.new = task.new /\ task'.was = task.was
            /\ task'.composeWas = task.composeWas
        BY <1>2, <3>1 DEF ChangeSteps
      <3>3. SwitchTypes' /\ SameModel'
        BY <3>1, <3>2 DEF SwitchInv, SwitchTypes, SameModel
      <3>4. EmptyMeanwhile'
        BY <2>1, <3>1, <3>2 DEF SwitchInv, EmptyMeanwhile, Empty
      <3>5. EnvKnown' /\ ReportReady'
        BY <2>1, <3>1, <3>2 DEF SwitchInv, EnvKnown, ReportReady
      <3>6. DimsKnown'
        BY <1>1, <3>1, <3>2 DEF SwitchInv, DimsKnown
      <3>7. QED
        BY <3>3, <3>4, <3>5, <3>6 DEF SwitchInv
    <2>4. QED
      BY <2>2, <2>3
  <1>6. CASE Switch!Probe
    <2>1. task.step = "probe"
      BY <1>6 DEF Switch!Probe, Switch!At
    <2>2. CASE Switch!Throw
      BY <1>3, <2>1, <2>2
    <2>3. CASE ~Switch!Throw
      <3>1. /\ Switch!Goto("compose")
            /\ UNCHANGED <<settings, compose, desired, runtime, database, journal, undone>>
        BY <1>6, <2>3 DEF Switch!Probe, Switch!files
      <3>2. /\ IsTask(task') /\ task'.step = "compose" /\ task'.new = task.new /\ task'.was = task.was
            /\ task'.composeWas = task.composeWas
        BY <1>2, <3>1 DEF ChangeSteps
      <3>3. SwitchTypes' /\ SameModel'
        BY <3>1, <3>2 DEF SwitchInv, SwitchTypes, SameModel
      <3>4. EmptyMeanwhile'
        BY <2>1, <3>1, <3>2 DEF SwitchInv, EmptyMeanwhile, Empty, EmbeddingChanges
      <3>5. EnvKnown' /\ ReportReady'
        BY <2>1, <3>1, <3>2 DEF SwitchInv, EnvKnown, ReportReady
      <3>6. DimsKnown'
        BY <1>1, <3>1, <3>2 DEF SwitchInv, DimsKnown
      <3>7. QED
        BY <3>3, <3>4, <3>5, <3>6 DEF SwitchInv
    <2>4. QED
      BY <2>2, <2>3
  <1>7. CASE Switch!WriteCompose
    <2>1. /\ task.step = "compose" /\ compose' = (compose \/ "dims" \in DOMAIN task.new)
          /\ Switch!Goto("env") /\ UNCHANGED <<settings, desired, runtime, database, journal, undone>>
      BY <1>7 DEF Switch!WriteCompose, Switch!At
    <2>2. /\ IsTask(task') /\ task'.step = "env" /\ task'.new = task.new /\ task'.was = task.was
          /\ task'.composeWas = task.composeWas
      BY <1>2, <2>1 DEF ChangeSteps
    <2>3. SwitchTypes' /\ SameModel'
      BY <2>1, <2>2 DEF SwitchInv, SwitchTypes, SameModel
    <2>4. EmptyMeanwhile'
      BY <2>1, <2>2 DEF SwitchInv, EmptyMeanwhile, Empty, EmbeddingChanges
    <2>5. EnvKnown' /\ ReportReady'
      BY <2>1, <2>2 DEF SwitchInv, EnvKnown, ReportReady
    <2>6. DimsKnown'
      <3>1. compose => compose'
        BY <2>1
      <3>2. "dims" \in DOMAIN task.new => compose'
        BY <2>1
      <3>3. QED
        BY <1>1, <2>1, <2>2, <3>1, <3>2 DEF SwitchInv, DimsKnown
    <2>7. QED
      BY <2>3, <2>4, <2>5, <2>6 DEF SwitchInv
  <1>8. CASE Switch!WriteEnv
    <2>1. /\ task.step = "env" /\ settings' = Switch!Over(task.new, settings)
          /\ Switch!Goto(IF desired = "running" THEN "stop" ELSE "succeed")
          /\ UNCHANGED <<compose, desired, runtime, database, journal, undone>>
      BY <1>8 DEF Switch!WriteEnv, Switch!At
    <2>2. /\ IsTask(task') /\ task'.step = IF desired = "running" THEN "stop" ELSE "succeed"
          /\ task'.new = task.new /\ task'.was = task.was /\ task'.composeWas = task.composeWas
      BY <1>2, <2>1 DEF ChangeSteps
    <2>3. settings = task.was /\ settings' = Switch!Over(task.new, task.was)
      BY <2>1 DEF SwitchInv, EnvKnown
    <2>4. SwitchTypes'
      BY <1>1, <2>1, <2>2, <2>3, TaskParts DEF SwitchInv, SwitchTypes
    <2>5. settings'.embedding = settings.embedding \/ (EmbeddingChanges /\ Empty)
      BY <1>1, <2>1, <2>3, TaskParts DEF SwitchInv, EmptyMeanwhile
    <2>6. SameModel'
      BY <2>1, <2>5 DEF SwitchInv, SameModel, Empty
    <2>7. EmptyMeanwhile'
      BY <2>1, <2>2 DEF SwitchInv, EmptyMeanwhile, Empty, EmbeddingChanges
    <2>8. EnvKnown' /\ ReportReady'
      BY <2>1, <2>2, <2>3 DEF EnvKnown, ReportReady
    <2>9. DimsKnown'
      <3>1. settings'.dims = settings.dims \/ "dims" \in DOMAIN task.new
        BY <1>1, <2>3, TaskParts
      <3>2. QED
        BY <1>1, <2>1, <2>2, <3>1 DEF SwitchInv, DimsKnown
    <2>10. QED
      BY <2>4, <2>6, <2>7, <2>8, <2>9 DEF SwitchInv
  <1>9. CASE Switch!Stop
    <2>1. task.step = "stop"
      BY <1>9 DEF Switch!Stop, Switch!At
    <2>2. CASE Switch!Throw
      BY <1>3, <2>1, <2>2
    <2>3. CASE ~Switch!Throw
      <3>1. /\ runtime' = Switch!Halted /\ Switch!Goto("up")
            /\ UNCHANGED <<settings, compose, desired, database, journal, undone>>
        BY <1>9, <2>3 DEF Switch!Stop, Switch!files
      <3>2. /\ IsTask(task') /\ task'.step = "up" /\ task'.new = task.new /\ task'.was = task.was
            /\ task'.composeWas = task.composeWas
        BY <1>2, <3>1 DEF ChangeSteps
      <3>3. SwitchTypes' /\ runtime'.runs # "all"
        BY <3>1, <3>2, RuntimeTypes DEF SwitchInv, SwitchTypes
      <3>4. SameModel'
        BY <3>1, <3>3 DEF SwitchInv, SameModel
      <3>5. EmptyMeanwhile'
        BY <2>1, <3>1, <3>2, <3>3 DEF SwitchInv, EmptyMeanwhile, Empty, EmbeddingChanges
      <3>6. EnvKnown' /\ ReportReady'
        BY <2>1, <3>1, <3>2 DEF SwitchInv, EnvKnown, ReportReady
      <3>7. DimsKnown'
        BY <1>1, <3>1, <3>2 DEF SwitchInv, DimsKnown
      <3>8. QED
        BY <3>3, <3>4, <3>5, <3>6, <3>7 DEF SwitchInv
    <2>4. QED
      BY <2>2, <2>3
  <1>10. CASE Switch!Up
    <2>1. task.step = "up" /\ UNCHANGED <<settings, compose, desired, database, journal, undone>>
      BY <1>10 DEF Switch!Up, Switch!At, Switch!files
    <2>2. CASE Switch!Goto("back env") /\ UNCHANGED runtime
      BY <2>1, <2>2, TakesBack
    <2>3. CASE ~(Switch!Goto("back env") /\ UNCHANGED runtime)
      <3>1. PICK how \in {"succeed", "back env"} :
              runtime' = Switch!BroughtUp /\ task' = [task EXCEPT !.step = how, !.ran = TRUE]
        BY <1>10, <2>3 DEF Switch!Up
      <3>2. /\ task'.step = how /\ task'.ran = TRUE
            /\ task'.new = task.new /\ task'.was = task.was /\ task'.composeWas = task.composeWas
            /\ DOMAIN task' = DOMAIN task
        BY <1>1, <3>1, TaskParts
      <3>3. IsTask(task')
        BY <1>1, <3>2, TaskParts DEF IsTask, ChangeSteps, BackSteps
      <3>4. SwitchTypes' /\ runtime'.runs = "all" /\ runtime'.with = settings
        BY <2>1, <3>1, <3>3, RuntimeTypes DEF SwitchInv, SwitchTypes
      <3>5. SameModel' /\ EmptyMeanwhile'
        BY <2>1, <3>2, <3>4 DEF SwitchInv, SameModel, EmptyMeanwhile
      <3>6. EnvKnown' /\ ReportReady'
        BY <2>1, <3>1, <3>2 DEF EnvKnown, ReportReady, Switch!BroughtUp
      <3>7. DimsKnown'
        BY <1>1, <2>1, <3>2 DEF SwitchInv, DimsKnown
      <3>8. QED
        BY <3>4, <3>5, <3>6, <3>7 DEF SwitchInv
    <2>4. QED
      BY <2>2, <2>3
  <1>11. CASE Switch!Succeed
    <2>1. /\ Switch!Record("succeeded") /\ task' = Switch!Rest
          /\ UNCHANGED <<settings, compose, desired, runtime, database, undone>>
      BY <1>11 DEF Switch!Succeed, Switch!files
    <2>2. journal' \in Seq(JournalStates)
      BY <2>1, Recorded DEF SwitchInv, SwitchTypes, JournalStates
    <2>3. QED
      BY <2>1, <2>2, TaskEnds
  <1>12. QED
    BY <1>4, <1>5, <1>6, <1>7, <1>8, <1>9, <1>10, <1>11 DEF Switch!Changing

LEMMA SwitchRests ==
  ASSUME SwitchInv, UNCHANGED <<settings, compose, desired, runtime, database, journal, task, undone>>
  PROVE  SwitchInv'
  <1>1. SwitchTypes'
    BY DEF SwitchInv, SwitchTypes
  <1>2. SameModel' /\ EmptyMeanwhile' /\ EnvKnown' /\ DimsKnown'
    BY DEF SwitchInv, SameModel, EmptyMeanwhile, Empty, EmbeddingChanges, EnvKnown, DimsKnown
  <1>3. ReportReady'
    BY DEF SwitchInv, ReportReady, Switch!BroughtUp
  <1>4. QED
    BY <1>1, <1>2, <1>3 DEF SwitchInv

LEMMA TakingBackKeeps == SwitchInv /\ Switch!TakingBack => SwitchInv'
  <1> SUFFICES ASSUME SwitchInv, Switch!TakingBack PROVE SwitchInv'
    OBVIOUS
  <1>1. task.step \in BackSteps /\ task.step \in ChangeSteps \cup BackSteps
    BY DEF Switch!TakingBack, Switch!BackEnv, Switch!BackCompose, Switch!BackStop, Switch!BackUp,
           Switch!Fail, Switch!At, BackSteps
  <1>2. \A s \in ChangeSteps \cup BackSteps : Switch!Goto(s) =>
          /\ IsTask(task') /\ task'.step = s
          /\ task'.new = task.new /\ task'.was = task.was
          /\ task'.composeWas = task.composeWas /\ task'.ran = task.ran
    BY <1>1, Working
  <1>3. CASE Switch!BackEnv
    <2>1. /\ task.step = "back env" /\ settings' = task.was /\ Switch!Goto("back compose")
          /\ undone' = IF task.ran /\ settings.embedding # task.was.embedding
                       THEN undone \cup {settings.embedding} ELSE undone
          /\ UNCHANGED <<compose, desired, runtime, database, journal>>
      BY <1>3 DEF Switch!BackEnv, Switch!At
    <2>2. /\ IsTask(task') /\ task'.step = "back compose" /\ task'.new = task.new /\ task'.was = task.was
          /\ task'.composeWas = task.composeWas
      BY <1>2, <2>1 DEF BackSteps
    <2>3. SwitchTypes'
      BY <1>1, <2>1, <2>2, TaskParts DEF SwitchInv, SwitchTypes
    <2>4. SameModel'
      <3>1. undone \subseteq undone'
        BY <2>1
      <3>2. settings.embedding \in undone' \/ settings'.embedding = settings.embedding \/ ~task.ran
        BY <2>1
      <3>3. ~task.ran /\ settings'.embedding # settings.embedding => Empty
        BY <2>1 DEF SwitchInv, EmptyMeanwhile
      <3>4. QED
        BY <2>1, <3>1, <3>2, <3>3 DEF SwitchInv, SameModel, Empty
    <2>5. EmptyMeanwhile' /\ EnvKnown' /\ ReportReady'
      BY <2>1, <2>2 DEF EmptyMeanwhile, EnvKnown, ReportReady
    <2>6. DimsKnown'
      BY <2>1, <2>2 DEF SwitchInv, DimsKnown
    <2>7. QED
      BY <2>3, <2>4, <2>5, <2>6 DEF SwitchInv
  <1>4. CASE Switch!BackCompose
    <2>1. /\ task.step = "back compose" /\ compose' = task.composeWas
          /\ Switch!Goto(IF desired = "running" THEN "back stop" ELSE "fail")
          /\ UNCHANGED <<settings, desired, runtime, database, journal, undone>>
      BY <1>4 DEF Switch!BackCompose, Switch!At
    <2>2. /\ IsTask(task') /\ task'.step \in {"back stop", "fail"} /\ task'.was = task.was
      BY <1>2, <2>1 DEF BackSteps
    <2>3. SwitchTypes'
      BY <1>1, <2>1, <2>2, TaskParts DEF SwitchInv, SwitchTypes
    <2>4. SameModel'
      BY <2>1 DEF SwitchInv, SameModel
    <2>5. EmptyMeanwhile' /\ EnvKnown' /\ ReportReady'
      BY <2>1, <2>2 DEF SwitchInv, EmptyMeanwhile, EnvKnown, ReportReady
    <2>6. DimsKnown'
      BY <2>1, <2>2 DEF SwitchInv, EnvKnown, DimsKnown, ChangeSteps
    <2>7. QED
      BY <2>3, <2>4, <2>5, <2>6 DEF SwitchInv
  <1>5. ASSUME task.step \in {"back stop", "back up"}, NEW s \in {"back up", "fail"}, Switch!Goto(s),
               UNCHANGED <<settings, compose, desired, database, journal, undone>>,
               runtime' \in {runtime, Switch!Halted, Switch!BroughtUp}
        PROVE  SwitchInv'
    <2>1. IsTask(task') /\ task'.step = s /\ task'.was = task.was
      BY <1>2, <1>5 DEF BackSteps
    <2>2. SwitchTypes'
      BY <1>5, <2>1, RuntimeTypes DEF SwitchInv, SwitchTypes
    <2>3. SameModel'
      BY <1>5, RuntimeTypes DEF SwitchInv, SameModel
    <2>4. EmptyMeanwhile' /\ EnvKnown' /\ ReportReady'
      BY <1>5, <2>1 DEF SwitchInv, EmptyMeanwhile, EnvKnown, ReportReady
    <2>5. DimsKnown'
      BY <1>5, <2>1 DEF SwitchInv, DimsKnown, ChangeSteps
    <2>6. QED
      BY <2>2, <2>3, <2>4, <2>5 DEF SwitchInv
  <1>6. CASE Switch!BackStop
    BY <1>5, <1>6 DEF Switch!BackStop, Switch!At, Switch!files
  <1>7. CASE Switch!BackUp
    BY <1>5, <1>7 DEF Switch!BackUp, Switch!At, Switch!files
  <1>8. CASE Switch!Fail
    <2>1. /\ Switch!Record("failed") /\ task' = Switch!Rest
          /\ UNCHANGED <<settings, compose, desired, runtime, database, undone>>
      BY <1>8 DEF Switch!Fail, Switch!files
    <2>2. journal' \in Seq(JournalStates)
      BY <2>1, Recorded DEF SwitchInv, SwitchTypes, JournalStates
    <2>3. QED
      BY <2>1, <2>2, TaskEnds
  <1>9. QED
    BY <1>3, <1>4, <1>6, <1>7, <1>8 DEF Switch!TakingBack

LEMMA RecoveringKeeps == SwitchInv /\ Switch!Recovering => SwitchInv'
  <1> SUFFICES ASSUME SwitchInv, Switch!Recovering PROVE SwitchInv'
    OBVIOUS
  <1>1. ASSUME NEW s \in RecoverySteps, task.step \in RecoverySteps, Switch!Goto(s),
               UNCHANGED <<settings, compose, desired, database, undone>>,
               runtime' \in {runtime, Switch!Halted, Switch!BroughtUp}, journal' \in Seq(JournalStates),
               s = "saved" => desired = "stopped",
               s = "synced" => runtime' = Switch!BroughtUp
        PROVE  SwitchInv'
    <2>1. IsTask(task') /\ task'.step = s
      BY <1>1, TaskGoes DEF SwitchInv, SwitchTypes
    <2>2. SwitchTypes'
      BY <1>1, <2>1, RuntimeTypes DEF SwitchInv, SwitchTypes
    <2>3. SameModel'
      BY <1>1, RuntimeTypes DEF SwitchInv, SameModel
    <2>4. EmptyMeanwhile' /\ EnvKnown'
      BY <2>1 DEF EmptyMeanwhile, EnvKnown, RecoverySteps
    <2>5. ReportReady'
      BY <1>1, <2>1 DEF ReportReady, RecoverySteps, Switch!BroughtUp
    <2>6. DimsKnown'
      BY <1>1, <2>1 DEF SwitchInv, DimsKnown, ChangeSteps, RecoverySteps
    <2>7. QED
      BY <2>2, <2>3, <2>4, <2>5, <2>6 DEF SwitchInv
  <1>2. \A state \in JournalStates : Switch!Record(state) => journal' \in Seq(JournalStates)
    BY Recorded DEF SwitchInv, SwitchTypes
  <1>3. journal \in Seq(JournalStates)
    BY DEF SwitchInv, SwitchTypes
  <1>4. CASE Switch!Recover
    <2>1. /\ task.step = "recover" /\ Switch!Record("recovery_restarting")
          /\ Switch!Goto(IF desired = "stopped" THEN "saved" ELSE "recover stop")
          /\ UNCHANGED <<settings, compose, desired, runtime, database, undone>>
      BY <1>4 DEF Switch!Recover, Switch!At, Switch!files
    <2>2. journal' \in Seq(JournalStates)
      BY <1>2, <2>1 DEF JournalStates
    <2>3. CASE desired = "stopped"
      BY <1>1, <2>1, <2>2, <2>3 DEF RecoverySteps
    <2>4. CASE desired # "stopped"
      BY <1>1, <2>1, <2>2, <2>4 DEF RecoverySteps
    <2>5. QED
      BY <2>3, <2>4
  <1>5. CASE Switch!RecoverStop
    <2>1. /\ task.step = "recover stop" /\ runtime' \in {runtime, Switch!Halted}
          /\ Switch!Goto("recover up") \/ Switch!Goto("recover failed")
          /\ UNCHANGED <<settings, compose, desired, database, journal, undone>>
      BY <1>5 DEF Switch!RecoverStop, Switch!At, Switch!files
    <2>2. QED
      BY <1>1, <1>3, <2>1 DEF RecoverySteps
  <1>6. CASE Switch!RecoverUp
    <2>1. /\ task.step = "recover up" /\ runtime' \in {runtime, Switch!BroughtUp}
          /\ \/ Switch!Goto("recover failed")
             \/ Switch!Goto("synced") /\ runtime' = Switch!BroughtUp
          /\ UNCHANGED <<settings, compose, desired, database, journal, undone>>
      BY <1>6 DEF Switch!RecoverUp, Switch!At, Switch!files
    <2>2. QED
      BY <1>1, <1>3, <2>1 DEF RecoverySteps
  <1>7. CASE Switch!SavedForNextStart \/ Switch!Recovered \/ Switch!RecoveryFails
    <2>1. /\ Switch!Record("recovered") \/ Switch!Record("recovery_failed")
          /\ task' = Switch!Rest
          /\ UNCHANGED <<settings, compose, desired, runtime, database, undone>>
      BY <1>7 DEF Switch!SavedForNextStart, Switch!Recovered, Switch!RecoveryFails, Switch!RecoverWith,
                  Switch!files
    <2>2. journal' \in Seq(JournalStates)
      BY <1>2, <2>1 DEF JournalStates
    <2>3. QED
      BY <2>1, <2>2, TaskEnds
  <1>8. QED
    BY <1>4, <1>5, <1>6, <1>7 DEF Switch!Recovering

LEMMA BeginningKeeps == SwitchInv /\ (Switch!ConfigureModels \/ Switch!SelectModels) => SwitchInv'
  <1> SUFFICES ASSUME SwitchInv, Switch!ConfigureModels \/ Switch!SelectModels PROVE SwitchInv'
    OBVIOUS
  <1>1. task.step = "rest"
    <2>1. Switch!LockIsFree
      BY DEF Switch!ConfigureModels, Switch!SelectModels
    <2>2. QED
      BY <2>1 DEF Switch!LockIsFree, Switch!Rest
  <1>2. \E new, probed : IsChange(new) /\ Switch!BeginOperation(new, probed)
    BY SettingsChange, SelectionChange DEF Switch!ConfigureModels, Switch!SelectModels, SwitchInv, SwitchTypes
  <1>3. PICK new, probed : IsChange(new) /\ Switch!BeginOperation(new, probed)
    BY <1>2
  <1>4. /\ journal' = Append(journal, "running")
        /\ task' = [step |-> IF "embedding" \in DOMAIN new /\ new.embedding # settings.embedding
                             THEN "quiesce" ELSE "probe",
                    op |-> Len(journal) + 1, new |-> new, probed |-> probed,
                    was |-> settings, composeWas |-> compose, ran |-> FALSE]
        /\ UNCHANGED <<settings, compose, desired, runtime, database, undone>>
    BY <1>3 DEF Switch!BeginOperation, Switch!files
  <1>5. /\ task'.step = IF "embedding" \in DOMAIN new /\ new.embedding # settings.embedding
                        THEN "quiesce" ELSE "probe"
        /\ task'.new = new /\ task'.was = settings /\ task'.composeWas = compose
        /\ DOMAIN task' = {"step", "op", "new", "probed", "was", "composeWas", "ran"}
    BY <1>4
  <1>6. journal' \in Seq(JournalStates)
    BY <1>4, AppendProperties DEF SwitchInv, SwitchTypes, JournalStates
  <1>7. SwitchTypes'
    <2>1. IsTask(task')
      BY <1>3, <1>5 DEF SwitchInv, SwitchTypes, IsTask, ChangeSteps
    <2>2. QED
      BY <1>4, <1>6, <2>1 DEF SwitchInv, SwitchTypes
  <1>8. SameModel'
    BY <1>4 DEF SwitchInv, SameModel
  <1>9. EmptyMeanwhile'
    BY <1>5 DEF EmptyMeanwhile, EmbeddingChanges
  <1>10. EnvKnown' /\ ReportReady'
    BY <1>4, <1>5 DEF EnvKnown, ReportReady
  <1>11. DimsKnown'
    BY <1>4, <1>5 DEF SwitchInv, DimsKnown
  <1>12. QED
    BY <1>7, <1>8, <1>9, <1>10, <1>11 DEF SwitchInv

\* The steps that belong to no operation.
Elsewhere ==
    \/ Switch!StartNode \/ Switch!StopNode \/ Switch!Accept \/ Switch!Embed
    \/ Switch!EngineFails \/ Switch!EngineReturns

LEMMA ElsewhereKeeps == SwitchInv /\ Elsewhere => SwitchInv'
  <1> SUFFICES ASSUME SwitchInv, Elsewhere PROVE SwitchInv'
    OBVIOUS
  <1>1. ASSUME task.step = "rest", task' = task, desired' \in {"running", "stopped"},
               runtime' \in {runtime, Switch!Halted, Switch!BroughtUp},
               UNCHANGED <<settings, compose, database, journal, undone>>
        PROVE  SwitchInv'
    <2>1. SwitchTypes'
      BY <1>1, RuntimeTypes DEF SwitchInv, SwitchTypes
    <2>2. SameModel'
      BY <1>1, RuntimeTypes DEF SwitchInv, SameModel
    <2>3. EmptyMeanwhile' /\ EnvKnown' /\ ReportReady'
      BY <1>1 DEF EmptyMeanwhile, EnvKnown, ReportReady
    <2>4. DimsKnown'
      BY <1>1 DEF SwitchInv, DimsKnown
    <2>5. QED
      BY <2>1, <2>2, <2>3, <2>4 DEF SwitchInv
  <1>2. CASE Switch!StartNode \/ Switch!StopNode
    <2>1. /\ task.step = "rest" /\ task' = task /\ desired' \in {"running", "stopped"}
          /\ UNCHANGED <<settings, compose, database, journal, undone>>
      BY <1>2 DEF Switch!StartNode, Switch!StopNode, Switch!LockIsFree, Switch!Rest, Switch!files
    <2>2. runtime' \in {runtime, Switch!Halted, Switch!BroughtUp}
      BY <1>2 DEF Switch!StartNode, Switch!StopNode
    <2>3. QED
      BY <1>1, <2>1, <2>2
  <1>3. ASSUME runtime.runs = "all", database'.filled \in BOOLEAN, database'.filled,
               database' \in [filled : BOOLEAN, vectors : SUBSET Embeddings],
               \A v \in database'.vectors : v \in database.vectors \/ v = runtime.with.embedding,
               UNCHANGED <<settings, compose, desired, runtime, journal, task, undone>>
        PROVE  SwitchInv'
    <2>1. SwitchTypes'
      BY <1>3 DEF SwitchInv, SwitchTypes
    <2>2. SameModel'
      BY <1>3 DEF SwitchInv, SameModel
    <2>3. EmptyMeanwhile'
      BY <1>3 DEF SwitchInv, EmptyMeanwhile, Empty, EmbeddingChanges
    <2>4. EnvKnown' /\ DimsKnown'
      BY <1>3 DEF SwitchInv, EnvKnown, DimsKnown
    <2>5. ReportReady'
      BY <1>3 DEF SwitchInv, ReportReady, Switch!BroughtUp
    <2>6. QED
      BY <2>1, <2>2, <2>3, <2>4, <2>5 DEF SwitchInv
  <1>4. CASE Switch!Accept
    <2>1. /\ runtime.runs = "all" /\ database' = [database EXCEPT !.filled = TRUE]
          /\ UNCHANGED <<settings, compose, desired, runtime, journal, task, undone>>
      BY <1>4 DEF Switch!Accept, Switch!files
    <2>2. /\ database' \in [filled : BOOLEAN, vectors : SUBSET Embeddings]
          /\ database'.filled = TRUE /\ database'.vectors = database.vectors
      BY <2>1 DEF SwitchInv, SwitchTypes
    <2>3. QED
      BY <1>3, <2>1, <2>2
  <1>5. CASE Switch!Embed
    <2>1. /\ runtime.runs = "all" /\ database.filled
          /\ database' = [database EXCEPT !.vectors = @ \cup {runtime.with.embedding}]
          /\ UNCHANGED <<settings, compose, desired, runtime, journal, task, undone>>
      BY <1>5 DEF Switch!Embed, Switch!files
    <2>2. runtime.with.embedding \in Embeddings /\ database \in [filled : BOOLEAN, vectors : SUBSET Embeddings]
      BY DEF SwitchInv, SwitchTypes, EnvFiles
    <2>3. /\ database' \in [filled : BOOLEAN, vectors : SUBSET Embeddings]
          /\ database'.filled = database.filled
          /\ database'.vectors = database.vectors \cup {runtime.with.embedding}
      BY <2>1, <2>2
    <2>4. QED
      BY <1>3, <2>1, <2>2, <2>3
  <1>6. CASE Switch!EngineFails \/ Switch!EngineReturns
    <2>1. UNCHANGED <<settings, compose, desired, runtime, database, journal, task, undone>>
      BY <1>6 DEF Switch!EngineFails, Switch!EngineReturns, Switch!files
    <2>2. QED
      BY <2>1, SwitchRests
  <1>7. QED
    BY <1>2, <1>4, <1>5, <1>6 DEF Elsewhere

LEMMA DaemonKeeps == SwitchInv /\ (Switch!DaemonDies \/ Switch!DaemonStarts) => SwitchInv'
  <1> SUFFICES ASSUME SwitchInv, Switch!DaemonDies \/ Switch!DaemonStarts PROVE SwitchInv'
    OBVIOUS
  <1>1. CASE Switch!DaemonDies
    BY <1>1, TaskEnds DEF Switch!DaemonDies, Switch!files, SwitchInv, SwitchTypes
  <1>2. CASE Switch!DaemonStarts
    <2>1. /\ journal' = Switch!Interrupted
          /\ UNCHANGED <<settings, compose, desired, runtime, database, undone>>
          /\ task' = task \/ \E op : task' = [step |-> "recover", op |-> op]
      BY <1>2 DEF Switch!DaemonStarts, Switch!files
    <2>2. journal' \in Seq(JournalStates)
      <3>1. /\ Len(journal) \in Nat /\ DOMAIN journal = 1 .. Len(journal)
            /\ \A i \in DOMAIN journal : journal[i] \in JournalStates
        BY LenProperties, ElementOfSeq DEF SwitchInv, SwitchTypes
      <3>2. journal' \in [1 .. Len(journal) -> JournalStates]
        BY <2>1, <3>1 DEF Switch!Interrupted, JournalStates
      <3>3. QED
        BY <3>1, <3>2, SeqDef
    <2>3. CASE task' = task
      <3>1. SwitchTypes'
        BY <2>1, <2>2, <2>3 DEF SwitchInv, SwitchTypes
      <3>2. SameModel' /\ EmptyMeanwhile' /\ EnvKnown' /\ DimsKnown'
        BY <2>1, <2>3 DEF SwitchInv, SameModel, EmptyMeanwhile, Empty, EmbeddingChanges, EnvKnown, DimsKnown
      <3>3. ReportReady'
        BY <2>1, <2>3 DEF SwitchInv, ReportReady, Switch!BroughtUp
      <3>4. QED
        BY <3>1, <3>2, <3>3 DEF SwitchInv
    <2>4. ASSUME NEW op, task' = [step |-> "recover", op |-> op] PROVE SwitchInv'
      <3>1. task'.step = "recover" /\ DOMAIN task' = {"step", "op"}
        BY <2>4
      <3>2. SwitchTypes'
        BY <2>1, <2>2, <3>1 DEF SwitchInv, SwitchTypes, IsTask, RecoverySteps
      <3>3. SameModel'
        BY <2>1 DEF SwitchInv, SameModel
      <3>4. EmptyMeanwhile' /\ EnvKnown' /\ ReportReady'
        BY <3>1 DEF EmptyMeanwhile, EnvKnown, ReportReady
      <3>5. DimsKnown'
        BY <2>1, <3>1 DEF SwitchInv, DimsKnown, ChangeSteps
      <3>6. QED
        BY <3>2, <3>3, <3>4, <3>5 DEF SwitchInv
    <2>5. QED
      BY <2>1, <2>3, <2>4
  <1>3. QED
    BY <1>1, <1>2

LEMMA SwitchStep == SwitchInv /\ [Switch!SwitchNext]_switchVars => SwitchInv'
  <1> SUFFICES ASSUME SwitchInv, [Switch!SwitchNext]_switchVars PROVE SwitchInv'
    OBVIOUS
  <1>1. CASE UNCHANGED switchVars
    BY <1>1, SwitchRests DEF switchVars
  <1>2. CASE Switch!SwitchNext
    BY <1>2, ChangingKeeps, TakingBackKeeps, RecoveringKeeps, BeginningKeeps, ElsewhereKeeps, DaemonKeeps
       DEF Switch!SwitchNext, Elsewhere
  <1>3. QED
    BY <1>1, <1>2

LEMMA SwitchInit == Switch!SwitchInit => SwitchInv
  <1> SUFFICES ASSUME Switch!SwitchInit PROVE SwitchInv
    OBVIOUS
  <1>1. Bridge \notin Apis /\ task.step = "rest"
    BY NodeManagerAssumption DEF Switch!ModelSwitchAssumption, Switch!SwitchInit, Switch!Rest
  <1>2. settings \in EnvFiles /\ settings.dims = FALSE
    BY <1>1 DEF Switch!SwitchInit, EnvFiles
  <1>3. SwitchTypes
    <2>1. /\ compose = FALSE /\ desired = "stopped" /\ runtime = [runs |-> "nothing", with |-> settings]
          /\ database = [filled |-> FALSE, vectors |-> {}] /\ journal = <<>>
          /\ task = Switch!Rest /\ undone = {}
      BY DEF Switch!SwitchInit
    <2>2. journal \in Seq(JournalStates)
      BY <2>1
    <2>3. QED
      BY <1>2, <2>1, <2>2 DEF SwitchTypes, IsTask
  <1>4. SameModel
    BY DEF Switch!SwitchInit, SameModel
  <1>5. EmptyMeanwhile /\ EnvKnown /\ ReportReady
    BY <1>1 DEF EmptyMeanwhile, EnvKnown, ReportReady
  <1>6. DimsKnown
    BY <1>1, <1>2 DEF DimsKnown, ChangeSteps
  <1>7. QED
    BY <1>3, <1>4, <1>5, <1>6 DEF SwitchInv

\* The reports of operations: who writes which.
LEMMA WhoReports ==
  ASSUME SwitchInv, Switch!SwitchNext, NEW i \in DOMAIN journal, journal'[i] # journal[i]
  PROVE  \/ Switch!Succeed /\ journal'[i] = "succeeded"
         \/ Switch!Fail /\ journal'[i] = "failed"
         \/ (Switch!SavedForNextStart \/ Switch!Recovered) /\ journal'[i] = "recovered"
         \/ journal'[i] \in {"manager_restarted", "recovery_restarting", "recovery_failed"}
  <1>1. \A state \in JournalStates : Switch!Record(state) => journal'[i] = state
    BY Recorded DEF SwitchInv, SwitchTypes
  <1>2. journal' # journal
    OBVIOUS
  <1>3. Switch!Changing => Switch!Succeed /\ journal'[i] = "succeeded"
    <2>1. Switch!Changing => Switch!Succeed
      BY <1>2 DEF Switch!Changing, Switch!Quiesce, Switch!Verify, Switch!Probe, Switch!WriteCompose,
                  Switch!WriteEnv, Switch!Stop, Switch!Up, Switch!Throw
    <2>2. QED
      BY <1>1, <2>1 DEF Switch!Succeed, JournalStates
  <1>4. Switch!TakingBack => Switch!Fail /\ journal'[i] = "failed"
    <2>1. Switch!TakingBack => Switch!Fail
      BY <1>2 DEF Switch!TakingBack, Switch!BackEnv, Switch!BackCompose, Switch!BackStop, Switch!BackUp
    <2>2. QED
      BY <1>1, <2>1 DEF Switch!Fail, JournalStates
  <1>5. Switch!Recovering =>
          \/ (Switch!SavedForNextStart \/ Switch!Recovered) /\ journal'[i] = "recovered"
          \/ journal'[i] \in {"recovery_restarting", "recovery_failed"}
    <2>1. Switch!RecoverStop \/ Switch!RecoverUp => FALSE
      BY <1>2 DEF Switch!RecoverStop, Switch!RecoverUp
    <2>2. Switch!Recover => journal'[i] = "recovery_restarting"
      BY <1>1 DEF Switch!Recover, JournalStates
    <2>3. Switch!RecoveryFails => journal'[i] = "recovery_failed"
      BY <1>1 DEF Switch!RecoveryFails, Switch!RecoverWith, JournalStates
    <2>4. Switch!SavedForNextStart \/ Switch!Recovered => journal'[i] = "recovered"
      BY <1>1 DEF Switch!SavedForNextStart, Switch!Recovered, Switch!RecoverWith, JournalStates
    <2>5. QED
      BY <2>1, <2>2, <2>3, <2>4 DEF Switch!Recovering
  <1>6. ~(Switch!ConfigureModels \/ Switch!SelectModels)
    <2>1. ASSUME NEW new, NEW probed, Switch!BeginOperation(new, probed) PROVE FALSE
      <3>1. journal' = Append(journal, "running") /\ journal \in Seq(JournalStates) /\ "running" \in JournalStates
        BY <2>1 DEF Switch!BeginOperation, SwitchInv, SwitchTypes, JournalStates
      <3>2. i \in 1 .. Len(journal)
        BY <3>1, LenProperties
      <3>3. journal'[i] = journal[i]
        BY <3>1, <3>2, AppendProperties
      <3>4. QED
        BY <3>3
    <2>2. QED
      BY <2>1 DEF Switch!ConfigureModels, Switch!SelectModels
  <1>7. Switch!DaemonStarts => journal'[i] = "manager_restarted"
    BY DEF Switch!DaemonStarts, Switch!Interrupted
  <1>8. ~(Switch!DaemonDies \/ Elsewhere)
    BY <1>2 DEF Switch!DaemonDies, Elsewhere, Switch!StartNode, Switch!StopNode, Switch!Accept,
                Switch!Embed, Switch!EngineFails, Switch!EngineReturns
  <1>9. QED
    BY <1>3, <1>4, <1>5, <1>6, <1>7, <1>8 DEF Switch!SwitchNext, Elsewhere

LEMMA Reports == SwitchInv /\ [Switch!SwitchNext]_switchVars => [Switch!ReportIsTrue]_switchVars
  <1> SUFFICES ASSUME SwitchInv, Switch!SwitchNext, NEW i \in DOMAIN journal, journal'[i] # journal[i]
               PROVE  /\ journal'[i] \in {"succeeded", "recovered"} /\ desired = "running" =>
                           /\ runtime = [runs |-> "all", with |-> settings]
                           /\ runtime.with.provider = Bridge => Switch!BridgeServes(runtime.with)
                      /\ journal'[i] = "failed" => settings = task.was
    BY DEF Switch!ReportIsTrue
  <1>1. runtime = Switch!BroughtUp =>
          /\ runtime = [runs |-> "all", with |-> settings]
          /\ runtime.with.provider = Bridge => Switch!BridgeServes(runtime.with)
    BY DEF Switch!BroughtUp, Switch!BridgeServes, SwitchInv, SwitchTypes, EnvFiles
  <1>2. CASE Switch!Succeed /\ journal'[i] = "succeeded"
    BY <1>1, <1>2 DEF Switch!Succeed, Switch!At, SwitchInv, ReportReady
  <1>3. CASE Switch!Fail /\ journal'[i] = "failed"
    BY <1>3 DEF Switch!Fail, Switch!At, SwitchInv, EnvKnown
  <1>4. CASE (Switch!SavedForNextStart \/ Switch!Recovered) /\ journal'[i] = "recovered"
    BY <1>1, <1>4 DEF Switch!SavedForNextStart, Switch!Recovered, Switch!At, SwitchInv, ReportReady
  <1>5. QED
    BY <1>2, <1>3, <1>4, WhoReports

THEOREM ChangesAreSound == ManagerSpec => []SwitchInv
  <1>1. ManagerInit => SwitchInv
    BY SwitchInit DEF ManagerInit
  <1>2. SwitchInv /\ [ManagerNext]_<<vars, switchVars, doing>> => SwitchInv'
    BY ManagerSteps, SwitchStep
  <1>3. QED
    BY <1>1, <1>2, PTL DEF ManagerSpec

\* Whatever failed or died, every vector in a database comes from the model of
\* .env or from a model that was taken back after its containers had run, and .env
\* asks for no dimensions that compose.yaml does not hand on
\* (configureModelsLocked).
THEOREM VectorsAreAccountedFor == ManagerSpec => []VectorsComparable
  <1>1. SwitchInv => VectorsComparable
    BY DEF SwitchInv, SameModel, DimsKnown, VectorsComparable, Switch!VectorsComparable
  <1>2. QED
    BY <1>1, ChangesAreSound, PTL

\* What a models_configure reports is so (configureModelsLocked and the recovery
\* of an interrupted one).
THEOREM ReportsTellTheTruth == ManagerSpec => ReportsAreTrue
  <1>1. SwitchInv /\ [ManagerNext]_<<vars, switchVars, doing>> => [Switch!ReportIsTrue]_switchVars
    BY ManagerSteps, Reports
  <1>2. QED
    BY <1>1, ChangesAreSound, PTL DEF ManagerSpec, ReportsAreTrue

=============================================================================
