----------------------------- MODULE Deployment -----------------------------
(***************************************************************************)
(* The physical Node: one private .env, one Compose project, one cache of   *)
(* what the last start verified about the models.  Requests of the admin    *)
(* API and commands of the CLI work on them side by side: there is no lock, *)
(* and every await lets another one in between.  A step ends where the code *)
(* waits for Docker, a provider or the disk.  .env is written as a whole.   *)
(* A Compose command reads .env when it starts and takes minutes; its       *)
(* effect comes when it ends, on all its services at once.                  *)
(***************************************************************************)
EXTENDS Naturals, FiniteSets, Functions

CONSTANTS
    Callers,      \* each makes one call at a time, in a process of its own
    Embeddings,   \* embedding models
    Models,       \* generation models
    Keys,         \* API keys of the provider an operator may type in
    NoKey,        \* the empty key of a server that wants none
    Bridge,       \* NODE_CODEX_BRIDGE_TOKEN: the key of a Codex session
    Keep, Clear,  \* what one may ask of a saved key; Keep also of a model
    None          \* no file, no volume, no saved connection, nothing read

\* What an .env holds: the passwords of its first start, the models, the key in
\* use and the API key to go back to, if there is an API to go back to.
EnvFile ==
    [secrets : Callers, embedding : Embeddings, model : Models,
     key : Keys \cup {NoKey, Bridge}, direct : Keys \cup {NoKey, None}]

\* What one may ask selectModels for: some of it new.
Selections ==
    {s \in [embedding : Embeddings \cup {Keep},
            generation : {Keep} \cup (Models \X (Keys \cup {Bridge, Keep, Clear}))] :
        s.embedding # Keep \/ s.generation # Keep}

ASSUME DeploymentAssumption ==
    /\ {NoKey, Bridge, Keep, Clear, None} \cap (Keys \cup Embeddings \cup Models) = {}
    /\ NoKey \notin {Bridge, Keep, Clear, None} /\ Bridge \notin {Keep, Clear, None}
    /\ Keep \notin {Clear, None} /\ Clear # None
    /\ Keep \notin Models \X (Keys \cup {Bridge, Keep, Clear})
    /\ None \notin EnvFile \cup Selections

VARIABLES
    env,        \* the .env of the Node
    volumes,    \* the secrets the database volumes were initialised with
    stack,      \* the containers: which are up, and the settings they run with
    health,     \* model-health.json
    call        \* the call of each caller

deployment == <<env, volumes, stack, health, call>>

\* A call: its step, what it is asked for, the text it would put back, the .env
\* it works on, what its Compose command or its last look at .env has read; has
\* its process died under a Compose command that goes on; history: has nothing
\* else been in flight since it began.
Call(step) ==
    [step |-> step, then |-> "nothing", wanted |-> None, previous |-> None, read |-> None,
     seen |-> None, dead |-> FALSE, lone |-> TRUE]

Done   == Call("done")
Failed == Call("failed")
Died   == Call("died")

Free(c) == call[c].step \in {"done", "failed", "died"}
At(c, step) == call[c].step = step /\ ~call[c].dead
Become(c, q) == call' = [call EXCEPT ![c] = q]
Goto(c, step) == Become(c, [call[c] EXCEPT !.step = step])

\* A call begins; it is alone until another one begins before it has ended.
Begin(c, q) ==
    LET others == {d \in Callers \ {c} : ~Free(d)}
    IN  call' = [d \in Callers |->
                    IF d = c /\ others = {} THEN q
                    ELSE IF d = c THEN [q EXCEPT !.lone = FALSE]
                    ELSE IF d \in others THEN [call[d] EXCEPT !.lone = FALSE] ELSE call[d]]

\* What the template and initializeConfig put in a new .env.
NewEnv(c, e, m) == [secrets |-> c, embedding |-> e, model |-> m, key |-> Bridge, direct |-> None]

Settings(file) == [embedding |-> file.embedding, model |-> file.model, key |-> file.key]

\* modelHealthFingerprint: models and source, but only whether there is a key.
Fingerprint(file) == <<file.embedding, file.model, file.key = Bridge, file.key = NoKey>>

\* What computeStatus names in its answer: models and endpoint.
Names(file) == <<file.embedding, file.model, file.key = Bridge>>

\* REQUIRED_ENV of validateConfig: no key may be empty.
Valid(file) == file.key # NoKey

InitDeployment ==
    /\ env = None /\ volumes = None /\ health = None
    /\ stack = [up |-> "nothing", runs |-> None]
    /\ call = [c \in Callers |-> Done]

-----------------------------------------------------------------------------
(* Compose *)

InCompose == {"making", "converging", "recreating", "stopping"}

\* The command starts, and reads --env-file.
Compose(c, step) == Become(c, [call[c] EXCEPT !.step = step, !.seen = env])

\* Mistaken: up --no-recreate, and the containers keep the settings they were made with.
RestartedOn(c) == IF stack.runs = None THEN Settings(call[c].seen) ELSE stack.runs

\* docker compose up recreates the containers whose configuration has changed.
RunsOn(c) == Settings(call[c].seen)

\* The containers when the command has done its work: the databases; everything;
\* memory-core, memory-worker and control with what they depend on; nothing.
Target(c) ==
    CASE call[c].step = "making" -> [stack EXCEPT !.up = IF @ = "nothing" THEN "data" ELSE @]
      [] call[c].step = "converging" -> [up |-> "all", runs |-> RunsOn(c)]
      [] call[c].step = "recreating" ->
            [up |-> IF stack.up = "all" THEN "all" ELSE "core", runs |-> RunsOn(c)]
      [] OTHER -> [stack EXCEPT !.up = "nothing"]

\* A data directory is initialised once, with the passwords of that command.
Initialised(c) ==
    IF volumes = None /\ call[c].step # "stopping" THEN call[c].seen.secrets ELSE volumes

\* Mistaken: nothing is put back.
FailsAsItIs(c) == Become(c, Failed)

\* The catch of selectModels.
Undo(c) == Become(c, [call[c] EXCEPT !.step = "rollback", !.seen = None])

\* What the call does next; it has no more use for what the command has read.
Onward(c) ==
    LET goes(step) == Become(c, [call[c] EXCEPT !.step = step, !.seen = None])
    IN  CASE call[c].step = "making" -> goes("schema")
          [] call[c].step = "converging" -> goes("verify")
          [] call[c].step = "stopping" /\ call[c].then = "start" -> goes("validate")
          [] OTHER -> Become(c, Done)

ComposeEnds(c) ==
    /\ call[c].step \in InCompose
    /\ stack' = Target(c) /\ volumes' = Initialised(c)
    /\ IF call[c].dead THEN Become(c, Died) ELSE Onward(c)
    /\ UNCHANGED <<env, health>>

\* The command fails or times out, without its effect, with the volumes it has
\* initialised, or with all of it.
ComposeFails(c) ==
    /\ call[c].step \in InCompose
    /\ \/ UNCHANGED <<stack, volumes>>
       \/ UNCHANGED stack /\ volumes' = Initialised(c)
       \/ stack' = Target(c) /\ volumes' = Initialised(c)
    /\ IF call[c].dead THEN Become(c, Died)
       ELSE IF At(c, "recreating") THEN Undo(c) ELSE Become(c, Failed)
    /\ UNCHANGED <<env, health>>

\* A process dies; the docker command it has started goes on.
Die(c) ==
    /\ ~Free(c) /\ ~call[c].dead
    /\ Become(c, IF call[c].step \in InCompose THEN [call[c] EXCEPT !.dead = TRUE] ELSE Died)
    /\ UNCHANGED <<env, volumes, stack, health>>

-----------------------------------------------------------------------------
(* start *)

AskStart(c) ==
    /\ Free(c)
    /\ Begin(c, Call(IF env = None THEN "create" ELSE "validate"))
    /\ UNCHANGED <<env, volumes, stack, health>>

\* Mistaken: initializeConfig without the flag.
CreateOver == TRUE

\* fs.writeFile with "wx": of two first starts one finds the file made.
MayCreate == env = None

Create(c) ==
    /\ At(c, "create")
    /\ IF MayCreate
       THEN /\ \E e \in Embeddings, m \in Models : env' = NewEnv(c, e, m)
            /\ Goto(c, "validate")
       ELSE Become(c, Failed) /\ UNCHANGED env
    /\ UNCHANGED <<volumes, stack, health>>

\* validateConfig: its own checks, then docker compose config.
Validated(c, next) ==
    /\ \/ Valid(env) /\ next
       \/ Become(c, Failed)
    /\ UNCHANGED <<env, volumes, stack, health>>

Validate(c) == At(c, "validate") /\ Validated(c, Goto(c, "preflight"))

\* preflight; what start reads here it verifies at its end.
Preflight(c) ==
    /\ At(c, "preflight")
    /\ \/ Become(c, [call[c] EXCEPT !.step = "databases", !.read = env])
       \/ Become(c, Failed)
    /\ UNCHANGED <<env, volumes, stack, health>>

Databases(c) ==
    /\ At(c, "databases") /\ Compose(c, "making")
    /\ UNCHANGED <<env, volumes, stack, health>>

\* schemaInit validates once more, brings up the database of Control and runs
\* its migrations; the last command of start follows at once.
Schema(c) ==
    /\ At(c, "schema")
    /\ \/ Become(c, Failed) /\ UNCHANGED stack
       \/ /\ Valid(env)
          /\ stack' = [stack EXCEPT !.up = IF @ = "nothing" THEN "data" ELSE @]
          /\ Compose(c, "converging") \/ Become(c, Failed)
    /\ UNCHANGED <<env, volumes, health>>

\* verifyUnifiedSchema may throw; computeStatus then reads .env again.
Verify(c) ==
    /\ At(c, "verify")
    /\ \/ Become(c, [call[c] EXCEPT !.step = "contracts", !.seen = env])
       \/ Become(c, Failed)
    /\ UNCHANGED <<env, volumes, stack, health>>

\* verifyModelContracts writes down what the providers made of it, good or bad:
\* under the fingerprint of its one reading, with the names of the other.
Contracts(c) ==
    /\ At(c, "contracts")
    /\ health' = [fingerprint |-> Fingerprint(call[c].read), of |-> Names(call[c].seen)]
    /\ Become(c, Done)
    /\ UNCHANGED <<env, volumes, stack>>

-----------------------------------------------------------------------------
(* stop and restart *)

AskStop(c, then) ==
    /\ Free(c) /\ env # None
    /\ Begin(c, [Call("stop") EXCEPT !.then = then])
    /\ UNCHANGED <<env, volumes, stack, health>>

Stop(c) == At(c, "stop") /\ Validated(c, Compose(c, "stopping"))

-----------------------------------------------------------------------------
(* selectModels *)

\* It reads .env as text, to put back and to edit, and once more, parsed.
AskSelect(c, selection) ==
    /\ Free(c) /\ env # None
    /\ Begin(c, [Call("parse") EXCEPT !.wanted = selection, !.previous = env])
    /\ UNCHANGED <<env, volumes, stack, health>>

Parse(c) ==
    /\ At(c, "parse")
    /\ Become(c, [call[c] EXCEPT !.step = "probe", !.read = env])
    /\ UNCHANGED <<env, volumes, stack, health>>

\* resolveDirectConnection: the key saved for the API, none, or the one typed in.
KeyFor(file, key) == IF key = Keep THEN file.direct ELSE IF key = Clear THEN NoKey ELSE key

\* A key can be kept where an API has been saved.
Connects(file, selection) ==
    selection.generation # Keep => KeyFor(file, selection.generation[2]) # None

\* What the providers answer to computeStatus and to generationProbe, which reads
\* .env for itself.
Probe(c) ==
    /\ At(c, "probe")
    /\ \/ /\ Connects(env, call[c].wanted) /\ Connects(call[c].read, call[c].wanted)
          /\ Goto(c, "invalidate")
       \/ Become(c, Failed)
    /\ UNCHANGED <<env, volumes, stack, health>>

\* replaceEnvValues on the text, with a key of the parsed file.  Switching to
\* Codex leaves GENERATION_DIRECT_* for the way back.
Replaced(text, file, selection) ==
    LET wanted == selection.generation
        key    == KeyFor(file, wanted[2])
        chosen == IF wanted = Keep THEN text
                  ELSE [text EXCEPT !.model = wanted[1], !.key = key,
                                    !.direct = IF key = Bridge THEN @ ELSE key]
    IN  [chosen EXCEPT !.embedding = IF selection.embedding = Keep THEN @ ELSE selection.embedding]

Forget(c, next) ==
    /\ health' = None
    /\ next
    /\ UNCHANGED <<env, volumes, stack>>

Invalidate(c) == At(c, "invalidate") /\ Forget(c, Goto(c, "write"))

Write(c) ==
    /\ At(c, "write")
    /\ env' = Replaced(call[c].previous, call[c].read, call[c].wanted)
    /\ Become(c, [call[c] EXCEPT !.step = "check", !.read = None])
    /\ UNCHANGED <<volumes, stack, health>>

\* validateConfig inside the try: a key that was cleared does not pass.
Check(c) ==
    /\ At(c, "check")
    /\ (Valid(env) /\ Goto(c, "recreate")) \/ Undo(c)
    /\ UNCHANGED <<env, volumes, stack, health>>

Recreate(c) ==
    /\ At(c, "recreate") /\ Compose(c, "recreating")
    /\ UNCHANGED <<env, volumes, stack, health>>

Rollback(c) ==
    /\ At(c, "rollback")
    /\ env' = call[c].previous
    /\ Goto(c, "forget")
    /\ UNCHANGED <<volumes, stack, health>>

ForgetAgain(c) == At(c, "forget") /\ Forget(c, Become(c, Failed))

-----------------------------------------------------------------------------
Progress(c) ==
    \/ Create(c) \/ Validate(c) \/ Preflight(c) \/ Databases(c) \/ Schema(c) \/ Verify(c) \/ Contracts(c)
    \/ Stop(c)
    \/ Parse(c) \/ Probe(c) \/ Invalidate(c) \/ Write(c) \/ Check(c) \/ Recreate(c)
    \/ Rollback(c) \/ ForgetAgain(c)
    \/ ComposeEnds(c) \/ ComposeFails(c) \/ Die(c)

Operate(c) == AskStart(c) \/ AskStop(c, "nothing") \/ AskStop(c, "start")

-----------------------------------------------------------------------------
(* Two calls may overlap anywhere, fail and die, and what the Node is left  *)
(* with need not agree: these hold in spite of that.                        *)

\* The passwords in .env open the databases: whichever of several first starts
\* initialised the volumes, from whichever of its commands, and whatever
\* selections were written and undone since, .env has the secrets the volumes
\* were made with.
SecretsOpen == volumes # None => env # None /\ env.secrets = volumes

\* A start settles the Node, whatever calls have failed, died or crossed each
\* other before it: when start returns and nothing else was in flight
\* meanwhile, everything runs what .env says, and the verdict in the cache is
\* about it and counts.
LoneStartSettles ==
    [][\A c \in Callers : At(c, "contracts") /\ call[c].lone /\ call'[c] = Done =>
         /\ stack'.up = "all" /\ stack'.runs = Settings(env')
         /\ health' = [fingerprint |-> Fingerprint(env'), of |-> Names(env')]
      ]_deployment

\* A selection that nothing overlaps is all or nothing, whatever refuses it:
\* selectModels returns with .env as it was asked to be of the .env it found,
\* containers that run it and the last verdict forgotten; or it throws, and .env
\* is the one it found.
LoneSelectionIsAllOrNothing ==
    [][\A c \in Callers : call[c].wanted # None /\ call[c].lone =>
         /\ call'[c] = Done =>
              /\ env' = Replaced(call[c].previous, call[c].previous, call[c].wanted)
              /\ stack'.runs = Settings(env') /\ health' = None
         /\ call'[c] = Failed => env' = call[c].previous
      ]_deployment
=============================================================================
