----------------------------- MODULE ModelSwitch -----------------------------
(***************************************************************************)
(* Changing the models of a Node that the manager daemon runs:               *)
(* configureModels and selectModels under the Node's operation lock, the     *)
(* rollback of a change that fails, and what a daemon that restarts makes of *)
(* a change it finds half done.  .env and compose.yaml are two files; the    *)
(* containers keep the settings of the last up; the vectors in the database  *)
(* outlive all of them.  A step ends where the code writes a file or calls   *)
(* Docker or a provider: the daemon can die between any two.                 *)
(***************************************************************************)
EXTENDS Naturals, Sequences, FiniteSets, Functions, FiniteSetsExt, TLC

CONSTANTS
    Embeddings, Models,     \* embedding and generation models
    Apis,                   \* generation providers: an address and a key
    Bridge,                 \* the daemon's own address, the provider for Codex
    Keep,                   \* leave that setting as it is
    None,                   \* no provider of one's own was saved
    MaxSwitches,            \* bound: operations
    MaxDaemonDeaths,        \* bound: deaths of the daemon
    MaxOutages              \* bound: outages of the Docker engine

ModelSwitchAssumption ==
    /\ {MaxSwitches, MaxDaemonDeaths, MaxOutages} \subseteq Nat
    /\ Bridge # Keep /\ Keep # None /\ Bridge # None
    /\ {Bridge, Keep, None} \cap (Embeddings \cup Models \cup Apis) = {}
    /\ Keep \notin {"codex", "api"}

VARIABLES
    env,        \* the model settings in .env
    compose,    \* does compose.yaml hand EMBEDDING_SEND_DIMENSIONS on
    desired,    \* desired_state of the Node
    stack,      \* the containers: what runs, and with which settings
    database,   \* is there a record, and which models made the vectors
    journal,    \* the states of the models_configure operations
    job,        \* the operation in progress: under the lock, or at boot
    daemon,     \* "dead", "booting" or "serving"
    docker,     \* does the Docker engine answer
    undone,     \* history: embedding models that were taken back after their start
    deaths, outages

switchVars == <<env, compose, desired, stack, database, journal, job, daemon, docker,
                undone, deaths, outages>>
files == <<env, compose>>
faults == <<daemon, docker, deaths, outages>>

Rest == [step |-> "rest"]

\* GENERATION_DIRECT_* is the API a Node goes back to from a Codex session.
SwitchInit ==
    /\ env \in [embedding : Embeddings, dims : {FALSE}, source : {"api"}, model : Models,
                provider : Apis, direct : {None}]
    /\ compose = FALSE                            \* a runtime of before the flag
    /\ desired = "stopped"
    /\ stack = [runs |-> "nothing", with |-> env]
    /\ database = [filled |-> FALSE, vectors |-> {}]
    /\ journal = <<>> /\ job = Rest
    /\ daemon = "serving" /\ docker = TRUE
    /\ undone = {}
    /\ deaths = 0 /\ outages = 0

-----------------------------------------------------------------------------
(* What is asked for, and what it makes of .env. *)

Selections ==
    [embedding : Embeddings \cup {Keep},
     generation : [source : {"codex"}, model : Models]
                  \cup [source : {"api"}, model : Models, api : Apis \cup {Keep}]
                  \cup [source : {Keep}, model : Models \cup {Keep}]]

\* savedDirectGenerationProvider: the API to keep.
SavedApi == IF env.direct # None THEN env.direct
            ELSE IF env.source = "api" THEN env.provider ELSE None

Unchanged == [f \in {} |-> f]

\* Settings written over others, as replaceEnvValues does.
Over(new, old) ==
    [f \in DOMAIN new \cup DOMAIN old |-> IF f \in DOMAIN new THEN new[f] ELSE old[f]]

NewEmbedding(s) ==
    IF s.embedding \in {Keep, env.embedding} THEN Unchanged
    ELSE [embedding |-> s.embedding, dims |-> TRUE]

ApiOf(g) == IF g.api = Keep THEN SavedApi ELSE g.api

NewGeneration(g) ==
    CASE g.source = "codex" ->
            Over([source |-> "codex", provider |-> Bridge, model |-> g.model],
                 IF SavedApi = None THEN Unchanged ELSE [direct |-> SavedApi])
      [] g.source = "api" ->
            [source |-> "api", provider |-> ApiOf(g), model |-> g.model, direct |-> ApiOf(g)]
      [] g.source = Keep ->
            IF g.model \in {Keep, env.model} THEN Unchanged ELSE [model |-> g.model]

Configuration(s) == Over(NewEmbedding(s), NewGeneration(s.generation))

\* What the catalogs allow; a provider that does not answer lists nothing, which
\* an API selection passes over.
Offered(s, api, codex) ==
    /\ s.embedding \in api \cup {Keep, env.embedding}
    /\ LET g == s.generation IN
       CASE g.source = "codex" -> g.model \in codex
         [] g.source = "api" -> ApiOf(g) # None /\ (api \cap Models = {} \/ g.model \in api)
         [] g.source = Keep ->
                g.model \in {Keep, env.model} \cup (IF env.source = "codex" THEN codex ELSE api)

\* What configureModels accepts of itself: any of the settings, unprobed.
Settings ==
    {c \in UNION {[S -> Embeddings \cup Models] : S \in SUBSET {"embedding", "model"}} :
        /\ DOMAIN c # {}
        /\ "embedding" \in DOMAIN c => c["embedding"] \in Embeddings
        /\ "model" \in DOMAIN c => c["model"] \in Models}

-----------------------------------------------------------------------------
LockIsFree == daemon = "serving" /\ job = Rest

At(step) == daemon # "dead" /\ job.step = step
Goto(step) == job' = [job EXCEPT !.step = step]

Record(state) == journal' = [journal EXCEPT ![job.op] = state]

\* An exception on the way takes the operation to its catch.
Throw == Goto("back env") /\ UNCHANGED <<files, desired, stack, database, journal, undone, faults>>

\* The .env before the operation is kept in memory, as text.
BeginOperation(new, probed) ==
    /\ journal' = Append(journal, "running")
    /\ job' = [step |-> IF "embedding" \in DOMAIN new /\ new.embedding # env.embedding
                        THEN "quiesce" ELSE "probe",
               op |-> Len(journal) + 1, new |-> new, probed |-> probed,
               was |-> env, composeWas |-> compose, ran |-> FALSE]
    /\ UNCHANGED <<files, desired, stack, database, undone, faults>>

ConfigureModels ==
    /\ LockIsFree /\ Len(journal) < MaxSwitches
    /\ \E new \in Settings : BeginOperation(new, FALSE)

\* A selection that is not offered, or changes nothing, begins no operation.
SelectModels ==
    /\ LockIsFree /\ Len(journal) < MaxSwitches
    /\ \E s \in Selections, api \in SUBSET (Embeddings \cup Models), codex \in SUBSET Models :
        /\ Offered(s, api, codex)
        /\ Configuration(s) # Unchanged
        /\ BeginOperation(Configuration(s), TRUE)

\* Mistaken: the stack goes on while the database is looked at.
WritersLeft == stack

WritersStopped == [stack EXCEPT !.runs = IF @ = "all" THEN "database" ELSE @]

\* A stopped Node cannot show that its database is empty.
Quiesce ==
    /\ At("quiesce")
    /\ \/ desired = "running" /\ docker /\ stack' = WritersStopped /\ Goto("verify")
          /\ UNCHANGED <<files, desired, database, journal, undone, faults>>
       \/ desired = "stopped" /\ Throw
       \/ ~docker /\ Throw

ModelBoundRows == database.filled

Verify ==
    /\ At("verify")
    /\ \/ docker /\ stack.runs # "nothing" /\ ~ModelBoundRows /\ Goto("probe")
          /\ UNCHANGED <<files, desired, stack, database, journal, undone, faults>>
       \/ Throw                                 \* rows, or no manifest to be had

Probe ==
    /\ At("probe")
    /\ \/ Goto("compose") /\ UNCHANGED <<files, desired, stack, database, journal, undone, faults>>
       \/ job.probed /\ Throw

\* ensureEmbeddingDimensionsCompose, for changes that set the flag.
WriteCompose ==
    /\ At("compose")
    /\ compose' = (compose \/ "dims" \in DOMAIN job.new)
    /\ Goto("env")
    /\ UNCHANGED <<env, desired, stack, database, journal, undone, faults>>

WriteEnv ==
    /\ At("env")
    /\ env' = Over(job.new, env)
    /\ Goto(IF desired = "running" THEN "stop" ELSE "succeed")
    /\ UNCHANGED <<compose, desired, stack, database, journal, undone, faults>>

Halted == [stack EXCEPT !.runs = "nothing"]

Stop ==
    /\ At("stop")
    /\ \/ docker /\ stack' = Halted /\ Goto("up")
          /\ UNCHANGED <<files, desired, database, journal, undone, faults>>
       \/ ~docker /\ Throw

\* Mistaken: docker compose start keeps the containers and their settings.
StartedAgain == [stack EXCEPT !.runs = "all"]

\* docker compose up makes the containers anew with what the files say.
BroughtUp == [runs |-> "all", with |-> env]

\* waitForReady may see the Node fail although its containers run.
Up ==
    /\ At("up")
    /\ \/ docker /\ stack' = BroughtUp
          /\ \E how \in {"succeed", "back env"} : job' = [job EXCEPT !.step = how, !.ran = TRUE]
       \/ Goto("back env") /\ UNCHANGED stack
    /\ UNCHANGED <<files, desired, database, journal, undone, faults>>

Succeed ==
    /\ At("succeed")
    /\ Record("succeeded") /\ job' = Rest
    /\ UNCHANGED <<files, desired, stack, database, undone, faults>>

-----------------------------------------------------------------------------
(* The catch of configureModelsLocked. *)

BackEnv ==
    /\ At("back env")
    /\ env' = job.was
    /\ undone' = IF job.ran /\ env.embedding # job.was.embedding
                 THEN undone \cup {env.embedding} ELSE undone
    /\ Goto("back compose")
    /\ UNCHANGED <<compose, desired, stack, database, journal, faults>>

BackCompose ==
    /\ At("back compose")
    /\ compose' = job.composeWas
    /\ Goto(IF desired = "running" THEN "back stop" ELSE "fail")
    /\ UNCHANGED <<env, desired, stack, database, journal, undone, faults>>

BackStop ==
    /\ At("back stop")
    /\ IF docker THEN stack' = Halted /\ Goto("back up")
                 ELSE Goto("fail") /\ UNCHANGED stack
    /\ UNCHANGED <<files, desired, database, journal, undone, faults>>

BackUp ==
    /\ At("back up")
    /\ stack' \in IF docker THEN {stack, BroughtUp} ELSE {stack}
    /\ Goto("fail")
    /\ UNCHANGED <<files, desired, database, journal, undone, faults>>

Fail ==
    /\ At("fail")
    /\ Record("failed") /\ job' = Rest
    /\ UNCHANGED <<files, desired, stack, database, undone, faults>>

-----------------------------------------------------------------------------
(* The daemon dies and comes back. *)

DaemonDies ==
    /\ daemon # "dead" /\ deaths < MaxDaemonDeaths
    /\ daemon' = "dead" /\ deaths' = deaths + 1
    /\ job' = Rest
    /\ UNCHANGED <<files, desired, stack, database, journal, docker, undone, outages>>

\* recoverInterruptedOperations.
Interrupted == [i \in DOMAIN journal |->
                   IF journal[i] = "running" THEN "manager_restarted" ELSE journal[i]]

Retryable == {"manager_restarted", "recovery_restarting", "recovery_failed"}

\* The newest operation that is not recovered yet, once in a start.
DaemonStarts ==
    /\ daemon = "dead"
    /\ journal' = Interrupted
    /\ LET left == {i \in DOMAIN journal : Interrupted[i] \in Retryable} IN
       IF left = {} THEN daemon' = "serving" /\ UNCHANGED job
       ELSE daemon' = "booting" /\ job' = [step |-> "recover", op |-> Max(left)]
    /\ UNCHANGED <<files, desired, stack, database, docker, undone, deaths, outages>>

Recover ==
    /\ At("recover")
    /\ Record("recovery_restarting")
    /\ Goto(IF desired = "stopped" THEN "saved" ELSE "recover stop")
    /\ UNCHANGED <<files, desired, stack, database, undone, faults>>

RecoverWith(state) == Record(state) /\ daemon' = "serving" /\ job' = Rest

SavedForNextStart ==
    /\ At("saved")
    /\ RecoverWith("recovered")
    /\ UNCHANGED <<files, desired, stack, database, undone, docker, deaths, outages>>

RecoverStop ==
    /\ At("recover stop")
    /\ IF docker THEN stack' = Halted /\ Goto("recover up")
                 ELSE Goto("recover failed") /\ UNCHANGED stack
    /\ UNCHANGED <<files, desired, database, journal, undone, faults>>

RecoverUp ==
    /\ At("recover up")
    /\ \/ docker /\ stack' = BroughtUp /\ \E how \in {"synced", "recover failed"} : Goto(how)
       \/ Goto("recover failed") /\ UNCHANGED stack
    /\ UNCHANGED <<files, desired, database, journal, undone, faults>>

Recovered ==
    /\ At("synced")
    /\ RecoverWith("recovered")
    /\ UNCHANGED <<files, desired, stack, database, undone, docker, deaths, outages>>

RecoveryFails ==
    /\ At("recover failed")
    /\ RecoverWith("recovery_failed")
    /\ UNCHANGED <<files, desired, stack, database, undone, docker, deaths, outages>>

-----------------------------------------------------------------------------
(* The rest of the system. *)

\* start (or the timer's) and stop hold the lock; Docker may fail them half way.
StartNode ==
    /\ LockIsFree
    /\ desired' = "running"
    /\ stack' \in IF docker THEN {stack, BroughtUp} ELSE {stack}
    /\ UNCHANGED <<files, database, journal, job, undone, faults>>

StopNode ==
    /\ LockIsFree
    /\ desired' = "stopped"
    /\ stack' \in IF docker THEN {stack, Halted} ELSE {stack}
    /\ UNCHANGED <<files, database, journal, job, undone, faults>>

Accept ==
    /\ stack.runs = "all"
    /\ database' = [database EXCEPT !.filled = TRUE]
    /\ UNCHANGED <<files, desired, stack, journal, job, undone, faults>>

\* The worker embeds what has been accepted with the model it was started with.
Embed ==
    /\ stack.runs = "all" /\ database.filled
    /\ database' = [database EXCEPT !.vectors = @ \cup {stack.with.embedding}]
    /\ UNCHANGED <<files, desired, stack, journal, job, undone, faults>>

EngineFails ==
    /\ docker /\ outages < MaxOutages
    /\ docker' = FALSE /\ outages' = outages + 1
    /\ UNCHANGED <<files, desired, stack, database, journal, job, undone, daemon, deaths>>

EngineReturns ==
    /\ ~docker /\ docker' = TRUE
    /\ UNCHANGED <<files, desired, stack, database, journal, job, undone, daemon, deaths, outages>>

Changing == Quiesce \/ Verify \/ Probe \/ WriteCompose \/ WriteEnv \/ Stop \/ Up \/ Succeed

TakingBack == BackEnv \/ BackCompose \/ BackStop \/ BackUp \/ Fail

Recovering ==
    Recover \/ SavedForNextStart \/ RecoverStop \/ RecoverUp \/ Recovered \/ RecoveryFails

SwitchNext ==
    \/ ConfigureModels \/ SelectModels \/ Changing \/ TakingBack
    \/ DaemonDies \/ DaemonStarts \/ Recovering
    \/ StartNode \/ StopNode \/ Accept \/ Embed \/ EngineFails \/ EngineReturns

-----------------------------------------------------------------------------
\* "Changing the embedding model requires an empty Node" (configureModelsLocked):
\* wherever an operation failed or the daemon died, the vectors of a database come
\* from the model of .env, which queries are embedded with, or from one that was
\* taken back after its containers had run, which may have embedded records before
\* the rollback; and a model that was chosen with the dimensions flag gets it.
VectorsComparable ==
    /\ \A v \in database.vectors : v = env.embedding \/ v \in undone
    /\ env.dims => compose

\* The Codex bridge serves a container that asks with the model and the source of
\* .env (codexChatCompletion).
BridgeServes(settings) == env.source = "codex" /\ settings.model = env.model

\* What an operation reports is so: succeeded or recovered, a Node that should run
\* runs with what .env says and a container on a Codex session is served; failed,
\* .env is what the operation found.
ReportIsTrue ==
    \A i \in DOMAIN journal : journal'[i] # journal[i] =>
        /\ journal'[i] \in {"succeeded", "recovered"} /\ desired = "running" =>
             /\ stack = [runs |-> "all", with |-> env]
             /\ stack.with.provider = Bridge => BridgeServes(stack.with)
        /\ journal'[i] = "failed" => env = job.was
=============================================================================
