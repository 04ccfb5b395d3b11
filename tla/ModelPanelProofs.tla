-------------------------- MODULE ModelPanelProofs --------------------------
(***************************************************************************)
(* What the run of ModelPanel checks with two callers, one key and three     *)
(* edits, proved for any number of callers, models, keys, edits, failures    *)
(* and deaths, and for the overlaps that the bounds of the run leave out.    *)
(*                                                                         *)
(* Nothing locks .env: of what a call has read of it (Holds) the secrets      *)
(* alone can be trusted to be those of now.  A call that is alone can trust   *)
(* more, step by step (Settles).                                             *)
(***************************************************************************)
EXTENDS ModelPanel, TLAPS

Idle      == {"done", "failed", "died"}
Verifying == {"databases", "making", "schema", "converging", "verify", "contracts"}
Selecting ==
    {"parse", "probe", "invalidate", "write", "check", "recreate", "recreating", "rollback", "forget"}
Steps == Idle \cup {"create", "validate", "preflight", "stop", "stopping"} \cup Verifying \cup Selecting

Files == EnvFile \cup {None}

CallState ==
    [step : Steps, then : {"nothing", "start"}, wanted : Selections \cup {None},
     previous : Files, read : Files, seen : Files, dead : BOOLEAN, lone : BOOLEAN]

Containers == {"nothing", "data", "core", "all"}
RunBy == [embedding : Embeddings, model : Models, key : Keys \cup {NoKey, Bridge}]

NodeTyped ==
    /\ env \in Files
    /\ call \in [Callers -> CallState]
    /\ stack \in [up : Containers, runs : RunBy \cup {None}]

\* What a call holds, and what it may expect of the .env that is there: it has
\* the secrets it had when the call read it.
Holds(q, file) ==
    /\ q.step \notin Idle \cup {"create"} => file \in EnvFile
    /\ q.wanted # None => q.step \in Selecting
    /\ q.step \in Selecting =>
         q.wanted \in Selections /\ q.previous \in EnvFile /\ q.previous.secrets = file.secrets
    /\ q.step \in {"probe", "invalidate", "write"} => q.read \in EnvFile
    /\ q.step \in {"invalidate", "write"} => Connects(q.read, q.wanted)
    /\ q.step \in InCompose => q.seen \in EnvFile /\ q.seen.secrets = file.secrets

\* What a call that has been alone since it began knows of the Node.
Settles(q, file, runs, verdict) ==
    q.lone /\ q.step \notin Idle =>
        /\ q.step \in Verifying => q.read = file
        /\ q.step \in {"converging", "recreating", "contracts"} => q.seen = file
        /\ q.step \in {"verify", "contracts"} => runs = [up |-> "all", runs |-> Settings(file)]
        /\ q.step \in {"parse", "probe", "invalidate", "write", "forget"} => q.previous = file
        /\ q.step \in {"probe", "invalidate", "write"} => q.read = file
        /\ q.step \in {"check", "recreate", "recreating"} =>
             file = Replaced(q.previous, q.previous, q.wanted) /\ verdict = None
        /\ q.step = "write" => verdict = None

Alone(c) ==
    call[c].lone /\ call[c].step \notin Idle =>
        \A d \in Callers \ {c} : call[d].step \in Idle

CallsSound ==
    \A c \in Callers : Holds(call[c], env) /\ Settles(call[c], env, stack, health) /\ Alone(c)

NodeInv == NodeTyped /\ SecretsOpen /\ CallsSound

\* The card: there is one probe of an epoch at most, and while the source it was
\* asked for is shown it is about the form.
CardTyped ==
    /\ form \in Drafts \cup {Keep} /\ saved \in Drafts \cup {Keep}
    /\ keyed \in BOOLEAN
    /\ probe \in [epoch : 0 .. MaxEpoch, state : {"idle", "probing", "compatible", "refused"},
                  source : {"none", "codex", "api"}, of : Drafts \cup {Keep}]
    /\ asked \subseteq [epoch : 0 .. MaxEpoch, input : Drafts]
    /\ \A q \in asked : q.epoch <= probe.epoch
    /\ form = Keep => saved = Keep
    /\ saved = Keep => ~dialog /\ ~busy /\ asked = {} /\ probe.source = "none"

ProbesSound ==
    probe.source # "none" =>
        /\ \A q \in asked : q.epoch = probe.epoch => q.input = form
        /\ probe.state = "compatible" => probe.of = form

CardInv == CardTyped /\ ProbesSound

Inv == NodeInv /\ CardInv

-----------------------------------------------------------------------------
(* Steps of one call. *)

\* Once there, .env stays and keeps its secrets.
EnvKept == env \in EnvFile => env' \in EnvFile /\ env'.secrets = env.secrets

LEMMA AnswersTyped ==
  /\ Done \in CallState /\ Done.step = "done" /\ Done.wanted = None
  /\ Failed \in CallState /\ Failed.step = "failed" /\ Failed.wanted = None
  /\ Died \in CallState /\ Died.step = "died" /\ Died.wanted = None
  BY DEF Done, Failed, Died, Call, CallState, Steps, Idle, Files

LEMMA HoldsStill ==
  ASSUME NEW q \in CallState, Holds(q, env), EnvKept
  PROVE  Holds(q, env')
  <1>1. q.step \in Selecting \cup InCompose => q.step \notin Idle \cup {"create"}
    BY DEF Selecting, InCompose, Idle
  <1>2. QED
    BY <1>1 DEF Holds, EnvKept

\* A step that leaves the call q behind.  Any other call either was not alone, or
\* is over.
LEMMA NodeStep ==
  ASSUME NodeInv, NEW c \in Callers, call[c].step \notin Idle,
         NEW q \in CallState, Become(c, q), q.lone => call[c].lone \/ q.step \in Idle,
         EnvKept, env' \in Files, stack' \in [up : Containers, runs : RunBy \cup {None}],
         Holds(q, env'), Settles(q, env', stack', health'), SecretsOpen'
  PROVE  NodeInv'
  <1>1. \A d \in Callers : call'[d] = IF d = c THEN q ELSE call[d]
    BY DEF NodeInv, NodeTyped, Become
  <1>2. NodeTyped'
    BY DEF NodeInv, NodeTyped, Become
  <1>3. Holds(call'[c], env') /\ Settles(call'[c], env', stack', health') /\ Alone(c)'
    BY <1>1 DEF NodeInv, CallsSound, Alone
  <1>4. ASSUME NEW d \in Callers, d # c
        PROVE  Holds(call'[d], env') /\ Settles(call'[d], env', stack', health') /\ Alone(d)'
    <2>1. call'[d] = call[d] /\ call[d] \in CallState
      BY <1>1, <1>4 DEF NodeInv, NodeTyped
    <2>2. Holds(call[d], env')
      BY <2>1, HoldsStill DEF NodeInv, CallsSound
    <2>3. ~(call[d].lone /\ call[d].step \notin Idle)
      BY <1>4 DEF NodeInv, CallsSound, Alone
    <2>4. QED
      BY <2>1, <2>2, <2>3 DEF Settles, Alone
  <1>5. QED
    BY <1>2, <1>3, <1>4 DEF NodeInv, CallsSound

\* A call that is over.
LEMMA NodeEnds ==
  ASSUME NodeInv, NEW c \in Callers, call[c].step \notin Idle,
         NEW q \in {Done, Failed, Died}, Become(c, q),
         EnvKept, env' \in Files, stack' \in [up : Containers, runs : RunBy \cup {None}], SecretsOpen'
  PROVE  NodeInv'
  <1>1. q \in CallState /\ q.step \in Idle /\ q.wanted = None
    BY AnswersTyped DEF Idle
  <1>2. Holds(q, env') /\ Settles(q, env', stack', health')
    BY <1>1 DEF Holds, Settles, Idle, Selecting, InCompose
  <1>3. QED
    BY <1>1, <1>2, NodeStep

\* A step that changes nothing of the Node but the verdict.
LEMMA NodeAsItIs ==
  ASSUME NodeInv, UNCHANGED <<env, volumes, stack>>
  PROVE  /\ EnvKept /\ env' \in Files /\ SecretsOpen'
         /\ stack' \in [up : Containers, runs : RunBy \cup {None}]
  BY DEF NodeInv, NodeTyped, EnvKept, SecretsOpen

LEMMA CallFails ==
  ASSUME NodeInv, NEW c \in Callers, call[c].step \notin Idle,
         NEW q \in {Done, Failed, Died}, Become(c, q), UNCHANGED <<env, volumes, stack>>
  PROVE  NodeInv'
  BY NodeAsItIs, NodeEnds

\* A call begins: of the others each learns at most that it is not alone.
LEMMA NodeBegins ==
  ASSUME NodeInv, NEW c \in Callers, Free(c), NEW q \in CallState, Begin(c, q),
         UNCHANGED <<env, volumes, stack, health>>,
         q.step \in {"create", "validate", "stop", "parse"},
         Holds(q, env), q.step = "parse" => q.previous = env
  PROVE  NodeInv'
  <1> DEFINE others == {d \in Callers \ {c} : ~Free(d)}
  <1>1. \A d \in Callers : call'[d] = IF d = c /\ others = {} THEN q
                                       ELSE IF d = c THEN [q EXCEPT !.lone = FALSE]
                                       ELSE IF d \in others THEN [call[d] EXCEPT !.lone = FALSE]
                                       ELSE call[d]
    BY DEF Begin
  <1>2. call' \in [Callers -> CallState]
    <2>1. \A r \in CallState : [r EXCEPT !.lone = FALSE] \in CallState
      BY DEF CallState
    <2>2. \A d \in Callers : call[d] \in CallState
      BY DEF NodeInv, NodeTyped
    <2> HIDE DEF others
    <2>3. \A d \in Callers : call'[d] \in CallState
      BY <1>1, <2>1, <2>2
    <2>4. QED
      BY <2>3 DEF Begin
  <1>3. /\ call'[c].step = q.step /\ call'[c].previous = q.previous /\ call'[c].wanted = q.wanted
        /\ call'[c].lone => others = {}
    BY <1>1 DEF CallState
  <1>4. Holds(call'[c], env')
    BY <1>3 DEF Holds, InCompose
  <1>5. Settles(call'[c], env', stack', health')
    BY <1>3 DEF Settles, Verifying
  <1>6. Alone(c)'
    BY <1>1, <1>3 DEF Alone, Free, Idle
  <1>7. ASSUME NEW d \in Callers \ {c}
        PROVE  Holds(call'[d], env') /\ Settles(call'[d], env', stack', health') /\ Alone(d)'
    <2>1. call[d] \in CallState /\ Holds(call[d], env)
      BY DEF NodeInv, NodeTyped, CallsSound
    <2>2. CASE d \in others
      <3>1. call'[d] = [call[d] EXCEPT !.lone = FALSE]
        BY <1>1, <1>7, <2>2
      <3>2. ~call'[d].lone /\ call'[d].step = call[d].step /\ call'[d].wanted = call[d].wanted
        BY <2>1, <3>1 DEF CallState
      <3>3. /\ call'[d].previous = call[d].previous /\ call'[d].read = call[d].read
            /\ call'[d].seen = call[d].seen
        BY <2>1, <3>1 DEF CallState
      <3>4. QED
        BY <2>1, <3>2, <3>3 DEF Holds, Settles, Alone
    <2>3. CASE d \notin others
      <3>1. call'[d] = call[d] /\ call[d].step \in Idle
        BY <1>1, <1>7, <2>3 DEF Free, Idle
      <3>2. QED
        BY <2>1, <3>1 DEF Settles, Alone
    <2>4. QED
      BY <2>2, <2>3
  <1>8. SecretsOpen' /\ NodeTyped'
    BY <1>2 DEF NodeInv, NodeTyped, SecretsOpen
  <1>9. QED
    BY <1>4, <1>5, <1>6, <1>7, <1>8 DEF NodeInv, CallsSound

-----------------------------------------------------------------------------
(* start, stop and restart *)

LEMMA AskPreserves ==
  ASSUME NodeInv, NEW c \in Callers, Operate(c)
  PROVE  NodeInv'
  <1>1. ASSUME NEW step \in {"create", "validate", "stop"}, NEW then \in {"nothing", "start"}
        PROVE  LET q == [Call(step) EXCEPT !.then = then]
               IN  q \in CallState /\ q.step = step /\ q.wanted = None
    BY <1>1 DEF Call, CallState, Steps, Files
  <1>2. \A step \in {"create", "validate"} :
           Call(step) \in CallState /\ Call(step).step = step /\ Call(step).wanted = None
    BY DEF Call, CallState, Steps, Files
  <1>3. CASE AskStart(c)
    <2> DEFINE q == Call(IF env = None THEN "create" ELSE "validate")
    <2>1. /\ q \in CallState /\ q.step \in {"create", "validate"} /\ q.wanted = None
          /\ q.step = "validate" => env # None
      BY <1>2
    <2>2. Holds(q, env)
      BY <2>1 DEF Holds, NodeInv, NodeTyped, Files, Selecting, InCompose
    <2>3. QED
      BY <1>3, <2>1, <2>2, NodeBegins DEF AskStart
  <1>4. ASSUME NEW then \in {"nothing", "start"}, AskStop(c, then)
        PROVE  NodeInv'
    <2> DEFINE q == [Call("stop") EXCEPT !.then = then]
    <2>1. q \in CallState /\ q.step = "stop" /\ q.wanted = None
      BY <1>1
    <2>2. Holds(q, env)
      BY <1>4, <2>1 DEF AskStop, Holds, NodeInv, NodeTyped, Files, Selecting, InCompose
    <2>3. QED
      BY <1>4, <2>1, <2>2, NodeBegins DEF AskStop
  <1>5. QED
    BY <1>3, <1>4 DEF Operate

\* What a call looks like when it has gone on.
LEMMA Moved ==
  ASSUME NEW q \in CallState, NEW step \in Steps
  PROVE  LET r == [q EXCEPT !.step = step]
         IN  /\ r \in CallState /\ r.step = step /\ r.wanted = q.wanted /\ r.previous = q.previous
             /\ r.read = q.read /\ r.seen = q.seen /\ r.lone = q.lone
  BY DEF CallState

\* The first .env: nothing has secrets it could contradict.
LEMMA CreatePreserves ==
  ASSUME NodeInv, NEW c \in Callers, Create(c)
  PROVE  NodeInv'
  <1> DEFINE q == [call[c] EXCEPT !.step = "validate"]
  <1>1. call[c] \in CallState /\ call[c].step = "create" /\ UNCHANGED <<volumes, stack, health>>
    BY DEF Create, At, NodeInv, NodeTyped
  <1>2. call[c].step \notin Idle
    BY <1>1 DEF Idle
  <1>3. CASE MayCreate
    <2>1. env' \in EnvFile /\ env = None /\ Become(c, q)
      BY <1>3 DEF Create, MayCreate, Goto, NewEnv, EnvFile
    <2>2. q \in CallState /\ q.step = "validate" /\ q.wanted = call[c].wanted /\ q.lone = call[c].lone
      BY <1>1, Moved DEF Steps
    <2>3. call[c].wanted = None
      BY <1>1 DEF NodeInv, CallsSound, Holds, Selecting
    <2>4. Holds(q, env') /\ Settles(q, env', stack', health')
      BY <2>1, <2>2, <2>3 DEF Holds, Settles, Selecting, InCompose, Verifying
    <2>5. EnvKept /\ env' \in Files /\ SecretsOpen'
      BY <1>1, <2>1, DeploymentAssumption DEF EnvKept, Files, NodeInv, SecretsOpen
    <2>6. QED
      BY <1>1, <1>2, <2>1, <2>2, <2>4, <2>5, NodeStep DEF NodeInv, NodeTyped
  <1>4. CASE ~MayCreate
    BY <1>1, <1>2, <1>4, CallFails DEF Create
  <1>5. QED
    BY <1>3, <1>4

\* A call that goes on and changes nothing of the Node but the verdict.
LEMMA CallGoes ==
  ASSUME NodeInv, NEW c \in Callers, call[c].step \notin Idle, NEW q \in CallState, Become(c, q),
         q.lone = call[c].lone, UNCHANGED <<env, volumes, stack>>,
         Holds(q, env), Settles(q, env, stack, health')
  PROVE  NodeInv'
  <1>1. stack' = stack /\ env' = env
    OBVIOUS
  <1>2. QED
    BY <1>1, NodeAsItIs, NodeStep

\* What is known of a call that is at some step.
LEMMA AtStep ==
  ASSUME NodeInv, NEW c \in Callers, NEW step \in Steps \ Idle, At(c, step)
  PROVE  /\ call[c] \in CallState /\ call[c].step = step /\ call[c].step \notin Idle
         /\ Holds(call[c], env) /\ Settles(call[c], env, stack, health)
         /\ step # "create" => env \in EnvFile /\ env \in Files
  BY DEF At, NodeInv, NodeTyped, CallsSound, Holds

\* A call that goes on with what it has.
LEMMA CallMoves ==
  ASSUME NodeInv, NEW c \in Callers, NEW from \in Steps \ Idle, At(c, from),
         NEW step \in Steps \ (Idle \cup InCompose), Goto(c, step), UNCHANGED <<env, volumes, stack>>,
         Holds([call[c] EXCEPT !.step = step], env),
         Settles([call[c] EXCEPT !.step = step], env, stack, health')
  PROVE  NodeInv'
  <1> DEFINE q == [call[c] EXCEPT !.step = step]
  <1>1. call[c] \in CallState /\ call[c].step \notin Idle
    BY AtStep
  <1>2. q \in CallState /\ q.lone = call[c].lone /\ Become(c, q)
    BY <1>1, Moved DEF Goto
  <1>3. QED
    BY <1>1, <1>2, CallGoes

\* A Compose command begins, on the .env that is there.
LEMMA CallComposes ==
  ASSUME NodeInv, NEW c \in Callers, NEW from \in Steps \ Idle, At(c, from), from # "create",
         NEW step \in InCompose, Compose(c, step),
         UNCHANGED <<env, volumes, health>>,
         stack' \in [up : Containers, runs : RunBy \cup {None}],
         step = "recreating" <=> from = "recreate",
         from \in Selecting => from = "recreate",
         step \in {"making", "converging"} => from \in Verifying
  PROVE  NodeInv'
  <1> DEFINE q == [call[c] EXCEPT !.step = step, !.seen = env]
  <1>1. /\ call[c] \in CallState /\ call[c].step = from /\ from \notin Idle
        /\ Holds(call[c], env) /\ Settles(call[c], env, stack, health)
        /\ env \in EnvFile /\ env \in Files
    BY AtStep
  <1>2. step \in Steps
    BY DEF InCompose, Steps, Verifying, Selecting
  <1>3. /\ q \in CallState /\ q.step = step /\ q.wanted = call[c].wanted
        /\ q.previous = call[c].previous /\ q.read = call[c].read /\ q.seen = env
        /\ q.lone = call[c].lone
    BY <1>1, <1>2 DEF CallState
  <1>4. Holds(q, env)
    BY <1>1, <1>3 DEF Holds, InCompose, Selecting, Idle
  <1>5. Settles(q, env, stack', health)
    BY <1>1, <1>3 DEF Settles, InCompose, Verifying, Selecting, Idle
  <1>6. EnvKept /\ SecretsOpen'
    BY DEF EnvKept, NodeInv, SecretsOpen
  <1>7. QED
    BY <1>1, <1>3, <1>4, <1>5, <1>6, NodeStep DEF Compose, NodeInv, NodeTyped

LEMMA ValidatePreserves ==
  ASSUME NodeInv, NEW c \in Callers, Validate(c)
  PROVE  NodeInv'
  <1>1. At(c, "validate") /\ "validate" \in Steps \ Idle /\ UNCHANGED <<env, volumes, stack, health>>
    BY DEF Validate, Validated, Steps, Idle
  <1>2. /\ call[c] \in CallState /\ call[c].step = "validate" /\ call[c].step \notin Idle
        /\ Holds(call[c], env)
    BY <1>1, AtStep
  <1>3. CASE Goto(c, "preflight")
    <2>1. "preflight" \in Steps \ (Idle \cup InCompose)
      BY DEF Steps, Idle, InCompose
    <2>2. /\ Holds([call[c] EXCEPT !.step = "preflight"], env)
          /\ Settles([call[c] EXCEPT !.step = "preflight"], env, stack, health')
      BY <1>2, <2>1, Moved DEF Holds, Settles, Selecting, InCompose, Verifying, Idle
    <2>3. QED
      BY <1>1, <1>3, <2>1, <2>2, CallMoves
  <1>4. CASE Become(c, Failed)
    BY <1>1, <1>2, <1>4, CallFails
  <1>5. QED
    BY <1>3, <1>4 DEF Validate, Validated

LEMMA PreflightPreserves ==
  ASSUME NodeInv, NEW c \in Callers, Preflight(c)
  PROVE  NodeInv'
  <1>1. At(c, "preflight") /\ "preflight" \in Steps \ Idle /\ UNCHANGED <<env, volumes, stack, health>>
    BY DEF Preflight, Steps, Idle
  <1>2. /\ call[c] \in CallState /\ call[c].step = "preflight" /\ call[c].step \notin Idle
        /\ Holds(call[c], env) /\ env \in EnvFile /\ env \in Files
    BY <1>1, AtStep
  <1>3. CASE Become(c, [call[c] EXCEPT !.step = "databases", !.read = env])
    <2> DEFINE q == [call[c] EXCEPT !.step = "databases", !.read = env]
    <2>1. /\ q \in CallState /\ q.step = "databases" /\ q.wanted = call[c].wanted
          /\ q.read = env /\ q.lone = call[c].lone
      BY <1>2 DEF CallState, Steps, Verifying
    <2>2. Holds(q, env) /\ Settles(q, env, stack, health')
      BY <1>2, <2>1 DEF Holds, Settles, Selecting, InCompose, Verifying, Idle
    <2>3. QED
      BY <1>1, <1>2, <1>3, <2>1, <2>2, CallGoes
  <1>4. CASE Become(c, Failed)
    BY <1>1, <1>2, <1>4, CallFails
  <1>5. QED
    BY <1>3, <1>4 DEF Preflight

LEMMA DatabasesPreserves ==
  ASSUME NodeInv, NEW c \in Callers, Databases(c)
  PROVE  NodeInv'
  <1>1. "databases" \in Steps \ Idle /\ "making" \in InCompose /\ "databases" \in Verifying
    BY DEF Steps, Idle, Verifying, InCompose
  <1>2. stack' \in [up : Containers, runs : RunBy \cup {None}]
    BY DEF Databases, NodeInv, NodeTyped
  <1>3. "databases" \notin Selecting
    BY DEF Selecting
  <1>4. QED
    BY <1>1, <1>2, <1>3, CallComposes DEF Databases

LEMMA SchemaPreserves ==
  ASSUME NodeInv, NEW c \in Callers, Schema(c)
  PROVE  NodeInv'
  <1>1. At(c, "schema") /\ "schema" \in Steps \ Idle /\ UNCHANGED <<env, volumes, health>>
    BY DEF Schema, Steps, Idle, Verifying
  <1>2. /\ call[c] \in CallState /\ call[c].step = "schema" /\ call[c].step \notin Idle
    BY <1>1, AtStep
  <1>3. stack' \in [up : Containers, runs : RunBy \cup {None}]
    BY DEF Schema, NodeInv, NodeTyped, Containers
  <1>4. CASE Compose(c, "converging")
    <2>1. "converging" \in InCompose /\ "schema" \in Verifying /\ "schema" \notin Selecting
      BY DEF InCompose, Verifying, Selecting
    <2>2. QED
      BY <1>1, <1>3, <1>4, <2>1, CallComposes
  <1>5. CASE Become(c, Failed)
    <2>1. EnvKept /\ env' \in Files /\ SecretsOpen'
      BY <1>1 DEF EnvKept, NodeInv, NodeTyped, SecretsOpen
    <2>2. QED
      BY <1>2, <1>3, <1>5, <2>1, NodeEnds
  <1>6. QED
    BY <1>4, <1>5 DEF Schema

LEMMA VerifyPreserves ==
  ASSUME NodeInv, NEW c \in Callers, Verify(c)
  PROVE  NodeInv'
  <1>1. At(c, "verify") /\ "verify" \in Steps \ Idle /\ UNCHANGED <<env, volumes, stack, health>>
    BY DEF Verify, Steps, Idle, Verifying
  <1>2. /\ call[c] \in CallState /\ call[c].step = "verify" /\ call[c].step \notin Idle
        /\ Holds(call[c], env) /\ Settles(call[c], env, stack, health) /\ env \in EnvFile /\ env \in Files
    BY <1>1, AtStep
  <1>3. CASE Become(c, [call[c] EXCEPT !.step = "contracts", !.seen = env])
    <2> DEFINE q == [call[c] EXCEPT !.step = "contracts", !.seen = env]
    <2>1. /\ q \in CallState /\ q.step = "contracts" /\ q.wanted = call[c].wanted
          /\ q.read = call[c].read /\ q.seen = env /\ q.lone = call[c].lone
      BY <1>2 DEF CallState, Steps, Verifying
    <2>2. Holds(q, env) /\ Settles(q, env, stack, health')
      BY <1>2, <2>1 DEF Holds, Settles, Selecting, InCompose, Verifying, Idle
    <2>3. QED
      BY <1>1, <1>2, <1>3, <2>1, <2>2, CallGoes
  <1>4. CASE Become(c, Failed)
    BY <1>1, <1>2, <1>4, CallFails
  <1>5. QED
    BY <1>3, <1>4 DEF Verify

LEMMA ContractsPreserves ==
  ASSUME NodeInv, NEW c \in Callers, Contracts(c)
  PROVE  NodeInv'
  <1>1. At(c, "contracts") /\ "contracts" \in Steps \ Idle
    BY DEF Contracts, Steps, Idle, Verifying
  <1>2. call[c].step \notin Idle
    BY <1>1, AtStep
  <1>3. QED
    BY <1>2, CallFails DEF Contracts

LEMMA StopPreserves ==
  ASSUME NodeInv, NEW c \in Callers, Stop(c)
  PROVE  NodeInv'
  <1>1. At(c, "stop") /\ "stop" \in Steps \ Idle /\ UNCHANGED <<env, volumes, stack, health>>
    BY DEF Stop, Validated, Steps, Idle
  <1>2. call[c].step \notin Idle
    BY <1>1, AtStep
  <1>3. CASE Compose(c, "stopping")
    <2>1. "stopping" \in InCompose /\ "stop" \notin Selecting
      BY DEF InCompose, Selecting
    <2>2. stack' \in [up : Containers, runs : RunBy \cup {None}]
      BY <1>1 DEF NodeInv, NodeTyped
    <2>3. QED
      BY <1>1, <1>3, <2>1, <2>2, CallComposes
  <1>4. CASE Become(c, Failed)
    BY <1>1, <1>2, <1>4, CallFails
  <1>5. QED
    BY <1>3, <1>4 DEF Stop, Validated

-----------------------------------------------------------------------------
(* selectModels *)

LEMMA AskSelectPreserves ==
  ASSUME NodeInv, NEW c \in Callers, NEW selection \in Selections, AskSelect(c, selection)
  PROVE  NodeInv'
  <1> DEFINE q == [Call("parse") EXCEPT !.wanted = selection, !.previous = env]
  <1>1. env \in EnvFile /\ env \in Files
    BY DEF AskSelect, NodeInv, NodeTyped, Files
  <1>2. /\ q \in CallState /\ q.step = "parse" /\ q.wanted = selection /\ q.previous = env
    BY <1>1 DEF Call, CallState, Steps, Selecting, Files
  <1>3. Holds(q, env)
    BY <1>1, <1>2 DEF Holds, Selecting, InCompose
  <1>4. QED
    BY <1>2, <1>3, NodeBegins DEF AskSelect

LEMMA ParsePreserves ==
  ASSUME NodeInv, NEW c \in Callers, Parse(c)
  PROVE  NodeInv'
  <1> DEFINE q == [call[c] EXCEPT !.step = "probe", !.read = env]
  <1>1. At(c, "parse") /\ "parse" \in Steps \ Idle /\ UNCHANGED <<env, volumes, stack, health>>
    BY DEF Parse, Steps, Idle, Selecting
  <1>2. /\ call[c] \in CallState /\ call[c].step = "parse" /\ call[c].step \notin Idle
        /\ Holds(call[c], env) /\ Settles(call[c], env, stack, health) /\ env \in EnvFile /\ env \in Files
    BY <1>1, AtStep
  <1>3. /\ q \in CallState /\ q.step = "probe" /\ q.wanted = call[c].wanted
        /\ q.previous = call[c].previous /\ q.read = env /\ q.lone = call[c].lone
    BY <1>2 DEF CallState, Steps, Selecting
  <1>4. Holds(q, env) /\ Settles(q, env, stack, health')
    BY <1>2, <1>3 DEF Holds, Settles, Selecting, InCompose, Verifying, Idle
  <1>5. QED
    BY <1>1, <1>2, <1>3, <1>4, CallGoes DEF Parse

LEMMA ProbePreserves ==
  ASSUME NodeInv, NEW c \in Callers, Probe(c)
  PROVE  NodeInv'
  <1>1. At(c, "probe") /\ "probe" \in Steps \ Idle /\ UNCHANGED <<env, volumes, stack, health>>
    BY DEF Probe, Steps, Idle, Selecting
  <1>2. /\ call[c] \in CallState /\ call[c].step = "probe" /\ call[c].step \notin Idle
        /\ Holds(call[c], env) /\ Settles(call[c], env, stack, health)
    BY <1>1, AtStep
  <1>3. CASE Connects(call[c].read, call[c].wanted) /\ Goto(c, "invalidate")
    <2>1. "invalidate" \in Steps \ (Idle \cup InCompose)
      BY DEF Steps, Selecting, Idle, InCompose
    <2>2. /\ Holds([call[c] EXCEPT !.step = "invalidate"], env)
          /\ Settles([call[c] EXCEPT !.step = "invalidate"], env, stack, health')
      BY <1>2, <1>3, <2>1, Moved DEF Holds, Settles, Selecting, InCompose, Verifying, Idle
    <2>3. QED
      BY <1>1, <1>3, <2>1, <2>2, CallMoves
  <1>4. CASE Become(c, Failed)
    BY <1>1, <1>2, <1>4, CallFails
  <1>5. QED
    BY <1>3, <1>4 DEF Probe

LEMMA InvalidatePreserves ==
  ASSUME NodeInv, NEW c \in Callers, Invalidate(c)
  PROVE  NodeInv'
  <1>1. /\ At(c, "invalidate") /\ "invalidate" \in Steps \ Idle /\ UNCHANGED <<env, volumes, stack>>
        /\ health' = None /\ Goto(c, "write") /\ "write" \in Steps \ (Idle \cup InCompose)
    BY DEF Invalidate, Forget, Steps, Idle, Selecting, InCompose
  <1>2. /\ call[c] \in CallState /\ call[c].step = "invalidate"
        /\ Holds(call[c], env) /\ Settles(call[c], env, stack, health)
    BY <1>1, AtStep
  <1>3. /\ Holds([call[c] EXCEPT !.step = "write"], env)
        /\ Settles([call[c] EXCEPT !.step = "write"], env, stack, health')
    BY <1>1, <1>2, Moved DEF Holds, Settles, Selecting, InCompose, Verifying, Idle
  <1>4. QED
    BY <1>1, <1>3, CallMoves

\* An .env whose models and keys are replaced is an .env, with the same secrets.
LEMMA ReplacedIsSound ==
  ASSUME NEW text \in EnvFile, NEW file \in EnvFile, NEW selection \in Selections,
         Connects(file, selection)
  PROVE  Replaced(text, file, selection) \in EnvFile /\ Replaced(text, file, selection).secrets = text.secrets
  <1> DEFINE wanted == selection.generation
             key    == KeyFor(file, wanted[2])
             chosen == IF wanted = Keep THEN text
                       ELSE [text EXCEPT !.model = wanted[1], !.key = key,
                                         !.direct = IF key = Bridge THEN @ ELSE key]
  <1>1. chosen \in EnvFile /\ chosen.secrets = text.secrets
    <2>1. CASE wanted = Keep
      BY <2>1
    <2>2. CASE wanted # Keep
      <3>1. wanted \in Models \X (Keys \cup {Bridge, Keep, Clear})
        BY <2>2 DEF Selections
      <3>2. key \in Keys \cup {NoKey, Bridge}
        BY <2>2, <3>1, DeploymentAssumption DEF Connects, KeyFor, EnvFile
      <3>3. wanted[1] \in Models
        BY <3>1
      <3> DEFINE direct == IF key = Bridge THEN text.direct ELSE key
      <3>4. direct \in Keys \cup {NoKey, None}
        BY <3>2 DEF EnvFile
      <3> HIDE DEF key, wanted, direct
      <3>5. chosen = [text EXCEPT !.model = wanted[1], !.key = key, !.direct = direct]
        BY <2>2 DEF direct, chosen
      <3>6. QED
        BY <3>2, <3>3, <3>4, <3>5 DEF EnvFile
    <2>3. QED
      BY <2>1, <2>2
  <1> DEFINE embedding == IF selection.embedding = Keep THEN chosen.embedding ELSE selection.embedding
  <1>2. embedding \in Embeddings
    BY <1>1 DEF Selections, EnvFile
  <1>3. Replaced(text, file, selection) = [chosen EXCEPT !.embedding = embedding]
    BY DEF Replaced
  <1> HIDE DEF chosen, embedding
  <1>4. QED
    BY <1>1, <1>2, <1>3 DEF EnvFile

LEMMA WritePreserves ==
  ASSUME NodeInv, NEW c \in Callers, Write(c)
  PROVE  NodeInv'
  <1> DEFINE q == [call[c] EXCEPT !.step = "check", !.read = None]
  <1>1. /\ At(c, "write") /\ "write" \in Steps \ Idle /\ UNCHANGED <<volumes, stack, health>>
        /\ env' = Replaced(call[c].previous, call[c].read, call[c].wanted) /\ Become(c, q)
    BY DEF Write, Steps, Idle, Selecting
  <1>2. /\ call[c] \in CallState /\ call[c].step = "write" /\ call[c].step \notin Idle
        /\ Holds(call[c], env) /\ Settles(call[c], env, stack, health) /\ env \in EnvFile
    BY <1>1, AtStep
  <1>3. /\ call[c].previous \in EnvFile /\ call[c].read \in EnvFile /\ call[c].wanted \in Selections
        /\ Connects(call[c].read, call[c].wanted) /\ call[c].previous.secrets = env.secrets
    BY <1>2 DEF Holds, Selecting
  <1>4. env' \in EnvFile /\ env'.secrets = env.secrets
    BY <1>1, <1>3, ReplacedIsSound
  <1>5. /\ q \in CallState /\ q.step = "check" /\ q.wanted = call[c].wanted
        /\ q.previous = call[c].previous /\ q.lone = call[c].lone
    BY <1>2 DEF CallState, Steps, Selecting, Files
  <1>6. Holds(q, env')
    BY <1>3, <1>4, <1>5 DEF Holds, Selecting, InCompose
  <1>7. Settles(q, env', stack', health')
    BY <1>1, <1>2, <1>5 DEF Settles, Verifying, Idle
  <1>8. EnvKept /\ env' \in Files /\ SecretsOpen'
    BY <1>1, <1>2, <1>4, DeploymentAssumption DEF EnvKept, Files, NodeInv, SecretsOpen
  <1>9. QED
    BY <1>1, <1>2, <1>5, <1>6, <1>7, <1>8, NodeStep DEF NodeInv, NodeTyped

\* The catch of selectModels, out of Compose or not.
LEMMA UndoPreserves ==
  ASSUME NodeInv, NEW c \in Callers, NEW from \in {"check", "recreating"}, At(c, from), Undo(c),
         UNCHANGED env, SecretsOpen', stack' \in [up : Containers, runs : RunBy \cup {None}]
  PROVE  NodeInv'
  <1> DEFINE q == [call[c] EXCEPT !.step = "rollback", !.seen = None]
  <1>1. /\ call[c] \in CallState /\ call[c].step = from /\ call[c].step \notin Idle
        /\ Holds(call[c], env) /\ env \in EnvFile /\ env \in Files
    BY AtStep DEF Steps, Selecting, Idle
  <1>2. /\ q \in CallState /\ q.step = "rollback" /\ q.wanted = call[c].wanted
        /\ q.previous = call[c].previous /\ q.lone = call[c].lone
    BY <1>1 DEF CallState, Steps, Selecting, Files
  <1>3. Holds(q, env') /\ Settles(q, env', stack', health')
    BY <1>1, <1>2 DEF Holds, Settles, Selecting, InCompose, Verifying, Idle
  <1>4. QED
    BY <1>1, <1>2, <1>3, NodeStep DEF EnvKept, Undo

LEMMA CheckPreserves ==
  ASSUME NodeInv, NEW c \in Callers, Check(c)
  PROVE  NodeInv'
  <1>1. At(c, "check") /\ "check" \in Steps \ Idle /\ UNCHANGED <<env, volumes, stack, health>>
    BY DEF Check, Steps, Idle, Selecting
  <1>2. CASE Goto(c, "recreate")
    <2>1. "recreate" \in Steps \ (Idle \cup InCompose)
      BY DEF Steps, Selecting, Idle, InCompose
    <2>2. /\ call[c] \in CallState /\ call[c].step = "check"
          /\ Holds(call[c], env) /\ Settles(call[c], env, stack, health)
      BY <1>1, AtStep
    <2>3. /\ Holds([call[c] EXCEPT !.step = "recreate"], env)
          /\ Settles([call[c] EXCEPT !.step = "recreate"], env, stack, health')
      BY <1>1, <2>1, <2>2, Moved DEF Holds, Settles, Selecting, InCompose, Verifying, Idle
    <2>4. QED
      BY <1>1, <1>2, <2>1, <2>3, CallMoves
  <1>3. CASE Undo(c)
    BY <1>1, <1>3, UndoPreserves, NodeAsItIs
  <1>4. QED
    BY <1>2, <1>3 DEF Check

LEMMA RecreatePreserves ==
  ASSUME NodeInv, NEW c \in Callers, Recreate(c)
  PROVE  NodeInv'
  <1>1. "recreate" \in Steps \ Idle /\ "recreating" \in InCompose
    BY DEF Steps, Idle, Selecting, InCompose
  <1>2. stack' \in [up : Containers, runs : RunBy \cup {None}]
    BY DEF Recreate, NodeInv, NodeTyped
  <1>3. QED
    BY <1>1, <1>2, CallComposes DEF Recreate

LEMMA RollbackPreserves ==
  ASSUME NodeInv, NEW c \in Callers, Rollback(c)
  PROVE  NodeInv'
  <1> DEFINE q == [call[c] EXCEPT !.step = "forget"]
  <1>1. /\ At(c, "rollback") /\ "rollback" \in Steps \ Idle /\ UNCHANGED <<volumes, stack, health>>
        /\ env' = call[c].previous /\ Become(c, q)
    BY DEF Rollback, Goto, Steps, Idle, Selecting
  <1>2. /\ call[c] \in CallState /\ call[c].step = "rollback" /\ call[c].step \notin Idle
        /\ Holds(call[c], env) /\ env \in EnvFile
    BY <1>1, AtStep
  <1>3. env' \in EnvFile /\ env'.secrets = env.secrets
    BY <1>1, <1>2 DEF Holds, Selecting
  <1>4. /\ q \in CallState /\ q.step = "forget" /\ q.wanted = call[c].wanted
        /\ q.previous = call[c].previous /\ q.lone = call[c].lone
    BY <1>2, Moved DEF Steps, Selecting
  <1>5. Holds(q, env') /\ Settles(q, env', stack', health')
    BY <1>1, <1>2, <1>3, <1>4 DEF Holds, Settles, Selecting, InCompose, Verifying
  <1>6. EnvKept /\ env' \in Files /\ SecretsOpen'
    BY <1>1, <1>2, <1>3, DeploymentAssumption DEF EnvKept, Files, NodeInv, SecretsOpen
  <1>7. QED
    BY <1>1, <1>2, <1>4, <1>5, <1>6, NodeStep DEF NodeInv, NodeTyped

LEMMA ForgetAgainPreserves ==
  ASSUME NodeInv, NEW c \in Callers, ForgetAgain(c)
  PROVE  NodeInv'
  <1>1. At(c, "forget") /\ "forget" \in Steps \ Idle
    BY DEF ForgetAgain, Steps, Idle, Selecting
  <1>2. call[c].step \notin Idle
    BY <1>1, AtStep
  <1>3. QED
    BY <1>2, CallFails DEF ForgetAgain, Forget

-----------------------------------------------------------------------------
(* Compose, and deaths *)

\* What a command that is under way knows, and what it makes of the Node.
LEMMA InComposeSound ==
  ASSUME NodeInv, NEW c \in Callers, call[c].step \in InCompose
  PROVE  /\ call[c] \in CallState /\ call[c].step \notin Idle
         /\ Holds(call[c], env) /\ Settles(call[c], env, stack, health)
         /\ env \in EnvFile /\ call[c].seen \in EnvFile /\ call[c].seen.secrets = env.secrets
         /\ Target(c) \in [up : Containers, runs : RunBy \cup {None}]
         /\ env # None /\ (volumes # None => env.secrets = volumes)
         /\ Initialised(c) # None => env.secrets = Initialised(c)
  <1>1. /\ call[c] \in CallState /\ call[c].step \notin Idle \cup {"create"}
        /\ Holds(call[c], env) /\ Settles(call[c], env, stack, health)
    BY DEF NodeInv, NodeTyped, CallsSound, InCompose, Idle
  <1>2. env \in EnvFile /\ call[c].seen \in EnvFile /\ call[c].seen.secrets = env.secrets
    BY <1>1 DEF Holds
  <1>3. env # None
    BY <1>2, DeploymentAssumption
  <1>4. RunsOn(c) \in RunBy
    BY <1>2 DEF RunsOn, Settings, EnvFile, RunBy
  <1>5. Target(c) \in [up : Containers, runs : RunBy \cup {None}]
    <2>1. \A up \in Containers, runs \in RunBy \cup {None} :
             [stack EXCEPT !.up = up] \in [up : Containers, runs : RunBy \cup {None}]
      BY DEF NodeInv, NodeTyped
    <2>2. stack.up \in Containers
      BY DEF NodeInv, NodeTyped
    <2>3. QED
      BY <1>4, <2>1, <2>2 DEF Target, NodeInv, NodeTyped, Containers
  <1>6. (volumes # None => env.secrets = volumes)
    BY DEF NodeInv, SecretsOpen
  <1>7. QED
    BY <1>1, <1>2, <1>3, <1>5, <1>6 DEF Initialised

\* A command that ends without an error, or with one that comes too late.
LEMMA OnwardPreserves ==
  ASSUME NodeInv, NEW c \in Callers, At(c, "making") \/ At(c, "converging") \/ At(c, "stopping"),
         NEW step \in {"schema", "verify", "validate"},
         step = "schema" => call[c].step = "making",
         step = "verify" => call[c].step = "converging" /\ stack' = Target(c),
         Become(c, [call[c] EXCEPT !.step = step, !.seen = None]),
         UNCHANGED <<env, health>>, SecretsOpen',
         stack' \in [up : Containers, runs : RunBy \cup {None}]
  PROVE  NodeInv'
  <1> DEFINE q == [call[c] EXCEPT !.step = step, !.seen = None]
  <1>1. /\ call[c] \in CallState /\ call[c].step \notin Idle /\ call[c].step \in {"making", "converging", "stopping"}
        /\ Holds(call[c], env) /\ Settles(call[c], env, stack, health) /\ env \in EnvFile
    BY InComposeSound DEF At, InCompose
  <1>2. /\ q \in CallState /\ q.step = step /\ q.wanted = call[c].wanted
        /\ q.read = call[c].read /\ q.lone = call[c].lone
    BY <1>1 DEF CallState, Steps, Verifying, Files
  <1>3. Holds(q, env)
    BY <1>1, <1>2 DEF Holds, Selecting, InCompose, Idle
  <1>4. Settles(q, env, stack', health')
    BY <1>1, <1>2 DEF Settles, Target, RunsOn, Verifying, Selecting, Idle
  <1>5. EnvKept /\ env' \in Files
    BY DEF EnvKept, NodeInv, NodeTyped
  <1>6. QED
    BY <1>1, <1>2, <1>3, <1>4, <1>5, NodeStep

LEMMA ComposeEndsPreserves ==
  ASSUME NodeInv, NEW c \in Callers, ComposeEnds(c)
  PROVE  NodeInv'
  <1>1. /\ call[c].step \in InCompose /\ UNCHANGED <<env, health>>
        /\ stack' = Target(c) /\ volumes' = Initialised(c)
    BY DEF ComposeEnds
  <1>2. call[c].step \notin Idle /\ stack' \in [up : Containers, runs : RunBy \cup {None}] /\ SecretsOpen'
    BY <1>1, InComposeSound DEF SecretsOpen
  <1>3. EnvKept /\ env' \in Files
    BY <1>1 DEF EnvKept, NodeInv, NodeTyped
  <1>4. CASE \E q \in {Done, Failed, Died} : Become(c, q)
    BY <1>2, <1>3, <1>4, NodeEnds
  <1>5. CASE ~call[c].dead /\ ~\E q \in {Done, Failed, Died} : Become(c, q)
    <2>1. Onward(c)
      BY <1>5 DEF ComposeEnds
    <2>2. \/ call[c].step = "making" /\ Become(c, [call[c] EXCEPT !.step = "schema", !.seen = None])
          \/ call[c].step = "converging" /\ Become(c, [call[c] EXCEPT !.step = "verify", !.seen = None])
          \/ call[c].step = "stopping" /\ Become(c, [call[c] EXCEPT !.step = "validate", !.seen = None])
      BY <1>5, <2>1 DEF Onward
    <2>3. QED
      BY <1>1, <1>2, <1>5, <2>2, OnwardPreserves DEF At
  <1>6. QED
    BY <1>4, <1>5 DEF ComposeEnds

LEMMA ComposeFailsPreserves ==
  ASSUME NodeInv, NEW c \in Callers, ComposeFails(c)
  PROVE  NodeInv'
  <1>1. /\ call[c].step \in InCompose /\ UNCHANGED <<env, health>>
        /\ stack' \in {stack, Target(c)} /\ volumes' \in {volumes, Initialised(c)}
    BY DEF ComposeFails
  <1>2. call[c].step \notin Idle /\ stack' \in [up : Containers, runs : RunBy \cup {None}] /\ SecretsOpen'
    BY <1>1, InComposeSound DEF SecretsOpen, NodeInv, NodeTyped
  <1>3. EnvKept /\ env' \in Files
    BY <1>1 DEF EnvKept, NodeInv, NodeTyped
  <1>4. CASE \E q \in {Done, Failed, Died} : Become(c, q)
    BY <1>2, <1>3, <1>4, NodeEnds
  <1>5. CASE At(c, "recreating") /\ Undo(c)
    BY <1>1, <1>2, <1>5, UndoPreserves
  <1>6. QED
    BY <1>4, <1>5 DEF ComposeFails

LEMMA DiePreserves ==
  ASSUME NodeInv, NEW c \in Callers, Die(c)
  PROVE  NodeInv'
  <1>1. call[c] \in CallState /\ call[c].step \notin Idle /\ UNCHANGED <<env, volumes, stack, health>>
    BY DEF Die, Free, Idle, NodeInv, NodeTyped
  <1>2. CASE call[c].step \in InCompose
    <2> DEFINE q == [call[c] EXCEPT !.dead = TRUE]
    <2>1. /\ q \in CallState /\ q.step = call[c].step /\ q.wanted = call[c].wanted
          /\ q.previous = call[c].previous /\ q.read = call[c].read /\ q.seen = call[c].seen
          /\ q.lone = call[c].lone
      BY <1>1 DEF CallState
    <2>2. Holds(q, env) /\ Settles(q, env, stack, health')
      BY <1>1, <2>1 DEF NodeInv, CallsSound, Holds, Settles
    <2>3. Become(c, q)
      BY <1>2 DEF Die
    <2>4. QED
      BY <1>1, <2>1, <2>2, <2>3, CallGoes
  <1>3. CASE call[c].step \notin InCompose
    BY <1>1, <1>3, CallFails DEF Die
  <1>4. QED
    BY <1>2, <1>3

LEMMA ProgressPreserves ==
  ASSUME NodeInv, NEW c \in Callers, Progress(c)
  PROVE  NodeInv'
  <1>1. CASE Create(c) \/ Validate(c) \/ Preflight(c) \/ Databases(c) \/ Schema(c) \/ Verify(c)
             \/ Contracts(c) \/ Stop(c)
    BY <1>1, CreatePreserves, ValidatePreserves, PreflightPreserves, DatabasesPreserves,
       SchemaPreserves, VerifyPreserves, ContractsPreserves, StopPreserves
  <1>2. CASE Parse(c) \/ Probe(c) \/ Invalidate(c) \/ Write(c) \/ Check(c) \/ Recreate(c)
             \/ Rollback(c) \/ ForgetAgain(c)
    BY <1>2, ParsePreserves, ProbePreserves, InvalidatePreserves, WritePreserves, CheckPreserves,
       RecreatePreserves, RollbackPreserves, ForgetAgainPreserves
  <1>3. CASE ComposeEnds(c) \/ ComposeFails(c) \/ Die(c)
    BY <1>3, ComposeEndsPreserves, ComposeFailsPreserves, DiePreserves
  <1>4. QED
    BY <1>1, <1>2, <1>3 DEF Progress

LEMMA NodeRests ==
  ASSUME NodeInv, UNCHANGED deployment
  PROVE  NodeInv'
  BY DEF deployment, NodeInv, NodeTyped, SecretsOpen, CallsSound, Alone

-----------------------------------------------------------------------------
(* The card. *)

LEMMA UntouchedIsADraft ==
  ASSUME NEW model \in Models, NEW source \in {"codex", "api"}, NEW hasKey \in BOOLEAN
  PROVE  Untouched(model, source, hasKey) \in Drafts
  BY DEF Untouched, Drafts

LEMMA SourceTyped == \A draft : Source(draft) \in {"codex", "api"}
  BY DEF Source

LEMMA NoProbeTyped ==
  /\ NoProbe \in [epoch : 0 .. MaxEpoch, state : {"idle", "probing", "compatible", "refused"},
                  source : {"none", "codex", "api"}, of : Drafts \cup {Keep}]
  /\ NoProbe.source = "none" /\ NoProbe.epoch = 0
  /\ \A n \in 0 .. MaxEpoch :
        LET r == [NoProbe EXCEPT !.epoch = n]
        IN  /\ r \in [epoch : 0 .. MaxEpoch, state : {"idle", "probing", "compatible", "refused"},
                      source : {"none", "codex", "api"}, of : Drafts \cup {Keep}]
            /\ r.source = "none" /\ r.epoch = n
  BY ModelPanelAssumption DEF NoProbe

LEMMA MountPreserves ==
  ASSUME Inv, Mount \/ Leave
  PROVE  CardInv'
  <1>1. CASE Mount
    <2>1. env \in EnvFile
      BY <1>1 DEF Mount, Inv, NodeInv, NodeTyped, Files
    <2>2. env.model \in Models /\ keyed' \in BOOLEAN
      BY <1>1, <2>1 DEF Mount, EnvFile
    <2>3. saved' \in Drafts /\ form' = saved' /\ UNCHANGED <<probe, asked, dialog, busy>>
      BY <1>1, <2>2, UntouchedIsADraft DEF Mount
    <2>4. saved' # Keep
      BY <2>3, ModelPanelAssumption
    <2>5. QED
      BY <1>1, <2>2, <2>3, <2>4 DEF Mount, Inv, CardInv, CardTyped, ProbesSound
  <1>2. CASE Leave
    BY <1>2, NoProbeTyped DEF Leave, CardInv, CardTyped, ProbesSound
  <1>3. QED
    BY <1>1, <1>2

LEMMA EditPreserves ==
  ASSUME CardInv, NEW draft \in Drafts, Edit(draft)
  PROVE  CardInv'
  <1>1. probe.epoch + 1 \in 0 .. MaxEpoch /\ probe.epoch \in 0 .. MaxEpoch
    BY ModelPanelAssumption DEF Edit, CardInv, CardTyped
  <1>2. probe'.source = "none" /\ probe'.epoch = probe.epoch + 1
        /\ probe' \in [epoch : 0 .. MaxEpoch, state : {"idle", "probing", "compatible", "refused"},
                       source : {"none", "codex", "api"}, of : Drafts \cup {Keep}]
    BY <1>1, NoProbeTyped DEF Edit
  <1>3. draft # Keep /\ saved # Keep
    BY ModelPanelAssumption DEF Edit, Enabled
  <1>4. \A q \in asked : q.epoch \in 0 .. MaxEpoch
    BY DEF CardInv, CardTyped
  <1>5. \A q \in asked' : q.epoch <= probe'.epoch
    BY <1>1, <1>2, <1>4 DEF Edit, CardInv, CardTyped
  <1>6. QED
    BY <1>2, <1>3, <1>5 DEF Edit, CardInv, CardTyped, ProbesSound

\* The new probe is the one probe of its epoch.
LEMMA AskProbePreserves ==
  ASSUME CardInv, AskProbe
  PROVE  CardInv'
  <1> DEFINE request == [epoch |-> probe.epoch + 1, input |-> form]
  <1>1. probe.epoch + 1 \in 0 .. MaxEpoch /\ probe.epoch \in 0 .. MaxEpoch
    BY ModelPanelAssumption DEF AskProbe, CardInv, CardTyped
  <1>2. form \in Drafts /\ saved # Keep
    BY DEF AskProbe, Enabled, CardInv, CardTyped
  <1>3. /\ probe' \in [epoch : 0 .. MaxEpoch, state : {"idle", "probing", "compatible", "refused"},
                       source : {"none", "codex", "api"}, of : Drafts \cup {Keep}]
        /\ probe'.epoch = probe.epoch + 1 /\ probe'.state = "probing"
    BY <1>1, SourceTyped DEF AskProbe
  <1>4. \A q \in asked : q.epoch \in 0 .. MaxEpoch /\ q.epoch <= probe.epoch
    BY DEF CardInv, CardTyped
  <1>5. asked' = asked \cup {request} /\ UNCHANGED <<saved, keyed, form, dialog, busy>>
    BY DEF AskProbe
  <1>6. \A q \in asked' : q.epoch <= probe'.epoch /\ (q.epoch = probe'.epoch => q.input = form')
    BY <1>1, <1>3, <1>4, <1>5
  <1>7. request \in [epoch : 0 .. MaxEpoch, input : Drafts]
    BY <1>1, <1>2
  <1>8. QED
    BY <1>2, <1>3, <1>5, <1>6, <1>7 DEF CardInv, CardTyped, ProbesSound

LEMMA ProbeAnsweredPreserves ==
  ASSUME CardInv, NEW request \in asked, NEW outcome \in {"compatible", "refused"},
         ProbeAnswered(request, outcome)
  PROVE  CardInv'
  <1>1. asked' = asked \ {request} /\ UNCHANGED <<saved, keyed, form, dialog, busy>>
    BY DEF ProbeAnswered
  <1>2. request.input \in Drafts
    BY DEF CardInv, CardTyped
  <1>3. CASE Current(request)
    <2>1. probe' = [probe EXCEPT !.state = outcome, !.of = request.input]
      BY <1>3 DEF ProbeAnswered
    <2>2. /\ probe' \in [epoch : 0 .. MaxEpoch, state : {"idle", "probing", "compatible", "refused"},
                         source : {"none", "codex", "api"}, of : Drafts \cup {Keep}]
          /\ probe'.epoch = probe.epoch /\ probe'.source = probe.source /\ probe'.of = request.input
      BY <1>2, <2>1 DEF CardInv, CardTyped
    <2>3. probe.source # "none" => request.input = form
      BY <1>3 DEF Current, CardInv, ProbesSound
    <2>4. QED
      BY <1>1, <2>2, <2>3 DEF CardInv, CardTyped, ProbesSound
  <1>4. CASE ~Current(request)
    <2>1. probe' = probe
      BY <1>4 DEF ProbeAnswered
    <2>2. QED
      BY <1>1, <2>1 DEF CardInv, CardTyped, ProbesSound
  <1>5. QED
    BY <1>3, <1>4

LEMMA DialogPreserves ==
  ASSUME CardInv, Submit \/ Cancel \/ NotApplied
  PROVE  CardInv'
  BY DEF Submit, Cancel, NotApplied, Enabled, CardInv, CardTyped, ProbesSound

\* Once applied, the probe has no source: nothing of this epoch counts again.
LEMMA AppliedPreserves ==
  ASSUME CardInv, Applied
  PROVE  CardInv'
  <1>1. form \in Drafts /\ saved # Keep
    BY DEF Applied, CardInv, CardTyped
  <1>2. form[1] \in Models
    BY <1>1 DEF Drafts
  <1>3. keyed' \in BOOLEAN
    BY DEF Applied, CardInv, CardTyped
  <1>4. saved' \in Drafts /\ form' = saved'
    BY <1>2, <1>3, SourceTyped, UntouchedIsADraft DEF Applied
  <1>5. saved' # Keep
    BY <1>4, ModelPanelAssumption
  <1>6. /\ probe'.source = "none" /\ probe'.epoch = probe.epoch
        /\ probe' \in [epoch : 0 .. MaxEpoch, state : {"idle", "probing", "compatible", "refused"},
                       source : {"none", "codex", "api"}, of : Drafts \cup {Keep}]
    BY NoProbeTyped DEF Applied, CardInv, CardTyped
  <1>7. QED
    BY <1>3, <1>4, <1>5, <1>6 DEF Applied, CardInv, CardTyped, ProbesSound

LEMMA ApplyPreserves ==
  ASSUME Inv, NEW embedding \in Embeddings \cup {Keep}, Apply(embedding)
  PROVE  NodeInv' /\ CardInv'
  <1> DEFINE selection == [embedding |-> embedding, generation |-> Wanted]
  <1>1. /\ dialog /\ AskSelect(Page, selection) /\ Page \in Callers
        /\ UNCHANGED <<saved, keyed, form, probe, asked>>
    BY ModelPanelAssumption DEF Apply
  <1>2. saved # Keep /\ form \in Drafts
    BY <1>1 DEF Inv, CardInv, CardTyped
  <1>3. selection \in Selections
    BY <1>2 DEF Selections, Wanted, Drafts, Apply
  <1>4. NodeInv'
    BY <1>1, <1>3, AskSelectPreserves DEF Inv
  <1>5. CardInv'
    BY <1>1, <1>2 DEF Apply, Inv, CardInv, CardTyped, ProbesSound
  <1>6. QED
    BY <1>4, <1>5

LEMMA CardRests ==
  ASSUME CardInv, UNCHANGED card
  PROVE  CardInv'
  BY DEF card, CardInv, CardTyped, ProbesSound

-----------------------------------------------------------------------------
LEMMA InitEstablishes == Init => Inv
  <1> SUFFICES ASSUME Init PROVE Inv
    OBVIOUS
  <1>1. NodeInv
    <2>1. \A c \in Callers : call[c] = Done
      BY DEF Init, InitDeployment
    <2>2. Done.step \in Idle /\ Done.wanted = None
      BY AnswersTyped DEF Idle
    <2>3. NodeTyped
      BY AnswersTyped DEF Init, InitDeployment, NodeTyped, Files, Containers
    <2>4. CallsSound
      BY <2>1, <2>2 DEF CallsSound, Holds, Settles, Alone, Idle, Selecting, InCompose
    <2>5. QED
      BY <2>3, <2>4 DEF NodeInv, SecretsOpen, Init, InitDeployment
  <1>2. CardInv
    BY NoProbeTyped DEF Init, CardInv, CardTyped, ProbesSound
  <1>3. QED
    BY <1>1, <1>2 DEF Inv

LEMMA NextPreserves ==
  ASSUME Inv, [Next]_vars
  PROVE  Inv'
  <1>1. CASE CardNext
    <2>1. CASE \E embedding \in Embeddings \cup {Keep} : Apply(embedding)
      BY <2>1, ApplyPreserves DEF Inv
    <2>2. CASE ~\E embedding \in Embeddings \cup {Keep} : Apply(embedding)
      <3>1. CardInv'
        BY <1>1, <2>2, MountPreserves, EditPreserves, AskProbePreserves, ProbeAnsweredPreserves,
           DialogPreserves, AppliedPreserves DEF CardNext, Inv
      <3>2. UNCHANGED deployment
        BY <1>1, <2>2 DEF CardNext, Mount, Leave, AskProbe, Submit, Cancel, Applied, NotApplied, Edit,
                          ProbeAnswered
      <3>3. QED
        BY <3>1, <3>2, NodeRests DEF Inv
    <2>3. QED
      BY <2>1, <2>2
  <1>2. CASE NodeNext
    <2>1. NodeInv'
      BY <1>2, ProgressPreserves, AskPreserves, AskSelectPreserves DEF NodeNext, Inv
    <2>2. CardInv'
      BY <1>2, CardRests DEF NodeNext, Inv
    <2>3. QED
      BY <2>1, <2>2 DEF Inv
  <1>3. CASE UNCHANGED vars
    BY <1>3, NodeRests, CardRests DEF vars, Inv
  <1>4. QED
    BY <1>1, <1>2, <1>3 DEF Next

LEMMA InvHolds == Spec => []Inv
  BY InitEstablishes, NextPreserves, PTL DEF Spec

\* Every variable has its type.
THEOREM TypeCorrect == Spec => []TypeOK
  <1>1. Inv => TypeOK
    BY DEF Inv, NodeInv, NodeTyped, Files, RunBy, Containers, CardInv, CardTyped, TypeOK
  <1>2. QED
    BY <1>1, InvHolds, PTL

\* However many first starts, selections, failures and deaths overlap, the
\* secrets in .env are those the databases were initialised with.
THEOREM SecretsAlwaysOpen == Spec => []SecretsOpen
  <1>1. Inv => SecretsOpen
    BY DEF Inv, NodeInv
  <1>2. QED
    BY <1>1, InvHolds, PTL

\* Whatever the operator edits behind or before the dialog, and in whatever
\* order probes and applications are answered, a probe that counts is about the
\* form.
THEOREM CountedProbesFit == Spec => []CountedProbeFits
  <1>1. Inv => CountedProbeFits
    BY SourceTyped DEF Inv, CardInv, ProbesSound, CountedProbeFits, ProbeCounts
  <1>2. QED
    BY <1>1, InvHolds, PTL

-----------------------------------------------------------------------------
(* What a call that was alone leaves behind. *)

LEMMA ProgressIsOfOne ==
  ASSUME NEW c \in Callers, Progress(c)
  PROVE  \E q : Become(c, q)
  <1>1. CASE Create(c) \/ Validate(c) \/ Preflight(c) \/ Databases(c) \/ Schema(c) \/ Verify(c)
             \/ Contracts(c) \/ Stop(c)
    BY <1>1 DEF Create, Validate, Validated, Preflight, Databases, Schema, Verify, Contracts, Stop,
                Goto, Compose
  <1>2. CASE Parse(c) \/ Probe(c) \/ Invalidate(c) \/ Write(c) \/ Check(c) \/ Recreate(c)
             \/ Rollback(c) \/ ForgetAgain(c)
    BY <1>2 DEF Parse, Probe, Invalidate, Write, Check, Recreate, Rollback, ForgetAgain, Forget, Goto,
                Compose, Undo
  <1>3. CASE ComposeEnds(c) \/ ComposeFails(c)
    BY <1>3 DEF ComposeEnds, ComposeFails, Onward, Undo
  <1>4. CASE Die(c)
    BY <1>4 DEF Die
  <1>5. QED
    BY <1>1, <1>2, <1>3, <1>4 DEF Progress

\* A call under way changes its step by its own doing alone.
LEMMA StepsAreItsOwn ==
  ASSUME Inv, [Next]_vars, NEW c \in Callers, call[c].step \notin Idle, call'[c].step # call[c].step
  PROVE  Progress(c)
  <1>1. ASSUME NEW d \in Callers, NEW q, Free(d), Begin(d, q) PROVE FALSE
    <2>1. call[c] \in CallState /\ d # c
      BY <1>1 DEF Inv, NodeInv, NodeTyped, Free, Idle
    <2>2. call'[c] \in {call[c], [call[c] EXCEPT !.lone = FALSE]}
      BY <1>1, <2>1 DEF Begin
    <2>3. QED
      BY <2>1, <2>2 DEF CallState
  <1>2. ASSUME NEW d \in Callers, Progress(d), d # c PROVE FALSE
    BY <1>2, ProgressIsOfOne DEF Become, Inv, NodeInv, NodeTyped
  <1>3. CASE NodeNext
    BY <1>1, <1>2, <1>3 DEF NodeNext, Operate, AskStart, AskStop, AskSelect
  <1>4. CASE CardNext
    <2>1. UNCHANGED call \/ \E embedding \in Embeddings \cup {Keep} : Apply(embedding)
      BY <1>4 DEF CardNext, Mount, Leave, AskProbe, Submit, Cancel, Applied, NotApplied, Edit,
                  ProbeAnswered, deployment
    <2>2. QED
      BY <1>1, <2>1, ModelPanelAssumption DEF Apply, AskSelect
  <1>5. CASE UNCHANGED vars
    BY <1>5 DEF vars, deployment
  <1>6. QED
    BY <1>3, <1>4, <1>5 DEF Next

\* Whatever failed, died or overlapped before: a start that nothing overlaps and
\* that returns leaves the containers on what .env says, and the verdict on both.
THEOREM StartsAlwaysSettle == Spec => LoneStartSettles
  <1>1. ASSUME Inv, [Next]_vars, NEW c \in Callers, At(c, "contracts"), call[c].lone, call'[c] = Done
        PROVE  /\ stack'.up = "all" /\ stack'.runs = Settings(env')
               /\ health' = [fingerprint |-> Fingerprint(env'), of |-> Names(env')]
    <2>1. /\ call[c].step = "contracts" /\ call[c].step \notin Idle
          /\ Settles(call[c], env, stack, health)
      BY <1>1, AtStep DEF Inv, Steps, Idle, Verifying
    <2>2. /\ call[c].read = env /\ call[c].seen = env
          /\ stack = [up |-> "all", runs |-> Settings(env)]
      BY <1>1, <2>1 DEF Settles, Verifying, Idle
    <2>3. Progress(c)
      BY <1>1, <2>1, StepsAreItsOwn, AnswersTyped
    <2>4. ~Die(c)
      BY <1>1, <2>1, AnswersTyped DEF Die, Become, Inv, NodeInv, NodeTyped, InCompose
    <2>5. Contracts(c)
      BY <2>1, <2>3, <2>4 DEF Progress, At, Create, Validate, Preflight, Databases, Schema, Verify, Stop,
         Parse, Probe, Invalidate, Write, Check, Recreate, Rollback, ForgetAgain, ComposeEnds,
         ComposeFails, InCompose
    <2>6. QED
      BY <2>2, <2>5 DEF Contracts
  <1>2. Inv /\ [Next]_vars =>
          [\A c \in Callers : At(c, "contracts") /\ call[c].lone /\ call'[c] = Done =>
              /\ stack'.up = "all" /\ stack'.runs = Settings(env')
              /\ health' = [fingerprint |-> Fingerprint(env'), of |-> Names(env')]]_deployment
    BY <1>1
  <1>3. QED
    BY <1>2, InvHolds, PTL DEF Spec, LoneStartSettles

\* Whatever is selected and whatever refuses it, validateConfig, Compose or a
\* provider: .env becomes what was asked for, and is run, or stays what it was.
THEOREM SelectionsAreAllOrNothing == Spec => LoneSelectionIsAllOrNothing
  <1>1. ASSUME Inv, [Next]_vars, NEW c \in Callers, call[c].wanted # None, call[c].lone
        PROVE  /\ call'[c] = Done =>
                    /\ env' = Replaced(call[c].previous, call[c].previous, call[c].wanted)
                    /\ stack'.runs = Settings(env') /\ health' = None
               /\ call'[c] = Failed => env' = call[c].previous
    <2>1. /\ call[c] \in CallState /\ call[c].step \in Selecting
          /\ Settles(call[c], env, stack, health)
      BY <1>1 DEF Inv, NodeInv, NodeTyped, CallsSound, Holds
    <2>2. call[c].step \notin Idle
      BY <2>1 DEF Selecting, Idle
    <2>3. ASSUME call'[c] \in {Done, Failed} PROVE Progress(c)
      BY <1>1, <2>2, <2>3, StepsAreItsOwn, AnswersTyped DEF Idle
    <2>4. \A q : Become(c, q) => call'[c] = q
      BY <1>1 DEF Become, Inv, NodeInv, NodeTyped
    <2>5. Done.step = "done" /\ Failed.step = "failed" /\ Died.step = "died"
      BY AnswersTyped
    <2>6. \A step : Goto(c, step) => call'[c].step = step
      BY <2>1, <2>4 DEF Goto, CallState
    <2>7. Undo(c) => call'[c].step = "rollback"
      BY <2>1, <2>4 DEF Undo, CallState
    <2>8. \A step : Compose(c, step) => call'[c].step = step
      BY <2>1, <2>4 DEF Compose, CallState
    <2>9. Parse(c) => call'[c].step = "probe"
      BY <2>1, <2>4 DEF Parse, CallState
    <2>10. Write(c) => call'[c].step = "check"
      BY <2>1, <2>4 DEF Write, CallState
    <2>11. Die(c) => call'[c] \notin {Done, Failed}
      <3>1. [call[c] EXCEPT !.dead = TRUE].step = call[c].step
        BY <2>1 DEF CallState
      <3>2. QED
        BY <2>2, <2>4, <2>5, <3>1 DEF Die, Idle
    <2>12. ASSUME call'[c] \in {Done, Failed}
           PROVE  Probe(c) \/ ForgetAgain(c) \/ ComposeEnds(c) \/ ComposeFails(c)
      <3>1. ~(\/ Create(c) \/ Validate(c) \/ Preflight(c) \/ Databases(c) \/ Schema(c) \/ Verify(c)
              \/ Contracts(c) \/ Stop(c))
        BY <2>1 DEF Create, Validate, Preflight, Databases, Schema, Verify, Contracts, Stop, At, Selecting
      <3>2. ~(Parse(c) \/ Invalidate(c) \/ Write(c) \/ Check(c) \/ Recreate(c) \/ Rollback(c))
        BY <2>5, <2>6, <2>7, <2>8, <2>9, <2>10, <2>12
           DEF Invalidate, Forget, Check, Recreate, Rollback
      <3>3. QED
        BY <2>3, <2>11, <2>12, <3>1, <3>2 DEF Progress
    <2>13. CASE Probe(c)
      <3>1. call[c].step = "probe" /\ env' = env /\ call'[c] # Done
        BY <2>4, <2>5, <2>6, <2>13 DEF Probe, At
      <3>2. call[c].previous = env
        BY <1>1, <2>1, <2>2, <3>1 DEF Settles
      <3>3. QED
        BY <3>1, <3>2
    <2>14. CASE ForgetAgain(c)
      <3>1. call[c].step = "forget" /\ env' = env /\ call'[c] = Failed
        BY <2>4, <2>14 DEF ForgetAgain, Forget, At
      <3>2. call[c].previous = env
        BY <1>1, <2>1, <2>2, <3>1 DEF Settles
      <3>3. QED
        BY <2>5, <3>1, <3>2
    <2>15. CASE (ComposeEnds(c) \/ ComposeFails(c)) /\ call'[c] \in {Done, Failed}
      <3>1. call[c].step = "recreating"
        BY <2>1, <2>15 DEF ComposeEnds, ComposeFails, Selecting, InCompose
      <3>2. ~call[c].dead
        BY <2>4, <2>5, <2>15 DEF ComposeEnds, ComposeFails
      <3>3. ~ComposeFails(c)
        BY <2>5, <2>7, <2>15, <3>1, <3>2 DEF ComposeFails, At
      <3>4. /\ UNCHANGED <<env, health>> /\ stack' = Target(c) /\ call'[c] = Done
        BY <2>4, <2>15, <3>1, <3>2, <3>3 DEF ComposeEnds, Onward
      <3>5. /\ call[c].seen = env /\ health = None
            /\ env = Replaced(call[c].previous, call[c].previous, call[c].wanted)
        BY <1>1, <2>1, <2>2, <3>1 DEF Settles
      <3>6. stack'.runs = Settings(env)
        BY <3>1, <3>4, <3>5 DEF Target, RunsOn
      <3>7. QED
        BY <2>5, <3>4, <3>5, <3>6
    <2>16. QED
      BY <2>12, <2>13, <2>14, <2>15
  <1>2. Inv /\ [Next]_vars =>
          [\A c \in Callers : call[c].wanted # None /\ call[c].lone =>
              /\ call'[c] = Done =>
                   /\ env' = Replaced(call[c].previous, call[c].previous, call[c].wanted)
                   /\ stack'.runs = Settings(env') /\ health' = None
              /\ call'[c] = Failed => env' = call[c].previous]_deployment
    BY <1>1
  <1>3. QED
    BY <1>2, InvHolds, PTL DEF Spec, LoneSelectionIsAllOrNothing

=============================================================================
