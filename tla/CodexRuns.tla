------------------------------ MODULE CodexRuns ------------------------------
(***************************************************************************)
(* The children of the daemon: LocalCodexProvider (codex-provider.ts) runs   *)
(* `codex exec` for a generation, in a directory of its own, and `codex      *)
(* app-server` for the state of the login, while AdminServer.stop waits for  *)
(* connections, closes the provider and lets the process exit.               *)
(***************************************************************************)
EXTENDS Naturals, FiniteSets

CONSTANTS
    Generations,    \* calls of generateJson
    Statuses        \* calls of sessionStatus

CodexAssumption == Generations \cap Statuses = {}

Calls == Generations \cup Statuses

VARIABLES
    server,     \* the daemon: up, closing its servers, terminating, exited
    client,     \* calls whose connection is open
    call,       \* the next step of each call
    child,      \* its process: none, alive, asked (SIGTERM), killed, gone
    verdict,    \* what the child's exit and output amounted to
    runDir,     \* generations whose run directory exists
    sentenced   \* calls whose children close() has taken the list of

codexVars == <<server, client, call, child, verdict, runDir, sentenced>>

Alive(c) == child[c] \in {"alive", "asked", "killed"}

\* How a generation ends, and what sessionStatus can say.
Over == {"ok", "error"}
AuthStatus == {"signed_in", "signed_out", "unavailable", "unknown"}

CodexInit ==
    /\ server = "up" /\ client = {}
    /\ call = [c \in Calls |-> "idle"]
    /\ child = [c \in Calls |-> "none"]
    /\ verdict = [c \in Calls |-> "none"]
    /\ runDir = {} /\ sentenced = {}

-----------------------------------------------------------------------------
At(c, s) == server # "exited" /\ call[c] = s

Go(c, s) == call' = [call EXCEPT ![c] = s]

\* provider.closing is set by close() before it looks at the children.
Closing == server = "terminating"

\* A request for this Node's bridge with its bearer, or one that is answered with
\* 401, 404 or 400; handlers of the admin page probe and ask the same way.
Begin(c) ==
    /\ server = "up" /\ call[c] = "idle"
    /\ client' = client \cup {c}
    /\ Go(c, "enter") \/ Go(c, "error")
    /\ UNCHANGED <<server, child, verdict, runDir, sentenced>>

\* generateJson looks at closing, the model and the messages.
Enter(c) ==
    /\ At(c, "enter")
    /\ \/ Go(c, IF c \in Generations /\ Closing THEN "error" ELSE "resolve")
       \/ c \in Generations /\ Go(c, "error")
    /\ UNCHANGED <<server, client, child, verdict, runDir, sentenced>>

\* The first codex binary that can be executed, if there is one.
FindBinary(c) ==
    /\ At(c, "resolve")
    /\ \/ Go(c, IF c \in Generations THEN "mkdir" ELSE "spawn")
       \/ Go(c, IF c \in Generations THEN "error" ELSE "unavailable")
    /\ UNCHANGED <<server, client, child, verdict, runDir, sentenced>>

\* mkdtemp under codex-runs; what follows is inside try and ends in the rm.
MakeRunDir(c) ==
    /\ At(c, "mkdir")
    /\ \/ runDir' = runDir \cup {c} /\ Go(c, "prompt")
       \/ UNCHANGED runDir /\ Go(c, "error")
    /\ UNCHANGED <<server, client, child, verdict, sentenced>>

Finished(c, outcome) ==
    /\ verdict' = [verdict EXCEPT ![c] = outcome]
    /\ Go(c, IF c \in Generations THEN "rm" ELSE outcome)

Failed(c) == Finished(c, IF c \in Generations THEN "error" ELSE "unknown")

\* The schema file, and the prompt, which must be of valid messages and at most
\* 1 MiB.
WritePrompt(c) ==
    /\ At(c, "prompt")
    /\ (Go(c, "spawn") /\ UNCHANGED verdict) \/ Failed(c)
    /\ UNCHANGED <<server, client, child, runDir, sentenced>>

\* Mistaken: generateJson has looked at closing already, when it began.
LookedBefore == TRUE

MaySpawn == ~Closing

\* closing, spawn and trackChild in one turn of the event loop; an executable
\* that cannot be started is an 'error' and a 'close' event.
Spawn(c) ==
    /\ At(c, "spawn")
    /\ \/ /\ MaySpawn
          /\ child' = [child EXCEPT ![c] = "alive"]
          /\ Go(c, "run") /\ UNCHANGED verdict
       \/ Failed(c) /\ UNCHANGED child
    /\ UNCHANGED <<server, client, runDir, sentenced>>

\* An exit code other than 0 and the use of a tool are errors.
MayHaveWorked(c) == c \in Generations /\ call[c] = "run"

\* The child closes, by itself or after a signal: what waited for it goes on, a
\* generation with its output unless it was aborted, a status with an error.
ChildCloses(c) ==
    /\ server # "exited" /\ Alive(c)
    /\ child' = [child EXCEPT ![c] = "gone"]
    /\ \/ MayHaveWorked(c) /\ Go(c, "read") /\ UNCHANGED verdict
       \/ call[c] \in {"run", "abort"} /\ Failed(c)
       \/ call[c] \notin {"run", "abort"} /\ UNCHANGED <<call, verdict>>
    /\ UNCHANGED <<server, client, runDir, sentenced>>

\* The output file must hold one JSON object.
ReadOutput(c) ==
    /\ At(c, "read")
    /\ \E outcome \in Over : Finished(c, outcome)
    /\ UNCHANGED <<server, client, child, runDir, sentenced>>

\* A timeout, too much output or a failed input.  A generation waits for the
\* child to be terminated; a status is over, and its child is stopped behind it.
Abort(c) ==
    /\ At(c, "run") /\ Alive(c)
    /\ child' = [child EXCEPT ![c] = IF @ = "alive" THEN "asked" ELSE @]
    /\ IF c \in Generations
       THEN Go(c, "abort") /\ UNCHANGED verdict
       ELSE Failed(c)
    /\ UNCHANGED <<server, client, runDir, sentenced>>

\* The app server has replied to every request: finish() and stopChild.  The
\* account it names is the status.
Replies(c) ==
    /\ c \in Statuses /\ At(c, "run") /\ child[c] \in {"alive", "asked"}
    /\ child' = [child EXCEPT ![c] = "asked"]
    /\ \E status \in AuthStatus \ {"unavailable"} : Finished(c, status)
    /\ UNCHANGED <<server, client, runDir, sentenced>>

\* terminateChildren: SIGKILL after the grace of 250 ms.
Kill(c) ==
    /\ server # "exited" /\ child[c] = "asked"
    /\ child' = [child EXCEPT ![c] = "killed"]
    /\ UNCHANGED <<server, client, call, verdict, runDir, sentenced>>

\* The finally of generateJson; a directory that cannot be removed makes an
\* error of a success.
RemoveRunDir(c) ==
    /\ At(c, "rm")
    /\ \/ runDir' = runDir \ {c} /\ Go(c, verdict[c])
       \/ UNCHANGED runDir /\ Go(c, "error")
    /\ UNCHANGED <<server, client, child, verdict, sentenced>>

\* A connection ends with its answer, or because the client went away: the
\* handler does not notice.
Disconnect(c) ==
    /\ c \in client
    /\ client' = client \ {c}
    /\ UNCHANGED <<server, call, child, verdict, runDir, sentenced>>

-----------------------------------------------------------------------------
\* SIGTERM: AdminServer.stop, which first waits for the open connections ...
Stop ==
    /\ server = "up"
    /\ server' = "closing"
    /\ UNCHANGED <<client, call, child, verdict, runDir, sentenced>>

\* ... then closes the provider: closing is set and every tracked child gets a
\* SIGTERM ...
CloseProvider ==
    /\ server = "closing" /\ client = {}
    /\ server' = "terminating"
    /\ sentenced' = {c \in Calls : Alive(c)}
    /\ child' = [c \in Calls |-> IF child[c] = "alive" THEN "asked" ELSE child[c]]
    /\ UNCHANGED <<client, call, verdict, runDir>>

\* ... and exits when they have closed.
Exit ==
    /\ server = "terminating"
    /\ \A c \in sentenced : ~Alive(c)
    /\ server' = "exited"
    /\ UNCHANGED <<client, call, child, verdict, runDir, sentenced>>

CodexNext ==
    \/ \E c \in Calls :
          \/ Begin(c) \/ Enter(c) \/ FindBinary(c) \/ MakeRunDir(c) \/ WritePrompt(c)
          \/ Spawn(c) \/ ChildCloses(c) \/ ReadOutput(c) \/ Abort(c) \/ Replies(c)
          \/ Kill(c) \/ RemoveRunDir(c) \/ Disconnect(c)
    \/ Stop \/ CloseProvider \/ Exit

-----------------------------------------------------------------------------
\* "close escalates to SIGKILL and waits for the child close event"
\* (codex-provider.test.ts:86): nothing the daemon started outlives it, not even
\* what a request whose client has gone was about to start; and a generation is
\* answered when its child has ended, with success only once its files are gone.
LeavesNothing ==
    /\ server = "exited" => \A c \in Calls : ~Alive(c)
    /\ \A c \in Generations :
          /\ call[c] \in Over => ~Alive(c)
          /\ call[c] = "ok" => c \notin runDir
=============================================================================
