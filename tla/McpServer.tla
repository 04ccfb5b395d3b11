------------------------------ MODULE McpServer ------------------------------
(***************************************************************************)
(* The MCP server over HTTP (http.ts, rpc.ts, tools.ts).  Started without a *)
(* Control Plane it hands every tool to the router (Fusion); started with    *)
(* one it keeps the sessions, has each bearer resolved by Control, and turns  *)
(* each tool into calls of Control's memory gateway                           *)
(* (control-gateway-client.ts), which goes on with a call whose caller gave up *)
(* (memory_gateway.py).                                                        *)
(*                                                                           *)
(* A credential's identity (Project, Peers) cannot change while it resolves, *)
(* so that a session is its credential; what changes under it are its rights. *)
(***************************************************************************)
EXTENDS Fusion

CONSTANTS
    Requests, Credentials,
    Sids,           \* session ids, never given twice
    MaxInFlight, MaxSessions,
    MaxChanges      \* bound: how often an administrator changes rights

VARIABLES
    mode,           \* what startHttpServerFromEnv starts: "router", "control"
    sessions,       \* what each session id stands for
    active,         \* activeRequests
    req,            \* each request: [at, kind, cred, sid, counted, told]
    ensured,        \* whether their Project is in #ensuredProjects
    ctl,            \* the last call of each request, and Control's step in it
    rights, changes,    \* Control's tables: the rights of each credential
    coreSession,    \* whether the Core has the session records go to
    stored, audited,    \* requests whose record the Core has, and Control noted
    grace           \* (history) calls past Control's check when rights changed

serverVars == <<sessions, active, req, ensured>>
controlVars == <<ctl, rights, changes, coreSession, stored, audited, grace>>
vars == <<mode, serverVars, controlVars>>

Unused == "unused"
Gone == "gone"

\* Rights: to write and create Projects, to write, to read; or revoked.
Rights == {"manager", "writer", "reader", "revoked"}
MayWrite == {"manager", "writer"}

NotSent == [at |-> "new", kind |-> "none", cred |-> "none", sid |-> "none",
            counted |-> FALSE, told |-> "nothing"]

\* Where Control may still be busy with a call.
Running == {"sent", "authorised", "stored"}

NoCtl == [call |-> "none", step |-> "none"]

Init ==
    /\ FusionInit
    /\ mode \in {"router", "control"}
    /\ sessions = [s \in Sids |-> Unused]
    /\ active = 0
    /\ req = [r \in Requests |-> NotSent]
    /\ ensured = FALSE
    /\ ctl = [r \in Requests |-> NoCtl]
    /\ rights \in [Credentials -> {"manager", "writer"}]
    /\ changes = 0
    /\ coreSession = FALSE
    /\ stored = {} /\ audited = {} /\ grace = {}

-----------------------------------------------------------------------------
\* Requests.

\* Mutant: finally does not ask whether the request was counted.
FreedAlways(r) == active - 1

\* A request at its end: told, and its slot freed if it was counted (finally).
Freed(r) == IF req[r].counted THEN active - 1 ELSE active

End(r, told) ==
    /\ req' = [req EXCEPT ![r].at = "done", ![r].told = told]
    /\ active' = Freed(r)

Goes(r, at) == req' = [req EXCEPT ![r].at = at]

Kinds == {"initialize", "delete", "record", "read"}

\* The slot is taken before the first await.
Arrive(r, kind, c, s) ==
    /\ req[r].at = "new"
    /\ kind = "initialize" \/ sessions[s] # Unused
    /\ LET admitted == active < MaxInFlight
       IN  /\ req' = [req EXCEPT ![r] =
                        [at |-> IF admitted THEN "authenticating" ELSE "refused", kind |-> kind,
                         cred |-> c, sid |-> IF kind = "initialize" THEN "none" ELSE s,
                         counted |-> admitted, told |-> "nothing"]]
           /\ active' = IF admitted THEN active + 1 ELSE active
    /\ UNCHANGED <<sessions, ensured, controlVars>>

\* The 503 passes through the catch and the finally of every request.
Busy(r) ==
    /\ req[r].at = "refused"
    /\ End(r, "busy")
    /\ UNCHANGED <<sessions, ensured, controlVars>>

\* /api/v1/me; an error and a late answer are as good as a refusal.
Authenticated(r) ==
    /\ req[r].at = "authenticating"
    /\ rights[req[r].cred] # "revoked"
    /\ Goes(r, IF rights[req[r].cred] \in MayWrite \/ req[r].kind # "record"
               THEN "body" ELSE "body without right")
    /\ UNCHANGED <<sessions, active, ensured, controlVars>>

Unauthorized(r) ==
    /\ req[r].at = "authenticating"
    /\ End(r, "unauthorized")
    /\ UNCHANGED <<sessions, ensured, controlVars>>

\* The body may never come, or not be a request (readJson).
BodyFails(r) ==
    /\ req[r].at \in {"body", "body without right"} /\ req[r].kind # "delete"
    /\ End(r, "error")
    /\ UNCHANGED <<sessions, ensured, controlVars>>

-----------------------------------------------------------------------------
\* Sessions.  Every handler prunes before it looks, so that a session which was
\* idle too long may as well be gone at once.
Expire(s) ==
    /\ sessions[s] \in Credentials
    /\ sessions' = [sessions EXCEPT ![s] = Gone]
    /\ UNCHANGED <<active, req, ensured, controlVars>>

Open == {s \in Sids : sessions[s] \in Credentials}

\* Parameters the protocol does not allow delete the session again.
Initialize(r) ==
    /\ req[r].at = "body" /\ req[r].kind = "initialize"
    /\ IF Cardinality(Open) >= MaxSessions
       THEN End(r, "busy") /\ UNCHANGED sessions
       ELSE \E s \in Sids :
              /\ sessions[s] = Unused
              /\ \/ /\ sessions' = [sessions EXCEPT ![s] = req[r].cred]
                    /\ End(r, "initialized")
                 \/ sessions' = [sessions EXCEPT ![s] = Gone] /\ End(r, "error")
    /\ UNCHANGED <<ensured, controlVars>>

HasSession(r) == sessions[req[r].sid] = req[r].cred

Asking(r) == req[r].at \in {"body", "body without right"} /\ req[r].kind # "initialize"

NoSuchSession(r) ==
    /\ Asking(r) /\ ~HasSession(r)
    /\ End(r, "no session")
    /\ UNCHANGED <<sessions, ensured, controlVars>>

Delete(r) ==
    /\ Asking(r) /\ HasSession(r) /\ req[r].kind = "delete"
    /\ sessions' = [sessions EXCEPT ![req[r].sid] = Gone]
    /\ End(r, "deleted")
    /\ UNCHANGED <<ensured, controlVars>>

-----------------------------------------------------------------------------
\* Tools.  Before any call, callTool refuses what /me did not allow and
\* arguments that are not the tool's.
ToolRefuses(r) ==
    /\ Asking(r) /\ HasSession(r) /\ req[r].kind \in {"record", "read"}
    /\ End(r, IF req[r].at = "body" THEN "bad arguments" ELSE "no right")
    /\ UNCHANGED <<sessions, ensured, controlVars>>

\* A call goes out and is waited for.
Calls(r, call) ==
    /\ Goes(r, "waiting")
    /\ ctl' = [ctl EXCEPT ![r] = [call |-> call, step |-> "sent"]]
    /\ UNCHANGED <<sessions, active, rights, changes, coreSession, stored, audited, grace>>

\* A record ensures its Project first, once per process; the other tools are
\* one call each.
CallTool(r) ==
    /\ Asking(r) /\ HasSession(r)
    /\ req[r].at = "body" /\ req[r].kind \in {"record", "read"}
    /\ Calls(r, IF req[r].kind = "read" THEN "read"
                ELSE IF ensured THEN "post" ELSE "ensure")
    /\ UNCHANGED ensured

Answered(r, call, step) ==
    req[r].at = "waiting" /\ ctl[r] = [call |-> call, step |-> step]

\* 403 to the ensure is left to the session endpoint to judge.
Ensured(r) ==
    /\ \/ Answered(r, "ensure", "ok") /\ ensured' = TRUE
       \/ Answered(r, "ensure", "forbidden") /\ UNCHANGED ensured
    /\ Calls(r, "post")

SessionMissing(r) ==
    /\ Answered(r, "post", "missing")
    /\ Calls(r, "create session") /\ UNCHANGED ensured

SessionCreated(r) ==
    /\ Answered(r, "create session", "ok")
    /\ Calls(r, "post again") /\ UNCHANGED ensured

ToolDone(r) ==
    /\ \E call \in {"post", "post again", "read"} : Answered(r, call, "ok")
    /\ End(r, "done")
    /\ UNCHANGED <<sessions, ensured, controlVars>>

\* Any other answer is the tool's error.
ToolFails(r) ==
    /\ \E step \in {"forbidden", "missing", "failed"} :
          /\ Answered(r, ctl[r].call, step)
          /\ ~Answered(r, "ensure", "forbidden") /\ ~Answered(r, "post", "missing")
    /\ End(r, "error")
    /\ UNCHANGED <<sessions, ensured, controlVars>>

\* So is none in time; Control is not told.
GiveUp(r) ==
    /\ req[r].at = "waiting" /\ ctl[r].step \in Running
    /\ End(r, "error")
    /\ UNCHANGED <<sessions, ensured, controlVars>>

-----------------------------------------------------------------------------
\* Control's side of a call: it authenticates the bearer itself.
Needs(call) ==
    CASE call = "ensure" -> {"manager"}
      [] call = "read" -> {"manager", "writer", "reader"}
      [] OTHER -> MayWrite

ControlStep(r, from, to) ==
    /\ ctl[r].step = from
    /\ ctl' = [ctl EXCEPT ![r].step = to]
    /\ UNCHANGED <<sessions, active, req, ensured, rights, changes>>

\* Mutant: Control takes the server's word for what the bearer may do.
MayTrusting(r) == TRUE

May(r) == rights[req[r].cred] \in Needs(ctl[r].call)

Authorise(r) ==
    /\ ControlStep(r, "sent", IF May(r) THEN "authorised" ELSE "forbidden")
    /\ UNCHANGED <<coreSession, stored, audited, grace>>

Posts == {"post", "post again"}

\* The Core takes the record, if it has the session (ingest_memory_records).
Store(r) ==
    /\ ctl[r].call \in Posts
    /\ ControlStep(r, "authorised", IF coreSession THEN "stored" ELSE "missing")
    /\ stored' = IF coreSession THEN stored \cup {r} ELSE stored
    /\ UNCHANGED <<coreSession, audited, grace>>

\* Mutant: the answer is given before the transaction is committed.
AuditsNothing(r) == audited

Audits(r) == audited \cup {r}

Audit(r) ==
    /\ ControlStep(r, "stored", "ok")
    /\ audited' = Audits(r)
    /\ UNCHANGED <<coreSession, stored, grace>>

OtherCall(r) ==
    /\ ctl[r].call \in {"ensure", "create session", "read"}
    /\ ControlStep(r, "authorised", "ok")
    /\ coreSession' = (coreSession \/ ctl[r].call = "create session")
    /\ UNCHANGED <<stored, audited, grace>>

\* A Core out of reach, a Control that dies with what it had not committed.
ControlFails(r) ==
    /\ ctl[r].step \in Running
    /\ ctl' = [ctl EXCEPT ![r].step = "failed"]
    /\ UNCHANGED <<serverVars, rights, changes, coreSession, stored, audited, grace>>

\* An administrator changes a role or a grant, or revokes a credential.
ChangeRights(c) ==
    /\ changes < MaxChanges
    /\ rights[c] # "revoked"
    /\ \E new \in Rights \ {rights[c]} : rights' = [rights EXCEPT ![c] = new]
    /\ changes' = changes + 1
    /\ grace' = {r \in Requests : ctl[r].step = "authorised"}
    /\ UNCHANGED <<serverVars, ctl, coreSession, stored, audited>>

-----------------------------------------------------------------------------
Handle(r) ==
    \/ \E kind \in Kinds, c \in Credentials, s \in Sids : Arrive(r, kind, c, s)
    \/ Busy(r) \/ Authenticated(r) \/ Unauthorized(r) \/ BodyFails(r)
    \/ Initialize(r) \/ NoSuchSession(r) \/ Delete(r)
    \/ ToolRefuses(r) \/ CallTool(r) \/ Ensured(r) \/ SessionMissing(r)
    \/ SessionCreated(r) \/ ToolDone(r) \/ ToolFails(r) \/ GiveUp(r)

Control(r) == Authorise(r) \/ Store(r) \/ Audit(r) \/ OtherCall(r) \/ ControlFails(r)

ServerNext ==
    \/ \E r \in Requests : Handle(r) \/ Control(r)
    \/ \E s \in Sids : Expire(s)
    \/ \E c \in Credentials : ChangeRights(c)

Next ==
    \/ mode = "router" /\ FusionNext /\ UNCHANGED vars
    \/ mode = "control" /\ ServerNext /\ UNCHANGED <<mode, fusionVars>>

Spec == Init /\ [][Next]_<<vars, fusionVars>>

ASSUME FusionAssumption

ASSUME ServerAssumption ==
    /\ {MaxInFlight, MaxSessions, MaxChanges} \subseteq Nat
    /\ Credentials \cap {Unused, Gone} = {}

-----------------------------------------------------------------------------
\* activeRequests is the number of requests that are neither refused nor over,
\* never above the limit, however requests end; nor are there more sessions
\* than the server keeps (createMcpHttpServer).
SlotsAndSessions ==
    /\ active = Cardinality({r \in Requests :
                    req[r].at \notin {"new", "refused", "done"}})
    /\ active <= MaxInFlight
    /\ Cardinality(Open) <= MaxSessions

\* A record that its caller was told is recorded is in the Core and in Control's
\* audit trail, whatever was lost on the way, retried for want of a session, or
\* answered too late.  (The converse does not hold.)
ToldMeansKept ==
    \A r \in Requests : req[r].kind = "record" /\ req[r].told = "done"
                            => r \in stored /\ r \in audited

\* The rights that /me reported are out of date by the time they are used: what
\* a credential lost, no call of it uses that was not past Control's own check
\* when it lost it.
RightsHoldWhenUsed ==
    [][\A r \in stored' \ stored : rights[req[r].cred] \in MayWrite \/ r \in grace]_<<vars, fusionVars>>
=============================================================================
