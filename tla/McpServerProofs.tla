-------------------------- MODULE McpServerProofs --------------------------
(***************************************************************************)
(* What the run of McpServer checks of the server and of Control, proved for *)
(* any number of requests, credentials, session ids and changes of rights.    *)
(*                                                                         *)
(* A request and the call it is waiting for are two records that move on      *)
(* their own; CallSound says what each step of the call says of the request.  *)
(***************************************************************************)
EXTENDS McpServer, FiniteSetTheorems, TLAPS

\* What a request may be told at its end, and what it is told elsewhere.
EndsTold == {"busy", "unauthorized", "error", "initialized", "no session", "deleted",
             "bad arguments", "no right", "done"}

Request ==
    [at : {"new", "refused", "authenticating", "body", "body without right", "waiting", "done"},
     kind : Kinds \cup {"none"}, cred : Credentials \cup {"none"}, sid : Sids \cup {"none"},
     counted : BOOLEAN,
     told : EndsTold \cup {"nothing"}]

Call ==
    [call : {"none", "ensure", "post", "create session", "post again", "read"},
     step : {"none", "sent", "authorised", "forbidden", "stored", "missing", "ok", "failed"}]

ServerTyped ==
    /\ req \in [Requests -> Request]
    /\ ctl \in [Requests -> Call]
    /\ sessions \in [Sids -> Credentials \cup {Unused, Gone}]
    /\ rights \in [Credentials -> Rights]

\* Where a request has its credential and its session, and takes a slot.
InFlight == {"authenticating", "body", "body without right", "waiting"}

Counting == {r \in Requests : req[r].at \in InFlight}

SlotsSound ==
    /\ IsFiniteSet(Counting) /\ Cardinality(Counting) = active
    /\ active <= MaxInFlight
    /\ \A r \in Requests :
         /\ req[r].at \in InFlight => req[r].counted /\ req[r].cred \in Credentials
         /\ req[r].at = "refused" => ~req[r].counted

SessionsSound == IsFiniteSet(Open) /\ Cardinality(Open) <= MaxSessions

\* The last call of request r.
CallSound(r) ==
    /\ ctl[r].call # "none" => req[r].at \in {"waiting", "done"} /\ req[r].cred \in Credentials
    /\ ctl[r].step # "none" => ctl[r].call # "none"
    /\ ctl[r].call = "read" => req[r].kind = "read"
    /\ ctl[r].call \in Posts =>
         /\ ctl[r].step = "authorised" => rights[req[r].cred] \in MayWrite \/ r \in grace
         /\ ctl[r].step \in {"stored", "ok"} => r \in stored
         /\ ctl[r].step = "ok" => r \in audited

ToldSound ==
    \A r \in Requests : req[r].told = "done" => req[r].kind = "read" \/ r \in stored \cap audited

CallsSound == \A r \in Requests : CallSound(r)

Inv == ServerTyped /\ SlotsSound /\ SessionsSound /\ CallsSound /\ ToldSound

-----------------------------------------------------------------------------
(* Slots and sessions. *)

\* The slots taken when request r moves from one place to another.
LEMMA CountingMoves ==
  ASSUME ServerTyped, NEW r \in Requests, NEW q, req' = [req EXCEPT ![r] = q]
  PROVE  Counting' = IF q.at \in InFlight THEN Counting \cup {r} ELSE Counting \ {r}
  BY DEF ServerTyped, Counting

\* The counter at a step of a request that has a slot before it, and after it.
SlotMoves(before, after) ==
    \/ (before <=> after) /\ active' = active
    \/ ~before /\ after /\ active' = active + 1
    \/ before /\ ~after /\ active' = active - 1

\* Slots at a step of r that changes whether it counts as its slot does.
LEMMA SlotsMove ==
  ASSUME ServerTyped, SlotsSound, NEW r \in Requests, NEW q, req' = [req EXCEPT ![r] = q],
         SlotMoves(req[r].at \in InFlight, q.at \in InFlight), active' <= MaxInFlight,
         q.at \in InFlight => q.counted /\ q.cred \in Credentials,
         q.at = "refused" => ~q.counted
  PROVE  SlotsSound'
  <1>1. Cardinality(Counting) \in Nat /\ IsFiniteSet(Counting)
    BY FS_CardinalityType DEF SlotsSound
  <1>2. r \in Counting <=> req[r].at \in InFlight
    BY DEF Counting
  <1>3. IsFiniteSet(Counting') /\ Cardinality(Counting') = active'
    <2>1. CASE q.at \in InFlight
      <3>1. Counting' = Counting \cup {r}
        BY <2>1, CountingMoves
      <3>2. QED
        BY <1>1, <1>2, <2>1, <3>1, FS_AddElement DEF SlotsSound, SlotMoves
    <2>2. CASE q.at \notin InFlight
      <3>1. Counting' = Counting \ {r}
        BY <2>2, CountingMoves
      <3>2. QED
        BY <1>1, <1>2, <2>2, <3>1, FS_RemoveElement DEF SlotsSound, SlotMoves
    <2>3. QED
      BY <2>1, <2>2
  <1>4. \A other \in Requests : req'[other] = IF other = r THEN q ELSE req[other]
    BY DEF ServerTyped
  <1>5. QED
    BY <1>3, <1>4 DEF SlotsSound

LEMMA SlotsRest ==
  ASSUME SlotsSound, UNCHANGED <<req, active>>
  PROVE  SlotsSound'
  BY DEF SlotsSound, Counting

\* Ids in use after a change of one of them.
LEMMA OpenMoves ==
  ASSUME ServerTyped, SessionsSound, NEW s \in Sids, NEW now,
         sessions' = [sessions EXCEPT ![s] = now],
         Cardinality(Open) < MaxSessions \/ s \in Open
  PROVE  SessionsSound'
  <1>1. Cardinality(Open) \in Nat /\ IsFiniteSet(Open) /\ MaxSessions \in Nat
    BY FS_CardinalityType, ServerAssumption DEF SessionsSound
  <1>2. Open' \subseteq Open \cup {s}
    BY DEF ServerTyped, Open
  <1>3. /\ IsFiniteSet(Open \cup {s})
        /\ Cardinality(Open \cup {s}) = IF s \in Open THEN Cardinality(Open) ELSE Cardinality(Open) + 1
    BY <1>1, FS_AddElement
  <1>4. Cardinality(Open \cup {s}) <= MaxSessions /\ Cardinality(Open \cup {s}) \in Nat
    BY <1>1, <1>3 DEF SessionsSound
  <1>5. IsFiniteSet(Open') /\ Cardinality(Open') <= Cardinality(Open \cup {s})
    BY <1>2, <1>3, FS_Subset
  <1>6. Cardinality(Open') \in Nat
    BY <1>5, FS_CardinalityType
  <1>7. QED
    BY <1>1, <1>4, <1>5, <1>6 DEF SessionsSound

-----------------------------------------------------------------------------
(* Requests. *)

\* A step of request r, which leaves Control where it is.
LEMMA RequestStep ==
  ASSUME Inv, NEW r \in Requests, NEW q \in Request, req' = [req EXCEPT ![r] = q],
         UNCHANGED controlVars, SlotsSound', SessionsSound',
         sessions' \in [Sids -> Credentials \cup {Unused, Gone}],
         ctl[r].call # "none" => q.at = "done" /\ q.cred = req[r].cred /\ q.kind = req[r].kind,
         q.told = "done" => q.kind = "read" \/ r \in stored \cap audited
  PROVE  Inv'
  <1>1. \A other \in Requests : req'[other] = IF other = r THEN q ELSE req[other]
    BY DEF Inv, ServerTyped
  <1>2. ServerTyped'
    BY DEF Inv, ServerTyped, controlVars
  <1>3. CallsSound'
    <2>1. ASSUME NEW other \in Requests PROVE CallSound(other)'
      <3>1. CallSound(other)
        BY DEF Inv, CallsSound
      <3>2. CASE other = r
        BY <1>1, <3>1, <3>2 DEF CallSound, controlVars, Posts
      <3>3. CASE other # r
        BY <1>1, <3>1, <3>3 DEF CallSound, controlVars
      <3>4. QED
        BY <3>2, <3>3
    <2>2. QED
      BY <2>1 DEF CallsSound
  <1>4. ToldSound'
    BY <1>1 DEF Inv, ToldSound, controlVars
  <1>5. QED
    BY <1>2, <1>3, <1>4 DEF Inv

\* A request that ends gives back the slot it has, and no other.
LEMMA EndPreserves ==
  ASSUME Inv, NEW r \in Requests, NEW told, End(r, told),
         req[r].at \in InFlight \cup {"refused"},
         told \in EndsTold,
         told = "done" => req[r].kind = "read" \/ r \in stored \cap audited,
         UNCHANGED controlVars, SessionsSound',
         sessions' \in [Sids -> Credentials \cup {Unused, Gone}]
  PROVE  Inv'
  <1> DEFINE q == [req[r] EXCEPT !.at = "done", !.told = told]
  <1>1. req[r] \in Request /\ req' = [req EXCEPT ![r] = q]
    BY DEF End, Inv, ServerTyped
  <1>2. /\ q \in Request /\ q.at = "done" /\ q.told = told
        /\ q.cred = req[r].cred /\ q.kind = req[r].kind
    BY <1>1 DEF Request
  <1>3. SlotsSound'
    <2>1. active \in Nat /\ active <= MaxInFlight /\ MaxInFlight \in Nat
      BY FS_CardinalityType, ServerAssumption DEF Inv, SlotsSound
    <2>2. active' = IF req[r].at \in InFlight THEN active - 1 ELSE active
      BY DEF End, Freed, Inv, SlotsSound, InFlight
    <2> HIDE DEF q
    <2>3. SlotMoves(req[r].at \in InFlight, q.at \in InFlight) /\ active' <= MaxInFlight
      <3>1. q.at \notin InFlight
        BY <1>2 DEF InFlight
      <3>2. QED
        BY <2>1, <2>2, <3>1 DEF SlotMoves
    <2>4. QED
      BY <1>1, <1>2, <2>3, SlotsMove DEF Inv, InFlight
  <1> HIDE DEF q
  <1>4. QED
    BY <1>1, <1>2, <1>3, RequestStep

\* ... when it leaves the sessions alone.
LEMMA EndsOnly ==
  ASSUME Inv, NEW r \in Requests, NEW told, End(r, told),
         req[r].at \in InFlight \cup {"refused"},
         told \in EndsTold,
         told = "done" => req[r].kind = "read" \/ r \in stored \cap audited,
         UNCHANGED <<sessions, ensured, controlVars>>
  PROVE  Inv'
  <1>1. SessionsSound' /\ sessions' \in [Sids -> Credentials \cup {Unused, Gone}] /\ UNCHANGED controlVars
    BY DEF Inv, SessionsSound, Open, ServerTyped
  <1>2. QED
    BY <1>1, EndPreserves

LEMMA ArrivePreserves ==
  ASSUME Inv, NEW r \in Requests, NEW kind \in Kinds, NEW c \in Credentials, NEW s \in Sids,
         Arrive(r, kind, c, s)
  PROVE  Inv'
  <1> DEFINE admitted == active < MaxInFlight
             q == [at |-> IF admitted THEN "authenticating" ELSE "refused", kind |-> kind,
                   cred |-> c, sid |-> IF kind = "initialize" THEN "none" ELSE s,
                   counted |-> admitted, told |-> "nothing"]
  <1>1. /\ req[r].at = "new" /\ req' = [req EXCEPT ![r] = q]
        /\ active' = IF admitted THEN active + 1 ELSE active
        /\ UNCHANGED <<sessions, ensured, controlVars>>
    BY DEF Arrive
  <1>2. q \in Request
    BY DEF Request
  <1>3. active \in Nat /\ active <= MaxInFlight /\ MaxInFlight \in Nat
    BY FS_CardinalityType, ServerAssumption DEF Inv, SlotsSound
  <1>4. SlotsSound'
    <2>1. q.at \in InFlight <=> admitted
      BY DEF InFlight
    <2>2. SlotMoves(req[r].at \in InFlight, q.at \in InFlight) /\ active' <= MaxInFlight
      BY <1>1, <1>3, <2>1 DEF InFlight, SlotMoves
    <2>3. /\ q.at \in InFlight => q.counted /\ q.cred \in Credentials
          /\ q.at = "refused" => ~q.counted
      BY <2>1
    <2> HIDE DEF q
    <2>4. QED
      BY <1>1, <2>2, <2>3, SlotsMove DEF Inv
  <1>5. ctl[r].call = "none" /\ q.told = "nothing"
    BY <1>1 DEF Inv, CallsSound, CallSound
  <1>6. SessionsSound' /\ sessions' \in [Sids -> Credentials \cup {Unused, Gone}] /\ UNCHANGED controlVars
    BY <1>1 DEF Inv, SessionsSound, Open, ServerTyped
  <1> HIDE DEF q
  <1>7. QED
    BY <1>1, <1>2, <1>4, <1>5, <1>6, RequestStep

LEMMA AuthenticatedPreserves ==
  ASSUME Inv, NEW r \in Requests, Authenticated(r)
  PROVE  Inv'
  <1> DEFINE at == IF rights[req[r].cred] \in MayWrite \/ req[r].kind # "record"
                   THEN "body" ELSE "body without right"
             q == [req[r] EXCEPT !.at = at]
  <1>1. /\ req[r].at = "authenticating" /\ req[r] \in Request /\ req' = [req EXCEPT ![r] = q]
        /\ UNCHANGED <<sessions, active, ensured, controlVars>>
    BY DEF Authenticated, Goes, Inv, ServerTyped
  <1>2. /\ q \in Request /\ q.at \in {"body", "body without right"} /\ q.told = req[r].told
        /\ q.kind = req[r].kind /\ q.counted = req[r].counted /\ q.cred = req[r].cred
    BY <1>1 DEF Request
  <1>3. req[r].counted /\ req[r].cred \in Credentials /\ active \in Nat /\ active <= MaxInFlight
    BY <1>1, FS_CardinalityType DEF Inv, SlotsSound, InFlight
  <1>4. ctl[r].call = "none" /\ (req[r].told = "done" => req[r].kind = "read" \/ r \in stored \cap audited)
    BY <1>1 DEF Inv, CallsSound, CallSound, ToldSound
  <1>5. SessionsSound' /\ sessions' \in [Sids -> Credentials \cup {Unused, Gone}] /\ UNCHANGED controlVars
    BY <1>1 DEF Inv, SessionsSound, Open, ServerTyped
  <1> HIDE DEF q
  <1>6. SlotsSound'
    <2>1. SlotMoves(req[r].at \in InFlight, q.at \in InFlight)
      <3>1. q.at \in InFlight /\ req[r].at \in InFlight
        BY <1>1, <1>2 DEF InFlight
      <3>2. QED
        BY <1>1, <3>1 DEF SlotMoves
    <2>2. QED
      BY <1>1, <1>2, <1>3, <2>1, SlotsMove DEF Inv
  <1>7. QED
    BY <1>1, <1>2, <1>4, <1>5, <1>6, RequestStep

LEMMA InitializePreserves ==
  ASSUME Inv, NEW r \in Requests, Initialize(r)
  PROVE  Inv'
  <1>1. req[r].at \in InFlight /\ req[r].cred \in Credentials /\ UNCHANGED controlVars
    BY DEF Initialize, Inv, SlotsSound, InFlight
  <1>2. CASE Cardinality(Open) >= MaxSessions
    BY <1>1, <1>2, EndsOnly DEF Initialize, EndsTold
  <1>3. CASE ~(Cardinality(Open) >= MaxSessions)
    <2>1. PICK s \in Sids, now \in {req[r].cred, Gone}, told \in {"initialized", "error"} :
              sessions' = [sessions EXCEPT ![s] = now] /\ End(r, told)
      BY <1>3 DEF Initialize
    <2>2. sessions' \in [Sids -> Credentials \cup {Unused, Gone}]
      BY <1>1, <2>1 DEF Inv, ServerTyped
    <2>3. Cardinality(Open) < MaxSessions
      BY <1>3, FS_CardinalityType, ServerAssumption DEF Inv, SessionsSound
    <2>4. SessionsSound'
      BY <2>1, <2>3, OpenMoves DEF Inv
    <2>5. QED
      BY <1>1, <2>1, <2>2, <2>4, EndPreserves DEF EndsTold
  <1>4. QED
    BY <1>2, <1>3

LEMMA DeletePreserves ==
  ASSUME Inv, NEW r \in Requests, Delete(r)
  PROVE  Inv'
  <1>1. /\ req[r].at \in InFlight /\ req[r].cred \in Credentials
        /\ sessions[req[r].sid] = req[r].cred /\ End(r, "deleted") /\ UNCHANGED controlVars
        /\ sessions' = [sessions EXCEPT ![req[r].sid] = Gone]
    BY DEF Delete, Asking, HasSession, Inv, SlotsSound, InFlight
  <1>2. sessions' \in [Sids -> Credentials \cup {Unused, Gone}]
    BY <1>1 DEF Inv, ServerTyped
  <1>3. SessionsSound'
    <2>1. CASE req[r].sid \in Sids
      <3>1. req[r].sid \in Open
        BY <1>1, <2>1 DEF Open
      <3>2. QED
        BY <1>1, <2>1, <3>1, OpenMoves DEF Inv
    <2>2. CASE req[r].sid \notin Sids
      BY <1>1, <2>2 DEF Inv, ServerTyped, SessionsSound, Open
    <2>3. QED
      BY <2>1, <2>2
  <1>4. QED
    BY <1>1, <1>2, <1>3, EndPreserves DEF EndsTold

\* The other ways for a request to end.
LEMMA EndingsPreserve ==
  ASSUME Inv, NEW r \in Requests,
         \/ Busy(r) \/ Unauthorized(r) \/ BodyFails(r) \/ NoSuchSession(r)
         \/ ToolRefuses(r) \/ ToolFails(r) \/ GiveUp(r)
  PROVE  Inv'
  <1>1. /\ req[r].at \in InFlight \cup {"refused"}
        /\ UNCHANGED <<sessions, ensured, controlVars>>
        /\ \E told \in EndsTold \ {"done"} : End(r, told)
    <2>1. CASE Busy(r)
      BY <2>1 DEF Busy, EndsTold
    <2>2. CASE Unauthorized(r)
      BY <2>2 DEF Unauthorized, InFlight, EndsTold
    <2>3. CASE BodyFails(r)
      BY <2>3 DEF BodyFails, InFlight, EndsTold
    <2>4. CASE NoSuchSession(r)
      BY <2>4 DEF NoSuchSession, Asking, InFlight, EndsTold
    <2>5. CASE ToolRefuses(r)
      BY <2>5 DEF ToolRefuses, Asking, InFlight, EndsTold
    <2>6. CASE ToolFails(r)
      BY <2>6 DEF ToolFails, Answered, InFlight, EndsTold
    <2>7. CASE GiveUp(r)
      BY <2>7 DEF GiveUp, InFlight, EndsTold
    <2>8. QED
      BY <2>1, <2>2, <2>3, <2>4, <2>5, <2>6, <2>7
  <1>2. QED
    BY <1>1, EndsOnly

LEMMA ToolDonePreserves ==
  ASSUME Inv, NEW r \in Requests, ToolDone(r)
  PROVE  Inv'
  <1>1. /\ req[r].at \in InFlight /\ End(r, "done") /\ UNCHANGED <<sessions, ensured, controlVars>>
        /\ ctl[r].step = "ok" /\ (ctl[r].call \in Posts \/ ctl[r].call = "read")
    <2>1. PICK sent \in {"post", "post again", "read"} : Answered(r, sent, "ok")
      BY DEF ToolDone
    <2>2. req[r].at = "waiting" /\ ctl[r] = [call |-> sent, step |-> "ok"]
      BY <2>1 DEF Answered
    <2>3. QED
      <3> DEFINE answer == [call |-> sent, step |-> "ok"]
      <3>1. answer.call = sent /\ answer.step = "ok" /\ ctl[r] = answer
        BY <2>2
      <3> HIDE DEF answer
      <3>2. ctl[r].call = sent /\ ctl[r].step = "ok"
        BY <3>1
      <3>3. sent \in Posts \/ sent = "read"
        BY DEF Posts
      <3>4. End(r, "done") /\ UNCHANGED <<sessions, ensured, controlVars>>
        BY DEF ToolDone
      <3>5. QED
        BY <2>2, <3>2, <3>3, <3>4 DEF InFlight
  <1>2. req[r].kind = "read" \/ r \in stored \cap audited
    BY <1>1 DEF Inv, CallsSound, CallSound
  <1>3. QED
    BY <1>1, <1>2, EndsOnly DEF EndsTold

\* A call goes out for a request that has a slot, and keeps it.
LEMMA CallPreserves ==
  ASSUME Inv, NEW r \in Requests, req[r].at \in InFlight,
         NEW call \in {"ensure", "post", "create session", "post again", "read"},
         call = "read" => req[r].kind = "read",
         Calls(r, call)
  PROVE  Inv'
  <1> DEFINE q == [req[r] EXCEPT !.at = "waiting"]
             sent == [call |-> call, step |-> "sent"]
  <1>1. /\ req[r] \in Request /\ req' = [req EXCEPT ![r] = q] /\ ctl' = [ctl EXCEPT ![r] = sent]
        /\ UNCHANGED <<sessions, active, rights, stored, audited, grace>>
    BY DEF Calls, Goes, Inv, ServerTyped
  <1>2. /\ q \in Request /\ q.at = "waiting" /\ q.told = req[r].told
        /\ q.kind = req[r].kind /\ q.counted = req[r].counted /\ q.cred = req[r].cred
    BY <1>1 DEF Request
  <1>3. sent \in Call /\ sent.call = call /\ sent.step = "sent"
    BY DEF Call
  <1>4. req[r].counted /\ req[r].cred \in Credentials /\ active <= MaxInFlight
    BY DEF Inv, SlotsSound
  <1> HIDE DEF q, sent
  <1>5. ServerTyped'
    BY <1>1, <1>2, <1>3 DEF Inv, ServerTyped
  <1>6. SlotsSound'
    <2>1. SlotMoves(req[r].at \in InFlight, q.at \in InFlight)
      BY <1>1, <1>2 DEF InFlight, SlotMoves
    <2>2. QED
      BY <1>1, <1>2, <1>4, <2>1, SlotsMove DEF Inv
  <1>7. SessionsSound'
    BY <1>1 DEF Inv, SessionsSound, Open
  <1>8. /\ \A other \in Requests : req'[other] = IF other = r THEN q ELSE req[other]
        /\ \A other \in Requests : ctl'[other] = IF other = r THEN sent ELSE ctl[other]
    BY <1>1 DEF Inv, ServerTyped
  <1>9. CallsSound'
    <2>1. ASSUME NEW other \in Requests PROVE CallSound(other)'
      <3>1. CASE other = r
        BY <1>2, <1>3, <1>4, <1>8, <3>1 DEF CallSound
      <3>2. CASE other # r
        BY <1>1, <1>8, <3>2 DEF Inv, CallsSound, CallSound
      <3>3. QED
        BY <3>1, <3>2
    <2>2. QED
      BY <2>1 DEF CallsSound
  <1>10. ToldSound'
    <2> SUFFICES ASSUME NEW other \in Requests, req'[other].told = "done"
                 PROVE  req'[other].kind = "read" \/ other \in stored' \cap audited'
      BY DEF ToldSound
    <2>1. CASE other = r
      BY <1>1, <1>2, <1>8, <2>1 DEF Inv, ToldSound
    <2>2. CASE other # r
      BY <1>1, <1>8, <2>2 DEF Inv, ToldSound
    <2>3. QED
      BY <2>1, <2>2
  <1>11. QED
    BY <1>5, <1>6, <1>7, <1>9, <1>10 DEF Inv

LEMMA CallingPreserves ==
  ASSUME Inv, NEW r \in Requests,
         CallTool(r) \/ Ensured(r) \/ SessionMissing(r) \/ SessionCreated(r)
  PROVE  Inv'
  <1>1. req[r].at \in InFlight
    BY DEF CallTool, Ensured, SessionMissing, SessionCreated, Answered, InFlight
  <1>2. \E call \in {"ensure", "post", "create session", "post again", "read"} :
            Calls(r, call) /\ (call = "read" => req[r].kind = "read")
    <2>1. CASE CallTool(r)
      BY <2>1 DEF CallTool
    <2>2. CASE Ensured(r)
      BY <2>2 DEF Ensured
    <2>3. CASE SessionMissing(r)
      BY <2>3 DEF SessionMissing
    <2>4. CASE SessionCreated(r)
      BY <2>4 DEF SessionCreated
    <2>5. QED
      BY <2>1, <2>2, <2>3, <2>4
  <1>3. QED
    BY <1>1, <1>2, CallPreserves

-----------------------------------------------------------------------------
(* Control, and what changes under it. *)

\* A step of Control in the call of r: it may only add to what is kept, and
\* what it says of a record it posts is so.
LEMMA ControlPreserves ==
  ASSUME Inv, NEW r \in Requests, NEW step, UNCHANGED <<sessions, active, req, rights, grace>>,
         step \in {"authorised", "forbidden", "stored", "missing", "ok", "failed"},
         ctl[r].step # "none",
         ctl' = [ctl EXCEPT ![r].step = step],
         stored \subseteq stored', audited \subseteq audited',
         ctl[r].call \in Posts =>
            /\ step = "authorised" => rights[req[r].cred] \in MayWrite
            /\ step \in {"stored", "ok"} => r \in stored'
            /\ step = "ok" => r \in audited'
  PROVE  Inv'
  <1> DEFINE c == [ctl[r] EXCEPT !.step = step]
  <1>1. ctl[r] \in Call /\ ctl' = [ctl EXCEPT ![r] = c]
    BY DEF Inv, ServerTyped
  <1>2. c \in Call /\ c.call = ctl[r].call /\ c.step = step
    BY <1>1 DEF Call
  <1> HIDE DEF c
  <1>3. \A other \in Requests : ctl'[other] = IF other = r THEN c ELSE ctl[other]
    BY <1>1 DEF Inv, ServerTyped
  <1>4. ServerTyped'
    BY <1>1, <1>2 DEF Inv, ServerTyped
  <1>5. SlotsSound' /\ SessionsSound'
    BY SlotsRest DEF Inv, SessionsSound, Open
  <1>6. CallsSound'
    <2>1. ASSUME NEW other \in Requests PROVE CallSound(other)'
      <3>1. CallSound(other)
        BY DEF Inv, CallsSound
      <3>2. CASE other = r
        BY <1>2, <1>3, <3>1, <3>2 DEF CallSound
      <3>3. CASE other # r
        BY <1>3, <3>1, <3>3 DEF CallSound
      <3>4. QED
        BY <3>2, <3>3
    <2>2. QED
      BY <2>1 DEF CallsSound
  <1>7. ToldSound'
    BY DEF Inv, ToldSound
  <1>8. QED
    BY <1>4, <1>5, <1>6, <1>7 DEF Inv

LEMMA ControlsPreserve ==
  ASSUME Inv, NEW r \in Requests, Control(r)
  PROVE  Inv'
  <1>1. CallSound(r)
    BY DEF Inv, CallsSound
  <1>2. CASE Authorise(r)
    <2>1. ctl[r].call \in Posts => Needs(ctl[r].call) = MayWrite
      BY DEF Posts, Needs
    <2>2. PICK step \in {"authorised", "forbidden"} :
            ctl' = [ctl EXCEPT ![r].step = step] /\ (step = "authorised" => May(r))
      BY <1>2 DEF Authorise, ControlStep
    <2>3. ctl[r].step # "none" /\ UNCHANGED <<sessions, active, req, rights, grace, stored, audited>>
      BY <1>2 DEF Authorise, ControlStep
    <2>4. QED
      BY <2>1, <2>2, <2>3, ControlPreserves DEF May
  <1>3. CASE Store(r)
    <2>1. PICK step \in {"stored", "missing"} :
            ctl' = [ctl EXCEPT ![r].step = step] /\ (step = "stored" => r \in stored')
      BY <1>3 DEF Store, ControlStep
    <2>2. ctl[r].step # "none" /\ UNCHANGED <<sessions, active, req, rights, grace, audited>>
          /\ stored \subseteq stored'
      BY <1>3 DEF Store, ControlStep
    <2>3. QED
      BY <2>1, <2>2, ControlPreserves
  <1>4. CASE Audit(r)
    <2>1. ctl[r].call \in Posts => r \in stored
      BY <1>1, <1>4 DEF Audit, ControlStep, CallSound
    <2>2. /\ ctl' = [ctl EXCEPT ![r].step = "ok"] /\ ctl[r].step # "none"
          /\ UNCHANGED <<sessions, active, req, rights, grace, stored>>
          /\ r \in audited' /\ audited \subseteq audited'
      BY <1>4 DEF Audit, Audits, ControlStep
    <2>3. QED
      BY <2>1, <2>2, ControlPreserves
  <1>5. CASE OtherCall(r)
    <2>1. /\ ctl' = [ctl EXCEPT ![r].step = "ok"] /\ ctl[r].step # "none" /\ ctl[r].call \notin Posts
          /\ UNCHANGED <<sessions, active, req, rights, grace, stored, audited>>
      BY <1>5 DEF OtherCall, ControlStep, Posts
    <2>2. QED
      BY <2>1, ControlPreserves
  <1>6. CASE ControlFails(r)
    <2>1. /\ ctl' = [ctl EXCEPT ![r].step = "failed"] /\ ctl[r].step # "none"
          /\ UNCHANGED <<sessions, active, req, rights, grace, stored, audited>>
      BY <1>6 DEF ControlFails, serverVars, Running
    <2>2. QED
      BY <2>1, ControlPreserves
  <1>7. QED
    BY <1>2, <1>3, <1>4, <1>5, <1>6 DEF Control

LEMMA ExpirePreserves ==
  ASSUME Inv, NEW s \in Sids, Expire(s)
  PROVE  Inv'
  <1>1. /\ s \in Open /\ sessions' = [sessions EXCEPT ![s] = Gone]
        /\ UNCHANGED <<active, req, controlVars>>
    BY DEF Expire, Open
  <1>2. SessionsSound'
    BY <1>1, OpenMoves DEF Inv
  <1>3. SlotsSound'
    BY <1>1, SlotsRest DEF Inv
  <1>4. ServerTyped' /\ CallsSound' /\ ToldSound'
    BY <1>1 DEF Inv, ServerTyped, CallsSound, CallSound, ToldSound, controlVars
  <1>5. QED
    BY <1>2, <1>3, <1>4 DEF Inv

\* The calls that were past the check go on with what they had.
LEMMA ChangeRightsPreserves ==
  ASSUME Inv, NEW c \in Credentials, ChangeRights(c)
  PROVE  Inv'
  <1>1. /\ UNCHANGED <<sessions, active, req, ensured, ctl, stored, audited>>
        /\ grace' = {r \in Requests : ctl[r].step = "authorised"}
        /\ \E new \in Rights : rights' = [rights EXCEPT ![c] = new]
    BY DEF ChangeRights, serverVars
  <1>2. ServerTyped' /\ SlotsSound' /\ SessionsSound' /\ ToldSound'
    BY <1>1, SlotsRest DEF Inv, ServerTyped, SessionsSound, Open, ToldSound
  <1>3. CallsSound'
    <2>1. ASSUME NEW r \in Requests PROVE CallSound(r)'
      <3>1. CallSound(r) /\ (ctl[r].step = "authorised" => r \in grace')
        BY <1>1 DEF Inv, CallsSound
      <3>2. QED
        BY <1>1, <3>1 DEF CallSound
    <2>2. QED
      BY <2>1 DEF CallsSound
  <1>4. QED
    BY <1>2, <1>3 DEF Inv

-----------------------------------------------------------------------------
(* The invariant, and what follows from it. *)

LEMMA InvInit == Init => Inv
  <1> SUFFICES ASSUME Init PROVE Inv
    OBVIOUS
  <1>1. \A r \in Requests : req[r] = NotSent /\ ctl[r] = NoCtl
    BY DEF Init
  <1>2. NotSent \in Request /\ NoCtl \in Call
    BY DEF NotSent, NoCtl, Request, Call
  <1>3. Counting = {} /\ Open = {} /\ active = 0
    BY <1>1, ServerAssumption DEF Init, NotSent, Counting, InFlight, Open
  <1>4. ServerTyped
    BY <1>2 DEF Init, ServerTyped, MayWrite, Rights
  <1>5. SlotsSound /\ SessionsSound
    <2>1. \A r \in Requests : req[r].at = "new"
      BY <1>1 DEF NotSent
    <2>2. QED
      <3>1. \A r \in Requests : req[r].at \notin InFlight /\ req[r].at # "refused"
        BY <2>1 DEF InFlight
      <3>2. IsFiniteSet({}) /\ Cardinality({}) = 0 /\ 0 <= MaxInFlight /\ 0 <= MaxSessions
        BY FS_EmptySet, ServerAssumption
      <3>3. QED
        BY <1>3, <3>1, <3>2 DEF SlotsSound, SessionsSound
  <1>6. CallsSound /\ ToldSound
    <2>1. \A r \in Requests : req[r].told = "nothing" /\ ctl[r].call = "none" /\ ctl[r].step = "none"
      BY <1>1 DEF NotSent, NoCtl
    <2>2. QED
      BY <2>1 DEF CallsSound, CallSound, ToldSound, Posts
  <1>7. QED
    BY <1>4, <1>5, <1>6 DEF Inv

LEMMA InvStays == Inv /\ UNCHANGED vars => Inv'
  BY SlotsRest DEF vars, serverVars, controlVars, Inv, ServerTyped, SessionsSound, Open,
                   CallsSound, CallSound, ToldSound

LEMMA InvNext == Inv /\ [Next]_<<vars, fusionVars>> => Inv'
  <1> SUFFICES ASSUME Inv, [Next]_<<vars, fusionVars>> PROVE Inv'
    OBVIOUS
  <1>1. CASE UNCHANGED vars
    BY <1>1, InvStays
  <1>2. ASSUME NEW r \in Requests, Handle(r) PROVE Inv'
    BY <1>2, ArrivePreserves, AuthenticatedPreserves, InitializePreserves, DeletePreserves,
       EndingsPreserve, ToolDonePreserves, CallingPreserves DEF Handle
  <1>3. ASSUME NEW r \in Requests, Control(r) PROVE Inv'
    BY <1>3, ControlsPreserve
  <1>4. ASSUME NEW s \in Sids, Expire(s) PROVE Inv'
    BY <1>4, ExpirePreserves
  <1>5. ASSUME NEW c \in Credentials, ChangeRights(c) PROVE Inv'
    BY <1>5, ChangeRightsPreserves
  <1>6. QED
    BY <1>1, <1>2, <1>3, <1>4, <1>5 DEF Next, ServerNext

THEOREM InvHolds == Spec => []Inv
  <1>1. QED
    BY InvInit, InvNext, PTL DEF Spec

\* activeRequests never drifts from the number of requests that hold a slot, and
\* neither they nor the open sessions exceed their limits, whatever the order in
\* which requests are refused, fail, are given up or end (http.ts).
THEOREM SlotsAndSessionsHold == Spec => []SlotsAndSessions
  <1>1. Inv => SlotsAndSessions
    <2> SUFFICES ASSUME Inv PROVE SlotsAndSessions
      OBVIOUS
    <2>1. Counting = {r \in Requests : req[r].at \notin {"new", "refused", "done"}}
      <3>1. \A r \in Requests : req[r].at \in InFlight <=> req[r].at \notin {"new", "refused", "done"}
        BY DEF Inv, ServerTyped, Request, InFlight
      <3>2. QED
        BY <3>1 DEF Counting
    <2>2. QED
      BY <2>1 DEF Inv, SlotsSound, SessionsSound, SlotsAndSessions
  <1>2. QED
    BY <1>1, InvHolds, PTL

\* A record that its caller was told is recorded is in the Core and in Control's
\* audit trail, after any retry, loss or change of rights (tools.ts,
\* control-gateway-client.ts, memory_gateway.py).
THEOREM ToldIsAlwaysKept == Spec => []ToldMeansKept
  <1>1. Inv => ToldMeansKept
    BY DEF Inv, ToldSound, ToldMeansKept
  <1>2. QED
    BY <1>1, InvHolds, PTL

\* A record reaches the Core only under rights its credential has then, or had
\* when Control checked the call it came with: never under what /me reported.
THEOREM RightsAlwaysHoldWhenUsed == Spec => RightsHoldWhenUsed
  <1> DEFINE Kept == \A r \in stored' \ stored : rights[req[r].cred] \in MayWrite \/ r \in grace
  <1>1. Inv /\ [Next]_<<vars, fusionVars>> => [Kept]_<<vars, fusionVars>>
    <2> SUFFICES ASSUME Inv, Next PROVE Kept
      OBVIOUS
    <2>1. ASSUME NEW r \in Requests, Store(r) PROVE Kept
      <3>1. stored' \subseteq stored \cup {r} /\ ctl[r].call \in Posts /\ ctl[r].step = "authorised"
        BY <2>1 DEF Store, ControlStep
      <3>2. CallSound(r)
        BY DEF Inv, CallsSound
      <3>3. QED
        BY <3>1, <3>2 DEF CallSound
    <2>2. CASE \A r \in Requests : ~Store(r)
      <3>1. UNCHANGED stored
        <4>1. ASSUME NEW r \in Requests, Handle(r) PROVE UNCHANGED stored
          BY <4>1 DEF Handle, Arrive, Busy, Authenticated, Unauthorized, BodyFails, Initialize,
                      NoSuchSession, Delete, ToolRefuses, CallTool, Ensured, SessionMissing,
                      SessionCreated, ToolDone, ToolFails, GiveUp, Calls, controlVars
        <4>2. ASSUME NEW r \in Requests, Control(r) PROVE UNCHANGED stored
          BY <2>2, <4>2 DEF Control, Authorise, Audit, OtherCall, ControlFails
        <4>3. QED
          BY <4>1, <4>2 DEF Next, ServerNext, Expire, ChangeRights, vars, controlVars
      <3>2. QED
        BY <3>1
    <2>3. QED
      BY <2>1, <2>2
  <1>2. QED
    BY <1>1, InvHolds, PTL DEF Spec, RightsHoldWhenUsed

=============================================================================
