--------------------------- MODULE DeliveryProofs ---------------------------
(***************************************************************************)
(* A spooled record is kept until its nodes have decided, and a call that is *)
(* told "stored" is told the truth: what the run of Delivery checks of two    *)
(* calls, proved for any number of calls, records, nodes and crashes.         *)
(***************************************************************************)
EXTENDS Delivery, TLAPS

\* The node has stored the record, or refused it.
Decided(p) == Stored(p) \/ p \in refused

\* The spool holds accepted writes only, all that are not decided; the queue is
\* the spool's; and an attempt takes a write out only when it is decided, also
\* the drain that finds no spool file.
Backed ==
    /\ SpoolPairs \subseteq accepted
    /\ \A p \in accepted : p \in SpoolPairs \/ Decided(p)
    /\ up => queue = SpoolPairs
    /\ \A k \in Tasks :
         /\ task[k] = "listed" => k[2] \in accepted
         /\ task[k] \in Removing => Decided(k[2])

\* What an attempt posts is what the node then has.
TaskSound(k) ==
    /\ task[k] \in {"posting", "creating", "reposting", "stored"} => carried[k] # Absent
    /\ task[k] = "stored" => core[k[2]] = carried[k]

\* The attempts of a call carry its body, and what it was told is on the node.
CallSound(c) ==
    /\ body[c] = NoBody => \A t \in Targets : answer[c][t] # "stored"
    /\ \A p \in Pairs : task[<<c, p>>] # "idle" =>
         /\ body[c] # NoBody
         /\ p[1] = body[c].record
         /\ carried[<<c, p>>] = body[c].content
    /\ \A t \in Targets : answer[c][t] = "stored" =>
         core[<<body[c].record, t>>] = body[c].content

Carrying == (\A k \in Tasks : TaskSound(k)) /\ (\A c \in Calls : CallSound(c))

DeliveryInv == TypeOK /\ Backed /\ Carrying

-----------------------------------------------------------------------------
(* Pairs, attempts and the spool. *)

LEMMA TaskParts ==
  ASSUME NEW k \in Tasks
  PROVE  /\ k = <<k[1], k[2]>> /\ k[1] \in Calls \cup {Drain} /\ k[2] \in Pairs
         /\ k[2] = <<k[2][1], k[2][2]>> /\ k[2][1] \in Records /\ k[2][2] \in Targets
  BY DEF Tasks, Pairs

LEMMA BodyParts ==
  ASSUME NEW b \in Bodies
  PROVE  /\ b.record \in Records /\ b.content \in Contents /\ b.content # Absent
         /\ b.targets \in SUBSET Targets /\ b.targets # {}
         /\ \A p \in Pairs : p \in PairsOf(b) <=> p[1] = b.record /\ p[2] \in b.targets
         /\ PairsOf(b) \subseteq Pairs
         /\ b # NoBody
  <1>1. b \in [record : Records, content : Contents, targets : (SUBSET Targets) \ {{}}]
    BY DeliveryAssumption
  <1>2. PairsOf(b) \subseteq Pairs
    BY <1>1 DEF PairsOf, Pairs
  <1>3. \A p \in Pairs : p \in PairsOf(b) <=> p[1] = b.record /\ p[2] \in b.targets
    BY DEF PairsOf, Pairs
  <1>4. /\ b.record \in Records /\ b.content \in Contents
        /\ b.targets \in SUBSET Targets /\ b.targets # {}
    BY <1>1
  <1>5. b.content # Absent /\ b # NoBody
    BY <1>4, DeliveryAssumption
  <1>6. QED
    BY <1>2, <1>3, <1>4, <1>5

SpoolFile == [content : Contents, pending : (SUBSET Targets) \ {{}}]

LEMMA SpoolParts ==
  ASSUME TypeOK
  PROVE  /\ \A r \in Records : spool[r] # Absent => spool[r] \in SpoolFile
         /\ \A f \in SpoolFile : f # Absent
         /\ \A p \in Pairs : p \in SpoolPairs <=> spool[p[1]] # Absent /\ p[2] \in spool[p[1]].pending
         /\ \A r \in Records : PendingTargets(r) \in SUBSET Targets
  <1>1. \A f \in SpoolFile : f \in [content : Contents, pending : SUBSET Targets]
    BY DEF SpoolFile
  <1>2. \A r \in Records : spool[r] # Absent => spool[r] \in SpoolFile
    BY DEF TypeOK, SpoolFile
  <1>3. \A r \in Records : spool[r] # Absent => spool[r].pending \in SUBSET Targets
    BY <1>1, <1>2
  <1>4. QED
    BY <1>1, <1>2, <1>3, DeliveryAssumption DEF SpoolPairs, PendingTargets

\* enqueueRecord adds the body's pairs to what is spooled.
LEMMA SpoolGains ==
  ASSUME TypeOK, NEW b \in Bodies, ~SpoolCollision(b),
         spool' = [spool EXCEPT ![b.record] = SpoolWith(b)]
  PROVE  /\ spool' \in [Records -> SpoolFile \cup {Absent}]
         /\ SpoolPairs' = SpoolPairs \cup PairsOf(b)
  <1> DEFINE file == SpoolWith(b)
  <1>1. PendingTargets(b.record) \in SUBSET Targets /\ b.record \in Records
    BY SpoolParts, BodyParts
  <1>2. /\ file \in SpoolFile
        /\ file.pending = PendingTargets(b.record) \cup b.targets
    <2>1. b.content \in Contents /\ b.targets \in SUBSET Targets /\ b.targets # {}
      BY BodyParts
    <2>2. PendingTargets(b.record) \cup b.targets \in (SUBSET Targets) \ {{}}
      BY <1>1, <2>1
    <2>3. QED
      BY <2>1, <2>2 DEF SpoolWith, SpoolFile
  <1>3. spool \in [Records -> SpoolFile \cup {Absent}]
    BY DEF TypeOK, SpoolFile
  <1> HIDE DEF file
  <1>4. spool' = [spool EXCEPT ![b.record] = file]
    BY DEF file
  <1>5. /\ spool' \in [Records -> SpoolFile \cup {Absent}]
        /\ spool'[b.record] = file
        /\ \A r \in Records : r # b.record => spool'[r] = spool[r]
    BY <1>1, <1>2, <1>3, <1>4
  <1>6. file # Absent
    BY <1>2, SpoolParts
  <1>7. ASSUME NEW p \in Pairs
        PROVE  p[2] \in PendingTargets(p[1])' <=> p[2] \in PendingTargets(p[1]) \/ p \in PairsOf(b)
    <2>1. p[1] \in Records
      BY DEF Pairs
    <2>2. CASE p[1] = b.record
      BY <1>2, <1>5, <1>6, <2>2, BodyParts DEF PendingTargets
    <2>3. CASE p[1] # b.record
      BY <1>5, <2>1, <2>3, BodyParts DEF PendingTargets
    <2>4. QED
      BY <2>2, <2>3
  <1>8. QED
    BY <1>5, <1>7, BodyParts DEF SpoolPairs

\* resolve takes one pair out.
LEMMA SpoolLoses ==
  ASSUME TypeOK, NEW k \in Tasks, spool' = SpoolWithout(k)
  PROVE  /\ spool' \in [Records -> SpoolFile \cup {Absent}]
         /\ SpoolPairs' = SpoolPairs \ {k[2]}
  <1> DEFINE r == k[2][1]
             t == k[2][2]
  <1>1. r \in Records /\ t \in Targets /\ k[2] = <<r, t>>
    BY TaskParts
  <1>2. spool \in [Records -> SpoolFile \cup {Absent}]
    BY DEF TypeOK, SpoolFile
  <1> DEFINE left == PendingTargets(r) \ {t}
  <1>3. CASE left = {}
    <2>1. spool' = [spool EXCEPT ![r] = Absent]
      BY <1>3 DEF SpoolWithout
    <2>2. \A p \in Pairs : p \in SpoolPairs' <=> p \in SpoolPairs /\ p # k[2]
      <3>1. ASSUME NEW p \in Pairs PROVE p[2] \in PendingTargets(p[1])' <=> p[2] \in PendingTargets(p[1]) /\ p # k[2]
        <4>1. p = <<p[1], p[2]>> /\ p[1] \in Records
          BY DEF Pairs
        <4>2. CASE p[1] = r
          BY <1>1, <1>2, <1>3, <2>1, <4>1, <4>2 DEF PendingTargets
        <4>3. CASE p[1] # r
          BY <1>1, <1>2, <2>1, <4>1, <4>3 DEF PendingTargets
        <4>4. QED
          BY <4>2, <4>3
      <3>2. QED
        BY <3>1 DEF SpoolPairs
    <2>3. QED
      BY <1>1, <1>2, <2>1, <2>2 DEF SpoolPairs
  <1>4. CASE left # {}
    <2> DEFINE file == [content |-> spool[r].content, pending |-> left]
    <2>1. spool[r] # Absent /\ spool[r] \in SpoolFile /\ left = spool[r].pending \ {t}
      BY <1>1, <1>4, SpoolParts DEF PendingTargets
    <2>2. spool' = [spool EXCEPT ![r] = file]
      BY <1>2, <1>4 DEF SpoolWithout
    <2>3. file \in SpoolFile /\ file.pending = left
      <3>1. spool[r].content \in Contents /\ spool[r].pending \in (SUBSET Targets) \ {{}}
        BY <2>1 DEF SpoolFile
      <3>2. left \in (SUBSET Targets) \ {{}}
        BY <1>4, <2>1, <3>1
      <3>3. QED
        BY <3>1, <3>2 DEF SpoolFile
    <2> HIDE DEF file
    <2>4. /\ spool' \in [Records -> SpoolFile \cup {Absent}]
          /\ spool'[r] = file
          /\ \A q \in Records : q # r => spool'[q] = spool[q]
      BY <1>1, <1>2, <2>2, <2>3
    <2>5. file # Absent
      BY <2>3, SpoolParts
    <2>6. ASSUME NEW p \in Pairs PROVE p[2] \in PendingTargets(p[1])' <=> p[2] \in PendingTargets(p[1]) /\ p # k[2]
      <3>1. p = <<p[1], p[2]>> /\ p[1] \in Records
        BY DEF Pairs
      <3>2. CASE p[1] = r
        BY <1>1, <2>1, <2>3, <2>4, <2>5, <3>1, <3>2 DEF PendingTargets
      <3>3. CASE p[1] # r
        BY <1>1, <2>4, <3>1, <3>3 DEF PendingTargets
      <3>4. QED
        BY <3>2, <3>3
    <2>7. QED
      BY <2>4, <2>6 DEF SpoolPairs
  <1>5. QED
    BY <1>3, <1>4

LEMMA SpoolKept == UNCHANGED spool => SpoolPairs' = SpoolPairs
  BY DEF SpoolPairs, PendingTargets

-----------------------------------------------------------------------------
(* Types. *)

LEMMA DieTypes ==
  ASSUME Die
  PROVE  /\ task' \in [Tasks -> {"idle"}] /\ carried' \in [Tasks -> {Absent}]
         /\ up' = FALSE /\ draining' = FALSE /\ clients' = clients
  BY DEF Die

LEMMA AttemptMoves ==
  ASSUME TypeOK, NEW k \in Tasks, Attempt(k)
  PROVE  /\ up /\ task[k] \in {"posting", "reposting", "creating"}
         /\ \E s \in {"stored", "retry", "refused", "creating", "reposting"} :
              task' = [task EXCEPT ![k] = s]
         /\ UNCHANGED <<fileVars, up, clients, draining, carried, callVars, reachable, refusing, accepted>>
  <1>1. CASE PostStored(k)
    BY <1>1 DEF PostStored, Posting
  <1>2. CASE PostLost(k)
    BY <1>2 DEF PostLost, nodeVars, historyVars
  <1>3. CASE PostRefused(k)
    BY <1>3 DEF PostRefused, nodeVars, historyVars
  <1>4. CASE SessionMissing(k)
    BY <1>4 DEF SessionMissing, nodeVars, historyVars
  <1>5. CASE CreateSession(k)
    BY <1>5 DEF CreateSession, historyVars
  <1>6. QED
    BY <1>1, <1>2, <1>3, <1>4, <1>5 DEF Attempt

LEMMA AttemptNodes ==
  ASSUME TypeOK, NEW k \in Tasks, Attempt(k)
  PROVE  /\ \/ core' = core
            \/ /\ core[k[2]] \in {Absent, carried[k]} /\ core' = [core EXCEPT ![k[2]] = carried[k]]
               /\ task[k] \in {"posting", "reposting"}
         /\ task'[k] = "stored" => core'[k[2]] = carried[k] /\ task[k] \in {"posting", "reposting"}
         /\ task'[k] = "refused" => k[2] \in refused'
         /\ refused' \in {refused, refused \cup {k[2]}}
         /\ session' \in {session, session \cup {k[2][2]}}
  <1>0. task \in [Tasks -> Stages] /\ core \in [Pairs -> Contents \cup {Absent}] /\ k[2] \in Pairs
    BY TaskParts DEF TypeOK
  <1>1. CASE PostStored(k)
    BY <1>0, <1>1 DEF PostStored, Posting, Accepts
  <1>2. CASE PostLost(k)
    BY <1>0, <1>2 DEF PostLost, nodeVars, historyVars
  <1>3. CASE PostRefused(k)
    BY <1>0, <1>3 DEF PostRefused, nodeVars, historyVars
  <1>4. CASE SessionMissing(k)
    BY <1>0, <1>4 DEF SessionMissing, nodeVars, historyVars
  <1>5. CASE CreateSession(k)
    BY <1>0, <1>5 DEF CreateSession, historyVars
  <1>6. QED
    BY <1>1, <1>2, <1>3, <1>4, <1>5 DEF Attempt

\* What a call is told, and that its attempt ends.
LEMMA SettleMoves ==
  ASSUME TypeOK, NEW k \in Tasks, Settle(k)
  PROVE  /\ task' = [task EXCEPT ![k] = "idle"]
         /\ carried' = [carried EXCEPT ![k] = Absent]
         /\ draining' \in BOOLEAN
         /\ UNCHANGED <<up, clients, body, nodeVars, historyVars>>
         /\ answer' \in [Calls -> [Targets -> Answers]]
         /\ \A c \in Calls, t \in Targets : answer'[c][t] = "stored" =>
              \/ answer[c][t] = "stored"
              \/ /\ c = k[1] /\ t = k[2][2] /\ task[k] = "stored"
  <1>0. /\ answer \in [Calls -> [Targets -> Answers]] /\ draining \in BOOLEAN
        /\ k[1] \in Calls \cup {Drain} /\ k[2][2] \in Targets
    BY TaskParts DEF TypeOK
  <1>1. ASSUME NEW a \in Answers, Told(k, a)
        PROVE  /\ answer' \in [Calls -> [Targets -> Answers]]
               /\ \A c \in Calls, t \in Targets : answer'[c][t] = "stored" =>
                    \/ answer[c][t] = "stored"
                    \/ c = k[1] /\ t = k[2][2] /\ a = "stored"
    <2>1. CASE k[1] = Drain
      BY <1>0, <1>1, <2>1 DEF Told
    <2>2. CASE k[1] # Drain
      <3> DEFINE said == [answer[k[1]] EXCEPT ![k[2][2]] =
                            IF answer[k[1]][k[2][2]] = "error" THEN "error" ELSE a]
      <3>1. k[1] \in Calls /\ answer' = [answer EXCEPT ![k[1]] = said]
        BY <1>0, <1>1, <2>2 DEF Told
      <3>2. /\ said \in [Targets -> Answers]
            /\ \A t \in Targets : said[t] = "stored" =>
                 answer[k[1]][t] = "stored" \/ (t = k[2][2] /\ a = "stored")
        BY <1>0, <1>1, <3>1 DEF Answers
      <3> HIDE DEF said
      <3>3. QED
        BY <1>0, <3>1, <3>2
    <2>3. QED
      BY <2>1, <2>2
  <1>2. CASE Resolve(k)
    <2>1. /\ Told(k, IF task[k] = "stored" THEN "stored" ELSE "failed")
          /\ Finish(k) /\ UNCHANGED <<body, nodeVars, historyVars>>
      BY <1>2 DEF Resolve
    <2>2. CASE task[k] = "stored"
      BY <1>0, <1>1, <2>1, <2>2 DEF Finish, Answers
    <2>3. CASE task[k] # "stored"
      BY <1>0, <1>1, <2>1, <2>3 DEF Finish, Answers
    <2>4. QED
      BY <2>2, <2>3
  <1>3. CASE MarkPending(k)
    <2>1. Told(k, "pending") /\ Finish(k) /\ UNCHANGED <<body, nodeVars, historyVars>>
      BY <1>3 DEF MarkPending
    <2>2. QED
      BY <1>0, <1>1, <2>1 DEF Finish, Answers
  <1>4. CASE EntryDisappeared(k)
    <2> DEFINE told == [t \in Targets |-> "error"]
    <2>1. /\ answer' = answer \/ (k[1] \in Calls /\ answer' = [answer EXCEPT ![k[1]] = told])
          /\ task' = [task EXCEPT ![k] = "idle"] /\ carried' = [carried EXCEPT ![k] = Absent]
          /\ draining' \in BOOLEAN
          /\ UNCHANGED <<up, clients, body, nodeVars, historyVars>>
      BY <1>0, <1>4 DEF EntryDisappeared
    <2>2. told \in [Targets -> Answers] /\ \A t \in Targets : told[t] # "stored"
      BY DEF Answers
    <2> HIDE DEF told
    <2>3. QED
      BY <1>0, <2>1, <2>2
  <1>5. QED
    BY <1>2, <1>3, <1>4 DEF Settle

\* A call that arrives: its body, and what it puts into the spool.
LEMMA ArriveTypes ==
  ASSUME TypeOK, NEW c \in Calls, NEW b \in Bodies, Arrive(c, b)
  PROVE  body' \in [Calls -> Bodies \cup {NoBody}]
  BY DEF Arrive, TypeOK

LEMMA RecordTypes ==
  ASSUME TypeOK, NEW c \in Calls, NEW b \in Bodies, Record(c, b)
  PROVE  TypeOK'
  <1>1. body' \in [Calls -> Bodies \cup {NoBody}]
    BY ArriveTypes DEF Record
  <1>2. spool' \in [Records -> SpoolFile \cup {Absent}]
    BY SpoolGains DEF Record
  <1>3. PairsOf(b) \subseteq Pairs /\ b.content \in Contents
    BY BodyParts
  <1>4. queue' \subseteq Pairs /\ accepted' \subseteq Pairs
    BY <1>3 DEF Record, TypeOK
  <1>5. task' \in [Tasks -> Stages] /\ carried' \in [Tasks -> Contents \cup {Absent}]
    BY <1>3 DEF Record, TypeOK, Stages, Attempting
  <1>6. UNCHANGED <<up, clients, draining, answer, core, session, reachable, refusing, refused>>
    BY DEF Record, nodeVars
  <1>7. QED
    BY <1>1, <1>2, <1>4, <1>5, <1>6 DEF TypeOK, SpoolFile

LEMMA TypeStep == TypeOK /\ [Next]_vars => TypeOK'
  <1> SUFFICES ASSUME TypeOK, [Next]_vars PROVE TypeOK'
    OBVIOUS
  <1>1. CASE UNCHANGED vars
    BY <1>1 DEF TypeOK, vars, fileVars, processVars, callVars, nodeVars, historyVars
  <1>2. ASSUME NEW c \in Calls, NEW b \in Bodies, Record(c, b) PROVE TypeOK'
    BY <1>2, RecordTypes
  <1>3. ASSUME NEW c \in Calls, NEW b \in Bodies, RecordCollides(c, b) PROVE TypeOK'
    <2>1. body' \in [Calls -> Bodies \cup {NoBody}]
      BY <1>3, ArriveTypes DEF RecordCollides
    <2>2. answer' \in [Calls -> [Targets -> Answers]]
      BY <1>3 DEF RecordCollides, TypeOK, Answers
    <2>3. QED
      BY <1>3, <2>1, <2>2 DEF RecordCollides, TypeOK, fileVars, processVars, nodeVars, historyVars
  <1>4. ASSUME NEW c \in Calls, NEW b \in Bodies, RecordDies(c, b) PROVE TypeOK'
    <2>1. body' \in [Calls -> Bodies \cup {NoBody}]
      BY <1>4, ArriveTypes DEF RecordDies
    <2>2. spool' \in [Records -> SpoolFile \cup {Absent}]
      BY <1>4, SpoolGains DEF RecordDies
    <2>3. accepted' \subseteq Pairs
      BY <1>4, BodyParts DEF RecordDies, TypeOK
    <2>4. Die /\ UNCHANGED <<queue, answer, core, session, reachable, refusing, refused>>
      BY <1>4 DEF RecordDies, nodeVars
    <2>5. QED
      BY <2>1, <2>2, <2>3, <2>4, DieTypes DEF TypeOK, SpoolFile, Stages
  <1>5. ASSUME NEW S \in SUBSET Pairs, DrainStart(S) PROVE TypeOK'
    <2>1. task' \in [Tasks -> Stages]
      BY <1>5 DEF DrainStart, TypeOK, Stages, Attempting
    <2>2. QED
      BY <1>5, <2>1 DEF DrainStart, TypeOK, fileVars, callVars, nodeVars, historyVars
  <1>6. ASSUME NEW p \in Pairs, ReadRecord(p) PROVE TypeOK'
    <2> DEFINE k == <<Drain, p>>
               stage == IF spool[p[1]] = Absent THEN "missing"
                        ELSE IF p[2] \notin clients THEN "unavailable" ELSE "posting"
               content == IF spool[p[1]] = Absent THEN Absent ELSE spool[p[1]].content
    <2>1. task' = [task EXCEPT ![k] = stage] /\ carried' = [carried EXCEPT ![k] = content]
      BY <1>6 DEF ReadRecord
    <2>2. stage \in Stages
      BY DEF Stages, Attempting, Removing, Keeping
    <2>3. content \in Contents \cup {Absent}
      BY SpoolParts, p[1] \in Records DEF SpoolFile, Pairs
    <2> HIDE DEF stage, content
    <2>4. task' \in [Tasks -> Stages] /\ carried' \in [Tasks -> Contents \cup {Absent}]
      BY <2>1, <2>2, <2>3 DEF TypeOK
    <2>5. QED
      BY <1>6, <2>4 DEF ReadRecord, TypeOK, fileVars, callVars, nodeVars, historyVars
  <1>7. ASSUME NEW k \in Tasks, Attempt(k) PROVE TypeOK'
    <2>1. PICK s \in {"stored", "retry", "refused", "creating", "reposting"} : task' = [task EXCEPT ![k] = s]
      BY <1>7, AttemptMoves
    <2>2. s \in Stages
      BY DEF Stages, Attempting, Removing, Keeping
    <2>3. task' \in [Tasks -> Stages]
      BY <2>1, <2>2 DEF TypeOK
    <2>4. core' \in [Pairs -> Contents \cup {Absent}]
      BY <1>7, AttemptNodes DEF TypeOK
    <2>5. refused' \subseteq Pairs /\ session' \subseteq Targets
      BY <1>7, AttemptNodes, TaskParts DEF TypeOK
    <2>6. UNCHANGED <<spool, queue, up, clients, draining, carried, body, answer, reachable, refusing, accepted>>
      BY <1>7, AttemptMoves DEF fileVars, callVars
    <2>7. QED
      BY <2>3, <2>4, <2>5, <2>6 DEF TypeOK
  <1>8. ASSUME NEW k \in Tasks, Settle(k) PROVE TypeOK'
    <2>1. task' \in [Tasks -> Stages] /\ carried' \in [Tasks -> Contents \cup {Absent}]
      BY <1>8, SettleMoves DEF TypeOK, Stages
    <2>2. spool' \in [Records -> SpoolFile \cup {Absent}] /\ queue' \subseteq Pairs
      <3>1. CASE Resolve(k)
        BY <3>1, SpoolLoses DEF Resolve, TypeOK
      <3>2. CASE MarkPending(k) \/ EntryDisappeared(k)
        BY <3>2 DEF MarkPending, EntryDisappeared, fileVars, TypeOK, SpoolFile
      <3>3. QED
        BY <1>8, <3>1, <3>2 DEF Settle
    <2>3. /\ draining' \in BOOLEAN /\ answer' \in [Calls -> [Targets -> Answers]]
          /\ UNCHANGED <<up, clients, body, core, session, reachable, refusing, accepted, refused>>
      BY <1>8, SettleMoves DEF nodeVars, historyVars
    <2>4. QED
      BY <2>1, <2>2, <2>3 DEF TypeOK, SpoolFile
  <1>9. ASSUME NEW k \in Tasks, ResolveDies(k) PROVE TypeOK'
    <2>1. spool' \in [Records -> SpoolFile \cup {Absent}]
      BY <1>9, SpoolLoses DEF ResolveDies
    <2>2. QED
      BY <1>9, <2>1, DieTypes DEF ResolveDies, TypeOK, SpoolFile, Stages, callVars, nodeVars, historyVars
  <1>10. CASE Crash
    BY <1>10, DieTypes DEF Crash, TypeOK, Stages, fileVars, callVars, nodeVars, historyVars
  <1>11. ASSUME NEW C \in Configs, Restart(C) PROVE TypeOK'
    <2>1. queue' \subseteq Pairs
      BY <1>11 DEF Restart, Reconciled, SpoolPairs
    <2>2. QED
      BY <1>11, <2>1 DEF Restart, TypeOK, callVars, nodeVars, historyVars
  <1>12. ASSUME NEW t \in Targets, NodeChanges(t) PROVE TypeOK'
    BY <1>12 DEF NodeChanges, Toggle, TypeOK, fileVars, processVars, callVars, historyVars
  <1>13. QED
    BY <1>1, <1>2, <1>3, <1>4, <1>5, <1>6, <1>7, <1>8, <1>9, <1>10, <1>11, <1>12 DEF Next

-----------------------------------------------------------------------------
(* The nodes and the spool. *)

\* What a node has or has refused stays so.
LEMMA NodesKeep ==
  ASSUME TypeOK, Carrying, [Next]_vars
  PROVE  \A p \in Pairs : /\ core[p] # Absent => core'[p] = core[p]
                          /\ p \in refused => p \in refused'
                          /\ Decided(p) => Decided(p)'
  <1>1. \/ UNCHANGED <<core, refused>>
        \/ \E k \in Tasks : Attempt(k)
    BY DEF Next, vars, nodeVars, historyVars, Record, RecordCollides, RecordDies, DrainStart, ReadRecord,
           Settle, Resolve, MarkPending, EntryDisappeared, ResolveDies, Crash, Restart, NodeChanges
  <1>2. CASE UNCHANGED <<core, refused>>
    BY <1>2 DEF Decided, Stored
  <1>3. ASSUME NEW k \in Tasks, Attempt(k)
        PROVE  \A p \in Pairs : /\ core[p] # Absent => core'[p] = core[p]
                                /\ p \in refused => p \in refused'
    <2>1. refused' \in {refused, refused \cup {k[2]}} /\ k[2] \in Pairs
      BY <1>3, AttemptNodes, TaskParts
    <2>2. \/ core' = core
          \/ core[k[2]] \in {Absent, carried[k]} /\ core' = [core EXCEPT ![k[2]] = carried[k]]
      BY <1>3, AttemptNodes
    <2>3. core \in [Pairs -> Contents \cup {Absent}]
      BY DEF TypeOK
    <2>4. QED
      BY <2>1, <2>2, <2>3
  <1>4. CASE \E k \in Tasks : Attempt(k)
    <2>1. \A p \in Pairs : /\ core[p] # Absent => core'[p] = core[p]
                           /\ p \in refused => p \in refused'
      BY <1>3, <1>4
    <2>2. QED
      BY <2>1 DEF Decided, Stored
  <1>5. QED
    BY <1>1, <1>2, <1>4

\* The spool and the queue as they are: only the attempts change.
LEMMA BackedKept ==
  ASSUME TypeOK, Backed, UNCHANGED <<spool, queue, up, accepted>>,
         \A p \in Pairs : Decided(p) => Decided(p)',
         \A k \in Tasks : /\ task'[k] = "listed" => k[2] \in accepted
                          /\ task'[k] \in Removing => Decided(k[2])'
  PROVE  Backed'
  <1>1. SpoolPairs' = SpoolPairs
    BY SpoolKept
  <1>2. accepted \subseteq Pairs
    BY DEF TypeOK
  <1>3. QED
    BY <1>1, <1>2 DEF Backed

\* Another content of the spool, and attempts that are none or were there before.
LEMMA BackedMoves ==
  ASSUME TypeOK, Backed, NEW gained \in SUBSET Pairs, NEW lost \in SUBSET Pairs,
         SpoolPairs' = (SpoolPairs \cup gained) \ lost,
         accepted' = accepted \cup gained,
         \A p \in lost : Decided(p)',
         up' => queue' = SpoolPairs',
         \A p \in Pairs : Decided(p) => Decided(p)',
         \A k \in Tasks : task'[k] \in {"listed"} \cup Removing => task[k] = task'[k]
  PROVE  Backed'
  <1>1. accepted' \subseteq Pairs
    BY DEF TypeOK
  <1>2. SpoolPairs' \subseteq accepted'
    BY DEF Backed
  <1>3. \A p \in accepted' : p \in SpoolPairs' \/ Decided(p)'
    BY <1>1 DEF Backed
  <1>4. ASSUME NEW k \in Tasks
        PROVE  /\ task'[k] = "listed" => k[2] \in accepted'
               /\ task'[k] \in Removing => Decided(k[2])'
    BY TaskParts DEF Backed
  <1>5. QED
    BY <1>2, <1>3, <1>4 DEF Backed

LEMMA BackedStep == TypeOK /\ Backed /\ Carrying /\ [Next]_vars => Backed'
  <1> SUFFICES ASSUME TypeOK, Backed, Carrying, [Next]_vars PROVE Backed'
    OBVIOUS
  <1>0. /\ \A p \in Pairs : Decided(p) => Decided(p)'
        /\ task \in [Tasks -> Stages] /\ accepted \subseteq Pairs
        /\ \A k \in Tasks : k[2] \in Pairs
    BY NodesKeep, TaskParts DEF TypeOK
  <1>1. CASE UNCHANGED vars
    <2>1. UNCHANGED <<spool, queue, up, accepted, task>>
      BY <1>1 DEF vars, fileVars, processVars, historyVars
    <2>2. QED
      BY <1>0, <2>1, BackedKept DEF Backed
  <1>2. ASSUME NEW c \in Calls, NEW b \in Bodies, Record(c, b) PROVE Backed'
    <2>1. /\ SpoolPairs' = (SpoolPairs \cup PairsOf(b)) \ {} /\ queue' = queue \cup PairsOf(b)
          /\ accepted' = accepted \cup PairsOf(b) /\ up /\ PairsOf(b) \in SUBSET Pairs
      BY <1>2, SpoolGains, BodyParts DEF Record, Arrive
    <2>2. queue' = SpoolPairs'
      BY <2>1 DEF Backed
    <2>3. \A k \in Tasks : task'[k] \in {"listed"} \cup Removing => task[k] = task'[k]
      BY <1>2 DEF Record, Removing
    <2>4. {} \in SUBSET Pairs /\ \A p \in {} : Decided(p)'
      OBVIOUS
    <2>5. QED
      BY <1>0, <2>1, <2>2, <2>3, <2>4, BackedMoves
  <1>3. ASSUME NEW c \in Calls, NEW b \in Bodies, RecordCollides(c, b) PROVE Backed'
    <2>1. UNCHANGED <<spool, queue, up, accepted, task>>
      BY <1>3 DEF RecordCollides, fileVars, processVars, historyVars
    <2>2. QED
      BY <1>0, <2>1, BackedKept DEF Backed
  <1>4. ASSUME NEW c \in Calls, NEW b \in Bodies, RecordDies(c, b) PROVE Backed'
    <2>1. /\ SpoolPairs' = (SpoolPairs \cup PairsOf(b)) \ {}
          /\ accepted' = accepted \cup PairsOf(b) /\ PairsOf(b) \in SUBSET Pairs
      BY <1>4, SpoolGains, BodyParts DEF RecordDies
    <2>2. up' = FALSE /\ \A k \in Tasks : task'[k] = "idle"
      BY <1>4, DieTypes DEF RecordDies
    <2>3. {} \in SUBSET Pairs /\ \A p \in {} : Decided(p)'
      OBVIOUS
    <2>4. QED
      BY <1>0, <2>1, <2>2, <2>3, BackedMoves DEF Removing
  <1>5. ASSUME NEW S \in SUBSET Pairs, DrainStart(S) PROVE Backed'
    <2>1. /\ UNCHANGED <<spool, queue, up, accepted>> /\ S \subseteq accepted
          /\ task' = [k \in Tasks |-> IF k \in {Drain} \X S THEN "listed" ELSE task[k]]
      BY <1>5 DEF DrainStart, fileVars, historyVars, Backed
    <2>2. \A k \in Tasks : /\ task'[k] = "listed" => k[2] \in accepted
                           /\ task'[k] \in Removing => task[k] = task'[k]
      BY <2>1 DEF Backed, Removing
    <2>3. QED
      BY <1>0, <2>1, <2>2, BackedKept DEF Backed
  <1>6. ASSUME NEW p \in Pairs, ReadRecord(p) PROVE Backed'
    <2> DEFINE k == <<Drain, p>>
               stage == IF spool[p[1]] = Absent THEN "missing"
                        ELSE IF p[2] \notin clients THEN "unavailable" ELSE "posting"
    <2>1. /\ UNCHANGED <<spool, queue, up, accepted>> /\ task' = [task EXCEPT ![k] = stage]
          /\ task[k] = "listed" /\ k \in Tasks /\ k[2] = p
      BY <1>6 DEF ReadRecord, fileVars, historyVars, Tasks
    <2>2. stage = "missing" => Decided(p)
      <3>1. p \in accepted
        BY <2>1 DEF Backed
      <3>2. stage = "missing" => p \notin SpoolPairs
        BY SpoolParts
      <3>3. QED
        BY <3>1, <3>2 DEF Backed
    <2>3. stage \notin {"listed", "stored", "refused"}
      OBVIOUS
    <2> HIDE DEF stage, k
    <2>4. \A j \in Tasks : /\ task'[j] = "listed" => j[2] \in accepted
                           /\ task'[j] \in Removing => Decided(j[2])'
      BY <1>0, <2>1, <2>2, <2>3 DEF Backed, Removing
    <2>5. QED
      BY <1>0, <2>1, <2>4, BackedKept
  <1>7. ASSUME NEW k \in Tasks, Attempt(k) PROVE Backed'
    <2>1. PICK s \in {"stored", "retry", "refused", "creating", "reposting"} : task' = [task EXCEPT ![k] = s]
      BY <1>7, AttemptMoves
    <2>2. s \in Removing => Decided(k[2])'
      <3>1. task'[k] = s
        BY <1>0, <2>1
      <3>2. s = "stored" => core'[k[2]] # Absent
        BY <1>7, <3>1, AttemptNodes DEF Carrying, TaskSound
      <3>3. s = "refused" => k[2] \in refused'
        BY <1>7, <3>1, AttemptNodes
      <3>4. QED
        BY <2>1, <3>2, <3>3 DEF Decided, Stored, Removing
    <2>3. \A j \in Tasks : /\ task'[j] = "listed" => j[2] \in accepted
                           /\ task'[j] \in Removing => Decided(j[2])'
      BY <1>0, <2>1, <2>2 DEF Backed
    <2>4. UNCHANGED <<spool, queue, up, accepted>>
      BY <1>7, AttemptMoves DEF fileVars
    <2>5. QED
      BY <1>0, <2>3, <2>4, BackedKept
  <1>8. ASSUME NEW k \in Tasks, Settle(k) PROVE Backed'
    <2>1. /\ task' = [task EXCEPT ![k] = "idle"] /\ UNCHANGED <<up, accepted>>
      BY <1>8, SettleMoves DEF historyVars
    <2>2. \A j \in Tasks : task'[j] \in {"listed"} \cup Removing => task[j] = task'[j]
      BY <1>0, <2>1 DEF Removing
    <2>3. CASE Resolve(k)
      <3>1. /\ SpoolPairs' = SpoolPairs \ {k[2]} /\ queue' = queue \ {k[2]}
            /\ up /\ task[k] \in Removing
        BY <2>3, SpoolLoses DEF Resolve
      <3>2. queue' = SpoolPairs' /\ Decided(k[2])'
        BY <1>0, <3>1 DEF Backed
      <3>3. /\ SpoolPairs' = (SpoolPairs \cup {}) \ {k[2]} /\ accepted' = accepted \cup {}
            /\ {k[2]} \in SUBSET Pairs /\ {} \in SUBSET Pairs /\ \A p \in {k[2]} : Decided(p)'
        BY <1>0, <2>1, <3>1, <3>2
      <3>4. QED
        BY <1>0, <2>2, <3>2, <3>3, BackedMoves
    <2>4. CASE MarkPending(k) \/ EntryDisappeared(k)
      <3>1. UNCHANGED <<spool, queue>>
        BY <2>4 DEF MarkPending, EntryDisappeared, fileVars
      <3>2. QED
        BY <1>0, <2>1, <2>2, <3>1, BackedKept DEF Backed
    <2>5. QED
      BY <1>8, <2>3, <2>4 DEF Settle
  <1>9. ASSUME NEW k \in Tasks, ResolveDies(k) PROVE Backed'
    <2>1. /\ SpoolPairs' = SpoolPairs \ {k[2]} /\ task[k] \in Removing /\ accepted' = accepted
      BY <1>9, SpoolLoses DEF ResolveDies, historyVars
    <2>2. up' = FALSE /\ \A j \in Tasks : task'[j] = "idle"
      BY <1>9, DieTypes DEF ResolveDies
    <2>3. Decided(k[2])'
      BY <1>0, <2>1 DEF Backed
    <2>4. /\ SpoolPairs' = (SpoolPairs \cup {}) \ {k[2]} /\ accepted' = accepted \cup {}
          /\ {k[2]} \in SUBSET Pairs /\ {} \in SUBSET Pairs /\ \A p \in {k[2]} : Decided(p)'
      BY <1>0, <2>1, <2>3
    <2>5. QED
      BY <1>0, <2>2, <2>4, BackedMoves DEF Removing
  <1>10. ASSUME Crash \/ \E C \in Configs : Restart(C) PROVE Backed'
    <2>1. /\ UNCHANGED <<spool, accepted>>
          /\ \A k \in Tasks : task'[k] \in {"listed"} \cup Removing => task[k] = task'[k]
          /\ up' => queue' = SpoolPairs
      BY <1>10, DieTypes DEF Crash, Restart, Reconciled, Removing, fileVars, historyVars
    <2>2. SpoolPairs' = SpoolPairs
      BY <2>1, SpoolKept
    <2>3. /\ SpoolPairs' = (SpoolPairs \cup {}) \ {} /\ accepted' = accepted \cup {}
          /\ {} \in SUBSET Pairs /\ \A p \in {} : Decided(p)'
      BY <2>1, <2>2
    <2>4. QED
      BY <1>0, <2>1, <2>2, <2>3, BackedMoves
  <1>11. ASSUME NEW t \in Targets, NodeChanges(t) PROVE Backed'
    <2>1. UNCHANGED <<spool, queue, up, accepted, task>>
      BY <1>11 DEF NodeChanges, fileVars, processVars, historyVars
    <2>2. QED
      BY <1>0, <2>1, BackedKept DEF Backed
  <1>12. QED
    BY <1>1, <1>2, <1>3, <1>4, <1>5, <1>6, <1>7, <1>8, <1>9, <1>10, <1>11 DEF Next

-----------------------------------------------------------------------------
(* What is posted and what is told. *)

\* A call whose attempts were there before, with the body they were made for.
LEMMA CallKept ==
  ASSUME TypeOK, Carrying, [Next]_vars, NEW c \in Calls, body'[c] = body[c],
         \A p \in Pairs : task'[<<c, p>>] # "idle" =>
             task[<<c, p>>] # "idle" /\ carried'[<<c, p>>] = carried[<<c, p>>],
         \A t \in Targets : answer'[c][t] = "stored" =>
             \/ answer[c][t] = "stored"
             \/ task[<<c, <<body[c].record, t>>>>] = "stored" /\ body[c] # NoBody
  PROVE  CallSound(c)'
  <1>1. CallSound(c)
    BY DEF Carrying
  <1>2. body'[c] = NoBody => \A t \in Targets : answer'[c][t] # "stored"
    BY <1>1 DEF CallSound
  <1>3. ASSUME NEW p \in Pairs, task'[<<c, p>>] # "idle"
        PROVE  /\ body'[c] # NoBody
               /\ p[1] = body'[c].record
               /\ carried'[<<c, p>>] = body'[c].content
    BY <1>1, <1>3 DEF CallSound
  <1>4. ASSUME NEW t \in Targets, answer'[c][t] = "stored"
        PROVE  core'[<<body'[c].record, t>>] = body'[c].content
    <2> DEFINE p == <<body[c].record, t>>
    <2>1. body[c] # NoBody /\ body[c] \in Bodies
      BY <1>1, <1>4 DEF CallSound, TypeOK
    <2>2. p \in Pairs /\ body[c].content # Absent
      BY <2>1, BodyParts DEF Pairs
    <2>3. core[p] = body[c].content
      <3>1. CASE answer[c][t] = "stored"
        BY <1>1, <3>1 DEF CallSound
      <3>2. CASE task[<<c, p>>] = "stored"
        <4>1. <<c, p>> \in Tasks
          BY <2>2 DEF Tasks
        <4>2. core[<<c, p>>[2]] = carried[<<c, p>>]
          BY <3>2, <4>1 DEF Carrying, TaskSound
        <4>3. carried[<<c, p>>] = body[c].content
          BY <1>1, <2>2, <3>2 DEF CallSound
        <4>4. QED
          BY <4>2, <4>3
      <3>3. QED
        BY <1>4, <3>1, <3>2
    <2>4. core'[p] = body[c].content
      BY <2>2, <2>3, NodesKeep
    <2>5. QED
      BY <2>4
  <1>5. QED
    BY <1>2, <1>3, <1>4 DEF CallSound

\* An attempt that is new, or goes on with what it carries.
LEMMA TaskKept ==
  ASSUME TypeOK, Carrying, [Next]_vars, NEW k \in Tasks,
         task'[k] \in {"posting", "creating", "reposting", "stored"} =>
            \/ carried'[k] # Absent /\ task'[k] # "stored"
            \/ /\ carried'[k] = carried[k]
               /\ task[k] = task'[k] \/ (task[k] \in {"posting", "creating", "reposting"} /\ task'[k] # "stored")
  PROVE  TaskSound(k)'
  <1>1. TaskSound(k)
    BY DEF Carrying
  <1>2. core[k[2]] # Absent => core'[k[2]] = core[k[2]]
    BY NodesKeep, TaskParts
  <1>3. QED
    BY <1>1, <1>2 DEF TaskSound

\* An attempt of the drain belongs to no call.
LEMMA DrainIsNoCall == \A c \in Calls, p \in Pairs : c # Drain /\ <<c, p>> \in Tasks
  BY DeliveryAssumption DEF Tasks

LEMMA CarryingStep == TypeOK /\ Carrying /\ [Next]_vars => Carrying'
  <1> SUFFICES ASSUME TypeOK, Carrying, [Next]_vars PROVE Carrying'
    OBVIOUS
  <1>0. /\ task \in [Tasks -> Stages] /\ carried \in [Tasks -> Contents \cup {Absent}]
        /\ body \in [Calls -> Bodies \cup {NoBody}] /\ answer \in [Calls -> [Targets -> Answers]]
    BY DEF TypeOK
  <1>1. ASSUME UNCHANGED <<task, carried, body, answer>> PROVE Carrying'
    BY <1>1, CallKept, TaskKept DEF Carrying
  <1>2. ASSUME Die, UNCHANGED <<body, answer>> PROVE Carrying'
    <2>1. \A k \in Tasks : task'[k] = "idle"
      BY <1>2, DieTypes
    <2>2. \A c \in Calls, p \in Pairs : task'[<<c, p>>] = "idle"
      BY <2>1, DrainIsNoCall
    <2>3. QED
      BY <1>2, <2>1, <2>2, CallKept, TaskKept DEF Carrying
  <1>3. ASSUME NEW c \in Calls, NEW b \in Bodies, Arrive(c, b), answer' = answer,
               \A k \in Tasks : \/ task'[k] = "idle"
                                \/ task'[k] = task[k] /\ carried'[k] = carried[k]
                                \/ /\ k \in {c} \X PairsOf(b)
                                   /\ task'[k] = "posting" /\ carried'[k] = b.content
        PROVE  Carrying'
    <2>1. /\ body[c] = NoBody /\ body'[c] = b /\ b # NoBody /\ b.content # Absent
          /\ \A d \in Calls : d # c => body'[d] = body[d]
      BY <1>0, <1>3, BodyParts DEF Arrive
    <2>2. \A k \in Tasks : TaskSound(k)'
      BY <1>3, <2>1, TaskKept
    <2>3. ASSUME NEW d \in Calls, d # c PROVE CallSound(d)'
      <3>1. \A p \in Pairs : <<d, p>> \in Tasks /\ <<d, p>> \notin {c} \X PairsOf(b)
        BY <2>3, DrainIsNoCall
      <3>2. QED
        BY <1>3, <2>1, <2>3, <3>1, CallKept
    <2>4. CallSound(c)'
      <3>1. /\ \A t \in Targets : answer'[c][t] # "stored"
            /\ \A p \in Pairs : task[<<c, p>>] = "idle"
        BY <1>3, <2>1 DEF Carrying, CallSound
      <3>2. ASSUME NEW p \in Pairs, task'[<<c, p>>] # "idle"
            PROVE  p[1] = b.record /\ carried'[<<c, p>>] = b.content
        <4>1. <<c, p>> \in {c} \X PairsOf(b) /\ carried'[<<c, p>>] = b.content
          BY <1>3, <3>1, <3>2, DrainIsNoCall
        <4>2. p \in PairsOf(b)
          BY <4>1
        <4>3. QED
          BY <4>1, <4>2, BodyParts
      <3>3. QED
        BY <2>1, <3>1, <3>2 DEF CallSound
    <2>5. QED
      BY <2>2, <2>3, <2>4 DEF Carrying
  <1>4. ASSUME NEW c \in Calls, NEW b \in Bodies, Record(c, b) PROVE Carrying'
    BY <1>3, <1>4 DEF Record
  <1>5. ASSUME NEW c \in Calls, NEW b \in Bodies, RecordDies(c, b) PROVE Carrying'
    BY <1>3, <1>5, DieTypes DEF RecordDies
  <1>6. ASSUME NEW c \in Calls, NEW b \in Bodies, RecordCollides(c, b) PROVE Carrying'
    <2> DEFINE told == [t \in Targets |-> "error"]
    <2>1. /\ body[c] = NoBody /\ body'[c] = b /\ b # NoBody
          /\ \A d \in Calls : d # c => body'[d] = body[d] /\ answer'[d] = answer[d]
          /\ answer'[c] = told /\ UNCHANGED <<task, carried>>
      BY <1>0, <1>6, BodyParts DEF RecordCollides, Arrive, processVars
    <2>2. \A k \in Tasks : TaskSound(k)'
      BY <2>1, TaskKept
    <2>3. \A d \in Calls : d # c => CallSound(d)'
      BY <2>1, CallKept
    <2>4. CallSound(c)'
      <3>1. \A t \in Targets : answer'[c][t] # "stored"
        BY <2>1
      <3>2. \A p \in Pairs : task'[<<c, p>>] = "idle"
        BY <2>1 DEF Carrying, CallSound
      <3>3. QED
        BY <3>1, <3>2 DEF CallSound
    <2>5. QED
      BY <2>2, <2>3, <2>4 DEF Carrying
  <1>7. ASSUME UNCHANGED <<body, answer>>,
               \A k \in Tasks : k[1] = Drain \/ (task'[k] = task[k] /\ carried'[k] = carried[k]),
               \A k \in Tasks : TaskSound(k)'
        PROVE  Carrying'
    <2>1. \A c \in Calls, p \in Pairs : task'[<<c, p>>] = task[<<c, p>>] /\ carried'[<<c, p>>] = carried[<<c, p>>]
      BY <1>7, DrainIsNoCall
    <2>2. QED
      BY <1>7, <2>1, CallKept DEF Carrying
  <1>8. ASSUME NEW S \in SUBSET Pairs, DrainStart(S) PROVE Carrying'
    <2>1. /\ UNCHANGED <<carried, body, answer>>
          /\ \A k \in Tasks : task'[k] = task[k] \/ (k[1] = Drain /\ task'[k] = "listed")
      BY <1>8 DEF DrainStart, callVars
    <2>2. \A k \in Tasks : TaskSound(k)'
      BY <2>1, TaskKept
    <2>3. QED
      BY <1>7, <2>1, <2>2
  <1>9. ASSUME NEW p \in Pairs, ReadRecord(p) PROVE Carrying'
    <2>1. /\ UNCHANGED <<body, answer>>
          /\ \A k \in Tasks : k # <<Drain, p>> => task'[k] = task[k] /\ carried'[k] = carried[k]
      BY <1>0, <1>9 DEF ReadRecord, callVars
    <2>2. /\ <<Drain, p>> \in Tasks
          /\ task'[<<Drain, p>>] = "posting" => carried'[<<Drain, p>>] = spool[p[1]].content /\ spool[p[1]] # Absent
          /\ task'[<<Drain, p>>] \in {"missing", "unavailable", "posting"}
      BY <1>0, <1>9 DEF ReadRecord, Tasks
    <2>3. spool[p[1]] # Absent => spool[p[1]].content # Absent
      <3>1. spool[p[1]] # Absent => spool[p[1]].content \in Contents
        BY SpoolParts, p[1] \in Records DEF SpoolFile, Pairs
      <3>2. QED
        BY <3>1, DeliveryAssumption
    <2>4. \A k \in Tasks : TaskSound(k)'
      BY <2>1, <2>2, <2>3, TaskKept
    <2>5. QED
      BY <1>7, <2>1, <2>4
  <1>10. ASSUME NEW k \in Tasks, Attempt(k) PROVE Carrying'
    <2>1. PICK s \in {"stored", "retry", "refused", "creating", "reposting"} : task' = [task EXCEPT ![k] = s]
      BY <1>10, AttemptMoves
    <2>2. /\ task[k] \in {"posting", "reposting", "creating"}
          /\ UNCHANGED <<carried, body, answer>>
      BY <1>10, AttemptMoves DEF callVars
    <2>3. TaskSound(k)'
      <3>1. carried'[k] # Absent
        BY <2>2 DEF Carrying, TaskSound
      <3>2. task'[k] = "stored" => core'[k[2]] = carried'[k]
        BY <1>10, <2>2, AttemptNodes
      <3>3. QED
        BY <3>1, <3>2 DEF TaskSound
    <2>4. \A j \in Tasks : j # k => TaskSound(j)'
      BY <1>0, <2>1, <2>2, TaskKept
    <2>5. \A c \in Calls, p \in Pairs : task'[<<c, p>>] # "idle" => task[<<c, p>>] # "idle"
      BY <1>0, <2>1, <2>2, DrainIsNoCall
    <2>6. QED
      BY <2>2, <2>3, <2>4, <2>5, CallKept DEF Carrying
  <1>11. ASSUME NEW k \in Tasks, Settle(k) PROVE Carrying'
    <2>1. /\ task' = [task EXCEPT ![k] = "idle"] /\ carried' = [carried EXCEPT ![k] = Absent]
          /\ body' = body
          /\ \A c \in Calls, t \in Targets : answer'[c][t] = "stored" =>
               answer[c][t] = "stored" \/ (c = k[1] /\ t = k[2][2] /\ task[k] = "stored")
      BY <1>11, SettleMoves
    <2>2. \A j \in Tasks : task'[j] # "idle" => task'[j] = task[j] /\ carried'[j] = carried[j]
      BY <1>0, <2>1
    <2>3. \A j \in Tasks : TaskSound(j)'
      BY <2>2, TaskKept
    <2>4. ASSUME NEW c \in Calls, NEW t \in Targets, answer'[c][t] = "stored", answer[c][t] # "stored"
          PROVE  task[<<c, <<body[c].record, t>>>>] = "stored" /\ body[c] # NoBody
      <3>1. c = k[1] /\ t = k[2][2] /\ task[k] = "stored" /\ k[2] \in Pairs /\ k = <<k[1], k[2]>>
        BY <2>1, <2>4, TaskParts
      <3>2. body[c] # NoBody /\ k[2][1] = body[c].record
        BY <3>1 DEF Carrying, CallSound
      <3>3. k[2] = <<body[c].record, t>>
        BY <3>1, <3>2, TaskParts
      <3>4. QED
        BY <3>1, <3>2, <3>3
    <2>5. \A c \in Calls, p \in Pairs : task'[<<c, p>>] # "idle" =>
            task[<<c, p>>] # "idle" /\ carried'[<<c, p>>] = carried[<<c, p>>]
      BY <2>2, DrainIsNoCall
    <2>6. \A c \in Calls : CallSound(c)'
      BY <2>1, <2>4, <2>5, CallKept
    <2>7. QED
      BY <2>3, <2>6 DEF Carrying
  <1>12. CASE UNCHANGED vars
    BY <1>1, <1>12 DEF vars, processVars, callVars
  <1>13. ASSUME NEW k \in Tasks, ResolveDies(k) PROVE Carrying'
    BY <1>2, <1>13 DEF ResolveDies, callVars
  <1>14. CASE Crash
    BY <1>2, <1>14 DEF Crash, callVars
  <1>15. ASSUME NEW C \in Configs, Restart(C) PROVE Carrying'
    BY <1>1, <1>15 DEF Restart, callVars
  <1>16. ASSUME NEW t \in Targets, NodeChanges(t) PROVE Carrying'
    BY <1>1, <1>16 DEF NodeChanges, processVars, callVars
  <1>17. QED
    BY <1>4, <1>5, <1>6, <1>8, <1>9, <1>10, <1>11, <1>12, <1>13, <1>14, <1>15, <1>16 DEF Next

-----------------------------------------------------------------------------
THEOREM DeliveryInvHolds == Spec => []DeliveryInv
  <1>1. Init => DeliveryInv
    <2> SUFFICES ASSUME Init PROVE DeliveryInv
      OBVIOUS
    <2>1. TypeOK
      BY DEF Init, TypeOK, Stages, Answers
    <2>2. SpoolPairs = {}
      BY DEF Init, SpoolPairs, PendingTargets, Pairs
    <2>3. Backed
      BY <2>2 DEF Init, Backed, Removing
    <2>4. Carrying
      <3>1. \A c \in Calls, p \in Pairs : task[<<c, p>>] = "idle"
        BY DrainIsNoCall DEF Init
      <3>2. QED
        BY <3>1 DEF Init, Carrying, TaskSound, CallSound
    <2>5. QED
      BY <2>1, <2>3, <2>4 DEF DeliveryInv
  <1>2. DeliveryInv /\ [Next]_vars => DeliveryInv'
    BY TypeStep, BackedStep, CarryingStep DEF DeliveryInv
  <1>3. QED
    BY <1>1, <1>2, PTL DEF Spec

\* A write the MCP server has spooled stays spooled until its node has stored it
\* or refused it, and the queue of a running server is the spool's, for any
\* number of calls, records and nodes, wherever the process dies between the two
\* files (enqueueRecord, resolve and #reconcileSpool of retry-queue.ts).
THEOREM AcceptedIsDurable == Spec => []DurableUntilDecided
  <1>1. DeliveryInv => DurableUntilDecided
    BY DEF DeliveryInv, Backed, Decided, DurableUntilDecided
  <1>2. QED
    BY <1>1, DeliveryInvHolds, PTL

\* "stored" is only said of content that is on the node and stays there, however
\* a call, the retry worker and other calls of the same record overlap
\* (memoryRecord, #deliver and #drain of router.ts).
THEOREM ToldStoredIsStored == Spec => []StoredIsStored
  <1>1. DeliveryInv => StoredIsStored
    BY DEF DeliveryInv, Carrying, CallSound, StoredIsStored
  <1>2. QED
    BY <1>1, DeliveryInvHolds, PTL

=============================================================================
