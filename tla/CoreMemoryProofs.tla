-------------------------- MODULE CoreMemoryProofs --------------------------
(***************************************************************************)
(* What the run of CoreMemory checks of the transactions that build the      *)
(* Core's memory, proved for any number of requests, sessions and executions, *)
(* and for batches and model outputs of any length.                          *)
(***************************************************************************)
EXTENDS CoreMemory, FiniteSetTheorems, SequenceTheorems, TLAPS

(* Selections: the new items of a batch keep its order. *)

LEMMA RankGrows ==
  ASSUME NEW P \in SUBSET Int, IsFiniteSet(P), NEW m \in P, NEW n \in P, m < n
  PROVE  Rank(P, m) < Rank(P, n)
  <1> DEFINE upTo(k) == {i \in P : i <= k}
  <1>1. upTo(m) \subseteq upTo(n) /\ upTo(n) \subseteq P /\ n \in upTo(n) /\ n \notin upTo(m)
    <2>1. m \in Int /\ n \in Int /\ \A i \in P : i \in Int
      OBVIOUS
    <2>2. \A i \in P : i <= m => i <= n
      BY <2>1
    <2>3. n <= n /\ ~(n <= m)
      BY <2>1
    <2>4. QED
      BY <2>2, <2>3
  <1>2. IsFiniteSet(upTo(n))
    BY <1>1, FS_Subset
  <1>3. /\ IsFiniteSet(upTo(m)) /\ Cardinality(upTo(m)) <= Cardinality(upTo(n))
        /\ Cardinality(upTo(n)) # Cardinality(upTo(m))
    BY <1>1, <1>2, FS_Subset
  <1>4. Cardinality(upTo(m)) \in Nat /\ Cardinality(upTo(n)) \in Nat
    BY <1>2, <1>3, FS_CardinalityType
  <1>5. QED
    BY <1>3, <1>4 DEF Rank

\* The ranks number the positions from 1.
LEMMA RankNumbers ==
  ASSUME NEW P \in SUBSET Int, IsFiniteSet(P)
  PROVE  /\ Cardinality(P) \in Nat
         /\ \A n \in P : Rank(P, n) \in 1 .. Cardinality(P)
         /\ \A m, n \in P : Rank(P, m) = Rank(P, n) => m = n
         /\ \A k \in 1 .. Cardinality(P) : \E n \in P : Rank(P, n) = k
  <1> DEFINE rank == [n \in P |-> Rank(P, n)]
             K == 1 .. Cardinality(P)
  <1>1. Cardinality(P) \in Nat
    BY FS_CardinalityType
  <1>2. ASSUME NEW n \in P PROVE Rank(P, n) \in K
    <2> DEFINE upTo == {i \in P : i <= n}
    <2>1. upTo \subseteq P /\ n \in upTo
      OBVIOUS
    <2>2. IsFiniteSet(upTo) /\ Cardinality(upTo) <= Cardinality(P)
      BY <2>1, FS_Subset
    <2>3. Cardinality(upTo) \in Nat /\ Cardinality(upTo) # 0
      BY <2>1, <2>2, FS_CardinalityType, FS_EmptySet
    <2>4. QED
      BY <1>1, <2>2, <2>3 DEF Rank
  <1>3. ASSUME NEW m \in P, NEW n \in P, Rank(P, m) = Rank(P, n) PROVE m = n
    <2>1. ~(m < n) /\ ~(n < m)
      BY <1>1, <1>2, <1>3, RankGrows
    <2>2. QED
      BY <2>1
  <1>4. rank \in Injection(P, K)
    BY <1>2, <1>3 DEF Injection, IsInjective
  <1>5. IsFiniteSet(K) /\ Cardinality(K) = Cardinality(P)
    BY <1>1, FS_Interval
  <1>6. rank \in Surjection(P, K)
    BY <1>4, <1>5, FS_Injection
  <1>7. QED
    BY <1>1, <1>2, <1>3, <1>6 DEF Surjection

LEMMA ChosenItems ==
  ASSUME NEW T, NEW s \in Seq(T), NEW P \in SUBSET DOMAIN s
  PROVE  /\ Cardinality(P) \in Nat
         /\ Chosen(s, P) \in Seq(T) /\ DOMAIN Chosen(s, P) = 1 .. Cardinality(P)
         /\ Len(Chosen(s, P)) = Cardinality(P)
         /\ \A n \in P : Rank(P, n) \in 1 .. Cardinality(P) /\ Chosen(s, P)[Rank(P, n)] = s[n]
         /\ \A k \in 1 .. Cardinality(P) : \E n \in P : Rank(P, n) = k
  <1>1. DOMAIN s = 1 .. Len(s) /\ Len(s) \in Nat /\ s \in [1 .. Len(s) -> T]
    BY LenProperties
  <1>2. IsFiniteSet(P) /\ P \in SUBSET Int
    <2>1. IsFiniteSet(1 .. Len(s)) /\ 1 .. Len(s) \subseteq Int
      BY <1>1, FS_Interval
    <2>2. QED
      BY <1>1, <2>1, FS_Subset
  <1>3. /\ Cardinality(P) \in Nat
        /\ \A n \in P : Rank(P, n) \in 1 .. Cardinality(P)
        /\ \A m, n \in P : Rank(P, m) = Rank(P, n) => m = n
        /\ \A k \in 1 .. Cardinality(P) : \E n \in P : Rank(P, n) = k
    BY <1>2, RankNumbers
  <1> DEFINE place(k) == CHOOSE n \in P : Rank(P, n) = k
  <1>4. \A k \in 1 .. Cardinality(P) : place(k) \in P /\ Rank(P, place(k)) = k
    BY <1>3
  <1>5. \A n \in P : place(Rank(P, n)) = n
    BY <1>3, <1>4
  <1>6. Chosen(s, P) = [k \in 1 .. Cardinality(P) |-> s[place(k)]]
    BY DEF Chosen
  <1> HIDE DEF place
  <1>7. Chosen(s, P) \in [1 .. Cardinality(P) -> T]
    BY <1>1, <1>4, <1>6
  <1>8. Chosen(s, P) \in Seq(T) /\ Len(Chosen(s, P)) = Cardinality(P)
    BY <1>3, <1>7, IsASeq, LenProperties
  <1>9. QED
    BY <1>3, <1>5, <1>6, <1>8

-----------------------------------------------------------------------------
(* Batches of records. *)

Item == [id : Ids, content : Contents, author : Authors]

Row == [session : Sessions, content : Contents, seq : Nat \ {0}]

\* Whoever holds the lock of a session is the one request at work on it, and
\* next_record_sequence is still what it read.
LockSound ==
    /\ \A s \in Sessions : lock[s] # NoRequest =>
         phase[lock[s]] \in Active /\ body[lock[s]].session = s
    /\ \A q \in Requests : phase[q] \in Active =>
         /\ body[q].session \in Sessions
         /\ lock[body[q].session] = q
         /\ base[q] = nextSeq[body[q].session]

\* What a request found in the table was the same record; what has come since
\* came to other sessions.
PriorOf(q) ==
    phase[q] \in {"upserting", "writing", "written"} =>
      \A i \in ToSet(Items(q)) :
        IF i.id \in prior[q]
        THEN /\ record[i.id] # Absent
             /\ record[i.id].session = body[q].session /\ record[i.id].content = i.content
        ELSE record[i.id] # Absent => record[i.id].session # body[q].session

PriorSound == \A q \in Requests : PriorOf(q)

\* q has inserted its n-th new row.
Held(q, n) ==
    /\ n \in DOMAIN Fresh(q)
    /\ phase[q] = "written" \/ (phase[q] = "writing" /\ n < step[q])

\* A row that is inserted and not committed is the only one with its id.
HeldFree(q) ==
    \A n \in DOMAIN Fresh(q) : Held(q, n) => record[Fresh(q)[n].id] = Absent

HeldApart(p, q) ==
    \A m \in DOMAIN Fresh(p), n \in DOMAIN Fresh(q) :
        Held(p, m) /\ Held(q, n) => Fresh(p)[m].id # Fresh(q)[n].id

HeldSound ==
    /\ \A q \in Requests : HeldFree(q)
    /\ \A p, q \in Requests : p # q => HeldApart(p, q)

\* q was told that it created record r.
Creates(q, r) == phase[q] = "created" /\ r \in DOMAIN receipt[q] /\ receipt[q][r].created

IdsOf(q) == {i.id : i \in ToSet(Items(q))}

ReceiptSound ==
    /\ \A q \in Requests : phase[q] = "created" =>
         /\ DOMAIN receipt[q] = IdsOf(q)
         /\ \A i \in ToSet(Items(q)) :
              /\ record[i.id] # Absent
              /\ record[i.id] = [session |-> body[q].session, content |-> i.content,
                                 seq |-> receipt[q][i.id].seq]
    /\ \A r \in Ids : record[r] # Absent <=> \E q \in Requests : Creates(q, r)
    /\ \A r \in Ids : \A p, q \in Requests : Creates(p, r) /\ Creates(q, r) => p = q

\* A refused batch contradicts one that committed.
RefusedSound ==
    \A q \in Requests : phase[q] \in {"conflict", "collision"} =>
        \E p \in Requests : phase[p] = "created" /\ Reuses(q, p)

IngestInv ==
    /\ TypeOK /\ LockSound /\ PriorSound /\ HeldSound /\ Gapless
    /\ ReceiptSound /\ RefusedSound

\* The items of a batch, and those of them that are new.
LEMMA BatchItems ==
  ASSUME TypeOK, NEW q \in Requests
  PROVE  /\ Items(q) \in Seq(Item)
         /\ ToSet(Items(q)) = {Items(q)[n] : n \in DOMAIN Items(q)}
         /\ \A i \in ToSet(Items(q)) : i \in Item /\ i.id \in Ids /\ i.content \in Contents
         /\ \A i, k \in ToSet(Items(q)) : i.id = k.id => i = k
  <1>1. body[q] \in Bodies
    BY DEF TypeOK
  <1>2. /\ Items(q) \in Seq(Item)
        /\ \A m, n \in DOMAIN Items(q) : Items(q)[m].id = Items(q)[n].id => m = n
    BY <1>1, IngestAssumption DEF Items, Item
  <1>3. ToSet(Items(q)) = {Items(q)[n] : n \in DOMAIN Items(q)}
    BY DEF ToSet
  <1>4. \A n \in DOMAIN Items(q) : Items(q)[n] \in Item
    BY <1>2, ElementOfSeq, LenProperties
  <1>5. QED
    BY <1>2, <1>3, <1>4 DEF Item

LEMMA FreshItems ==
  ASSUME TypeOK, NEW q \in Requests
  PROVE  /\ Len(Fresh(q)) \in Nat /\ DOMAIN Fresh(q) = 1 .. Len(Fresh(q))
         /\ Fresh(q) \in Seq(Item)
         /\ \A k \in DOMAIN Fresh(q) :
              Fresh(q)[k] \in ToSet(Items(q)) /\ Fresh(q)[k].id \notin prior[q]
         /\ \A i \in ToSet(Items(q)) : i.id \notin prior[q] => \E k \in DOMAIN Fresh(q) : Fresh(q)[k] = i
         /\ \A k, l \in DOMAIN Fresh(q) : Fresh(q)[k].id = Fresh(q)[l].id => k = l
  <1> DEFINE P == {n \in DOMAIN Items(q) : Items(q)[n].id \notin prior[q]}
  <1>1. Fresh(q) = Chosen(Items(q), P) /\ P \in SUBSET DOMAIN Items(q)
    BY DEF Fresh
  <1>2. Items(q) \in Seq(Item) /\ ToSet(Items(q)) = {Items(q)[n] : n \in DOMAIN Items(q)}
    BY BatchItems
  <1>3. \A m, n \in DOMAIN Items(q) : Items(q)[m].id = Items(q)[n].id => m = n
    BY IngestAssumption DEF TypeOK, Items
  <1>4. \A n \in P : Items(q)[n] \in ToSet(Items(q)) /\ Items(q)[n].id \notin prior[q]
    BY <1>2
  <1>5. \A i \in ToSet(Items(q)) : i.id \notin prior[q] => \E n \in P : Items(q)[n] = i
    BY <1>2
  <1>6. P \in SUBSET DOMAIN Items(q)
    OBVIOUS
  <1> HIDE DEF P
  <1>7. /\ Cardinality(P) \in Nat
        /\ Fresh(q) \in Seq(Item) /\ DOMAIN Fresh(q) = 1 .. Cardinality(P)
        /\ Len(Fresh(q)) = Cardinality(P)
        /\ \A n \in P : Rank(P, n) \in 1 .. Cardinality(P) /\ Fresh(q)[Rank(P, n)] = Items(q)[n]
        /\ \A k \in 1 .. Cardinality(P) : \E n \in P : Rank(P, n) = k
    BY <1>1, <1>2, ChosenItems
  <1>8. \A k \in DOMAIN Fresh(q) : \E n \in P : Rank(P, n) = k /\ Fresh(q)[k] = Items(q)[n]
    BY <1>7
  <1>9. \A i \in ToSet(Items(q)) : i.id \notin prior[q] => \E k \in DOMAIN Fresh(q) : Fresh(q)[k] = i
    BY <1>5, <1>7
  <1>10. \A k, l \in DOMAIN Fresh(q) : Fresh(q)[k].id = Fresh(q)[l].id => k = l
    BY <1>3, <1>6, <1>8
  <1>11. QED
    BY <1>4, <1>7, <1>8, <1>9, <1>10

LEMMA BatchStays ==
  ASSUME NEW q, body'[q] = body[q], prior'[q] = prior[q]
  PROVE  /\ Items(q)' = Items(q) /\ Fresh(q)' = Fresh(q) /\ IdsOf(q)' = IdsOf(q)
         /\ ToSet(Items(q))' = ToSet(Items(q))
  BY DEF Items, Fresh, IdsOf, ToSet

\* The rows of other requests stay as they are.
OthersStay(q) ==
    \A p \in Requests : p # q =>
        /\ body'[p] = body[p] /\ prior'[p] = prior[p] /\ step'[p] = step[p]
        /\ base'[p] = base[p] /\ phase'[p] = phase[p]

LEMMA OthersKeep ==
  ASSUME NEW q \in Requests, OthersStay(q), UNCHANGED record,
         NEW p \in Requests, p # q
  PROVE  /\ PriorOf(p) => PriorOf(p)'
         /\ \A n : Held(p, n)' <=> Held(p, n)
         /\ Fresh(p)' = Fresh(p)
         /\ HeldFree(p) => HeldFree(p)'
  <1>1. body'[p] = body[p] /\ prior'[p] = prior[p] /\ step'[p] = step[p] /\ phase'[p] = phase[p]
    BY DEF OthersStay
  <1>2. Items(p)' = Items(p) /\ Fresh(p)' = Fresh(p) /\ ToSet(Items(p))' = ToSet(Items(p))
    BY <1>1, BatchStays
  <1>3. \A n : Held(p, n)' <=> Held(p, n)
    BY <1>1, <1>2 DEF Held
  <1>4. HeldFree(p) => HeldFree(p)'
    BY <1>2, <1>3 DEF HeldFree
  <1>5. PriorOf(p) => PriorOf(p)'
    BY <1>1, <1>2 DEF PriorOf
  <1>6. QED
    BY <1>2, <1>3, <1>4, <1>5

\* A step of q that commits nothing.
LEMMA UncommittedStep ==
  ASSUME IngestInv, NEW q \in Requests, OthersStay(q),
         UNCHANGED <<nextSeq, record, receipt>>, TypeOK', LockSound',
         phase[q] # "created", phase'[q] # "created",
         PriorOf(q)', HeldFree(q)',
         \A p \in Requests : p # q => HeldApart(p, q)',
         phase'[q] \in {"conflict", "collision"} =>
            \E p \in Requests : phase[p] = "created" /\ Reuses(q, p)'
  PROVE  IngestInv'
  <1>1. \A p \in Requests : p # q =>
            /\ phase'[p] = phase[p] /\ body'[p] = body[p]
            /\ Items(p)' = Items(p) /\ IdsOf(p)' = IdsOf(p) /\ ToSet(Items(p))' = ToSet(Items(p))
    BY BatchStays DEF OthersStay
  <1>2. PriorSound'
    BY OthersKeep DEF IngestInv, PriorSound
  <1>3. HeldSound'
    <2>1. \A p \in Requests : HeldFree(p)'
      BY OthersKeep DEF IngestInv, HeldSound
    <2>2. ASSUME NEW p \in Requests, NEW r \in Requests, p # r PROVE HeldApart(p, r)'
      <3>1. CASE p # q /\ r # q
        <4>1. HeldApart(p, r)
          BY <2>2 DEF IngestInv, HeldSound
        <4>2. Fresh(p)' = Fresh(p) /\ Fresh(r)' = Fresh(r) /\ \A n : (Held(p, n)' <=> Held(p, n)) /\ (Held(r, n)' <=> Held(r, n))
          BY <3>1, OthersKeep
        <4>3. QED
          BY <4>1, <4>2 DEF HeldApart
      <3>2. CASE r = q
        BY <2>2, <3>2
      <3>3. CASE p = q
        <4>1. HeldApart(r, q)'
          BY <2>2, <3>3
        <4>2. QED
          BY <3>3, <4>1 DEF HeldApart
      <3>4. QED
        BY <3>1, <3>2, <3>3
    <2>3. QED
      BY <2>1, <2>2 DEF HeldSound
  <1>4. Gapless'
    BY DEF IngestInv, Gapless, Stored
  <1>5. ReceiptSound'
    <2>1. \A p \in Requests, r \in Ids : Creates(p, r)' <=> Creates(p, r)
      BY <1>1 DEF Creates
    <2>2. \A p \in Requests : phase'[p] = "created" =>
            /\ p # q /\ phase[p] = "created" /\ IdsOf(p)' = IdsOf(p)
            /\ ToSet(Items(p))' = ToSet(Items(p)) /\ body'[p] = body[p]
      BY <1>1
    <2>3. QED
      BY <2>1, <2>2 DEF IngestInv, ReceiptSound
  <1>6. RefusedSound'
    <2>1. ASSUME NEW p \in Requests, phase'[p] \in {"conflict", "collision"}
          PROVE  \E r \in Requests : phase'[r] = "created" /\ Reuses(p, r)'
      <3>1. CASE p = q
        BY <1>1, <2>1, <3>1
      <3>2. CASE p # q
        <4>1. PICK r \in Requests : phase[r] = "created" /\ Reuses(p, r)
          BY <1>1, <2>1, <3>2 DEF IngestInv, RefusedSound
        <4>2. r # q /\ phase'[r] = "created"
          BY <1>1, <4>1
        <4>3. Reuses(p, r)'
          BY <1>1, <3>2, <4>1, <4>2 DEF Reuses
        <4>4. QED
          BY <4>2, <4>3
      <3>3. QED
        BY <3>1, <3>2
    <2>2. QED
      BY <2>1 DEF RefusedSound
  <1>7. QED
    BY <1>2, <1>3, <1>4, <1>5, <1>6 DEF IngestInv

LEMMA RollBackPreserves ==
  ASSUME IngestInv, NEW q \in Requests, NEW refusal \in Refusals, RollBack(q, refusal),
         phase[q] # "created",
         refusal \in {"conflict", "collision"} =>
            \E p \in Requests : phase[p] = "created" /\ Reuses(q, p)
  PROVE  IngestInv'
  <1>1. /\ \A p \in Requests : phase'[p] = IF p = q THEN refusal ELSE phase[p]
        /\ \A s \in Sessions : lock'[s] = IF lock[s] = q THEN NoRequest ELSE lock[s]
        /\ UNCHANGED <<nextSeq, record, upserted, body, base, prior, step, receipt>>
    BY DEF RollBack, Enter, Release, IngestInv, TypeOK
  <1>2. refusal \notin Active /\ refusal # "created"
        /\ refusal \notin {"upserting", "writing", "written"}
    BY DEF Refusals, Active
  <1>3. TypeOK'
    BY DEF RollBack, Enter, Release, IngestInv, TypeOK, Phases
  <1>4. LockSound'
    <2>1. \A s \in Sessions : lock[s] \in Requests \cup {NoRequest}
      BY DEF IngestInv, TypeOK
    <2>2. ASSUME NEW s \in Sessions, lock'[s] # NoRequest
          PROVE  phase'[lock'[s]] \in Active /\ body'[lock'[s]].session = s
      <3>1. lock'[s] = lock[s] /\ lock[s] # q /\ lock[s] \in Requests
        BY <1>1, <2>1, <2>2
      <3>2. QED
        BY <1>1, <2>2, <3>1 DEF IngestInv, LockSound
    <2>3. ASSUME NEW p \in Requests, phase'[p] \in Active
          PROVE  /\ body'[p].session \in Sessions
                 /\ lock'[body'[p].session] = p
                 /\ base'[p] = nextSeq'[body'[p].session]
      <3>1. p # q /\ phase[p] \in Active
        BY <1>1, <1>2, <2>3
      <3>2. QED
        BY <1>1, <3>1 DEF IngestInv, LockSound
    <2>4. QED
      BY <2>2, <2>3 DEF LockSound
  <1>5. PriorOf(q)' /\ \A n : ~Held(q, n)'
    BY <1>1, <1>2 DEF PriorOf, Held
  <1>6. HeldFree(q)' /\ \A p \in Requests : p # q => HeldApart(p, q)'
    BY <1>5 DEF HeldFree, HeldApart
  <1>7. \A p \in Requests : Reuses(q, p)' <=> Reuses(q, p)
    BY <1>1 DEF Reuses, Items, ToSet
  <1>8. OthersStay(q)
    BY <1>1 DEF OthersStay
  <1>9. QED
    BY <1>1, <1>2, <1>3, <1>4, <1>5, <1>6, <1>7, <1>8, UncommittedStep

LEMMA SendPreserves ==
  ASSUME IngestInv, NEW q \in Requests, NEW b \in Bodies, Send(q, b)
  PROVE  IngestInv'
  <1>1. /\ phase[q] = "idle"
        /\ \A p \in Requests : phase'[p] = IF p = q THEN "queued" ELSE phase[p]
        /\ \A p \in Requests : body'[p] = IF p = q THEN b ELSE body[p]
        /\ UNCHANGED <<nextSeq, lock, record, upserted, base, prior, step, receipt>>
    BY DEF Send, Enter, tableVars, IngestInv, TypeOK
  <1>2. TypeOK'
    BY DEF Send, Enter, tableVars, IngestInv, TypeOK, Phases
  <1>3. LockSound'
    BY <1>1 DEF IngestInv, TypeOK, LockSound, Active
  <1>4. PriorOf(q)' /\ \A n : ~Held(q, n)'
    BY <1>1 DEF PriorOf, Held
  <1>5. HeldFree(q)' /\ \A p \in Requests : p # q => HeldApart(p, q)'
    BY <1>4 DEF HeldFree, HeldApart
  <1>6. OthersStay(q)
    BY <1>1 DEF OthersStay
  <1>7. QED
    BY <1>1, <1>2, <1>3, <1>4, <1>5, <1>6, UncommittedStep

LEMMA LockSessionPreserves ==
  ASSUME IngestInv, NEW q \in Requests, LockSession(q)
  PROVE  IngestInv'
  <1>1. /\ phase[q] = "queued" /\ body[q].session \in Sessions /\ lock[body[q].session] = NoRequest
        /\ \A p \in Requests : phase'[p] = IF p = q THEN "locked" ELSE phase[p]
        /\ \A s \in Sessions : lock'[s] = IF s = body[q].session THEN q ELSE lock[s]
        /\ \A p \in Requests : base'[p] = IF p = q THEN nextSeq[body[q].session] ELSE base[p]
        /\ UNCHANGED <<nextSeq, record, upserted, body, prior, step, receipt>>
    BY DEF LockSession, LockGranted, Enter, IngestInv, TypeOK
  <1>2. TypeOK'
    BY DEF LockSession, Enter, IngestInv, TypeOK, Phases, Active
  <1>3. LockSound'
    <2>1. q # NoRequest /\ phase'[q] \in Active
      BY <1>1, IngestAssumption DEF Active
    <2>2. ASSUME NEW s \in Sessions, lock'[s] # NoRequest
          PROVE  phase'[lock'[s]] \in Active /\ body'[lock'[s]].session = s
      BY <1>1, <2>1, <2>2 DEF IngestInv, TypeOK, LockSound
    <2>3. ASSUME NEW p \in Requests, phase'[p] \in Active
          PROVE  /\ body'[p].session \in Sessions
                 /\ lock'[body'[p].session] = p
                 /\ base'[p] = nextSeq'[body'[p].session]
      <3>1. CASE p = q
        BY <1>1, <3>1
      <3>2. CASE p # q
        <4>1. phase[p] \in Active /\ p # NoRequest
          BY <1>1, <2>3, <3>2, IngestAssumption
        <4>2. lock[body[p].session] = p /\ body[p].session \in Sessions /\ base[p] = nextSeq[body[p].session]
          BY <4>1 DEF IngestInv, LockSound
        <4>3. QED
          BY <1>1, <3>2, <4>1, <4>2
      <3>3. QED
        BY <3>1, <3>2
    <2>4. QED
      BY <2>2, <2>3 DEF LockSound
  <1>4. PriorOf(q)' /\ \A n : ~Held(q, n)'
    BY <1>1 DEF PriorOf, Held
  <1>5. HeldFree(q)' /\ \A p \in Requests : p # q => HeldApart(p, q)'
    BY <1>4 DEF HeldFree, HeldApart
  <1>6. OthersStay(q)
    BY <1>1 DEF OthersStay
  <1>7. QED
    BY <1>1, <1>2, <1>3, <1>4, <1>5, <1>6, UncommittedStep

\* A batch that contradicts a row contradicts the batch that brought it.
LEMMA ContradictsBatch ==
  ASSUME IngestInv, NEW q \in Requests, NEW i \in ToSet(Items(q)), record[i.id] # Absent,
         record[i.id].content # i.content \/ record[i.id].session # body[q].session
  PROVE  \E p \in Requests : phase[p] = "created" /\ Reuses(q, p)
  <1>1. i.id \in Ids
    BY BatchItems DEF IngestInv
  <1>2. PICK p \in Requests : Creates(p, i.id)
    BY <1>1 DEF IngestInv, ReceiptSound
  <1>3. phase[p] = "created" /\ i.id \in IdsOf(p)
    BY <1>2 DEF IngestInv, ReceiptSound, Creates
  <1>4. PICK k \in ToSet(Items(p)) : k.id = i.id
    BY <1>3 DEF IdsOf
  <1> DEFINE row == [session |-> body[p].session, content |-> k.content, seq |-> receipt[p][k.id].seq]
  <1>5. record[i.id] = row
    BY <1>3, <1>4 DEF IngestInv, ReceiptSound
  <1>6. row.session = body[p].session /\ row.content = k.content
    OBVIOUS
  <1> HIDE DEF row
  <1>7. k.content # i.content \/ body[p].session # body[q].session
    BY <1>5, <1>6
  <1>8. QED
    BY <1>3, <1>4, <1>7 DEF Reuses

\* A step of q between its lock and its commit leaves the locks as they are.
LEMMA AtWork ==
  ASSUME IngestInv, NEW q \in Requests, phase[q] \in Active, phase'[q] \in Active,
         OthersStay(q), UNCHANGED <<lock, nextSeq, body, base>>
  PROVE  LockSound'
  BY DEF IngestInv, TypeOK, LockSound, OthersStay

LEMMA ReadExistingPreserves ==
  ASSUME IngestInv, NEW q \in Requests, ReadExisting(q)
  PROVE  IngestInv'
  <1>1. phase[q] = "locked"
    BY DEF ReadExisting
  <1>2. CASE Conflicts(q) # {}
    <2>1. PICK i \in Conflicts(q) : TRUE
      BY <1>2
    <2>2. /\ i \in ToSet(Items(q)) /\ record[i.id] # Absent
          /\ record[i.id].content # i.content \/ record[i.id].session # body[q].session
      BY DEF Conflicts
    <2>3. \E p \in Requests : phase[p] = "created" /\ Reuses(q, p)
      BY <2>2, ContradictsBatch
    <2>4. RollBack(q, "conflict") /\ "conflict" \in Refusals
      BY <1>2 DEF ReadExisting, Refusals
    <2>5. QED
      BY <1>1, <2>3, <2>4, RollBackPreserves
  <1>3. CASE Conflicts(q) = {}
    <2> DEFINE found == {i.id : i \in {i \in ToSet(Items(q)) : record[i.id] # Absent}}
    <2>1. /\ \A p \in Requests : phase'[p] = IF p = q THEN "upserting" ELSE phase[p]
          /\ \A p \in Requests : prior'[p] = IF p = q THEN found ELSE prior[p]
          /\ \A p \in Requests : step'[p] = IF p = q THEN 1 ELSE step[p]
          /\ UNCHANGED <<tableVars, body, base, receipt>>
      BY <1>3 DEF ReadExisting, Enter, IngestInv, TypeOK
    <2>2. \A i \in ToSet(Items(q)) : i.id \in Ids
      BY BatchItems DEF IngestInv
    <2>3. TypeOK'
      <3>1. found \in SUBSET Ids
        BY <2>2
      <3>2. phase' = [phase EXCEPT ![q] = "upserting"] /\ prior' = [prior EXCEPT ![q] = found]
            /\ step' = [step EXCEPT ![q] = 1]
        BY <1>3 DEF ReadExisting, Enter
      <3> HIDE DEF found
      <3>3. QED
        BY <2>1, <3>1, <3>2 DEF IngestInv, TypeOK, tableVars, Phases, Active
    <2>4. OthersStay(q)
      BY <2>1 DEF OthersStay
    <2>5. LockSound'
      BY <1>1, <2>1, <2>4, AtWork DEF Active, tableVars
    <2>6. PriorOf(q)'
      <3>1. Items(q)' = Items(q) /\ ToSet(Items(q))' = ToSet(Items(q))
        BY <2>1 DEF Items, ToSet
      <3>2. ASSUME NEW i \in ToSet(Items(q)), i.id \in found
            PROVE  /\ record[i.id] # Absent
                   /\ record[i.id].session = body[q].session /\ record[i.id].content = i.content
        BY <1>3, <3>2 DEF Conflicts
      <3>3. ASSUME NEW i \in ToSet(Items(q)), i.id \notin found PROVE record[i.id] = Absent
        BY <3>3
      <3> HIDE DEF found
      <3>4. QED
        BY <2>1, <3>1, <3>2, <3>3 DEF PriorOf, tableVars
    <2>7. \A n : ~Held(q, n)'
      BY <2>1 DEF Held
    <2>8. HeldFree(q)' /\ \A p \in Requests : p # q => HeldApart(p, q)'
      BY <2>7 DEF HeldFree, HeldApart
    <2>9. phase'[q] = "upserting" /\ UNCHANGED <<nextSeq, record, receipt>>
      BY <2>1 DEF tableVars
    <2>10. QED
      BY <1>1, <2>3, <2>4, <2>5, <2>6, <2>8, <2>9, UncommittedStep
  <1>4. QED
    BY <1>2, <1>3

\* The steps of the transaction that change nothing but what q has inserted.
LEMMA FlushStep ==
  ASSUME IngestInv, NEW q \in Requests,
         phase[q] \in {"upserting", "writing"}, phase'[q] \in {"upserting", "writing", "written"},
         phase' = [phase EXCEPT ![q] = phase'[q]], step' = [step EXCEPT ![q] = step'[q]],
         step'[q] \in Nat, UNCHANGED <<tableVars, body, base, prior, receipt>>,
         \A n \in DOMAIN Fresh(q) : Held(q, n)' =>
            \/ Held(q, n)
            \/ /\ record[Fresh(q)[n].id] = Absent
               /\ \A p \in Requests : \A m \in DOMAIN Fresh(p) :
                    p # q /\ Held(p, m) => Fresh(p)[m].id # Fresh(q)[n].id
  PROVE  IngestInv'
  <1>1. OthersStay(q)
    BY DEF OthersStay, IngestInv, TypeOK
  <1>2. TypeOK'
    BY DEF IngestInv, TypeOK, tableVars, Phases, Active
  <1>3. LockSound'
    BY <1>1, AtWork DEF Active, tableVars
  <1>4. Items(q)' = Items(q) /\ Fresh(q)' = Fresh(q) /\ ToSet(Items(q))' = ToSet(Items(q))
    BY BatchStays
  <1>5. PriorOf(q)'
    BY <1>4 DEF IngestInv, PriorSound, PriorOf, tableVars
  <1>6. HeldFree(q)'
    BY <1>4 DEF IngestInv, HeldSound, HeldFree, tableVars
  <1>7. ASSUME NEW p \in Requests, p # q PROVE HeldApart(p, q)'
    <2>1. HeldApart(p, q)
      BY <1>7 DEF IngestInv, HeldSound
    <2>2. Fresh(p)' = Fresh(p) /\ \A n : Held(p, n)' <=> Held(p, n)
      BY <1>1, <1>7, OthersKeep DEF tableVars
    <2>3. ASSUME NEW m \in DOMAIN Fresh(p), NEW n \in DOMAIN Fresh(q), Held(p, m), Held(q, n)'
          PROVE  Fresh(p)[m].id # Fresh(q)[n].id
      BY <1>7, <2>1, <2>3 DEF HeldApart
    <2>4. QED
      BY <1>4, <2>2, <2>3 DEF HeldApart
  <1>8. QED
    BY <1>1, <1>2, <1>3, <1>5, <1>6, <1>7, UncommittedStep DEF tableVars

LEMMA UpsertPreserves ==
  ASSUME IngestInv, NEW q \in Requests, Upsert(q)
  PROVE  IngestInv'
  <1>1. /\ phase[q] = "upserting" /\ phase'[q] \in {"upserting", "writing"}
        /\ phase' = [phase EXCEPT ![q] = phase'[q]] /\ step' = [step EXCEPT ![q] = step'[q]]
        /\ step'[q] \in Nat /\ (phase'[q] = "writing" => step'[q] = 1)
        /\ UNCHANGED <<tableVars, body, base, prior, receipt>>
    BY DEF Upsert, Enter, IngestInv, TypeOK
  <1>2. \A n \in DOMAIN Fresh(q) : ~Held(q, n)'
    <2>1. \A n \in DOMAIN Fresh(q) : ~(n < 1)
      BY FreshItems DEF IngestInv
    <2>2. QED
      BY <1>1, <2>1 DEF Held
  <1>3. QED
    BY <1>1, <1>2, FlushStep

LEMMA FlushDonePreserves ==
  ASSUME IngestInv, NEW q \in Requests, FlushDone(q)
  PROVE  IngestInv'
  <1>1. /\ phase[q] = "writing" /\ phase'[q] = "written" /\ step[q] > Len(Fresh(q))
        /\ phase' = [phase EXCEPT ![q] = phase'[q]] /\ step' = [step EXCEPT ![q] = step'[q]]
        /\ step'[q] \in Nat
        /\ UNCHANGED <<tableVars, body, base, prior, receipt>>
    BY DEF FlushDone, Enter, IngestInv, TypeOK
  <1>2. \A n \in DOMAIN Fresh(q) : Held(q, n)
    <2>1. /\ Len(Fresh(q)) \in Nat /\ DOMAIN Fresh(q) = 1 .. Len(Fresh(q)) /\ step[q] \in Nat
      BY FreshItems DEF IngestInv, TypeOK
    <2>2. \A n \in DOMAIN Fresh(q) : n < step[q]
      BY <1>1, <2>1
    <2>3. QED
      BY <1>1, <2>2 DEF Held
  <1>3. QED
    BY <1>1, <1>2, FlushStep

LEMMA HeldIsAKey ==
  ASSUME TypeOK, NEW p \in Requests, NEW m \in DOMAIN Fresh(p), Held(p, m)
  PROVE  <<"id", Fresh(p)[m].id>> \in HeldKeys(p)
  <1>1. <<"id", Fresh(p)[m].id>> \in RowKeys(p, m)
    BY DEF RowKeys
  <1>2. CASE phase[p] = "written"
    BY <1>1, <1>2 DEF HeldKeys
  <1>3. CASE phase[p] = "writing" /\ m < step[p]
    <2>1. m \in 1 .. (step[p] - 1)
      BY <1>3, FreshItems DEF TypeOK
    <2>2. QED
      BY <1>1, <1>3, <2>1 DEF HeldKeys
  <1>4. QED
    BY <1>2, <1>3 DEF Held

\* A row that collides is an old one of another session: a sequence is never taken.
LEMMA CollisionContradicts ==
  ASSUME IngestInv, NEW q \in Requests, phase[q] = "writing", NEW n \in DOMAIN Fresh(q),
         RowKeys(q, n) \cap StoredKeys # {}
  PROVE  \E p \in Requests : phase[p] = "created" /\ Reuses(q, p)
  <1>1. /\ Fresh(q)[n] \in ToSet(Items(q)) /\ Fresh(q)[n].id \notin prior[q]
        /\ n \in Nat /\ n >= 1 /\ Fresh(q)[n].id \in Ids
    BY FreshItems, BatchItems DEF IngestInv
  <1>2. body[q].session \in Sessions /\ base[q] = nextSeq[body[q].session] /\ base[q] \in Nat
    BY DEF IngestInv, LockSound, Active, TypeOK
  <1>3. \A r \in Stored(body[q].session) : record[r].seq # Sequence(q, n)
    <2>1. ASSUME NEW r \in Stored(body[q].session) PROVE record[r].seq \in 1 .. (base[q] - 1)
      BY <1>2 DEF IngestInv, Gapless
    <2>2. QED
      BY <1>1, <1>2, <2>1 DEF Sequence
  <1>4. \A r \in Ids : record[r] # Absent /\ record[r].session = body[q].session
            => record[r].seq # Sequence(q, n)
    BY <1>3 DEF Stored
  <1>5. <<"sequence", body[q].session, Sequence(q, n)>> \notin StoredKeys
    BY <1>4 DEF StoredKeys
  <1>6. <<"id", Fresh(q)[n].id>> \in StoredKeys
    BY <1>5 DEF RowKeys
  <1>7. record[Fresh(q)[n].id] # Absent
    BY <1>6 DEF StoredKeys
  <1>8. record[Fresh(q)[n].id].session # body[q].session
    BY <1>1, <1>7 DEF IngestInv, PriorSound, PriorOf
  <1>9. QED
    BY <1>1, <1>7, <1>8, ContradictsBatch

LEMMA InsertRecordPreserves ==
  ASSUME IngestInv, NEW q \in Requests, InsertRecord(q)
  PROVE  IngestInv'
  <1>1. phase[q] = "writing" /\ step[q] \in DOMAIN Fresh(q) /\ ~Blocked(q)
    BY DEF InsertRecord
  <1>2. CASE RowKeys(q, step[q]) \cap StoredKeys # {}
    <2>1. \E p \in Requests : phase[p] = "created" /\ Reuses(q, p)
      BY <1>1, <1>2, CollisionContradicts
    <2>2. RollBack(q, "collision") /\ "collision" \in Refusals
      BY <1>2 DEF InsertRecord, Refusals
    <2>3. QED
      BY <1>1, <2>1, <2>2, RollBackPreserves
  <1>3. CASE RowKeys(q, step[q]) \cap StoredKeys = {}
    <2>1. /\ phase'[q] = "writing" /\ step'[q] = step[q] + 1 /\ step[q] \in Nat
          /\ phase' = [phase EXCEPT ![q] = phase'[q]] /\ step' = [step EXCEPT ![q] = step'[q]]
          /\ UNCHANGED <<tableVars, body, base, prior, receipt>>
      BY <1>1, <1>3 DEF InsertRecord, IngestInv, TypeOK
    <2>2. <<"id", Fresh(q)[step[q]].id>> \in RowKeys(q, step[q])
      BY DEF RowKeys
    <2>3. record[Fresh(q)[step[q]].id] = Absent
      <3>1. Fresh(q)[step[q]].id \in Ids
        BY <1>1, FreshItems, BatchItems DEF IngestInv
      <3>2. QED
        BY <1>3, <2>2, <3>1 DEF StoredKeys
    <2>4. ASSUME NEW p \in Requests, NEW m \in DOMAIN Fresh(p), p # q, Held(p, m)
          PROVE  Fresh(p)[m].id # Fresh(q)[step[q]].id
      <3>1. RowKeys(q, step[q]) \cap HeldKeys(p) = {}
        BY <1>1, <2>4 DEF Blocked, WaitsFor
      <3>2. <<"id", Fresh(p)[m].id>> \in HeldKeys(p)
        BY <2>4, HeldIsAKey DEF IngestInv
      <3>3. QED
        BY <2>2, <3>1, <3>2
    <2>5. ASSUME NEW n \in DOMAIN Fresh(q), Held(q, n)' PROVE Held(q, n) \/ n = step[q]
      <3>1. n \in Nat
        BY FreshItems DEF IngestInv
      <3>2. n < step[q] + 1
        BY <2>1, <2>5 DEF Held
      <3>3. n < step[q] \/ n = step[q]
        BY <2>1, <3>1, <3>2
      <3>4. QED
        BY <1>1, <3>3 DEF Held
    <2>6. QED
      BY <1>1, <2>1, <2>3, <2>4, <2>5, FlushStep
  <1>4. QED
    BY <1>2, <1>3

\* The other ways for a request to end without a commit.
LEMMA FailuresPreserve ==
  ASSUME IngestInv, NEW q \in Requests, SessionMissing(q) \/ DeadlockAbort(q) \/ Crash(q)
  PROVE  IngestInv'
  <1>1. \E refusal \in Refusals \ {"conflict", "collision"} : RollBack(q, refusal)
    BY DEF SessionMissing, DeadlockAbort, Crash, Refusals
  <1>2. phase[q] # "created"
    <2>1. CASE DeadlockAbort(q)
      <3>1. \E r \in Requests : WaitsFor(q, r)
        BY <2>1 DEF DeadlockAbort, InDeadlock
      <3>2. QED
        BY <3>1 DEF WaitsFor
    <2>2. QED
      BY <2>1 DEF SessionMissing, Crash, Active
  <1>3. QED
    BY <1>1, <1>2, RollBackPreserves

-----------------------------------------------------------------------------
(* The commit of a batch. *)

LEMMA CommitFacts ==
  ASSUME IngestInv, NEW q \in Requests, Commit(q)
  PROVE  /\ phase[q] = "written" /\ \A n \in DOMAIN Fresh(q) : Held(q, n)
         /\ body[q].session \in Sessions /\ base[q] = nextSeq[body[q].session]
         /\ \A p \in Requests : phase'[p] = IF p = q THEN "created" ELSE phase[p]
         /\ \A s \in Sessions : lock'[s] = IF lock[s] = q THEN NoRequest ELSE lock[s]
         /\ \A s \in Sessions : nextSeq'[s] = IF s = body[q].session
                                              THEN base[q] + Len(Fresh(q)) ELSE nextSeq[s]
         /\ \A k \in DOMAIN Fresh(q) :
              /\ Fresh(q)[k].id \in Ids
              /\ record[Fresh(q)[k].id] = Absent
              /\ record'[Fresh(q)[k].id] = NewRecord(q, k)
              /\ PositionIn(Fresh(q), Fresh(q)[k].id) = k
         /\ FreshIds(q) = {Fresh(q)[k].id : k \in DOMAIN Fresh(q)}
         /\ \A r \in Ids : r \notin FreshIds(q) => record'[r] = record[r]
         /\ UNCHANGED <<body, base, prior, step>>
  <1>1. /\ phase[q] = "written" /\ \A n \in DOMAIN Fresh(q) : Held(q, n)
        /\ UNCHANGED <<body, base, prior, step>>
    BY DEF Commit, Held
  <1>2. body[q].session \in Sessions /\ base[q] = nextSeq[body[q].session]
    BY <1>1 DEF IngestInv, LockSound, Active
  <1>3. /\ \A p \in Requests : phase'[p] = IF p = q THEN "created" ELSE phase[p]
        /\ \A s \in Sessions : lock'[s] = IF lock[s] = q THEN NoRequest ELSE lock[s]
        /\ \A s \in Sessions : nextSeq'[s] = IF s = body[q].session
                                             THEN base[q] + Len(Fresh(q)) ELSE nextSeq[s]
    BY <1>2 DEF Commit, Enter, Release, NextSequence, IngestInv, TypeOK
  <1>4. \A k, l \in DOMAIN Fresh(q) : Fresh(q)[k].id = Fresh(q)[l].id => k = l
    BY FreshItems DEF IngestInv
  <1>5. \A k \in DOMAIN Fresh(q) : PositionIn(Fresh(q), Fresh(q)[k].id) = k
    BY <1>4 DEF PositionIn
  <1>6. FreshIds(q) = {Fresh(q)[k].id : k \in DOMAIN Fresh(q)}
    BY DEF FreshIds, ToSet
  <1>7. \A k \in DOMAIN Fresh(q) : Fresh(q)[k].id \in Ids
    BY FreshItems, BatchItems DEF IngestInv
  <1>8. \A k \in DOMAIN Fresh(q) : record[Fresh(q)[k].id] = Absent
    BY <1>1 DEF IngestInv, HeldSound, HeldFree
  <1>9. \A r \in Ids : record'[r] = IF r \in FreshIds(q)
                                    THEN NewRecord(q, PositionIn(Fresh(q), r)) ELSE record[r]
    BY DEF Commit
  <1>10. \A k \in DOMAIN Fresh(q) : record'[Fresh(q)[k].id] = NewRecord(q, k)
    BY <1>5, <1>6, <1>7, <1>9
  <1>11. QED
    BY <1>1, <1>2, <1>3, <1>5, <1>6, <1>7, <1>8, <1>9, <1>10

LEMMA NewRows ==
  ASSUME IngestInv, NEW q \in Requests, Commit(q), NEW k \in DOMAIN Fresh(q)
  PROVE  /\ NewRecord(q, k) \in Row /\ NewRecord(q, k) # Absent
         /\ NewRecord(q, k).session = body[q].session
         /\ NewRecord(q, k).content = Fresh(q)[k].content
         /\ NewRecord(q, k).seq = base[q] + k - 1
         /\ k \in Nat /\ k >= 1
  <1>1. k \in Nat /\ k >= 1 /\ Fresh(q)[k].content \in Contents
    BY FreshItems, BatchItems DEF IngestInv
  <1>2. body[q].session \in Sessions /\ base[q] \in Nat /\ base[q] >= 1
    BY CommitFacts DEF IngestInv, TypeOK
  <1>3. base[q] + k - 1 \in Nat \ {0}
    BY <1>1, <1>2
  <1>4. NewRecord(q, k) = [session |-> body[q].session, content |-> Fresh(q)[k].content,
                           seq |-> base[q] + k - 1]
    BY DEF NewRecord, Sequence
  <1>5. NewRecord(q, k) \in Row
    BY <1>1, <1>2, <1>3, <1>4 DEF Row
  <1>6. NewRecord(q, k) # Absent
    BY <1>1, <1>2, <1>3, <1>4, IngestAssumption
  <1>7. QED
    BY <1>1, <1>4, <1>5, <1>6

LEMMA CommitTyped ==
  ASSUME IngestInv, NEW q \in Requests, Commit(q)
  PROVE  TypeOK'
  <1>1. record' \in [Ids -> Row \cup {Absent}]
    <2>1. ASSUME NEW r \in Ids PROVE record'[r] \in Row \cup {Absent}
      <3>1. CASE r \in FreshIds(q)
        <4>1. PICK k \in DOMAIN Fresh(q) : r = Fresh(q)[k].id
          BY <3>1, CommitFacts
        <4>2. QED
          BY <4>1, CommitFacts, NewRows
      <3>2. CASE r \notin FreshIds(q)
        BY <3>2, CommitFacts DEF IngestInv, TypeOK, Row
      <3>3. QED
        BY <3>1, <3>2
    <2>2. record' = [r \in Ids |-> record'[r]]
      BY DEF Commit
    <2>3. QED
      BY <2>1, <2>2
  <1>2. nextSeq' \in [Sessions -> Nat \ {0}]
    <2>1. base[q] + Len(Fresh(q)) \in Nat \ {0}
      <3>1. base[q] \in Nat /\ base[q] # 0
        BY CommitFacts DEF IngestInv, TypeOK
      <3>2. Len(Fresh(q)) \in Nat
        BY FreshItems DEF IngestInv
      <3>3. QED
        BY <3>1, <3>2
    <2>2. QED
      BY <2>1 DEF Commit, NextSequence, IngestInv, TypeOK
  <1>3. upserted' \subseteq Authors \cup {Profile}
    <2> DEFINE authors == [n \in DOMAIN Fresh(q) |-> Fresh(q)[n].author]
    <2>1. \A n \in DOMAIN Fresh(q) : Fresh(q)[n].author \in Authors
      BY FreshItems, BatchItems DEF IngestInv, Item
    <2>2. authors \in Seq(Authors \cup {Profile})
      BY <2>1, FreshItems, IsASeq DEF IngestInv
    <2>3. <<Profile>> \in Seq(Authors \cup {Profile})
      OBVIOUS
    <2> HIDE DEF authors
    <2>4. <<Profile>> \o authors \in Seq(Authors \cup {Profile})
      BY <2>2, <2>3
    <2>5. ToSet(<<Profile>> \o authors) \subseteq Authors \cup {Profile}
      BY <2>4 DEF ToSet
    <2>6. Upserts(q) = <<Profile>> \o authors
      BY DEF Upserts, authors
    <2>7. QED
      BY <2>5, <2>6 DEF Commit, IngestInv, TypeOK
  <1>4. phase' \in [Requests -> Phases] /\ lock' \in [Sessions -> Requests \cup {NoRequest}]
    BY DEF Commit, Enter, Release, IngestInv, TypeOK, Phases
  <1>5. QED
    BY <1>1, <1>2, <1>3, <1>4 DEF Commit, IngestInv, TypeOK, Row

\* The new rows are numbered on from next_record_sequence.
LEMMA CommitGapless ==
  ASSUME IngestInv, NEW q \in Requests, Commit(q)
  PROVE  Gapless'
  <1> DEFINE S == body[q].session
             K == Len(Fresh(q))
  <1>1. /\ S \in Sessions /\ base[q] = nextSeq[S] /\ base[q] \in Nat /\ base[q] >= 1
        /\ K \in Nat /\ DOMAIN Fresh(q) = 1 .. K
        /\ \A s \in Sessions : nextSeq'[s] = IF s = S THEN base[q] + K ELSE nextSeq[s]
    BY CommitFacts, FreshItems DEF IngestInv, TypeOK
  <1>2. \A k \in 1 .. K : LET r == Fresh(q)[k].id IN
            /\ r \in Ids /\ record[r] = Absent /\ record'[r] # Absent
            /\ record'[r].session = S /\ record'[r].seq = base[q] + k - 1
    BY <1>1, CommitFacts, NewRows
  <1>3. \A r \in Ids : (\E k \in 1 .. K : r = Fresh(q)[k].id) \/ record'[r] = record[r]
    BY <1>1, CommitFacts
  <1> HIDE DEF S, K
  <1>4. ASSUME NEW s \in Sessions
        PROVE  /\ {record'[r].seq : r \in Stored(s)'} = 1 .. (nextSeq'[s] - 1)
               /\ \A r1, r2 \in Stored(s)' : record'[r1].seq = record'[r2].seq => r1 = r2
    <2>1. /\ {record[r].seq : r \in Stored(s)} = 1 .. (nextSeq[s] - 1)
          /\ \A r1, r2 \in Stored(s) : record[r1].seq = record[r2].seq => r1 = r2
      BY DEF IngestInv, Gapless
    <2>2. \A r \in Stored(s) : r \in Stored(s)' /\ record'[r] = record[r]
      BY <1>2, <1>3 DEF Stored
    <2>3. CASE s # S
      <3>1. \A r \in Stored(s)' : r \in Stored(s)
        BY <1>2, <1>3, <2>3 DEF Stored
      <3>2. Stored(s)' = Stored(s) /\ nextSeq'[s] = nextSeq[s]
        BY <1>1, <2>2, <2>3, <3>1
      <3>3. QED
        BY <2>1, <2>2, <3>2
    <2>4. CASE s = S
      <3>1. \A r \in Stored(s)' : r \in Stored(s) \/ \E k \in 1 .. K : r = Fresh(q)[k].id
        BY <1>2, <1>3, <2>4 DEF Stored
      <3>2. \A k \in 1 .. K : Fresh(q)[k].id \in Stored(s)' /\ record'[Fresh(q)[k].id].seq = base[q] + k - 1
        BY <1>2, <2>4 DEF Stored
      <3>3. \A r \in Stored(s) : record[r].seq \in 1 .. (base[q] - 1)
        BY <1>1, <2>1, <2>4
      <3>4. nextSeq'[s] - 1 = base[q] + K - 1
        BY <1>1, <2>4
      <3>5. \A r \in Stored(s)' : record'[r].seq \in 1 .. (nextSeq'[s] - 1)
        <4>1. ASSUME NEW r \in Stored(s)' PROVE record'[r].seq \in 1 .. (base[q] + K - 1)
          <5>1. CASE r \in Stored(s)
            BY <1>1, <2>2, <3>3, <5>1
          <5>2. CASE \E k \in 1 .. K : r = Fresh(q)[k].id
            <6>1. PICK k \in 1 .. K : r = Fresh(q)[k].id
              BY <5>2
            <6>2. record'[r].seq = base[q] + k - 1
              BY <3>2, <6>1
            <6>3. QED
              BY <1>1, <6>2
          <5>3. QED
            BY <3>1, <5>1, <5>2
        <4>2. QED
          BY <3>4, <4>1
      <3>6. \A n \in 1 .. (nextSeq'[s] - 1) : \E r \in Stored(s)' : record'[r].seq = n
        <4>1. ASSUME NEW n \in 1 .. (base[q] + K - 1) PROVE \E r \in Stored(s)' : record'[r].seq = n
          <5>1. CASE n <= base[q] - 1
            <6>1. n \in 1 .. (nextSeq[s] - 1)
              BY <1>1, <2>4, <5>1
            <6>2. PICK r \in Stored(s) : record[r].seq = n
              BY <2>1, <6>1
            <6>3. QED
              BY <2>2, <6>2
          <5>2. CASE n >= base[q]
            <6> DEFINE k == n - base[q] + 1
            <6>1. k \in 1 .. K /\ base[q] + k - 1 = n
              BY <1>1, <5>2
            <6> HIDE DEF k
            <6>2. QED
              BY <3>2, <6>1
          <5>3. QED
            BY <1>1, <5>1, <5>2
        <4>2. QED
          BY <3>4, <4>1
      <3>7. ASSUME NEW r1 \in Stored(s)', NEW r2 \in Stored(s)', record'[r1].seq = record'[r2].seq
            PROVE  r1 = r2
        <4>1. ASSUME NEW r \in Stored(s), NEW k \in 1 .. K PROVE record[r].seq # base[q] + k - 1
          <5>1. record[r].seq \in 1 .. (base[q] - 1)
            BY <3>3
          <5>2. QED
            BY <1>1, <5>1
        <4>2. CASE r1 \in Stored(s) /\ r2 \in Stored(s)
          BY <2>1, <2>2, <3>7, <4>2
        <4>3. CASE r1 \in Stored(s) /\ r2 \notin Stored(s)
          BY <2>2, <3>1, <3>2, <3>7, <4>1, <4>3
        <4>4. CASE r1 \notin Stored(s) /\ r2 \in Stored(s)
          BY <2>2, <3>1, <3>2, <3>7, <4>1, <4>4
        <4>5. CASE r1 \notin Stored(s) /\ r2 \notin Stored(s)
          <5>1. PICK k \in 1 .. K, l \in 1 .. K : r1 = Fresh(q)[k].id /\ r2 = Fresh(q)[l].id
            BY <3>1, <4>5
          <5>2. base[q] + k - 1 = base[q] + l - 1
            BY <3>2, <3>7, <5>1
          <5>3. k = l
            BY <1>1, <5>2
          <5>4. QED
            BY <5>1, <5>3
        <4>6. QED
          BY <4>2, <4>3, <4>4, <4>5
      <3>8. QED
        BY <3>5, <3>6, <3>7
    <2>5. QED
      BY <2>3, <2>4
  <1>5. QED
    BY <1>4 DEF Gapless

\* What the answer says is so, and only of this batch.
LEMMA CommitReceipts ==
  ASSUME IngestInv, NEW q \in Requests, Commit(q)
  PROVE  ReceiptSound'
  <1>1. \A p \in Requests : /\ Items(p)' = Items(p) /\ IdsOf(p)' = IdsOf(p)
                            /\ ToSet(Items(p))' = ToSet(Items(p)) /\ body'[p] = body[p]
    BY CommitFacts, BatchStays
  <1>2. /\ receipt'[q] = [r \in IdsOf(q) |-> Receipt(q, r)]
        /\ \A p \in Requests : p # q => receipt'[p] = receipt[p]
    BY DEF Commit, IngestInv, TypeOK, IdsOf
  <1>3. \A p \in Requests : phase'[p] = IF p = q THEN "created" ELSE phase[p]
    BY CommitFacts
  <1>4. \A r \in Ids : record[r] # Absent => record'[r] = record[r]
    BY CommitFacts
  <1>5. \A r \in FreshIds(q) : record[r] = Absent /\ r \in IdsOf(q) /\ r \notin prior[q]
    BY CommitFacts, FreshItems DEF IngestInv, IdsOf
  <1>6. \A i \in ToSet(Items(q)) : i.id \notin prior[q] =>
          \E k \in DOMAIN Fresh(q) : Fresh(q)[k] = i
    BY FreshItems DEF IngestInv
  <1>7. \A r \in FreshIds(q) : record'[r] # Absent
    BY CommitFacts, NewRows
  <1>8. \A r \in Ids : Creates(q, r)' <=> r \in FreshIds(q)
    <2>1. \A r \in IdsOf(q) : Receipt(q, r).created <=> r \notin prior[q]
      BY DEF Receipt
    <2>2. \A r \in IdsOf(q) : r \notin prior[q] => r \in FreshIds(q)
      BY <1>6, CommitFacts DEF IdsOf
    <2>3. QED
      BY <1>2, <1>3, <1>5, <2>1, <2>2 DEF Creates
  <1>9. \A p \in Requests, r \in Ids : p # q => (Creates(p, r)' <=> Creates(p, r))
    BY <1>2, <1>3 DEF Creates
  <1>10. \A r \in Ids : ~Creates(q, r)
    BY CommitFacts DEF Creates
  <1>11. ASSUME NEW p \in Requests, phase'[p] = "created"
         PROVE  /\ DOMAIN receipt'[p] = IdsOf(p)
                /\ \A i \in ToSet(Items(p)) :
                     /\ record'[i.id] # Absent
                     /\ record'[i.id] = [session |-> body[p].session, content |-> i.content,
                                         seq |-> receipt'[p][i.id].seq]
    <2>1. \A i \in ToSet(Items(p)) : i.id \in Ids /\ i.id \in IdsOf(p)
      BY BatchItems DEF IngestInv, IdsOf
    <2>2. CASE p # q
      <3>1. phase[p] = "created"
        BY <1>3, <1>11, <2>2
      <3>2. QED
        BY <1>2, <1>4, <2>1, <2>2, <3>1 DEF IngestInv, ReceiptSound
    <2>3. CASE p = q
      <3>1. ASSUME NEW i \in ToSet(Items(q)), i.id \in prior[q]
            PROVE  /\ record'[i.id] # Absent
                   /\ record'[i.id] = [session |-> body[q].session, content |-> i.content,
                                       seq |-> receipt'[q][i.id].seq]
        <4>1. /\ record[i.id] # Absent
              /\ record[i.id].session = body[q].session /\ record[i.id].content = i.content
          BY <3>1, CommitFacts DEF IngestInv, PriorSound, PriorOf
        <4>2. record[i.id] \in Row /\ record'[i.id] = record[i.id]
          BY <1>4, <2>1, <2>3, <4>1 DEF IngestInv, TypeOK, Row
        <4>3. receipt'[q][i.id].seq = record[i.id].seq
          BY <1>2, <2>1, <2>3, <3>1 DEF Receipt
        <4>4. record[i.id] = [session |-> record[i.id].session, content |-> record[i.id].content,
                              seq |-> record[i.id].seq]
          BY <4>2 DEF Row
        <4>5. QED
          BY <4>1, <4>2, <4>3, <4>4
      <3>2. ASSUME NEW i \in ToSet(Items(q)), i.id \notin prior[q]
            PROVE  /\ record'[i.id] # Absent
                   /\ record'[i.id] = [session |-> body[q].session, content |-> i.content,
                                       seq |-> receipt'[q][i.id].seq]
        <4>1. PICK k \in DOMAIN Fresh(q) : Fresh(q)[k] = i
          BY <1>6, <3>2
        <4>2. record'[i.id] = NewRecord(q, k) /\ NewRecord(q, k) # Absent
              /\ PositionIn(Fresh(q), i.id) = k
          BY <4>1, CommitFacts, NewRows
        <4>3. receipt'[q][i.id].seq = Sequence(q, k)
          BY <1>2, <2>1, <2>3, <3>2, <4>2 DEF Receipt
        <4>4. QED
          BY <4>1, <4>2, <4>3 DEF NewRecord
      <3>3. QED
        BY <1>2, <2>3, <3>1, <3>2
    <2>4. QED
      BY <2>2, <2>3
  <1>12. \A r \in Ids : record'[r] # Absent <=> \E p \in Requests : Creates(p, r)'
    <2>1. ASSUME NEW r \in Ids, r \in FreshIds(q) PROVE record'[r] # Absent /\ Creates(q, r)'
      BY <1>7, <1>8, <2>1
    <2>2. ASSUME NEW r \in Ids, r \notin FreshIds(q)
          PROVE  record'[r] # Absent <=> \E p \in Requests : Creates(p, r)'
      <3>1. record'[r] = record[r]
        BY <2>2, CommitFacts
      <3>2. (\E p \in Requests : Creates(p, r)') <=> \E p \in Requests : Creates(p, r)
        BY <1>8, <1>9, <1>10, <2>2
      <3>3. QED
        BY <3>1, <3>2 DEF IngestInv, ReceiptSound
    <2>3. QED
      BY <2>1, <2>2
  <1>13. \A r \in Ids : \A p, o \in Requests : Creates(p, r)' /\ Creates(o, r)' => p = o
    <2>1. \A r \in FreshIds(q), p \in Requests : r \in Ids => ~Creates(p, r)
      BY <1>5 DEF IngestInv, ReceiptSound
    <2>2. QED
      BY <1>8, <1>9, <2>1 DEF IngestInv, ReceiptSound
  <1>14. QED
    BY <1>1, <1>11, <1>12, <1>13 DEF ReceiptSound

LEMMA CommitPreserves ==
  ASSUME IngestInv, NEW q \in Requests, Commit(q)
  PROVE  IngestInv'
  <1>1. \A p \in Requests : phase'[p] = IF p = q THEN "created" ELSE phase[p]
    BY CommitFacts
  <1>2. \A p \in Requests : /\ Items(p)' = Items(p) /\ Fresh(p)' = Fresh(p)
                            /\ ToSet(Items(p))' = ToSet(Items(p))
                            /\ body'[p] = body[p] /\ prior'[p] = prior[p]
    BY CommitFacts, BatchStays
  <1>3. \A r \in Ids : record[r] # Absent => record'[r] = record[r]
    BY CommitFacts
  <1>4. \A p \in Requests : p # q /\ phase[p] \in Active => body[p].session # body[q].session
    <2>1. lock[body[q].session] = q
      BY CommitFacts DEF IngestInv, LockSound, Active
    <2>2. QED
      BY <2>1 DEF IngestInv, LockSound
  <1>5. LockSound'
    <2>1. ASSUME NEW s \in Sessions, lock'[s] # NoRequest
          PROVE  phase'[lock'[s]] \in Active /\ body'[lock'[s]].session = s
      <3>1. lock'[s] = lock[s] /\ lock[s] # q /\ lock[s] \in Requests
        BY <2>1, CommitFacts DEF IngestInv, TypeOK
      <3>2. QED
        BY <1>1, <1>2, <2>1, <3>1 DEF IngestInv, LockSound
    <2>2. ASSUME NEW p \in Requests, phase'[p] \in Active
          PROVE  /\ body'[p].session \in Sessions
                 /\ lock'[body'[p].session] = p
                 /\ base'[p] = nextSeq'[body'[p].session]
      <3>1. p # q /\ phase[p] \in Active
        BY <1>1, <2>2 DEF Active
      <3>2. body[p].session # body[q].session
        BY <1>4, <3>1
      <3>3. QED
        BY <3>1, <3>2, CommitFacts DEF IngestInv, LockSound
    <2>3. QED
      BY <2>1, <2>2 DEF LockSound
  <1>6. PriorSound'
    <2>1. ASSUME NEW p \in Requests, phase'[p] \in {"upserting", "writing", "written"},
                 NEW i \in ToSet(Items(p))
          PROVE  IF i.id \in prior[p]
                 THEN /\ record'[i.id] # Absent
                      /\ record'[i.id].session = body[p].session /\ record'[i.id].content = i.content
                 ELSE record'[i.id] # Absent => record'[i.id].session # body[p].session
      <3>1. p # q /\ phase[p] \in {"upserting", "writing", "written"} /\ phase[p] \in Active
        BY <1>1, <2>1 DEF Active
      <3>2. PriorOf(p) /\ i.id \in Ids
        BY BatchItems DEF IngestInv, PriorSound
      <3>3. CASE i.id \in prior[p]
        BY <1>3, <3>1, <3>2, <3>3 DEF PriorOf
      <3>4. CASE i.id \notin prior[p] /\ i.id \notin FreshIds(q)
        BY <3>1, <3>2, <3>4, CommitFacts DEF PriorOf
      <3>5. CASE i.id \notin prior[p] /\ i.id \in FreshIds(q)
        <4>1. record'[i.id].session = body[q].session
          BY <3>5, CommitFacts, NewRows
        <4>2. QED
          BY <1>4, <3>1, <3>5, <4>1
      <3>6. QED
        BY <3>3, <3>4, <3>5
    <2>2. QED
      BY <1>2, <2>1 DEF PriorSound, PriorOf
  <1>7. HeldSound'
    <2>1. \A p \in Requests : \A n : Held(p, n)' => p # q /\ Held(p, n)
      BY <1>1, <1>2, CommitFacts DEF Held
    <2>2. ASSUME NEW p \in Requests, NEW m \in DOMAIN Fresh(p), Held(p, m)'
          PROVE  record'[Fresh(p)[m].id] = Absent
      <3>1. p # q /\ Held(p, m)
        BY <2>1, <2>2
      <3>2. HeldApart(p, q) /\ HeldFree(p)
        BY <3>1 DEF IngestInv, HeldSound
      <3>3. Fresh(p)[m].id \notin FreshIds(q)
        BY <3>1, <3>2, CommitFacts DEF HeldApart
      <3>4. Fresh(p)[m].id \in Ids /\ record[Fresh(p)[m].id] = Absent
        BY <3>1, <3>2, FreshItems, BatchItems DEF IngestInv, HeldFree
      <3>5. QED
        BY <3>3, <3>4, CommitFacts
    <2>3. \A p, r \in Requests : p # r => HeldApart(p, r)'
      BY <1>2, <2>1 DEF IngestInv, HeldSound, HeldApart
    <2>4. QED
      BY <1>2, <2>2, <2>3 DEF HeldSound, HeldFree
  <1>8. RefusedSound'
    <2>1. phase[q] = "written"
      BY CommitFacts
    <2>2. \A p, r \in Requests : Reuses(p, r)' <=> Reuses(p, r)
      BY <1>2 DEF Reuses
    <2>3. QED
      BY <1>1, <2>1, <2>2 DEF IngestInv, RefusedSound
  <1>9. QED
    BY <1>5, <1>6, <1>7, <1>8, CommitTyped, CommitGapless, CommitReceipts DEF IngestInv

-----------------------------------------------------------------------------
(* The invariant of ingest, and what follows from it. *)

LEMMA IngestInit == Init => IngestInv
  <1> SUFFICES ASSUME Init PROVE IngestInv
    OBVIOUS
  <1>1. /\ \A q \in Requests : phase[q] = "idle"
        /\ \A s \in Sessions : lock[s] = NoRequest /\ nextSeq[s] = 1
        /\ \A r \in Ids : record[r] = Absent
    BY DEF Init
  <1>2. TypeOK
    <2>1. NoBody \in Bodies
      BY IngestAssumption DEF NoBody
    <2>2. QED
      BY <2>1 DEF Init, TypeOK, Phases
  <1>3. LockSound /\ PriorSound
    BY <1>1 DEF LockSound, PriorSound, PriorOf, Active
  <1>4. HeldSound
    <2>1. \A q \in Requests : \A n : ~Held(q, n)
      BY <1>1 DEF Held
    <2>2. QED
      BY <2>1 DEF HeldSound, HeldFree, HeldApart
  <1>5. Gapless
    <2>1. \A s \in Sessions : Stored(s) = {}
      BY <1>1 DEF Stored
    <2>2. \A s \in Sessions : 1 .. (nextSeq[s] - 1) = {}
      BY <1>1
    <2>3. QED
      BY <2>1, <2>2 DEF Gapless
  <1>6. ReceiptSound /\ RefusedSound
    <2>1. \A q \in Requests, r \in Ids : ~Creates(q, r)
      BY <1>1 DEF Creates
    <2>2. QED
      BY <1>1, <2>1 DEF ReceiptSound, RefusedSound
  <1>7. QED
    BY <1>2, <1>3, <1>4, <1>5, <1>6 DEF IngestInv

LEMMA IngestStays == IngestInv /\ UNCHANGED vars => IngestInv'
  <1> SUFFICES ASSUME IngestInv, UNCHANGED vars PROVE IngestInv'
    OBVIOUS
  <1> USE DEF vars, tableVars, requestVars
  <1>1. \A q \in Requests : /\ Items(q)' = Items(q) /\ Fresh(q)' = Fresh(q) /\ IdsOf(q)' = IdsOf(q)
                            /\ ToSet(Items(q))' = ToSet(Items(q))
    BY BatchStays
  <1>2. TypeOK' /\ LockSound' /\ Gapless'
    BY DEF IngestInv, TypeOK, LockSound, Gapless, Stored
  <1>3. PriorSound' /\ HeldSound'
    BY <1>1 DEF IngestInv, PriorSound, PriorOf, HeldSound, HeldFree, HeldApart, Held
  <1>4. ReceiptSound' /\ RefusedSound'
    BY <1>1 DEF IngestInv, ReceiptSound, RefusedSound, Creates, Reuses
  <1>5. QED
    BY <1>2, <1>3, <1>4 DEF IngestInv

LEMMA IngestNext == IngestInv /\ [MemoryNext]_<<vars, extractionVars, kind>> => IngestInv'
  <1> SUFFICES ASSUME IngestInv, [MemoryNext]_<<vars, extractionVars, kind>> PROVE IngestInv'
    OBVIOUS
  <1>1. CASE UNCHANGED vars
    BY <1>1, IngestStays
  <1>2. CASE Next
    BY <1>2, SendPreserves, FailuresPreserve, LockSessionPreserves, ReadExistingPreserves,
       UpsertPreserves, InsertRecordPreserves, FlushDonePreserves, CommitPreserves DEF Next
  <1>3. QED
    BY <1>1, <1>2 DEF MemoryNext

THEOREM IngestInvHolds == MemorySpec => []IngestInv
  <1>1. MemoryInit => IngestInv
    BY IngestInit DEF MemoryInit
  <1>2. QED
    BY <1>1, IngestNext, PTL DEF MemorySpec

\* What a 201 of records:batch said stays true, for every item of the batch, and
\* a record was reported as created by exactly one answer (ingest_records).
THEOREM ReceiptsAlwaysHold == MemorySpec => []ReceiptsHold
  <1>1. IngestInv => ReceiptsHold
    <2> SUFFICES ASSUME IngestInv PROVE ReceiptsHold
      OBVIOUS
    <2>1. ASSUME NEW r \in Ids, record[r] # Absent
          PROVE  Cardinality({q \in Requests : /\ phase[q] = "created"
                                               /\ r \in DOMAIN receipt[q]
                                               /\ receipt[q][r].created}) = 1
      <3>1. PICK q \in Requests : Creates(q, r)
        BY <2>1 DEF IngestInv, ReceiptSound
      <3>2. {p \in Requests : /\ phase[p] = "created" /\ r \in DOMAIN receipt[p]
                              /\ receipt[p][r].created} = {q}
        BY <3>1 DEF IngestInv, ReceiptSound, Creates
      <3>3. QED
        BY <3>2, FS_Singleton
    <2>2. QED
      BY <2>1 DEF IngestInv, ReceiptSound, ReceiptsHold
  <1>2. QED
    BY <1>1, IngestInvHolds, PTL

\* Only a batch that contradicts another one sent is answered 409 or fails on a
\* unique key, so that a retry never is (ingest_records).
THEOREM HonestIsNeverRefused == MemorySpec => []HonestNotRefused
  <1>1. IngestInv => HonestNotRefused
    BY DEF IngestInv, RefusedSound, HonestNotRefused
  <1>2. QED
    BY <1>1, IngestInvHolds, PTL

-----------------------------------------------------------------------------
(* The refinement: the tables are the append-only logs of RecordLog. *)

Entry(r, content) == [id |-> r, content |-> content]

\* A body as RecordLog takes it.
Bare(b) == [session |-> b.session,
            items |-> [n \in DOMAIN b.items |-> Entry(b.items[n].id, b.items[n].content)]]

LogNow == [s \in Sessions |-> LogOf(s)]

\* The n-th entry of a session's log is its row with that sequence.
LogSound ==
    \A s \in Sessions :
        /\ nextSeq[s] \in Nat /\ nextSeq[s] >= 1
        /\ LogOf(s) = [n \in 1 .. (nextSeq[s] - 1) |-> LogOf(s)[n]]
        /\ \A r \in Stored(s) : /\ record[r].seq \in 1 .. (nextSeq[s] - 1)
                                /\ LogOf(s)[record[r].seq] = Entry(r, record[r].content)
        /\ \A n \in 1 .. (nextSeq[s] - 1) : \E r \in Stored(s) : record[r].seq = n

LEMMA LogItems == TypeOK /\ Gapless => LogSound
  <1> SUFFICES ASSUME TypeOK, Gapless, NEW s \in Sessions
               PROVE  /\ nextSeq[s] \in Nat /\ nextSeq[s] >= 1
                      /\ LogOf(s) = [n \in 1 .. (nextSeq[s] - 1) |-> LogOf(s)[n]]
                      /\ \A r \in Stored(s) :
                           /\ record[r].seq \in 1 .. (nextSeq[s] - 1)
                           /\ LogOf(s)[record[r].seq] = Entry(r, record[r].content)
                      /\ \A n \in 1 .. (nextSeq[s] - 1) : \E r \in Stored(s) : record[r].seq = n
    BY DEF LogSound
  <1>1. nextSeq[s] \in Nat /\ nextSeq[s] >= 1
    BY DEF TypeOK
  <1>2. /\ \A r \in Stored(s) : record[r].seq \in 1 .. (nextSeq[s] - 1)
        /\ \A n \in 1 .. (nextSeq[s] - 1) : \E r \in Stored(s) : record[r].seq = n
        /\ \A r1, r2 \in Stored(s) : record[r1].seq = record[r2].seq => r1 = r2
    BY DEF Gapless
  <1> DEFINE rowAt(n) == CHOOSE r \in Stored(s) : record[r].seq = n
  <1>3. \A r \in Stored(s) : rowAt(record[r].seq) = r
    BY <1>2
  <1>4. LogOf(s) = [n \in 1 .. (nextSeq[s] - 1) |-> Entry(rowAt(n), record[rowAt(n)].content)]
    BY DEF LogOf, Entry
  <1> HIDE DEF rowAt
  <1>5. QED
    BY <1>1, <1>2, <1>3, <1>4

\* The log of a session that keeps its rows stays as it is.
LEMMA LogStays ==
  ASSUME LogSound, LogSound', NEW s \in Sessions, nextSeq'[s] = nextSeq[s],
         \A r \in Stored(s) : r \in Stored(s)' /\ record'[r] = record[r]
  PROVE  LogOf(s)' = LogOf(s)
  <1> DEFINE N == nextSeq[s] - 1
             old == LogOf(s)
             new == LogOf(s)'
  <1>1. /\ old = [n \in 1 .. N |-> old[n]]
        /\ \A r \in Stored(s) : old[record[r].seq] = Entry(r, record[r].content)
        /\ \A n \in 1 .. N : \E r \in Stored(s) : record[r].seq = n
    BY DEF LogSound
  <1>2. /\ new = [n \in 1 .. N |-> new[n]]
        /\ \A r \in Stored(s)' : new[record'[r].seq] = Entry(r, record'[r].content)
    BY DEF LogSound, Entry
  <1> HIDE DEF old, new, N
  <1>3. \A n \in 1 .. N : new[n] = old[n]
    BY <1>1, <1>2
  <1>4. new = old
    BY <1>1, <1>2, <1>3
  <1>5. QED
    BY <1>4 DEF old, new

LEMMA HomesOf ==
  ASSUME TypeOK, LogSound, NEW r \in Ids
  PROVE  Log!Homes(r) = {} <=> record[r] = Absent
  <1>1. Log!Homes(r) = {s \in Sessions : \E n \in DOMAIN LogOf(s) : LogOf(s)[n].id = r}
    BY DEF Log!Homes
  <1>2. CASE record[r] = Absent
    <2>1. ASSUME NEW s \in Sessions, NEW n \in DOMAIN LogOf(s) PROVE LogOf(s)[n].id # r
      <3>1. n \in 1 .. (nextSeq[s] - 1)
        BY <2>1 DEF LogSound
      <3>2. PICK p \in Stored(s) : record[p].seq = n
        BY <3>1 DEF LogSound
      <3>3. LogOf(s)[n] = Entry(p, record[p].content)
        BY <3>2 DEF LogSound
      <3>4. p # r
        BY <1>2 DEF Stored
      <3>5. QED
        BY <3>3, <3>4 DEF Entry
    <2>2. QED
      BY <1>1, <1>2, <2>1
  <1>3. CASE record[r] # Absent
    <2> DEFINE s == record[r].session
               n == record[r].seq
    <2>1. s \in Sessions /\ r \in Stored(s)
      BY <1>3 DEF TypeOK, Stored
    <2>2. n \in 1 .. (nextSeq[s] - 1) /\ LogOf(s)[n] = Entry(r, record[r].content)
      BY <2>1 DEF LogSound
    <2>3. n \in DOMAIN LogOf(s) /\ LogOf(s)[n].id = r
      BY <2>1, <2>2 DEF LogSound, Entry
    <2>4. QED
      BY <1>1, <1>3, <2>1, <2>3
  <1>4. QED
    BY <1>2, <1>3

\* At its commit, an item of a batch is new if and only if no row has its id.
LEMMA NewItems ==
  ASSUME IngestInv, NEW q \in Requests, Commit(q), NEW i \in ToSet(Items(q))
  PROVE  i.id \in Ids /\ (record[i.id] = Absent <=> i.id \notin prior[q])
  <1>1. i.id \in Ids
    BY BatchItems DEF IngestInv
  <1>2. CASE i.id \in prior[q]
    BY <1>1, <1>2, CommitFacts DEF IngestInv, PriorSound, PriorOf
  <1>3. CASE i.id \notin prior[q]
    <2>1. \E k \in DOMAIN Fresh(q) : Fresh(q)[k] = i
      BY <1>3, FreshItems DEF IngestInv
    <2>2. QED
      BY <1>1, <1>3, <2>1, CommitFacts
  <1>4. QED
    BY <1>2, <1>3

LEMMA UnseenAreFresh ==
  ASSUME IngestInv, LogSound, NEW q \in Requests, Commit(q)
  PROVE  Log!Unseen(Bare(body[q])) =
            [k \in DOMAIN Fresh(q) |-> Entry(Fresh(q)[k].id, Fresh(q)[k].content)]
  <1> DEFINE items == [n \in DOMAIN Items(q) |-> Entry(Items(q)[n].id, Items(q)[n].content)]
             P == {n \in DOMAIN Items(q) : Items(q)[n].id \notin prior[q]}
             place(k) == CHOOSE n \in P : Rank(P, n) = k
  <1>1. Bare(body[q]).items = items
    BY DEF Bare, Items
  <1>2. {n \in DOMAIN items : Log!Homes(items[n].id) = {}} = P
    <2>1. \A n \in DOMAIN Items(q) : Items(q)[n] \in ToSet(Items(q)) /\ items[n].id = Items(q)[n].id
      BY BatchItems DEF IngestInv, Entry
    <2>2. \A n \in DOMAIN Items(q) : Log!Homes(items[n].id) = {} <=> Items(q)[n].id \notin prior[q]
      BY <2>1, NewItems, HomesOf DEF IngestInv
    <2>3. QED
      BY <2>2
  <1>3. \A k \in 1 .. Cardinality(P) : place(k) \in P
    <2>1. P \in SUBSET DOMAIN Items(q) /\ Items(q) \in Seq(Item)
      BY BatchItems DEF IngestInv
    <2> HIDE DEF P
    <2>2. \A k \in 1 .. Cardinality(P) : \E n \in P : Rank(P, n) = k
      BY <2>1, ChosenItems
    <2>3. QED
      BY <2>2
  <1>4. \A n \in P : n \in DOMAIN Items(q) /\ items[n] = Entry(Items(q)[n].id, Items(q)[n].content)
    OBVIOUS
  <1>5. Fresh(q) = [k \in 1 .. Cardinality(P) |-> Items(q)[place(k)]]
    BY DEF Fresh, Chosen
  <1>6. Log!Unseen(Bare(body[q])) = Log!Chosen(Bare(body[q]).items,
            {n \in DOMAIN Bare(body[q]).items : Log!Homes(Bare(body[q]).items[n].id) = {}})
    BY DEF Log!Unseen
  <1>7. Log!Unseen(Bare(body[q])) = Log!Chosen(items, P)
    BY <1>1, <1>2, <1>6
  <1>8. Log!Chosen(items, P) = [k \in 1 .. Cardinality(P) |-> items[place(k)]]
    <2>1. \A S : Log!Cardinality(S) = Cardinality(S)
      BY DEF Log!Cardinality, Cardinality, Log!IsFiniteSet, IsFiniteSet
    <2>2. \A n : Log!Rank(P, n) = Rank(P, n)
      BY <2>1 DEF Log!Rank, Rank
    <2> HIDE DEF items, P
    <2> DEFINE logPlace(k) == CHOOSE n \in P : Log!Rank(P, n) = k
    <2>3. \A k \in 1 .. Cardinality(P) : logPlace(k) = place(k)
      <3>1. P \in SUBSET DOMAIN Items(q) /\ Items(q) \in Seq(Item)
        BY BatchItems DEF IngestInv, P
      <3>2. IsFiniteSet(P) /\ P \in SUBSET Int
        <4>1. DOMAIN Items(q) = 1 .. Len(Items(q)) /\ Len(Items(q)) \in Nat
          BY <3>1, LenProperties
        <4>2. IsFiniteSet(1 .. Len(Items(q))) /\ 1 .. Len(Items(q)) \subseteq Int
          BY <4>1, FS_Interval
        <4>3. QED
          BY <3>1, <4>1, <4>2, FS_Subset
      <3>3. /\ \A m, n \in P : Rank(P, m) = Rank(P, n) => m = n
            /\ \A k \in 1 .. Cardinality(P) : \E n \in P : Rank(P, n) = k
        BY <3>2, RankNumbers
      <3>4. QED
        BY <2>2, <3>3
    <2>4. Log!Chosen(items, P) = [k \in 1 .. Log!Cardinality(P) |-> items[logPlace(k)]]
      BY DEF Log!Chosen
    <2> HIDE DEF logPlace, place
    <2>5. QED
      BY <2>1, <2>3, <2>4
  <1> HIDE DEF items, P, place
  <1>9. QED
    BY <1>3, <1>4, <1>5, <1>7, <1>8

\* Only new entries follow the old ones, in the order of the batch.
LEMMA CommitAppends ==
  ASSUME IngestInv, LogSound, LogSound', NEW q \in Requests, Commit(q)
  PROVE  LogNow' = [LogNow EXCEPT ![body[q].session] = @ \o Log!Unseen(Bare(body[q]))]
  <1> SUFFICES ASSUME NEW S \in Sessions, S = body[q].session
               PROVE  LogNow' = [LogNow EXCEPT ![S] = @ \o Log!Unseen(Bare(body[q]))]
    BY CommitFacts
  <1> DEFINE K == Len(Fresh(q))
             N == nextSeq[S] - 1
             old == LogOf(S)
             new == LogOf(S)'
             unseen == [k \in 1 .. K |-> Entry(Fresh(q)[k].id, Fresh(q)[k].content)]
             E == [id : Ids, content : Contents]
  <1>1. /\ S \in Sessions /\ base[q] = N + 1 /\ N \in Nat /\ K \in Nat /\ DOMAIN Fresh(q) = 1 .. K
        /\ nextSeq'[S] = N + 1 + K
    <2>1. S \in Sessions /\ base[q] = nextSeq[S] /\ nextSeq'[S] = base[q] + K
      BY CommitFacts
    <2>2. nextSeq[S] \in Nat /\ nextSeq[S] >= 1 /\ K \in Nat /\ DOMAIN Fresh(q) = 1 .. K
      BY <2>1, FreshItems DEF IngestInv, LogSound
    <2>3. QED
      BY <2>1, <2>2
  <1>2. \A s \in Sessions : \A r \in Stored(s) : r \in Stored(s)' /\ record'[r] = record[r]
    BY CommitFacts DEF Stored
  <1>3. \A s \in Sessions : s # S => LogOf(s)' = LogOf(s)
    BY <1>2, CommitFacts, LogStays
  <1>4. /\ old = [n \in 1 .. N |-> old[n]]
        /\ \A n \in 1 .. N : \E r \in Stored(S) : record[r].seq = n
        /\ \A r \in Stored(S) : old[record[r].seq] = Entry(r, record[r].content)
    BY <1>1 DEF LogSound
  <1>5. /\ new = [n \in 1 .. (N + K) |-> new[n]]
        /\ \A r \in Stored(S)' : new[record'[r].seq] = Entry(r, record'[r].content)
    <2>1. nextSeq'[S] - 1 = N + K
      BY <1>1
    <2>2. QED
      BY <1>1, <2>1 DEF LogSound, Entry
  <1>6. ASSUME NEW n \in 1 .. N PROVE new[n] = old[n]
    <2>1. PICK r \in Stored(S) : record[r].seq = n
      BY <1>4
    <2>2. old[n] = Entry(r, record[r].content)
      BY <1>4, <2>1
    <2>3. r \in Stored(S)' /\ record'[r] = record[r]
      BY <1>1, <1>2
    <2>4. new[n] = Entry(r, record[r].content)
      BY <1>5, <2>1, <2>3
    <2>5. QED
      BY <2>2, <2>4
  <1>7. ASSUME NEW k \in 1 .. K PROVE new[N + k] = unseen[k]
    <2> DEFINE r == Fresh(q)[k].id
    <2>1. /\ r \in Ids /\ record'[r] # Absent /\ record'[r].session = S
          /\ record'[r].content = Fresh(q)[k].content /\ record'[r].seq = base[q] + k - 1
      BY <1>1, CommitFacts, NewRows
    <2>2. record'[r].seq = N + k
      BY <1>1, <2>1
    <2>3. r \in Stored(S)'
      BY <2>1, CommitFacts DEF Stored
    <2>4. new[N + k] = Entry(r, record'[r].content)
      BY <1>5, <2>2, <2>3
    <2>5. QED
      BY <2>1, <2>4
  <1>8. old \in Seq(E) /\ Len(old) = N
    <2>1. \A n \in 1 .. N : old[n] \in E
      <3>1. ASSUME NEW n \in 1 .. N PROVE old[n] \in E
        <4>1. PICK r \in Stored(S) : old[n] = Entry(r, record[r].content)
          <5> HIDE DEF old, N
          <5>1. PICK r \in Stored(S) : record[r].seq = n
            BY <1>4
          <5>2. old[record[r].seq] = Entry(r, record[r].content)
            BY <1>4
          <5>3. QED
            BY <5>1, <5>2
        <4>2. r \in Ids /\ record[r].content \in Contents
          BY DEF Stored, IngestInv, TypeOK
        <4>3. QED
          BY <4>1, <4>2 DEF Entry
      <3>2. QED
        BY <3>1
    <2> HIDE DEF old, N, E
    <2>2. old \in [1 .. N -> E]
      BY <1>4, <2>1
    <2>3. QED
      BY <1>1, <2>2, IsASeq, LenProperties
  <1>9. unseen \in Seq(E) /\ Len(unseen) = K
    <2>1. \A k \in 1 .. K : Fresh(q)[k].id \in Ids /\ Fresh(q)[k].content \in Contents
      BY <1>1, FreshItems, BatchItems DEF IngestInv
    <2>2. unseen \in [1 .. K -> E]
      BY <2>1 DEF Entry
    <2> HIDE DEF unseen, K, E
    <2>3. QED
      BY <1>1, <2>2, IsASeq, LenProperties
  <1>10. Log!Unseen(Bare(body[q])) = unseen
    BY <1>1, UnseenAreFresh
  <1> HIDE DEF old, new, unseen, E, N, K
  <1>11. new = old \o unseen
    <2> DEFINE both == old \o unseen
    <2>1. /\ both \in Seq(E) /\ Len(both) = N + K
          /\ \A n \in 1 .. (N + K) : both[n] = IF n <= N THEN old[n] ELSE unseen[n - N]
      BY <1>8, <1>9, ConcatProperties
    <2>2. both = [n \in 1 .. (N + K) |-> both[n]]
      BY <2>1, LenProperties
    <2> HIDE DEF both
    <2>3. ASSUME NEW n \in 1 .. (N + K) PROVE new[n] = both[n]
      <3>1. CASE n <= N
        <4>1. n \in 1 .. N
          BY <1>1, <3>1
        <4>2. QED
          BY <1>6, <2>1, <3>1, <4>1
      <3>2. CASE ~(n <= N)
        <4>1. n - N \in 1 .. K /\ N + (n - N) = n
          BY <1>1, <3>2
        <4>2. QED
          BY <1>7, <2>1, <3>2, <4>1
      <3>3. QED
        BY <3>1, <3>2
    <2>4. new = both
      BY <1>5, <2>2, <2>3
    <2>5. QED
      BY <2>4 DEF both
  <1>12. LogNow' = [s \in Sessions |-> LogOf(s)']
    BY DEF LogNow
  <1>13. LogNow' = [LogNow EXCEPT ![S] = @ \o unseen]
    <2>1. LogNow[S] = old /\ \A s \in Sessions : LogNow[s] = LogOf(s)
      BY <1>1 DEF LogNow, old
    <2>2. LogNow'[S] = new /\ \A s \in Sessions : LogNow'[s] = LogOf(s)'
      BY <1>1, <1>12 DEF new
    <2>3. LogNow = [s \in Sessions |-> LogNow[s]] /\ LogNow' = [s \in Sessions |-> LogNow'[s]]
      BY <1>12 DEF LogNow
    <2>4. \A s \in Sessions : LogNow'[s] = IF s = S THEN LogNow[s] \o unseen ELSE LogNow[s]
      BY <1>3, <1>11, <2>1, <2>2
    <2>5. QED
      BY <1>1, <2>3, <2>4
  <1>14. QED
    BY <1>10, <1>13

LEMMA CommitIsConsistent ==
  ASSUME IngestInv, LogSound, NEW q \in Requests, Commit(q)
  PROVE  Log!Consistent(Bare(body[q]))
  <1> DEFINE b == Bare(body[q])
             S == body[q].session
  <1>1. b.session = S /\ S \in Sessions
        /\ b.items = [n \in DOMAIN Items(q) |-> Entry(Items(q)[n].id, Items(q)[n].content)]
    BY CommitFacts DEF Bare, Items
  <1>2. ASSUME NEW n \in DOMAIN Items(q), Log!Homes(Items(q)[n].id) # {}
        PROVE  \E m \in DOMAIN LogOf(S) :
                  LogOf(S)[m] = Entry(Items(q)[n].id, Items(q)[n].content)
    <2> DEFINE i == Items(q)[n]
               m == record[i.id].seq
    <2>1. i \in ToSet(Items(q))
      BY BatchItems DEF IngestInv
    <2>2. i.id \in Ids /\ record[i.id] # Absent /\ i.id \in prior[q]
      BY <1>2, <2>1, NewItems, HomesOf DEF IngestInv
    <2>3. record[i.id].session = S /\ record[i.id].content = i.content
      BY <2>1, <2>2, CommitFacts DEF IngestInv, PriorSound, PriorOf
    <2>4. i.id \in Stored(S)
      BY <2>2, <2>3 DEF Stored
    <2>5. m \in DOMAIN LogOf(S) /\ LogOf(S)[m] = Entry(i.id, i.content)
      BY <1>1, <2>3, <2>4 DEF LogSound
    <2>6. QED
      BY <2>5
  <1>3. \A n \in DOMAIN b.items : b.items[n] = Entry(Items(q)[n].id, Items(q)[n].content)
                                  /\ b.items[n].id = Items(q)[n].id /\ n \in DOMAIN Items(q)
    BY <1>1 DEF Entry
  <1> HIDE DEF b, S
  <1>4. ASSUME NEW i \in Log!ToSet(b.items), Log!Homes(i.id) # {}
        PROVE  i \in Log!ToSet(LogOf(S))
    <2>1. PICK n \in DOMAIN b.items : i = b.items[n]
      BY DEF Log!ToSet
    <2>2. n \in DOMAIN Items(q) /\ i = Entry(Items(q)[n].id, Items(q)[n].content) /\ i.id = Items(q)[n].id
      BY <1>3, <2>1
    <2>3. \E m \in DOMAIN LogOf(S) : LogOf(S)[m] = i
      BY <1>2, <1>4, <2>2
    <2>4. QED
      BY <2>3 DEF Log!ToSet
  <1>5. Log!Consistent(b)
    <2>1. [s \in Sessions |-> LogOf(s)][b.session] = LogOf(S)
      BY <1>1
    <2>2. QED
      BY <1>4, <2>1 DEF Log!Consistent
  <1>6. QED
    BY <1>5 DEF b

\* A step that commits no batch leaves the logs alone.
LEMMA OthersLeaveLogs ==
  Next => (UNCHANGED <<nextSeq, record>> \/ \E q \in Requests : Commit(q))
  <1> SUFFICES ASSUME Next
               PROVE  UNCHANGED <<nextSeq, record>> \/ \E q \in Requests : Commit(q)
    OBVIOUS
  <1>1. ASSUME NEW q \in Requests, NEW b \in Bodies, Send(q, b) PROVE UNCHANGED <<nextSeq, record>>
    BY <1>1 DEF Send, tableVars
  <1>2. ASSUME NEW q \in Requests,
               SessionMissing(q) \/ LockSession(q) \/ ReadExisting(q) \/ Upsert(q)
               \/ InsertRecord(q) \/ FlushDone(q) \/ DeadlockAbort(q) \/ Crash(q)
        PROVE  UNCHANGED <<nextSeq, record>>
    BY <1>2 DEF SessionMissing, LockSession, ReadExisting, Upsert, InsertRecord, FlushDone,
                DeadlockAbort, Crash, RollBack, tableVars
  <1>3. QED
    BY <1>1, <1>2 DEF Next

LEMMA LogsStay == UNCHANGED <<nextSeq, record>> => LogNow' = LogNow
  BY DEF LogNow, LogOf, Stored

LEMMA CommitIsLogged ==
  ASSUME IngestInv, LogSound, LogSound', NEW q \in Requests, Commit(q)
  PROVE  Log!LogNext
  <1> DEFINE b == Bare(body[q])
  <1>1. b.session \in Sessions /\ b.session = body[q].session
    BY CommitFacts DEF Bare
  <1>2. body[q] \in Bodies
    BY DEF IngestInv, TypeOK
  <1>3. Log!Consistent(b) /\ LogNow' = [LogNow EXCEPT ![b.session] = @ \o Log!Unseen(b)]
    BY <1>1, CommitIsConsistent, CommitAppends
  <1>4. Log!AppendBatch(b)
    BY <1>1, <1>3 DEF Log!AppendBatch, LogNow
  <1>5. \E c \in Bodies : b = Bare(c)
    BY <1>2
  <1> HIDE DEF b
  <1>6. QED
    BY <1>4, <1>5 DEF Log!LogNext, Bare, Entry

\* Seen through its committed tables, the record API is RecordLog: a batch is
\* appended whole, behind what the session holds and without what it holds
\* already, whatever runs at the same time, fails or is sent again
\* (ingest_records).
THEOREM IngestIsALog == MemorySpec => ImplementsLog
  <1>1. IngestInv => Gapless /\ LogSound
    BY LogItems DEF IngestInv
  <1>2. MemoryInit => Log!LogInit
    <2> SUFFICES ASSUME MemoryInit PROVE [s \in Sessions |-> LogOf(s)] = [s \in Sessions |-> <<>>]
      BY DEF Log!LogInit
    <2>1. ASSUME NEW s \in Sessions PROVE LogOf(s) = <<>>
      <3>1. 1 .. (nextSeq[s] - 1) = {}
        BY DEF MemoryInit, Init
      <3>2. QED
        BY <3>1 DEF LogOf
    <2>2. QED
      BY <2>1
  <1>3. IngestInv /\ LogSound /\ LogSound' /\ [MemoryNext]_<<vars, extractionVars, kind>>
        => [Log!LogNext]_LogNow
    <2> SUFFICES ASSUME IngestInv, LogSound, LogSound', [MemoryNext]_<<vars, extractionVars, kind>>
                 PROVE  Log!LogNext \/ LogNow' = LogNow
      OBVIOUS
    <2>1. Next \/ UNCHANGED vars
      BY DEF MemoryNext
    <2>2. UNCHANGED vars => UNCHANGED <<nextSeq, record>>
      BY DEF vars, tableVars
    <2>3. QED
      BY <2>1, <2>2, OthersLeaveLogs, LogsStay, CommitIsLogged
  <1>4. [Log!LogNext]_LogNow => [Log!LogNext]_[s \in Sessions |-> LogOf(s)]
    BY DEF LogNow
  <1>5. QED
    BY <1>1, <1>2, <1>3, <1>4, IngestInvHolds, PTL DEF MemorySpec, ImplementsLog, Log!LogSpec

-----------------------------------------------------------------------------
(* Claims extracted from records. *)

Working(e) == execution[e] \in {"claiming", "sourcing"}

\* The claims an execution inserted and has a source for.
Sourced(e) == {k \in tx[e].claims : k.ordinal # at[e]}

\* What an execution has written belongs to the candidates it has dealt with.
Written(e) ==
    /\ \A k \in tx[e].claims :
         /\ k.id = <<e, k.ordinal>> /\ k.job = job[e] /\ k.ordinal \in 1 .. at[e]
         /\ k.text = output[e][k.ordinal].text
         /\ k.ordinal = at[e] => execution[e] = "sourcing"
    /\ \A k \in Sourced(e) :
         \E s \in tx[e].sources : s.claim = k.id /\ s.record = k.job /\ s.says = k.text
    /\ tx[e].embeds = {k.id : k \in Sourced(e)}
    /\ tx[e].edges \subseteq tx[e].embeds
    /\ \A s \in tx[e].sources : s.claim \in Extract!ClaimIds \cup tx[e].embeds

\* The claim a source is about to be added to is there, and it is the
\* execution's own only if it has just inserted it.
Targeted(e) ==
    execution[e] = "sourcing" =>
        /\ at[e] \in DOMAIN output[e] /\ ~Extract!Blank(e)
        /\ \E k \in Extract!Visible(e) : k.id = target[e]
        /\ target[e] # <<e, at[e]>> => \A k \in tx[e].claims : k.ordinal # at[e]

\* No execution of its job has committed.
First(e) == \A f \in kept : job[f] # job[e]

\* The n-th candidate of e has a claim with its text that cites its segment.
Stated(e, n, ks, ss) ==
    output[e][n].text # Empty =>
        \E k \in ks, s \in ss :
            /\ k.text = output[e][n].text
            /\ s.claim = k.id /\ s.record = job[e] /\ s.segment = output[e][n].segment

\* The first of its job finds no claim in its way but those with its texts.
FirstSound(e) ==
    Working(e) /\ First(e) =>
        /\ \A n \in 1 .. (at[e] - 1) :
             Stated(e, n, Extract!Visible(e), sources \cup tx[e].sources)
        /\ execution[e] = "sourcing" =>
             \E k \in Extract!Visible(e) : k.id = target[e] /\ k.text = Extract!Candidate(e).text

\* Rows stay uncommitted only while their execution is at work, and committed
\* claims are those of executions that committed.
Settled ==
    /\ \A e \in Executions :
         /\ ~Working(e) => tx[e] = Extract!NoRows
         /\ execution[e] \in {"idle", "calling"} => at[e] = 1
         /\ e \in kept => execution[e] \in {"committed", "ended"}
    /\ \A k \in claims : k.id[1] \in kept /\ job[k.id[1]] = k.job

ExtractInv ==
    /\ Extract!TypeOK
    /\ Settled
    /\ \A e \in Executions : Written(e) /\ Targeted(e) /\ FirstSound(e)
    /\ ClaimsBacked
    /\ OneOutputKept

Answer == [text : Texts \cup {Empty}, segment : Segments, edge : BOOLEAN]

LEMMA ExecutionTyped ==
  ASSUME Extract!TypeOK, NEW e \in Executions
  PROVE  /\ job[e] \in ExtractJobs
         /\ output[e] \in Seq(Answer)
         /\ Len(output[e]) \in Nat /\ DOMAIN output[e] = 1 .. Len(output[e])
         /\ \A n \in DOMAIN output[e] : output[e][n] \in Answer
         /\ at[e] \in Nat /\ at[e] >= 1
         /\ tx[e] \in Extract!Rows
  <1>1. job[e] \in ExtractJobs /\ at[e] \in Nat \ {0} /\ tx[e] \in Extract!Rows
        /\ output[e] \in Outputs \cup {<<>>}
    BY DEF Extract!TypeOK
  <1>2. Outputs \subseteq Seq(Answer) /\ <<>> \in Seq(Answer)
    BY MemoryAssumption, EmptySeq DEF Extract!ExtractionAssumption, Answer
  <1>3. output[e] \in Seq(Answer)
    BY <1>1, <1>2
  <1>4. Len(output[e]) \in Nat /\ DOMAIN output[e] = 1 .. Len(output[e])
        /\ \A n \in DOMAIN output[e] : output[e][n] \in Answer
    BY <1>3, LenProperties
  <1>5. QED
    BY <1>1, <1>3, <1>4

\* An execution that does nothing is not disturbed by what others commit.
LEMMA OthersGoOn ==
  ASSUME ExtractInv, NEW f \in Executions,
         execution'[f] = execution[f], job'[f] = job[f], output'[f] = output[f],
         at'[f] = at[f], target'[f] = target[f], tx'[f] = tx[f],
         claims \subseteq claims', sources \subseteq sources', kept \subseteq kept',
         \A g \in kept : job'[g] = job[g]
  PROVE  Written(f)' /\ Targeted(f)' /\ FirstSound(f)'
  <1>1. Extract!ClaimIds \subseteq Extract!ClaimIds'
    BY DEF Extract!ClaimIds
  <1>2. Extract!Visible(f) \subseteq Extract!Visible(f)' /\ Sourced(f)' = Sourced(f)
        /\ sources \cup tx[f].sources \subseteq sources' \cup tx'[f].sources
    BY DEF Extract!Visible, Sourced
  <1>3. Extract!Candidate(f)' = Extract!Candidate(f) /\ (Extract!Blank(f)' <=> Extract!Blank(f))
    BY DEF Extract!Candidate, Extract!Blank
  <1>4. Written(f) /\ Targeted(f) /\ FirstSound(f)
    BY DEF ExtractInv
  <1>5. Written(f)'
    BY <1>1, <1>2, <1>4 DEF Written
  <1>6. Targeted(f)'
    BY <1>2, <1>3, <1>4 DEF Targeted
  <1>7. (Working(f)' <=> Working(f)) /\ (First(f)' => First(f))
    BY DEF Working, First
  <1>8. \A n : Stated(f, n, Extract!Visible(f), sources \cup tx[f].sources)
               => Stated(f, n, Extract!Visible(f), sources \cup tx[f].sources)'
    BY <1>2 DEF Stated
  <1>9. FirstSound(f)'
    BY <1>2, <1>3, <1>4, <1>7, <1>8 DEF FirstSound
  <1>10. QED
    BY <1>5, <1>6, <1>9

\* Everything e was told has a claim that cites it.
Represented(e) == \A n \in DOMAIN output[e] : Stated(e, n, claims, sources)

JobsRepresented == \A e \in kept : \E f \in kept : job[f] = job[e] /\ Represented(f)

LEMMA OutputsKept == OneOutputKept <=> JobsRepresented
  BY DEF OneOutputKept, Extract!OneOutputKept, JobsRepresented, Represented, Stated

LEMMA RepresentedStays ==
  ASSUME NEW f, job'[f] = job[f], output'[f] = output[f],
         claims \subseteq claims', sources \subseteq sources', Represented(f)
  PROVE  Represented(f)'
  <1>1. \A n : Stated(f, n, claims, sources) => Stated(f, n, claims, sources)'
    BY DEF Stated
  <1>2. QED
    BY <1>1 DEF Represented

\* A step of e that commits nothing.
LEMMA QuietStep ==
  ASSUME ExtractInv, NEW e \in Executions,
         UNCHANGED <<claims, sources, embeds, edges, kept>>,
         \A f \in Executions : f # e =>
            /\ execution'[f] = execution[f] /\ job'[f] = job[f] /\ output'[f] = output[f]
            /\ at'[f] = at[f] /\ target'[f] = target[f] /\ tx'[f] = tx[f],
         e \in kept => job'[e] = job[e] /\ output'[e] = output[e],
         Extract!TypeOK', Written(e)', Targeted(e)', FirstSound(e)',
         ~Working(e)' => tx'[e] = Extract!NoRows,
         execution'[e] \in {"idle", "calling"} => at'[e] = 1,
         e \in kept => execution'[e] \in {"committed", "ended"}
  PROVE  ExtractInv'
  <1>1. kept \subseteq Executions
    BY DEF ExtractInv, Extract!TypeOK
  <1>2. \A g \in kept : job'[g] = job[g] /\ output'[g] = output[g]
    BY <1>1
  <1>3. \A f \in Executions : Written(f)' /\ Targeted(f)' /\ FirstSound(f)'
    <2>1. ASSUME NEW f \in Executions, f # e PROVE Written(f)' /\ Targeted(f)' /\ FirstSound(f)'
      BY <1>2, <2>1, OthersGoOn
    <2>2. QED
      BY <2>1
  <1>4. Settled'
    BY <1>2 DEF ExtractInv, Settled, Working, Extract!NoRows
  <1>5. ClaimsBacked'
    BY DEF ExtractInv, ClaimsBacked, Extract!ClaimsBacked, Extract!ClaimIds
  <1>6. OneOutputKept'
    <2>1. \A g \in kept : \E f \in kept : job[f] = job[g] /\ Represented(f)
      BY OutputsKept DEF ExtractInv, JobsRepresented
    <2>2. \A f \in kept : Represented(f) => Represented(f)'
      BY <1>2, RepresentedStays
    <2>3. JobsRepresented'
      BY <1>2, <2>1, <2>2 DEF JobsRepresented
    <2>4. QED
      BY <2>3, OutputsKept, PTL
  <1>7. QED
    BY <1>3, <1>4, <1>5, <1>6 DEF ExtractInv

LEMMA StartPreserves ==
  ASSUME ExtractInv, NEW e \in Executions, NEW j \in ExtractJobs, Extract!Start(e, j)
  PROVE  ExtractInv'
  <1> USE DEF Extract!Start, Extract!Enter, Extract!tableVars
  <1>1. /\ execution[e] = "idle" /\ execution'[e] \in {"calling", "committed"} /\ e \notin kept
        /\ at[e] = 1 /\ at'[e] = 1 /\ tx[e] = Extract!NoRows /\ tx'[e] = Extract!NoRows
    BY DEF ExtractInv, Settled, Working, Extract!TypeOK
  <1>2. Extract!TypeOK'
    BY DEF ExtractInv, Extract!TypeOK, Extract!Phases
  <1>3. Written(e)' /\ Targeted(e)' /\ FirstSound(e)'
    BY <1>1 DEF Written, Targeted, FirstSound, Working, Sourced, Extract!NoRows
  <1>4. \A f \in Executions : f # e =>
            /\ execution'[f] = execution[f] /\ job'[f] = job[f] /\ output'[f] = output[f]
            /\ at'[f] = at[f] /\ target'[f] = target[f] /\ tx'[f] = tx[f]
    BY DEF ExtractInv, Extract!TypeOK
  <1>5. QED
    BY <1>1, <1>2, <1>3, <1>4, QuietStep

LEMMA ExtractedPreserves ==
  ASSUME ExtractInv, NEW e \in Executions, NEW o \in Outputs, Extract!Extracted(e, o)
  PROVE  ExtractInv'
  <1> USE DEF Extract!Extracted, Extract!Enter, Extract!tableVars
  <1>1. /\ execution[e] = "calling" /\ execution'[e] = "claiming" /\ e \notin kept
        /\ at[e] = 1 /\ at'[e] = 1 /\ tx[e] = Extract!NoRows /\ tx'[e] = Extract!NoRows
    BY DEF ExtractInv, Settled, Working, Extract!TypeOK
  <1>2. Extract!TypeOK'
    BY DEF ExtractInv, Extract!TypeOK, Extract!Phases
  <1>3. Written(e)' /\ Targeted(e)' /\ FirstSound(e)'
    BY <1>1 DEF Written, Targeted, FirstSound, Working, Sourced, Extract!NoRows
  <1>4. \A f \in Executions : f # e =>
            /\ execution'[f] = execution[f] /\ job'[f] = job[f] /\ output'[f] = output[f]
            /\ at'[f] = at[f] /\ target'[f] = target[f] /\ tx'[f] = tx[f]
    BY DEF ExtractInv, Extract!TypeOK
  <1>5. QED
    BY <1>1, <1>2, <1>3, <1>4, QuietStep

LEMMA CompletePreserves ==
  ASSUME ExtractInv, NEW e \in Executions, Extract!Complete(e)
  PROVE  ExtractInv'
  <1> USE DEF Extract!Complete, Extract!Enter, Extract!tableVars
  <1>1. /\ execution[e] = "committed" /\ execution'[e] = "ended"
        /\ tx[e] = Extract!NoRows /\ tx'[e] = Extract!NoRows
    BY DEF ExtractInv, Settled, Working, Extract!TypeOK
  <1>2. Extract!TypeOK'
    BY DEF ExtractInv, Extract!TypeOK, Extract!Phases
  <1>3. Written(e)' /\ Targeted(e)' /\ FirstSound(e)'
    BY <1>1 DEF Written, Targeted, FirstSound, Working, Sourced, Extract!NoRows
  <1>4. \A f \in Executions : f # e =>
            /\ execution'[f] = execution[f] /\ job'[f] = job[f] /\ output'[f] = output[f]
            /\ at'[f] = at[f] /\ target'[f] = target[f] /\ tx'[f] = tx[f]
    BY DEF ExtractInv, Extract!TypeOK
  <1>5. QED
    BY <1>1, <1>2, <1>3, <1>4, QuietStep

\* A roll back; before a commit nothing of the execution stays.
LEMMA RolledBackPreserves ==
  ASSUME ExtractInv, NEW e \in Executions, Extract!RollBack(e)
  PROVE  ExtractInv'
  <1> USE DEF Extract!RollBack, Extract!Enter, Extract!tableVars
  <1>1. execution'[e] = "ended" /\ tx'[e] = Extract!NoRows
    BY DEF ExtractInv, Extract!TypeOK
  <1>2. Extract!TypeOK'
    <2>1. Extract!NoRows \in Extract!Rows
      BY DEF Extract!NoRows, Extract!Rows
    <2>2. QED
      BY <2>1 DEF ExtractInv, Extract!TypeOK, Extract!Phases
  <1>3. Written(e)' /\ Targeted(e)' /\ FirstSound(e)'
    BY <1>1 DEF Written, Targeted, FirstSound, Working, Sourced, Extract!NoRows
  <1>4. \A f \in Executions : f # e =>
            /\ execution'[f] = execution[f] /\ job'[f] = job[f] /\ output'[f] = output[f]
            /\ at'[f] = at[f] /\ target'[f] = target[f] /\ tx'[f] = tx[f]
    BY DEF ExtractInv, Extract!TypeOK
  <1>5. QED
    BY <1>1, <1>2, <1>3, <1>4, QuietStep

\* While it claims, everything an execution wrote is behind its candidate.
LEMMA AllSourced ==
  ASSUME ExtractInv, NEW e \in Executions, execution[e] = "claiming"
  PROVE  /\ Sourced(e) = tx[e].claims
         /\ \A k \in tx[e].claims : k.ordinal \in 1 .. (at[e] - 1)
  <1>1. at[e] \in Nat
    BY ExecutionTyped DEF ExtractInv
  <1>2. \A k \in tx[e].claims : k.ordinal \in 1 .. at[e] /\ k.ordinal # at[e]
    BY DEF ExtractInv, Written
  <1>3. QED
    BY <1>1, <1>2 DEF Sourced

LEMMA SkipBlankPreserves ==
  ASSUME ExtractInv, NEW e \in Executions, Extract!SkipBlank(e)
  PROVE  ExtractInv'
  <1> USE DEF Extract!SkipBlank, Extract!tableVars
  <1>1. /\ execution[e] = "claiming" /\ execution'[e] = "claiming" /\ e \notin kept
        /\ at[e] \in Nat /\ at[e] >= 1 /\ at'[e] = at[e] + 1 /\ tx'[e] = tx[e]
    BY ExecutionTyped DEF ExtractInv, Settled, Extract!TypeOK
  <1>2. Extract!TypeOK'
    BY <1>1 DEF ExtractInv, Extract!TypeOK
  <1>3. Written(e)'
    <2>1. /\ \A k \in tx[e].claims : k.ordinal \in 1 .. at'[e] /\ k.ordinal # at'[e]
          /\ Sourced(e)' = Sourced(e)
      BY <1>1, AllSourced DEF Sourced
    <2>2. Written(e)
      BY DEF ExtractInv
    <2>3. Extract!ClaimIds' = Extract!ClaimIds
      BY DEF Extract!ClaimIds
    <2>4. QED
      BY <1>1, <2>1, <2>2, <2>3 DEF Written
  <1>4. Targeted(e)'
    BY <1>1 DEF Targeted
  <1>5. FirstSound(e)'
    <2>1. Extract!Visible(e)' = Extract!Visible(e) /\ (First(e)' <=> First(e)) /\ Working(e)
      BY <1>1 DEF Extract!Visible, First, Working
    <2>2. \A n : Stated(e, n, Extract!Visible(e), sources \cup tx[e].sources)
                 => Stated(e, n, Extract!Visible(e), sources \cup tx[e].sources)'
      BY <1>1, <2>1 DEF Stated
    <2>3. output[e][at[e]].text = Empty
      BY DEF Extract!Blank, Extract!Candidate
    <2>4. Stated(e, at[e], Extract!Visible(e), sources \cup tx[e].sources)
      BY <2>3 DEF Stated
    <2>5. \A n \in 1 .. (at'[e] - 1) : n \in 1 .. (at[e] - 1) \/ n = at[e]
      BY <1>1
    <2>6. FirstSound(e)
      BY DEF ExtractInv
    <2>7. QED
      BY <1>1, <2>1, <2>2, <2>4, <2>5, <2>6 DEF FirstSound
  <1>6. \A f \in Executions : f # e =>
            /\ execution'[f] = execution[f] /\ job'[f] = job[f] /\ output'[f] = output[f]
            /\ at'[f] = at[f] /\ target'[f] = target[f] /\ tx'[f] = tx[f]
    BY DEF ExtractInv, Extract!TypeOK
  <1>7. QED
    BY <1>1, <1>2, <1>3, <1>4, <1>5, <1>6, QuietStep DEF Working

\* What an insert that meets a clash falls back on is a claim there is, and one
\* with the text of the candidate unless its job committed before.
LEMMA ExistingIsThere ==
  ASSUME ExtractInv, NEW e \in Executions, execution[e] = "claiming",
         \E k \in Extract!Visible(e) : Extract!Clash(k, e)
  PROVE  /\ \E k \in Extract!Visible(e) : k.id = Extract!Existing(e)
         /\ First(e) => \E k \in Extract!Visible(e) :
                           k.id = Extract!Existing(e) /\ k.text = Extract!Candidate(e).text
  <1> DEFINE atSlot == {k \in Extract!Visible(e) : k.job = job[e] /\ k.ordinal = at[e]}
             slot == CHOOSE k \in atSlot : TRUE
             same == CHOOSE k \in Extract!Visible(e) : k.text = Extract!Candidate(e).text
  <1>1. Extract!Existing(e) = IF atSlot # {} THEN slot.id ELSE same.id
    BY DEF Extract!Existing
  <1>2. atSlot # {} => slot \in atSlot
    OBVIOUS
  <1>3. atSlot = {} => \E k \in Extract!Visible(e) : k.text = Extract!Candidate(e).text
    BY DEF Extract!Clash
  <1>4. atSlot = {} => same \in Extract!Visible(e) /\ same.text = Extract!Candidate(e).text
    BY <1>3
  <1>5. First(e) => atSlot = {}
    <2>1. \A k \in tx[e].claims : k.ordinal # at[e]
      BY DEF ExtractInv, Written
    <2>2. \A k \in claims : First(e) => k.job # job[e]
      BY DEF ExtractInv, Settled, First
    <2>3. QED
      BY <2>1, <2>2 DEF Extract!Visible
  <1> HIDE DEF slot, same
  <1>6. QED
    BY <1>1, <1>2, <1>4, <1>5

LEMMA UpsertClaimPreserves ==
  ASSUME ExtractInv, NEW e \in Executions, Extract!UpsertClaim(e)
  PROVE  ExtractInv'
  <1> DEFINE row == [id |-> Extract!OwnClaim(e), job |-> job[e], ordinal |-> at[e],
                     text |-> Extract!Candidate(e).text]
             clash == \E k \in Extract!Visible(e) : Extract!Clash(k, e)
  <1>1. /\ execution[e] = "claiming" /\ execution'[e] = "sourcing" /\ e \notin kept
        /\ at[e] \in DOMAIN output[e] /\ ~Extract!Blank(e)
        /\ UNCHANGED <<claims, sources, embeds, edges, kept, job, output, at, done>>
        /\ at[e] \in Nat /\ at[e] >= 1
    BY ExecutionTyped DEF ExtractInv, Settled, Extract!TypeOK, Extract!UpsertClaim, Extract!Enter,
                          Extract!tableVars
  <1>2. /\ tx[e] \in Extract!Rows
        /\ tx'[e].sources = tx[e].sources /\ tx'[e].embeds = tx[e].embeds
        /\ tx'[e].edges = tx[e].edges
        /\ tx'[e].claims = IF clash THEN tx[e].claims ELSE tx[e].claims \cup {row}
        /\ target'[e] = IF clash THEN Extract!Existing(e) ELSE Extract!OwnClaim(e)
    <2>1. tx' = IF clash THEN tx ELSE [tx EXCEPT ![e].claims = @ \cup {row}]
      BY DEF Extract!UpsertClaim
    <2>2. target'[e] = IF clash THEN Extract!Existing(e) ELSE Extract!OwnClaim(e)
      BY DEF Extract!UpsertClaim, ExtractInv, Extract!TypeOK
    <2>3. tx \in [Executions -> Extract!Rows]
      BY DEF ExtractInv, Extract!TypeOK
    <2> HIDE DEF clash, row
    <2>4. tx[e] \in Extract!Rows
          /\ tx'[e] = IF clash THEN tx[e] ELSE [tx[e] EXCEPT !.claims = @ \cup {row}]
      BY <2>1, <2>3
    <2>5. QED
      BY <2>2, <2>4 DEF Extract!Rows
  <1>3. \A f \in Executions : f # e =>
            /\ execution'[f] = execution[f] /\ job'[f] = job[f] /\ output'[f] = output[f]
            /\ at'[f] = at[f] /\ target'[f] = target[f] /\ tx'[f] = tx[f]
    BY DEF ExtractInv, Extract!TypeOK, Extract!UpsertClaim, Extract!Enter
  <1>4. Extract!OwnClaim(e) = <<e, at[e]>> /\ Extract!Candidate(e) = output[e][at[e]]
        /\ row.id = <<e, at[e]>> /\ row.text = output[e][at[e]].text
    BY DEF Extract!OwnClaim, Extract!Candidate
  <1>5. row \in Extract!ClaimRow
    <2>1. job[e] \in ExtractJobs /\ output[e][at[e]] \in Answer
      BY <1>1, ExecutionTyped DEF ExtractInv
    <2>2. output[e][at[e]].text \in Texts
      BY <1>1, <1>4, <2>1 DEF Answer, Extract!Blank
    <2>3. QED
      BY <1>1, <1>4, <2>1, <2>2 DEF Extract!ClaimRow
  <1>6. Extract!TypeOK'
    <2>1. tx'[e].claims \subseteq Extract!ClaimRow
      BY <1>2, <1>5 DEF Extract!Rows
    <2>2. tx' \in [Executions -> Extract!Rows]
      <3>1. tx' = IF clash THEN tx ELSE [tx EXCEPT ![e].claims = @ \cup {row}]
        BY DEF Extract!UpsertClaim
      <3>2. tx \in [Executions -> Extract!Rows]
        BY DEF ExtractInv, Extract!TypeOK
      <3> HIDE DEF clash, row
      <3>3. [tx[e] EXCEPT !.claims = @ \cup {row}] \in Extract!Rows
        BY <1>2, <1>5 DEF Extract!Rows
      <3>4. QED
        BY <3>1, <3>2, <3>3
    <2>3. target'[e] \in Executions \X Nat
      <3>1. CASE clash
        <4>1. PICK k \in Extract!Visible(e) : k.id = Extract!Existing(e)
          BY <1>1, <3>1, ExistingIsThere
        <4>2. k \in Extract!ClaimRow
          BY <1>2 DEF Extract!Visible, Extract!Rows, ExtractInv, Extract!TypeOK
        <4>3. QED
          BY <1>2, <3>1, <4>1, <4>2 DEF Extract!ClaimRow
      <3>2. CASE ~clash
        BY <1>1, <1>2, <1>4, <3>2
      <3>3. QED
        BY <3>1, <3>2
    <2>4. execution' \in [Executions -> Extract!Phases]
      BY DEF Extract!UpsertClaim, Extract!Enter, ExtractInv, Extract!TypeOK, Extract!Phases
    <2>5. target' \in [Executions -> (Executions \X Nat) \cup {NoClaim}]
      BY <2>3 DEF Extract!UpsertClaim, ExtractInv, Extract!TypeOK
    <2>6. QED
      BY <1>1, <2>2, <2>4, <2>5 DEF ExtractInv, Extract!TypeOK
  <1> HIDE DEF row
  <1>7. Written(e)'
    <2>1. Written(e) /\ Sourced(e) = tx[e].claims
      BY <1>1, AllSourced DEF ExtractInv
    <2>2. row.job = job[e] /\ row.ordinal = at[e]
      BY DEF row
    <2>3. \A k \in tx'[e].claims : k \in tx[e].claims \/ (k = row /\ ~clash)
      BY <1>2
    <2>4. Sourced(e)' = Sourced(e)
      <3>1. \A k \in tx[e].claims : k.ordinal # at[e] /\ k \in tx'[e].claims
        BY <1>2, <2>1 DEF Sourced
      <3>2. QED
        BY <1>1, <2>1, <2>2, <2>3, <3>1 DEF Sourced
    <2>5. Extract!ClaimIds' = Extract!ClaimIds
      BY <1>1 DEF Extract!ClaimIds
    <2>6. \A k \in tx'[e].claims :
             /\ k.id = <<e, k.ordinal>> /\ k.job = job[e] /\ k.ordinal \in 1 .. at[e]
             /\ k.text = output[e][k.ordinal].text
      BY <1>1, <1>4, <2>1, <2>2, <2>3 DEF Written
    <2>7. QED
      BY <1>1, <1>2, <2>1, <2>4, <2>5, <2>6 DEF Written
  <1>8. Targeted(e)'
    <2>1. Extract!Visible(e) \subseteq Extract!Visible(e)' /\ (Extract!Blank(e)' <=> Extract!Blank(e))
      BY <1>1, <1>2 DEF Extract!Visible, Extract!Blank, Extract!Candidate
    <2>2. CASE clash
      <3>1. \E k \in Extract!Visible(e) : k.id = target'[e]
        BY <1>1, <1>2, <2>2, ExistingIsThere
      <3>2. \A k \in tx'[e].claims : k.ordinal # at[e]
        BY <1>1, <1>2, <2>2, AllSourced DEF Sourced
      <3>3. QED
        BY <1>1, <2>1, <3>1, <3>2 DEF Targeted
    <2>3. CASE ~clash
      <3>1. row \in Extract!Visible(e)' /\ row.id = target'[e] /\ target'[e] = <<e, at[e]>>
        BY <1>2, <1>4, <2>3 DEF Extract!Visible
      <3>2. QED
        BY <1>1, <2>1, <3>1 DEF Targeted
    <2>4. QED
      BY <2>2, <2>3
  <1>9. FirstSound(e)'
    <2>1. Extract!Visible(e) \subseteq Extract!Visible(e)' /\ (First(e)' <=> First(e)) /\ Working(e)
          /\ Extract!Candidate(e)' = Extract!Candidate(e)
      BY <1>1, <1>2 DEF Extract!Visible, First, Working, Extract!Candidate
    <2>2. \A n : Stated(e, n, Extract!Visible(e), sources \cup tx[e].sources)
                 => Stated(e, n, Extract!Visible(e), sources \cup tx[e].sources)'
      BY <1>1, <1>2, <2>1 DEF Stated
    <2>3. First(e) => \E k \in Extract!Visible(e)' :
                         k.id = target'[e] /\ k.text = Extract!Candidate(e).text
      <3>1. CASE clash
        BY <1>1, <1>2, <2>1, <3>1, ExistingIsThere
      <3>2. CASE ~clash
        <4>1. row \in Extract!Visible(e)' /\ row.id = target'[e] /\ row.text = Extract!Candidate(e).text
          BY <1>2, <1>4, <3>2 DEF Extract!Visible
        <4>2. QED
          BY <4>1
      <3>3. QED
        BY <3>1, <3>2
    <2>4. FirstSound(e)
      BY DEF ExtractInv
    <2>5. QED
      BY <1>1, <2>1, <2>2, <2>3, <2>4 DEF FirstSound
  <1>10. QED
    BY <1>1, <1>3, <1>6, <1>7, <1>8, <1>9, QuietStep DEF Working

LEMMA AddSourcePreserves ==
  ASSUME ExtractInv, NEW e \in Executions, Extract!AddSource(e)
  PROVE  ExtractInv'
  <1> DEFINE own == Extract!InsertedHere(e)
             known == \E s \in sources \cup tx[e].sources : Extract!SameSource(s, e)
             source == [claim |-> target[e], record |-> job[e],
                        segment |-> Extract!Candidate(e).segment, says |-> Extract!Candidate(e).text]
             withEdge == Extract!Candidate(e).edge
             rows == [tx[e] EXCEPT !.sources = IF known THEN @ ELSE @ \cup {source},
                                   !.embeds = IF own THEN @ \cup {target[e]} ELSE @,
                                   !.edges = IF own /\ withEdge THEN @ \cup {target[e]} ELSE @]
  <1>1. /\ execution[e] = "sourcing" /\ execution'[e] = "claiming" /\ e \notin kept
        /\ UNCHANGED <<claims, sources, embeds, edges, kept, job, output, target, done>>
        /\ at[e] \in Nat /\ at[e] >= 1 /\ at'[e] = at[e] + 1
    BY ExecutionTyped DEF ExtractInv, Settled, Extract!TypeOK, Extract!AddSource, Extract!Enter,
                          Extract!tableVars
  <1>2. /\ at[e] \in DOMAIN output[e] /\ ~Extract!Blank(e)
        /\ \E k \in Extract!Visible(e) : k.id = target[e]
        /\ target[e] # <<e, at[e]>> => \A k \in tx[e].claims : k.ordinal # at[e]
    BY <1>1 DEF ExtractInv, Targeted
  <1>3. own <=> target[e] = <<e, at[e]>>
    BY DEF Extract!InsertedHere, Extract!OwnClaim
  <1>4. tx \in [Executions -> Extract!Rows] /\ tx' = [tx EXCEPT ![e] = rows]
    BY DEF ExtractInv, Extract!TypeOK, Extract!AddSource, Extract!Rows
  <1>5. \A f \in Executions : f # e =>
            /\ execution'[f] = execution[f] /\ job'[f] = job[f] /\ output'[f] = output[f]
            /\ at'[f] = at[f] /\ target'[f] = target[f] /\ tx'[f] = tx[f]
    BY DEF ExtractInv, Extract!TypeOK, Extract!AddSource, Extract!Enter
  <1>6. source \in Extract!SourceRow /\ target[e] \in Executions \X Nat
    <2>1. PICK k \in Extract!Visible(e) : k.id = target[e]
      BY <1>2
    <2>2. k \in Extract!ClaimRow
      BY <1>4 DEF Extract!Visible, Extract!Rows, ExtractInv, Extract!TypeOK
    <2>3. target[e] \in Executions \X Nat
      BY <2>1, <2>2 DEF Extract!ClaimRow
    <2>4. job[e] \in ExtractJobs /\ Extract!Candidate(e) \in Answer
      BY <1>2, ExecutionTyped DEF ExtractInv, Extract!Candidate
    <2>5. Extract!Candidate(e).segment \in Segments /\ Extract!Candidate(e).text \in Texts
      BY <1>2, <2>4 DEF Answer, Extract!Blank
    <2>6. QED
      BY <2>3, <2>4, <2>5 DEF Extract!SourceRow
  <1>7. /\ source.claim = target[e] /\ source.record = job[e]
        /\ source.segment = output[e][at[e]].segment /\ source.says = output[e][at[e]].text
    BY DEF Extract!Candidate
  <1> HIDE DEF source, known, own, withEdge
  <1>8. /\ tx'[e].claims = tx[e].claims
        /\ tx'[e].sources = IF known THEN tx[e].sources ELSE tx[e].sources \cup {source}
        /\ tx'[e].embeds = IF own THEN tx[e].embeds \cup {target[e]} ELSE tx[e].embeds
        /\ tx'[e].edges = IF own /\ withEdge THEN tx[e].edges \cup {target[e]} ELSE tx[e].edges
        /\ tx[e] \in Extract!Rows
    BY <1>4 DEF Extract!Rows
  <1>9. Extract!TypeOK'
    <2>1. rows \in Extract!Rows
      BY <1>4, <1>6 DEF Extract!Rows
    <2> HIDE DEF rows
    <2>2. tx' \in [Executions -> Extract!Rows]
      BY <1>4, <2>1
    <2>3. execution' \in [Executions -> Extract!Phases]
      BY DEF Extract!AddSource, Extract!Enter, ExtractInv, Extract!TypeOK, Extract!Phases
    <2>4. at' \in [Executions -> Nat \ {0}]
      <3>1. at[e] + 1 \in Nat \ {0}
        BY <1>1
      <3>2. QED
        BY <3>1 DEF Extract!AddSource, ExtractInv, Extract!TypeOK
    <2>5. QED
      BY <1>1, <2>2, <2>3, <2>4 DEF ExtractInv, Extract!TypeOK
  <1> HIDE DEF rows
  <1>10. /\ Written(e)
         /\ \A k \in claims : k.id # <<e, at[e]>>
         /\ \A k \in Sourced(e) : k.id # <<e, at[e]>>
    <2>1. Written(e)
      BY DEF ExtractInv
    <2>2. ASSUME NEW k \in claims PROVE k.id # <<e, at[e]>>
      <3>1. k.id[1] \in kept
        BY DEF ExtractInv, Settled
      <3>2. QED
        BY <1>1, <3>1
    <2>3. ASSUME NEW k \in Sourced(e) PROVE k.id # <<e, at[e]>>
      <3>1. k.id = <<e, k.ordinal>> /\ k.ordinal # at[e]
        BY <2>1 DEF Written, Sourced
      <3>2. QED
        BY <3>1
    <2>4. QED
      BY <2>1, <2>2, <2>3
  \* A claim this execution has just inserted has no source yet.
  <1>11. own => ~known
    <2>1. \A s \in sources : s.claim \in Extract!ClaimIds
      BY DEF ExtractInv, ClaimsBacked, Extract!ClaimsBacked
    <2>2. \A s \in sources \cup tx[e].sources :
             \E k \in claims \cup Sourced(e) : s.claim = k.id
      BY <1>10, <2>1 DEF Written, Extract!ClaimIds
    <2>3. QED
      BY <1>3, <1>10, <2>2 DEF known, Extract!SameSource
  <1>12. Sourced(e)' = tx[e].claims
    <2>1. \A k \in tx[e].claims : k.ordinal # at'[e]
      BY <1>1, <1>10 DEF Written
    <2>2. QED
      BY <1>8, <2>1 DEF Sourced
  <1>13. Written(e)'
    <2>1. \A k \in tx'[e].claims :
             /\ k.id = <<e, k.ordinal>> /\ k.job = job[e] /\ k.ordinal \in 1 .. at'[e]
             /\ k.text = output[e][k.ordinal].text
             /\ k.ordinal # at'[e]
      BY <1>1, <1>8, <1>10 DEF Written
    <2>2. ASSUME NEW k \in tx[e].claims
          PROVE  \E s \in tx'[e].sources : s.claim = k.id /\ s.record = k.job /\ s.says = k.text
      <3>1. CASE k.ordinal = at[e]
        <4>1. own /\ source \in tx'[e].sources
          BY <1>2, <1>3, <1>8, <1>11, <3>1
        <4>2. k.id = target[e] /\ k.job = job[e] /\ k.text = output[e][at[e]].text
          BY <1>3, <1>10, <3>1, <4>1 DEF Written
        <4>3. QED
          BY <1>7, <4>1, <4>2
      <3>2. CASE k.ordinal # at[e]
        <4>1. k \in Sourced(e)
          BY <3>2 DEF Sourced
        <4>2. QED
          BY <1>8, <1>10, <4>1 DEF Written
      <3>3. QED
        BY <3>1, <3>2
    <2>3. tx'[e].embeds = {k.id : k \in tx[e].claims}
      <3>1. tx[e].embeds = {k.id : k \in Sourced(e)}
        BY <1>10 DEF Written
      <3>2. CASE own
        <4>1. PICK k0 \in Extract!Visible(e) : k0.id = <<e, at[e]>>
          BY <1>2, <1>3, <3>2
        <4>2. k0 \in tx[e].claims /\ k0.id = target[e]
          BY <1>3, <1>10, <3>2, <4>1 DEF Extract!Visible
        <4>3. \A k \in tx[e].claims : k \in Sourced(e) \/ k.id = target[e]
          BY <1>3, <1>10, <3>2 DEF Written, Sourced
        <4>4. Sourced(e) \subseteq tx[e].claims
          BY DEF Sourced
        <4>5. QED
          BY <1>8, <3>1, <3>2, <4>2, <4>3, <4>4
      <3>3. CASE ~own
        <4>1. Sourced(e) = tx[e].claims
          BY <1>2, <1>3, <3>3 DEF Sourced
        <4>2. QED
          BY <1>8, <3>1, <3>3, <4>1
      <3>4. QED
        BY <3>2, <3>3
    <2>4. tx'[e].edges \subseteq tx'[e].embeds /\ tx[e].embeds \subseteq tx'[e].embeds
      BY <1>8, <1>10 DEF Written
    <2>5. ASSUME NEW s \in tx'[e].sources PROVE s.claim \in Extract!ClaimIds \cup tx'[e].embeds
      <3>1. CASE s \in tx[e].sources
        BY <1>10, <2>4, <3>1 DEF Written
      <3>2. CASE s = source
        <4>1. PICK k \in Extract!Visible(e) : k.id = target[e]
          BY <1>2
        <4>2. CASE k \in claims
          BY <1>7, <3>2, <4>1, <4>2 DEF Extract!ClaimIds
        <4>3. CASE k \in tx[e].claims
          BY <1>7, <2>3, <3>2, <4>1, <4>3
        <4>4. QED
          BY <4>1, <4>2, <4>3 DEF Extract!Visible
      <3>3. QED
        BY <1>8, <3>1, <3>2
    <2>6. Extract!ClaimIds' = Extract!ClaimIds
      BY <1>1 DEF Extract!ClaimIds
    <2>7. QED
      BY <1>1, <1>8, <1>12, <2>1, <2>2, <2>3, <2>4, <2>5, <2>6 DEF Written
  <1>14. Targeted(e)'
    BY <1>1 DEF Targeted
  <1>15. FirstSound(e)'
    <2>1. Extract!Visible(e)' = Extract!Visible(e) /\ (First(e)' <=> First(e)) /\ Working(e)
          /\ tx[e].sources \subseteq tx'[e].sources
      BY <1>1, <1>8 DEF Extract!Visible, First, Working
    <2>2. \A n : Stated(e, n, Extract!Visible(e), sources \cup tx[e].sources)
                 => Stated(e, n, Extract!Visible(e), sources \cup tx[e].sources)'
      BY <1>1, <1>8, <2>1 DEF Stated
    <2>3. FirstSound(e) /\ Extract!Candidate(e) = output[e][at[e]]
      BY DEF ExtractInv, Extract!Candidate
    <2>4. \E s \in sources' \cup tx'[e].sources :
             s.claim = target[e] /\ s.record = job[e] /\ s.segment = output[e][at[e]].segment
      <3>1. CASE known
        <4>1. PICK s \in sources \cup tx[e].sources : Extract!SameSource(s, e)
          BY <3>1 DEF known
        <4>2. s.claim = target[e] /\ s.record = job[e] /\ s.segment = output[e][at[e]].segment
          BY <2>3, <4>1 DEF Extract!SameSource
        <4>3. QED
          BY <1>1, <2>1, <4>1, <4>2
      <3>2. CASE ~known
        BY <1>7, <1>8, <3>2
      <3>3. QED
        BY <3>1, <3>2
    <2>5. ASSUME NEW n, n = at[e], First(e)
          PROVE  Stated(e, n, Extract!Visible(e), sources \cup tx[e].sources)'
      <3>1. PICK k \in Extract!Visible(e) : k.id = target[e] /\ k.text = output[e][n].text
        BY <1>1, <2>1, <2>3, <2>5 DEF FirstSound
      <3>2. PICK s \in sources' \cup tx'[e].sources :
               s.claim = target[e] /\ s.record = job[e] /\ s.segment = output[e][n].segment
        BY <2>4, <2>5
      <3>3. k \in Extract!Visible(e)' /\ job'[e] = job[e] /\ output'[e] = output[e]
        BY <1>1, <2>1
      <3>4. QED
        BY <3>1, <3>2, <3>3 DEF Stated
    <2>6. \A n \in 1 .. (at'[e] - 1) : n \in 1 .. (at[e] - 1) \/ n = at[e]
      BY <1>1
    <2>7. QED
      BY <1>1, <2>1, <2>2, <2>3, <2>5, <2>6 DEF FirstSound
  <1>16. QED
    BY <1>1, <1>5, <1>9, <1>13, <1>14, <1>15, QuietStep DEF Working

LEMMA ClaimsCommit ==
  ASSUME ExtractInv, NEW e \in Executions, Extract!Commit(e)
  PROVE  ExtractInv'
  <1>1. /\ execution[e] = "claiming" /\ execution'[e] = "committed" /\ at[e] > Len(output[e])
        /\ tx'[e] = Extract!NoRows /\ kept' = kept \cup {e}
        /\ UNCHANGED <<job, output, at, target, done>>
    BY DEF ExtractInv, Extract!TypeOK, Extract!Commit, Extract!Enter
  <1>2. /\ claims' = claims \cup tx[e].claims /\ sources' = sources \cup tx[e].sources
        /\ embeds' = embeds \cup tx[e].embeds /\ edges' = edges \cup tx[e].edges
    BY DEF Extract!Commit
  <1>3. \A f \in Executions : f # e =>
            /\ execution'[f] = execution[f] /\ job'[f] = job[f] /\ output'[f] = output[f]
            /\ at'[f] = at[f] /\ target'[f] = target[f] /\ tx'[f] = tx[f]
    BY DEF ExtractInv, Extract!TypeOK, Extract!Commit, Extract!Enter
  <1>4. Written(e) /\ Sourced(e) = tx[e].claims
    BY <1>1, AllSourced DEF ExtractInv
  <1>5. Extract!TypeOK'
    <2>1. Extract!NoRows \in Extract!Rows
      BY DEF Extract!NoRows, Extract!Rows
    <2>2. tx[e] \in Extract!Rows
      BY ExecutionTyped DEF ExtractInv
    <2>3. tx' \in [Executions -> Extract!Rows]
      BY <2>1 DEF ExtractInv, Extract!TypeOK, Extract!Commit
    <2>4. execution' \in [Executions -> Extract!Phases]
      BY DEF Extract!Commit, Extract!Enter, ExtractInv, Extract!TypeOK, Extract!Phases
    <2>5. /\ claims' \subseteq Extract!ClaimRow /\ sources' \subseteq Extract!SourceRow
          /\ embeds' \subseteq Executions \X Nat /\ edges' \subseteq Executions \X Nat
      BY <1>2, <2>2 DEF ExtractInv, Extract!TypeOK, Extract!Rows
    <2>6. kept' \subseteq Executions
      BY <1>1 DEF ExtractInv, Extract!TypeOK
    <2>7. QED
      BY <1>1, <2>3, <2>4, <2>5, <2>6 DEF ExtractInv, Extract!TypeOK
  <1>6. \A f \in Executions : Written(f)' /\ Targeted(f)' /\ FirstSound(f)'
    <2>1. ASSUME NEW f \in Executions, f # e PROVE Written(f)' /\ Targeted(f)' /\ FirstSound(f)'
      BY <1>1, <1>2, <1>3, <2>1, OthersGoOn
    <2>2. Written(e)' /\ Targeted(e)' /\ FirstSound(e)'
      BY <1>1 DEF Written, Targeted, FirstSound, Working, Sourced, Extract!NoRows
    <2>3. QED
      BY <2>1, <2>2
  <1>7. Settled'
    <2>1. \A k \in claims' : k.id[1] \in kept' /\ job'[k.id[1]] = k.job
      <3>1. \A k \in tx[e].claims : k.id[1] = e /\ k.job = job[e]
        BY <1>4 DEF Written
      <3>2. QED
        BY <1>1, <1>2, <3>1 DEF ExtractInv, Settled
    <2>2. \A f \in Executions :
            /\ ~Working(f)' => tx'[f] = Extract!NoRows
            /\ execution'[f] \in {"idle", "calling"} => at'[f] = 1
            /\ f \in kept' => execution'[f] \in {"committed", "ended"}
      BY <1>1, <1>3 DEF ExtractInv, Settled, Working
    <2>3. QED
      BY <2>1, <2>2 DEF Settled, Working, Extract!NoRows
  <1>8. ClaimsBacked'
    <2>1. /\ \A k \in claims : \E s \in sources : s.claim = k.id /\ s.record = k.job /\ s.says = k.text
          /\ \A s \in sources : \E k \in claims : s.claim = k.id
          /\ embeds = {k.id : k \in claims}
          /\ edges \subseteq embeds
      BY DEF ExtractInv, ClaimsBacked, Extract!ClaimsBacked, Extract!ClaimIds
    <2>2. /\ \A k \in tx[e].claims :
               \E s \in tx[e].sources : s.claim = k.id /\ s.record = k.job /\ s.says = k.text
          /\ \A s \in tx[e].sources : \E k \in claims \cup tx[e].claims : s.claim = k.id
          /\ tx[e].embeds = {k.id : k \in tx[e].claims}
          /\ tx[e].edges \subseteq tx[e].embeds
      BY <1>4 DEF Written, Extract!ClaimIds
    <2>3. /\ \A k \in claims' :
               \E s \in sources' : s.claim = k.id /\ s.record = k.job /\ s.says = k.text
          /\ \A s \in sources' : \E k \in claims' : s.claim = k.id
          /\ embeds' = {k.id : k \in claims'}
          /\ edges' \subseteq embeds'
      BY <1>2, <2>1, <2>2
    <2>4. QED
      BY <2>3 DEF ClaimsBacked, Extract!ClaimsBacked, Extract!ClaimIds
  <1>9. OneOutputKept'
    <2>1. JobsRepresented
      BY OutputsKept DEF ExtractInv
    <2>2. \A f \in kept : Represented(f) => Represented(f)'
      BY <1>1, <1>2, RepresentedStays
    <2>3. First(e) => Represented(e)'
      <3>1. \A n \in DOMAIN output[e] : n \in 1 .. (at[e] - 1)
        BY <1>1, ExecutionTyped DEF ExtractInv
      <3>2. First(e) => \A n \in DOMAIN output[e] :
                           Stated(e, n, Extract!Visible(e), sources \cup tx[e].sources)
        BY <1>1, <3>1 DEF ExtractInv, FirstSound, Working
      <3>3. First(e) => \A n \in DOMAIN output[e] : Stated(e, n, claims, sources)'
        BY <1>1, <1>2, <3>2 DEF Stated, Extract!Visible
      <3>4. QED
        BY <1>1, <3>3 DEF Represented
    <2>4. JobsRepresented'
      <3>1. ~First(e) => \E f \in kept : job[f] = job[e] /\ Represented(f)
        BY <2>1 DEF First, JobsRepresented
      <3>2. \A g \in kept' : \E f \in kept' : job[f] = job[g] /\ Represented(f)'
        BY <1>1, <2>1, <2>2, <2>3, <3>1 DEF JobsRepresented
      <3>3. QED
        BY <1>1, <3>2 DEF JobsRepresented
    <2>5. QED
      BY <2>4, OutputsKept, PTL
  <1>10. QED
    BY <1>5, <1>6, <1>7, <1>8, <1>9 DEF ExtractInv

LEMMA ExtractInit == Extract!Init => ExtractInv
  <1> SUFFICES ASSUME Extract!Init PROVE ExtractInv
    OBVIOUS
  <1> USE DEF Extract!Init
  <1>1. Extract!TypeOK
    <2>1. (CHOOSE j \in ExtractJobs : TRUE) \in ExtractJobs
      BY MemoryAssumption DEF Extract!ExtractionAssumption
    <2>2. Extract!NoRows \in Extract!Rows
      BY DEF Extract!NoRows, Extract!Rows
    <2>3. QED
      BY <2>1, <2>2 DEF Extract!TypeOK, Extract!Phases
  <1>2. Settled
    BY DEF Settled, Working
  <1>3. \A e \in Executions : Written(e) /\ Targeted(e) /\ FirstSound(e)
    BY DEF Written, Targeted, FirstSound, Working, Sourced, Extract!NoRows
  <1>4. ClaimsBacked /\ OneOutputKept
    BY DEF ClaimsBacked, Extract!ClaimsBacked, Extract!ClaimIds, OneOutputKept, Extract!OneOutputKept
  <1>5. QED
    BY <1>1, <1>2, <1>3, <1>4 DEF ExtractInv

LEMMA ExtractStays == ExtractInv /\ UNCHANGED extractionVars => ExtractInv'
  <1> SUFFICES ASSUME ExtractInv, UNCHANGED extractionVars PROVE ExtractInv'
    OBVIOUS
  <1> USE DEF extractionVars
  <1>1. Extract!TypeOK' /\ Settled' /\ ClaimsBacked'
    BY DEF ExtractInv, Extract!TypeOK, Settled, Working, ClaimsBacked, Extract!ClaimsBacked,
           Extract!ClaimIds
  <1>2. \A f \in Executions : Written(f)' /\ Targeted(f)' /\ FirstSound(f)'
    BY OthersGoOn
  <1>3. OneOutputKept'
    BY DEF ExtractInv, OneOutputKept, Extract!OneOutputKept
  <1>4. QED
    BY <1>1, <1>2, <1>3 DEF ExtractInv

LEMMA ExtractNext == ExtractInv /\ [MemoryNext]_<<vars, extractionVars, kind>> => ExtractInv'
  <1> SUFFICES ASSUME ExtractInv, [MemoryNext]_<<vars, extractionVars, kind>> PROVE ExtractInv'
    OBVIOUS
  <1>1. CASE UNCHANGED extractionVars
    BY <1>1, ExtractStays
  <1>2. CASE Extract!Next
    <2>1. \A e \in Executions : Extract!Fail(e) \/ Extract!DeadlockAbort(e) => Extract!RollBack(e)
      BY DEF Extract!Fail, Extract!DeadlockAbort
    <2>2. QED
      BY <1>2, <2>1, StartPreserves, ExtractedPreserves, SkipBlankPreserves, UpsertClaimPreserves,
         AddSourcePreserves, ClaimsCommit, CompletePreserves, RolledBackPreserves DEF Extract!Next
  <1>3. QED
    BY <1>1, <1>2 DEF MemoryNext

THEOREM ExtractInvHolds == MemorySpec => []ExtractInv
  <1>1. MemoryInit => ExtractInv
    BY ExtractInit DEF MemoryInit
  <1>2. QED
    BY <1>1, ExtractNext, PTL DEF MemorySpec

\* No claim is ever without a source that says it and without its embedding job,
\* and no source, embedding job or edge is without its claim, however executions
\* of one job or of several overlap and fail (_process_extract_claims).
THEOREM ClaimsAreAlwaysBacked == MemorySpec => []ClaimsBacked
  <1>1. ExtractInv => ClaimsBacked
    BY DEF ExtractInv
  <1>2. QED
    BY <1>1, ExtractInvHolds, PTL

\* Of the answers the executions of a job committed, one stays represented in full,
\* whatever its replays write (_process_extract_claims).
THEOREM OneOutputIsAlwaysKept == MemorySpec => []OneOutputKept
  <1>1. ExtractInv => OneOutputKept
    BY DEF ExtractInv
  <1>2. QED
    BY <1>1, ExtractInvHolds, PTL

=============================================================================
