--------------------------- MODULE JobQueueProofs ---------------------------
(***************************************************************************)
(* What JobQueue's runs check on a few jobs and workers, proved for any     *)
(* number of them, any batch size, lease, retry delay and any bounds.       *)
(***************************************************************************)
EXTENDS JobQueue, TLAPS

\* A worker reports on a job of its batch, and what it reports as done it has
\* committed: the part of run_worker's local state the invariants rest on.
Reporting ==
    \A w \in Workers :
        verdict[w] # "none" =>
            /\ current[w] \in batch[w]
            /\ verdict[w] = "ok" => applied[current[w]]

Inv ==
    /\ TypeOK
    /\ Reporting
    /\ LeaseExclusive
    /\ NoStrandedRow
    /\ AttemptLedger
    /\ ErrorBudget
    /\ DoneIsApplied

\* The part of the types a worker's own step touches.
WorkerTypeOK ==
    /\ up \in [Workers -> BOOLEAN]
    /\ life \in [Workers -> Nat]
    /\ batch \in [Workers -> SUBSET Jobs]
    /\ snapshot \in [Workers -> [Jobs -> Nat]]
    /\ current \in [Workers -> Jobs \cup {NoJob}]
    /\ verdict \in [Workers -> Verdicts]
    /\ term \in [Workers -> Nat]

\* Going on to the next job of a batch keeps the worker's types.
LEMMA NextInBatchType ==
  ASSUME TypeOK, NEW w \in Workers, NEW j \in Jobs, NextInBatch(w, j)
  PROVE  WorkerTypeOK'
  BY DEF TypeOK, WorkerTypeOK, NextInBatch, Verdicts

\* Init gives every variable its type.
LEMMA InitType == Init => TypeOK
  BY JobQueueAssumption
  DEF Init, TypeOK, NoOwner, Statuses, Verdicts, JobQueueAssumption

\* No step of the queue or of a worker leaves the types.
LEMMA NextType == TypeOK /\ [Next]_vars => TypeOK'
  <1> SUFFICES ASSUME TypeOK, [Next]_vars PROVE TypeOK'
    OBVIOUS
  <1> USE JobQueueAssumption DEF JobQueueAssumption, TypeOK, Statuses, Verdicts
  <1>1. ASSUME NEW j \in Jobs, Enqueue(j) PROVE TypeOK'
    BY <1>1 DEF Enqueue, workerVars, historyVars
  <1>2. ASSUME NEW w \in Workers, NEW S \in SUBSET Jobs, Claim(w, S) PROVE TypeOK'
    BY <1>2 DEF Claim, OwnerId
  <1>3. ASSUME NEW w \in Workers, NEW j \in Jobs, NEW v \in Verdicts \ {"none"}, Process(w, j, v)
        PROVE TypeOK'
    BY <1>3 DEF Process, rowVars
  <1>4. ASSUME NEW w \in Workers, NEW j \in Jobs, Complete(w, j) PROVE TypeOK'
    <2>1. WorkerTypeOK'
      BY <1>4, NextInBatchType DEF Complete
    <2>2. CASE StillOwns(j, w)
      <3>1. /\ status' = [status EXCEPT ![j] = "done"]
            /\ owner' = [owner EXCEPT ![j] = NoOwner]
            /\ lease' = [lease EXCEPT ![j] = 0]
        BY <1>4, <2>2 DEF Complete
      <3>2. owner' \in [Jobs -> (Workers \cup {NoWorker}) \X Nat]
        BY <3>1 DEF NoOwner
      <3>3. QED
        BY <1>4, <2>1, <3>1, <3>2 DEF Complete, WorkerTypeOK
    <2>3. CASE ~StillOwns(j, w)
      BY <1>4, <2>1, <2>3 DEF Complete, WorkerTypeOK
    <2>4. QED
      BY <2>2, <2>3
  <1>5. ASSUME NEW w \in Workers, NEW j \in Jobs, Retry(w, j) PROVE TypeOK'
    <2>1. WorkerTypeOK'
      BY <1>5, NextInBatchType DEF Retry
    <2>2. ChargedAttempts(w, j) \in Nat
      BY DEF ChargedAttempts
    <2>3. CASE StillOwns(j, w)
      <3>1. PICK d \in MinDelay .. MaxDelay : delay' = [delay EXCEPT ![j] = d]
        BY <1>5, <2>3 DEF Retry
      <3>2. delay' \in [Jobs -> Nat]
        BY <3>1
      <3>3. /\ status' = [status EXCEPT ![j] = IF Exhausted(w, j) THEN "failed" ELSE "retry"]
            /\ attempts' = [attempts EXCEPT ![j] = ChargedAttempts(w, j)]
            /\ owner' = [owner EXCEPT ![j] = NoOwner]
            /\ lease' = [lease EXCEPT ![j] = 0]
            /\ errors' = [errors EXCEPT ![j] = IF verdict[w] = "error" THEN @ + 1 ELSE @]
        BY <1>5, <2>3 DEF Retry
      <3>4. owner' \in [Jobs -> (Workers \cup {NoWorker}) \X Nat]
        BY <3>3 DEF NoOwner
      <3>5. QED
        BY <1>5, <2>1, <2>2, <3>2, <3>3, <3>4 DEF Retry, WorkerTypeOK
    <2>4. CASE ~StillOwns(j, w)
      BY <1>5, <2>1, <2>4 DEF Retry, WorkerTypeOK
    <2>5. QED
      BY <2>3, <2>4
  <1>6. ASSUME NEW w \in Workers, Crash(w) PROVE TypeOK'
    BY <1>6 DEF Crash, rowVars
  <1>7. ASSUME NEW w \in Workers, Restart(w) PROVE TypeOK'
    BY <1>7 DEF Restart, rowVars, historyVars
  <1>8. ASSUME NEW S \in SUBSET Jobs, RetryFailed(S) PROVE TypeOK'
    BY <1>8 DEF RetryFailed, NoOwner, workerVars
  <1>9. CASE ProviderToggle
    BY <1>9 DEF ProviderToggle, rowVars, workerVars, historyVars
  <1>10. CASE Tick
    BY <1>10 DEF Tick, Elapse, workerVars
  <1>11. CASE UNCHANGED vars
    BY <1>11 DEF vars, rowVars, workerVars, historyVars
  <1>12. QED
    BY <1>1, <1>2, <1>3, <1>4, <1>5, <1>6, <1>7, <1>8, <1>9, <1>10, <1>11 DEF Next

\* The job table and the workers keep their types in every behaviour.
THEOREM TypeCorrect == Spec => []TypeOK
  BY InitType, NextType, PTL DEF Spec

-----------------------------------------------------------------------------
\* Owner strings tell processes apart.
LEMMA OwnerUnique ==
  ASSUME NEW v \in Workers, NEW w \in Workers, OwnerId(v) = OwnerId(w)
  PROVE  v = w
  BY DEF OwnerId

\* A worker that still owns the row it reports on read the row's attempts: the
\* count it writes back is the row's own.
LEMMA OwnedSnapshot ==
  ASSUME TypeOK, NoStrandedRow, NEW w \in Workers, NEW j \in Jobs, StillOwns(j, w)
  PROVE  j \in batch[w] /\ snapshot[w][j] = attempts[j]
  <1>1. PICK v \in Workers :
            /\ owner[j][1] = v
            /\ \/ owner[j] = OwnerId(v) /\ j \in batch[v] /\ snapshot[v][j] = attempts[j]
               \/ owner[j][2] < life[v]
    BY DEF NoStrandedRow, StillOwns
  <1>2. owner[j] = <<w, life[w]>>
    BY DEF StillOwns, OwnerId
  <1>3. v = w /\ ~(owner[j][2] < life[v])
    BY <1>1, <1>2 DEF TypeOK
  <1>4. QED
    BY <1>1, <1>3

\* An empty table with idle workers satisfies the invariant.
LEMMA InitInv == Init => Inv
  <1> SUFFICES ASSUME Init PROVE Inv
    OBVIOUS
  <1>1. TypeOK
    BY InitType
  <1>2. Reporting /\ LeaseExclusive
    BY DEF Init, Reporting, LeaseExclusive
  <1>3. NoStrandedRow /\ AttemptLedger /\ ErrorBudget /\ DoneIsApplied
    BY JobQueueAssumption
    DEF Init, NoStrandedRow, AttemptLedger, ErrorBudget, DoneIsApplied, JobQueueAssumption
  <1>4. QED
    BY <1>1, <1>2, <1>3 DEF Inv

\* process_job sets what is reported, complete_job and retry_job clear it.
LEMMA NextReporting == Inv /\ [Next]_vars => Reporting'
  <1> SUFFICES ASSUME Inv, [Next]_vars PROVE Reporting'
    OBVIOUS
  <1> USE DEF Inv, Reporting, TypeOK
  <1>1. ASSUME NEW j \in Jobs, Enqueue(j) PROVE Reporting'
    BY <1>1 DEF Enqueue, workerVars, historyVars
  <1>2. ASSUME NEW w \in Workers, NEW S \in SUBSET Jobs, Claim(w, S) PROVE Reporting'
    BY <1>2 DEF Claim
  <1>3. ASSUME NEW w \in Workers, NEW j \in Jobs, NEW v \in Verdicts \ {"none"}, Process(w, j, v)
        PROVE Reporting'
    BY <1>3 DEF Process
  <1>4. ASSUME NEW w \in Workers, NEW j \in Jobs, Complete(w, j) PROVE Reporting'
    BY <1>4 DEF Complete, NextInBatch
  <1>5. ASSUME NEW w \in Workers, NEW j \in Jobs, Retry(w, j) PROVE Reporting'
    BY <1>5 DEF Retry, NextInBatch
  <1>6. ASSUME NEW w \in Workers, Crash(w) PROVE Reporting'
    BY <1>6 DEF Crash
  <1>7. ASSUME NEW w \in Workers, Restart(w) PROVE Reporting'
    BY <1>7 DEF Restart, historyVars
  <1>8. ASSUME NEW S \in SUBSET Jobs, RetryFailed(S) PROVE Reporting'
    BY <1>8 DEF RetryFailed, workerVars
  <1>9. CASE ProviderToggle
    BY <1>9 DEF ProviderToggle, workerVars, historyVars
  <1>10. CASE Tick
    BY <1>10 DEF Tick, workerVars
  <1>11. CASE UNCHANGED vars
    BY <1>11 DEF vars, workerVars, historyVars
  <1>12. QED
    BY <1>1, <1>2, <1>3, <1>4, <1>5, <1>6, <1>7, <1>8, <1>9, <1>10, <1>11 DEF Next

\* A claim takes only rows nobody holds a running lease on, and a report changes
\* only the row its own worker owns.
LEMMA NextLease == Inv /\ [Next]_vars => LeaseExclusive'
  <1> SUFFICES ASSUME Inv, [Next]_vars,
                      NEW u \in Workers, NEW i \in batch'[u], term'[u] > 0
               PROVE  (StillOwns(i, u) /\ lease[i] = term[u])'
    BY DEF LeaseExclusive
  <1> USE DEF Inv, LeaseExclusive, TypeOK, StillOwns, OwnerId
  <1>1. ASSUME NEW j \in Jobs, Enqueue(j)
        PROVE (StillOwns(i, u) /\ lease[i] = term[u])'
    BY <1>1 DEF Enqueue, workerVars, historyVars
  <1>2. ASSUME NEW w \in Workers, NEW S \in SUBSET Jobs, Claim(w, S)
        PROVE (StillOwns(i, u) /\ lease[i] = term[u])'
    <2>1. CASE u = w
      BY <1>2, <2>1 DEF Claim
    <2>2. CASE u # w
      <3>1. i \in batch[u] /\ term[u] > 0
        BY <1>2, <2>2 DEF Claim
      <3>2. i \notin S
        <4>1. status[i] = "running" /\ lease[i] > 0
          BY <3>1
        <4>2. ~Runnable(i)
          BY <4>1 DEF Runnable
        <4>3. QED
          BY <1>2, <4>2 DEF Claim
      <3>3. QED
        BY <1>2, <2>2, <3>1, <3>2 DEF Claim
    <2>3. QED
      BY <2>1, <2>2
  <1>3. ASSUME NEW w \in Workers, NEW j \in Jobs, NEW v \in Verdicts \ {"none"}, Process(w, j, v)
        PROVE (StillOwns(i, u) /\ lease[i] = term[u])'
    BY <1>3 DEF Process, rowVars
  <1>4. ASSUME NEW w \in Workers, NEW j \in Jobs, NextInBatch(w, j),
               \A k \in Jobs : k # j \/ ~StillOwns(j, w) =>
                   status'[k] = status[k] /\ owner'[k] = owner[k] /\ lease'[k] = lease[k]
        PROVE (StillOwns(i, u) /\ lease[i] = term[u])'
    <2>1. i \in batch[u] /\ term[u] > 0 /\ term'[u] = term[u] /\ life' = life
      BY <1>4 DEF NextInBatch
    <2>2. StillOwns(i, u) /\ lease[i] = term[u] /\ i \in Jobs
      BY <2>1
    <2>3. i # j \/ ~StillOwns(j, w)
      <3>1. CASE u = w
        BY <1>4, <3>1 DEF NextInBatch
      <3>2. CASE u # w
        BY <2>2, <3>2
      <3>3. QED
        BY <3>1, <3>2
    <2>4. QED
      BY <1>4, <2>1, <2>2, <2>3
  <1>5. ASSUME NEW w \in Workers, NEW j \in Jobs, Complete(w, j)
        PROVE (StillOwns(i, u) /\ lease[i] = term[u])'
    BY <1>4, <1>5 DEF Complete
  <1>6. ASSUME NEW w \in Workers, NEW j \in Jobs, Retry(w, j)
        PROVE (StillOwns(i, u) /\ lease[i] = term[u])'
    BY <1>4, <1>6 DEF Retry
  <1>7. ASSUME NEW w \in Workers, Crash(w)
        PROVE (StillOwns(i, u) /\ lease[i] = term[u])'
    BY <1>7 DEF Crash, rowVars
  <1>8. ASSUME NEW w \in Workers, Restart(w)
        PROVE (StillOwns(i, u) /\ lease[i] = term[u])'
    BY <1>8 DEF Restart, rowVars, historyVars
  <1>9. ASSUME NEW S \in SUBSET Jobs, RetryFailed(S)
        PROVE (StillOwns(i, u) /\ lease[i] = term[u])'
    BY <1>9 DEF RetryFailed, workerVars
  <1>10. CASE ProviderToggle
    BY <1>10 DEF ProviderToggle, rowVars, workerVars, historyVars
  <1>11. CASE Tick
    <2>1. batch' = batch /\ life' = life /\ status' = status /\ owner' = owner
      BY <1>11 DEF Tick, workerVars
    <2>2. i \in Jobs /\ lease'[i] = Elapse(lease[i]) /\ term'[u] = Elapse(term[u])
      BY <1>11, <2>1 DEF Tick
    <2>3. term[u] > 0
      BY <2>2 DEF Elapse
    <2>4. QED
      BY <2>1, <2>2, <2>3
  <1>12. CASE UNCHANGED vars
    BY <1>12 DEF vars, rowVars, workerVars, historyVars
  <1>13. QED
    BY <1>1, <1>2, <1>3, <1>5, <1>6, <1>7, <1>8, <1>9, <1>10, <1>11, <1>12 DEF Next

\* A claim replaces the holder of a row, a report releases it, and a crash turns
\* a living owner into a dead one.
LEMMA NextStranded == Inv /\ [Next]_vars => NoStrandedRow'
  <1> SUFFICES ASSUME Inv, [Next]_vars, NEW i \in Jobs, status'[i] = "running"
               PROVE  (\E u \in Workers :
                         /\ owner[i][1] = u
                         /\ \/ owner[i] = OwnerId(u) /\ i \in batch[u] /\ snapshot[u][i] = attempts[i]
                            \/ owner[i][2] < life[u])'
    BY DEF NoStrandedRow
  <1> DEFINE Held(u) ==
         /\ owner[i][1] = u
         /\ \/ owner[i] = OwnerId(u) /\ i \in batch[u] /\ snapshot[u][i] = attempts[i]
            \/ owner[i][2] < life[u]
  <1> SUFFICES \E u \in Workers : Held(u)'
    OBVIOUS
  <1>0. ASSUME status[i] = "running" PROVE \E u \in Workers : Held(u)
    BY <1>0 DEF Inv, NoStrandedRow
  <1>1. ASSUME NEW j \in Jobs, Enqueue(j) PROVE \E u \in Workers : Held(u)'
    BY <1>0, <1>1 DEF Enqueue, workerVars, historyVars, Inv, TypeOK, OwnerId
  <1>2. ASSUME NEW w \in Workers, NEW S \in SUBSET Jobs, Claim(w, S)
        PROVE \E u \in Workers : Held(u)'
    <2>1. CASE i \in S
      <3>1. Held(w)'
        BY <1>2, <2>1 DEF Claim, OwnerId, Inv, TypeOK
      <3>2. QED
        BY <3>1
    <2>2. CASE i \notin S
      <3>1. PICK u \in Workers : Held(u)
        BY <1>0, <1>2, <2>2 DEF Claim, Inv, TypeOK
      <3>2. Held(u)'
        BY <1>2, <2>2, <3>1 DEF Claim, OwnerId, Inv, TypeOK
      <3>3. QED
        BY <3>2
    <2>3. QED
      BY <2>1, <2>2
  <1>3. ASSUME NEW w \in Workers, NEW j \in Jobs, NEW v \in Verdicts \ {"none"}, Process(w, j, v)
        PROVE \E u \in Workers : Held(u)'
    BY <1>0, <1>3 DEF Process, rowVars, OwnerId
  <1>4. ASSUME NEW w \in Workers, NEW j \in Jobs, NextInBatch(w, j),
               ~(StillOwns(j, w) /\ i = j),
               status'[i] = status[i], owner'[i] = owner[i], attempts'[i] = attempts[i]
        PROVE \E u \in Workers : Held(u)'
    <2>1. PICK u \in Workers : Held(u)
      BY <1>0, <1>4
    <2>2. CASE owner[i][2] < life[u]
      BY <1>4, <2>1, <2>2 DEF NextInBatch
    <2>3. CASE owner[i] = OwnerId(u) /\ i \in batch[u] /\ snapshot[u][i] = attempts[i]
      <3>1. ~(u = w /\ i = j)
        BY <1>4, <2>3 DEF StillOwns
      <3>2. i \in batch'[u] /\ snapshot'[u][i] = snapshot[u][i]
        BY <1>4, <2>3, <3>1 DEF NextInBatch, Inv, TypeOK
      <3>3. QED
        BY <1>4, <2>1, <2>3, <3>2 DEF NextInBatch, OwnerId
    <2>4. QED
      BY <2>1, <2>2, <2>3
  <1>5. ASSUME NEW w \in Workers, NEW j \in Jobs, Complete(w, j)
        PROVE \E u \in Workers : Held(u)'
    <2>1. ~(StillOwns(j, w) /\ i = j)
      BY <1>5 DEF Complete, Inv, TypeOK
    <2>2. status'[i] = status[i] /\ owner'[i] = owner[i] /\ attempts'[i] = attempts[i]
      BY <1>5, <2>1 DEF Complete, Inv, TypeOK
    <2>3. QED
      BY <1>4, <1>5, <2>1, <2>2 DEF Complete
  <1>6. ASSUME NEW w \in Workers, NEW j \in Jobs, Retry(w, j)
        PROVE \E u \in Workers : Held(u)'
    <2>1. ~(StillOwns(j, w) /\ i = j)
      BY <1>6 DEF Retry, Inv, TypeOK
    <2>2. status'[i] = status[i] /\ owner'[i] = owner[i] /\ attempts'[i] = attempts[i]
      BY <1>6, <2>1 DEF Retry, Inv, TypeOK
    <2>3. QED
      BY <1>4, <1>6, <2>1, <2>2 DEF Retry
  <1>7. ASSUME NEW w \in Workers, Crash(w) PROVE \E u \in Workers : Held(u)'
    <2>1. PICK u \in Workers : Held(u)
      BY <1>0, <1>7 DEF Crash, rowVars
    <2>2. Held(u)'
      BY <1>7, <2>1 DEF Crash, rowVars, OwnerId, Inv, TypeOK
    <2>3. QED
      BY <2>2
  <1>8. ASSUME NEW w \in Workers, Restart(w) PROVE \E u \in Workers : Held(u)'
    BY <1>0, <1>8 DEF Restart, rowVars, historyVars, OwnerId
  <1>9. ASSUME NEW S \in SUBSET Jobs, RetryFailed(S) PROVE \E u \in Workers : Held(u)'
    BY <1>0, <1>9 DEF RetryFailed, workerVars, OwnerId, Inv, TypeOK
  <1>10. CASE ProviderToggle
    BY <1>0, <1>10 DEF ProviderToggle, rowVars, workerVars, historyVars, OwnerId
  <1>11. CASE Tick
    BY <1>0, <1>11 DEF Tick, workerVars, OwnerId
  <1>12. CASE UNCHANGED vars
    BY <1>0, <1>12 DEF vars, rowVars, workerVars, historyVars, OwnerId
  <1>13. QED
    BY <1>1, <1>2, <1>3, <1>5, <1>6, <1>7, <1>8, <1>9, <1>10, <1>11, <1>12 DEF Next

\* Only a claim, a charged error and the reset of retry-failed change the count,
\* and each moves one entry of the ledger with it.
LEMMA NextLedger == Inv /\ [Next]_vars => (AttemptLedger /\ ErrorBudget /\ DoneIsApplied)'
  <1> SUFFICES ASSUME Inv, [Next]_vars, NEW i \in Jobs
               PROVE  (/\ attempts[i] = errors[i] + losses[i]
                                + (IF status[i] \in {"running", "done"} THEN 1 ELSE 0)
                       /\ IF status[i] = "failed"
                          THEN errors[i] > 0 /\ errors[i] + losses[i] >= MaxAttempts
                          ELSE errors[i] < MaxAttempts
                       /\ status[i] = "done" => applied[i])'
    BY DEF AttemptLedger, ErrorBudget, DoneIsApplied
  <1> DEFINE Good == /\ attempts[i] = errors[i] + losses[i]
                              + (IF status[i] \in {"running", "done"} THEN 1 ELSE 0)
                     /\ IF status[i] = "failed"
                        THEN errors[i] > 0 /\ errors[i] + losses[i] >= MaxAttempts
                        ELSE errors[i] < MaxAttempts
                     /\ status[i] = "done" => applied[i]
  <1> SUFFICES Good'
    OBVIOUS
  <1>0. Good /\ TypeOK
    BY DEF Inv, AttemptLedger, ErrorBudget, DoneIsApplied
  <1> USE JobQueueAssumption DEF JobQueueAssumption
  <1>1. ASSUME NEW j \in Jobs, Enqueue(j) PROVE Good'
    BY <1>0, <1>1 DEF Enqueue, historyVars, TypeOK
  <1>2. ASSUME NEW w \in Workers, NEW S \in SUBSET Jobs, Claim(w, S) PROVE Good'
    <2>1. CASE i \in S
      <3>1. status[i] \in {"pending", "retry", "running"}
        BY <1>2, <2>1 DEF Claim, Runnable
      <3>2. QED
        BY <1>0, <1>2, <2>1, <3>1 DEF Claim, TypeOK
    <2>2. CASE i \notin S
      BY <1>0, <1>2, <2>2 DEF Claim, TypeOK
    <2>3. QED
      BY <2>1, <2>2
  <1>3. ASSUME NEW w \in Workers, NEW j \in Jobs, NEW v \in Verdicts \ {"none"}, Process(w, j, v)
        PROVE Good'
    BY <1>0, <1>3 DEF Process, rowVars, TypeOK
  <1>4. ASSUME NEW w \in Workers, NEW j \in Jobs, Complete(w, j) PROVE Good'
    <2>1. CASE StillOwns(j, w) /\ i = j
      <3>1. status[j] = "running" /\ status'[j] = "done"
        BY <1>0, <1>4, <2>1 DEF Complete, StillOwns, TypeOK
      <3>2. applied[j]
        BY <1>4 DEF Complete, Succeeded, Inv, Reporting
      <3>3. QED
        BY <1>0, <1>4, <2>1, <3>1, <3>2 DEF Complete
    <2>2. CASE ~(StillOwns(j, w) /\ i = j)
      <3>1. status'[i] = status[i]
        BY <1>0, <1>4, <2>2 DEF Complete, TypeOK
      <3>2. QED
        BY <1>0, <1>4, <3>1 DEF Complete
    <2>3. QED
      BY <2>1, <2>2
  <1>5. ASSUME NEW w \in Workers, NEW j \in Jobs, Retry(w, j) PROVE Good'
    <2>1. CASE StillOwns(j, w) /\ i = j
      <3>1. snapshot[w][j] = attempts[j] /\ status[j] = "running"
        BY <2>1, OwnedSnapshot DEF StillOwns, Inv
      <3>2. /\ status' = [status EXCEPT ![j] = IF Exhausted(w, j) THEN "failed" ELSE "retry"]
            /\ attempts' = [attempts EXCEPT ![j] = ChargedAttempts(w, j)]
            /\ errors' = [errors EXCEPT ![j] = IF verdict[w] = "error" THEN @ + 1 ELSE @]
            /\ losses' = losses
            /\ verdict[w] \in {"transient", "error"}
        BY <1>5, <2>1 DEF Retry
      <3>3. CASE verdict[w] = "error"
        <4>1. attempts'[j] = attempts[j] /\ errors'[j] = errors[j] + 1
          BY <1>0, <3>1, <3>2, <3>3 DEF ChargedAttempts, TypeOK
        <4>2. status'[j] = IF attempts[j] >= MaxAttempts THEN "failed" ELSE "retry"
          BY <1>0, <3>1, <3>2, <3>3 DEF Exhausted, ChargedAttempts, TypeOK
        <4>3. QED
          BY <1>0, <2>1, <3>1, <3>2, <4>1, <4>2 DEF TypeOK
      <3>4. CASE verdict[w] = "transient"
        <4>1. attempts[j] > 0
          BY <1>0, <2>1, <3>1 DEF TypeOK
        <4>2. attempts'[j] = attempts[j] - 1 /\ errors'[j] = errors[j] /\ status'[j] = "retry"
          BY <1>0, <3>1, <3>2, <3>4, <4>1 DEF ChargedAttempts, Exhausted, TypeOK
        <4>3. QED
          BY <1>0, <2>1, <3>1, <3>2, <4>2 DEF TypeOK
      <3>5. QED
        BY <3>2, <3>3, <3>4
    <2>2. CASE ~(StillOwns(j, w) /\ i = j)
      <3>1. /\ status'[i] = status[i] /\ attempts'[i] = attempts[i] /\ errors'[i] = errors[i]
            /\ losses'[i] = losses[i] /\ applied'[i] = applied[i]
        BY <1>0, <1>5, <2>2 DEF Retry, TypeOK
      <3>2. QED
        BY <1>0, <3>1
    <2>3. QED
      BY <2>1, <2>2
  <1>6. ASSUME NEW w \in Workers, Crash(w) PROVE Good'
    BY <1>0, <1>6 DEF Crash, rowVars
  <1>7. ASSUME NEW w \in Workers, Restart(w) PROVE Good'
    BY <1>0, <1>7 DEF Restart, rowVars, historyVars
  <1>8. ASSUME NEW S \in SUBSET Jobs, RetryFailed(S) PROVE Good'
    BY <1>0, <1>8 DEF RetryFailed, TypeOK
  <1>9. CASE ProviderToggle
    BY <1>0, <1>9 DEF ProviderToggle, rowVars, historyVars
  <1>10. CASE Tick
    BY <1>0, <1>10 DEF Tick
  <1>11. CASE UNCHANGED vars
    BY <1>0, <1>11 DEF vars, rowVars, historyVars
  <1>12. QED
    BY <1>1, <1>2, <1>3, <1>4, <1>5, <1>6, <1>7, <1>8, <1>9, <1>10, <1>11 DEF Next

-----------------------------------------------------------------------------
\* Inv is inductive.
THEOREM InvHolds == Spec => []Inv
  <1>1. Inv /\ [Next]_vars => Inv'
    BY NextType, NextReporting, NextLease, NextStranded, NextLedger DEF Inv
  <1>2. QED
    BY InitInv, <1>1, PTL DEF Spec

\* While a worker's lease lasts nobody else holds a job of its batch.
THEOREM LeaseIsExclusive == Spec => []LeaseExclusive
  <1>1. Inv => LeaseExclusive
    BY DEF Inv
  <1>2. QED
    BY InvHolds, <1>1, PTL

\* No row stays in state running under a process that has moved on.
THEOREM NoRowIsStranded == Spec => []NoStrandedRow
  <1>1. Inv => NoStrandedRow
    BY DEF Inv
  <1>2. QED
    BY InvHolds, <1>1, PTL

\* Attempts are charged for errors and lost claims only, and a job is given up
\* only when its own errors exhausted it.
THEOREM AttemptsAreEarned == Spec => [](AttemptLedger /\ ErrorBudget)
  <1>1. Inv => AttemptLedger /\ ErrorBudget
    BY DEF Inv
  <1>2. QED
    BY InvHolds, <1>1, PTL

\* A done job's result has been committed, and done is final.
THEOREM DoneIsSound == Spec => []DoneIsApplied /\ DoneIsFinal
  <1>1. Inv => DoneIsApplied
    BY DEF Inv
  <1>2. TypeOK /\ [Next]_vars => [\A j \in Jobs : status[j] = "done" => status'[j] = "done"]_vars
    <2> SUFFICES ASSUME TypeOK, [Next]_vars, NEW i \in Jobs, status[i] = "done"
                 PROVE  status'[i] = "done"
      OBVIOUS
    <2>1. ASSUME NEW j \in Jobs, Enqueue(j) PROVE status'[i] = "done"
      BY <2>1 DEF Enqueue, TypeOK
    <2>2. ASSUME NEW w \in Workers, NEW S \in SUBSET Jobs, Claim(w, S) PROVE status'[i] = "done"
      BY <2>2 DEF Claim, Runnable, TypeOK
    <2>3. ASSUME NEW w \in Workers, NEW j \in Jobs, NEW v \in Verdicts \ {"none"}, Process(w, j, v)
          PROVE status'[i] = "done"
      BY <2>3 DEF Process, rowVars
    <2>4. ASSUME NEW w \in Workers, NEW j \in Jobs, Complete(w, j) PROVE status'[i] = "done"
      BY <2>4 DEF Complete, TypeOK
    <2>5. ASSUME NEW w \in Workers, NEW j \in Jobs, Retry(w, j) PROVE status'[i] = "done"
      BY <2>5 DEF Retry, StillOwns, TypeOK
    <2>6. ASSUME NEW w \in Workers, Crash(w) \/ Restart(w) PROVE status'[i] = "done"
      BY <2>6 DEF Crash, Restart, rowVars
    <2>7. ASSUME NEW S \in SUBSET Jobs, RetryFailed(S) PROVE status'[i] = "done"
      BY <2>7 DEF RetryFailed, TypeOK
    <2>8. CASE ProviderToggle \/ Tick \/ UNCHANGED vars
      BY <2>8 DEF ProviderToggle, Tick, vars, rowVars
    <2>9. QED
      BY <2>1, <2>2, <2>3, <2>4, <2>5, <2>6, <2>7, <2>8 DEF Next
  <1>3. QED
    BY InvHolds, TypeCorrect, <1>1, <1>2, PTL DEF Spec, DoneIsFinal
=============================================================================
