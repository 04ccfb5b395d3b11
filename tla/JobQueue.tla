------------------------------ MODULE JobQueue ------------------------------
(***************************************************************************)
(* The durable job table of the memory core and the worker processes that  *)
(* lease jobs from it: claim_jobs, complete_job, retry_job and run_worker   *)
(* of worker.py, and the jobs:retry-failed handler of app.py.               *)
(*                                                                         *)
(* A row's lease_expires_at and run_after are kept as the ticks that remain *)
(* until they pass; a tick stands for a span in which nothing else expires. *)
(* What a job computes is abstracted to whether its result was committed.   *)
(***************************************************************************)
EXTENDS Integers, FiniteSets

CONSTANTS
    Jobs,           \* rows of the table jobs
    Workers,        \* worker processes (one container may run several lives)
    NoWorker,       \* lease_owner of a row nobody leases
    NoJob,          \* what a worker reports on when it is not reporting
    MaxAttempts,    \* Job.max_attempts
    BatchSize,      \* settings.worker_batch_size
    LeaseTicks,     \* settings.worker_lease_seconds
    MinDelay,       \* shortest retry delay
    MaxDelay,       \* longest retry delay
    TimelyWorkers,  \* TRUE: a live worker never outlives its own lease
    ClaimBound,     \* bound: claims of one job since it was last reset
    CrashBound      \* bound: crashes of one worker

ASSUME JobQueueAssumption ==
    /\ NoWorker \notin Workers
    /\ NoJob \notin Jobs
    /\ MaxAttempts \in Nat \ {0}
    /\ BatchSize \in Nat \ {0}
    /\ LeaseTicks \in Nat \ {0}
    /\ MinDelay \in Nat \ {0}
    /\ MaxDelay \in Nat
    /\ MinDelay <= MaxDelay
    /\ TimelyWorkers \in BOOLEAN
    /\ ClaimBound \in Nat
    /\ CrashBound \in Nat

VARIABLES
    \* the row of each job
    status, attempts, owner, lease, delay,
    \* each worker process: is it running, how often it died, the jobs of its
    \* batch not yet reported on, the attempts it read when it claimed them,
    \* the job it is reporting on and how that job ended
    up, life, batch, snapshot, current, verdict,
    \* do the embedding and generation providers answer
    providerUp,
    \* history: results committed, errors that burnt an attempt, claims lost
    \* to another claim, and what is left of the lease a worker took its batch under
    applied, errors, losses, term

rowVars     == <<status, attempts, owner, lease, delay>>
workerVars  == <<up, life, batch, snapshot, current, verdict>>
historyVars == <<applied, errors, losses, term>>
vars        == <<rowVars, workerVars, providerUp, historyVars>>

Statuses == {"none", "pending", "running", "retry", "failed", "done"}
Verdicts == {"none", "ok", "transient", "error"}

NoOwner == <<NoWorker, 0>>

\* The owner string of run_worker: host name and a fresh uuid7 for each process.
OwnerId(w) == <<w, life[w]>>

\* The WHERE clause of claim_jobs: due work, or work whose lease has run out.
RunnableIgnoringLease(j) ==
    \/ status[j] \in {"pending", "retry"} /\ delay[j] = 0
    \/ status[j] = "running"

RunnableNeverStolen(j) == status[j] \in {"pending", "retry"} /\ delay[j] = 0

Runnable(j) ==
    \/ status[j] \in {"pending", "retry"} /\ delay[j] = 0
    \/ status[j] = "running" /\ lease[j] = 0

\* The WHERE clause of complete_job and of retry_job.
AnyRunningRow(j, w) == status[j] = "running"
OwnsUnexpired(j, w) == status[j] = "running" /\ owner[j] = OwnerId(w) /\ lease[j] > 0

StillOwns(j, w) == status[j] = "running" /\ owner[j] = OwnerId(w)

\* The attempts retry_job writes: a transient provider error is given back.
ChargedAttempts(w, j) ==
    IF verdict[w] = "error" \/ snapshot[w][j] = 0
    THEN snapshot[w][j]
    ELSE snapshot[w][j] - 1

\* retry_job gives up only on an error that burns the last attempt.
Exhausted(w, j) == verdict[w] = "error" /\ ChargedAttempts(w, j) >= MaxAttempts

\* The else branch of run_worker's try: process_job returned without an exception.
Returned(w) == verdict[w] # "none"

Succeeded(w) == verdict[w] = "ok"

\* One tick of a countdown.
Elapse(n) == IF n > 0 THEN n - 1 ELSE 0

Init ==
    /\ status = [j \in Jobs |-> "none"]
    /\ attempts = [j \in Jobs |-> 0]
    /\ owner = [j \in Jobs |-> NoOwner]
    /\ lease = [j \in Jobs |-> 0]
    /\ delay = [j \in Jobs |-> 0]
    /\ up = [w \in Workers |-> TRUE]
    /\ life = [w \in Workers |-> 0]
    /\ batch = [w \in Workers |-> {}]
    /\ snapshot = [w \in Workers |-> [j \in Jobs |-> 0]]
    /\ current = [w \in Workers |-> NoJob]
    /\ verdict = [w \in Workers |-> "none"]
    /\ providerUp = TRUE
    /\ applied = [j \in Jobs |-> FALSE]
    /\ errors = [j \in Jobs |-> 0]
    /\ losses = [j \in Jobs |-> 0]
    /\ term = [w \in Workers |-> 0]

-----------------------------------------------------------------------------
\* A committed ingest or extraction inserts the row (status pending, due now).
Enqueue(j) ==
    /\ status[j] = "none"
    /\ status' = [status EXCEPT ![j] = "pending"]
    /\ UNCHANGED <<attempts, owner, lease, delay, workerVars, providerUp, historyVars>>

\* claim_jobs.  Rows another transaction has locked are skipped, so any part of
\* the runnable rows up to the batch size may be returned.
Claim(w, S) ==
    /\ up[w] /\ batch[w] = {}
    /\ S # {} /\ Cardinality(S) <= BatchSize
    /\ \A j \in S : Runnable(j) /\ attempts[j] < ClaimBound
    /\ status' = [j \in Jobs |-> IF j \in S THEN "running" ELSE status[j]]
    /\ attempts' = [j \in Jobs |-> IF j \in S THEN attempts[j] + 1 ELSE attempts[j]]
    /\ owner' = [j \in Jobs |-> IF j \in S THEN OwnerId(w) ELSE owner[j]]
    /\ lease' = [j \in Jobs |-> IF j \in S THEN LeaseTicks ELSE lease[j]]
    /\ batch' = [batch EXCEPT ![w] = S]
    /\ snapshot' = [snapshot EXCEPT ![w] =
                       [j \in Jobs |-> IF j \in S THEN attempts[j] + 1 ELSE 0]]
    /\ losses' = [j \in Jobs |-> IF j \in S /\ status[j] = "running"
                                 THEN losses[j] + 1 ELSE losses[j]]
    /\ term' = [term EXCEPT ![w] = LeaseTicks]
    /\ UNCHANGED <<delay, up, life, current, verdict, providerUp, applied, errors>>

\* process_job on one job of the batch.  Success has committed the job's result
\* in a transaction of its own before the job itself is marked done.
Process(w, j, v) ==
    /\ up[w] /\ current[w] = NoJob /\ j \in batch[w]
    /\ v = "ok" => providerUp
    /\ v = "transient" => ~providerUp
    /\ current' = [current EXCEPT ![w] = j]
    /\ verdict' = [verdict EXCEPT ![w] = v]
    /\ applied' = [applied EXCEPT ![j] = @ \/ v = "ok"]
    /\ UNCHANGED <<rowVars, up, life, batch, snapshot, providerUp, errors, losses, term>>

\* The loop of run_worker goes on to the next job of its batch.
NextInBatch(w, j) ==
    /\ batch' = [batch EXCEPT ![w] = @ \ {j}]
    /\ snapshot' = [snapshot EXCEPT ![w][j] = 0]
    /\ current' = [current EXCEPT ![w] = NoJob]
    /\ verdict' = [verdict EXCEPT ![w] = "none"]
    /\ term' = [term EXCEPT ![w] = IF batch[w] = {j} THEN 0 ELSE @]
    /\ UNCHANGED <<up, life>>

\* complete_job: nothing happens to a row this process no longer owns.
Complete(w, j) ==
    /\ up[w] /\ current[w] = j /\ Succeeded(w)
    /\ IF StillOwns(j, w)
       THEN /\ status' = [status EXCEPT ![j] = "done"]
            /\ owner' = [owner EXCEPT ![j] = NoOwner]
            /\ lease' = [lease EXCEPT ![j] = 0]
       ELSE UNCHANGED <<status, owner, lease>>
    /\ NextInBatch(w, j)
    /\ UNCHANGED <<attempts, delay, providerUp, applied, errors, losses>>

\* retry_job: give the attempt back, keep it, or give up on the job.
Retry(w, j) ==
    /\ up[w] /\ current[w] = j /\ verdict[w] \in {"transient", "error"}
    /\ IF StillOwns(j, w)
       THEN /\ status' = [status EXCEPT ![j] = IF Exhausted(w, j) THEN "failed" ELSE "retry"]
            /\ attempts' = [attempts EXCEPT ![j] = ChargedAttempts(w, j)]
            /\ owner' = [owner EXCEPT ![j] = NoOwner]
            /\ lease' = [lease EXCEPT ![j] = 0]
            /\ \E d \in MinDelay .. MaxDelay : delay' = [delay EXCEPT ![j] = d]
            /\ errors' = [errors EXCEPT ![j] = IF verdict[w] = "error" THEN @ + 1 ELSE @]
       ELSE UNCHANGED <<status, attempts, owner, lease, delay, errors>>
    /\ NextInBatch(w, j)
    /\ UNCHANGED <<providerUp, applied, losses>>

\* The process dies anywhere: killed, or an exception left run_worker.  Its rows
\* stay leased to an owner string no later process will use.
Crash(w) ==
    /\ up[w] /\ life[w] < CrashBound
    /\ up' = [up EXCEPT ![w] = FALSE]
    /\ life' = [life EXCEPT ![w] = @ + 1]
    /\ batch' = [batch EXCEPT ![w] = {}]
    /\ snapshot' = [snapshot EXCEPT ![w] = [j \in Jobs |-> 0]]
    /\ current' = [current EXCEPT ![w] = NoJob]
    /\ verdict' = [verdict EXCEPT ![w] = "none"]
    /\ term' = [term EXCEPT ![w] = 0]
    /\ UNCHANGED <<rowVars, providerUp, applied, errors, losses>>

Restart(w) ==
    /\ ~up[w]
    /\ up' = [up EXCEPT ![w] = TRUE]
    /\ UNCHANGED <<rowVars, life, batch, snapshot, current, verdict, providerUp, historyVars>>

\* POST /v1/jobs:retry-failed: the failed jobs it selects start over.
RetryFailed(S) ==
    /\ S # {}
    /\ \A j \in S : status[j] = "failed"
    /\ status' = [j \in Jobs |-> IF j \in S THEN "retry" ELSE status[j]]
    /\ attempts' = [j \in Jobs |-> IF j \in S THEN 0 ELSE attempts[j]]
    /\ delay' = [j \in Jobs |-> IF j \in S THEN 0 ELSE delay[j]]
    /\ owner' = [j \in Jobs |-> IF j \in S THEN NoOwner ELSE owner[j]]
    /\ lease' = [j \in Jobs |-> IF j \in S THEN 0 ELSE lease[j]]
    /\ errors' = [j \in Jobs |-> IF j \in S THEN 0 ELSE errors[j]]
    /\ losses' = [j \in Jobs |-> IF j \in S THEN 0 ELSE losses[j]]
    /\ UNCHANGED <<workerVars, providerUp, applied, term>>

ProviderToggle ==
    /\ providerUp' = ~providerUp
    /\ UNCHANGED <<rowVars, workerVars, historyVars>>

\* Time passes: leases and retry delays run down.  A worker whose lease is about
\* to run out may be assumed to finish first (TimelyWorkers).
Tick ==
    /\ \E j \in Jobs : lease[j] > 0 \/ delay[j] > 0
    /\ TimelyWorkers => \A w \in Workers : batch[w] = {} \/ term[w] > 1
    /\ lease' = [j \in Jobs |-> Elapse(lease[j])]
    /\ delay' = [j \in Jobs |-> Elapse(delay[j])]
    /\ term' = [w \in Workers |-> Elapse(term[w])]
    /\ UNCHANGED <<status, attempts, owner, workerVars, providerUp, applied, errors, losses>>

Next ==
    \/ \E j \in Jobs : Enqueue(j)
    \/ \E w \in Workers, S \in SUBSET Jobs : Claim(w, S)
    \/ \E w \in Workers, j \in Jobs, v \in Verdicts \ {"none"} : Process(w, j, v)
    \/ \E w \in Workers, j \in Jobs : Complete(w, j)
    \/ \E w \in Workers, j \in Jobs : Retry(w, j)
    \/ \E w \in Workers : Crash(w)
    \/ \E w \in Workers : Restart(w)
    \/ \E S \in SUBSET Jobs : RetryFailed(S)
    \/ ProviderToggle
    \/ Tick

Spec == Init /\ [][Next]_vars

(***************************************************************************)
(* The loop of run_worker always takes its next step and the container is  *)
(* restarted.  claim_jobs orders by run_after, which only moves forward, so *)
(* a job that keeps becoming runnable is not passed over for ever.          *)
(***************************************************************************)
Fairness ==
    /\ \A w \in Workers :
         /\ WF_vars(\E j \in Jobs, v \in Verdicts \ {"none"} : Process(w, j, v))
         /\ WF_vars(\E j \in Jobs : Complete(w, j) \/ Retry(w, j))
         /\ WF_vars(Restart(w))
    /\ \A j \in Jobs : SF_vars(\E w \in Workers, S \in SUBSET Jobs : j \in S /\ Claim(w, S))
    /\ WF_vars(Tick)

FairSpec == Spec /\ Fairness

-----------------------------------------------------------------------------
\* Every variable has its type.
TypeOK ==
    /\ status \in [Jobs -> Statuses]
    /\ attempts \in [Jobs -> Nat]
    /\ owner \in [Jobs -> (Workers \cup {NoWorker}) \X Nat]
    /\ lease \in [Jobs -> Nat]
    /\ delay \in [Jobs -> Nat]
    /\ up \in [Workers -> BOOLEAN]
    /\ life \in [Workers -> Nat]
    /\ batch \in [Workers -> SUBSET Jobs]
    /\ snapshot \in [Workers -> [Jobs -> Nat]]
    /\ current \in [Workers -> Jobs \cup {NoJob}]
    /\ verdict \in [Workers -> Verdicts]
    /\ providerUp \in BOOLEAN
    /\ applied \in [Jobs -> BOOLEAN]
    /\ errors \in [Jobs -> Nat]
    /\ losses \in [Jobs -> Nat]
    /\ term \in [Workers -> Nat]

\* While the lease a worker took its batch under lasts, every job still in that
\* batch is leased to it and to nobody else: the steal in claim_jobs, another
\* worker's late report and retry-failed all leave it alone.
LeaseExclusive ==
    \A w \in Workers : \A j \in batch[w] :
        term[w] > 0 => StillOwns(j, w) /\ lease[j] = term[w]

\* A row in state running is in the batch of the process it is leased to, at the
\* attempt that process read, or that process is dead: no row is stranded under
\* a live owner that has moved on.
NoStrandedRow ==
    \A j \in Jobs : status[j] = "running" =>
        \E w \in Workers :
            /\ owner[j][1] = w
            /\ \/ owner[j] = OwnerId(w) /\ j \in batch[w] /\ snapshot[w][j] = attempts[j]
               \/ owner[j][2] < life[w]

\* The attempts column counts exactly the errors that were charged, the claims
\* that were lost with their lease, and the claim in progress or completed:
\* provider outages are given back and a stale worker's count is never written.
AttemptLedger ==
    \A j \in Jobs :
        attempts[j] = errors[j] + losses[j] + (IF status[j] \in {"running", "done"} THEN 1 ELSE 0)

\* A job is given up only after max_attempts claims went wrong, the last of them
\* by an error of the job itself, and it never survives max_attempts such errors.
ErrorBudget ==
    \A j \in Jobs :
        IF status[j] = "failed"
        THEN errors[j] > 0 /\ errors[j] + losses[j] >= MaxAttempts
        ELSE errors[j] < MaxAttempts

\* A done job's result is in the database: complete_job comes after the commit.
DoneIsApplied == \A j \in Jobs : status[j] = "done" => applied[j]

\* No later report, steal or retry takes a job out of state done.
DoneIsFinal == [][\A j \in Jobs : status[j] = "done" => status'[j] = "done"]_vars

\* Once the providers answer for good, every queued job ends done or failed,
\* whatever workers crashed while holding it.
JobsSettle ==
    <>[]providerUp =>
        \A j \in Jobs : status[j] \in {"pending", "running", "retry"} ~> status[j] \in {"done", "failed"}
=============================================================================
