CONSTANTS
    Jobs = {j1, j2}
    Workers = {w1, w2}
    NoWorker = NoWorker
    NoJob = NoJob
    MaxAttempts = 2
    BatchSize = 2
    LeaseTicks = 1
    MinDelay = 1
    MaxDelay = 1
    TimelyWorkers = FALSE
    ClaimBound = 3
    CrashBound = 1
SPECIFICATION Spec
SYMMETRY Symmetry
INVARIANTS LeaseExclusive NoStrandedRow AttemptLedger DoneIsApplied
