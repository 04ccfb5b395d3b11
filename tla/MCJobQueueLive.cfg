CONSTANTS
    Jobs = {j1, j2}
    Workers = {w1, w2}
    NoWorker = NoWorker
    NoJob = NoJob
    MaxAttempts = 1
    BatchSize = 2
    LeaseTicks = 2
    MinDelay = 1
    MaxDelay = 1
    TimelyWorkers = TRUE
    ClaimBound = 4
    CrashBound = 1
SPECIFICATION FairSpec
PROPERTIES JobsSettle
