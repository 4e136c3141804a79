SPECIFICATION FairSpec
CONSTANTS
    w1 = w1
    j1 = j1
    Jobs = {j1, j2}
    Workers = {w1, w2}
    NoJob = NoJob
    NoWorker = NoWorker
    Handles <- FirstHandles
    Stable = {w1}
    MaxAttempts = 2
    Visibility = 1
    BatchSize = 1
    BackoffInitial = 1
    BackoffFactor = 2
    BackoffMax = 1
    Delays = {0}
    AgeCap = 0
    MaxFaults = 1
PROPERTIES
    EveryJobSettles
    ShutdownCompletes
CHECK_DEADLOCK FALSE
