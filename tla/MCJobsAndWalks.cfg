SPECIFICATION SideBySide
CONSTANTS
    Jobs = {j1, j2}
    Workers = {w1, w2}
    NoJob = NoJob
    NoWorker = NoWorker
    Handles <- AllHandle
    Stable = {}
    MaxAttempts = 2
    Visibility = 2
    BatchSize = 2
    BackoffInitial = 1
    BackoffFactor = 2
    BackoffMax = 2
    Delays = {0}
    AgeCap = 0
    MaxFaults = 1
    Ids = {1, 2, 3, 4}
    Times = {0, 1}
    Limits = {0, 1, 2, 3}
    MaxLimit = 2
    NoKey = NoKey
SYMMETRY Symmetry
INVARIANTS
    TypeOK
    HolderOwnsRow
    AttemptsWithinBudget
    LocksAccountedFor
    WalkTypeOK
    PagesInOrder
    StableRowsListed
PROPERTY TerminalIsFinal
CHECK_DEADLOCK FALSE
