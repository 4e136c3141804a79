SPECIFICATION WalkSpec
CONSTANTS
    Ids = {1, 2, 3}
    Times = {0, 1}
    Limits = {0, 1, 2, 3}
    MaxLimit = 2
    NoKey = NoKey
INVARIANT
    EveryRowListed
