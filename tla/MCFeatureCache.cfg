SPECIFICATION FlagSpec
CONSTANTS
    n1 = n1
    Nodes = {n1}
    Calls = {a, b}
    Node <- OneNode
    TTL = 2
    MaxVersion = 1
    MaxClock = 1
INVARIANT NextEvaluateSeesWrite
CHECK_DEADLOCK FALSE
