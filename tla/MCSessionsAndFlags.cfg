SPECIFICATION SideBySide
CONSTANTS
    Requests = {r1, r2}
    Orgs = {o1, o2}
    NoOrg = NoOrg
    Grants <- MCGrants
    ttl_secs = 1
    MaxSessions = 2
    Channels = {c1}
    Data = {d1, d2}
    MaxTime = 4
    n1 = n1
    Nodes = {n1}
    Calls = {a, b}
    Node <- OneNode
    TTL = 2
    MaxVersion = 2
    MaxClock = 3
INVARIANTS
    TypeOK
    LogoutTakesEffect
    FlagTypeOK
    StalenessBounded
    SeesOwnNodeWritesUnlessRaced
PROPERTY ActsWithinRights
SYMMETRY Symmetry
