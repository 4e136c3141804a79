SPECIFICATION FairSpec
CONSTANTS
    Users = {ann, bob}
    Registered = {ann}
    Requests = {r1, r2}
    SeedChoices = {TRUE, FALSE}
    RoleRow = RoleRow
    NoRow = NoRow
    NoUser = NoUser
INVARIANT TypeOK
PROPERTIES
    OwnerKept
    RemovalIsComplete
    RemovalsEnd
CHECK_DEADLOCK FALSE
