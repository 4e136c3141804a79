SPECIFICATION Spec
CONSTANTS
    Users = {ann, bob}
    Registered = {ann, bob}
    Requests = {r1, r2}
    SeedChoices = {TRUE}
    RoleRow = RoleRow
    NoRow = NoRow
    NoUser = NoUser
PROPERTY OwnerRemains
CHECK_DEADLOCK FALSE
