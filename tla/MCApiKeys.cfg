SPECIFICATION Spec
CONSTANTS
    Admins = {a1, a2}
    Clients = {c1}
    MaxKeys = 3
    p = p
    q = q
    Perms <- MCPerms
    Scopes <- MCScopes
    Grants <- MCGrants
INVARIANTS
    TypeOK
    RevocationTakesEffect
    PermissionsWithin
    RotationAtomic
    DeletedAccountHasNoKeys
    NobodyStuck
SYMMETRY Symmetry
CHECK_DEADLOCK FALSE
