SPECIFICATION Spec
CONSTANTS
    Requests = {r1, r2}
    Passwords = {p, q}
    NoPassword = NoPassword
    MAX_PENDING_TOKENS_PER_USER = 1
    MaxTokens = 1
INVARIANT SeedAdminLeavesNoOrphan
SYMMETRY Symmetry
