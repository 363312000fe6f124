SPECIFICATION Spec
CONSTANTS
    ClaimId = {c1}
    Body = {b1, b2}
    Proc = {p1, p2}
    Free = Free
    NoRecord = NoRecord
    NoCache = NoCache
    BadCache = BadCache
    MaxLegacy = 0
    MaxClaims = 3
    MaxUpsets = 1
SYMMETRY Symmetric
INVARIANTS LoadIsCanonical
CHECK_DEADLOCK FALSE
