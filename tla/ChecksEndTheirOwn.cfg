SPECIFICATION Spec
CONSTANTS
    Proc = {p1, p2}
    NoSession = NoSession
    MaxSessions = 2
    MaxClaims = 1
SYMMETRY Symmetric
INVARIANTS ChecksEndTheirOwn
CHECK_DEADLOCK FALSE
