SPECIFICATION Spec
CONSTANTS
    Proc = {p1, p2}
    ClaimId = {c1, c2}
    None = None
    MaxTime = 2
    MaxSettles = 3
SYMMETRY Symmetric
INVARIANTS SettledIsAccounted SealIsFrozen NoLeakage UndisturbedLosesNothing EventsWereObserved
CHECK_DEADLOCK FALSE
