SPECIFICATION FairSpec
CONSTANTS
    ClaimId = {c1}
    Body = {b1, b2}
    Proc = {p1, p2}
    Free = Free
    NoRecord = NoRecord
    NoCache = NoCache
    BadCache = BadCache
    MaxLegacy = 1
    MaxClaims = 4
    MaxUpsets = 2
INVARIANTS LineNumbersIncrease Verifies OnlyTheLastLineIsOpen ChangeIsReported
PROPERTIES IndexTakesLatest ImplementsSignedLog AppendEnds
CHECK_DEADLOCK FALSE
