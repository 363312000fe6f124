SPECIFICATION Spec
CONSTANTS
    Session = {s1, s2}
    source = source
    report = report
    File <- MCFile
    Evidence = report
    Scopes <- MCScopes
    NoClaim = NoClaim
    MaxContent = 1
    MaxClaims = 2
    MaxRecords = 3
    MaxCommits = 1
SYMMETRY Symmetric
INVARIANTS SealIsFrozen MissedOnlyForANewer
CHECK_DEADLOCK FALSE
