SPECIFICATION Spec
CONSTANTS
    Session = {s1}
    source = source
    report = report
    File <- MCFile
    Evidence = report
    Scopes <- MCScopes
    NoClaim = NoClaim
    MaxContent = 2
    MaxClaims = 1
    MaxRecords = 2
    MaxCommits = 2
INVARIANTS XrayHidesOnlyMoves
PROPERTIES ValidatedLosesOnlyMoves
CHECK_DEADLOCK FALSE
