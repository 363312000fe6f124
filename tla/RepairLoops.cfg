SPECIFICATION Spec
CONSTANTS
    l1 = l1
    g1 = g1
    pkg = pkg
    src = src
    docs = docs
    Loop = {l1}
    NoLoop = NoLoop
    Path <- MCPath
    Inside <- MCInside
    Group = {g1}
    Verification = {"package"}
    Labels <- MCLabels
    Corrections = {"organic_real", "synthetic", "unknown"}
    NoErratum = NoErratum
    MaxClaims = 3
    MaxErrata = 1
    OrganicMin = 1
    FailuresMin = 1
    GroupsMin = 1
    PerGroupMin = 1
    LoopsMin = 1
    UnknownPctMax = 20
    CoverageMin = 80
INVARIANTS FixedIsClosed DoctorAgreesOnLoops OrganicFailuresAgree
PROPERTIES OpenUntilFixed WithdrawalNeverUnblocks
