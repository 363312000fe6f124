SPECIFICATION Spec
CONSTANTS
    MaxRecords = 3
    MaxSessions = 2
    MaxErrata = 1
INVARIANTS CountMeansClaims FinishedIsConsistent DiffIsGrowth
PROPERTIES ReceiptsAgree
CHECK_DEADLOCK FALSE
