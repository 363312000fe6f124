SPECIFICATION FairSpec
CONSTANTS
    Messages <- MCMessages
    MaxMessages = 3
    MaxLives = 2
    MaxCli = 1
INVARIANTS AnsweredInOrder AnswersTellTheEffects OnlyAllowedCallsWrite
PROPERTIES RequestsHandled
CHECK_DEADLOCK FALSE
