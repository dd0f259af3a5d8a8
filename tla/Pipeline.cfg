SPECIFICATION Spec

CONSTANTS
    ArgSets <- MCArgSets
    Conditions <- MCConditions
    ReadBack <- MCReadBack
    Tokens = {1, 2}
    MaxRuns = 2
    MaxFaults = 1

INVARIANTS
    StrictPassJustified
    ReportedIsSpent
    OnePassPerToken
    SpentIsPrinted
    ReviewConverges
    KeptAfterExit
    PrivateContent

CHECK_DEADLOCK FALSE
