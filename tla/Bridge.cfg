\* Two processes, two validations each, and every fault.
CONSTANTS
    p1 = p1
    p2 = p2
    Procs <- MCProcs
    Tokens <- MCTokens
    Requests <- MCRequest
    Faults <- MCAllFaults
    I64Max = 7
    MaxCalls = 2
    MaxTime = 1
SPECIFICATION FairSpec
INVARIANTS
    TypeOK
    AtMostOnceWhenWhole
    GrantDurable
    ComparesCurrent
PROPERTIES
    GrantsIncrease
    InsecureStateUntouched
    RefinesGuard
    Returns
