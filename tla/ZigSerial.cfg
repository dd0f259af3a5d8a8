\* One process at a time.
CONSTANTS
    p1 = p1
    p2 = p2
    Procs <- MCOneProc
    Tokens <- MCTokens
    Requests <- MCRequests
    InitialModes <- MCAllModes
    I64Max = 7
    MaxCalls = 3
    MaxTime = 3
SPECIFICATION Spec
INVARIANTS
    AtMostOnceWhenWhole
PROPERTIES
    RefinesGuard
