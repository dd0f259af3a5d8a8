\* Two processes at once, on a sound replay file.
CONSTANTS
    p1 = p1
    p2 = p2
    Procs <- MCTwoProcs
    Tokens <- MCTokens
    Requests <- MCRequests
    InitialModes <- MCSecureModes
    I64Max = 1000
    MaxCalls = 1
    MaxTime = 0
SPECIFICATION Spec
INVARIANTS
    AtMostOnceWhenWhole
