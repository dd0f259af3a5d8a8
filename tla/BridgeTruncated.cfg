\* A process may be killed, between ftruncate and write included.
CONSTANTS
    p1 = p1
    p2 = p2
    Procs <- MCProcs
    Tokens <- MCCounterTokens
    Requests <- MCRequest
    Faults <- MCKill
    I64Max = 1000
    MaxCalls = 2
    MaxTime = 0
SPECIFICATION Spec
SYMMETRY MCSymmetry
INVARIANTS
    AtMostOnce
