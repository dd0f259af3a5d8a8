\* A GEP over 16-byte elements.
CONSTANTS
    Programs <- MCArray
    Indices = {0, 1}
    Strides <- MCWideStrides
    Moduli <- MCModuli
    Habits <- MCNone
    Approved <- MCNone
    ApprovedClasses <- MCNone
    SolverMayGiveUp = FALSE
    U64Max = 127
    MaxDest = 5
SPECIFICATION Spec
INVARIANTS
    SoundPass
