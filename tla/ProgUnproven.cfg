\* An access through a pointer of unknown origin.
CONSTANTS
    Programs <- MCUnproven
    Indices = {0, 1}
    Strides <- MCStrides
    Moduli <- MCModuli
    Habits <- MCAlias
    Approved <- MCNone
    ApprovedClasses <- MCNone
    SolverMayGiveUp = FALSE
    U64Max = 127
    MaxDest = 5
SPECIFICATION Spec
INVARIANTS
    UnprovenNeverPass
