\* Heap, stack slots and casts; policies, the gate, interrupts, unsupported forms.
CONSTANTS
    Programs <- MCModules
    Indices = {0, 1}
    Strides <- MCStrides
    Moduli <- MCModuli
    Habits <- MCNone
    Approved <- MCApproved
    ApprovedClasses <- MCApprovedClasses
    SolverMayGiveUp = TRUE
    U64Max = 127
    MaxDest = 5
SPECIFICATION Spec
INVARIANTS
    TypeOK
    SoundPass
    FailIsReal
    ProvenanceExact
    NoSolverWithoutApproval
    RequireFailsClosed
PROPERTIES
    VerdictNeverImproves
