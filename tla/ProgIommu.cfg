\* Two DMA buffers, one iommu_map.
CONSTANTS
    Programs <- MCTwoBuffers
    Indices = {0, 1}
    Strides <- MCStrides
    Moduli <- MCModuli
    Habits <- MCNone
    Approved <- MCNone
    ApprovedClasses <- MCNone
    SolverMayGiveUp = FALSE
    U64Max = 127
    MaxDest = 5
SPECIFICATION Spec
INVARIANTS
    IommuPaired
