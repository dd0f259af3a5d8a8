------------------------- MODULE MCAnalyzedProgram -------------------------
(***************************************************************************)
(* Small instances of AnalyzedProgram for TLC.                             *)
(***************************************************************************)
EXTENDS AnalyzedProgram

Module(ops, sizes, funcs, instrs, asm, dma, irq, mode) ==
    [ops |-> ops, sizes |-> sizes, funcs |-> funcs, instrs |-> instrs,
     asm |-> asm, dma |-> dma, irq |-> irq, mode |-> mode]

\* A module of one function, analysed with the default options.
Plain(ops, sizes, instrs) ==
    Module(ops, sizes, 1, instrs, "conservative", "verify", FALSE, "off")

HeapOps == {"kmalloc", "kcalloc", "kfree", "gep", "store", "load", "memset", "memcpy"}
SpillOps == {"kmalloc", "kfree", "alloca", "store", "load", "opaque"}
CastOps == {"kmalloc", "ptrtoint", "inttoptr", "bitcast", "add", "sub", "store"}
DmaOps == {"dma_alloc_coherent", "dma_map_single", "iommu_map", "gep", "store", "load"}

\* What a driver does with memory: plain heap use, pointers spilled to the stack,
\* pointers turned into integers.
Memory ==
    {Plain(HeapOps, {8, 16}, 4), Plain(SpillOps, {8, 16}, 5), Plain(CastOps, {4, 8}, 5)}

\* What the policies are about: DMA buffers, interrupts, the gate, and forms of
\* every instruction the analysis does not support.
Policies ==
    {Module(DmaOps, {8, 16}, 1, 4, "conservative", dma, FALSE, "off") :
        dma \in {"verify", "require-iommu"}}
    \cup {Module({"kmalloc", "gep", "store", "load"}, {8}, 1, 4,
                 "conservative", "verify", TRUE, mode) : mode \in HitlModes}
    \cup {Module({"kmalloc", "store", "memset", "memcpy", "asm", "odd"}, {8}, 2, 2,
                 asm, "verify", FALSE, mode) :
             asm \in {"conservative", "trap"}, mode \in HitlModes}
    \cup {Module({"kmalloc", "dma_alloc_coherent", "dma_map_single", "store", "odd"}, {8}, 2, 2,
                 "conservative", dma, FALSE, mode) :
             dma \in {"verify", "ignore"}, mode \in HitlModes}
    \cup {Module({"dma_alloc_coherent", "iommu_map", "odd"}, {8}, 2, 2,
                 "conservative", "require-iommu", FALSE, "off")}
    \cup {Plain(HeapOps \cup SpillOps \cup CastOps \cup {"asm", "odd"}, {8, 16}, 3)}

MCModules == Memory \cup Policies

\* Two DMA buffers, and one iommu_map.
MCTwoBuffers ==
    {Module({"dma_alloc_coherent", "iommu_map"}, {8}, 1, n,
            "conservative", "require-iommu", FALSE, "off") : n \in {2, 3}}

\* Pointers that come from somewhere else.
MCUnproven == {Plain({"kmalloc", "opaque", "store"}, {8}, n) : n \in {2, 3}}

\* Arrays.
MCArray == {Plain({"kmalloc", "gep", "store"}, {8, 16}, n) : n \in {2, 3}}

\* Two functions whose unnamed values have the same numbers.
MCTwoFunctions ==
    {Module({"kmalloc", "kfree", "opaque", "store"}, {8}, 2, n,
            "conservative", "verify", FALSE, "off") : n \in {2, 3}}

MCNone == {}
MCModuli == {32, 128}    \* a narrow and the widest integer type
MCAlias == {"alias"}
MCStrides == <<8, 4>>       \* the units infer_gep_offset assumes
MCWideStrides == <<16, 4>>  \* an array of 16-byte elements

\* The human has approved the first instructions' accesses and two classes.
MCApproved == {<<1, i, k>> : i \in 0..1, k \in {"store", "memset", "dma_alloc"}}
MCApprovedClasses == {<<"memcpy_source", 8>>, <<"dma_bounds", 8>>}
=============================================================================
