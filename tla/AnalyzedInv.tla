---------------------------- MODULE AnalyzedInv ----------------------------
(***************************************************************************)
(* The inductive invariants behind the theorems about AnalyzedProgram:     *)
(* the shapes of the analyzer's maps and of the machine's memory, what the *)
(* verdict and its gate remember, and how what the analysis tracks is tied *)
(* to what the machine does.                                               *)
(***************************************************************************)
EXTENDS AnalyzedProgram

-----------------------------------------------------------------------------
(* Shapes.                                                                 *)

IntVals == {Unknown, Absent} \cup ({"ptr_offset"} \X (1..Len(alloc_sizes)) \X Int)

EnvShape ==
    /\ ptr_env \in [Names -> PtrVals] /\ alloca_store_map \in [Names -> PtrVals]
    /\ int_env \in [Names -> IntVals]
    /\ alloca_names \subseteq Names

HeapShape ==
    /\ alloc_sizes \in Seq(Nat) /\ object \in Seq(Nat) /\ real \in Seq(Nat)
    /\ Len(real) = Len(alloc_sizes)
    /\ freed_allocs \subseteq 1..Len(alloc_sizes)
    /\ dma_allocs_in_func \subseteq 1..Len(alloc_sizes)
    /\ iommu_mapped_in_func \subseteq dma_allocs_in_func

PlaceShape ==
    /\ program \in Programs
    /\ policy = [inline_asm |-> program.asm, dma |-> program.dma, has_irq_risk |-> program.irq]
    /\ dest \in 0..MaxDest + 1 /\ func \in Nat \ {0}
    /\ phase \in {"visit", "analyzed", "done"}

\* Allocation ids stand for distinct objects, and their sizes are the objects'.
RealInv ==
    /\ \A id \in 1..Len(real) : real[id] \in 1..Len(object) /\ object[real[id]] = alloc_sizes[id]
    /\ \A i, j \in 1..Len(real) : real[i] = real[j] => i = j

\* What Z3 is asked about an access of n bytes at pv.
OutOfBounds(pv, n) == pv[3] + n > alloc_sizes[pv[2]] \/ pv[3] < 0

-----------------------------------------------------------------------------
(* Verdicts and the gate.                                                  *)

IsGate(g) ==
    g = [mode |-> g.mode, seen |-> g.seen, blocked |-> g.blocked,
         seen_classes |-> g.seen_classes, blocked_classes |-> g.blocked_classes,
         asked |-> g.asked]

IsVerdict(v) ==
    /\ v = [result |-> v.result, gate |-> v.gate, solved |-> v.solved,
            inline_asm_vcs |-> v.inline_asm_vcs, dma_vcs |-> v.dma_vcs,
            irq_race_vcs |-> v.irq_race_vcs]
    /\ IsGate(v.gate)
    /\ v.result \in {"pass", "unknown", "fail"}
    /\ v.inline_asm_vcs \in Nat

\* In require mode Z3 ran for approved conditions only, and a condition that was
\* asked for and not approved has left something in the list of the blocked.
GateInv(v) ==
    v.gate.mode = "require" =>
        /\ \A q \in v.solved : IsApproved(q[1], q[2])
        /\ v.gate.blocked = {} => \A q \in v.gate.asked : IsApproved(q[1], q[2])

\* What a step may make of a verdict.
Leads(v, w) ==
    /\ IsVerdict(w) /\ GateInv(w)
    /\ Badness(w.result) >= Badness(v.result)
    /\ w.gate.mode = v.gate.mode
    /\ v.inline_asm_vcs <= w.inline_asm_vcs

TypeInv ==
    EnvShape /\ HeapShape /\ PlaceShape /\ RealInv /\ IsVerdict(verdict) /\ GateInv(verdict)

-----------------------------------------------------------------------------
(* The analysis and the machine, for modules without habits.               *)

\* The code a module without habits is made of: the units of infer_gep_offset are
\* those of the types, and no index saturates.
PlainCode == Habits = {} /\ Strides = <<8, 4>> /\ \A i \in Indices : 8 * i <= U64Max

Values == {Data} \cup ({"obj"} \X (1..Len(object)) \X Int) \cup ({"slot"} \X Names \X Int)

\* Slots are only reached by their own names, and hold no addresses of slots; heap
\* objects hold no pointers.
MachineShape ==
    /\ value \in [Names -> Values] /\ slot \in [Names -> Values]
    /\ dead \subseteq 1..Len(object)
    /\ \A n \in Names : IsSlot(value[n]) =>
                           n \in alloca_names \cap ptr_names /\ value[n] = <<"slot", n, 0>>
    /\ \A n \in Names : ~IsSlot(slot[n]) /\ (IsObj(slot[n]) => n \in Defined /\ IsSlot(value[n]))
    /\ \A a \in DOMAIN cell : cell[a] = Data

\* What the analysis takes for a DMA buffer is one.
KindInv ==
    /\ \A n \in Names : /\ ptr_env[n][1] = "dma" => ptr_env[n][2] \in dma_allocs_in_func
                        /\ alloca_store_map[n][1] = "dma" => alloca_store_map[n][2] \in dma_allocs_in_func
    /\ \A id \in dma_allocs_in_func : real[id] \in dma_objects

\* The analysis's tv says exactly where v points.
Exact(tv, v) == v = <<"obj", real[tv[2]], tv[3]>>

\* While the verdict is Pass, the analysis knows of every pointer into the heap that
\* the function holds, in names and in slots, and of every free.
PassInv ==
    verdict.result = "pass" /\ policy.dma # "ignore" =>
        /\ hazard = {}
        /\ \A n \in Defined :
              IsObj(value[n]) => IF n \in ptr_names
                                 THEN Tracked(ptr_env[n]) /\ Exact(ptr_env[n], value[n])
                                 ELSE IsPtrOffset(int_env[n]) /\ Exact(int_env[n], value[n])
        /\ \A n \in Names :
              IsObj(slot[n]) => Tracked(alloca_store_map[n]) /\ Exact(alloca_store_map[n], slot[n])
        /\ ~policy.has_irq_risk => dead \subseteq {real[id] : id \in freed_allocs}

\* In a module of one function the names are defined once, and what the analysis
\* tracks is exact whatever the verdict.
ExactInv ==
    /\ \A n \in Names : Tracked(ptr_env[n]) => n \in Defined /\ Exact(ptr_env[n], value[n])
    /\ \A n \in Names : IsPtrOffset(int_env[n]) => n \in Defined /\ Exact(int_env[n], value[n])
    /\ \A n \in Names : Tracked(alloca_store_map[n]) =>
                           n \in alloca_names /\ Exact(alloca_store_map[n], slot[n])
    /\ \A n \in alloca_names : n \in Defined /\ IsSlot(value[n])
    /\ \A id \in freed_allocs : real[id] \in dead
============================================================================
