-------------------------- MODULE AnalyzedProgram --------------------------
(***************************************************************************)
(* Analyzer and KernelMachine side by side.  A behaviour writes a module   *)
(* instruction by instruction: each one is visited by the analysis and run *)
(* by the machine, so that at every point the verdict can be compared with *)
(* what the code written so far does.  Functions are straight-line code.   *)
(***************************************************************************)
EXTENDS Analyzer, KernelMachine, FiniteSets

CONSTANTS
    Programs,       \* the kinds of module, and the options the analyzer is given
    Indices,        \* constants: GEP indices
    Strides,        \* <<s, t>>: the bytes a step of the first, of a later index takes
    Moduli,         \* 2^w for the widths w that constants may have
    Habits          \* what else the module may do, see AllHabits

\* "alias": an instruction unknown to the analysis may return a pointer the
\* function already has (phi, select, a call that returns its argument).
\* "heap_pointers": pointers are kept in heap objects.  "slot_gep": a GEP may be
\* taken of a stack slot.  "slot_reuse": a slot that holds a heap pointer may be
\* overwritten with a value ptr_env has no entry for.  "slot_address": the address
\* of a slot is itself stored or cast.  "int_spill": an integer made from a heap
\* pointer is kept in a slot.  "dma_as_heap": a DMA buffer is passed to kfree,
\* memset or memcpy, or made an integer.  "map_freed": a freed object is mapped for
\* DMA.  "handler_freed": what an interrupt handler or assembly has freed is passed to
\* kfree, memset or memcpy.  "negative": an index or addend is negative, which the
\* analysis, given the bits, takes for a large number.  "wrap": address arithmetic goes
\* round 2^64.  "padding": an access is wider than type_size says, as it does not count
\* the padding of structs and does not check its products.  "asm_prefix": assembly that
\* begins with a safe pattern goes on to free memory.  "hidden_handler": a handler frees
\* memory where scan_irq_handlers does not see it.
AllHabits == {"alias", "heap_pointers", "slot_gep", "slot_reuse", "slot_address",
              "int_spill", "dma_as_heap", "map_freed", "handler_freed", "negative", "wrap",
              "padding", "asm_prefix", "hidden_handler"}

\* A kind of module: the instructions it uses, its integer constants (sizes,
\* lengths, addends), its length in functions and instructions per function; and
\* the options.
ASSUME ProgramAssumption ==
    /\ \A p \in Programs :
          /\ DOMAIN p = {"ops", "sizes", "funcs", "instrs", "asm", "dma", "irq", "mode"}
          /\ p.sizes \subseteq 0..U64Max
          /\ p.mode \in HitlModes
          /\ p.instrs \in Nat /\ p.funcs \in Nat
    /\ Indices \subseteq 0..U64Max
    /\ Strides \in Nat \X Nat
    /\ Moduli \subseteq Nat \ {0}
    /\ Habits \subseteq AllHabits
    /\ SolverMayGiveUp \in BOOLEAN
    /\ U64Max \in Nat /\ MaxDest \in Nat

VARIABLES
    program,        \* the kind of the module
    ptr_names,      \* the names whose type is a pointer
    real,           \* real[id]: the object that allocation id stands for
    unproven        \* history: an access went through a pointer of no known origin

vars == <<analyzerVars, machineVars, program, ptr_names, real, unproven>>

Init ==
    /\ program \in Programs
    /\ AnalyzerInit(program.mode, [inline_asm |-> program.asm, dma |-> program.dma,
                                   has_irq_risk |-> program.irq])
    /\ MachineInit(Names)
    /\ ptr_names = {0}
    /\ real = <<>>
    /\ unproven = FALSE

-----------------------------------------------------------------------------
(* The instructions of the module. *)

\* The module uses the instruction and is not at its full length.
Uses(op) == op \in program.ops /\ idx < program.instrs

Defined == 0..(dest - 1)
Local(S) == {<<"local", n>> : n \in S}
Locals == Local(Defined)
Pointers == Local(Defined \cap ptr_names)
Numbers == Local(Defined \ ptr_names)
Sizes == program.sizes
Consts == {<<"const", c>> : c \in Sizes}
Other == <<"other">>

\* Operands the analysis does not support, and argument lists too short for
\* the call, appear in modules that use "odd".
Odd(S) == IF "odd" \in program.ops THEN S ELSE {}
Addresses == Pointers \cup Odd({Other})
Lengths == Consts \cup Odd({Other})

\* An access through a local operand that is no stack slot and whose origin the
\* analysis does not know.
Unproven(op) == IsLocal(op) /\ op[2] \notin alloca_names /\ ~Tracked(ptr_env[op[2]])

Accesses(ops) ==
    /\ unproven' = (unproven \/ \E op \in ops : Unproven(op))
    /\ UNCHANGED program
NoAccess == UNCHANGED <<unproven, program>>

\* The type of the instruction's result.
DefinesPtr == ptr_names' = ptr_names \cup {dest}
DefinesInt == ptr_names' = ptr_names \ {dest}

\* The instruction has no result.
NoResult == UNCHANGED <<ptr_names, real>>

\* The allocation the analysis has just numbered stands for the newest object.
NewObject ==
    /\ DefinesPtr
    /\ real' = IF alloc_sizes' # alloc_sizes THEN Append(real, Len(object')) ELSE real

\* What the habits leave out of the addresses that casts, and kfree, memset and
\* memcpy, are given.
MayCast(v) ==
    /\ IsSlot(v) => "slot_address" \in Habits
    /\ IsObj(v) /\ v[2] \in dma_objects => "dma_as_heap" \in Habits
MayPass(v) ==
    IsObj(v) =>
        /\ v[2] \in dma_objects => "dma_as_heap" \in Habits
        /\ v[2] \in dead => v[2] \in {real[id] : id \in freed_allocs} \/ "handler_freed" \in Habits

\* A size the analysis cannot read is any of Sizes.
SizeOf(op) == IF IsConst(op) THEN {op[2]} ELSE Sizes

\* The bytes an access may really take when type_size answers size.
TrueSizes(size) ==
    IF size = NoSize THEN Sizes
    ELSE {size} \cup (IF "padding" \in Habits THEN {n \in Sizes : n > size} ELSE {})

\* What a constant of the bits c may mean, by its type: two's complement.
Meanings(c) ==
    {c} \cup (IF "negative" \in Habits
              THEN {c - m : m \in {k \in Moduli : c < k /\ k <= 2 * c}} ELSE {})

\* The result is the address op moved by so many bytes.
Moves(op, by) ==
    LET v == Eval(op) IN
        /\ v # Data /\ Shift(v, by, U64Max + 1) # <<v[1], v[2], v[3] + by>> => "wrap" \in Habits
        /\ RunDefine(dest, Shift(v, by, U64Max + 1))

DoKmalloc ==
    /\ Uses("kmalloc")
    /\ \E args \in {<<op>> : op \in Lengths} \cup Odd({<<>>}) :
          /\ Kmalloc(args)
          /\ \E size \in IF args = <<>> THEN Sizes ELSE SizeOf(args[1]) :
                RunAllocate(dest, size, FALSE)
    /\ NewObject /\ NoAccess

DoKcalloc ==
    /\ Uses("kcalloc")
    /\ \E args \in (Lengths \X Lengths) \cup Odd({<<>>, <<Other>>}) :
          /\ Kcalloc(args)
          /\ IF Len(args) = 2
             THEN \E n \in SizeOf(args[1]), s \in SizeOf(args[2]) :
                     IF n * s > U64Max THEN RunOverflow(dest) ELSE RunAllocate(dest, n * s, FALSE)
             ELSE \E s \in Sizes : RunAllocate(dest, s, FALSE)
    /\ NewObject /\ NoAccess

DoDmaAlloc ==
    /\ Uses("dma_alloc_coherent")
    /\ \E args \in ({Other} \X Lengths) \cup Odd({<<Other>>}) :
          /\ DmaAllocCoherent(args)
          /\ \E size \in IF Len(args) = 2 THEN SizeOf(args[2]) ELSE Sizes :
                RunAllocate(dest, size, TRUE)
    /\ NewObject /\ NoAccess

DoKfree ==
    /\ Uses("kfree")
    /\ \E args \in {<<op>> : op \in Addresses} \cup Odd({<<>>}) :
          /\ \A k \in DOMAIN args : MayPass(Eval(args[k]))
          /\ Kfree(args)
          /\ RunFree(IF args = <<>> THEN Data ELSE Eval(args[1]))
          /\ Accesses({args[k] : k \in DOMAIN args})
    /\ NoResult

DoMemset ==
    /\ Uses("memset")
    /\ \E args \in (Addresses \X {Other} \X Lengths) \cup Odd({<<>>, <<Other>>}) :
          /\ Len(args) = 3 => MayPass(Eval(args[1]))
          /\ Memset(args)
          /\ \E n \in IF Len(args) = 3 THEN SizeOf(args[3]) ELSE {0} :
                RunAccess(IF Len(args) = 3 THEN {Eval(args[1])} ELSE {}, n)
          /\ Accesses(IF Len(args) = 3 THEN {args[1]} ELSE {})
    /\ NoResult

DoMemcpy ==
    /\ Uses("memcpy")
    /\ \E args \in (Addresses \X Addresses \X Lengths)
                      \cup Odd({<<>>, <<Other>>, <<Other, Other>>}) :
          /\ Len(args) = 3 => MayPass(Eval(args[1])) /\ MayPass(Eval(args[2]))
          /\ Memcpy(args)
          /\ \E n \in IF Len(args) = 3 THEN SizeOf(args[3]) ELSE {0} :
                RunAccess(IF Len(args) = 3 THEN {Eval(args[1]), Eval(args[2])} ELSE {}, n)
          /\ Accesses(IF Len(args) = 3 THEN {args[1], args[2]} ELSE {})
    /\ NoResult

DoDmaMap ==
    /\ Uses("dma_map_single")
    /\ \E args \in ({Other} \X Addresses \X Lengths) \cup Odd({<<>>, <<Other, Other>>}) :
          /\ Len(args) = 3 /\ IsObj(Eval(args[2])) /\ Eval(args[2])[2] \in dead =>
                "map_freed" \in Habits
          /\ DmaMapSingle(args)
          /\ \E n \in IF Len(args) = 3 THEN SizeOf(args[3]) ELSE {0} :
                RunAccess(IF Len(args) = 3 THEN {Eval(args[2])} ELSE {}, n)
          /\ Accesses(IF Len(args) = 3 THEN {args[2]} ELSE {})
    /\ NoResult

DoIommuMap ==
    /\ Uses("iommu_map")
    /\ IommuMap /\ RunIommuMap
    /\ NoResult /\ NoAccess

DoInlineAsm ==
    /\ Uses("asm")
    /\ \E text \in AsmTexts :
          /\ InlineAsm(text)
          /\ \/ RunNothing
             \/ /\ text = "other" \/ (text = "prefix" /\ "asm_prefix" \in Habits)
                /\ \E n \in Defined : RunFree(value[n])
    /\ NoResult /\ NoAccess

DoAlloca ==
    /\ Uses("alloca")
    /\ Alloca
    /\ RunDefine(dest, <<"slot", dest, 0>>)
    /\ DefinesPtr /\ UNCHANGED real /\ NoAccess

AccessSizes == Sizes \cup Odd({NoSize})

\* What the habits leave out of the stores of op at addr.
MayStore(addr, op) ==
    /\ IsObj(addr) /\ Eval(op) # Data => "heap_pointers" \in Habits
    /\ IsSlot(Eval(op)) => "slot_address" \in Habits
    /\ IsSlot(addr) /\ IsObj(Eval(op)) /\ op[2] \notin ptr_names => "int_spill" \in Habits
    /\ IsSlot(addr) /\ IsObj(slot[addr[2]]) /\ ~(IsLocal(op) /\ ptr_env[op[2]] # Absent) =>
          "slot_reuse" \in Habits

DoStore ==
    /\ Uses("store")
    /\ \E addr \in Addresses, op \in Locals \cup {Other}, size \in AccessSizes :
          /\ MayStore(Eval(addr), op)
          /\ Store(addr, op, size)
          /\ \E n \in TrueSizes(size) : RunStore(Eval(addr), Eval(op), n)
          /\ Accesses({addr})
    /\ NoResult

DoLoad ==
    /\ Uses("load")
    /\ \E addr \in Addresses, size \in AccessSizes :
          /\ Load(addr, size)
          /\ \E n \in TrueSizes(size) : RunLoad(dest, Eval(addr), n)
          /\ Accesses({addr})
    /\ DefinesPtr /\ UNCHANGED real

\* The bytes a GEP of constant indices really moves the address by.
TrueGep(indices) ==
    {i * Strides[1] + j * Strides[2] :
        i \in Meanings(indices[1][2]),
        j \in IF Len(indices) = 1 THEN {0} ELSE Meanings(indices[2][2])}

\* With an index only known at run time a GEP may compute any address.
DoGep ==
    /\ Uses("gep")
    /\ LET index == {<<"const", c>> : c \in Indices} \cup Odd({Other})
       IN  \E base \in Addresses, indices \in {<<i>> : i \in index} \cup (index \X index) :
              /\ IsSlot(Eval(base)) => "slot_gep" \in Habits
              /\ GetElementPtr(base, indices)
              /\ IF GepResolves(indices) THEN \E by \in TrueGep(indices) : Moves(base, by)
                 ELSE RunDefine(dest, Data)
    /\ DefinesPtr /\ UNCHANGED real /\ NoAccess

\* ptrtoint, inttoptr and bitcast keep the address.
DoCast ==
    /\ \/ \E op \in Addresses :
             /\ Uses("ptrtoint")
             /\ MayCast(Eval(op))
             /\ PtrToInt(op) /\ DefinesInt
             /\ RunDefine(dest, Eval(op))
       \/ \E op \in Numbers \cup Odd({Other}) :
             /\ Uses("inttoptr")
             /\ IntToPtr(op) /\ DefinesPtr
             /\ RunDefine(dest, Eval(op))
       \/ \E op \in Addresses :
             /\ Uses("bitcast")
             /\ IsSlot(Eval(op)) => "slot_address" \in Habits
             /\ BitCast(op) /\ DefinesPtr
             /\ RunDefine(dest, Eval(op))
    /\ UNCHANGED real /\ NoAccess

DoArith ==
    /\ \E op0 \in Numbers \cup Consts, op1 \in Numbers \cup Consts :
          \/ /\ Uses("add")
             /\ Add(op0, op1)
             /\ \/ IsConst(op1) /\ \E c \in Meanings(op1[2]) : Moves(op0, c)
                \/ ~IsConst(op1) /\ IsConst(op0) /\ \E c \in Meanings(op0[2]) : Moves(op1, c)
                \/ ~IsConst(op1) /\ ~IsConst(op0) /\ RunDefine(dest, Data)
          \/ /\ Uses("sub")
             /\ Sub(op0, op1)
             /\ \/ IsConst(op1) /\ \E c \in Meanings(op1[2]) : Moves(op0, -c)
                \/ ~IsConst(op1) /\ RunDefine(dest, Data)
    /\ DefinesInt /\ UNCHANGED real /\ NoAccess

DoOpaque ==
    /\ Uses("opaque")
    /\ Opaque
    /\ \/ DefinesInt /\ RunDefine(dest, Data)
       \/ /\ DefinesPtr
          /\ \E v \in {Data} \cup (IF "alias" \in Habits THEN {value[n] : n \in Defined} ELSE {}) :
                RunDefine(dest, v)
    /\ UNCHANGED real /\ NoAccess

\* The parameters are pointers.
DoNextFunction ==
    /\ func < program.funcs
    /\ \E params \in {0, 1} : NextFunction(params) /\ ptr_names' = 0..(params - 1)
    /\ RunCall /\ UNCHANGED real /\ NoAccess

DoInterrupt ==
    /\ policy.has_irq_risk \/ "hidden_handler" \in Habits
    /\ phase = "visit"
    /\ \E o \in DOMAIN object \ dead : Interrupt(o)
    /\ UNCHANGED <<analyzerVars, program, ptr_names, real, unproven>>

DoEnd ==
    /\ EndOfModule \/ EnforceHitl
    /\ RunNothing /\ NoResult /\ NoAccess

Done == phase = "done" /\ UNCHANGED vars

Next ==
    \/ DoKmalloc \/ DoKcalloc \/ DoDmaAlloc \/ DoKfree
    \/ DoMemset \/ DoMemcpy \/ DoDmaMap \/ DoIommuMap \/ DoInlineAsm
    \/ DoAlloca \/ DoStore \/ DoLoad \/ DoGep \/ DoCast \/ DoArith \/ DoOpaque
    \/ DoNextFunction \/ DoInterrupt \/ DoEnd \/ Done

Spec == Init /\ [][Next]_vars

-----------------------------------------------------------------------------
(* Properties. *)

PtrVals ==
    {Unknown, Absent} \cup ({"kmalloc", "dma"} \X (1..Len(alloc_sizes)) \X Int)

\* The shapes of the analyzer's maps.  Every id in them is the id of an
\* allocation with a known size: "Missing allocation size metadata" is dead code.
TypeOK ==
    /\ \A n \in Names : ptr_env[n] \in PtrVals /\ alloca_store_map[n] \in PtrVals
    /\ \A n \in Names :
          int_env[n] \in {Unknown, Absent} \cup ({"ptr_offset"} \X (1..Len(alloc_sizes)) \X Int)
    /\ alloca_names \subseteq Names
    /\ freed_allocs \cup dma_allocs_in_func \cup iommu_mapped_in_func \subseteq DOMAIN alloc_sizes
    /\ verdict.result \in {"pass", "unknown", "fail"}
    /\ DOMAIN real = DOMAIN alloc_sizes

\* "No unsafe code passes the gate": when the analysis stands at Pass the code
\* visited so far has made no out-of-bounds access, no use-after-free, no double
\* free and no overflowing kcalloc (unless DMA is to be ignored).
SoundPass == verdict.result = "pass" /\ policy.dma # "ignore" => hazard = {}

\* Fail is not raised against straight-line code without an error (assembly is
\* an error under the trap policy).
FailIsReal ==
    phase = "visit" /\ verdict.result = "fail" =>
        hazard # {} \/ (policy.inline_asm = "trap" /\ verdict.inline_asm_vcs > 0)

\* In the first function of a module, what ptr_env and int_env track for a name is
\* where the name's value really points.
ProvenanceExact ==
    func = 1 => \A n \in Defined :
        /\ Tracked(ptr_env[n]) => value[n] = <<"obj", real[ptr_env[n][2]], ptr_env[n][3]>>
        /\ IsPtrOffset(int_env[n]) => value[n] = <<"obj", real[int_env[n][2]], int_env[n][3]>>

\* "Missing provenance = UNKNOWN", "never silently treated as safe": an access
\* through a pointer of unknown origin keeps the verdict from Pass.
UnprovenNeverPass == unproven => verdict.result # "pass"

Badness(r) == CASE r = "pass" -> 0 [] r = "unknown" -> 1 [] r = "fail" -> 2

\* A verdict never gets better: mark_unknown overwrites nothing but Pass, and
\* neither the check after the loop nor the gate takes a Fail back.
VerdictNeverImproves == [][Badness(verdict'.result) >= Badness(verdict.result)]_vars

\* "Solver is never executed for unapproved VCs in require mode".
NoSolverWithoutApproval ==
    verdict.gate.mode = "require" => \A q \in verdict.solved : IsApproved(q[1], q[2])

\* In require mode a verdict other than Fail means that a human approved every
\* verification condition the analysis raised, those whose answer it ignores
\* (dma_alloc) included.
RequireFailsClosed ==
    phase = "done" /\ verdict.gate.mode = "require" /\ verdict.result # "fail" =>
        \A q \in verdict.gate.asked : IsApproved(q[1], q[2])

\* "Require explicit IOMMU mapping for every DMA allocation": under require-iommu a
\* module that passes has an iommu_map for every dma_alloc_coherent.
IommuPaired ==
    phase # "visit" /\ policy.dma = "require-iommu" /\ verdict.result = "pass" =>
        unpaired = {}
=============================================================================
