------------------------------ MODULE Analyzer ------------------------------
(***************************************************************************)
(* The abstract interpreter of main.rs: analyze() and its helpers.  One    *)
(* action per arm of the match on the instruction, each with the operands  *)
(* of the instruction it visits as its parameters, then the check after    *)
(* the loop and enforce_hitl_policy.                                       *)
(*                                                                         *)
(* Names are numbers, as in unnamed LLVM values: an instruction that has a *)
(* result defines the name `dest`, and the count starts over in the next   *)
(* function, after its parameters.  The code's maps are keyed by name only *)
(* and live as long as the module, so they are not reset there.            *)
(*                                                                         *)
(* An operand is <<"local", name>>, <<"const", value>> or <<"other">>.  A  *)
(* pointer value is <<"kmalloc", id, offset>>, <<"dma", id, offset>>,      *)
(* Unknown, or Absent where the map has no entry; an integer value         *)
(* likewise with "ptr_offset".  Allocation ids count from 1.               *)
(***************************************************************************)
EXTENDS HitlGate, Integers, Sequences

CONSTANTS
    U64Max,             \* largest u64
    SolverMayGiveUp,    \* whether Z3 may answer unknown
    MaxDest             \* bound: names per function

VARIABLES
    ptr_env, int_env,           \* what the analysis knows of each name
    alloca_names,               \* names of stack slots
    alloca_store_map,           \* the pointer last spilled to each slot
    alloc_sizes,                \* sizes of the allocations; the id is the index
    freed_allocs,               \* ids passed to kfree
    dma_allocs_in_func,         \* ids from dma_alloc_coherent
    iommu_mapped_in_func,       \* those of them some iommu_map has followed
    verdict,                    \* result, gate and VC counters, see NewVerdict
    policy,                     \* inline_asm_policy, dma_policy, has_irq_risk
    func, idx, dest,            \* the function, the instruction, its result's name
    phase                       \* "visit", then "analyzed", then "done"

envVars == <<ptr_env, int_env, alloca_names, alloca_store_map>>
heapVars == <<alloc_sizes, freed_allocs, dma_allocs_in_func, iommu_mapped_in_func>>
placeVars == <<func, idx, dest, phase>>
analyzerVars == <<envVars, heapVars, verdict, policy, placeVars>>

Names == 0..MaxDest
Unknown == <<"unknown">>
Absent == <<"absent">>
NoSize == -1                    \* type_size answers None

IsLocal(op) == op[1] = "local"
IsConst(op) == op[1] = "const"
HasLocal(args, k) == k <= Len(args) /\ IsLocal(args[k])
HasConst(args, k) == k <= Len(args) /\ IsConst(args[k])

\* ptrval_alloc_info is Some.
Tracked(pv) == pv[1] \in {"kmalloc", "dma"}

-----------------------------------------------------------------------------
(* Verdicts. *)

\* solved is history: the VCs on which Z3 was run.
NewVerdict(mode) ==
    [result |-> "pass", gate |-> NewGate(mode), solved |-> {},
     inline_asm_vcs |-> 0, dma_vcs |-> 0, irq_race_vcs |-> 0]

mark_unknown(v) == IF v.result = "pass" THEN [v EXCEPT !.result = "unknown"] ELSE v

FailWith(v) == [v EXCEPT !.result = "fail"]

vc_id(kind) == <<func, idx, kind>>
vc_class_id(kind, size) == <<kind, size>>

Ask(v, vc, class) == [v EXCEPT !.gate = should_run_solver(@, vc, class)]

\* Mutant: end.ge instead of end.gt.
SolverAnswersGe(alloc_size, offset, access_size) ==
    {IF offset + access_size >= alloc_size \/ offset < 0 THEN "oob" ELSE "safe"}

\* What Z3 may say of offset < 0 \/ offset + access_size > alloc_size.
SolverAnswers(alloc_size, offset, access_size) ==
    {IF offset + access_size > alloc_size \/ offset < 0 THEN "oob" ELSE "safe"}
        \cup (IF SolverMayGiveUp THEN {"solver_unknown"} ELSE {})

\* Mutant: the gate is not asked.
CheckAccessUngated(v, pv, size, vc, class) ==
    SolverAnswers(alloc_sizes[pv[2]], pv[3], size)

\* What check_access may answer.
check_access(v, pv, size, vc, class) ==
    IF MayRun(v.gate, vc, class)
    THEN SolverAnswers(alloc_sizes[pv[2]], pv[3], size)
    ELSE {"hitl_blocked"}

\* The verdict once check_access has answered.
Judge(v, vc, class, answer) ==
    LET asked == [Ask(v, vc, class) EXCEPT
                     !.solved = @ \cup (IF answer = "hitl_blocked" THEN {} ELSE {<<vc, class>>})]
    IN  CASE answer = "oob"  -> FailWith(asked)
          [] answer = "safe" -> asked
          [] OTHER           -> mark_unknown(asked)

\* The verdicts that may come out of a bounds check.
Checked(v, pv, size, vc, class) ==
    {Judge(v, vc, class, answer) : answer \in check_access(v, pv, size, vc, class)}

\* The VC for an access an interrupt handler may race with: UNKNOWN whether or
\* not the gate lets it through.
IrqRace(v, pv, kind) ==
    IF policy.has_irq_risk
    THEN mark_unknown([Ask(v, vc_id(kind), <<"irq_race", pv[2]>>)
                          EXCEPT !.irq_race_vcs = @ + 1])
    ELSE v

\* A load or store through the pointer pv.
Deref(v, pv, size, kind) ==
    IF ~Tracked(pv) THEN {v}
    ELSE IF pv[2] \in freed_allocs THEN {FailWith(v)}
    ELSE IF size = NoSize THEN {mark_unknown(v)}
    ELSE {IF w.result = "fail" THEN w ELSE IrqRace(w, pv, IF kind = "store" THEN "irq_race_store" ELSE "irq_race_load") :
             w \in Checked(v, pv, size, vc_id(kind), vc_class_id(kind, size))}

\* memset, or one side of memcpy, on operand op: only kmalloc pointers are
\* looked at.
Transfer(v, op, len, kind) ==
    IF ~(IsLocal(op) /\ ptr_env[op[2]][1] = "kmalloc") THEN {v}
    ELSE LET pv == ptr_env[op[2]]
         IN  IF pv[2] \in freed_allocs THEN {FailWith(v)}
             ELSE Checked(v, pv, len, vc_id(kind), vc_class_id(kind, len))

-----------------------------------------------------------------------------
(* The module and the place in it. *)

AnalyzerInit(mode, options) ==
    /\ ptr_env = [n \in Names |-> Absent]
    /\ int_env = [n \in Names |-> Absent]
    /\ alloca_names = {}
    /\ alloca_store_map = [n \in Names |-> Absent]
    /\ alloc_sizes = <<>>
    /\ freed_allocs = {}
    /\ dma_allocs_in_func = {}
    /\ iommu_mapped_in_func = {}
    /\ verdict = NewVerdict(mode)
    /\ policy = options
    /\ func = 1 /\ idx = 0 /\ dest = 1
    /\ phase = "visit"

\* The visit of one instruction.  Every arm that sets Fail also breaks, and both
\* outer loops break on Fail, so after a Fail no instruction is visited.
Visit ==
    /\ phase = "visit"
    /\ verdict.result # "fail"
    /\ idx' = idx + 1
    /\ UNCHANGED <<policy, func, phase>>

\* The visit of an instruction with a result, and of one without.
VisitDef ==
    /\ Visit
    /\ dest <= MaxDest
    /\ dest' = dest + 1

VisitVoid == Visit /\ UNCHANGED dest

SetPtr(pv) == ptr_env' = [ptr_env EXCEPT ![dest] = pv]
SetInt(iv) == int_env' = [int_env EXCEPT ![dest] = iv]

\* The instruction changes nothing but the verdict.
OnlyVerdict == UNCHANGED <<envVars, heapVars>>

\* The next function, whose first names are its parameters.
NextFunction(params) ==
    /\ phase = "visit"
    /\ verdict.result # "fail"
    /\ func' = func + 1
    /\ idx' = 0
    /\ dest' = params
    /\ UNCHANGED <<envVars, heapVars, verdict, policy, phase>>

-----------------------------------------------------------------------------
(* Allocation calls. *)

\* Mutant: alloc_counter is incremented before the id is taken.
AllocateNextId(kind, size) ==
    /\ alloc_sizes' = Append(alloc_sizes, size)
    /\ SetPtr(<<kind, Len(alloc_sizes) + 2, 0>>)
    /\ UNCHANGED <<int_env, alloca_names, alloca_store_map, freed_allocs,
                   iommu_mapped_in_func>>

Allocate(kind, size) ==
    /\ alloc_sizes' = Append(alloc_sizes, size)
    /\ SetPtr(<<kind, Len(alloc_sizes) + 1, 0>>)
    /\ UNCHANGED <<int_env, alloca_names, alloca_store_map, freed_allocs,
                   iommu_mapped_in_func>>

\* kmalloc(size) and kzalloc(size)
Kmalloc(args) ==
    /\ VisitDef
    /\ \/ /\ HasConst(args, 1)
          /\ Allocate("kmalloc", args[1][2])
          /\ UNCHANGED <<dma_allocs_in_func, verdict>>
       \/ /\ ~HasConst(args, 1)
          /\ verdict' = mark_unknown(verdict)
          /\ OnlyVerdict

\* kcalloc(nmemb, size)
Kcalloc(args) ==
    /\ VisitDef
    /\ \/ /\ ~(HasConst(args, 1) /\ HasConst(args, 2))
          /\ verdict' = mark_unknown(verdict)
          /\ OnlyVerdict
       \/ /\ HasConst(args, 1) /\ HasConst(args, 2)
          /\ args[1][2] * args[2][2] > U64Max
          /\ verdict' = FailWith(verdict)
          /\ OnlyVerdict
       \/ /\ HasConst(args, 1) /\ HasConst(args, 2)
          /\ args[1][2] * args[2][2] <= U64Max
          /\ Allocate("kmalloc", args[1][2] * args[2][2])
          /\ UNCHANGED <<dma_allocs_in_func, verdict>>

\* dma_alloc_coherent(dev, size, ...): the gate is asked and its answer unused.
DmaAllocCoherent(args) ==
    /\ VisitDef
    /\ \/ /\ policy.dma = "ignore"
          /\ UNCHANGED verdict
          /\ OnlyVerdict
       \/ /\ policy.dma # "ignore"
          /\ ~HasConst(args, 2)
          /\ verdict' = mark_unknown(verdict)
          /\ OnlyVerdict
       \/ /\ policy.dma # "ignore"
          /\ HasConst(args, 2)
          /\ Allocate("dma", args[2][2])
          /\ dma_allocs_in_func' = dma_allocs_in_func \cup {Len(alloc_sizes) + 1}
          /\ verdict' = [Ask(verdict, vc_id("dma_alloc"), vc_class_id("dma_alloc", args[2][2]))
                            EXCEPT !.dma_vcs = @ + 1]

\* kfree(ptr): only a kmalloc pointer changes anything.
Kfree(args) ==
    /\ VisitVoid
    /\ UNCHANGED <<envVars, alloc_sizes, dma_allocs_in_func, iommu_mapped_in_func>>
    /\ IF ~HasLocal(args, 1)
       THEN verdict' = mark_unknown(verdict) /\ UNCHANGED freed_allocs
       ELSE LET pv == ptr_env[args[1][2]]
            IN  /\ freed_allocs' = freed_allocs \cup (IF pv[1] = "kmalloc" THEN {pv[2]} ELSE {})
                /\ verdict' = IF pv[1] = "kmalloc" /\ pv[2] \in freed_allocs
                              THEN FailWith(verdict) ELSE verdict

-----------------------------------------------------------------------------
(* Calls that access memory. *)

\* memset(dest, c, len)
Memset(args) ==
    /\ VisitVoid
    /\ OnlyVerdict
    /\ verdict' \in
          IF Len(args) = 0 THEN {verdict}
          ELSE IF Len(args) < 3 THEN {mark_unknown(verdict)}
          ELSE IF ~IsLocal(args[1]) THEN {verdict}
          ELSE IF ~IsConst(args[3]) THEN {mark_unknown(verdict)}
          ELSE Transfer(verdict, args[1], args[3][2], "memset")

\* memcpy(dest, src, len): the source is looked at unless the destination fails.
Memcpy(args) ==
    /\ VisitVoid
    /\ OnlyVerdict
    /\ verdict' \in
          IF Len(args) = 0 THEN {verdict}
          ELSE IF Len(args) < 3 \/ ~IsConst(args[3]) THEN {mark_unknown(verdict)}
          ELSE UNION {IF v.result = "fail" THEN {v}
                      ELSE Transfer(v, args[2], args[3][2], "memcpy_source") :
                         v \in Transfer(verdict, args[1], args[3][2], "memcpy_destination")}

\* dma_map_single(dev, ptr, size, direction)
DmaMapSingle(args) ==
    /\ VisitVoid
    /\ OnlyVerdict
    /\ verdict' \in
          IF policy.dma = "ignore" THEN {verdict}
          ELSE IF Len(args) < 3 \/ ~IsConst(args[3]) THEN {mark_unknown(verdict)}
          ELSE IF ~(IsLocal(args[2]) /\ Tracked(ptr_env[args[2][2]])) THEN {verdict}
          ELSE LET pv == ptr_env[args[2][2]]
                   vc == vc_id("dma_map")
                   class == vc_class_id("dma_bounds", args[3][2])
               IN  {[Judge(verdict, vc, class, answer) EXCEPT
                        !.dma_vcs = @ + (IF answer = "safe" THEN 0 ELSE 1)] :
                       answer \in check_access(verdict, pv, args[3][2], vc, class)}

\* iommu_map marks every DMA allocation made so far.
IommuMap ==
    /\ VisitVoid
    /\ iommu_mapped_in_func' = iommu_mapped_in_func \cup dma_allocs_in_func
    /\ UNCHANGED <<envVars, alloc_sizes, freed_allocs, dma_allocs_in_func, verdict>>

\* The text of inline assembly: nothing or one of SAFE_ASM_PATTERNS, one of them with
\* more code after it, or anything else.
AsmTexts == {"pattern", "prefix", "other"}
is_safe_inline_asm(text) == text \in {"pattern", "prefix"}

\* A call of inline assembly.
InlineAsm(text) ==
    /\ VisitVoid
    /\ OnlyVerdict
    /\ verdict' =
          IF policy.inline_asm = "trap"
          THEN [FailWith(verdict) EXCEPT !.inline_asm_vcs = @ + 1]
          ELSE IF is_safe_inline_asm(text) THEN verdict
          ELSE mark_unknown([Ask(verdict, vc_id("inline_asm"), <<"inline_asm", "opaque">>)
                                EXCEPT !.inline_asm_vcs = @ + 1])

-----------------------------------------------------------------------------
(* Stack slots, loads and stores. *)

Alloca ==
    /\ VisitDef
    /\ alloca_names' = alloca_names \cup {dest}
    /\ UNCHANGED <<ptr_env, int_env, alloca_store_map, heapVars, verdict>>

\* A slot remembers a stored pointer that ptr_env knows, and keeps it when a
\* value unknown to ptr_env is stored over it.
Store(addr, value, size) ==
    /\ VisitVoid
    /\ alloca_store_map' =
          IF /\ IsLocal(addr) /\ addr[2] \in alloca_names
             /\ IsLocal(value) /\ ptr_env[value[2]] # Absent
          THEN [alloca_store_map EXCEPT ![addr[2]] = ptr_env[value[2]]]
          ELSE alloca_store_map
    /\ verdict' \in IF IsLocal(addr)
                    THEN Deref(verdict, ptr_env[addr[2]], size, "store")
                    ELSE {verdict}
    /\ UNCHANGED <<ptr_env, int_env, alloca_names, heapVars>>

\* Mutant: the spilled pointer is not recovered.
LoadForgets(addr, size) ==
    /\ VisitDef
    /\ verdict' \in IF IsLocal(addr)
                    THEN Deref(verdict, ptr_env[addr[2]], size, "load")
                    ELSE {verdict}
    /\ UNCHANGED <<envVars, heapVars>>

\* A load from a slot gets back what the slot remembers.
Load(addr, size) ==
    /\ VisitDef
    /\ IF /\ IsLocal(addr) /\ addr[2] \in alloca_names
          /\ alloca_store_map[addr[2]] # Absent
       THEN SetPtr(alloca_store_map[addr[2]])
       ELSE UNCHANGED ptr_env
    /\ verdict' \in IF IsLocal(addr)
                    THEN Deref(verdict, ptr_env[addr[2]], size, "load")
                    ELSE {verdict}
    /\ UNCHANGED <<int_env, alloca_names, alloca_store_map, heapVars>>

-----------------------------------------------------------------------------
(* Pointer arithmetic. *)

saturating_mul(a, b) == IF a * b > U64Max THEN U64Max ELSE a * b

\* infer_gep_offset is Some when every index is a constant: the first counts in
\* units of 8, every other in units of 4, whatever the types.
GepResolves(indices) == \A k \in DOMAIN indices : IsConst(indices[k])

infer_gep_offset(indices, base_offset) ==
    LET sum[k \in 0..Len(indices)] ==
            IF k = 0 THEN base_offset
            ELSE sum[k - 1] + saturating_mul(indices[k][2], IF k = 1 THEN 8 ELSE 4)
    IN  sum[Len(indices)]

\* The base is looked up in ptr_env, then among the spilled pointers.
GepBase(n) == IF ptr_env[n] # Absent THEN ptr_env[n] ELSE alloca_store_map[n]

GetElementPtr(base, indices) ==
    LET pv == IF IsLocal(base) THEN GepBase(base[2]) ELSE Unknown
    IN  /\ VisitDef
        /\ SetPtr(IF Tracked(pv) /\ GepResolves(indices)
                  THEN <<pv[1], pv[2], infer_gep_offset(indices, pv[3])>>
                  ELSE Unknown)
        /\ verdict' = IF ~IsLocal(base) \/ (Tracked(pv) /\ ~GepResolves(indices))
                      THEN mark_unknown(verdict) ELSE verdict
        /\ UNCHANGED <<int_env, alloca_names, alloca_store_map, heapVars>>

PtrToInt(op) ==
    /\ VisitDef
    /\ SetInt(IF IsLocal(op) /\ ptr_env[op[2]][1] = "kmalloc"
              THEN <<"ptr_offset", ptr_env[op[2]][2], ptr_env[op[2]][3]>>
              ELSE Unknown)
    /\ verdict' = IF IsLocal(op) THEN verdict ELSE mark_unknown(verdict)
    /\ UNCHANGED <<ptr_env, alloca_names, alloca_store_map, heapVars>>

\* Mutant: the pointer starts at the allocation again.
IntToPtrRestarts(op) ==
    /\ VisitDef
    /\ SetPtr(IF IsLocal(op) /\ int_env[op[2]][1] = "ptr_offset"
              THEN <<"kmalloc", int_env[op[2]][2], 0>>
              ELSE Unknown)
    /\ verdict' = IF IsLocal(op) THEN verdict ELSE mark_unknown(verdict)
    /\ UNCHANGED <<int_env, alloca_names, alloca_store_map, heapVars>>

IntToPtr(op) ==
    /\ VisitDef
    /\ SetPtr(IF IsLocal(op) /\ int_env[op[2]][1] = "ptr_offset"
              THEN <<"kmalloc", int_env[op[2]][2], int_env[op[2]][3]>>
              ELSE Unknown)
    /\ verdict' = IF IsLocal(op) THEN verdict ELSE mark_unknown(verdict)
    /\ UNCHANGED <<int_env, alloca_names, alloca_store_map, heapVars>>

IntOf(op) == IF IsLocal(op) THEN int_env[op[2]] ELSE Absent
IsPtrOffset(iv) == iv[1] = "ptr_offset"

\* The result of an add or sub: iv when the pattern is supported, Unknown when
\* it is not but an operand has an entry in int_env, no entry otherwise.
Arith(supported, iv, tracked) ==
    /\ VisitDef
    /\ IF supported THEN SetInt(iv)
       ELSE IF tracked THEN SetInt(Unknown)
       ELSE UNCHANGED int_env
    /\ UNCHANGED <<ptr_env, alloca_names, alloca_store_map, heapVars>>

Add(op0, op1) ==
    LET lhs == IntOf(op0)
        rhs == IntOf(op1)
        onLeft == IsPtrOffset(lhs) /\ IsConst(op1)
        onRight == ~IsPtrOffset(lhs) /\ IsPtrOffset(rhs) /\ IsConst(op0)
        tracked == lhs # Absent \/ rhs # Absent
    IN  /\ Arith(onLeft \/ onRight,
                 IF onLeft THEN <<"ptr_offset", lhs[2], lhs[3] + op1[2]>>
                           ELSE <<"ptr_offset", rhs[2], rhs[3] + op0[2]>>,
                 tracked)
        /\ verdict' = IF tracked /\ ~onLeft /\ ~onRight THEN mark_unknown(verdict) ELSE verdict

Sub(op0, op1) ==
    LET lhs == IntOf(op0)
        rhs == IntOf(op1)
        onLeft == IsPtrOffset(lhs) /\ IsConst(op1)
        tracked == lhs # Absent \/ rhs # Absent
    IN  /\ Arith(onLeft, <<"ptr_offset", lhs[2], lhs[3] - op1[2]>>, tracked)
        /\ verdict' = IF (tracked /\ ~onLeft) \/ rhs # Absent
                      THEN mark_unknown(verdict) ELSE verdict

BitCast(op) ==
    /\ VisitDef
    /\ SetPtr(IF IsLocal(op) /\ ptr_env[op[2]] # Absent THEN ptr_env[op[2]] ELSE Unknown)
    /\ verdict' = IF IsLocal(op) THEN verdict ELSE mark_unknown(verdict)
    /\ UNCHANGED <<int_env, alloca_names, alloca_store_map, heapVars>>

\* Every other instruction, and every call of another function.
Opaque ==
    /\ VisitDef
    /\ UNCHANGED <<envVars, heapVars, verdict>>

-----------------------------------------------------------------------------
(* After the loop. *)

EndOfModule ==
    /\ phase = "visit"
    /\ phase' = "analyzed"
    /\ verdict' = IF /\ policy.dma = "require-iommu"
                     /\ ~(dma_allocs_in_func \subseteq iommu_mapped_in_func)
                  THEN FailWith(verdict) ELSE verdict
    /\ UNCHANGED <<envVars, heapVars, policy, func, idx, dest>>

EnforceHitl ==
    /\ phase = "analyzed"
    /\ phase' = "done"
    /\ verdict' = [verdict EXCEPT !.result = enforce_hitl_policy(@, verdict.gate)]
    /\ UNCHANGED <<envVars, heapVars, policy, func, idx, dest>>
=============================================================================
