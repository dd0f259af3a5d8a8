------------------------ MODULE AnalyzerSoundProofs -------------------------
(***************************************************************************)
(* Plain code, the other instructions: stores, calls, allocations,         *)
(* interrupts and the end of the module; then the theorems that a Pass is  *)
(* sound, a Fail is real and what is tracked is exact.                     *)
(***************************************************************************)
EXTENDS AnalyzerExactProofs

\* A store.
LEMMA StoreStep ==
    ASSUME PlainCode, TypeInv, SoundInv, DoStore
    PROVE  Step
<1> PICK addr \in Addresses, op \in Locals \cup {Other}, size \in AccessSizes :
       /\ MayStore(Eval(addr), op) /\ Store(addr, op, size)
       /\ (\E bytes \in TrueSizes(size) : RunStore(Eval(addr), Eval(op), bytes)) /\ NoResult
  BY Zenon DEF DoStore
<1> PICK bytes \in TrueSizes(size) : RunStore(Eval(addr), Eval(op), bytes)
  BY Zenon
<1> DEFINE a == Eval(addr)
           n == addr[2]
           v == Eval(op)
           known == IsLocal(op) /\ ptr_env[op[2]] # Absent
           keeps == IsLocal(addr) /\ n \in alloca_names /\ known
<1>1. /\ Visit /\ UNCHANGED <<ptr_env, int_env, alloca_names, ptr_names, real, policy, dest>>
      /\ UNCHANGED <<alloc_sizes, freed_allocs, dma_allocs_in_func>>
      /\ UNCHANGED <<value, object, dead, dma_objects>>
      /\ hazard' = hazard \cup Errors(a, bytes)
      /\ verdict' \in IF IsLocal(addr) THEN Deref(verdict, ptr_env[addr[2]], size, "store") ELSE {verdict}
  BY Zenon DEF Store, RunStore, VisitVoid, Visit, NoResult, heapVars
<1>2. /\ a \in Values /\ (IsLocal(addr) => n \in Names \cap Defined /\ a = value[n])
      /\ IsSlot(a) => IsLocal(addr) /\ n \in Names \cap alloca_names /\ a[2] = n /\ a[3] = 0
  BY PointerOperand, SlotOperand
<1>3. /\ IsLocal(op) => op[2] \in Names \cap Defined /\ v = value[op[2]]
      /\ ~IsLocal(op) => v = Data
  BY OperandFacts DEF Eval, TypeInv, IsLocal
<1>4. Data \in Values /\ ~IsSlot(Data) /\ ~IsObj(Data)
  BY DEF Values, IsSlot, IsObj, Data
<1>5. v \in Values /\ ~IsSlot(v)
  BY <1>3, <1>4 DEF MayStore, PlainCode, SoundInv, MachineShape
<1>6. slot' = IF IsSlot(a) THEN [slot EXCEPT ![n] = v] ELSE slot
  BY <1>2, Zenon DEF RunStore
<1>7. alloca_store_map' = IF keeps THEN [alloca_store_map EXCEPT ![n] = ptr_env[op[2]]] ELSE alloca_store_map
  BY Zenon DEF Store
<1>8. slot \in [Names -> Values] /\ alloca_store_map \in [Names -> PtrVals] /\ ptr_env \in [Names -> PtrVals]
  BY DEF SoundInv, MachineShape, TypeInv, EnvShape
<1>9. Values' = Values /\ Defined' = Defined
  BY <1>1 DEF Values, Defined
<1>10. /\ Passing' => Passing /\ Errors(a, bytes) = {}
       /\ ExactInv /\ verdict'.result = "fail" => Errors(a, bytes) # {}
  BY <1>1, DerefFacts, Zenon
<1> HIDE DEF a, v
<1>11. /\ \A m \in Names : slot'[m] = IF IsSlot(a) /\ m = n THEN v ELSE slot[m]
       /\ \A m \in Names : alloca_store_map'[m] = IF keeps /\ m = n THEN ptr_env[op[2]] ELSE alloca_store_map[m]
  BY <1>6, <1>7, <1>8
<1>12. MachineShape'
  <2>1. slot' \in [Names -> Values]
    BY <1>2, <1>5, <1>6, <1>8
  <2>2. \A m \in Names : ~IsSlot(slot'[m]) /\ (IsObj(slot'[m]) => m \in Defined /\ IsSlot(value[m]))
    BY <1>2, <1>5, <1>11 DEF SoundInv, MachineShape
  <2>3. \A c \in DOMAIN cell' : cell'[c] = Data
    <3>1. IsObj(a) => v = Data
      BY DEF MayStore, PlainCode, a, v
    <3>2. cell' = IF IsObj(a) THEN [c \in DOMAIN cell \cup {a} |-> IF c = a THEN v ELSE cell[c]] ELSE cell
      BY Zenon DEF RunStore, a, v
    <3> QED  BY <3>1, <3>2 DEF SoundInv, MachineShape
  <2> QED  BY <1>1, <1>9, <2>1, <2>2, <2>3 DEF SoundInv, MachineShape
<1>13. KindInv'
  BY <1>1, <1>3, <1>11, Zenon DEF SoundInv, KindInv
<1>14. PassInv'
  <2> SUFFICES ASSUME Passing' PROVE PassInv'
    BY Zenon DEF PassInv, Passing
  <2>1. Passing /\ hazard' = {}
    BY <1>1, <1>10, Zenon DEF SoundInv, PassInv, Passing
  <2>2. \A m \in Names :
           IsObj(slot'[m]) => Tracked(alloca_store_map'[m]) /\ Exact(alloca_store_map'[m], slot'[m])
    <3> SUFFICES ASSUME NEW m \in Names, IsObj(slot'[m])
                 PROVE  Tracked(alloca_store_map'[m]) /\ Exact(alloca_store_map'[m], slot'[m])
      BY Zenon
    <3>1. CASE IsSlot(a) /\ m = n
      <4>1. IsObj(v) /\ slot'[m] = v
        BY <1>11, <3>1
      <4>2. IsLocal(op) /\ op[2] \in Names \cap Defined /\ v = value[op[2]]
        BY <1>3, <1>4, <4>1
      <4>3. op[2] \in ptr_names
        BY <3>1, <4>1 DEF MayStore, PlainCode, a, v
      <4>4. Tracked(ptr_env[op[2]]) /\ Exact(ptr_env[op[2]], v)
        BY <2>1, <4>1, <4>2, <4>3 DEF SoundInv, PassInv, Passing
      <4>5. keeps
        BY <1>2, <1>8, <3>1, <4>2, <4>4, EntryFacts, Zenon
      <4>6. alloca_store_map'[m] = ptr_env[op[2]]
        BY <1>11, <3>1, <4>5, Zenon
      <4> QED  BY <1>1, <4>1, <4>4, <4>6 DEF Exact
    <3>2. CASE ~(IsSlot(a) /\ m = n)
      <4>1. slot'[m] = slot[m] /\ IsSlot(value[m])
        BY <1>11, <3>2, Zenon DEF SoundInv, MachineShape
      <4>2. ~(keeps /\ m = n)
        BY <1>2, <3>2, <4>1, Zenon
      <4>3. Tracked(alloca_store_map[m]) /\ Exact(alloca_store_map[m], slot[m])
        BY <2>1, <4>1 DEF SoundInv, PassInv, Passing
      <4>4. alloca_store_map'[m] = alloca_store_map[m]
        BY <1>11, <4>2
      <4> QED  BY <1>1, <4>1, <4>3, <4>4, Zenon DEF Exact
    <3> QED  BY <3>1, <3>2
  <2> QED  BY <1>1, <1>9, <2>1, <2>2, ZenonT(30) DEF SoundInv, PassInv, Passing, Exact
<1>15. ASSUME ExactInv
       PROVE  ExactInv' /\ FailReal'
  <2>1. ASSUME NEW m \in Names, Tracked(alloca_store_map'[m])
        PROVE  m \in alloca_names /\ Exact(alloca_store_map'[m], slot'[m])
    <3>1. CASE keeps /\ m = n
      <4>1. alloca_store_map'[m] = ptr_env[op[2]]
        BY <1>11, <3>1, Zenon
      <4>2. IsSlot(a)
        BY <1>2, <1>15, <3>1, Zenon DEF ExactInv
      <4>3. slot'[m] = value[op[2]] /\ op[2] \in Names
        BY <1>3, <1>11, <3>1, <4>2, Zenon
      <4>4. Exact(ptr_env[op[2]], value[op[2]])
        BY <1>15, <2>1, <4>1, <4>3, Zenon DEF ExactInv
      <4> QED  BY <1>1, <3>1, <4>1, <4>3, <4>4, Zenon DEF Exact
    <3>2. CASE ~(keeps /\ m = n)
      <4>1. alloca_store_map'[m] = alloca_store_map[m]
        BY <1>11, <3>2
      <4>2. m \in alloca_names /\ Exact(alloca_store_map[m], slot[m])
        BY <1>15, <2>1, <4>1, Zenon DEF ExactInv
      <4>3. ~(IsSlot(a) /\ m = n)
        <5> SUFFICES ASSUME IsSlot(a), m = n PROVE FALSE
          OBVIOUS
        <5>1. ~known /\ a[2] = m
          BY <1>2, <3>2, Zenon
        <5>2. ~IsObj(slot[m])
          BY <5>1, Zenon DEF MayStore, PlainCode, a
        <5> QED  BY <4>2, <5>2 DEF Exact, IsObj
      <4> QED  BY <1>1, <1>11, <4>1, <4>2, <4>3, Zenon DEF Exact
    <3> QED  BY <3>1, <3>2, Zenon
  <2>2. ExactInv'
    BY <1>1, <1>9, <1>15, <2>1, Zenon DEF ExactInv, Exact
  <2>3. FailReal'
    BY <1>1, <1>10, <1>15, Zenon DEF FailReal
  <2> QED  BY <2>2, <2>3
<1> QED  BY <1>12, <1>13, <1>14, <1>15 DEF Step, SoundInv

\* Steps that leave the names, the slots and the entries alone.
Quiet ==
    /\ UNCHANGED <<value, slot, cell, object, dma_objects, ptr_names, real, policy, dest>>
    /\ UNCHANGED <<ptr_env, int_env, alloca_names, alloca_store_map, alloc_sizes, dma_allocs_in_func>>
    /\ dead \subseteq dead' /\ dead' \subseteq 1..Len(object)

\* Quiet steps keep SoundInv if objects are freed in step with freed_allocs, and ExactInv.
LEMMA QuietStep ==
    ASSUME TypeInv, SoundInv, Quiet,
           Passing' => /\ Passing /\ hazard' = {}
                       /\ ~policy.has_irq_risk => dead' \subseteq {real[id] : id \in freed_allocs'}
    PROVE  /\ SoundInv'
           /\ ExactInv /\ (\A id \in freed_allocs' : real[id] \in dead') => ExactInv'
<1>1. Values' = Values /\ Defined' = Defined
  BY DEF Values, Defined, Quiet
<1>2. MachineShape'
  BY <1>1, Zenon DEF SoundInv, MachineShape, Quiet
<1>3. KindInv'
  BY DEF SoundInv, KindInv, Quiet
<1>4. PassInv'
  <2> SUFFICES ASSUME Passing' PROVE PassInv'
    BY Zenon DEF PassInv, Passing
  <2> QED  BY <1>1, Zenon DEF SoundInv, PassInv, Passing, Quiet, Exact
<1>5. ExactInv /\ (\A id \in freed_allocs' : real[id] \in dead') => ExactInv'
  BY <1>1 DEF ExactInv, Exact, Quiet
<1> QED  BY <1>2, <1>3, <1>4, <1>5 DEF SoundInv

\* Calls that access memory, and change nothing but the verdict.
LEMMA AccessStep ==
    ASSUME TypeInv, SoundInv, Visit, OnlyVerdict, UNCHANGED <<dest, ptr_names, real>>,
           UNCHANGED <<value, slot, cell, object, dead, dma_objects>>,
           NEW errors, hazard' = hazard \cup errors,
           Passing' => Passing /\ errors = {},
           ExactInv /\ verdict'.result = "fail" => errors # {}
    PROVE  Step
<1>1. Quiet /\ freed_allocs' = freed_allocs
  BY Zenon DEF Quiet, OnlyVerdict, envVars, heapVars, Visit, SoundInv, MachineShape
<1>2. Passing' => /\ Passing /\ hazard' = {}
                  /\ ~policy.has_irq_risk => dead' \subseteq {real[id] : id \in freed_allocs'}
  BY <1>1, Zenon DEF SoundInv, PassInv, Passing
<1>3. SoundInv' /\ (ExactInv => ExactInv')
  BY <1>1, <1>2, QuietStep DEF ExactInv
<1>4. ExactInv => FailReal'
  BY Zenon DEF FailReal
<1> QED  BY <1>3, <1>4 DEF Step

\* memset, or one side of memcpy.
LEMMA TransferFacts ==
    ASSUME PlainCode, TypeInv, SoundInv, NEW op \in Addresses, MayPass(Eval(op)),
           NEW v, IsVerdict(v), GateInv(v), v.result # "fail",
           NEW len, NEW kind, NEW w \in Transfer(v, op, len, kind)
    PROVE  /\ Leads(v, w)
           /\ Passing /\ w.result = "pass" => Errors(Eval(op), len) = {}
           /\ ExactInv /\ w.result = "fail" => Errors(Eval(op), len) # {}
<1> DEFINE pv == ptr_env[op[2]]
           a == Eval(op)
           heap == IsLocal(op) /\ pv[1] = "kmalloc"
<1>1. /\ Leads(v, w)
      /\ w.result = "pass" /\ heap => pv[2] \notin freed_allocs /\ ~OutOfBounds(pv, len)
      /\ w.result = "fail" => heap /\ (pv[2] \in freed_allocs \/ OutOfBounds(pv, len))
  BY TransferLeads, Zenon
<1>2. HeapShape /\ RealInv
  BY Zenon DEF TypeInv
<1>3. IsLocal(op) => pv \in PtrVals /\ op[2] \in Names /\ a = value[op[2]]
  BY PointerOperand
<1>4. ASSUME Passing, w.result = "pass"
      PROVE  Errors(a, len) = {}
  <2>1. CASE ~IsObj(a)
    BY <2>1, Zenon DEF Errors
  <2>2. CASE IsObj(a)
    <3>1. IsLocal(op) /\ Tracked(pv) /\ Exact(pv, a)
      BY <1>4, <2>2, PointerOperand, Zenon
    <3>2. heap
      BY <1>3, <2>2, <3>1, DmaEntry DEF MayPass, PlainCode, Tracked
    <3>3. pv[2] \in 1..Len(alloc_sizes) /\ pv[3] \in Int
      BY <1>3, <3>1, EntryFacts, Zenon
    <3>4. a[2] \notin dead
      BY <1>1, <1>2, <1>4, <2>2, <3>1, <3>2, <3>3, ExactFacts, Zenon DEF MayPass, PlainCode
    <3> HIDE DEF pv, a
    <3> QED  BY <1>1, <1>2, <1>4, <3>1, <3>2, <3>3, <3>4, ExactErrors, Zenon
  <2> QED  BY <2>1, <2>2
<1>5. ASSUME ExactInv, w.result = "fail"
      PROVE  Errors(a, len) # {}
  <2>1. heap /\ (pv[2] \in freed_allocs \/ OutOfBounds(pv, len))
    BY <1>1, <1>5, Zenon
  <2>2. Tracked(pv)
    BY <2>1, Zenon DEF Tracked
  <2>3. Exact(pv, a) /\ pv[2] \in 1..Len(alloc_sizes) /\ pv[3] \in Int
    BY <1>3, <1>5, <2>1, <2>2, EntryFacts, Zenon DEF ExactInv
  <2>4. pv[2] \in freed_allocs => a[2] \in dead
    <3>1. a[2] = real[pv[2]]
      BY <1>2, <2>3, ExactFacts, Zenon
    <3>2. \A id \in freed_allocs : real[id] \in dead
      BY <1>5, Zenon DEF ExactInv
    <3> QED  BY <3>1, <3>2, Zenon
  <2> HIDE DEF pv, a
  <2> QED  BY <1>2, <2>1, <2>3, <2>4, ExactErrors, Zenon
<1> QED  BY <1>1, <1>4, <1>5

\* kfree.
LEMMA KfreeStep ==
    ASSUME PlainCode, TypeInv, SoundInv, DoKfree
    PROVE  Step
<1>0. PICK args :
       /\ args \in {<<op>> : op \in Addresses} \cup Odd({<<>>})
       /\ \A k \in DOMAIN args : MayPass(Eval(args[k]))
       /\ Kfree(args)
       /\ RunFree(IF args = <<>> THEN Data ELSE Eval(args[1]))
  BY Zenon DEF DoKfree
<1>1. /\ Visit /\ UNCHANGED <<ptr_env, int_env, alloca_names, alloca_store_map>>
      /\ UNCHANGED <<alloc_sizes, dma_allocs_in_func, dest, policy>>
      /\ UNCHANGED <<value, slot, cell, object, dma_objects, ptr_names, real>>
  BY <1>0, Zenon DEF DoKfree, Kfree, VisitVoid, Visit, RunFree, NoResult, envVars
<1>2. HeapShape /\ RealInv /\ dead \subseteq 1..Len(object) /\ verdict.result \in {"pass", "unknown"}
  BY <1>1 DEF TypeInv, SoundInv, MachineShape, IsVerdict, Visit
<1>3. CASE ~HasLocal(args, 1)
  <2>1. args = <<>> \/ (\E op \in Addresses : args = <<op>> /\ ~IsLocal(op))
    BY <1>0, <1>3, SMTT(30) DEF HasLocal, Odd
  <2>2. (IF args = <<>> THEN Data ELSE Eval(args[1])) = Data
    BY <2>1, PointerOperand
  <2>3. RunFree(Data)
    BY <1>0, <2>2, Zenon
  <2>4. dead' = dead /\ hazard' = hazard /\ freed_allocs' = freed_allocs /\ verdict' = mark_unknown(verdict)
    BY <1>0, <1>3, <2>3 DEF RunFree, Kfree, IsObj, Data
  <2>5. Quiet
    BY <1>1, <1>2, <2>4 DEF Quiet
  <2>6. ~Passing' /\ FailReal'
    BY <1>1, <2>4, Unfailing, SMTT(30) DEF Passing, mark_unknown, Visit
  <2>7. ExactInv => \A id \in freed_allocs' : real[id] \in dead'
    BY <2>4, Zenon DEF ExactInv
  <2> QED  BY <2>5, <2>6, <2>7, QuietStep DEF Step
<1>4. CASE HasLocal(args, 1)
  <2>1. PICK op \in Addresses : args = <<op>> /\ IsLocal(op)
    BY <1>0, <1>4 DEF HasLocal, Odd
  <2> DEFINE a == Eval(op)
             pv == ptr_env[op[2]]
  <2>2. 1 \in DOMAIN args /\ args[1] = op /\ args # <<>>
    BY <2>1
  <2>3. /\ MayPass(a) /\ RunFree(a)
        /\ freed_allocs' = freed_allocs \cup (IF pv[1] = "kmalloc" THEN {pv[2]} ELSE {})
        /\ verdict' = IF pv[1] = "kmalloc" /\ pv[2] \in freed_allocs THEN FailWith(verdict) ELSE verdict
    BY <1>0, <1>4, <2>2, Zenon DEF Kfree
  <2>4. a \in Values /\ pv \in PtrVals /\ op[2] \in Names /\ a = value[op[2]]
    BY <2>1, PointerOperand, Zenon
  <2>5. /\ dead' = dead \cup (IF IsObj(a) THEN {a[2]} ELSE {})
        /\ hazard' = hazard \cup (IF IsObj(a) /\ a[2] \in dead THEN {"double_free"} ELSE {})
    BY <2>3, Zenon DEF RunFree
  <2>6. IsObj(a) => a[2] \in 1..Len(object)
    BY <1>2, <2>4, ValueFacts
  <2>7. Quiet
    BY <1>1, <1>2, <2>5, <2>6, Zenon DEF Quiet
  <2>8. FailWith(verdict).result = "fail"
    BY DEF FailWith, TypeInv, IsVerdict
  <2>9. ASSUME Passing'
        PROVE  /\ Passing /\ hazard' = {}
               /\ ~policy.has_irq_risk => dead' \subseteq {real[id] : id \in freed_allocs'}
    <3>1. verdict' = verdict /\ ~(pv[1] = "kmalloc" /\ pv[2] \in freed_allocs)
      BY <2>3, <2>8, <2>9, Zenon DEF Passing
    <3>2. Passing /\ hazard = {} /\ (~policy.has_irq_risk => dead \subseteq {real[id] : id \in freed_allocs})
      BY <1>1, <2>9, <3>1, Zenon DEF Passing, SoundInv, PassInv
    <3>3. CASE ~IsObj(a)
      BY <2>3, <2>5, <3>2, <3>3, Zenon
    <3>4. CASE IsObj(a)
      <4>1. Tracked(pv) /\ Exact(pv, a)
        BY <3>2, <3>4, PointerOperand, Zenon
      <4>2. pv[1] = "kmalloc"
        BY <2>3, <2>4, <3>4, <4>1, DmaEntry, Zenon DEF MayPass, PlainCode, Tracked
      <4>3. pv[2] \in 1..Len(alloc_sizes) /\ pv[3] \in Int
        BY <2>4, <4>1, EntryFacts, Zenon
      <4>4. a[2] = real[pv[2]] /\ a[2] \notin {real[id] : id \in freed_allocs}
        BY <1>2, <3>1, <4>1, <4>2, <4>3, ExactFacts, Zenon
      <4>5. a[2] \notin dead
        BY <2>3, <3>4, <4>4 DEF MayPass, PlainCode
      <4> QED  BY <2>3, <2>5, <3>2, <3>4, <4>2, <4>4, <4>5, Zenon
    <3> QED  BY <3>3, <3>4
  <2>10. ASSUME ExactInv
         PROVE  /\ \A id \in freed_allocs' : real[id] \in dead'
                /\ FailReal'
    <3>1. CASE pv[1] # "kmalloc"
      BY <1>2, <2>3, <2>5, <2>10, <3>1 DEF ExactInv, FailReal
    <3>2. CASE pv[1] = "kmalloc"
      <4>1. Exact(pv, a) /\ pv[2] \in 1..Len(alloc_sizes) /\ pv[3] \in Int
        BY <2>4, <2>10, <3>2, EntryFacts, Zenon DEF ExactInv
      <4>2. IsObj(a) /\ a[2] = real[pv[2]]
        BY <1>2, <4>1, ExactFacts, Zenon
      <4>3. \A id \in freed_allocs : real[id] \in dead
        BY <2>10, Zenon DEF ExactInv
      <4>4. \A id \in freed_allocs' : real[id] \in dead'
        BY <2>3, <2>5, <3>2, <4>2, <4>3, Zenon
      <4>5. FailReal'
        BY <1>2, <2>3, <2>5, <3>2, <4>2, <4>3, Zenon DEF FailReal
      <4> QED  BY <4>4, <4>5, Zenon
    <3> QED  BY <3>1, <3>2, Zenon
  <2> QED  BY <2>7, <2>9, <2>10, QuietStep DEF Step
<1> QED  BY <1>3, <1>4

\* An argument list too short for the call.
LEMMA ShortArgs ==
    ASSUME NEW args, Len(args) = 3
    PROVE  /\ args \notin Odd({<<>>, <<Other>>}) /\ args \notin Odd({<<>>, <<Other, Other>>})
           /\ args \notin Odd({<<>>, <<Other>>, <<Other, Other>>})
           /\ ~(Len(args) < 3)
<1>1. Len(<<>>) # 3 /\ Len(<<Other>>) # 3 /\ Len(<<Other, Other>>) # 3
  OBVIOUS
<1>2. args # <<>> /\ args # <<Other>> /\ args # <<Other, Other>>
  BY <1>1, Zenon
<1>3. /\ args \notin Odd({<<>>, <<Other>>}) /\ args \notin Odd({<<>>, <<Other, Other>>})
      /\ args \notin Odd({<<>>, <<Other>>, <<Other, Other>>})
  BY <1>2, Zenon DEF Odd
<1> QED  BY <1>3

\* memset.
LEMMA MemsetStep ==
    ASSUME PlainCode, TypeInv, SoundInv, DoMemset
    PROVE  Step
<1>0. PICK args :
       /\ args \in (Addresses \X {Other} \X Lengths) \cup Odd({<<>>, <<Other>>})
       /\ Len(args) = 3 => MayPass(Eval(args[1]))
       /\ Memset(args)
       /\ \E n \in IF Len(args) = 3 THEN SizeOf(args[3]) ELSE {0} :
             RunAccess(IF Len(args) = 3 THEN {Eval(args[1])} ELSE {}, n)
  BY Zenon DEF DoMemset
<1>a. PICK n : n \in (IF Len(args) = 3 THEN SizeOf(args[3]) ELSE {0})
                /\ RunAccess(IF Len(args) = 3 THEN {Eval(args[1])} ELSE {}, n)
  BY <1>0, Zenon
<1> DEFINE errors == UNION {Errors(v, n) : v \in (IF Len(args) = 3 THEN {Eval(args[1])} ELSE {})}
<1>1. /\ Visit /\ OnlyVerdict /\ UNCHANGED <<dest, ptr_names, real>>
      /\ UNCHANGED <<value, slot, cell, object, dead, dma_objects>>
      /\ hazard' = hazard \cup errors
  BY <1>0, <1>a, Zenon DEF Memset, VisitVoid, DoMemset, NoResult, RunAccess
<1>2. /\ IsVerdict(verdict) /\ GateInv(verdict) /\ verdict.result # "fail" /\ policy' = policy /\ PlaceShape
  BY <1>1 DEF TypeInv, Visit
<1>3. /\ Passing' => Passing /\ errors = {}
      /\ ExactInv /\ verdict'.result = "fail" => errors # {}
  <2>1. CASE verdict' \in {verdict, mark_unknown(verdict)} /\ errors = {}
    BY <1>1, <1>2, <2>1, Unfailing DEF mark_unknown, IsVerdict
  <2>2. CASE verdict' = mark_unknown(verdict)
    BY <1>2, <2>2, Zenon DEF mark_unknown, IsVerdict, Passing
  <2>3. CASE Len(args) # 3
    <3>1. args \in Odd({<<>>, <<Other>>})
      BY <1>0, <2>3
    <3>2. Len(args) \in {0, 1}
      BY <3>1 DEF Odd
    <3>3. errors = {}
      BY <2>3
    <3>4. verdict' \in {verdict, mark_unknown(verdict)}
      BY <1>0, <3>2 DEF Memset
    <3> QED  BY <2>1, <3>3, <3>4
  <2>4. CASE Len(args) = 3
    <3>0. args \in Addresses \X {Other} \X Lengths
      <4>1. args \notin Odd({<<>>, <<Other>>})
        BY <2>4, ShortArgs, Zenon
      <4> QED  BY <1>0, <4>1, Zenon
    <3>b. args[1] \in Addresses /\ args[3] \in Lengths
      BY <3>0
    <3>1. args[1] \in Addresses /\ args[3] \in Lengths /\ MayPass(Eval(args[1])) /\ n \in SizeOf(args[3])
      BY <1>0, <1>a, <2>4, <3>b, Zenon
    <3>2. errors = Errors(Eval(args[1]), n)
      BY <2>4
    <3>3. verdict' \in IF ~IsLocal(args[1]) THEN {verdict}
                       ELSE IF ~IsConst(args[3]) THEN {mark_unknown(verdict)}
                       ELSE Transfer(verdict, args[1], args[3][2], "memset")
      BY <1>0, <2>4, SMTT(30) DEF Memset
    <3> HIDE DEF errors
    <3>4. CASE ~IsLocal(args[1])
      <4>1. errors = {}
        <5>1. Eval(args[1]) = Data
          BY <3>1, <3>4, PointerOperand, Zenon
        <5>2. ~IsObj(Eval(args[1]))
          BY ONLY <5>1 DEF IsObj, Data
        <5> QED  BY <3>2, <5>2, Zenon DEF Errors
      <4> QED  BY <2>1, <3>3, <3>4, <4>1, Zenon
    <3>5. CASE IsLocal(args[1]) /\ ~IsConst(args[3])
      BY <2>2, <3>3, <3>5
    <3>6. CASE IsLocal(args[1]) /\ IsConst(args[3])
      <4>1. verdict' \in Transfer(verdict, args[1], n, "memset")
        BY <1>2, <3>1, <3>3, <3>6, SizeFacts, Zenon
      <4>2. /\ Leads(verdict, verdict')
            /\ Passing /\ verdict'.result = "pass" => errors = {}
            /\ ExactInv /\ verdict'.result = "fail" => errors # {}
        BY <1>2, <3>1, <3>2, <4>1, TransferFacts, Zenon
      <4>3. Passing' => Passing
        BY <1>2, <4>2, PassingLeads, Zenon DEF Passing
      <4> QED  BY <4>2, <4>3, Zenon DEF Passing
    <3> QED  BY <3>4, <3>5, <3>6
  <2> QED  BY <2>3, <2>4
<1> HIDE DEF errors
<1> QED  BY <1>1, <1>3, AccessStep

\* memcpy.
LEMMA MemcpyStep ==
    ASSUME PlainCode, TypeInv, SoundInv, DoMemcpy
    PROVE  Step
<1>0. PICK args :
       /\ args \in (Addresses \X Addresses \X Lengths) \cup Odd({<<>>, <<Other>>, <<Other, Other>>})
       /\ Len(args) = 3 => MayPass(Eval(args[1])) /\ MayPass(Eval(args[2]))
       /\ Memcpy(args)
       /\ \E n \in IF Len(args) = 3 THEN SizeOf(args[3]) ELSE {0} :
             RunAccess(IF Len(args) = 3 THEN {Eval(args[1]), Eval(args[2])} ELSE {}, n)
  BY Zenon DEF DoMemcpy
<1>a. PICK n : n \in (IF Len(args) = 3 THEN SizeOf(args[3]) ELSE {0})
                /\ RunAccess(IF Len(args) = 3 THEN {Eval(args[1]), Eval(args[2])} ELSE {}, n)
  BY <1>0, Zenon
<1> DEFINE errors == UNION {Errors(v, n) :
                              v \in (IF Len(args) = 3 THEN {Eval(args[1]), Eval(args[2])} ELSE {})}
<1>1. /\ Visit /\ OnlyVerdict /\ UNCHANGED <<dest, ptr_names, real>>
      /\ UNCHANGED <<value, slot, cell, object, dead, dma_objects>>
      /\ hazard' = hazard \cup errors
  BY <1>0, <1>a, Zenon DEF Memcpy, VisitVoid, DoMemcpy, NoResult, RunAccess
<1>2. /\ IsVerdict(verdict) /\ GateInv(verdict) /\ verdict.result # "fail" /\ policy' = policy /\ PlaceShape
  BY <1>1, Zenon DEF TypeInv, Visit
<1>3. /\ Passing' => Passing /\ errors = {}
      /\ ExactInv /\ verdict'.result = "fail" => errors # {}
  <2>1. CASE verdict' \in {verdict, mark_unknown(verdict)} /\ errors = {}
    BY <1>1, <1>2, <2>1, Unfailing DEF mark_unknown, IsVerdict
  <2>2. CASE verdict' = mark_unknown(verdict)
    BY <1>2, <2>2, Zenon DEF mark_unknown, IsVerdict, Passing
  <2>3. CASE Len(args) # 3
    <3>1. args \in Odd({<<>>, <<Other>>, <<Other, Other>>})
      BY <1>0, <2>3, Zenon
    <3>2. Len(args) \in {0, 1, 2}
      BY <3>1 DEF Odd
    <3>3. errors = {}
      BY <2>3
    <3>4. verdict' \in {verdict, mark_unknown(verdict)}
      BY <1>0, <3>2 DEF Memcpy
    <3> QED  BY <2>1, <3>3, <3>4
  <2>4. CASE Len(args) = 3
    <3>0. args \in Addresses \X Addresses \X Lengths
      <4>1. args \notin Odd({<<>>, <<Other>>, <<Other, Other>>})
        BY <2>4, ShortArgs, Zenon
      <4> QED  BY <1>0, <4>1, Zenon
    <3>b. args[1] \in Addresses /\ args[2] \in Addresses /\ args[3] \in Lengths
      BY <3>0
    <3>1. /\ args[1] \in Addresses /\ args[2] \in Addresses /\ args[3] \in Lengths /\ n \in SizeOf(args[3])
          /\ MayPass(Eval(args[1])) /\ MayPass(Eval(args[2]))
      BY <1>0, <1>a, <2>4, <3>b, Zenon
    <3>2. errors = Errors(Eval(args[1]), n) \cup Errors(Eval(args[2]), n)
      BY <2>4
    <3> HIDE DEF errors
    <3>3. CASE ~IsConst(args[3])
      <4>1. verdict' = mark_unknown(verdict)
        BY <1>0, <2>4, <3>3 DEF Memcpy
      <4> QED  BY <2>2, <4>1, Zenon
    <3>4. CASE IsConst(args[3])
      <4>1. n = args[3][2]
        BY <1>2, <3>1, <3>4, SizeFacts, Zenon
      <4>2. PICK v \in Transfer(verdict, args[1], n, "memcpy_destination") :
               verdict' \in IF v.result = "fail" THEN {v} ELSE Transfer(v, args[2], n, "memcpy_source")
        BY <1>0, <2>4, <3>4, <4>1, SMTT(30) DEF Memcpy
      <4>3. /\ Leads(verdict, v) /\ IsVerdict(v) /\ GateInv(v)
            /\ Passing /\ v.result = "pass" => Errors(Eval(args[1]), n) = {}
            /\ ExactInv /\ v.result = "fail" => Errors(Eval(args[1]), n) # {}
        BY <1>2, <3>1, TransferFacts, SMTT(30) DEF Leads
      <4>4. CASE v.result = "fail"
        BY <3>2, <4>2, <4>3, <4>4, Zenon DEF Passing
      <4>5. CASE v.result # "fail"
        <5>1. verdict' \in Transfer(v, args[2], n, "memcpy_source")
          BY <4>2, <4>5, Zenon
        <5>2. /\ Leads(v, verdict')
              /\ Passing /\ verdict'.result = "pass" => Errors(Eval(args[2]), n) = {}
              /\ ExactInv /\ verdict'.result = "fail" => Errors(Eval(args[2]), n) # {}
          BY <3>1, <4>3, <4>5, <5>1, TransferFacts, Zenon
        <5>3. Passing' => Passing /\ v.result = "pass" /\ verdict'.result = "pass"
          BY <1>2, <4>3, <5>2, PassingLeads, Zenon DEF Passing
        <5> QED  BY <3>2, <4>3, <5>2, <5>3, Zenon
      <4> QED  BY <4>4, <4>5, Zenon
    <3> QED  BY <3>3, <3>4
  <2> QED  BY <2>3, <2>4
<1> HIDE DEF errors
<1> QED  BY <1>1, <1>3, AccessStep

\* dma_map_single.
LEMMA DmaMapStep ==
    ASSUME PlainCode, TypeInv, SoundInv, DoDmaMap
    PROVE  Step
<1>0. PICK args :
       /\ args \in ({Other} \X Addresses \X Lengths) \cup Odd({<<>>, <<Other, Other>>})
       /\ Len(args) = 3 /\ IsObj(Eval(args[2])) /\ Eval(args[2])[2] \in dead => "map_freed" \in Habits
       /\ DmaMapSingle(args)
       /\ \E n \in IF Len(args) = 3 THEN SizeOf(args[3]) ELSE {0} :
             RunAccess(IF Len(args) = 3 THEN {Eval(args[2])} ELSE {}, n)
  BY Zenon DEF DoDmaMap
<1>a. PICK n : n \in (IF Len(args) = 3 THEN SizeOf(args[3]) ELSE {0})
                /\ RunAccess(IF Len(args) = 3 THEN {Eval(args[2])} ELSE {}, n)
  BY <1>0, Zenon
<1> DEFINE errors == UNION {Errors(v, n) : v \in (IF Len(args) = 3 THEN {Eval(args[2])} ELSE {})}
<1>1. /\ Visit /\ OnlyVerdict /\ UNCHANGED <<dest, ptr_names, real>>
      /\ UNCHANGED <<value, slot, cell, object, dead, dma_objects>>
      /\ hazard' = hazard \cup errors
  BY <1>0, <1>a, Zenon DEF DmaMapSingle, VisitVoid, DoDmaMap, NoResult, RunAccess
<1>2. /\ IsVerdict(verdict) /\ GateInv(verdict) /\ verdict.result # "fail" /\ policy' = policy /\ PlaceShape
      /\ HeapShape /\ RealInv
  BY <1>1, Zenon DEF TypeInv, Visit
<1>3. /\ Passing' => Passing /\ errors = {}
      /\ ExactInv /\ verdict'.result = "fail" => errors # {}
  <2>1. CASE verdict' \in {verdict, mark_unknown(verdict)} /\ errors = {}
    BY <1>1, <1>2, <2>1, Unfailing DEF mark_unknown, IsVerdict
  <2>2. CASE verdict' = mark_unknown(verdict) \/ (verdict' = verdict /\ policy.dma = "ignore")
    BY <1>2, <2>2 DEF mark_unknown, IsVerdict, Passing
  <2>3. CASE policy.dma = "ignore"
    <3>1. verdict' = verdict
      BY <1>0, <2>3 DEF DmaMapSingle
    <3> QED  BY <2>2, <2>3, <3>1
  <2>4. CASE policy.dma # "ignore" /\ Len(args) # 3
    <3>1. args \in Odd({<<>>, <<Other, Other>>})
      BY <1>0, <2>4
    <3>2. Len(args) \in {0, 2}
      BY <3>1 DEF Odd
    <3>3. verdict' = mark_unknown(verdict)
      BY <1>0, <2>4, <3>2, SMTT(30) DEF DmaMapSingle
    <3> QED  BY <2>2, <3>3
  <2>5. CASE policy.dma # "ignore" /\ Len(args) = 3
    <3> DEFINE a == Eval(args[2])
               pv == ptr_env[args[2][2]]
               vc == vc_id("dma_map")
               len == args[3][2]
               class == vc_class_id("dma_bounds", len)
    <3>0. args \in {Other} \X Addresses \X Lengths
      <4>1. args \notin Odd({<<>>, <<Other, Other>>})
        BY <2>5, ShortArgs, Zenon
      <4> QED  BY <1>0, <4>1, Zenon
    <3>b. args[2] \in Addresses /\ args[3] \in Lengths
      BY <3>0
    <3>1. /\ args[2] \in Addresses /\ args[3] \in Lengths /\ n \in SizeOf(args[3])
          /\ IsObj(a) => a[2] \notin dead
      BY <1>0, <1>a, <2>5, <3>b, Zenon DEF PlainCode
    <3>2. errors = Errors(a, n)
      BY <2>5
    <3> HIDE DEF errors, a
    <3>3. CASE ~IsConst(args[3])
      <4>1. verdict' = mark_unknown(verdict)
        BY <1>0, <2>5, <3>3 DEF DmaMapSingle
      <4> QED  BY <2>2, <4>1
    <3>4. CASE IsConst(args[3]) /\ ~(IsLocal(args[2]) /\ Tracked(pv))
      <4>1. verdict' = verdict
        BY <1>0, <2>5, <3>4, SMTT(30) DEF DmaMapSingle
      <4>2. Passing => ~IsObj(a)
        BY <3>1, <3>4, PointerOperand, Zenon DEF a
      <4>3. Passing => errors = {}
        BY <3>2, <4>2 DEF Errors
      <4> QED  BY <1>2, <4>1, <4>3 DEF Passing
    <3>5. CASE IsConst(args[3]) /\ IsLocal(args[2]) /\ Tracked(pv)
      <4>1. n = args[3][2]
        BY <1>2, <3>1, <3>5, SizeFacts
      <4>2. PICK answer \in check_access(verdict, pv, len, vc, class) :
               verdict' = [Judge(verdict, vc, class, answer) EXCEPT
                              !.dma_vcs = @ + (IF answer = "safe" THEN 0 ELSE 1)]
        BY <1>0, <2>5, <3>5, ShortArgs, Zenon DEF DmaMapSingle
      <4> DEFINE w == Judge(verdict, vc, class, answer)
      <4>3. w \in Checked(verdict, pv, n, vc, class)
        BY <4>1, Zenon DEF Checked
      <4> HIDE DEF w, pv, vc, class, len
      <4>4. /\ Leads(verdict, w)
            /\ w.result = "pass" => ~OutOfBounds(pv, n)
            /\ w.result = "fail" => OutOfBounds(pv, n)
        BY <1>2, <4>3, CheckedLeads
      <4>5. verdict'.result = w.result
        BY <4>2, <4>4, Zenon DEF w, Leads, IsVerdict
      <4>6. pv \in PtrVals /\ pv[2] \in 1..Len(alloc_sizes) /\ pv[3] \in Int
        BY <3>1, <3>5, PointerOperand, EntryFacts, Zenon DEF pv
      <4>7. ASSUME Passing'
            PROVE  Passing /\ errors = {}
        <5>1. Passing /\ ~OutOfBounds(pv, n)
          BY <1>2, <4>4, <4>5, <4>7, PassingLeads, Zenon DEF Passing
        <5>2. CASE ~IsObj(a)
          BY <3>2, <5>1, <5>2, Zenon DEF Errors
        <5>3. CASE IsObj(a)
          <6>1. Exact(pv, a)
            BY <3>1, <5>1, <5>3, PointerOperand, Zenon DEF a, pv
          <6> QED  BY <1>2, <3>1, <3>2, <4>6, <5>1, <5>3, <6>1, ExactErrors, Zenon
        <5> QED  BY <5>2, <5>3
      <4>8. ASSUME ExactInv, verdict'.result = "fail"
            PROVE  errors # {}
        <5>1. Exact(pv, a)
          BY <3>1, <3>5, <4>8, PointerOperand, Zenon DEF a, pv, ExactInv
        <5> QED  BY <1>2, <3>2, <4>4, <4>5, <4>6, <4>8, <5>1, ExactErrors, Zenon
      <4> QED  BY <4>7, <4>8, Zenon
    <3> QED  BY <3>3, <3>4, <3>5
  <2> QED  BY <2>3, <2>4, <2>5
<1> HIDE DEF errors
<1> QED  BY <1>1, <1>3, AccessStep

\* iommu_map.
LEMMA IommuMapStep ==
    ASSUME TypeInv, SoundInv, DoIommuMap
    PROVE  Step
<1>1. Visit /\ Quiet /\ UNCHANGED <<freed_allocs, hazard, dead, verdict>>
  <2>1. dead \subseteq 1..Len(object)
    BY DEF SoundInv, MachineShape
  <2> QED  BY <2>1, Zenon DEF DoIommuMap, IommuMap, VisitVoid, Visit, RunIommuMap, NoResult, Quiet, envVars
<1>2. verdict.result # "fail" /\ policy' = policy
  BY <1>1 DEF Visit
<1>3. FailReal' /\ (Passing' => Passing)
  BY <1>1, <1>2, Zenon DEF FailReal, Passing
<1>4. Passing' => /\ Passing /\ hazard' = {}
                  /\ ~policy.has_irq_risk => dead' \subseteq {real[id] : id \in freed_allocs'}
  BY <1>1, <1>3, Zenon DEF SoundInv, PassInv, Passing
<1>5. ExactInv => \A id \in freed_allocs' : real[id] \in dead'
  BY <1>1, Zenon DEF ExactInv
<1> QED  BY <1>1, <1>3, <1>4, <1>5, QuietStep, Zenon DEF Step

\* Inline assembly: what it may have freed costs the Pass.
LEMMA AsmStep ==
    ASSUME PlainCode, TypeInv, SoundInv, DoInlineAsm
    PROVE  Step
<1> PICK text : /\ InlineAsm(text) /\ NoResult
                /\ RunNothing \/ (text = "other" /\ \E n \in Defined : RunFree(value[n]))
  BY Zenon DEF DoInlineAsm, PlainCode
<1>1. dead \subseteq dead' /\ dead' \subseteq 1..Len(object)
  <2>1. dead \subseteq 1..Len(object) /\ value \in [Names -> Values]
    BY DEF SoundInv, MachineShape
  <2>2. CASE RunNothing
    BY <2>1, <2>2, Zenon DEF RunNothing, machineVars
  <2>3. ASSUME NEW n \in Defined, RunFree(value[n])
        PROVE  dead \subseteq dead' /\ dead' \subseteq 1..Len(object)
    <3>1. n \in Names
      BY ProgramAssumption DEF TypeInv, PlaceShape, Defined, Names
    <3>2. value[n] \in Values
      BY <2>1, <3>1, Zenon
    <3>3. IsObj(value[n]) => value[n][2] \in 1..Len(object)
      BY <3>2, ValueFacts, Zenon DEF TypeInv
    <3> QED  BY <2>1, <2>3, <3>3, Zenon DEF RunFree
  <2> QED  BY <2>2, <2>3, Zenon
<1>2. Visit /\ Quiet /\ freed_allocs' = freed_allocs
  <2>1. Visit /\ UNCHANGED <<ptr_env, int_env, alloca_names, alloca_store_map, alloc_sizes, dma_allocs_in_func>>
        /\ UNCHANGED <<ptr_names, real, policy, dest, freed_allocs>>
    BY Zenon DEF InlineAsm, VisitVoid, Visit, OnlyVerdict, NoResult, envVars, heapVars
  <2>2. UNCHANGED <<value, slot, cell, object, dma_objects>>
    BY Zenon DEF RunNothing, RunFree, machineVars
  <2> QED  BY <1>1, <2>1, <2>2, Zenon DEF Quiet
<1>3. IsVerdict(verdict) /\ verdict.result # "fail" /\ policy' = policy /\ GateInv(verdict)
  BY <1>2 DEF TypeInv, Visit
<1>4. FailReal' /\ (Passing' => Passing /\ RunNothing)
  <2> DEFINE asked == Ask(verdict, vc_id("inline_asm"), <<"inline_asm", "opaque">>)
             w == [asked EXCEPT !.inline_asm_vcs = @ + 1]
  <2>1. CASE policy.inline_asm = "trap"
    <3>1. verdict' = [FailWith(verdict) EXCEPT !.inline_asm_vcs = @ + 1]
      BY <2>1, Zenon DEF InlineAsm
    <3>2. verdict'.result = "fail" /\ verdict'.inline_asm_vcs = verdict.inline_asm_vcs + 1
      BY <1>3, <3>1, Zenon DEF FailWith, IsVerdict
    <3>3. verdict'.inline_asm_vcs > 0
      BY <1>3, <3>2 DEF IsVerdict
    <3> QED  BY <1>3, <2>1, <3>2, <3>3 DEF FailReal, Passing
  <2>2. CASE policy.inline_asm # "trap" /\ is_safe_inline_asm(text)
    <3>1. verdict' = verdict
      BY <2>2, Zenon DEF InlineAsm
    <3>2. text # "other"
      BY <2>2 DEF is_safe_inline_asm
    <3> QED  BY <1>3, <3>1, <3>2, Zenon DEF FailReal, Passing
  <2>3. CASE policy.inline_asm # "trap" /\ ~is_safe_inline_asm(text)
    <3>1. verdict' = mark_unknown(w)
      BY <2>3, Zenon DEF InlineAsm
    <3>2. asked.result = verdict.result /\ Leads(verdict, asked)
      BY <1>3, AskLeads, ZenonT(30)
    <3> HIDE DEF asked
    <3>3. w.result = verdict.result /\ IsVerdict(asked)
      BY <3>2 DEF Leads, IsVerdict
    <3>4. w.result \in {"pass", "unknown"} /\ "result" \in DOMAIN w
      BY <1>3, <3>3 DEF IsVerdict
    <3> HIDE DEF w
    <3>5. verdict'.result = "unknown"
      BY <3>1, <3>4 DEF mark_unknown
    <3> QED  BY <3>5 DEF FailReal, Passing
  <2> QED  BY <2>1, <2>2, <2>3, Zenon
<1>5. Passing' => /\ Passing /\ hazard' = {}
                  /\ ~policy.has_irq_risk => dead' \subseteq {real[id] : id \in freed_allocs'}
  <2>1. RunNothing => UNCHANGED <<hazard, dead>>
    BY Zenon DEF RunNothing, machineVars
  <2> QED  BY <1>2, <1>4, <2>1, Zenon DEF SoundInv, PassInv, Passing
<1>6. ExactInv => \A id \in freed_allocs' : real[id] \in dead'
  BY <1>1, <1>2, Zenon DEF ExactInv
<1> QED  BY <1>2, <1>4, <1>5, <1>6, QuietStep, Zenon DEF Step

\* An interrupt handler frees an object.
LEMMA InterruptStep ==
    ASSUME PlainCode, TypeInv, SoundInv, DoInterrupt
    PROVE  SoundInv' /\ (ExactInv => ExactInv') /\ (FailIsReal => FailIsReal')
<1>0. PICK o : /\ o \in DOMAIN object /\ policy.has_irq_risk /\ Interrupt(o)
               /\ UNCHANGED <<analyzerVars, program, ptr_names, real, unproven>>
  BY Zenon DEF DoInterrupt, PlainCode
<1>1. o \in 1..Len(object) /\ dead \subseteq 1..Len(object)
  BY <1>0 DEF TypeInv, HeapShape, SoundInv, MachineShape
<1>2. /\ UNCHANGED <<value, slot, cell, object, dma_objects, ptr_names, real, policy, dest>>
      /\ UNCHANGED <<ptr_env, int_env, alloca_names, alloca_store_map, alloc_sizes, dma_allocs_in_func>>
      /\ UNCHANGED <<freed_allocs, verdict, phase, hazard>> /\ dead' = dead \cup {o}
  BY <1>0, Zenon DEF Interrupt, analyzerVars, envVars, heapVars, placeVars
<1>3. Quiet
  BY <1>1, <1>2, Zenon DEF Quiet
<1>4. Passing' => /\ Passing /\ hazard' = {}
                  /\ ~policy.has_irq_risk => dead' \subseteq {real[id] : id \in freed_allocs'}
  BY <1>0, <1>2, Zenon DEF SoundInv, PassInv, Passing
<1>5. ExactInv => \A id \in freed_allocs' : real[id] \in dead'
  BY <1>2, Zenon DEF ExactInv
<1>6. FailIsReal => FailIsReal'
  BY <1>2, Zenon DEF FailIsReal
<1> QED  BY <1>3, <1>4, <1>5, <1>6, QuietStep

\* The check after the loop, the gate, and nothing.
LEMMA EndStep ==
    ASSUME TypeInv, SoundInv, DoEnd \/ Done \/ UNCHANGED vars
    PROVE  SoundInv' /\ (ExactInv => ExactInv') /\ (FailIsReal => FailIsReal')
<1>1. dead \subseteq 1..Len(object)
  BY DEF SoundInv, MachineShape
<1>2. Quiet /\ UNCHANGED <<freed_allocs, hazard, dead, policy>>
  <2>1. CASE DoEnd
    BY <1>1, <2>1, Zenon DEF DoEnd, EndOfModule, EnforceHitl, RunNothing, NoResult, Quiet, envVars, heapVars,
                             machineVars
  <2>2. CASE Done \/ UNCHANGED vars
    BY <1>1, <2>2, Zenon DEF Done, vars, analyzerVars, envVars, heapVars, placeVars, machineVars, Quiet
  <2> QED  BY <2>1, <2>2
<1>3. Leads(verdict, verdict')
  BY VerdictStep DEF TypeInv, Next
<1>4. Passing' => Passing
  BY <1>2, <1>3, PassingLeads, Zenon DEF TypeInv, Passing
<1>5. Passing' => /\ Passing /\ hazard' = {}
                  /\ ~policy.has_irq_risk => dead' \subseteq {real[id] : id \in freed_allocs'}
  BY <1>2, <1>4, Zenon DEF SoundInv, PassInv, Passing
<1>6. ExactInv => \A id \in freed_allocs' : real[id] \in dead'
  BY <1>2 DEF ExactInv
<1>7. FailIsReal => FailIsReal'
  <2>1. CASE DoEnd
    BY <2>1 DEF DoEnd, EndOfModule, EnforceHitl, FailIsReal
  <2>2. CASE Done \/ UNCHANGED vars
    <3>1. UNCHANGED <<phase, verdict, hazard, policy>>
      BY <2>2, Zenon DEF Done, vars, analyzerVars, placeVars, machineVars
    <3> QED  BY <3>1 DEF FailIsReal
  <2> QED  BY <2>1, <2>2
<1> QED  BY <1>2, <1>5, <1>6, <1>7, QuietStep, Zenon

\* The next function starts without pointers.
LEMMA NextFunctionSound ==
    ASSUME TypeInv, SoundInv, DoNextFunction
    PROVE  SoundInv'
<1>1. /\ UNCHANGED <<ptr_env, alloca_store_map, freed_allocs, dma_allocs_in_func, verdict, policy>>
      /\ UNCHANGED <<cell, object, dead, dma_objects, hazard, real>>
      /\ value' = [n \in DOMAIN value |-> Data] /\ slot' = [n \in DOMAIN slot |-> Data]
  BY Zenon DEF DoNextFunction, NextFunction, RunCall, envVars, heapVars
<1>2. value' = [n \in Names |-> Data] /\ slot' = [n \in Names |-> Data]
  BY <1>1 DEF SoundInv, MachineShape
<1>3. Data \in Values' /\ ~IsSlot(Data) /\ ~IsObj(Data)
  BY Zenon DEF Values, IsSlot, IsObj, Data
<1>4. MachineShape'
  BY <1>1, <1>2, <1>3, ZenonT(30) DEF SoundInv, MachineShape
<1>5. KindInv'
  BY <1>1, Zenon DEF SoundInv, KindInv
<1>6. Defined' \subseteq Names
  BY ProgramAssumption DEF DoNextFunction, NextFunction, Defined, Names
<1>7. PassInv'
  <2> SUFFICES ASSUME Passing' PROVE PassInv'
    BY Zenon DEF PassInv, Passing
  <2>1. \A n \in Defined' : ~IsObj(value'[n])
    BY <1>2, <1>3, <1>6
  <2>2. \A n \in Names : ~IsObj(slot'[n])
    BY <1>2, <1>3, Zenon
  <2>3. hazard' = {} /\ (~policy'.has_irq_risk => dead' \subseteq {real'[id] : id \in freed_allocs'})
    BY <1>1 DEF SoundInv, PassInv, Passing
  <2> QED  BY <2>1, <2>2, <2>3, Zenon DEF PassInv
<1> QED  BY <1>4, <1>5, <1>7 DEF SoundInv

\* What an allocation leaves alone, and what it gives to dest.
Grows ==
    /\ Len(object) \in Nat /\ Len(object') \in Nat /\ Len(object) <= Len(object')
    /\ \A id \in 1..Len(alloc_sizes) : real'[id] = real[id]
    /\ int_env' = int_env /\ \A n \in Names : n # dest => ptr_env'[n] = ptr_env[n]
    /\ \E v : v \in Values' /\ ~IsSlot(v) /\ value' = [value EXCEPT ![dest] = v]
    /\ dma_objects \subseteq dma_objects' /\ dma_allocs_in_func \subseteq dma_allocs_in_func'
    /\ \A id \in dma_allocs_in_func' \ dma_allocs_in_func : real'[id] \in dma_objects'
    /\ ptr_env'[dest][1] = "dma" => ptr_env'[dest][2] \in dma_allocs_in_func'
    /\ ExactInv => FailReal'
    /\ LET pv == ptr_env'[dest]
           exact == value'[dest] = <<"obj", real'[pv[2]], pv[3]>>
       IN  /\ Passing' => Passing /\ hazard' = hazard /\ Tracked(pv) /\ exact
           /\ ExactInv /\ Tracked(pv) => exact

\* Each form of an allocating call, kmalloc, kcalloc and dma_alloc_coherent, is one.
LEMMA AllocatesGrows ==
    ASSUME TypeInv, SoundInv, Allocates
    PROVE  Grows
<1>1. /\ HeapShape /\ dest \in Names /\ value \in [Names -> Values] /\ ptr_env \in [Names -> PtrVals]
      /\ verdict.result # "fail" /\ policy' = policy
  BY Zenon DEF TypeInv, SoundInv, MachineShape, EnvShape, Allocates
<1>2. /\ Len(object) \in Nat /\ Len(alloc_sizes) \in Nat /\ Len(real) = Len(alloc_sizes)
      /\ real \in Seq(Nat) /\ object \in Seq(Nat)
  BY <1>1, SMTT(30) DEF HeapShape
<1>3. ptr_env[dest][1] = "dma" => ptr_env[dest][2] \in dma_allocs_in_func
  BY <1>1, DmaEntry, Zenon
<1>4. ExactInv => ~Tracked(ptr_env[dest])
  BY <1>1, Fresh
<1>5. ASSUME NEW v, value' = [value EXCEPT ![dest] = v]
      PROVE  value'[dest] = v
  BY <1>1, <1>5, Zenon
<1>6. ASSUME NEW size \in Nat, object' = Append(object, size)
      PROVE  /\ Len(object) <= Len(object') /\ Len(object') \in Nat
             /\ <<"obj", Len(object) + 1, 0>> \in Values' /\ ~IsSlot(<<"obj", Len(object) + 1, 0>>)
  <2>1. Len(object') = Len(object) + 1
    BY <1>2, <1>6
  <2> QED  BY <1>2, <2>1 DEF Values, IsSlot
<1>7. ASSUME NEW kind \in {"kmalloc", "dma"}, NEW size \in Nat, Numbered(kind, size)
      PROVE  Grows
  <2> DEFINE v == <<"obj", Len(object) + 1, 0>>
             pv == <<kind, Len(alloc_sizes) + 1, 0>>
  <2>1. /\ object' = Append(object, size) /\ real' = Append(real, Len(object) + 1)
        /\ ptr_env' = [ptr_env EXCEPT ![dest] = pv] /\ value' = [value EXCEPT ![dest] = v]
        /\ int_env' = int_env /\ hazard' = hazard /\ verdict'.result = verdict.result
        /\ dma_allocs_in_func' = dma_allocs_in_func \cup (IF kind = "dma" THEN {Len(alloc_sizes) + 1} ELSE {})
        /\ dma_objects' = dma_objects \cup (IF kind = "dma" THEN {Len(object) + 1} ELSE {})
    BY <1>7, Zenon DEF Numbered
  <2>2. real'[Len(alloc_sizes) + 1] = Len(object) + 1 /\ \A id \in 1..Len(alloc_sizes) : real'[id] = real[id]
    <3>1. real' = Append(real, Len(object) + 1)
      BY <2>1, Zenon
    <3> QED  BY ONLY <1>2, <3>1, SMTT(30)
  <2>3. ptr_env'[dest] = pv /\ \A n \in Names : n # dest => ptr_env'[n] = ptr_env[n]
    BY <1>1, <2>1
  <2>4. pv[1] = kind /\ pv[2] = Len(alloc_sizes) + 1 /\ pv[3] = 0 /\ Tracked(pv)
    BY DEF Tracked
  <2>5. value'[dest] = v /\ v = <<"obj", real'[pv[2]], pv[3]>>
    BY <1>5, <2>1, <2>2, <2>4, Zenon
  <2>6. \A id \in dma_allocs_in_func' \ dma_allocs_in_func : real'[id] \in dma_objects'
    BY <2>1, <2>2, Zenon
  <2>7. pv[1] = "dma" => pv[2] \in dma_allocs_in_func'
    BY <2>1, <2>4
  <2>8. Len(object) <= Len(object') /\ Len(object') \in Nat /\ v \in Values' /\ ~IsSlot(v)
    BY <1>6, <2>1, Zenon
  <2>9. FailReal' /\ (Passing' => Passing)
    BY <1>1, <2>1 DEF FailReal, Passing
  <2> HIDE DEF v, pv
  <2> QED  BY <1>2, <2>1, <2>2, <2>3, <2>4, <2>5, <2>6, <2>7, <2>8, <2>9, Zenon DEF Grows
<1>8. ASSUME NEW size \in Nat, NEW new \in SUBSET {Len(object) + 1}, Unnumbered(size, new)
      PROVE  Grows
  <2> DEFINE v == <<"obj", Len(object) + 1, 0>>
  <2>1. /\ object' = Append(object, size) /\ value' = [value EXCEPT ![dest] = v]
        /\ dma_objects' = dma_objects \cup new
        /\ UNCHANGED <<real, ptr_env, int_env, dma_allocs_in_func>>
    BY <1>8, Zenon DEF Unnumbered
  <2>2. Len(object) <= Len(object') /\ Len(object') \in Nat /\ v \in Values' /\ ~IsSlot(v)
    BY <1>6, <2>1, Zenon
  <2>3. FailReal' /\ ~Passing'
    BY <1>1, <1>8, Zenon DEF Unnumbered, FailReal, Passing
  <2> HIDE DEF v
  <2> QED  BY <1>2, <1>3, <1>4, <2>1, <2>2, <2>3, Zenon DEF Grows
<1>9. ASSUME Overflown
      PROVE  Grows
  <2>1. /\ value' = [value EXCEPT ![dest] = Data] /\ hazard' # {} /\ ~Passing'
        /\ UNCHANGED <<object, real, ptr_env, int_env, dma_allocs_in_func, dma_objects>>
    BY <1>9 DEF Overflown, Passing
  <2>2. Len(object) <= Len(object') /\ Len(object') \in Nat /\ Data \in Values' /\ ~IsSlot(Data)
    BY <1>2, <2>1 DEF Values, IsSlot, Data
  <2>3. FailReal'
    BY <2>1 DEF FailReal
  <2> QED  BY <1>2, <1>3, <1>4, <2>1, <2>2, <2>3, Zenon DEF Grows
<1> QED  BY <1>7, <1>8, <1>9, Zenon DEF Allocates

\* An allocation.
LEMMA AllocatesStep ==
    ASSUME TypeInv, SoundInv, Allocates
    PROVE  Step
<1>1. /\ dest \in Names /\ dest' = dest + 1 /\ ptr_names' = ptr_names \cup {dest} /\ dest \in Int
      /\ UNCHANGED <<policy, alloca_names, alloca_store_map, freed_allocs, slot, cell, dead>>
  BY ProgramAssumption, SMTT(30) DEF Allocates, TypeInv, PlaceShape
<1>2. Defined' = Defined \cup {dest} /\ Defined \subseteq Names /\ dest \notin Defined
  BY <1>1, ProgramAssumption DEF Defined, Names
<1>3. Grows
  BY AllocatesGrows, Zenon
<1>4. /\ \A id \in 1..Len(alloc_sizes) : real'[id] = real[id]
      /\ int_env' = int_env /\ \A n \in Names : n # dest => ptr_env'[n] = ptr_env[n]
  BY <1>3, Zenon DEF Grows
<1>5. PICK v : v \in Values' /\ ~IsSlot(v) /\ value' = [value EXCEPT ![dest] = v]
  BY <1>3, Zenon DEF Grows
<1>6. value \in [Names -> Values] /\ slot \in [Names -> Values]
  BY DEF SoundInv, MachineShape
<1>7. value'[dest] = v /\ \A n \in Names : n # dest => value'[n] = value[n]
  BY <1>1, <1>5, <1>6
<1>8. ptr_env \in [Names -> PtrVals] /\ int_env \in [Names -> IntVals]
      /\ alloca_store_map \in [Names -> PtrVals] /\ alloca_names \subseteq Names
  BY Zenon DEF TypeInv, EnvShape
\* The ids of the entries are old.
<1>9. /\ \A n \in Names : Tracked(ptr_env[n]) => real'[ptr_env[n][2]] = real[ptr_env[n][2]]
      /\ \A n \in Names : Tracked(alloca_store_map[n]) => real'[alloca_store_map[n][2]] = real[alloca_store_map[n][2]]
      /\ \A n \in Names : IsPtrOffset(int_env[n]) => real'[int_env[n][2]] = real[int_env[n][2]]
  BY <1>4, <1>8, EntryFacts
<1>10. \A id \in freed_allocs \cup dma_allocs_in_func : real'[id] = real[id]
  BY <1>4, Zenon DEF TypeInv, HeapShape
<1>11. MachineShape'
  <2>1. Values \subseteq Values'
    <3> DEFINE old == 1..Len(object)
               new == 1..Len(object')
    <3>1. old \subseteq new
      BY <1>3, SMTT(30) DEF Grows
    <3>2. /\ Values = {Data} \cup ({"obj"} \X old \X Int) \cup ({"slot"} \X Names \X Int)
          /\ Values' = {Data} \cup ({"obj"} \X new \X Int) \cup ({"slot"} \X Names \X Int)
      BY DEF Values
    <3> HIDE DEF old, new
    <3> QED  BY <3>1, <3>2, Zenon
  <2>2. value' \in [Names -> Values'] /\ slot' \in [Names -> Values']
    BY <1>1, <1>5, <1>6, <2>1, Zenon
  <2>3. dead' \subseteq 1..Len(object')
    BY <1>1, <1>3, SMTT(30) DEF SoundInv, MachineShape, Grows
  <2>4. \A n \in Names : IsSlot(value'[n]) => n \in alloca_names' \cap ptr_names' /\ value'[n] = <<"slot", n, 0>>
    BY <1>1, <1>5, <1>7, Zenon DEF SoundInv, MachineShape
  <2>5. \A n \in Names : ~IsSlot(slot'[n]) /\ (IsObj(slot'[n]) => n \in Defined' /\ IsSlot(value'[n]))
    BY <1>1, <1>2, <1>7, Zenon DEF SoundInv, MachineShape
  <2> QED  BY <1>1, <2>2, <2>3, <2>4, <2>5, Zenon DEF SoundInv, MachineShape
<1>12. KindInv'
  <2>1. \A n \in Names : ptr_env'[n][1] = "dma" => ptr_env'[n][2] \in dma_allocs_in_func'
    BY <1>3, <1>4, Zenon DEF SoundInv, KindInv, Grows
  <2>2. \A n \in Names : alloca_store_map'[n][1] = "dma" => alloca_store_map'[n][2] \in dma_allocs_in_func'
    BY <1>1, <1>3, Zenon DEF SoundInv, KindInv, Grows
  <2>3. \A id \in dma_allocs_in_func' : real'[id] \in dma_objects'
    BY <1>3, <1>10, Zenon DEF SoundInv, KindInv, Grows
  <2> QED  BY <2>1, <2>2, <2>3, Zenon DEF KindInv
<1>13. PassInv'
  <2> SUFFICES ASSUME Passing' PROVE PassInv'
    BY Zenon DEF PassInv, Passing
  <2>1. /\ Passing /\ hazard' = hazard /\ Tracked(ptr_env'[dest])
        /\ value'[dest] = <<"obj", real'[ptr_env'[dest][2]], ptr_env'[dest][3]>>
    BY <1>3, Zenon DEF Grows
  <2>2. /\ hazard = {}
        /\ \A n \in Defined : IsObj(value[n]) => IF n \in ptr_names
                                 THEN Tracked(ptr_env[n]) /\ Exact(ptr_env[n], value[n])
                                 ELSE IsPtrOffset(int_env[n]) /\ Exact(int_env[n], value[n])
        /\ \A n \in Names :
              IsObj(slot[n]) => Tracked(alloca_store_map[n]) /\ Exact(alloca_store_map[n], slot[n])
        /\ ~policy.has_irq_risk => dead \subseteq {real[id] : id \in freed_allocs}
    BY <2>1, Zenon DEF SoundInv, PassInv, Passing
  <2>3. ASSUME NEW n \in Defined', IsObj(value'[n])
        PROVE  IF n \in ptr_names' THEN Tracked(ptr_env'[n]) /\ Exact(ptr_env[n], value[n])'
               ELSE IsPtrOffset(int_env'[n]) /\ Exact(int_env[n], value[n])'
    <3>1. CASE n = dest
      BY <1>1, <2>1, <3>1, Zenon DEF Exact
    <3>2. CASE n # dest
      <4>1. n \in Defined /\ n \in Names /\ value'[n] = value[n] /\ ptr_env'[n] = ptr_env[n]
            /\ (n \in ptr_names' <=> n \in ptr_names)
        BY <1>1, <1>2, <1>4, <1>7, <3>2, Zenon
      <4>2. CASE n \in ptr_names
        <5>1. Tracked(ptr_env[n]) /\ Exact(ptr_env[n], value[n])
          BY <2>2, <2>3, <4>1, <4>2, Zenon
        <5> QED  BY <1>9, <4>1, <4>2, <5>1, Zenon DEF Exact
      <4>3. CASE n \notin ptr_names
        <5>1. IsPtrOffset(int_env[n]) /\ Exact(int_env[n], value[n])
          BY <2>2, <2>3, <4>1, <4>3, Zenon
        <5> QED  BY <1>4, <1>9, <4>1, <4>3, <5>1, Zenon DEF Exact
      <4> QED  BY <4>2, <4>3, Zenon
    <3> QED  BY <3>1, <3>2, Zenon
  <2>4. \A n \in Names : IsObj(slot'[n]) => Tracked(alloca_store_map'[n]) /\ Exact(alloca_store_map[n], slot[n])'
    BY <1>1, <1>9, <2>2, ZenonT(30) DEF Exact
  <2>5. ~policy'.has_irq_risk => dead' \subseteq {real'[id] : id \in freed_allocs'}
    BY <1>1, <1>10, <2>2
  <2> QED  BY <2>1, <2>2, <2>3, <2>4, <2>5, Zenon DEF PassInv
<1>14. ASSUME ExactInv
       PROVE  ExactInv'
  <2>1. Tracked(ptr_env'[dest]) => value'[dest] = <<"obj", real'[ptr_env'[dest][2]], ptr_env'[dest][3]>>
    BY <1>3, <1>14, Zenon DEF Grows
  <2>2. ~IsPtrOffset(int_env'[dest])
    BY <1>1, <1>4, <1>14, Fresh, Zenon
  <2>3. \A n \in Names : Tracked(ptr_env'[n]) => n \in Defined' /\ Exact(ptr_env[n], value[n])'
    <3> SUFFICES ASSUME NEW n \in Names, Tracked(ptr_env'[n])
                 PROVE  n \in Defined' /\ Exact(ptr_env[n], value[n])'
      BY Zenon
    <3>1. CASE n = dest
      BY <1>2, <2>1, <3>1, Zenon DEF Exact
    <3>2. CASE n # dest
      <4>1. Tracked(ptr_env[n]) /\ ptr_env'[n] = ptr_env[n] /\ value'[n] = value[n]
        BY <1>4, <1>7, <3>2, Zenon
      <4>2. n \in Defined /\ Exact(ptr_env[n], value[n])
        BY <1>14, <4>1, Zenon DEF ExactInv
      <4> QED  BY <1>2, <1>9, <4>1, <4>2, Zenon DEF Exact
    <3> QED  BY <3>1, <3>2, Zenon
  <2>4. \A n \in Names : IsPtrOffset(int_env'[n]) => n \in Defined' /\ Exact(int_env[n], value[n])'
    BY <1>2, <1>4, <1>7, <1>9, <1>14, <2>2, Zenon DEF ExactInv, Exact
  <2>5. \A n \in Names : Tracked(alloca_store_map'[n]) =>
                            n \in alloca_names' /\ Exact(alloca_store_map[n], slot[n])'
    BY <1>1, <1>9, <1>14, Zenon DEF ExactInv, Exact
  <2>6. \A n \in alloca_names' : n \in Defined' /\ IsSlot(value'[n])
    BY <1>1, <1>2, <1>7, <1>8, <1>14, Zenon DEF ExactInv
  <2>7. \A id \in freed_allocs' : real'[id] \in dead'
    BY <1>1, <1>10, <1>14, Zenon DEF ExactInv
  <2> QED  BY <2>3, <2>4, <2>5, <2>6, <2>7, Zenon DEF ExactInv
<1>15. ExactInv => FailReal'
  BY <1>3, Zenon DEF Grows
<1> QED  BY <1>11, <1>12, <1>13, <1>14, <1>15, Zenon DEF Step, SoundInv

\* Every step keeps SoundInv; and within a function ExactInv and FailIsReal.
LEMMA SoundStep ==
    ASSUME PlainCode, TypeInv, SoundInv, [Next]_vars
    PROVE  /\ SoundInv'
           /\ ExactInv /\ FailIsReal /\ func' = func => ExactInv' /\ FailIsReal'
<1>1. Step => /\ SoundInv'
              /\ ExactInv /\ FailIsReal => ExactInv' /\ FailIsReal'
  BY DEF Step, FailReal, FailIsReal
<1>2. CASE DoKmalloc \/ DoKcalloc \/ DoDmaAlloc
  <2>1. Allocates
    BY <1>2, KmallocAllocates, KcallocAllocates, DmaAllocates, Zenon DEF TypeInv
  <2> QED  BY <1>1, <2>1, AllocatesStep
<1>3. CASE DoKfree \/ DoMemset \/ DoMemcpy \/ DoDmaMap \/ DoIommuMap \/ DoInlineAsm
  BY <1>1, <1>3, KfreeStep, MemsetStep, MemcpyStep, DmaMapStep, IommuMapStep, AsmStep, Zenon
<1>4. CASE DoAlloca \/ DoStore \/ DoLoad \/ DoGep \/ DoCast \/ DoArith \/ DoOpaque
  BY <1>1, <1>4, AllocaStep, StoreStep, LoadStep, GepStep, CastStep, ArithStep, OpaqueStep, Zenon
<1>5. CASE DoNextFunction
  <2>1. func' = func + 1 /\ func \in Nat
    BY <1>5, Zenon DEF DoNextFunction, NextFunction, TypeInv, PlaceShape
  <2>2. func' # func
    BY ONLY <2>1
  <2> QED  BY <1>5, <2>2, NextFunctionSound, Zenon
<1>6. CASE DoInterrupt
  BY <1>6, InterruptStep
<1>7. CASE DoEnd \/ Done \/ UNCHANGED vars
  BY <1>7, EndStep
<1> QED  BY <1>2, <1>3, <1>4, <1>5, <1>6, <1>7, Zenon DEF Next

\* At the start nothing is tracked and nothing points into the heap.
LEMMA InitSound == Init => SoundInv /\ ExactInv /\ FailIsReal
<1> SUFFICES ASSUME Init PROVE SoundInv /\ ExactInv /\ FailIsReal
  OBVIOUS
<1>1. /\ ptr_env = [n \in Names |-> Absent] /\ int_env = [n \in Names |-> Absent]
      /\ alloca_store_map = [n \in Names |-> Absent] /\ alloca_names = {}
      /\ freed_allocs = {} /\ dma_allocs_in_func = {}
      /\ value = [n \in Names |-> Data] /\ slot = [n \in Names |-> Data] /\ cell = <<>>
      /\ dead = {} /\ hazard = {} /\ dest = 1
  BY Zenon DEF Init, AnalyzerInit, MachineInit
<1>2. verdict = NewVerdict(program.mode)
  BY Zenon DEF Init, AnalyzerInit
<1>3. verdict.result = "pass"
  BY <1>2 DEF NewVerdict
<1>4. \A n \in Names : /\ ptr_env[n] = Absent /\ int_env[n] = Absent /\ alloca_store_map[n] = Absent
                       /\ value[n] = Data /\ slot[n] = Data
  BY <1>1
<1>5. /\ Data \in Values /\ ~IsSlot(Data) /\ ~IsObj(Data)
      /\ ~Tracked(Absent) /\ ~IsPtrOffset(Absent) /\ Absent[1] # "dma"
  BY DEF Values, IsSlot, IsObj, Data, Tracked, IsPtrOffset, Absent
<1>6. MachineShape
  <2>1. value \in [Names -> Values] /\ slot \in [Names -> Values]
    BY <1>1, <1>5
  <2>2. \A a \in DOMAIN cell : cell[a] = Data
    BY <1>1
  <2>3. dead \subseteq 1..Len(object)
    BY <1>1
  <2> QED  BY <1>4, <1>5, <2>1, <2>2, <2>3, Zenon DEF MachineShape
<1>7. KindInv
  BY <1>1, <1>4, <1>5, Zenon DEF KindInv
<1>8. PassInv
  <2>1. Defined \subseteq Names
    BY <1>1, ProgramAssumption, SMTT(30) DEF Defined, Names
  <2>2. \A n \in Defined : ~IsObj(value[n])
    BY <1>4, <1>5, <2>1, Zenon
  <2>3. dead \subseteq {real[id] : id \in freed_allocs}
    BY <1>1
  <2> QED  BY <1>1, <1>4, <1>5, <2>2, <2>3, Zenon DEF PassInv
<1>9. ExactInv
  BY <1>1, <1>4, <1>5, Zenon DEF ExactInv
<1>10. FailIsReal
  BY <1>3 DEF FailIsReal
<1> QED  BY <1>6, <1>7, <1>8, <1>9, <1>10, Zenon DEF SoundInv

\* A Pass is sound for plain code: whatever straight-line code the functions of the
\* module consist of, and whatever the solver and the gate answer, a verdict of Pass
\* means that no instruction visited so far has read, written or mapped memory out of
\* bounds or after it was freed, freed it twice, or asked kcalloc for more than fits
\* (unless DMA is to be ignored).
THEOREM PassIsSound ==
    ASSUME PlainCode
    PROVE  Spec => []SoundPass
<1>1. Init => TypeInv /\ SoundInv
  BY InitTypeInv, InitSound
<1>2. TypeInv /\ SoundInv /\ [Next]_vars => TypeInv' /\ SoundInv'
  BY NextTypeInv, SoundStep, Zenon
<1>3. SoundInv => SoundPass
  BY Zenon DEF SoundInv, PassInv, SoundPass
<1> QED  BY <1>1, <1>2, <1>3, PTL DEF Spec

\* The functions are counted up.
LEMMA FuncStep ==
    ASSUME TypeInv, [Next]_vars
    PROVE  func' = func \/ (DoNextFunction /\ func' = func + 1)
<1>1. Shapes
  BY Zenon DEF TypeInv, Shapes
<1>2. CASE DoKmalloc \/ DoKcalloc \/ DoDmaAlloc
  <2>1. Allocates
    BY <1>2, KmallocAllocates, KcallocAllocates, DmaAllocates, Zenon DEF TypeInv
  <2> QED  BY <2>1, Zenon DEF Allocates
<1>3. CASE DoAlloca \/ DoLoad \/ DoGep \/ DoCast \/ DoArith \/ DoOpaque
  <2>1. Defines
    BY <1>1, <1>3, OpaqueDefines, LoadDefines, GepDefines, CastDefines, ArithDefines, Zenon
  <2> QED  BY <2>1, Zenon DEF Defines
<1>4. CASE DoKfree \/ DoMemset \/ DoMemcpy \/ DoDmaMap \/ DoIommuMap \/ DoInlineAsm
           \/ DoStore \/ DoInterrupt \/ DoEnd \/ Done \/ UNCHANGED vars
  <2>1. Stays
    BY <1>1, <1>4, CallsStay, StoreStays, RestStays, Zenon
  <2> QED  BY <2>1, Zenon DEF Stays
<1>5. CASE DoNextFunction
  BY <1>5, Zenon DEF DoNextFunction, NextFunction
<1> QED  BY <1>2, <1>3, <1>4, <1>5, Zenon DEF Next

\* What the analysis knows of the first function of a module of plain code is exact,
\* and its Fails there are real.
LEMMA ExactAlways ==
    ASSUME PlainCode
    PROVE  Spec => [](TypeInv /\ (func = 1 => ExactInv /\ FailIsReal))
<1> DEFINE First == func = 1 => ExactInv /\ FailIsReal
<1>1. Init => TypeInv /\ SoundInv /\ First
  BY InitTypeInv, InitSound, Zenon
<1>2. TypeInv /\ SoundInv /\ First /\ [Next]_vars => TypeInv' /\ SoundInv' /\ First'
  <2> SUFFICES ASSUME TypeInv, SoundInv, First, [Next]_vars PROVE TypeInv' /\ SoundInv' /\ First'
    BY Zenon
  <2>1. func' = 1 => func' = func
    <3>1. func \in Nat \ {0} /\ (func' = func \/ func' = func + 1)
      BY FuncStep, Zenon DEF TypeInv, PlaceShape
    <3> QED  BY ONLY <3>1
  <2>2. First'
    BY <2>1, SoundStep, Zenon
  <2> QED  BY <2>2, NextTypeInv, SoundStep, Zenon
<1> QED  BY <1>1, <1>2, PTL DEF Spec

\* In a module of one function of plain code a Fail is never raised against code
\* without an error, apart from the trap on assembly.
THEOREM FailsAreReal ==
    ASSUME PlainCode, \A p \in Programs : p.funcs <= 1
    PROVE  Spec => []FailIsReal
<1> DEFINE One == func = 1
<1>1. Init => One
  BY Zenon DEF Init, AnalyzerInit
<1>2. TypeInv /\ One /\ [Next]_vars => One'
  <2> SUFFICES ASSUME TypeInv, One, [Next]_vars PROVE One'
    BY Zenon
  <2>1. ~(func < program.funcs)
    BY ProgramAssumption, SMTT(30) DEF TypeInv, PlaceShape
  <2> QED  BY <2>1, FuncStep, Zenon DEF DoNextFunction
<1>3. TypeInv /\ (func = 1 => ExactInv /\ FailIsReal) => TypeInv /\ (One => FailIsReal)
  BY Zenon
<1> HIDE DEF One
<1> QED  BY <1>1, <1>2, <1>3, ExactAlways, PTL DEF Spec

\* In the first function of a module of plain code, what ptr_env and int_env hold for a
\* name is where its value points.
THEOREM ProvenanceAlwaysExact ==
    ASSUME PlainCode
    PROVE  Spec => []ProvenanceExact
<1>1. TypeInv /\ (func = 1 => ExactInv /\ FailIsReal) => ProvenanceExact
  <2> SUFFICES ASSUME TypeInv, func = 1, ExactInv PROVE ProvenanceExact
    BY Zenon DEF ProvenanceExact
  <2>1. Defined \subseteq Names
    BY ProgramAssumption DEF TypeInv, PlaceShape, Defined, Names
  <2> QED  BY <2>1, Zenon DEF ExactInv, ProvenanceExact, Exact
<1> QED  BY <1>1, ExactAlways, PTL
=============================================================================
