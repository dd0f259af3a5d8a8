------------------------ MODULE AnalyzerExactProofs -------------------------
(***************************************************************************)
(* Plain code, instruction by instruction: the ones that give a name a     *)
(* value. Each lemma XStep says that the instruction X keeps SoundInv, and *)
(* that in a module of one function it also keeps ExactInv and raises no   *)
(* Fail without an error. DefinesStep carries what is common to them.      *)
(***************************************************************************)
EXTENDS AnalyzerPolicyProofs

\* What a value is.
LEMMA ValueFacts ==
    ASSUME HeapShape, NEW v \in Values
    PROVE  /\ IsObj(v) => v = <<"obj", v[2], v[3]>> /\ v[2] \in 1..Len(object) /\ v[3] \in Int
           /\ IsSlot(v) => v = <<"slot", v[2], v[3]>>
           /\ ~IsObj(v) /\ ~IsSlot(v) => v = Data
           /\ ~(IsObj(v) /\ IsSlot(v))
BY DEF Values, IsObj, IsSlot, Data

\* What an entry is.
LEMMA EntryFacts ==
    ASSUME NEW tv
    PROVE  /\ tv \in PtrVals /\ Tracked(tv) =>
                 tv = <<tv[1], tv[2], tv[3]>> /\ tv[2] \in 1..Len(alloc_sizes) /\ tv[3] \in Int
           /\ tv \in PtrVals /\ tv[1] = "kmalloc" => Tracked(tv)
           /\ tv \in PtrVals /\ Tracked(tv) => tv # Absent /\ tv[1] \in {"kmalloc", "dma"}
           /\ tv \in IntVals /\ IsPtrOffset(tv) =>
                 tv = <<"ptr_offset", tv[2], tv[3]>> /\ tv[2] \in 1..Len(alloc_sizes) /\ tv[3] \in Int
           /\ ~Tracked(Unknown) /\ ~Tracked(Absent) /\ ~IsPtrOffset(Unknown) /\ ~IsPtrOffset(Absent)
BY DEF PtrVals, IntVals, Tracked, IsPtrOffset, Unknown, Absent

\* An exact entry and the machine agree on the bounds, and an id that is not among the
\* freed is not the id of an object whose free the analysis has seen.
LEMMA ExactFacts ==
    ASSUME HeapShape, RealInv, NEW tv, NEW v, tv[2] \in 1..Len(alloc_sizes), tv[3] \in Int, Exact(tv, v)
    PROVE  /\ IsObj(v) /\ ~IsSlot(v) /\ v \in Values /\ v = <<"obj", v[2], v[3]>>
           /\ v[2] = real[tv[2]] /\ v[2] \in 1..Len(object) /\ v[3] = tv[3]
           /\ object[v[2]] = alloc_sizes[tv[2]]
           /\ tv[2] \notin freed_allocs => v[2] \notin {real[id] : id \in freed_allocs}
<1>1. /\ v = <<"obj", real[tv[2]], tv[3]>> /\ real[tv[2]] \in 1..Len(object)
      /\ object[real[tv[2]]] = alloc_sizes[tv[2]]
  BY Zenon DEF Exact, RealInv, HeapShape
<1>2. /\ v[1] = "obj" /\ v[2] = real[tv[2]] /\ v[3] = tv[3] /\ IsObj(v) /\ ~IsSlot(v) /\ v \in Values
  BY <1>1 DEF IsObj, IsSlot, Values
<1>3. tv[2] \notin freed_allocs => v[2] \notin {real[id] : id \in freed_allocs}
  <2> SUFFICES ASSUME NEW id \in freed_allocs, real[id] = real[tv[2]] PROVE id = tv[2]
    BY <1>2
  <2>1. id \in 1..Len(real) /\ tv[2] \in 1..Len(real)
    BY DEF HeapShape
  <2> QED  BY <2>1 DEF RealInv
<1> QED  BY <1>1, <1>2, <1>3

\* The errors of an access through it.
LEMMA ExactErrors ==
    ASSUME HeapShape, RealInv, NEW tv, NEW v, tv[2] \in 1..Len(alloc_sizes), tv[3] \in Int, Exact(tv, v),
           NEW n
    PROVE  /\ v[2] \notin dead /\ ~OutOfBounds(tv, n) => Errors(v, n) = {}
           /\ v[2] \in dead \/ OutOfBounds(tv, n) => Errors(v, n) # {}
<1>1. IsObj(v) /\ v[3] = tv[3] /\ object[v[2]] = alloc_sizes[tv[2]]
  BY ExactFacts
<1>2. Errors(v, n) = (IF v[2] \in dead THEN {"uaf"} ELSE {})
                     \cup (IF OutOfBounds(tv, n) THEN {"oob"} ELSE {})
  BY <1>1, Zenon DEF Errors, OutOfBounds
<1> QED  BY <1>2

\* The invariant for modules of any number of functions.
SoundInv == MachineShape /\ KindInv /\ PassInv

\* The verdict is one SoundPass is about.
Passing == verdict.result = "pass" /\ policy.dma # "ignore"

\* A verdict of Pass comes from Pass.
LEMMA PassingLeads ==
    ASSUME NEW v, NEW w, IsVerdict(v), Leads(v, w), w.result = "pass"
    PROVE  v.result = "pass"
<1>1. /\ v.result \in {"pass", "unknown", "fail"} /\ w.result = "pass"
      /\ Badness(w.result) >= Badness(v.result)
  BY Zenon DEF Leads, IsVerdict
<1> QED  BY ONLY <1>1 DEF Badness

\* A pointer operand.
LEMMA PointerOperand ==
    ASSUME TypeInv, SoundInv, NEW op \in Addresses
    PROVE  /\ Eval(op) \in Values
           /\ ~IsLocal(op) => Eval(op) = Data
           /\ IsLocal(op) => /\ Eval(op) = value[op[2]] /\ op[2] \in Names \cap Defined \cap ptr_names
                             /\ ptr_env[op[2]] \in PtrVals
           /\ Passing /\ IsObj(Eval(op)) =>
                 IsLocal(op) /\ Tracked(ptr_env[op[2]]) /\ Exact(ptr_env[op[2]], Eval(op))
<1>1. PlaceShape /\ EnvShape /\ value \in [Names -> Values]
  BY DEF TypeInv, SoundInv, MachineShape
<1>2. IsLocal(op) => op[2] \in Names /\ op[2] \in Defined /\ op[2] \in ptr_names
  <2>1. IsLocal(op) => op[2] \in Names /\ op[2] \in Defined
    BY <1>1, OperandFacts
  <2>2. IsLocal(op) => op[2] \in ptr_names
    BY DEF Addresses, Pointers, Local, Odd, Other, IsLocal
  <2> QED  BY <2>1, <2>2
<1>3. ~IsLocal(op) => Eval(op) = Data /\ ~IsObj(Eval(op)) /\ Eval(op) \in Values
  BY DEF Eval, IsLocal, IsObj, Data, Values
<1>4. IsLocal(op) => Eval(op) = value[op[2]]
  BY DEF Eval, IsLocal
<1> QED  BY <1>1, <1>2, <1>3, <1>4 DEF EnvShape, SoundInv, PassInv, Passing

\* An integer operand.
LEMMA NumberOperand ==
    ASSUME TypeInv, SoundInv, NEW op \in Numbers \cup Consts \cup Odd({Other})
    PROVE  /\ Eval(op) \in Values /\ ~IsSlot(Eval(op))
           /\ ~IsLocal(op) => Eval(op) = Data
           /\ IsLocal(op) => /\ Eval(op) = value[op[2]] /\ op[2] \in Names \cap Defined /\ op[2] \notin ptr_names
                             /\ int_env[op[2]] \in IntVals /\ ~IsConst(op)
           /\ IsConst(op) => op[2] \in Int /\ ~IsLocal(op)
           /\ Passing /\ IsObj(Eval(op)) =>
                 IsLocal(op) /\ IsPtrOffset(int_env[op[2]]) /\ Exact(int_env[op[2]], Eval(op))
<1>1. PlaceShape /\ EnvShape /\ value \in [Names -> Values]
  BY DEF TypeInv, SoundInv, MachineShape
<1>2. op \in Locals \cup Addresses \cup Numbers \cup Lengths \cup {Other}
  BY DEF Odd, Lengths
<1>3. /\ IsLocal(op) => op[2] \in Names /\ op[2] \in Defined /\ ~IsConst(op)
      /\ IsConst(op) => op[2] \in Int /\ ~IsLocal(op)
  BY <1>1, <1>2, OperandFacts, SizeFacts
<1>4. IsLocal(op) => op[2] \notin ptr_names
  BY DEF Numbers, Local, Consts, Odd, Other, IsLocal
<1>5. ~IsLocal(op) => Eval(op) = Data /\ ~IsObj(Eval(op)) /\ ~IsSlot(Eval(op)) /\ Eval(op) \in Values
  BY DEF Eval, IsLocal, IsObj, IsSlot, Data, Values
<1>6. IsLocal(op) => Eval(op) = value[op[2]]
  BY DEF Eval, IsLocal
<1>7. ~IsSlot(Eval(op))
  BY <1>3, <1>4, <1>5, <1>6 DEF SoundInv, MachineShape
<1> QED  BY <1>1, <1>3, <1>4, <1>5, <1>6, <1>7 DEF EnvShape, SoundInv, PassInv, Passing

-----------------------------------------------------------------------------
(* Instructions that define a name. *)

\* The machine's side.
LEMMA DefinesMachine ==
    ASSUME TypeInv, MachineShape, Defines, value'[dest] \in Values,
           IsSlot(value'[dest]) =>
              dest \in alloca_names' \cap ptr_names' /\ value'[dest] = <<"slot", dest, 0>>
    PROVE  MachineShape'
<1>1. /\ value' = [value EXCEPT ![dest] = value'[dest]] /\ dest \in Names /\ dest' = dest + 1
      /\ value \in [Names -> Values] /\ dest \in Int
  BY DEF Defines, MachineShape, TypeInv, PlaceShape
<1>2. /\ Values' = Values /\ UNCHANGED <<slot, object, dead, cell>>
  BY DEF Defines, Values
<1>3. /\ \A n \in Names : n # dest => value'[n] = value[n]
      /\ \A n \in Names : n # dest => (n \in ptr_names' <=> n \in ptr_names)
      /\ alloca_names \subseteq alloca_names'
      /\ Defined \subseteq Defined' /\ dest \notin Defined
  BY <1>1, ProgramAssumption DEF Defines, Defined
<1>4. value' \in [Names -> Values]
  BY <1>1
<1>5. \A n \in Names : IsSlot(value'[n]) =>
                          n \in alloca_names' \cap ptr_names' /\ value'[n] = <<"slot", n, 0>>
  BY <1>3 DEF MachineShape
<1>6. \A n \in Names : IsObj(slot[n]) => n \in Defined' /\ IsSlot(value'[n])
  BY <1>3 DEF MachineShape
<1> QED  BY <1>2, <1>4, <1>5, <1>6, Zenon DEF MachineShape

\* DMA entries.
LEMMA DefinesKind ==
    ASSUME TypeInv, KindInv, Defines,
           ptr_env'[dest][1] = "dma" => ptr_env'[dest][2] \in dma_allocs_in_func
    PROVE  KindInv'
<1>1. \A n \in Names : n # dest => ptr_env'[n] = ptr_env[n]
  BY Zenon DEF Defines, TypeInv, EnvShape
<1> QED  BY <1>1 DEF KindInv, Defines, heapVars

\* The new name.
LEMMA DefinesDefined ==
    ASSUME Defines
    PROVE  /\ Defined' = Defined \cup {dest} /\ Defined \subseteq Names
           /\ dest \notin Defined /\ dest \in Names
<1>1. dest \in Names /\ dest' = dest + 1 /\ MaxDest \in Nat
  BY ProgramAssumption, Zenon DEF Defines
<1> QED  BY ONLY <1>1 DEF Defined, Names

\* The names, while the verdict is Pass.
LEMMA DefinesPass ==
    ASSUME TypeInv, MachineShape, PassInv, Defines,
           Passing' => /\ Passing /\ hazard' = {}
                       /\ IsObj(value'[dest]) =>
                             \/ /\ dest \in ptr_names'
                                /\ Tracked(ptr_env'[dest]) /\ Exact(ptr_env'[dest], value'[dest])
                             \/ /\ dest \notin ptr_names'
                                /\ IsPtrOffset(int_env'[dest]) /\ Exact(int_env'[dest], value'[dest])
    PROVE  PassInv'
<1> SUFFICES ASSUME Passing' PROVE PassInv'
  BY DEF PassInv, Passing
<1>1. UNCHANGED <<real, slot, dead, alloca_store_map, freed_allocs, policy>>
  BY DEF Defines, heapVars
<1>2. Defined' = Defined \cup {dest} /\ Defined \subseteq Names
  BY DefinesDefined, Zenon
<1>3. \A n \in Defined : n # dest => /\ value'[n] = value[n] /\ ptr_env'[n] = ptr_env[n]
                                     /\ int_env'[n] = int_env[n]
                                     /\ n \in ptr_names' <=> n \in ptr_names
  BY <1>2 DEF Defines, TypeInv, EnvShape, MachineShape
<1>4. /\ \A n \in Names : IsObj(slot[n]) => Tracked(alloca_store_map[n]) /\ Exact(alloca_store_map[n], slot[n])
      /\ ~policy.has_irq_risk => dead \subseteq {real[id] : id \in freed_allocs}
  BY DEF PassInv, Passing
<1>5. \A n \in Defined' : IsObj(value'[n]) =>
         IF n \in ptr_names'
         THEN Tracked(ptr_env'[n]) /\ Exact(ptr_env'[n], value'[n])
         ELSE IsPtrOffset(int_env'[n]) /\ Exact(int_env'[n], value'[n])
  <2>1. \A n \in Defined : n # dest => (IsObj(value'[n]) =>
           IF n \in ptr_names'
           THEN Tracked(ptr_env'[n]) /\ Exact(ptr_env'[n], value'[n])
           ELSE IsPtrOffset(int_env'[n]) /\ Exact(int_env'[n], value'[n]))
    BY <1>3, Zenon DEF PassInv, Passing
  <2> QED  BY <1>2, <2>1
<1> QED  BY <1>1, <1>4, <1>5, ZenonT(30) DEF PassInv, Passing, Exact

\* What is tracked, in a module of one function.
LEMMA DefinesExact ==
    ASSUME TypeInv, MachineShape, ExactInv, Defines,
           Tracked(ptr_env'[dest]) => Exact(ptr_env'[dest], value'[dest]),
           IsPtrOffset(int_env'[dest]) => Exact(int_env'[dest], value'[dest]),
           alloca_names' = alloca_names \/ IsSlot(value'[dest])
    PROVE  ExactInv'
<1>1. UNCHANGED <<real, slot, dead, alloca_store_map, freed_allocs>>
  BY Zenon DEF Defines, heapVars
<1>2. Defined' = Defined \cup {dest} /\ Defined \subseteq Names /\ dest \notin Defined /\ dest \in Names
  BY DefinesDefined, Zenon
<1>3. \A n \in Names : n # dest => /\ value'[n] = value[n] /\ ptr_env'[n] = ptr_env[n]
                                   /\ int_env'[n] = int_env[n]
  BY DEF Defines, TypeInv, EnvShape, MachineShape
<1>4. \A n \in Names : Tracked(ptr_env'[n]) => n \in Defined' /\ Exact(ptr_env'[n], value'[n])
  BY <1>2, <1>3, Zenon DEF ExactInv
<1>5. \A n \in Names : IsPtrOffset(int_env'[n]) => n \in Defined' /\ Exact(int_env'[n], value'[n])
  BY <1>2, <1>3 DEF ExactInv
<1>6. alloca_names \subseteq Names /\ alloca_names' \in {alloca_names, alloca_names \cup {dest}}
  BY DEF Defines, TypeInv, EnvShape
<1>7. \A n \in alloca_names' : n \in Defined' /\ IsSlot(value'[n])
  BY <1>2, <1>3, <1>6, Zenon DEF ExactInv
<1>8. \A n \in Names : Tracked(alloca_store_map[n]) =>
                          n \in alloca_names' /\ Exact(alloca_store_map[n], slot[n])
  BY <1>6 DEF ExactInv
<1> QED  BY <1>1, <1>4, <1>5, <1>7, <1>8, Zenon DEF ExactInv, Exact

\* FailIsReal, without its phase.
FailReal ==
    verdict.result = "fail" =>
        hazard # {} \/ (policy.inline_asm = "trap" /\ verdict.inline_asm_vcs > 0)

\* What every instruction does: SoundInv goes on to hold, and so does ExactInv, under
\* which a Fail is real.
Step == SoundInv' /\ (ExactInv => ExactInv' /\ FailReal')

\* verdict' = verdict and mark_unknown, in Visit.
LEMMA Unfailing ==
    ASSUME TypeInv, Visit, verdict' \in {verdict, mark_unknown(verdict)}
    PROVE  /\ FailReal'
           /\ Passing' => Passing /\ verdict' = verdict
BY DEF TypeInv, IsVerdict, Visit, mark_unknown, FailReal, Passing

\* An instruction of which nothing can go wrong.
LEMMA DefinesStep ==
    ASSUME TypeInv, SoundInv, Defines, Visit, hazard' = hazard,
           verdict' \in {verdict, mark_unknown(verdict)},
           value'[dest] \in Values,
           IsSlot(value'[dest]) =>
              dest \in alloca_names' \cap ptr_names' /\ value'[dest] = <<"slot", dest, 0>>,
           ptr_env'[dest][1] = "dma" => ptr_env'[dest][2] \in dma_allocs_in_func,
           Passing' /\ IsObj(value'[dest]) =>
              \/ dest \in ptr_names' /\ Tracked(ptr_env'[dest]) /\ Exact(ptr_env'[dest], value'[dest])
              \/ dest \notin ptr_names' /\ IsPtrOffset(int_env'[dest]) /\ Exact(int_env'[dest], value'[dest]),
           ExactInv =>
              /\ Tracked(ptr_env'[dest]) => Exact(ptr_env'[dest], value'[dest])
              /\ IsPtrOffset(int_env'[dest]) => Exact(int_env'[dest], value'[dest])
              /\ alloca_names' = alloca_names \/ IsSlot(value'[dest])
    PROVE  Step
<1>1. MachineShape'
  BY DefinesMachine DEF SoundInv
<1>2. KindInv'
  BY DefinesKind DEF SoundInv
<1>3. FailReal' /\ (Passing' => Passing)
  BY Unfailing
<1>4. PassInv'
  <2>1. Passing' => hazard' = {}
    BY <1>3, Zenon DEF SoundInv, PassInv, Passing
  <2> QED  BY <1>3, <2>1, DefinesPass, Zenon DEF SoundInv
<1>5. ExactInv => ExactInv'
  BY DefinesExact, Zenon DEF SoundInv
<1> QED  BY <1>1, <1>2, <1>3, <1>4, <1>5, Zenon DEF Step, SoundInv

\* What the entries of a name that is not defined are, in a module of one function.
LEMMA Fresh ==
    ASSUME TypeInv, ExactInv, dest \in Names
    PROVE  ~Tracked(ptr_env[dest]) /\ ~IsPtrOffset(int_env[dest]) /\ dest \notin alloca_names
           /\ ~Tracked(alloca_store_map[dest])
<1>1. dest \notin Defined
  BY ProgramAssumption DEF TypeInv, PlaceShape, Defined
<1> QED  BY <1>1 DEF ExactInv

\* What the DMA entries of the maps are.
LEMMA DmaEntry ==
    ASSUME TypeInv, SoundInv, NEW n \in Names
    PROVE  /\ ptr_env[n][1] = "dma" => ptr_env[n][2] \in dma_allocs_in_func
           /\ alloca_store_map[n][1] = "dma" => alloca_store_map[n][2] \in dma_allocs_in_func
           /\ \A v : Exact(ptr_env[n], v) /\ ptr_env[n][1] = "dma" => v[2] \in dma_objects
BY SMTT(30) DEF SoundInv, KindInv, Exact

\* alloca.
LEMMA AllocaStep ==
    ASSUME PlainCode, TypeInv, SoundInv, DoAlloca
    PROVE  Step
<1>1. Defines
  BY OpaqueDefines DEF TypeInv, Shapes
<1>2. /\ Visit /\ hazard' = hazard /\ verdict' = verdict
      /\ ptr_env' = ptr_env /\ int_env' = int_env
      /\ value' = [value EXCEPT ![dest] = <<"slot", dest, 0>>]
      /\ alloca_names' = alloca_names \cup {dest} /\ ptr_names' = ptr_names \cup {dest}
  BY Zenon DEF DoAlloca, Alloca, VisitDef, RunDefine, Define, DefinesPtr
<1>3. dest \in Names
  BY <1>1 DEF Defines
<1>4. value'[dest] = <<"slot", dest, 0>>
  BY <1>2, <1>3 DEF SoundInv, MachineShape
<1>5. /\ value'[dest] \in Values /\ IsSlot(value'[dest]) /\ ~IsObj(value'[dest])
  BY <1>3, <1>4 DEF Values, IsSlot, IsObj
<1>6. ExactInv => ~Tracked(ptr_env'[dest]) /\ ~IsPtrOffset(int_env'[dest])
  BY <1>2, <1>3, Fresh, Zenon
<1>7. ptr_env'[dest][1] = "dma" => ptr_env'[dest][2] \in dma_allocs_in_func
  BY <1>2, <1>3, DmaEntry, Zenon
<1> QED  BY <1>1, <1>2, <1>4, <1>5, <1>6, <1>7, DefinesStep

\* An instruction the analysis does not know returns no address without "alias".
LEMMA OpaqueStep ==
    ASSUME PlainCode, TypeInv, SoundInv, DoOpaque
    PROVE  Step
<1>1. Defines
  BY OpaqueDefines DEF TypeInv, Shapes
<1>2. /\ Visit /\ verdict' = verdict
      /\ ptr_env' = ptr_env /\ int_env' = int_env /\ alloca_names' = alloca_names
  BY Zenon DEF DoOpaque, Opaque, VisitDef, envVars
<1>3. hazard' = hazard /\ value' = [value EXCEPT ![dest] = Data]
  BY DEF DoOpaque, RunDefine, Define, PlainCode
<1>4. dest \in Names
  BY <1>1 DEF Defines
<1>5. value'[dest] = Data /\ Data \in Values /\ ~IsSlot(Data) /\ ~IsObj(Data)
  BY <1>3, <1>4 DEF SoundInv, MachineShape, Values, IsSlot, IsObj, Data
<1>6. ExactInv => ~Tracked(ptr_env'[dest]) /\ ~IsPtrOffset(int_env'[dest])
  BY <1>2, <1>4, Fresh, Zenon
<1>7. ptr_env'[dest][1] = "dma" => ptr_env'[dest][2] \in dma_allocs_in_func
  BY <1>2, <1>4, DmaEntry
<1> QED  BY <1>1, <1>2, <1>3, <1>5, <1>6, <1>7, DefinesStep

\* The casts keep the address and the entry.
LEMMA CastStep ==
    ASSUME PlainCode, TypeInv, SoundInv, DoCast
    PROVE  Step
<1>1. Defines
  BY CastDefines DEF TypeInv, Shapes
<1>2. dest \in Names /\ HeapShape /\ RealInv
  BY <1>1, Zenon DEF Defines, TypeInv
<1>3. ptr_env[dest][1] = "dma" => ptr_env[dest][2] \in dma_allocs_in_func
  BY <1>2, DmaEntry, Zenon
<1>4. ASSUME NEW op \in Addresses, MayCast(Eval(op)), PtrToInt(op), DefinesInt, RunDefine(dest, Eval(op))
      PROVE  Step
  <2> DEFINE pv == ptr_env[op[2]]
             new == IF IsLocal(op) /\ pv[1] = "kmalloc" THEN <<"ptr_offset", pv[2], pv[3]>> ELSE Unknown
  <2>1. /\ Visit /\ hazard' = hazard /\ verdict' \in {verdict, mark_unknown(verdict)}
        /\ ptr_env' = ptr_env /\ int_env' = [int_env EXCEPT ![dest] = new]
        /\ value' = [value EXCEPT ![dest] = Eval(op)]
        /\ alloca_names' = alloca_names /\ ptr_names' = ptr_names \ {dest}
    BY <1>4, Zenon DEF PtrToInt, VisitDef, SetInt, RunDefine, Define, DefinesInt
  <2>2. value'[dest] = Eval(op) /\ int_env'[dest] = new
    BY <1>2, <2>1, Zenon DEF SoundInv, MachineShape, TypeInv, EnvShape
  <2>3. Eval(op) \in Values /\ ~IsSlot(Eval(op)) /\ (IsObj(Eval(op)) => Eval(op)[2] \notin dma_objects)
    BY <1>4, PointerOperand DEF MayCast, PlainCode
  <2>4. Passing /\ IsObj(Eval(op)) => IsPtrOffset(new) /\ Exact(new, Eval(op))
    <3> SUFFICES ASSUME Passing, IsObj(Eval(op)) PROVE IsPtrOffset(new) /\ Exact(new, Eval(op))
      BY Zenon
    <3>1. IsLocal(op) /\ op[2] \in Names /\ Tracked(pv) /\ Exact(pv, Eval(op))
      BY PointerOperand, Zenon
    <3>2. pv[1] = "kmalloc"
      BY <2>3, <3>1, DmaEntry, Zenon DEF Tracked
    <3> QED  BY <3>1, <3>2 DEF IsPtrOffset, Exact
  <2>5. ExactInv => /\ ~Tracked(ptr_env[dest])
                    /\ IsPtrOffset(new) => Exact(new, Eval(op))
    <3> SUFFICES ASSUME ExactInv PROVE ~Tracked(ptr_env[dest]) /\ (IsPtrOffset(new) => Exact(new, Eval(op)))
      BY Zenon
    <3>1. ~Tracked(ptr_env[dest])
      BY <1>2, Fresh
    <3>2. CASE IsLocal(op) /\ pv[1] = "kmalloc"
      <4>1. op[2] \in Names /\ Eval(op) = value[op[2]] /\ Tracked(pv)
        BY <3>2, PointerOperand, Zenon DEF Tracked
      <4>2. Exact(pv, Eval(op))
        BY <4>1 DEF ExactInv
      <4> QED  BY <3>1, <3>2, <4>2, Zenon DEF Exact
    <3>3. CASE ~(IsLocal(op) /\ pv[1] = "kmalloc")
      BY <3>1, <3>3, EntryFacts
    <3> QED  BY <3>2, <3>3, Zenon
  <2> HIDE DEF new
  <2>6. Passing' => Passing
    BY <2>1, Unfailing
  <2>7. dest \notin ptr_names'
    BY <2>1, Zenon
  <2> QED  BY <1>1, <1>3, <2>1, <2>2, <2>3, <2>4, <2>5, <2>6, <2>7, DefinesStep, Zenon
<1>5. ASSUME NEW op \in Numbers \cup Odd({Other}), IntToPtr(op), DefinesPtr, RunDefine(dest, Eval(op))
      PROVE  Step
  <2> DEFINE iv == int_env[op[2]]
             new == IF IsLocal(op) /\ iv[1] = "ptr_offset" THEN <<"kmalloc", iv[2], iv[3]>> ELSE Unknown
  <2>1. /\ Visit /\ hazard' = hazard /\ verdict' \in {verdict, mark_unknown(verdict)}
        /\ int_env' = int_env /\ ptr_env' = [ptr_env EXCEPT ![dest] = new]
        /\ value' = [value EXCEPT ![dest] = Eval(op)]
        /\ alloca_names' = alloca_names /\ ptr_names' = ptr_names \cup {dest}
    BY <1>5, Zenon DEF IntToPtr, VisitDef, SetPtr, RunDefine, Define, DefinesPtr
  <2>2. value'[dest] = Eval(op) /\ ptr_env'[dest] = new
    BY <1>2, <2>1 DEF SoundInv, MachineShape, TypeInv, EnvShape
  <2>3. Eval(op) \in Values /\ ~IsSlot(Eval(op))
    BY NumberOperand, Zenon
  <2>4. Passing /\ IsObj(Eval(op)) => Tracked(new) /\ Exact(new, Eval(op))
    <3> SUFFICES ASSUME Passing, IsObj(Eval(op)) PROVE Tracked(new) /\ Exact(new, Eval(op))
      OBVIOUS
    <3>1. IsLocal(op) /\ IsPtrOffset(iv) /\ Exact(iv, Eval(op))
      BY NumberOperand, Zenon
    <3> QED  BY <3>1, Zenon DEF IsPtrOffset, Tracked, Exact
  <2>5. ExactInv => /\ ~IsPtrOffset(int_env[dest])
                    /\ Tracked(new) => Exact(new, Eval(op))
    <3> SUFFICES ASSUME ExactInv PROVE ~IsPtrOffset(int_env[dest]) /\ (Tracked(new) => Exact(new, Eval(op)))
      BY Zenon
    <3>1. ~IsPtrOffset(int_env[dest])
      BY <1>2, Fresh, Zenon
    <3>2. CASE IsLocal(op) /\ iv[1] = "ptr_offset"
      <4>1. op[2] \in Names /\ Eval(op) = value[op[2]] /\ IsPtrOffset(iv)
        BY <3>2, NumberOperand, Zenon DEF IsPtrOffset
      <4>2. Exact(iv, Eval(op))
        BY <4>1 DEF ExactInv
      <4> QED  BY <3>1, <3>2, <4>2, Zenon DEF Exact
    <3>3. CASE ~(IsLocal(op) /\ iv[1] = "ptr_offset")
      BY <3>1, <3>3, EntryFacts
    <3> QED  BY <3>2, <3>3, Zenon
  <2>6. new[1] # "dma"
    BY DEF Unknown
  <2> HIDE DEF new
  <2>7. Passing' => Passing
    BY <2>1, Unfailing
  <2>8. dest \in ptr_names'
    BY <2>1, Zenon
  <2> QED  BY <1>1, <2>1, <2>2, <2>3, <2>4, <2>5, <2>6, <2>7, <2>8, DefinesStep, Zenon
<1>6. ASSUME NEW op \in Addresses, ~IsSlot(Eval(op)), BitCast(op), DefinesPtr, RunDefine(dest, Eval(op))
      PROVE  Step
  <2> DEFINE pv == ptr_env[op[2]]
             new == IF IsLocal(op) /\ pv # Absent THEN pv ELSE Unknown
  <2>1. /\ Visit /\ hazard' = hazard /\ verdict' \in {verdict, mark_unknown(verdict)}
        /\ int_env' = int_env /\ ptr_env' = [ptr_env EXCEPT ![dest] = new]
        /\ value' = [value EXCEPT ![dest] = Eval(op)]
        /\ alloca_names' = alloca_names /\ ptr_names' = ptr_names \cup {dest}
    BY <1>6, Zenon DEF BitCast, VisitDef, SetPtr, RunDefine, Define, DefinesPtr
  <2>2. value'[dest] = Eval(op) /\ ptr_env'[dest] = new
    BY <1>2, <2>1, Zenon DEF SoundInv, MachineShape, TypeInv, EnvShape
  <2>3. Eval(op) \in Values
    BY PointerOperand
  <2>4. Passing /\ IsObj(Eval(op)) => Tracked(new) /\ Exact(new, Eval(op))
    BY PointerOperand, EntryFacts, Zenon
  <2>5. ExactInv => /\ ~IsPtrOffset(int_env[dest])
                    /\ Tracked(new) => Exact(new, Eval(op))
    BY <1>2, Fresh, PointerOperand, EntryFacts, ZenonT(30) DEF ExactInv
  <2>6. new[1] = "dma" => new[2] \in dma_allocs_in_func
    BY PointerOperand, DmaEntry, Zenon DEF Unknown
  <2> HIDE DEF new
  <2>7. Passing' => Passing
    BY <2>1, Unfailing
  <2>8. dest \in ptr_names'
    BY <2>1, Zenon
  <2> QED  BY <1>1, <1>6, <2>1, <2>2, <2>3, <2>4, <2>5, <2>6, <2>7, <2>8, DefinesStep, Zenon
<1> QED  BY <1>4, <1>5, <1>6, Zenon DEF DoCast, PlainCode

\* A load or a store through addr.
LEMMA DerefFacts ==
    ASSUME PlainCode, TypeInv, SoundInv, Visit, NEW addr \in Addresses, NEW size,
           NEW n \in TrueSizes(size), NEW kind,
           verdict' \in IF IsLocal(addr) THEN Deref(verdict, ptr_env[addr[2]], size, kind)
                        ELSE {verdict}
    PROVE  /\ Passing' => Passing /\ Errors(Eval(addr), n) = {}
           /\ ExactInv /\ verdict'.result = "fail" => Errors(Eval(addr), n) # {}
<1> DEFINE pv == ptr_env[addr[2]]
           a == Eval(addr)
<1>1. IsVerdict(verdict) /\ GateInv(verdict) /\ HeapShape /\ RealInv
  BY DEF TypeInv
<1>2. verdict.result # "fail" /\ policy' = policy
  BY Zenon DEF Visit
<1>3. a \in Values
  BY PointerOperand, Zenon
<1>0. size # NoSize => n = size
  BY Zenon DEF TrueSizes, PlainCode
<1>4. CASE ~IsLocal(addr)
  <2>1. verdict' = verdict /\ a = Data
    BY <1>4, PointerOperand, Zenon
  <2>2. Errors(a, n) = {}
    BY <2>1, SMTT(30) DEF Errors, IsObj, Data
  <2> QED  BY <1>2, <2>1, <2>2, Zenon DEF Passing
<1>5. CASE IsLocal(addr)
  <2>1. verdict' \in Deref(verdict, pv, size, kind)
    BY <1>5, Zenon
  <2>2. pv \in PtrVals /\ addr[2] \in Names /\ a = value[addr[2]]
    BY <1>5, PointerOperand, Zenon
  <2> HIDE DEF pv, a
  <2>3. /\ Leads(verdict, verdict')
        /\ verdict'.result = "pass" /\ Tracked(pv) =>
              pv[2] \notin freed_allocs /\ ~OutOfBounds(pv, n) /\ ~policy.has_irq_risk
        /\ verdict'.result = "fail" => Tracked(pv) /\ (pv[2] \in freed_allocs \/ OutOfBounds(pv, n))
    BY <1>0, <1>1, <1>2, <2>1, DerefLeads, Zenon
  <2>4. ASSUME Passing'
        PROVE  Passing /\ Errors(a, n) = {}
    <3>1. Passing
      BY <1>1, <1>2, <2>3, <2>4 DEF Passing, Leads, IsVerdict, Badness
    <3>2. CASE ~IsObj(a)
      BY <3>1, <3>2, Zenon DEF Errors
    <3>3. CASE IsObj(a)
      <4>1. Tracked(pv) /\ Exact(pv, a)
        BY <3>1, <3>3, PointerOperand, Zenon DEF pv, a
      <4>2. pv[2] \notin freed_allocs /\ ~OutOfBounds(pv, n) /\ ~policy.has_irq_risk
        BY <2>3, <2>4, <4>1 DEF Passing
      <4>3. pv[2] \in 1..Len(alloc_sizes) /\ pv[3] \in Int
        BY <2>2, <4>1, EntryFacts, Zenon
      <4>4. a[2] \notin dead
        <5>1. a[2] \notin {real[id] : id \in freed_allocs}
          BY <1>1, <4>1, <4>2, <4>3, ExactFacts, Zenon
        <5> QED  BY <3>1, <4>2, <5>1, Zenon DEF SoundInv, PassInv, Passing
      <4> QED  BY <1>1, <3>1, <4>1, <4>2, <4>3, <4>4, ExactErrors, Zenon
    <3> QED  BY <3>2, <3>3
  <2>5. ASSUME ExactInv, verdict'.result = "fail"
        PROVE  Errors(a, n) # {}
    <3>1. Tracked(pv) /\ (pv[2] \in freed_allocs \/ OutOfBounds(pv, n))
      BY <2>3, <2>5, Zenon
    <3>2. Exact(pv, a)
      BY <2>2, <2>5, <3>1, Zenon DEF ExactInv, pv
    <3>3. pv[2] \in 1..Len(alloc_sizes) /\ pv[3] \in Int
      BY <2>2, <3>1, EntryFacts, Zenon
    <3>4. pv[2] \in freed_allocs => a[2] \in dead
      <4>1. a[2] = real[pv[2]]
        BY <1>1, <3>2, <3>3, ExactFacts, Zenon
      <4>2. \A id \in freed_allocs : real[id] \in dead
        BY <2>5, Zenon DEF ExactInv
      <4> QED  BY <4>1, <4>2, Zenon
    <3> QED  BY <1>1, <3>1, <3>2, <3>3, <3>4, ExactErrors, Zenon
  <2> QED  BY <2>4, <2>5 DEF a
<1> QED  BY <1>4, <1>5, Zenon

\* The content of the slot an operand points to.
LEMMA SlotOperand ==
    ASSUME TypeInv, SoundInv, NEW addr \in Addresses, IsSlot(Eval(addr))
    PROVE  /\ IsLocal(addr) /\ addr[2] \in Names \cap alloca_names
           /\ Eval(addr) = <<"slot", addr[2], 0>> /\ Eval(addr)[2] = addr[2] /\ Eval(addr)[3] = 0
<1>1. IsLocal(addr)
  BY PointerOperand, SMTT(30) DEF IsSlot, Data
<1>2. Eval(addr) = value[addr[2]] /\ addr[2] \in Names
  BY <1>1, PointerOperand
<1>3. Eval(addr) = <<"slot", addr[2], 0>> /\ addr[2] \in alloca_names
  BY <1>2 DEF SoundInv, MachineShape
<1> QED  BY <1>1, <1>2, <1>3, SMTT(30)

\* A load gets back from a slot what was stored there.
LEMMA LoadStep ==
    ASSUME PlainCode, TypeInv, SoundInv, DoLoad
    PROVE  Step
<1> PICK addr \in Addresses, size \in AccessSizes :
       Load(addr, size) /\ \E n \in TrueSizes(size) : RunLoad(dest, Eval(addr), n)
  BY Zenon DEF DoLoad
<1> PICK n \in TrueSizes(size) : RunLoad(dest, Eval(addr), n)
  BY Zenon
<1> DEFINE a == Eval(addr)
           kept == IsLocal(addr) /\ addr[2] \in alloca_names /\ alloca_store_map[addr[2]] # Absent
           new == IF kept THEN alloca_store_map[addr[2]] ELSE ptr_env[dest]
           v == IF IsSlot(a) THEN slot[addr[2]] ELSE Data
<1>1. Defines
  BY LoadDefines DEF TypeInv, Shapes
<1>2. dest \in Names
  BY <1>1 DEF Defines
<1>3. /\ Visit /\ UNCHANGED <<int_env, alloca_names>> /\ ptr_names' = ptr_names \cup {dest}
      /\ hazard' = hazard \cup Errors(a, n)
      /\ verdict' \in IF IsLocal(addr) THEN Deref(verdict, ptr_env[addr[2]], size, "load") ELSE {verdict}
  BY Zenon DEF DoLoad, Load, RunLoad, VisitDef, DefinesPtr
<1>4. ptr_env'[dest] = new
  BY <1>2 DEF Load, SetPtr, TypeInv, EnvShape
<1>5. value'[dest] = v
  <2>1. IsSlot(a) => a[2] = addr[2] /\ a[3] = 0
    BY SlotOperand
  <2>2. \A x \in DOMAIN cell : cell[x] = Data
    BY DEF SoundInv, MachineShape
  <2>3. value' = [value EXCEPT ![dest] = v]
    BY <2>1, <2>2, Zenon DEF RunLoad, Define
  <2> HIDE DEF v
  <2> QED  BY <1>2, <2>3, Zenon DEF SoundInv, MachineShape
<1>6. v \in Values /\ ~IsSlot(v)
  <2>1. CASE IsSlot(a)
    BY <2>1, SlotOperand, Zenon DEF SoundInv, MachineShape
  <2>2. CASE ~IsSlot(a)
    BY <2>2, Zenon DEF Values, IsSlot, Data
  <2> QED  BY <2>1, <2>2, Zenon
<1>7. IsObj(v) => IsSlot(a) /\ v = slot[addr[2]] /\ IsLocal(addr) /\ addr[2] \in Names \cap alloca_names
  BY SlotOperand, Zenon DEF IsObj, Data
<1>8. addr[2] \in Names => alloca_store_map[addr[2]] \in PtrVals
  BY Zenon DEF TypeInv, EnvShape
<1>9. Passing /\ IsObj(v) => Tracked(new) /\ Exact(new, v)
  <2> SUFFICES ASSUME Passing, IsObj(v) PROVE Tracked(new) /\ Exact(new, v)
    BY Zenon
  <2> HIDE DEF v
  <2>1. Tracked(alloca_store_map[addr[2]]) /\ Exact(alloca_store_map[addr[2]], v)
    BY <1>7, Zenon DEF SoundInv, PassInv, Passing
  <2>2. kept
    BY <1>7, <1>8, <2>1, EntryFacts, Zenon
  <2> QED  BY <2>1, <2>2, Zenon
<1>10. ASSUME ExactInv, Tracked(new)
       PROVE  Exact(new, v)
  <2>1. CASE kept
    <3>1. addr[2] \in Names /\ a = value[addr[2]]
      BY <2>1, PointerOperand, Zenon
    <3>2. IsSlot(a)
      BY <1>10, <2>1, <3>1, Zenon DEF ExactInv
    <3> QED  BY <1>10, <2>1, <3>1, <3>2, Zenon DEF ExactInv
  <2>2. CASE ~kept
    BY <1>2, <1>10, <2>2, Fresh, Zenon
  <2> QED  BY <2>1, <2>2, Zenon
<1>11. new[1] = "dma" => new[2] \in dma_allocs_in_func
  BY <1>2, PointerOperand, DmaEntry, Zenon
<1> HIDE DEF new, v, kept
<1>12. /\ Passing' => Passing /\ Errors(a, n) = {}
       /\ ExactInv /\ verdict'.result = "fail" => Errors(a, n) # {}
  BY <1>3, DerefFacts, Zenon
<1>13. MachineShape'
  BY <1>1, <1>5, <1>6, DefinesMachine, Zenon DEF SoundInv
<1>14. KindInv'
  BY <1>1, <1>4, <1>11, DefinesKind, Zenon DEF SoundInv
<1>15. PassInv'
  <2>1. Passing' => hazard' = {}
    BY <1>3, <1>12, Zenon DEF SoundInv, PassInv, Passing
  <2>2. dest \in ptr_names'
    BY <1>3, Zenon
  <2> QED  BY <1>1, <1>4, <1>5, <1>9, <1>12, <2>1, <2>2, DefinesPass, Zenon DEF SoundInv
<1>16. ASSUME ExactInv
       PROVE  ExactInv' /\ FailReal'
  <2>1. ~IsPtrOffset(int_env'[dest])
    BY <1>2, <1>3, <1>16, Fresh, Zenon
  <2>2. ExactInv'
    BY <1>1, <1>3, <1>4, <1>5, <1>10, <1>16, <2>1, DefinesExact, Zenon DEF SoundInv
  <2>3. FailReal'
    BY <1>3, <1>12, <1>16, Zenon DEF FailReal
  <2> QED  BY <2>2, <2>3, Zenon
<1> QED  BY <1>13, <1>14, <1>15, <1>16 DEF Step, SoundInv

\* An address moved by so many bytes, where no arithmetic wraps.
Moved(v, by) == IF v = Data THEN Data ELSE <<v[1], v[2], v[3] + by>>

\* In plain code no arithmetic wraps, and constants mean what they read.
LEMMA PlainMoves ==
    ASSUME PlainCode
    PROVE  /\ \A op, by : Moves(op, by) => RunDefine(dest, Moved(Eval(op), by))
           /\ \A c : Meanings(c) = {c}
<1>1. ASSUME NEW op, NEW by, Moves(op, by)
      PROVE  RunDefine(dest, Moved(Eval(op), by))
  <2>1. CASE Eval(op) = Data
    BY <1>1, <2>1, Zenon DEF Moves, Moved, Shift
  <2>2. CASE Eval(op) # Data
    BY <1>1, <2>2, Zenon DEF Moves, Moved, PlainCode
  <2> QED  BY <2>1, <2>2, Zenon
<1>2. \A c : Meanings(c) = {c}
  BY Zenon DEF Meanings, PlainCode
<1> QED  BY <1>1, <1>2, Zenon

\* A constant shifts an address and its entry alike.
LEMMA ShiftExact ==
    ASSUME HeapShape, RealInv, NEW tv, tv[2] \in 1..Len(alloc_sizes), tv[3] \in Int,
           NEW v, Exact(tv, v), NEW by \in Int, NEW w, w[2] = tv[2], w[3] = tv[3] + by
    PROVE  Exact(w, Moved(v, by))
<1>1. v = <<"obj", real[tv[2]], tv[3]>> /\ v # Data
  BY DEF Exact, Data
<1>2. v[1] = "obj" /\ v[2] = real[tv[2]] /\ v[3] = tv[3]
  BY <1>1
<1> QED  BY <1>1, <1>2 DEF Moved, Exact

\* A shifted value is a value.
LEMMA ShiftFacts ==
    ASSUME HeapShape, NEW v \in Values, ~IsSlot(v), NEW by \in Int
    PROVE  Moved(v, by) \in Values /\ ~IsSlot(Moved(v, by)) /\ (IsObj(Moved(v, by)) => IsObj(v))
<1>1. CASE v = Data
  BY <1>1 DEF Moved, IsSlot, IsObj, Data
<1>2. CASE v # Data
  <2>1. v = <<"obj", v[2], v[3]>> /\ v[2] \in 1..Len(object) /\ v[3] \in Int /\ IsObj(v)
    BY <1>2, ValueFacts
  <2>2. Moved(v, by) = <<"obj", v[2], v[3] + by>>
    BY <1>2, <2>1 DEF Moved, IsObj
  <2> QED  BY <2>1, <2>2, SMTT(30) DEF Values, IsSlot, IsObj
<1> QED  BY <1>1, <1>2

\* A GEP with constant indices adds what infer_gep_offset adds.
LEMMA GepOffset ==
    ASSUME PlainCode, NEW indices, GepResolves(indices),
           indices \in {<<i>> : i \in {<<"const", c>> : c \in Indices} \cup Odd({Other})}
                       \cup (({<<"const", c>> : c \in Indices} \cup Odd({Other}))
                             \X ({<<"const", c>> : c \in Indices} \cup Odd({Other})))
    PROVE  \E by \in Int : /\ TrueGep(indices) = {by}
                           /\ \A b \in Int : infer_gep_offset(indices, b) = b + by
<1> DEFINE index == {<<"const", c>> : c \in Indices} \cup Odd({Other})
<1>1. U64Max \in Nat /\ Indices \subseteq Nat /\ Strides[1] = 8 /\ Strides[2] = 4
  BY ProgramAssumption DEF PlainCode
<1>2. \A i \in index : IsConst(i) => i[2] \in Indices
  BY DEF Odd, Other, IsConst
<1>3. \A c \in Indices : /\ c \in Nat /\ saturating_mul(c, 8) = c * 8 /\ saturating_mul(c, 4) = c * 4
  <2> TAKE c \in Indices
  <2>1. c \in Nat /\ 8 * c <= U64Max
    BY <1>1 DEF PlainCode
  <2> QED  BY <1>1, <2>1 DEF saturating_mul
<1>4. ASSUME NEW i \in index, indices = <<i>>
      PROVE  \E by \in Int : /\ TrueGep(indices) = {by}
                             /\ \A b \in Int : infer_gep_offset(indices, b) = b + by
  <2>1. 1 \in DOMAIN indices /\ indices[1] = i /\ Len(indices) = 1
    BY <1>4, SMTT(30)
  <2>2. IsConst(i)
    BY <2>1, Zenon DEF GepResolves
  <2>3. i[2] \in Nat /\ saturating_mul(i[2], 8) = i[2] * 8
    BY <1>2, <1>3, <2>2, Zenon
  <2>4. TrueGep(indices) = {i[2] * 8}
    <3>1. Meanings(indices[1][2]) = {i[2]}
      BY <2>1, PlainMoves, Zenon
    <3>2. \A x : x \in TrueGep(indices) <=> x = i[2] * 8 + 0 * 4
      BY ONLY <1>1, <2>1, <3>1 DEF TrueGep
    <3>3. i[2] * 8 + 0 * 4 = i[2] * 8
      BY ONLY <2>3
    <3> QED  BY <3>2, <3>3, Zenon
  <2>5. \A b \in Int : infer_gep_offset(indices, b) = b + i[2] * 8
    BY <1>1, <1>4, <2>3, GepOne, Zenon
  <2>6. i[2] * 8 \in Int
    BY <2>3
  <2> QED  BY <2>4, <2>5, <2>6, Zenon
<1>5. ASSUME NEW i \in index, NEW j \in index, indices = <<i, j>>
      PROVE  \E by \in Int : /\ TrueGep(indices) = {by}
                             /\ \A b \in Int : infer_gep_offset(indices, b) = b + by
  <2>1. 1 \in DOMAIN indices /\ indices[1] = i /\ 2 \in DOMAIN indices /\ indices[2] = j /\ Len(indices) = 2
    BY <1>5, SMTT(30)
  <2>2. IsConst(i) /\ IsConst(j)
    BY <2>1 DEF GepResolves
  <2>3. /\ i[2] \in Nat /\ saturating_mul(i[2], 8) = i[2] * 8
        /\ j[2] \in Nat /\ saturating_mul(j[2], 4) = j[2] * 4
    BY <1>2, <1>3, <2>2, Zenon
  <2>4. TrueGep(indices) = {i[2] * 8 + j[2] * 4}
    <3>1. Meanings(indices[1][2]) = {i[2]} /\ Meanings(indices[2][2]) = {j[2]}
      BY <2>1, PlainMoves, Zenon
    <3>2. \A x : x \in TrueGep(indices) <=> x = i[2] * 8 + j[2] * 4
      BY ONLY <1>1, <2>1, <3>1 DEF TrueGep
    <3> QED  BY <3>2, Zenon
  <2>5. \A b \in Int : infer_gep_offset(indices, b) = b + (i[2] * 8 + j[2] * 4)
    <3> TAKE b \in Int
    <3>1. infer_gep_offset(indices, b) = b + saturating_mul(i[2], 8) + saturating_mul(j[2], 4)
      BY <1>1, <1>5, <2>3, GepTwo, Zenon
    <3> QED  BY <2>3, <3>1, SMTT(30)
  <2>6. i[2] * 8 + j[2] * 4 \in Int
    BY <2>3, SMTT(30)
  <2> QED  BY <2>4, <2>5, <2>6, Zenon
<1>6. (\E i \in index : indices = <<i>>) \/ (\E i, j \in index : indices = <<i, j>>)
  BY SMTT(30)
<1> QED  BY <1>4, <1>5, <1>6, Zenon

\* getelementptr.
LEMMA GepStep ==
    ASSUME PlainCode, TypeInv, SoundInv, DoGep
    PROVE  Step
<1> DEFINE index == {<<"const", c>> : c \in Indices} \cup Odd({Other})
<1> PICK base \in Addresses, indices \in {<<i>> : i \in index} \cup (index \X index) :
       /\ IsSlot(Eval(base)) => "slot_gep" \in Habits
       /\ GetElementPtr(base, indices)
       /\ IF GepResolves(indices) THEN \E by \in TrueGep(indices) : Moves(base, by)
          ELSE RunDefine(dest, Data)
  BY Zenon DEF DoGep
<1> PICK v : /\ RunDefine(dest, v)
             /\ ~GepResolves(indices) => v = Data
             /\ GepResolves(indices) => \E by \in TrueGep(indices) : v = Moved(Eval(base), by)
  BY PlainMoves, Zenon
<1> DEFINE pv == IF IsLocal(base) THEN GepBase(base[2]) ELSE Unknown
           known == Tracked(pv) /\ GepResolves(indices)
           new == IF known THEN <<pv[1], pv[2], infer_gep_offset(indices, pv[3])>> ELSE Unknown
<1>1. Defines
  BY GepDefines, Zenon DEF TypeInv, Shapes
<1>2. dest \in Names /\ HeapShape /\ RealInv
  BY <1>1, Zenon DEF Defines, TypeInv
<1>3. /\ Visit /\ UNCHANGED <<int_env, alloca_names, hazard>> /\ ptr_names' = ptr_names \cup {dest}
      /\ ptr_env' = [ptr_env EXCEPT ![dest] = new] /\ value' = [value EXCEPT ![dest] = v]
      /\ verdict' \in {verdict, mark_unknown(verdict)}
  BY Zenon DEF DoGep, GetElementPtr, SetPtr, RunDefine, Define, VisitDef, DefinesPtr
<1>4. ptr_env'[dest] = new /\ value'[dest] = v
  BY <1>2, <1>3, Zenon DEF TypeInv, EnvShape, SoundInv, MachineShape
<1>5. Eval(base) \in Values /\ ~IsSlot(Eval(base))
  BY PointerOperand, Zenon DEF PlainCode
<1>6. IsLocal(base) => /\ base[2] \in Names /\ Eval(base) = value[base[2]]
                       /\ ptr_env[base[2]] \in PtrVals /\ alloca_store_map[base[2]] \in PtrVals
  BY PointerOperand, Zenon DEF TypeInv, EnvShape
<1>7. pv \in PtrVals
  BY <1>6, NoEntry, Zenon DEF GepBase
<1>8. Passing /\ IsObj(Eval(base)) => Tracked(pv) /\ Exact(pv, Eval(base))
  BY PointerOperand, EntryFacts, Zenon DEF GepBase
<1>9. ASSUME ExactInv, Tracked(pv)
      PROVE  Exact(pv, Eval(base))
  <2>1. IsLocal(base)
    BY <1>9, EntryFacts, Zenon
  <2>2. CASE ptr_env[base[2]] # Absent
    BY <1>6, <1>9, <2>1, <2>2, Zenon DEF GepBase, ExactInv
  <2>3. CASE ptr_env[base[2]] = Absent
    <3>1. Tracked(alloca_store_map[base[2]])
      BY <1>9, <2>1, <2>3, Zenon DEF GepBase
    <3>2. IsSlot(Eval(base))
      BY <1>6, <1>9, <2>1, <3>1, Zenon DEF ExactInv
    <3> QED  BY <1>5, <3>2, Zenon
  <2> QED  BY <2>2, <2>3, Zenon
<1>10. pv[1] = "dma" => pv[2] \in dma_allocs_in_func
  BY <1>6, DmaEntry, Zenon DEF GepBase, Unknown
<1> HIDE DEF pv
<1>11. /\ v \in Values /\ ~IsSlot(v) /\ (IsObj(v) => IsObj(Eval(base)) /\ GepResolves(indices))
       /\ known /\ Exact(pv, Eval(base)) => Tracked(new) /\ Exact(new, v)
  <2>1. CASE ~GepResolves(indices)
    <3>1. v = Data
      BY <2>1, Zenon
    <3> QED  BY <2>1, <3>1, Zenon DEF Values, IsSlot, IsObj, Data
  <2>2. CASE GepResolves(indices)
    <3>1. PICK by \in Int : /\ v = Moved(Eval(base), by)
                            /\ \A b \in Int : infer_gep_offset(indices, b) = b + by
      BY <2>2, GepOffset, Zenon
    <3>2. v \in Values /\ ~IsSlot(v) /\ (IsObj(v) => IsObj(Eval(base)))
      BY <1>2, <1>5, <3>1, ShiftFacts, Zenon
    <3>3. ASSUME known, Exact(pv, Eval(base))
          PROVE  Tracked(new) /\ Exact(new, v)
      <4>1. pv[2] \in 1..Len(alloc_sizes) /\ pv[3] \in Int /\ pv[1] \in {"kmalloc", "dma"}
        BY <1>7, <3>3, EntryFacts
      <4>2. new = <<pv[1], pv[2], pv[3] + by>>
        BY <3>1, <3>3, <4>1, Zenon
      <4>3. new[1] = pv[1] /\ new[2] = pv[2] /\ new[3] = pv[3] + by
        BY ONLY <4>2
      <4> HIDE DEF new
      <4> QED  BY <1>2, <3>1, <3>3, <4>1, <4>3, ShiftExact, Zenon DEF Tracked
    <3> QED  BY <2>2, <3>2, <3>3, Zenon
  <2> QED  BY <2>1, <2>2, Zenon
<1>12. Tracked(new) => known
  BY EntryFacts, Zenon
<1>13. new[1] = "dma" => new[2] \in dma_allocs_in_func
  BY <1>10, Zenon DEF Unknown
<1> HIDE DEF new
<1>14. ExactInv => (Tracked(new) => Exact(new, v)) /\ ~IsPtrOffset(int_env[dest])
  BY <1>2, <1>9, <1>11, <1>12, Fresh, Zenon
<1>15. Passing' /\ IsObj(v) => Tracked(new) /\ Exact(new, v)
  BY <1>3, <1>8, <1>11, Unfailing, Zenon
<1>16. dest \in ptr_names'
  BY <1>3, Zenon
<1> QED  BY <1>1, <1>3, <1>4, <1>11, <1>13, <1>14, <1>15, <1>16, DefinesStep, Zenon

\* add and sub.
LEMMA ArithStep ==
    ASSUME PlainCode, TypeInv, SoundInv, DoArith
    PROVE  Step
<1>1. Defines
  BY ArithDefines DEF TypeInv, Shapes
<1>2. dest \in Names /\ HeapShape /\ RealInv /\ ptr_names' = ptr_names \ {dest}
  BY <1>1, Zenon DEF Defines, TypeInv, DoArith, DefinesInt
<1> DEFINE D == Numbers \cup Consts
\* One operand a constant, the other what is shifted; or no supported pattern, and Data.
<1>3. ASSUME NEW v, RunDefine(dest, v), Visit, UNCHANGED <<ptr_env, alloca_names>>,
             verdict' \in {verdict, mark_unknown(verdict)},
             \/ \E op \in D, by \in Int :
                   /\ v = Moved(Eval(op), by)
                   /\ IsPtrOffset(IntOf(op)) =>
                         int_env' = [int_env EXCEPT ![dest] = <<"ptr_offset", IntOf(op)[2], IntOf(op)[3] + by>>]
                   /\ ~IsPtrOffset(IntOf(op)) => int_env' \in {int_env, [int_env EXCEPT ![dest] = Unknown]}
             \/ v = Data /\ int_env' \in {int_env, [int_env EXCEPT ![dest] = Unknown]}
      PROVE  Step
  <2>1. value' = [value EXCEPT ![dest] = v] /\ hazard' = hazard
    BY <1>3 DEF RunDefine, Define
  <2>2. value'[dest] = v
    BY <1>2, <2>1, Zenon DEF SoundInv, MachineShape
  <2>3. ptr_env'[dest][1] = "dma" => ptr_env'[dest][2] \in dma_allocs_in_func
    BY <1>2, <1>3, DmaEntry, Zenon
  <2>4. ExactInv => ~Tracked(ptr_env'[dest]) /\ ~IsPtrOffset(int_env[dest])
    BY <1>2, <1>3, Fresh, Zenon
  <2>5. Passing' => Passing
    BY <1>3, Unfailing
  <2>6. dest \notin ptr_names'
    BY <1>2
  <2>7. /\ v \in Values /\ ~IsSlot(v)
        /\ Passing /\ IsObj(v) => IsPtrOffset(int_env'[dest]) /\ Exact(int_env'[dest], v)
        /\ ExactInv /\ IsPtrOffset(int_env'[dest]) => Exact(int_env'[dest], v)
    <3>1. CASE v = Data /\ int_env' \in {int_env, [int_env EXCEPT ![dest] = Unknown]}
      <4>1. v \in Values /\ ~IsSlot(v) /\ ~IsObj(v)
        BY <3>1 DEF Values, IsSlot, IsObj, Data
      <4>2. int_env'[dest] \in {int_env[dest], Unknown}
        BY <1>2, <3>1, Zenon DEF TypeInv, EnvShape
      <4> QED  BY <2>4, <4>1, <4>2, EntryFacts, Zenon
    <3>2. ASSUME NEW op \in D, NEW by \in Int, v = Moved(Eval(op), by),
                 IsPtrOffset(IntOf(op)) =>
                    int_env' = [int_env EXCEPT ![dest] = <<"ptr_offset", IntOf(op)[2], IntOf(op)[3] + by>>],
                 ~IsPtrOffset(IntOf(op)) => int_env' \in {int_env, [int_env EXCEPT ![dest] = Unknown]}
          PROVE  /\ v \in Values /\ ~IsSlot(v)
                 /\ Passing /\ IsObj(v) => IsPtrOffset(int_env'[dest]) /\ Exact(int_env'[dest], v)
                 /\ ExactInv /\ IsPtrOffset(int_env'[dest]) => Exact(int_env'[dest], v)
      <4> DEFINE iv == IntOf(op)
                 new == <<"ptr_offset", iv[2], iv[3] + by>>
      <4>1. /\ Eval(op) \in Values /\ ~IsSlot(Eval(op))
            /\ Passing /\ IsObj(Eval(op)) => IsPtrOffset(iv) /\ Exact(iv, Eval(op))
        BY NumberOperand, Zenon DEF IntOf
      <4>2. v \in Values /\ ~IsSlot(v) /\ (IsObj(v) => IsObj(Eval(op)))
        BY <1>2, <3>2, <4>1, ShiftFacts, Zenon
      <4>3. ASSUME ExactInv, IsPtrOffset(iv)
            PROVE  Exact(iv, Eval(op))
        <5>1. IsLocal(op)
          BY <4>3, EntryFacts, Zenon DEF IntOf
        <5>2. iv = int_env[op[2]] /\ op[2] \in Names /\ Eval(op) = value[op[2]]
          BY <5>1, NumberOperand, Zenon DEF IntOf
        <5> QED  BY <4>3, <5>2, Zenon DEF ExactInv
      <4>4. CASE IsPtrOffset(iv)
        <5>1. int_env'[dest] = new
          BY <1>2, <3>2, <4>4, Zenon DEF TypeInv, EnvShape
        <5>2. iv \in IntVals
          BY NumberOperand, NoEntry DEF IntOf
        <5>3. iv[2] \in 1..Len(alloc_sizes) /\ iv[3] \in Int
          BY <4>4, <5>2, EntryFacts, Zenon
        <5>4. new[2] = iv[2] /\ new[3] = iv[3] + by /\ IsPtrOffset(new)
          BY DEF IsPtrOffset
        <5> HIDE DEF iv, new
        <5>5. Exact(iv, Eval(op)) => Exact(new, v)
          BY <1>2, <3>2, <5>3, <5>4, ShiftExact, Zenon
        <5> QED  BY <4>1, <4>2, <4>3, <4>4, <5>1, <5>4, <5>5, Zenon
      <4>5. CASE ~IsPtrOffset(iv)
        <5>1. int_env'[dest] \in {int_env[dest], Unknown}
          BY <1>2, <3>2, <4>5 DEF TypeInv, EnvShape
        <5> QED  BY <2>4, <4>1, <4>2, <4>5, <5>1, EntryFacts, Zenon
      <4> QED  BY <4>4, <4>5, Zenon
    <3> QED  BY <1>3, <3>1, <3>2, Zenon
  <2> QED  BY <1>1, <1>3, <2>1, <2>2, <2>3, <2>4, <2>5, <2>6, <2>7, DefinesStep, Zenon
<1>4. PICK op0 \in D, op1 \in D :
         \/ /\ Add(op0, op1)
            /\ \/ IsConst(op1) /\ RunDefine(dest, Moved(Eval(op0), op1[2]))
               \/ ~IsConst(op1) /\ IsConst(op0) /\ RunDefine(dest, Moved(Eval(op1), op0[2]))
               \/ ~IsConst(op1) /\ ~IsConst(op0) /\ RunDefine(dest, Data)
         \/ /\ Sub(op0, op1)
            /\ \/ IsConst(op1) /\ RunDefine(dest, Moved(Eval(op0), -op1[2]))
               \/ ~IsConst(op1) /\ RunDefine(dest, Data)
  <2>1. PICK op0 \in D, op1 \in D :
           \/ /\ Add(op0, op1)
              /\ \/ IsConst(op1) /\ \E c \in Meanings(op1[2]) : Moves(op0, c)
                 \/ ~IsConst(op1) /\ IsConst(op0) /\ \E c \in Meanings(op0[2]) : Moves(op1, c)
                 \/ ~IsConst(op1) /\ ~IsConst(op0) /\ RunDefine(dest, Data)
           \/ /\ Sub(op0, op1)
              /\ \/ IsConst(op1) /\ \E c \in Meanings(op1[2]) : Moves(op0, -c)
                 \/ ~IsConst(op1) /\ RunDefine(dest, Data)
    BY Zenon DEF DoArith
  <2>2. /\ \A op, c : (\E k \in Meanings(c) : Moves(op, k)) => RunDefine(dest, Moved(Eval(op), c))
        /\ \A op, c : (\E k \in Meanings(c) : Moves(op, -k)) => RunDefine(dest, Moved(Eval(op), -c))
    BY PlainMoves, Zenon
  <2> QED  BY <2>1, <2>2, Zenon
<1>5. /\ IsConst(op0) => op0[2] \in Int /\ ~IsPtrOffset(IntOf(op0))
      /\ IsConst(op1) => op1[2] \in Int /\ ~IsPtrOffset(IntOf(op1))
  BY NumberOperand, EntryFacts DEF IntOf
<1>6. /\ Visit /\ UNCHANGED <<ptr_env, alloca_names>> /\ verdict' \in {verdict, mark_unknown(verdict)}
  BY <1>4, Zenon DEF Add, Sub, Arith, VisitDef
<1> DEFINE same == int_env' \in {int_env, [int_env EXCEPT ![dest] = Unknown]}
<1>7. CASE /\ Add(op0, op1)
           /\ \/ IsConst(op1) /\ RunDefine(dest, Moved(Eval(op0), op1[2]))
              \/ ~IsConst(op1) /\ IsConst(op0) /\ RunDefine(dest, Moved(Eval(op1), op0[2]))
              \/ ~IsConst(op1) /\ ~IsConst(op0) /\ RunDefine(dest, Data)
  <2>1. CASE IsConst(op1)
    <3>1. RunDefine(dest, Moved(Eval(op0), op1[2]))
      BY <1>7, <2>1, Zenon
    <3>2. /\ IsPtrOffset(IntOf(op0)) =>
                int_env' = [int_env EXCEPT ![dest] = <<"ptr_offset", IntOf(op0)[2], IntOf(op0)[3] + op1[2]>>]
          /\ ~IsPtrOffset(IntOf(op0)) => same
      BY <1>5, <1>7, <2>1, Zenon DEF Add, Arith, SetInt
    <3> QED  BY <1>3, <1>5, <1>6, <2>1, <3>1, <3>2, Zenon
  <2>2. CASE ~IsConst(op1) /\ IsConst(op0)
    <3>1. RunDefine(dest, Moved(Eval(op1), op0[2]))
      BY <1>7, <2>2, Zenon
    <3>2. /\ IsPtrOffset(IntOf(op1)) =>
                int_env' = [int_env EXCEPT ![dest] = <<"ptr_offset", IntOf(op1)[2], IntOf(op1)[3] + op0[2]>>]
          /\ ~IsPtrOffset(IntOf(op1)) => same
      BY <1>5, <1>7, <2>2, Zenon DEF Add, Arith, SetInt
    <3> QED  BY <1>3, <1>5, <1>6, <2>2, <3>1, <3>2, Zenon
  <2>3. CASE ~IsConst(op1) /\ ~IsConst(op0)
    <3>1. RunDefine(dest, Data)
      BY <1>7, <2>3, Zenon
    <3>2. same
      BY <1>7, <2>3, Zenon DEF Add, Arith, SetInt
    <3> QED  BY <1>3, <1>6, <3>1, <3>2, Zenon
  <2> QED  BY <2>1, <2>2, <2>3, Zenon
<1>8. CASE /\ Sub(op0, op1)
           /\ \/ IsConst(op1) /\ RunDefine(dest, Moved(Eval(op0), -op1[2]))
              \/ ~IsConst(op1) /\ RunDefine(dest, Data)
  <2>1. CASE IsConst(op1)
    <3>1. RunDefine(dest, Moved(Eval(op0), -op1[2])) /\ -op1[2] \in Int
      BY <1>5, <1>8, <2>1
    <3>2. /\ IsPtrOffset(IntOf(op0)) =>
                int_env' = [int_env EXCEPT ![dest] = <<"ptr_offset", IntOf(op0)[2], IntOf(op0)[3] - op1[2]>>]
          /\ ~IsPtrOffset(IntOf(op0)) => same
      BY <1>8, <2>1, Zenon DEF Sub, Arith, SetInt
    <3>3. IsPtrOffset(IntOf(op0)) => IntOf(op0)[3] - op1[2] = IntOf(op0)[3] + (-op1[2])
      BY <1>5, <2>1, NumberOperand, EntryFacts DEF IntOf
    <3>4. IsPtrOffset(IntOf(op0)) =>
             int_env' = [int_env EXCEPT ![dest] = <<"ptr_offset", IntOf(op0)[2], IntOf(op0)[3] + (-op1[2])>>]
      BY <3>2, <3>3, Zenon
    <3> QED  BY <1>3, <1>6, <3>1, <3>2, <3>4, Zenon
  <2>2. CASE ~IsConst(op1)
    <3>1. RunDefine(dest, Data)
      BY <1>8, <2>2, Zenon
    <3>2. same
      BY <1>8, <2>2, Zenon DEF Sub, Arith, SetInt
    <3> QED  BY <1>3, <1>6, <3>1, <3>2, Zenon
  <2> QED  BY <2>1, <2>2, Zenon
<1> QED  BY <1>4, <1>7, <1>8
=============================================================================
