------------------------ MODULE AnalyzerPolicyProofs ------------------------
(***************************************************************************)
(* What a verdict may become, the shapes of the analyzer's maps, and the   *)
(* theorems about verdicts, the gate and the IOMMU policy. They hold for   *)
(* every module, with whatever habits. TypeInv of AnalyzedInv is the       *)
(* inductive invariant; VerdictStep says once what any step may make of    *)
(* the verdict, and each action is brought into one of four forms          *)
(* (Allocates, Defines, Stays, the next function) whose effect on the      *)
(* shapes is then proved once.                                             *)
(***************************************************************************)
EXTENDS AnalyzedInv, TLAPS

-----------------------------------------------------------------------------
(* Verdicts.                                                               *)

\* A verdict leads to itself, and steps compose.
LEMMA LeadsRefl ==
    ASSUME NEW v, IsVerdict(v), GateInv(v)
    PROVE  Leads(v, v)
BY DEF Leads, IsVerdict, Badness

\* What a verdict led to leads on.
LEMMA LeadsTrans ==
    ASSUME NEW u, NEW v, NEW w, IsVerdict(u), Leads(u, v), Leads(v, w)
    PROVE  Leads(u, w)
BY DEF Leads, IsVerdict, Badness

\* mark_unknown and Fail make a verdict no better.
LEMMA MarkUnknownLeads ==
    ASSUME NEW v, IsVerdict(v), GateInv(v)
    PROVE  Leads(v, mark_unknown(v)) /\ mark_unknown(v).result # "pass"
BY DEF Leads, IsVerdict, GateInv, Badness, mark_unknown

\* Fail is final.
LEMMA FailLeads ==
    ASSUME NEW v, IsVerdict(v), GateInv(v)
    PROVE  Leads(v, FailWith(v)) /\ FailWith(v).result = "fail"
BY DEF Leads, IsVerdict, GateInv, Badness, FailWith

\* should_run_solver remembers what it was asked, and what it denied.
LEMMA GateFields ==
    ASSUME NEW g, IsGate(g), NEW vc, NEW class
    PROVE  /\ IsGate(should_run_solver(g, vc, class))
           /\ should_run_solver(g, vc, class).mode = g.mode
           /\ should_run_solver(g, vc, class).asked = g.asked \cup {<<vc, class>>}
           /\ should_run_solver(g, vc, class).blocked =
                 g.blocked \cup (IF MayRun(g, vc, class) THEN {} ELSE {vc})
<1> DEFINE d == IF MayRun(g, vc, class) THEN {} ELSE {vc}
           c == IF MayRun(g, vc, class) THEN {} ELSE {class}
           h == [mode |-> g.mode, seen |-> g.seen \cup {vc}, blocked |-> g.blocked \cup d,
                 seen_classes |-> g.seen_classes \cup {class},
                 blocked_classes |-> g.blocked_classes \cup c,
                 asked |-> g.asked \cup {<<vc, class>>}]
<1>1. should_run_solver(g, vc, class) =
        [g EXCEPT !.seen = @ \cup {vc}, !.seen_classes = @ \cup {class}, !.blocked = @ \cup d,
                  !.blocked_classes = @ \cup c, !.asked = @ \cup {<<vc, class>>}]
  BY Zenon DEF should_run_solver
<1> HIDE DEF d, c
<1>2. should_run_solver(g, vc, class) = h
  BY <1>1, Zenon DEF IsGate
<1>3. IsGate(h) /\ h.mode = g.mode /\ h.asked = g.asked \cup {<<vc, class>>}
      /\ h.blocked = g.blocked \cup d
  BY DEF IsGate
<1> QED  BY <1>2, <1>3 DEF d

\* Asking the gate changes nothing else in a verdict.
LEMMA AskLeads ==
    ASSUME NEW v, IsVerdict(v), GateInv(v), NEW vc, NEW class
    PROVE  /\ Leads(v, Ask(v, vc, class)) /\ Ask(v, vc, class).result = v.result
           /\ Ask(v, vc, class).solved = v.solved
           /\ Ask(v, vc, class).gate = should_run_solver(v.gate, vc, class)
<1> DEFINE g == should_run_solver(v.gate, vc, class)
           w == Ask(v, vc, class)
<1>1. /\ w.result = v.result /\ w.solved = v.solved /\ w.gate = g
      /\ w.inline_asm_vcs = v.inline_asm_vcs
      /\ w = [result |-> v.result, gate |-> g, solved |-> v.solved,
              inline_asm_vcs |-> v.inline_asm_vcs, dma_vcs |-> v.dma_vcs,
              irq_race_vcs |-> v.irq_race_vcs]
  BY DEF IsVerdict, Ask
<1>2. /\ IsGate(g) /\ g.mode = v.gate.mode /\ g.asked = v.gate.asked \cup {<<vc, class>>}
      /\ g.blocked = v.gate.blocked \cup (IF MayRun(v.gate, vc, class) THEN {} ELSE {vc})
  BY GateFields DEF IsVerdict
<1> HIDE DEF g, w
<1>3. IsVerdict(w)
  BY <1>1, <1>2 DEF IsVerdict
<1>4. GateInv(w)
  <2> SUFFICES ASSUME v.gate.mode = "require"
               PROVE  /\ \A q \in v.solved : IsApproved(q[1], q[2])
                      /\ g.blocked = {} => \A q \in g.asked : IsApproved(q[1], q[2])
    BY <1>1, <1>2 DEF GateInv
  <2>1. g.blocked = {} => MayRun(v.gate, vc, class) /\ v.gate.blocked = {}
    BY <1>2
  <2>2. g.blocked = {} => IsApproved(vc, class)
    BY <2>1 DEF MayRun
  <2> QED  BY <1>2, <2>1, <2>2 DEF GateInv
<1> QED  BY <1>1, <1>2, <1>3, <1>4 DEF Leads, IsVerdict, Badness, w, g

\* The counters of a verdict do not matter to it.
LEMMA CountLeads ==
    ASSUME NEW v, IsVerdict(v), GateInv(v), NEW n \in Nat
    PROVE  /\ Leads(v, [v EXCEPT !.dma_vcs = @ + n])
           /\ Leads(v, [v EXCEPT !.irq_race_vcs = @ + n])
           /\ Leads(v, [v EXCEPT !.inline_asm_vcs = @ + n])
BY DEF Leads, IsVerdict, GateInv, Badness

\* A condition is marked as solved only when the gate let it through, and a verdict
\* still at Pass was one before, and was told "safe".
LEMMA JudgeLeads ==
    ASSUME NEW v, IsVerdict(v), GateInv(v), NEW vc, NEW class, NEW pv, NEW size,
           NEW answer \in check_access(v, pv, size, vc, class)
    PROVE  /\ Leads(v, Judge(v, vc, class, answer))
           /\ Judge(v, vc, class, answer).result = "pass" => answer = "safe"
           /\ Judge(v, vc, class, answer).result = "fail" => answer = "oob" \/ v.result = "fail"
<1> DEFINE ask == Ask(v, vc, class)
           new == IF answer = "hitl_blocked" THEN {} ELSE {<<vc, class>>}
           asked == [ask EXCEPT !.solved = @ \cup new]
<1>1. /\ Leads(v, ask) /\ ask.result = v.result /\ ask.solved = v.solved
      /\ ask.gate = should_run_solver(v.gate, vc, class)
  BY AskLeads
<1>2. v.gate.mode = "require" => \A q \in new : IsApproved(q[1], q[2])
  <2>1. answer # "hitl_blocked" => MayRun(v.gate, vc, class)
    BY DEF check_access
  <2> QED  BY <2>1 DEF MayRun
<1> HIDE DEF ask, new
<1>3. /\ asked.result = v.result /\ asked.gate = ask.gate /\ asked.solved = v.solved \cup new
      /\ asked.inline_asm_vcs = ask.inline_asm_vcs
      /\ asked = [result |-> ask.result, gate |-> ask.gate, solved |-> v.solved \cup new,
                  inline_asm_vcs |-> ask.inline_asm_vcs, dma_vcs |-> ask.dma_vcs,
                  irq_race_vcs |-> ask.irq_race_vcs]
  BY <1>1 DEF Leads, IsVerdict
<1>4. Judge(v, vc, class, answer) = IF answer = "oob" THEN FailWith(asked)
                                    ELSE IF answer = "safe" THEN asked ELSE mark_unknown(asked)
  BY DEF Judge, ask, new
<1> HIDE DEF asked
<1>5. Leads(v, asked)
  BY <1>1, <1>2, <1>3 DEF Leads, IsVerdict, GateInv
<1>6. IsVerdict(asked) /\ GateInv(asked)
  BY <1>5 DEF Leads
<1>7. /\ Leads(v, FailWith(asked)) /\ FailWith(asked).result = "fail"
      /\ Leads(v, mark_unknown(asked)) /\ mark_unknown(asked).result # "pass"
      /\ mark_unknown(asked).result = "fail" => v.result = "fail"
  <2>1. mark_unknown(asked).result = "fail" => v.result = "fail"
    BY <1>3, <1>6 DEF mark_unknown, IsVerdict
  <2> QED  BY <1>5, <1>6, <2>1, FailLeads, MarkUnknownLeads, LeadsTrans
<1> QED  BY <1>3, <1>4, <1>5, <1>7

\* What a bounds check says of the access: Pass only within the bounds, Fail only
\* outside.
LEMMA CheckedLeads ==
    ASSUME NEW v, IsVerdict(v), GateInv(v), NEW vc, NEW class, NEW pv, NEW size,
           NEW w \in Checked(v, pv, size, vc, class)
    PROVE  /\ Leads(v, w)
           /\ w.result = "pass" => ~OutOfBounds(pv, size)
           /\ w.result = "fail" => v.result = "fail" \/ OutOfBounds(pv, size)
<1> PICK answer \in check_access(v, pv, size, vc, class) : w = Judge(v, vc, class, answer)
  BY DEF Checked
<1>1. /\ Leads(v, w)
      /\ w.result = "pass" => answer = "safe"
      /\ w.result = "fail" => answer = "oob" \/ v.result = "fail"
  BY JudgeLeads
<1>2. answer = "safe" => ~OutOfBounds(pv, size)
  BY DEF check_access, SolverAnswers, OutOfBounds
<1>3. answer = "oob" => OutOfBounds(pv, size)
  BY DEF check_access, SolverAnswers, OutOfBounds
<1> QED  BY <1>1, <1>2, <1>3

\* The race condition keeps a verdict from Pass.
LEMMA IrqRaceLeads ==
    ASSUME NEW v, IsVerdict(v), GateInv(v), NEW pv, NEW kind
    PROVE  /\ Leads(v, IrqRace(v, pv, kind))
           /\ policy.has_irq_risk => IrqRace(v, pv, kind).result # "pass"
           /\ IrqRace(v, pv, kind).result = "fail" => v.result = "fail"
           /\ ~policy.has_irq_risk => IrqRace(v, pv, kind) = v
<1>1. CASE ~policy.has_irq_risk
  BY <1>1, LeadsRefl DEF IrqRace
<1>2. CASE policy.has_irq_risk
  <2> DEFINE ask == Ask(v, vc_id(kind), <<"irq_race", pv[2]>>)
             new == [ask EXCEPT !.irq_race_vcs = @ + 1]
  <2>1. Leads(v, ask) /\ ask.result = v.result
    BY AskLeads
  <2>2. IrqRace(v, pv, kind) = mark_unknown(new)
    BY <1>2 DEF IrqRace
  <2> HIDE DEF ask
  <2>3. Leads(ask, new) /\ new.result = v.result
    <3>1. IsVerdict(ask) /\ GateInv(ask)
      BY <2>1 DEF Leads
    <3>2. Leads(ask, new)
      BY Zenon, <3>1, CountLeads
    <3>3. new.result = ask.result
      BY <3>1 DEF IsVerdict
    <3> QED  BY <2>1, <3>2, <3>3
  <2> HIDE DEF new
  <2>4. Leads(new, mark_unknown(new)) /\ mark_unknown(new).result # "pass"
    BY <2>3, MarkUnknownLeads DEF Leads
  <2>5. mark_unknown(new).result = "fail" => v.result = "fail"
    BY <2>3 DEF mark_unknown, Leads, IsVerdict
  <2>6. IsVerdict(ask)
    BY <2>1 DEF Leads
  <2> QED  BY <1>2, <2>1, <2>2, <2>3, <2>4, <2>5, <2>6, LeadsTrans
<1> QED  BY <1>1, <1>2

\* What the visit of a load or store says of the access.
LEMMA DerefLeads ==
    ASSUME NEW v, IsVerdict(v), GateInv(v), NEW pv, NEW size, NEW kind,
           NEW w \in Deref(v, pv, size, kind)
    PROVE  /\ Leads(v, w)
           /\ w.result = "pass" /\ Tracked(pv) =>
                 /\ pv[2] \notin freed_allocs /\ size # NoSize /\ ~OutOfBounds(pv, size)
                 /\ ~policy.has_irq_risk
           /\ w.result = "fail" =>
                 \/ v.result = "fail"
                 \/ Tracked(pv) /\ (pv[2] \in freed_allocs \/ (size # NoSize /\ OutOfBounds(pv, size)))
<1>1. CASE ~Tracked(pv)
  BY <1>1, LeadsRefl DEF Deref
<1>2. CASE Tracked(pv) /\ pv[2] \in freed_allocs
  BY <1>2, FailLeads DEF Deref
<1>3. CASE Tracked(pv) /\ pv[2] \notin freed_allocs /\ size = NoSize
  <2>1. w = mark_unknown(v)
    BY <1>3 DEF Deref
  <2>2. mark_unknown(v).result = "fail" => v.result = "fail"
    BY DEF mark_unknown, IsVerdict
  <2> QED  BY <2>1, <2>2, MarkUnknownLeads
<1>4. CASE Tracked(pv) /\ pv[2] \notin freed_allocs /\ size # NoSize
  <2> DEFINE k == IF kind = "store" THEN "irq_race_store" ELSE "irq_race_load"
             class == vc_class_id(kind, size)
  <2>1. PICK u \in Checked(v, pv, size, vc_id(kind), class) :
               w = IF u.result = "fail" THEN u ELSE IrqRace(u, pv, k)
    BY <1>4 DEF Deref
  <2> HIDE DEF k, class
  <2>2. /\ Leads(v, u) /\ IsVerdict(u) /\ GateInv(u)
        /\ u.result = "pass" => ~OutOfBounds(pv, size)
        /\ u.result = "fail" => v.result = "fail" \/ OutOfBounds(pv, size)
    BY CheckedLeads DEF Leads
  <2>3. CASE u.result = "fail"
    BY <1>4, <2>1, <2>2, <2>3
  <2>4. CASE u.result # "fail"
    <3>1. /\ w = IrqRace(u, pv, k) /\ Leads(u, w)
          /\ policy.has_irq_risk => w.result # "pass"
          /\ w.result # "fail"
          /\ ~policy.has_irq_risk => w = u
      BY <2>1, <2>2, <2>4, IrqRaceLeads, Zenon
    <3> QED  BY <1>4, <2>2, <3>1, LeadsTrans
  <2> QED  BY <2>3, <2>4
<1> QED  BY <1>1, <1>2, <1>3, <1>4

\* What the visit of a memset, or of one side of a memcpy, says of the access.
LEMMA TransferLeads ==
    ASSUME NEW v, IsVerdict(v), GateInv(v), NEW op, NEW len, NEW kind,
           NEW w \in Transfer(v, op, len, kind)
    PROVE  LET pv == ptr_env[op[2]]
               heap == IsLocal(op) /\ pv[1] = "kmalloc"
           IN  /\ Leads(v, w)
               /\ w.result = "pass" /\ heap => pv[2] \notin freed_allocs /\ ~OutOfBounds(pv, len)
               /\ w.result = "fail" =>
                     \/ v.result = "fail"
                     \/ heap /\ (pv[2] \in freed_allocs \/ OutOfBounds(pv, len))
<1> DEFINE pv == ptr_env[op[2]]
           heap == IsLocal(op) /\ pv[1] = "kmalloc"
<1>1. CASE ~heap
  BY <1>1, LeadsRefl DEF Transfer
<1>2. CASE heap /\ pv[2] \in freed_allocs
  BY <1>2, FailLeads DEF Transfer
<1>3. CASE heap /\ pv[2] \notin freed_allocs
  <2>1. w \in Checked(v, pv, len, vc_id(kind), vc_class_id(kind, len))
    BY <1>3 DEF Transfer
  <2> HIDE DEF pv, heap
  <2>2. /\ Leads(v, w)
        /\ w.result = "pass" => ~OutOfBounds(pv, len)
        /\ w.result = "fail" => v.result = "fail" \/ OutOfBounds(pv, len)
    BY <2>1, CheckedLeads
  <2> QED  BY <1>3, <2>2 DEF pv, heap
<1> QED  BY <1>1, <1>2, <1>3, Zenon

-----------------------------------------------------------------------------
(* The steps of the analysis, as far as the verdict goes.                  *)

\* enforce_hitl_policy only turns results into Fail.
LEMMA EnforceLeads ==
    ASSUME NEW v, IsVerdict(v), GateInv(v)
    PROVE  Leads(v, [v EXCEPT !.result = enforce_hitl_policy(@, v.gate)])
BY DEF Leads, IsVerdict, GateInv, Badness, enforce_hitl_policy

\* Every step of the analysis makes a verdict of the verdict.
LEMMA VerdictStep ==
    ASSUME IsVerdict(verdict), GateInv(verdict), [Next]_vars
    PROVE  Leads(verdict, verdict')
<1> USE LeadsRefl, MarkUnknownLeads, FailLeads
<1>1. ASSUME NEW args, Kmalloc(args)
      PROVE  Leads(verdict, verdict')
  BY <1>1 DEF Kmalloc
<1>2. ASSUME NEW args, Kcalloc(args)
      PROVE  Leads(verdict, verdict')
  BY <1>2 DEF Kcalloc
<1>3. ASSUME NEW args, DmaAllocCoherent(args)
      PROVE  Leads(verdict, verdict')
  <2> DEFINE class == vc_class_id("dma_alloc", args[2][2])
             ask == Ask(verdict, vc_id("dma_alloc"), class)
  <2>1. Leads(verdict, ask) /\ IsVerdict(ask) /\ GateInv(ask)
    BY AskLeads DEF Leads
  <2>2. Leads(ask, [ask EXCEPT !.dma_vcs = @ + 1])
    BY <2>1, CountLeads, Zenon
  <2>3. verdict' \in {verdict, mark_unknown(verdict), [ask EXCEPT !.dma_vcs = @ + 1]}
    BY <1>3, Zenon DEF DmaAllocCoherent
  <2> HIDE DEF ask
  <2> QED  BY <2>1, <2>2, <2>3, LeadsTrans, Zenon
<1>4. ASSUME NEW args, Kfree(args)
      PROVE  Leads(verdict, verdict')
  BY <1>4 DEF Kfree
<1>5. ASSUME NEW args, Memset(args)
      PROVE  Leads(verdict, verdict')
  BY <1>5, TransferLeads DEF Memset
<1>6. ASSUME NEW args, Memcpy(args)
      PROVE  Leads(verdict, verdict')
  <2>1. CASE verdict' \in {verdict, mark_unknown(verdict)}
    BY <2>1
  <2>2. CASE Len(args) # 0 /\ ~(Len(args) < 3 \/ ~IsConst(args[3]))
    <3>1. PICK v \in Transfer(verdict, args[1], args[3][2], "memcpy_destination") :
             verdict' \in IF v.result = "fail" THEN {v}
                          ELSE Transfer(v, args[2], args[3][2], "memcpy_source")
      BY <1>6, <2>2, Zenon DEF Memcpy
    <3>2. Leads(verdict, v) /\ IsVerdict(v) /\ GateInv(v)
      BY <3>1, TransferLeads, SMTT(30) DEF Leads
    <3>3. verdict' = v \/ Leads(v, verdict')
      BY <3>1, <3>2, TransferLeads
    <3> QED  BY <3>2, <3>3, LeadsTrans
  <2> QED  BY <1>6, <2>1, <2>2 DEF Memcpy
<1>7. ASSUME NEW args, DmaMapSingle(args)
      PROVE  Leads(verdict, verdict')
  <2> DEFINE pv == ptr_env[args[2][2]]
             vc == vc_id("dma_map")
             class == vc_class_id("dma_bounds", args[3][2])
             new(answer) == [Judge(verdict, vc, class, answer) EXCEPT
                                !.dma_vcs = @ + (IF answer = "safe" THEN 0 ELSE 1)]
  <2>1. \/ verdict' \in {verdict, mark_unknown(verdict)}
        \/ \E answer \in check_access(verdict, pv, args[3][2], vc, class) :
              verdict' = new(answer)
    BY <1>7, Zenon DEF DmaMapSingle
  <2> HIDE DEF pv, vc, class
  <2>2. ASSUME NEW answer \in check_access(verdict, pv, args[3][2], vc, class)
        PROVE  Leads(verdict, new(answer))
    <3> DEFINE v == Judge(verdict, vc, class, answer)
               n == IF answer = "safe" THEN 0 ELSE 1
    <3>1. Leads(verdict, v) /\ IsVerdict(v) /\ GateInv(v)
      BY JudgeLeads DEF Leads
    <3>2. Leads(v, [v EXCEPT !.dma_vcs = @ + n])
      <4>1. n \in Nat
        OBVIOUS
      <4> HIDE DEF n, v
      <4> QED  BY <3>1, <4>1, CountLeads, Zenon
    <3> HIDE DEF n, v
    <3> QED  BY <3>1, <3>2, LeadsTrans, Zenon DEF v, n
  <2> QED  BY <2>1, <2>2
<1>8. ASSUME NEW safe, InlineAsm(safe)
      PROVE  Leads(verdict, verdict')
  <2> DEFINE ask == Ask(verdict, vc_id("inline_asm"), <<"inline_asm", "opaque">>)
             new == [ask EXCEPT !.inline_asm_vcs = @ + 1]
             failed == [FailWith(verdict) EXCEPT !.inline_asm_vcs = @ + 1]
  <2>1. verdict' \in {verdict, mark_unknown(new), failed}
    BY <1>8, Zenon DEF InlineAsm
  <2>2. Leads(verdict, ask) /\ IsVerdict(ask) /\ GateInv(ask)
    BY AskLeads DEF Leads
  <2> HIDE DEF ask
  <2>3. Leads(ask, new) /\ IsVerdict(new) /\ GateInv(new)
    BY <2>2, CountLeads, Zenon DEF Leads
  <2>4. Leads(verdict, failed)
    <3>1. Leads(verdict, FailWith(verdict)) /\ IsVerdict(FailWith(verdict)) /\ GateInv(FailWith(verdict))
      BY DEF Leads
    <3>2. Leads(FailWith(verdict), failed)
      BY <3>1, CountLeads, Zenon
    <3> QED  BY <3>1, <3>2, LeadsTrans
  <2> HIDE DEF new, failed
  <2>5. Leads(verdict, mark_unknown(new))
    BY <2>2, <2>3, LeadsTrans
  <2> QED  BY <2>1, <2>4, <2>5
<1>9. ASSUME NEW addr, NEW op, NEW size, Store(addr, op, size) \/ Load(addr, size)
      PROVE  Leads(verdict, verdict')
  <2>1. CASE verdict' = verdict
    BY <2>1, Zenon
  <2>2. ASSUME NEW kind, verdict' \in Deref(verdict, ptr_env[addr[2]], size, kind)
        PROVE  Leads(verdict, verdict')
    BY <2>2, DerefLeads
  <2> QED  BY <1>9, <2>1, <2>2 DEF Store, Load
<1>10. ASSUME NEW op, NEW op1, NEW indices,
              \/ GetElementPtr(op, indices) \/ PtrToInt(op) \/ IntToPtr(op) \/ BitCast(op)
              \/ Add(op, op1) \/ Sub(op, op1)
       PROVE  Leads(verdict, verdict')
  <2>1. verdict' \in {verdict, mark_unknown(verdict)}
    BY <1>10 DEF GetElementPtr, PtrToInt, IntToPtr, BitCast, Add, Sub
  <2> QED  BY <2>1, Zenon
<1>11. CASE DoEnd
  <2>1. CASE EndOfModule
    BY <2>1 DEF EndOfModule
  <2>2. CASE EnforceHitl
    BY <2>2, EnforceLeads DEF EnforceHitl
  <2> QED  BY <1>11, <2>1, <2>2 DEF DoEnd
<1>12. CASE DoIommuMap \/ DoAlloca \/ DoOpaque \/ DoNextFunction \/ DoInterrupt \/ Done \/ UNCHANGED vars
  <2>1. verdict' = verdict
    BY <1>12, Zenon DEF DoIommuMap, DoAlloca, DoOpaque, DoNextFunction, DoInterrupt, Done, vars,
          analyzerVars, IommuMap, Alloca, Opaque, NextFunction
  <2> QED  BY <2>1, Zenon
<1>13. CASE DoKmalloc \/ DoKcalloc \/ DoDmaAlloc \/ DoKfree
  BY <1>1, <1>2, <1>3, <1>4, <1>13, Zenon DEF DoKmalloc, DoKcalloc, DoDmaAlloc, DoKfree
<1>14. CASE DoMemset \/ DoMemcpy \/ DoDmaMap \/ DoInlineAsm
  BY <1>5, <1>6, <1>7, <1>8, <1>14, Zenon DEF DoMemset, DoMemcpy, DoDmaMap, DoInlineAsm
<1>15. CASE DoStore \/ DoLoad
  BY <1>9, <1>15, Zenon DEF DoStore, DoLoad
<1>16. CASE DoGep \/ DoCast \/ DoArith
  BY <1>10, <1>16, Zenon DEF DoGep, DoCast, DoArith
<1> QED  BY <1>11, <1>12, <1>13, <1>14, <1>15, <1>16 DEF Next

-----------------------------------------------------------------------------
(* Allocation calls.                                                       *)

\* What the sizes of a program are.
LEMMA SizeFacts ==
    ASSUME PlaceShape
    PROVE  /\ Sizes \subseteq 0..U64Max /\ U64Max \in Nat /\ Sizes \subseteq Nat
           /\ \A op : IsConst(op) => SizeOf(op) = {op[2]}
           /\ \A op : ~IsConst(op) => SizeOf(op) = Sizes
BY ProgramAssumption DEF PlaceShape, Sizes, SizeOf

\* What an operand is.
LEMMA OperandFacts ==
    ASSUME PlaceShape, NEW op \in Locals \cup Addresses \cup Numbers \cup Lengths \cup {Other}
    PROVE  /\ IsLocal(op) => op = <<"local", op[2]>> /\ op[2] \in Names /\ op[2] \in Defined
           /\ IsConst(op) => op = <<"const", op[2]>> /\ op[2] \in Sizes
           /\ ~IsLocal(op) /\ ~IsConst(op) => op = Other
           /\ ~(IsLocal(op) /\ IsConst(op))
<1>1. MaxDest \in Nat /\ dest \in 0..MaxDest + 1
  BY ProgramAssumption DEF PlaceShape
<1>2. Defined \subseteq Names
  BY <1>1 DEF Defined, Names
<1>3. op \in {<<"local", n>> : n \in Defined} \cup {<<"const", c>> : c \in Sizes} \cup {Other}
  BY DEF Locals, Local, Addresses, Pointers, Numbers, Lengths, Consts, Odd
<1>4. CASE op = Other
  BY <1>4 DEF Other, IsLocal, IsConst
<1>5. ASSUME NEW n \in Defined, op = <<"local", n>>
      PROVE  IsLocal(op) /\ ~IsConst(op) /\ op = <<"local", op[2]>> /\ op[2] \in Defined
  BY <1>5 DEF IsLocal, IsConst
<1>6. ASSUME NEW c \in Sizes, op = <<"const", c>>
      PROVE  ~IsLocal(op) /\ IsConst(op) /\ op = <<"const", op[2]>> /\ op[2] \in Sizes
  BY <1>6 DEF IsLocal, IsConst
<1> QED  BY <1>2, <1>3, <1>4, <1>5, <1>6, Zenon

\* A call that allocates, and what the analysis makes of it.  With an id:
Numbered(kind, size) ==
    /\ alloc_sizes' = Append(alloc_sizes, size) /\ object' = Append(object, size)
    /\ real' = Append(real, Len(object) + 1)
    /\ ptr_env' = [ptr_env EXCEPT ![dest] = <<kind, Len(alloc_sizes) + 1, 0>>]
    /\ value' = [value EXCEPT ![dest] = <<"obj", Len(object) + 1, 0>>]
    /\ dma_allocs_in_func' = dma_allocs_in_func \cup (IF kind = "dma" THEN {Len(alloc_sizes) + 1} ELSE {})
    /\ dma_objects' = dma_objects \cup (IF kind = "dma" THEN {Len(object) + 1} ELSE {})
    /\ unpaired' = unpaired \cup (IF kind = "dma" THEN {Len(object) + 1} ELSE {})
    /\ verdict'.result = verdict.result
    /\ UNCHANGED <<int_env, hazard>>

\* Without an id, and the verdict Unknown or DMA ignored:
Unnumbered(size, new) ==
    /\ object' = Append(object, size)
    /\ value' = [value EXCEPT ![dest] = <<"obj", Len(object) + 1, 0>>]
    /\ dma_objects' = dma_objects \cup new /\ unpaired' = unpaired \cup new
    /\ verdict'.result # "pass" \/ policy.dma = "ignore"
    /\ verdict'.result # "fail"
    /\ UNCHANGED <<alloc_sizes, real, ptr_env, int_env, dma_allocs_in_func, hazard>>

\* The call returns NULL, its product being too large:
Overflown ==
    /\ value' = [value EXCEPT ![dest] = Data]
    /\ hazard' = hazard \cup {"overflow"}
    /\ verdict'.result # "pass"
    /\ UNCHANGED <<alloc_sizes, object, real, ptr_env, int_env, dma_allocs_in_func, dma_objects, unpaired>>

Allocates ==
    /\ phase = "visit" /\ verdict.result # "fail" /\ dest \in Names /\ dest' = dest + 1
    /\ ptr_names' = ptr_names \cup {dest}
    /\ UNCHANGED <<program, policy, phase, func, alloca_names, alloca_store_map, freed_allocs,
                   iommu_mapped_in_func, slot, cell, dead>>
    /\ \/ \E kind \in {"kmalloc", "dma"}, size \in Nat : Numbered(kind, size)
       \/ \E size \in Nat, new \in SUBSET {Len(object) + 1} : Unnumbered(size, new)
       \/ Overflown

\* What the analysis has numbered is what NewObject pairs with the new object.
LEMMA NewObjectStep ==
    ASSUME HeapShape, NewObject, NEW size \in Nat
    PROVE  /\ alloc_sizes' = alloc_sizes => real' = real
           /\ alloc_sizes' = Append(alloc_sizes, size) /\ object' = Append(object, size) =>
                 real' = Append(real, Len(object) + 1)
<1>1. Append(alloc_sizes, size) # alloc_sizes
  <2>1. Len(Append(alloc_sizes, size)) = Len(alloc_sizes) + 1 /\ Len(alloc_sizes) \in Nat
    BY DEF HeapShape
  <2> QED  BY <2>1
<1>2. Len(Append(object, size)) = Len(object) + 1
  BY DEF HeapShape
<1> QED  BY <1>1, <1>2 DEF NewObject

\* The parts of Allocates that do not depend on the call.
LEMMA AllocatesFrame ==
    ASSUME PlaceShape, VisitDef, NewObject, NoAccess,
           UNCHANGED <<alloca_names, alloca_store_map, freed_allocs, iommu_mapped_in_func>>,
           UNCHANGED <<slot, cell, dead>>,
           \/ \E kind \in {"kmalloc", "dma"}, size \in Nat : Numbered(kind, size)
           \/ \E size \in Nat, new \in SUBSET {Len(object) + 1} : Unnumbered(size, new)
           \/ Overflown
    PROVE  Allocates
<1>1. dest \in Names
  BY ProgramAssumption DEF PlaceShape, VisitDef, Names
<1> QED  BY <1>1 DEF VisitDef, Visit, NewObject, NoAccess, DefinesPtr, Allocates

\* kmalloc.
LEMMA KmallocAllocates ==
    ASSUME HeapShape, PlaceShape, IsVerdict(verdict), DoKmalloc
    PROVE  Allocates
<1> PICK args \in {<<op>> : op \in Lengths} \cup Odd({<<>>}) :
       /\ Kmalloc(args)
       /\ \E size \in IF args = <<>> THEN Sizes ELSE SizeOf(args[1]) :
             RunAllocate(dest, size, FALSE)
  BY Zenon DEF DoKmalloc
<1> PICK size \in (IF args = <<>> THEN Sizes ELSE SizeOf(args[1])) : RunAllocate(dest, size, FALSE)
  BY Zenon
<1>0. VisitDef /\ NewObject /\ NoAccess /\ UNCHANGED <<slot, cell, dead>>
  BY DEF Kmalloc, DoKmalloc, RunAllocate
<1>1. CASE ~HasConst(args, 1)
  <2>1. size \in Nat
    <3>1. CASE args = <<>>
      BY <3>1, SizeFacts
    <3>2. CASE args # <<>>
      <4>1. PICK op \in Lengths : args = <<op>>
        BY <3>2 DEF Odd
      <4>2. Len(args) = 1 /\ args[1] = op
        BY <4>1
      <4>3. ~IsConst(op)
        BY <1>1, <4>2 DEF HasConst
      <4> QED  BY <3>2, <4>2, <4>3, SizeFacts
    <3> QED  BY <3>1, <3>2
  <2>2. Unnumbered(size, {}) /\ UNCHANGED <<alloca_names, alloca_store_map, freed_allocs, iommu_mapped_in_func>>
    <3>1. verdict' = mark_unknown(verdict) /\ OnlyVerdict
      BY <1>1 DEF Kmalloc
    <3>2. verdict'.result = "unknown"
      BY <1>0, <3>1 DEF mark_unknown, IsVerdict, VisitDef, Visit
    <3>3. real' = real
      BY <1>0, <2>1, <3>1, NewObjectStep DEF OnlyVerdict, heapVars
    <3> QED  BY <3>1, <3>2, <3>3, Zenon DEF OnlyVerdict, heapVars, envVars, RunAllocate, Define, Unnumbered
  <2> QED  BY <1>0, <2>1, <2>2, AllocatesFrame
<1>2. CASE HasConst(args, 1)
  <2>1. PICK op \in Lengths : args = <<op>>
    BY <1>2 DEF HasConst, Odd
  <2>2. args # <<>> /\ args[1] = op /\ IsConst(op)
    BY <1>2, <2>1, Zenon DEF HasConst
  <2>3. size = op[2] /\ op[2] \in Nat
    BY <2>2, SizeFacts, OperandFacts, Zenon
  <2>4. Numbered("kmalloc", size) /\ UNCHANGED <<alloca_names, alloca_store_map, freed_allocs, iommu_mapped_in_func>>
    <3>1. Allocate("kmalloc", size) /\ UNCHANGED <<dma_allocs_in_func, verdict>>
      BY <1>2, <2>2, <2>3, Zenon DEF Kmalloc
    <3>2. real' = Append(real, Len(object) + 1)
      BY <1>0, <2>3, <3>1, NewObjectStep, Zenon DEF Allocate, RunAllocate
    <3> QED  BY <3>1, <3>2, Zenon DEF Allocate, SetPtr, RunAllocate, Define, Numbered
  <2> QED  BY <1>0, <2>3, <2>4, AllocatesFrame
<1> QED  BY <1>1, <1>2

\* dma_alloc_coherent.
LEMMA DmaAllocates ==
    ASSUME HeapShape, PlaceShape, IsVerdict(verdict), GateInv(verdict), DoDmaAlloc
    PROVE  Allocates
<1> PICK args \in ({Other} \X Lengths) \cup Odd({<<Other>>}) :
       /\ DmaAllocCoherent(args)
       /\ \E size \in IF Len(args) = 2 THEN SizeOf(args[2]) ELSE Sizes :
             RunAllocate(dest, size, TRUE)
  BY Zenon DEF DoDmaAlloc
<1> PICK size \in (IF Len(args) = 2 THEN SizeOf(args[2]) ELSE Sizes) : RunAllocate(dest, size, TRUE)
  BY Zenon
<1>0. VisitDef /\ NewObject /\ NoAccess /\ UNCHANGED <<slot, cell, dead>>
  BY DEF DmaAllocCoherent, DoDmaAlloc, RunAllocate
<1>1. \/ Len(args) = 1
      \/ Len(args) = 2 /\ args[2] \in Lengths
  BY DEF Odd
<1>2. size \in Nat /\ (HasConst(args, 2) => size = args[2][2])
  <2>1. CASE Len(args) = 1
    BY <2>1, SizeFacts DEF HasConst
  <2>2. CASE Len(args) = 2 /\ args[2] \in Lengths
    <3>1. CASE IsConst(args[2])
      BY <2>2, <3>1, SizeFacts, OperandFacts
    <3>2. CASE ~IsConst(args[2])
      BY <2>2, <3>2, SizeFacts DEF HasConst
    <3> QED  BY <3>1, <3>2, Zenon
  <2> QED  BY <1>1, <2>1, <2>2
<1>3. CASE policy.dma = "ignore" \/ ~HasConst(args, 2)
  <2>1. Unnumbered(size, {Len(object) + 1}) /\ UNCHANGED <<alloca_names, alloca_store_map, freed_allocs, iommu_mapped_in_func>>
    <3>1. OnlyVerdict /\ (verdict' = mark_unknown(verdict) \/ (verdict' = verdict /\ policy.dma = "ignore"))
      BY <1>3 DEF DmaAllocCoherent
    <3>2. verdict'.result # "fail" /\ (verdict'.result # "pass" \/ policy.dma = "ignore")
      BY <1>0, <3>1 DEF mark_unknown, IsVerdict, VisitDef, Visit
    <3>3. real' = real
      BY <1>0, <1>2, <3>1, NewObjectStep DEF OnlyVerdict, heapVars
    <3> QED  BY <3>1, <3>2, <3>3 DEF OnlyVerdict, heapVars, envVars, RunAllocate, Define, Unnumbered
  <2> QED  BY <1>0, <1>2, <2>1, AllocatesFrame, Zenon
<1>4. CASE policy.dma # "ignore" /\ HasConst(args, 2)
  <2>1. Numbered("dma", size) /\ UNCHANGED <<alloca_names, alloca_store_map, freed_allocs, iommu_mapped_in_func>>
    <3>1. /\ Allocate("dma", size) /\ dma_allocs_in_func' = dma_allocs_in_func \cup {Len(alloc_sizes) + 1}
          /\ verdict' = [Ask(verdict, vc_id("dma_alloc"), vc_class_id("dma_alloc", size))
                            EXCEPT !.dma_vcs = @ + 1]
      BY <1>2, <1>4 DEF DmaAllocCoherent
    <3>2. real' = Append(real, Len(object) + 1)
      BY <1>0, <1>2, <3>1, NewObjectStep DEF Allocate, RunAllocate
    <3>3. verdict'.result = verdict.result
      BY <3>1 DEF Ask, IsVerdict
    <3> QED  BY <3>1, <3>2, <3>3 DEF Allocate, SetPtr, RunAllocate, Define, Numbered
  <2> QED  BY <1>0, <1>2, <2>1, AllocatesFrame
<1> QED  BY <1>3, <1>4

\* kcalloc.
LEMMA KcallocAllocates ==
    ASSUME HeapShape, PlaceShape, IsVerdict(verdict), DoKcalloc
    PROVE  Allocates
<1> PICK args \in (Lengths \X Lengths) \cup Odd({<<>>, <<Other>>}) :
       /\ Kcalloc(args)
       /\ IF Len(args) = 2
          THEN \E n \in SizeOf(args[1]), s \in SizeOf(args[2]) :
                  IF n * s > U64Max THEN RunOverflow(dest) ELSE RunAllocate(dest, n * s, FALSE)
          ELSE \E s \in Sizes : RunAllocate(dest, s, FALSE)
  BY Zenon DEF DoKcalloc
<1> DEFINE both == HasConst(args, 1) /\ HasConst(args, 2)
           frame == UNCHANGED <<alloca_names, alloca_store_map, freed_allocs, iommu_mapped_in_func>>
<1>1. \/ Len(args) \in {0, 1}
      \/ Len(args) = 2 /\ args[1] \in Lengths /\ args[2] \in Lengths
  <2>1. args \in Lengths \X Lengths \/ args = <<>> \/ args = <<Other>>
    BY Zenon DEF Odd
  <2> QED  BY ONLY <2>1
<1>2. \A op \in Lengths : SizeOf(op) \subseteq Nat /\ (IsConst(op) => SizeOf(op) = {op[2]})
  BY SizeFacts, OperandFacts
<1>3. \/ \E size \in Nat :
            /\ RunAllocate(dest, size, FALSE)
            /\ both => size = args[1][2] * args[2][2] /\ size <= U64Max
      \/ /\ RunOverflow(dest)
         /\ both => args[1][2] * args[2][2] > U64Max
  <2>1. CASE Len(args) \in {0, 1}
    <3>1. ~both
      BY <2>1 DEF HasConst
    <3>2. Len(args) # 2
      BY <2>1
    <3>3. PICK s \in Sizes : RunAllocate(dest, s, FALSE)
      BY <3>2, Zenon
    <3> HIDE DEF both
    <3> QED  BY <3>1, <3>3, SizeFacts, Zenon
  <2>2. CASE Len(args) = 2 /\ args[1] \in Lengths /\ args[2] \in Lengths
    <3>1. PICK n \in SizeOf(args[1]), s \in SizeOf(args[2]) :
             IF n * s > U64Max THEN RunOverflow(dest) ELSE RunAllocate(dest, n * s, FALSE)
      BY <2>2, Zenon
    <3>2. n \in Nat /\ s \in Nat /\ (both => n = args[1][2] /\ s = args[2][2])
      BY <1>2, <2>2 DEF HasConst
    <3>3. n * s \in Nat
      BY <3>2
    <3>4. CASE n * s > U64Max
      BY <3>1, <3>2, <3>4, Zenon
    <3>5. CASE ~(n * s > U64Max)
      <4>1. n * s <= U64Max
        <5>1. U64Max \in Nat
          BY SizeFacts, Zenon
        <5> QED  BY ONLY <3>3, <3>5, <5>1
      <4> HIDE DEF both
      <4> QED  BY <3>1, <3>2, <3>3, <3>5, <4>1, Zenon
    <3> QED  BY <3>4, <3>5, Zenon
  <2> QED  BY <1>1, <2>1, <2>2, Zenon
<1>4. VisitDef /\ NewObject /\ NoAccess
  BY DEF Kcalloc, DoKcalloc
<1>5. CASE ~both \/ args[1][2] * args[2][2] > U64Max
  <2>1. OnlyVerdict /\ ((verdict' = FailWith(verdict) /\ both) \/ verdict' = mark_unknown(verdict))
    <3>1. CASE ~both
      BY <3>1 DEF Kcalloc
    <3>2. CASE both /\ args[1][2] * args[2][2] > U64Max
      <4>1. args[1][2] * args[2][2] \in Nat
        <5>1. Len(args) = 2 /\ args[1] \in Lengths /\ args[2] \in Lengths /\ IsConst(args[1]) /\ IsConst(args[2])
          BY <1>1, <3>2 DEF HasConst
        <5>2. args[1][2] \in Nat /\ args[2][2] \in Nat
          BY <1>2, <5>1
        <5> QED  BY <5>2
      <4> QED  BY <3>2, <4>1, SizeFacts DEF Kcalloc
    <3> QED  BY <1>5, <3>1, <3>2
  <2>2. verdict'.result # "pass" /\ (~both => verdict'.result # "fail")
    BY <1>4, <2>1 DEF mark_unknown, FailWith, IsVerdict, VisitDef, Visit
  <2>3. frame /\ UNCHANGED <<alloc_sizes, ptr_env, int_env, dma_allocs_in_func>>
    BY <2>1 DEF OnlyVerdict, heapVars, envVars
  <2>4. real' = real
    BY <1>4, <2>3, NewObjectStep
  <2>5. CASE RunOverflow(dest)
    <3>1. Overflown /\ UNCHANGED <<slot, cell, dead>>
      BY <2>2, <2>3, <2>4, <2>5 DEF RunOverflow, Define, Overflown
    <3> QED  BY <1>4, <2>3, <3>1, AllocatesFrame
  <2>6. ASSUME NEW size \in Nat, RunAllocate(dest, size, FALSE), ~both
        PROVE  Allocates
    <3>1. Unnumbered(size, {}) /\ UNCHANGED <<slot, cell, dead>>
      BY <2>2, <2>3, <2>4, <2>6 DEF RunAllocate, Define, Unnumbered
    <3> QED  BY <1>4, <2>3, <3>1, AllocatesFrame, Zenon
  <2>7. ASSUME NEW size \in Nat, both => size = args[1][2] * args[2][2] /\ size <= U64Max
        PROVE  ~both
    <3>1. U64Max \in Nat
      BY SizeFacts
    <3> HIDE DEF both
    <3> QED  BY <1>5, <2>7, <3>1
  <2> HIDE DEF both
  <2> QED  BY <1>3, <2>5, <2>6, <2>7, Zenon
<1>6. CASE both /\ ~(args[1][2] * args[2][2] > U64Max)
  <2>1. PICK size \in Nat : RunAllocate(dest, size, FALSE) /\ size = args[1][2] * args[2][2]
    BY <1>3, <1>6, Zenon
  <2>2. Allocate("kmalloc", size) /\ UNCHANGED <<dma_allocs_in_func, verdict>>
    BY <1>6, <2>1, Zenon DEF Kcalloc
  <2>3. Numbered("kmalloc", size) /\ UNCHANGED <<slot, cell, dead>> /\ frame
    <3>1. real' = Append(real, Len(object) + 1)
      BY <1>4, <2>1, <2>2, NewObjectStep DEF Allocate, RunAllocate
    <3> QED  BY <2>1, <2>2, <3>1, Zenon DEF Allocate, SetPtr, RunAllocate, Define, Numbered
  <2> QED  BY <1>4, <2>3, AllocatesFrame
<1> QED  BY <1>5, <1>6

-----------------------------------------------------------------------------
(* The shapes.                                                             *)

\* An instruction with a result that allocates nothing.
Defines ==
    /\ phase = "visit" /\ verdict.result # "fail" /\ dest \in Names /\ dest' = dest + 1
    /\ UNCHANGED <<program, policy, phase, func, alloca_store_map, heapVars, real>>
    /\ UNCHANGED <<slot, cell, object, dead, dma_objects, unpaired>>
    /\ alloca_names' \in {alloca_names, alloca_names \cup {dest}}
    /\ ptr_names' \in {ptr_names \cup {dest}, ptr_names \ {dest}}
    /\ \E pv \in PtrVals : ptr_env' = [ptr_env EXCEPT ![dest] = pv]
    /\ \E iv \in IntVals : int_env' = [int_env EXCEPT ![dest] = iv]
    /\ \E v : value' = [value EXCEPT ![dest] = v]

\* Everything else that stays in its function.
Stays ==
    /\ UNCHANGED <<program, policy, func, dest, ptr_env, int_env, alloca_names, ptr_names>>
    /\ UNCHANGED <<alloc_sizes, dma_allocs_in_func, real, value, object, dma_objects>>
    /\ phase' \in {"visit", "analyzed", "done"}
    /\ alloca_store_map' \in [Names -> PtrVals]
    /\ freed_allocs' \subseteq 1..Len(alloc_sizes)
    /\ iommu_mapped_in_func' \subseteq dma_allocs_in_func

Shapes == EnvShape /\ HeapShape /\ PlaceShape /\ RealInv

\* A sequence with one more element.
LEMMA Appended ==
    ASSUME NEW S, NEW s \in Seq(S), NEW e \in S
    PROVE  Append(s, e) \in Seq(S) /\ Len(Append(s, e)) = Len(s) + 1 /\ Len(s) \in Nat
OBVIOUS

\* An allocation keeps the shapes.
LEMMA AllocatesShapes ==
    ASSUME Shapes, Allocates
    PROVE  Shapes'
<1> USE DEF Shapes
<1>1. PlaceShape'
  <2>1. dest \in Names /\ dest' = dest + 1 /\ UNCHANGED <<program, policy, phase, func>>
    BY Zenon DEF Allocates
  <2>2. dest' \in 0..MaxDest + 1
    BY ONLY <2>1, ProgramAssumption DEF Names
  <2> QED  BY <2>1, <2>2, Zenon DEF PlaceShape
<1>2. ASSUME NEW kind \in {"kmalloc", "dma"}, NEW size \in Nat, Numbered(kind, size)
      PROVE  EnvShape' /\ HeapShape' /\ RealInv'
  <2>1. /\ alloc_sizes' \in Seq(Nat) /\ object' \in Seq(Nat) /\ real' \in Seq(Nat)
        /\ Len(alloc_sizes') = Len(alloc_sizes) + 1 /\ Len(object') = Len(object) + 1
        /\ Len(real') = Len(real) + 1
        /\ Len(alloc_sizes) \in Nat /\ Len(object) \in Nat /\ Len(real) = Len(alloc_sizes)
    <3>1. /\ alloc_sizes \in Seq(Nat) /\ object \in Seq(Nat) /\ real \in Seq(Nat)
          /\ Len(real) = Len(alloc_sizes) /\ size \in Nat
      BY Zenon DEF HeapShape
    <3>2. /\ alloc_sizes' = Append(alloc_sizes, size) /\ object' = Append(object, size)
          /\ real' = Append(real, Len(object) + 1)
      BY <1>2, Zenon DEF Numbered
    <3>3. Len(object) + 1 \in Nat
      BY ONLY <3>1
    <3> QED  BY ONLY <3>1, <3>2, <3>3, Appended, Zenon
  <2>2. /\ Len(object') = Len(object) + 1 /\ Len(real') = Len(real) + 1
        /\ Len(object) \in Nat /\ Len(real) \in Nat
    BY <2>1
  <2>3. HeapShape'
    <3> DEFINE n == Len(alloc_sizes)
    <3>1. 1..Len(alloc_sizes') = 1..n \cup {n + 1}
      BY <2>1
    <3>2. /\ freed_allocs' = freed_allocs /\ iommu_mapped_in_func' = iommu_mapped_in_func
          /\ dma_allocs_in_func' \in {dma_allocs_in_func, dma_allocs_in_func \cup {n + 1}}
      BY <1>2 DEF Numbered, Allocates
    <3> QED  BY <2>1, <3>1, <3>2, Zenon DEF HeapShape
  <2>4. EnvShape'
    <3>1. <<kind, Len(alloc_sizes) + 1, 0>> \in PtrVals'
      <4>1. Len(alloc_sizes) + 1 \in 1..Len(alloc_sizes')
        BY ONLY <2>1
      <4> HIDE DEF Shapes
      <4> QED  BY <4>1 DEF PtrVals
    <3>2. PtrVals \subseteq PtrVals' /\ IntVals \subseteq IntVals'
      <4> DEFINE old == 1..Len(alloc_sizes)
                 new == 1..Len(alloc_sizes')
      <4>1. old \subseteq new
        BY <2>1
      <4>2. /\ PtrVals = {Unknown, Absent} \cup ({"kmalloc", "dma"} \X old \X Int)
            /\ PtrVals' = {Unknown, Absent} \cup ({"kmalloc", "dma"} \X new \X Int)
            /\ IntVals = {Unknown, Absent} \cup ({"ptr_offset"} \X old \X Int)
            /\ IntVals' = {Unknown, Absent} \cup ({"ptr_offset"} \X new \X Int)
        BY DEF PtrVals, IntVals
      <4> HIDE DEF old, new
      <4> QED  BY <4>1, <4>2
    <3> QED  BY <1>2, <3>1, <3>2 DEF Numbered, Allocates, EnvShape
  <2>5. RealInv'
    <3>1. \A id \in 1..Len(real) : real'[id] = real[id] /\ alloc_sizes'[id] = alloc_sizes[id]
      BY <1>2, <2>1 DEF Numbered, HeapShape
    <3>2. \A o \in 1..Len(object) : object'[o] = object[o]
      BY <1>2, <2>1 DEF Numbered, HeapShape
    <3>3. /\ real'[Len(real) + 1] = Len(object) + 1 /\ alloc_sizes'[Len(real) + 1] = size
          /\ object'[Len(object) + 1] = size
      BY <1>2, <2>1 DEF Numbered, HeapShape
    <3>4. 1..Len(real') = 1..Len(real) \cup {Len(real) + 1}
      BY <2>1
    <3>5. ASSUME NEW id \in 1..Len(real')
          PROVE  real'[id] \in 1..Len(object') /\ object'[real'[id]] = alloc_sizes'[id]
      <4>1. CASE id \in 1..Len(real)
        <5>1. real[id] \in 1..Len(object) /\ object[real[id]] = alloc_sizes[id]
          BY <4>1 DEF RealInv
        <5>2. real'[id] = real[id] /\ alloc_sizes'[id] = alloc_sizes[id]
          BY <3>1, <4>1
        <5>3. object'[real[id]] = object[real[id]] /\ real[id] \in 1..Len(object')
          BY ONLY <2>2, <3>2, <5>1
        <5> QED  BY <5>1, <5>2, <5>3
      <4>2. CASE id = Len(real) + 1
        BY <2>1, <3>3, <4>2
      <4> QED  BY <3>4, <4>1, <4>2
    <3>6. ASSUME NEW i \in 1..Len(real'), NEW j \in 1..Len(real'), real'[i] = real'[j]
          PROVE  i = j
      <4>1. \A k \in 1..Len(real) : real'[k] # Len(object) + 1
        <5> TAKE k \in 1..Len(real)
        <5>1. real[k] \in 1..Len(object) /\ real'[k] = real[k]
          BY <3>1 DEF RealInv
        <5> QED  BY ONLY <2>2, <5>1
      <4>2. CASE i \in 1..Len(real) /\ j \in 1..Len(real)
        BY <3>1, <3>6, <4>2 DEF RealInv
      <4> QED  BY <3>3, <3>4, <3>6, <4>1, <4>2
    <3> QED  BY <3>5, <3>6, Zenon DEF RealInv
  <2> QED  BY <2>3, <2>4, <2>5
<1>3. ASSUME NEW size \in Nat, NEW new, Unnumbered(size, new)
      PROVE  EnvShape' /\ HeapShape' /\ RealInv'
  <2>1. /\ object' \in Seq(Nat) /\ Len(object') = Len(object) + 1 /\ Len(object) \in Nat
        /\ \A o \in 1..Len(object) : object'[o] = object[o]
    BY <1>3, SMTT(30) DEF Unnumbered, HeapShape
  <2>2. HeapShape' /\ EnvShape'
    <3>1. PtrVals' = PtrVals /\ IntVals' = IntVals
      BY <1>3 DEF Unnumbered, PtrVals, IntVals
    <3> QED  BY <1>3, <2>1, <3>1, Zenon DEF Unnumbered, HeapShape, EnvShape, Allocates
  <2>3. RealInv'
    <3>1. RealInv /\ real' = real /\ alloc_sizes' = alloc_sizes
      BY <1>3, Zenon DEF Unnumbered
    <3> QED  BY ONLY <2>1, <3>1 DEF RealInv
  <2> QED  BY <2>2, <2>3
<1>4. CASE Overflown
  <2>1. PtrVals' = PtrVals /\ IntVals' = IntVals
    BY <1>4, Zenon DEF Overflown, PtrVals, IntVals
  <2>2. EnvShape'
    BY <1>4, <2>1 DEF Overflown, Allocates, EnvShape
  <2>3. HeapShape' /\ RealInv'
    BY <1>4, Zenon DEF Overflown, Allocates, HeapShape, RealInv
  <2> QED  BY <1>1, <2>2, <2>3
<1> QED  BY <1>1, <1>2, <1>3, <1>4, Zenon DEF Allocates

\* So does the definition of a name.
LEMMA DefinesShapes ==
    ASSUME Shapes, Defines
    PROVE  Shapes'
<1>1. PlaceShape'
  <2>1. /\ PlaceShape /\ dest \in Names /\ dest' = dest + 1
        /\ UNCHANGED <<program, policy, phase, func>>
    BY Zenon DEF Shapes, Defines
  <2>2. dest' \in 0..MaxDest + 1
    BY ONLY <2>1, ProgramAssumption DEF Names
  <2> QED  BY ONLY <2>1, <2>2, Zenon DEF PlaceShape
<1>2. HeapShape' /\ RealInv'
  BY Zenon DEF Shapes, HeapShape, RealInv, Defines, heapVars
<1>3. PtrVals' = PtrVals /\ IntVals' = IntVals
  BY Zenon DEF PtrVals, IntVals, Defines, heapVars
<1>4. EnvShape'
  BY <1>3, ZenonT(30) DEF Shapes, EnvShape, Defines
<1> QED  BY <1>1, <1>2, <1>4, Zenon DEF Shapes

\* And everything else that stays in its function.
LEMMA StaysShapes ==
    ASSUME Shapes, Stays
    PROVE  Shapes'
BY Zenon DEF Shapes, Stays, EnvShape, HeapShape, PlaceShape, RealInv, PtrVals, IntVals

-----------------------------------------------------------------------------
(* The steps of the analysis, as far as its maps go.                       *)

\* infer_gep_offset of one index.
LEMMA GepOne ==
    ASSUME NEW i, NEW b \in Int, i[2] \in Nat, U64Max \in Nat
    PROVE  infer_gep_offset(<<i>>, b) = b + saturating_mul(i[2], 8)
<1> DEFINE s == saturating_mul(i[2], 8)
           E(f) == [k \in 0..1 |-> IF k = 0 THEN b
                                   ELSE f[k - 1] + saturating_mul(<<i>>[k][2], IF k = 1 THEN 8 ELSE 4)]
           g == [k \in 0..1 |-> IF k = 0 THEN b ELSE b + s]
           h == CHOOSE f : f = E(f)
<1>1. Len(<<i>>) = 1 /\ <<i>>[1] = i
  OBVIOUS
<1>2. infer_gep_offset(<<i>>, b) = h[1]
  BY <1>1 DEF infer_gep_offset
<1>3. E(g) = g
  BY <1>1
<1>4. h = E(h)
  BY <1>3
<1> HIDE DEF h
<1>5. h[0] = b /\ h[1] = h[0] + s
  BY <1>1, <1>4
<1> QED  BY <1>2, <1>5

\* infer_gep_offset of two indices.
LEMMA GepTwo ==
    ASSUME NEW i, NEW j, NEW b \in Int, i[2] \in Nat, j[2] \in Nat, U64Max \in Nat
    PROVE  infer_gep_offset(<<i, j>>, b) = b + saturating_mul(i[2], 8) + saturating_mul(j[2], 4)
<1> DEFINE s == saturating_mul(i[2], 8)
           t == saturating_mul(j[2], 4)
           E(f) == [k \in 0..2 |-> IF k = 0 THEN b
                                   ELSE f[k - 1] + saturating_mul(<<i, j>>[k][2], IF k = 1 THEN 8 ELSE 4)]
           g == [k \in 0..2 |-> IF k = 0 THEN b ELSE IF k = 1 THEN b + s ELSE b + s + t]
           h == CHOOSE f : f = E(f)
<1>1. Len(<<i, j>>) = 2 /\ <<i, j>>[1] = i /\ <<i, j>>[2] = j
  OBVIOUS
<1>2. infer_gep_offset(<<i, j>>, b) = h[2]
  BY <1>1 DEF infer_gep_offset
<1>3. E(g) = g
  BY <1>1
<1>4. h = E(h)
  BY <1>3
<1> HIDE DEF h
<1>5. h[0] = b /\ h[1] = h[0] + s /\ h[2] = h[1] + t
  BY <1>1, <1>4
<1> QED  BY <1>2, <1>5

\* An entry that stays is an entry.
LEMMA SameEntry ==
    ASSUME Shapes, dest \in Names
    PROVE  /\ ptr_env[dest] \in PtrVals /\ ptr_env = [ptr_env EXCEPT ![dest] = ptr_env[dest]]
           /\ int_env[dest] \in IntVals /\ int_env = [int_env EXCEPT ![dest] = int_env[dest]]
BY DEF Shapes, EnvShape

\* The parts of Defines that do not depend on the instruction.
LEMMA DefinesFrame ==
    ASSUME Shapes, VisitDef, program' = program, UNCHANGED <<alloca_store_map, heapVars, real>>,
           UNCHANGED <<slot, cell, object, dead, dma_objects, unpaired>>,
           NEW v, value' = [value EXCEPT ![dest] = v],
           alloca_names' \in {alloca_names, alloca_names \cup {dest}},
           DefinesPtr \/ DefinesInt,
           NEW pv \in PtrVals, ptr_env' \in {ptr_env, [ptr_env EXCEPT ![dest] = pv]},
           NEW iv \in IntVals, int_env' \in {int_env, [int_env EXCEPT ![dest] = iv]}
    PROVE  Defines
<1>1. dest \in Names
  BY ProgramAssumption, SMTT(30) DEF Shapes, PlaceShape, VisitDef, Names
<1>2. /\ \E e \in PtrVals : ptr_env' = [ptr_env EXCEPT ![dest] = e]
      /\ \E e \in IntVals : int_env' = [int_env EXCEPT ![dest] = e]
  BY <1>1, SameEntry, Zenon
<1>3. /\ phase = "visit" /\ verdict.result # "fail" /\ dest' = dest + 1
      /\ UNCHANGED <<program, policy, phase, func>>
      /\ ptr_names' \in {ptr_names \cup {dest}, ptr_names \ {dest}}
      /\ \E w : value' = [value EXCEPT ![dest] = w]
  BY Zenon DEF VisitDef, Visit, DefinesPtr, DefinesInt
<1> QED  BY <1>1, <1>2, <1>3, Zenon DEF Defines

\* Unknown and Absent are entries.
LEMMA NoEntry == Unknown \in PtrVals /\ Absent \in PtrVals /\ Unknown \in IntVals /\ Absent \in IntVals
BY DEF PtrVals, IntVals

\* alloca, and what the analysis does not know.
LEMMA OpaqueDefines ==
    ASSUME Shapes, DoAlloca \/ DoOpaque
    PROVE  Defines
<1>1. /\ VisitDef /\ program' = program /\ UNCHANGED <<alloca_store_map, heapVars, real>>
      /\ UNCHANGED <<slot, cell, object, dead, dma_objects, unpaired>>
      /\ \E v : value' = [value EXCEPT ![dest] = v]
      /\ alloca_names' \in {alloca_names, alloca_names \cup {dest}}
      /\ DefinesPtr \/ DefinesInt
      /\ ptr_env' = ptr_env /\ int_env' = int_env
  BY Zenon DEF DoAlloca, DoOpaque, Alloca, Opaque, RunDefine, Define, envVars, NoAccess
<1> QED  BY <1>1, NoEntry, DefinesFrame, Zenon

\* A load gets back an entry of alloca_store_map.
LEMMA LoadDefines ==
    ASSUME Shapes, DoLoad
    PROVE  Defines
<1> PICK addr \in Addresses, size \in AccessSizes :
       Load(addr, size) /\ (\E n : RunLoad(dest, Eval(addr), n)) /\ Accesses({addr})
  BY Zenon DEF DoLoad
<1>1. /\ VisitDef /\ program' = program /\ UNCHANGED <<alloca_store_map, heapVars, real>>
      /\ UNCHANGED <<slot, cell, object, dead, dma_objects, unpaired>>
      /\ \E v : value' = [value EXCEPT ![dest] = v]
      /\ alloca_names' = alloca_names /\ int_env' = int_env
      /\ DefinesPtr
      /\ ptr_env' = ptr_env \/ (IsLocal(addr) /\ SetPtr(alloca_store_map[addr[2]]))
  BY Zenon DEF DoLoad, Load, RunLoad, Define, Accesses
<1>2. IsLocal(addr) => alloca_store_map[addr[2]] \in PtrVals
  BY OperandFacts DEF Shapes, EnvShape
<1> QED  BY <1>1, <1>2, NoEntry, DefinesFrame, Zenon DEF SetPtr

\* A GEP shifts the entry of its base.
LEMMA GepDefines ==
    ASSUME Shapes, DoGep
    PROVE  Defines
<1> DEFINE index == {<<"const", c>> : c \in Indices} \cup Odd({Other})
<1> PICK base \in Addresses, indices \in {<<i>> : i \in index} \cup (index \X index) :
       /\ GetElementPtr(base, indices)
       /\ \E v : RunDefine(dest, v)
  BY Zenon DEF DoGep, Moves
<1> DEFINE pv == IF IsLocal(base) THEN GepBase(base[2]) ELSE Unknown
           new == IF Tracked(pv) /\ GepResolves(indices)
                  THEN <<pv[1], pv[2], infer_gep_offset(indices, pv[3])>> ELSE Unknown
<1>1. /\ VisitDef /\ program' = program /\ UNCHANGED <<alloca_store_map, heapVars, real>>
      /\ UNCHANGED <<slot, cell, object, dead, dma_objects, unpaired>>
      /\ \E v : value' = [value EXCEPT ![dest] = v]
      /\ alloca_names' = alloca_names /\ int_env' = int_env
      /\ DefinesPtr
      /\ ptr_env' = [ptr_env EXCEPT ![dest] = new]
  BY Zenon DEF DoGep, GetElementPtr, SetPtr, RunDefine, Define, NoAccess
<1>2. pv \in PtrVals
  BY OperandFacts, Zenon DEF Shapes, EnvShape, GepBase, PtrVals
<1>3. ASSUME Tracked(pv), GepResolves(indices)
      PROVE  new \in PtrVals
  <2>1. pv \in {"kmalloc", "dma"} \X (1..Len(alloc_sizes)) \X Int
    <3> HIDE DEF pv
    <3>1. pv \in PtrVals /\ pv[1] \in {"kmalloc", "dma"}
      BY <1>2, <1>3, Zenon DEF Tracked
    <3> QED  BY ONLY <3>1 DEF PtrVals, Unknown, Absent
  <2>2. \A i \in index : IsConst(i) => i[2] \in Nat
    BY ProgramAssumption, SMTT(30) DEF Odd, Other, IsConst
  <2>3. U64Max \in Nat
    BY ProgramAssumption, Zenon
  <2>4. \A a, b \in Nat : saturating_mul(a, b) \in Int
    BY <2>3 DEF saturating_mul
  <2> HIDE DEF pv, index
  <2>5. infer_gep_offset(indices, pv[3]) \in Int
    <3>1. ASSUME NEW i \in index, indices = <<i>>
          PROVE  infer_gep_offset(indices, pv[3]) \in Int
      <4>1. IsConst(i)
        <5>1. 1 \in DOMAIN indices /\ indices[1] = i
          BY <3>1, SMTT(30)
        <5> QED  BY <1>3, <5>1, Zenon DEF GepResolves
      <4>2. pv[3] \in Int /\ i[2] \in Nat
        BY <2>1, <2>2, <4>1, Zenon
      <4>3. infer_gep_offset(<<i>>, pv[3]) = pv[3] + saturating_mul(i[2], 8)
        BY <2>3, <4>2, GepOne, Zenon
      <4> QED  BY <2>4, <3>1, <4>2, <4>3, SMTT(30)
    <3>2. ASSUME NEW i \in index, NEW j \in index, indices = <<i, j>>
          PROVE  infer_gep_offset(indices, pv[3]) \in Int
      <4>1. IsConst(i) /\ IsConst(j)
        <5>1. 1 \in DOMAIN indices /\ indices[1] = i /\ 2 \in DOMAIN indices /\ indices[2] = j
          BY <3>2, SMTT(30)
        <5> QED  BY <1>3, <5>1, Zenon DEF GepResolves
      <4>2. pv[3] \in Int /\ i[2] \in Nat /\ j[2] \in Nat
        BY <2>1, <2>2, <4>1, Zenon
      <4>3. infer_gep_offset(<<i, j>>, pv[3]) = pv[3] + saturating_mul(i[2], 8) + saturating_mul(j[2], 4)
        BY <2>3, <4>2, GepTwo, Zenon
      <4>4. saturating_mul(i[2], 8) \in Int /\ saturating_mul(j[2], 4) \in Int
        <5>1. 8 \in Nat /\ 4 \in Nat
          BY ONLY TRUE
        <5> QED  BY <2>4, <4>2, <5>1, Zenon
      <4>5. infer_gep_offset(<<i, j>>, pv[3]) \in Int
        BY ONLY <4>2, <4>3, <4>4
      <4> QED  BY <3>2, <4>5, Zenon
    <3>3. (\E i \in index : indices = <<i>>) \/ (\E i, j \in index : indices = <<i, j>>)
      OBVIOUS
    <3> QED  BY <3>1, <3>2, <3>3, Zenon
  <2> QED  BY <1>3, <2>1, <2>5, Zenon DEF PtrVals
<1>4. new \in PtrVals
  BY <1>3, NoEntry, Zenon
<1> HIDE DEF new
<1> QED  BY <1>1, <1>4, NoEntry, DefinesFrame, Zenon

\* A cast copies an entry.
LEMMA CastDefines ==
    ASSUME Shapes, DoCast
    PROVE  Defines
<1> DEFINE frame == /\ VisitDef /\ program' = program /\ UNCHANGED <<alloca_store_map, heapVars, real>>
                    /\ UNCHANGED <<slot, cell, object, dead, dma_objects, unpaired>>
                    /\ \E v : value' = [value EXCEPT ![dest] = v]
                    /\ alloca_names' = alloca_names
                    /\ DefinesPtr \/ DefinesInt
<1>1. ASSUME NEW op \in Addresses, PtrToInt(op), DefinesInt, RunDefine(dest, Eval(op))
      PROVE  Defines
  <2> DEFINE new == IF IsLocal(op) /\ ptr_env[op[2]][1] = "kmalloc"
                    THEN <<"ptr_offset", ptr_env[op[2]][2], ptr_env[op[2]][3]>> ELSE Unknown
  <2>1. frame /\ ptr_env' = ptr_env /\ int_env' = [int_env EXCEPT ![dest] = new]
    BY <1>1, Zenon DEF DoCast, PtrToInt, SetInt, RunDefine, Define, NoAccess
  <2>2. IsLocal(op) => ptr_env[op[2]] \in PtrVals
    BY OperandFacts, Zenon DEF Shapes, EnvShape
  <2>3. new \in IntVals
    BY <2>2 DEF PtrVals, IntVals, Unknown, Absent
  <2> HIDE DEF new
  <2> QED  BY <2>1, <2>3, NoEntry, DefinesFrame, Zenon
<1>2. ASSUME NEW op \in Numbers \cup Odd({Other}), IntToPtr(op), DefinesPtr, RunDefine(dest, Eval(op))
      PROVE  Defines
  <2> DEFINE new == IF IsLocal(op) /\ int_env[op[2]][1] = "ptr_offset"
                    THEN <<"kmalloc", int_env[op[2]][2], int_env[op[2]][3]>> ELSE Unknown
  <2>1. frame /\ int_env' = int_env /\ ptr_env' = [ptr_env EXCEPT ![dest] = new]
    BY <1>2, Zenon DEF DoCast, IntToPtr, SetPtr, RunDefine, Define, NoAccess
  <2>2. IsLocal(op) => int_env[op[2]] \in IntVals
    <3>1. op \in Locals \cup Addresses \cup Numbers \cup Lengths \cup {Other}
      BY DEF Odd
    <3> QED  BY <3>1, OperandFacts DEF Shapes, EnvShape
  <2>3. new \in PtrVals
    BY <2>2 DEF PtrVals, IntVals, Unknown, Absent
  <2> HIDE DEF new
  <2> QED  BY <2>1, <2>3, NoEntry, DefinesFrame, Zenon
<1>3. ASSUME NEW op \in Addresses, BitCast(op), DefinesPtr, RunDefine(dest, Eval(op))
      PROVE  Defines
  <2> DEFINE new == IF IsLocal(op) /\ ptr_env[op[2]] # Absent THEN ptr_env[op[2]] ELSE Unknown
  <2>1. frame /\ int_env' = int_env /\ ptr_env' = [ptr_env EXCEPT ![dest] = new]
    BY <1>3, Zenon DEF DoCast, BitCast, SetPtr, RunDefine, Define, NoAccess
  <2>2. new \in PtrVals
    BY OperandFacts, NoEntry DEF Shapes, EnvShape
  <2> HIDE DEF new
  <2> QED  BY <2>1, <2>2, NoEntry, DefinesFrame, Zenon
<1> QED  BY <1>1, <1>2, <1>3, Zenon DEF DoCast

\* An addition or a subtraction shifts an entry.
LEMMA ArithDefines ==
    ASSUME Shapes, DoArith
    PROVE  Defines
<1> PICK op0 \in Numbers \cup Consts, op1 \in Numbers \cup Consts :
       \E v : RunDefine(dest, v) /\ (Add(op0, op1) \/ Sub(op0, op1))
  BY Zenon DEF DoArith, Moves
<1>1. ASSUME NEW op \in Numbers \cup Consts
      PROVE  IntOf(op) \in IntVals /\ (IsConst(op) => op[2] \in Int)
  <2>1. (IsLocal(op) => op[2] \in Names) /\ (IsConst(op) => op[2] \in Sizes)
    BY OperandFacts, Zenon DEF Lengths, Shapes
  <2>2. \A c \in Sizes : c \in Int
    BY SizeFacts DEF Shapes
  <2>3. IsConst(op) => op[2] \in Int
    BY <2>1, <2>2, Zenon
  <2> QED  BY <2>1, <2>3, NoEntry, Zenon DEF IntOf, Shapes, EnvShape
<1>2. ASSUME NEW iv \in IntVals, NEW c \in Int, IsPtrOffset(iv)
      PROVE  <<"ptr_offset", iv[2], iv[3] + c>> \in IntVals /\ <<"ptr_offset", iv[2], iv[3] - c>> \in IntVals
  BY <1>2, SMTT(30) DEF IntVals, IsPtrOffset, Unknown, Absent
<1>3. \E iv \in IntVals : int_env' \in {int_env, [int_env EXCEPT ![dest] = iv]}
  <2>1. CASE Add(op0, op1)
    <3>1. \/ int_env' = int_env
          \/ \E iv \in IntVals : int_env' = [int_env EXCEPT ![dest] = iv]
      BY <1>1, <1>2, <2>1, NoEntry, Zenon DEF Add, Arith, SetInt
    <3> QED  BY <3>1, NoEntry
  <2>2. CASE Sub(op0, op1)
    <3>1. \/ int_env' = int_env
          \/ \E iv \in IntVals : int_env' = [int_env EXCEPT ![dest] = iv]
      BY <1>1, <1>2, <2>2, NoEntry, Zenon DEF Sub, Arith, SetInt
    <3> QED  BY <3>1, NoEntry
  <2> QED  BY <2>1, <2>2
<1>4. /\ VisitDef /\ program' = program /\ UNCHANGED <<alloca_store_map, heapVars, real>>
      /\ UNCHANGED <<slot, cell, object, dead, dma_objects, unpaired>>
      /\ \E v : value' = [value EXCEPT ![dest] = v]
      /\ alloca_names' = alloca_names /\ ptr_env' = ptr_env
      /\ DefinesPtr \/ DefinesInt
  BY Zenon DEF DoArith, Add, Sub, Arith, RunDefine, Define, NoAccess
<1> QED  BY <1>3, <1>4, NoEntry, DefinesFrame, Zenon

\* Calls without a result.
LEMMA CallsStay ==
    ASSUME Shapes, DoKfree \/ DoMemset \/ DoMemcpy \/ DoDmaMap \/ DoIommuMap \/ DoInlineAsm
    PROVE  Stays
<1> DEFINE frame == /\ UNCHANGED <<program, policy, func, dest, phase, envVars, ptr_names>>
                    /\ UNCHANGED <<alloc_sizes, dma_allocs_in_func, real, value, object, dma_objects>>
<1>1. CASE DoKfree
  <2> PICK args \in {<<op>> : op \in Addresses} \cup Odd({<<>>}) :
         Kfree(args) /\ (\E v : RunFree(v)) /\ (\E ops : Accesses(ops))
    BY <1>1, Zenon DEF DoKfree
  <2>1. frame /\ iommu_mapped_in_func' = iommu_mapped_in_func
    BY <1>1, Zenon DEF DoKfree, Kfree, VisitVoid, Visit, RunFree, Accesses, NoResult
  <2>2. freed_allocs' \subseteq 1..Len(alloc_sizes)
    <3>1. CASE ~HasLocal(args, 1)
      BY <3>1, Zenon DEF Kfree, Shapes, HeapShape
    <3>2. CASE HasLocal(args, 1)
      <4>1. PICK op \in Addresses : args = <<op>>
        BY <3>2 DEF HasLocal, Odd
      <4>2. args[1] = op /\ IsLocal(op)
        BY <3>2, <4>1, Zenon DEF HasLocal
      <4>3. ptr_env[op[2]] \in PtrVals
        BY <4>2, OperandFacts, Zenon DEF Shapes, EnvShape
      <4>4. ptr_env[op[2]][1] = "kmalloc" => ptr_env[op[2]][2] \in 1..Len(alloc_sizes)
        BY <4>3, SMTT(30) DEF PtrVals, Unknown, Absent
      <4> QED  BY <3>2, <4>2, <4>4, Zenon DEF Kfree, Shapes, HeapShape
    <3> QED  BY <3>1, <3>2
  <2> QED  BY <2>1, <2>2, Zenon DEF Stays, Shapes, EnvShape, HeapShape, PlaceShape, envVars
<1>2. CASE DoMemset \/ DoMemcpy \/ DoDmaMap \/ DoInlineAsm
  <2>1. frame /\ UNCHANGED <<freed_allocs, iommu_mapped_in_func>>
    <3>1. CASE DoMemset
      BY <3>1, Zenon DEF DoMemset, Memset, VisitVoid, Visit, RunAccess, Accesses, NoResult, OnlyVerdict, heapVars
    <3>2. CASE DoMemcpy
      BY <3>2, Zenon DEF DoMemcpy, Memcpy, VisitVoid, Visit, RunAccess, Accesses, NoResult, OnlyVerdict, heapVars
    <3>3. CASE DoDmaMap
      BY <3>3, Zenon DEF DoDmaMap, DmaMapSingle, VisitVoid, Visit, RunAccess, Accesses, NoResult, OnlyVerdict, heapVars
    <3>4. CASE DoInlineAsm
      BY <3>4, Zenon DEF DoInlineAsm, InlineAsm, VisitVoid, Visit, RunNothing, RunFree, machineVars, NoAccess, NoResult, OnlyVerdict, heapVars
    <3> QED  BY <1>2, <3>1, <3>2, <3>3, <3>4
  <2> QED  BY <2>1, Zenon DEF Stays, Shapes, EnvShape, HeapShape, PlaceShape, envVars
<1>3. CASE DoIommuMap
  <2>1. frame /\ freed_allocs' = freed_allocs
        /\ iommu_mapped_in_func' = iommu_mapped_in_func \cup dma_allocs_in_func
    BY <1>3, Zenon DEF DoIommuMap, IommuMap, VisitVoid, Visit, RunIommuMap, NoAccess, NoResult
  <2> QED  BY <2>1, Zenon DEF Stays, Shapes, EnvShape, HeapShape, PlaceShape, envVars
<1> QED  BY <1>1, <1>2, <1>3, Zenon

\* A store enters an entry of ptr_env for the slot.
LEMMA StoreStays ==
    ASSUME Shapes, DoStore
    PROVE  Stays
<1> PICK addr \in Addresses, op \in Locals \cup {Other}, size \in AccessSizes :
       Store(addr, op, size) /\ (\E n : RunStore(Eval(addr), Eval(op), n)) /\ Accesses({addr})
  BY Zenon DEF DoStore
<1>1. /\ UNCHANGED <<program, policy, func, dest, phase, ptr_env, int_env, alloca_names, ptr_names>>
      /\ UNCHANGED <<heapVars, real, value, object, dma_objects>>
  BY Zenon DEF DoStore, Store, VisitVoid, Visit, RunStore, Accesses, NoResult
<1>2. IsLocal(op) => ptr_env[op[2]] \in PtrVals
  BY OperandFacts DEF Shapes, EnvShape
<1>3. alloca_store_map' \in [Names -> PtrVals]
  BY <1>2, Zenon DEF Store, Shapes, EnvShape
<1> QED  BY <1>1, <1>3 DEF Stays, Shapes, HeapShape, PlaceShape, heapVars

\* The steps between the instructions.
LEMMA RestStays ==
    ASSUME Shapes, DoInterrupt \/ DoEnd \/ Done \/ UNCHANGED vars
    PROVE  Stays
<1>1. /\ UNCHANGED <<program, policy, func, dest, envVars, ptr_names>>
      /\ UNCHANGED <<heapVars, real, value, object, dma_objects>>
      /\ phase' \in {phase, "analyzed", "done"}
  <2>1. CASE DoInterrupt
    BY <2>1, Zenon DEF DoInterrupt, Interrupt, analyzerVars, placeVars
  <2>2. CASE DoEnd
    BY <2>2, Zenon DEF DoEnd, EndOfModule, EnforceHitl, RunNothing, machineVars, NoResult, NoAccess
  <2>3. CASE Done \/ UNCHANGED vars
    BY <2>3, Zenon DEF Done, vars, analyzerVars, placeVars, machineVars
  <2> QED  BY <2>1, <2>2, <2>3
<1> QED  BY <1>1, Zenon DEF Stays, Shapes, EnvShape, HeapShape, PlaceShape, envVars, heapVars

\* The next function.
LEMMA NextFunctionShapes ==
    ASSUME Shapes, DoNextFunction
    PROVE  Shapes'
<1>1. /\ UNCHANGED <<program, policy, phase, envVars, heapVars, real, object>>
      /\ dest' \in {0, 1} /\ func' = func + 1
  BY Zenon DEF DoNextFunction, NextFunction, RunCall, NoAccess
<1>2. PlaceShape'
  <2>1. /\ program' = program /\ policy' = policy /\ phase' = phase
        /\ dest' \in {0, 1} /\ func' = func + 1
        /\ PlaceShape /\ MaxDest \in Nat
    BY <1>1, ProgramAssumption, Zenon DEF Shapes
  <2> QED  BY ONLY <2>1 DEF PlaceShape
<1>3. EnvShape' /\ HeapShape' /\ RealInv'
  BY <1>1, Zenon DEF Shapes, EnvShape, HeapShape, RealInv, PtrVals, IntVals, envVars, heapVars
<1> QED  BY <1>2, <1>3 DEF Shapes

-----------------------------------------------------------------------------
(* The theorems about the maps, the verdict and the policies.              *)

\* The module starts with empty maps.
LEMMA InitTypeInv == Init => TypeInv
<1> SUFFICES ASSUME Init PROVE TypeInv
  BY Zenon
<1> USE DEF Init, AnalyzerInit, MachineInit
<1>1. EnvShape
  BY NoEntry, Zenon DEF EnvShape
<1>2. HeapShape /\ RealInv
  <2>1. /\ alloc_sizes = <<>> /\ object = <<>> /\ real = <<>>
        /\ freed_allocs = {} /\ dma_allocs_in_func = {} /\ iommu_mapped_in_func = {}
    BY Zenon
  <2> QED  BY ONLY <2>1 DEF HeapShape, RealInv
<1>3. PlaceShape
  <2>1. /\ program \in Programs
        /\ policy = [inline_asm |-> program.asm, dma |-> program.dma, has_irq_risk |-> program.irq]
        /\ dest = 1 /\ func = 1 /\ phase = "visit" /\ MaxDest \in Nat
    BY ProgramAssumption, Zenon
  <2> QED  BY ONLY <2>1 DEF PlaceShape
<1>4. IsVerdict(verdict) /\ GateInv(verdict)
  BY Zenon DEF NewVerdict, NewGate, IsVerdict, IsGate, GateInv
<1> QED  BY <1>1, <1>2, <1>3, <1>4 DEF TypeInv

\* Every step keeps TypeInv.
LEMMA NextTypeInv == TypeInv /\ [Next]_vars => TypeInv'
<1> SUFFICES ASSUME TypeInv, [Next]_vars PROVE TypeInv'
  OBVIOUS
<1>1. Shapes /\ HeapShape /\ PlaceShape /\ IsVerdict(verdict) /\ GateInv(verdict)
  BY DEF TypeInv, Shapes
<1>2. IsVerdict(verdict') /\ GateInv(verdict')
  BY <1>1, VerdictStep DEF Leads
<1>3. IsVerdict(verdict)' /\ GateInv(verdict)'
  BY <1>2
<1>4. Shapes'
  <2>1. CASE DoKmalloc \/ DoKcalloc \/ DoDmaAlloc
    BY <1>1, <2>1, KmallocAllocates, KcallocAllocates, DmaAllocates, AllocatesShapes
  <2>2. CASE DoAlloca \/ DoLoad \/ DoGep \/ DoCast \/ DoArith \/ DoOpaque
    BY <1>1, <2>2, OpaqueDefines, LoadDefines, GepDefines, CastDefines, ArithDefines, DefinesShapes
  <2>3. CASE DoKfree \/ DoMemset \/ DoMemcpy \/ DoDmaMap \/ DoIommuMap \/ DoInlineAsm
             \/ DoStore \/ DoInterrupt \/ DoEnd \/ Done \/ UNCHANGED vars
    BY <1>1, <2>3, CallsStay, StoreStays, RestStays, StaysShapes
  <2>4. CASE DoNextFunction
    BY <1>1, <2>4, NextFunctionShapes
  <2> QED  BY <2>1, <2>2, <2>3, <2>4 DEF Next
<1> QED  BY <1>3, <1>4 DEF TypeInv, Shapes

\* The maps of the analysis have their shapes, and every id in them is the id of an
\* allocation with a known size.
THEOREM TypeCorrect == Spec => []TypeOK
<1>1. TypeInv => TypeOK
  <2> SUFFICES ASSUME TypeInv PROVE TypeOK
    OBVIOUS
  <2>1. DOMAIN alloc_sizes = 1..Len(alloc_sizes) /\ DOMAIN real = 1..Len(real)
    BY DEF TypeInv, HeapShape
  <2> QED  BY <2>1 DEF TypeInv, EnvShape, HeapShape, IsVerdict, TypeOK, IntVals
<1> QED  BY <1>1, InitTypeInv, NextTypeInv, PTL DEF Spec

\* No step makes the verdict better.
THEOREM NeverImproves == Spec => VerdictNeverImproves
<1>1. TypeInv /\ [Next]_vars => [Badness(verdict'.result) >= Badness(verdict.result)]_vars
  BY VerdictStep DEF TypeInv, Leads
<1> QED  BY <1>1, InitTypeInv, NextTypeInv, PTL DEF Spec, VerdictNeverImproves

\* In require mode Z3 runs for approved conditions only.
THEOREM SolverApproved == Spec => []NoSolverWithoutApproval
<1>1. TypeInv => NoSolverWithoutApproval
  BY DEF TypeInv, GateInv, NoSolverWithoutApproval
<1> QED  BY <1>1, InitTypeInv, NextTypeInv, PTL DEF Spec

\* The phases follow one another, and only the loop visits instructions.
LEMMA PhaseStep ==
    ASSUME [Next]_vars
    PROVE  \/ phase = "visit" /\ phase' = "visit"
           \/ DoEnd
           \/ UNCHANGED vars
<1>1. Visit => phase = "visit" /\ phase' = "visit"
  BY DEF Visit
<1>2. CASE DoKmalloc \/ DoKcalloc \/ DoDmaAlloc \/ DoKfree \/ DoMemset \/ DoMemcpy
  <2>1. Visit
    BY <1>2, Zenon DEF DoKmalloc, Kmalloc, DoKcalloc, Kcalloc, DoDmaAlloc, DmaAllocCoherent,
       DoKfree, Kfree, DoMemset, Memset, DoMemcpy, Memcpy, VisitDef, VisitVoid
  <2> QED  BY <1>1, <2>1
<1>3. CASE DoDmaMap \/ DoIommuMap \/ DoInlineAsm \/ DoAlloca \/ DoStore \/ DoLoad
  <2>1. Visit
    BY <1>3, Zenon DEF DoDmaMap, DmaMapSingle, DoIommuMap, IommuMap, DoInlineAsm, InlineAsm,
       DoAlloca, Alloca, DoStore, Store, DoLoad, Load, VisitDef, VisitVoid
  <2> QED  BY <1>1, <2>1
<1>4. CASE DoGep \/ DoCast \/ DoArith \/ DoOpaque
  <2>1. Visit
    BY <1>4, Zenon DEF DoGep, GetElementPtr, DoCast, PtrToInt, IntToPtr, BitCast,
       DoArith, Add, Sub, Arith, DoOpaque, Opaque, VisitDef
  <2> QED  BY <1>1, <2>1
<1>5. CASE DoNextFunction \/ DoInterrupt
  BY <1>5, Zenon DEF DoNextFunction, NextFunction, DoInterrupt, analyzerVars, placeVars
<1> QED  BY <1>2, <1>3, <1>4, <1>5, Zenon DEF Next, Done

\* Once the gate's policy is enforced, a verdict that is not Fail has nothing blocked.
ClosedInv ==
    phase = "done" /\ verdict.gate.mode = "require" /\ verdict.result # "fail" =>
        verdict.gate.blocked = {}

\* In require mode a verdict other than Fail means that every condition was approved.
THEOREM FailsClosed == Spec => []RequireFailsClosed
<1>1. Init => ClosedInv
  BY Zenon DEF Init, AnalyzerInit, ClosedInv
<1>2. TypeInv /\ ClosedInv /\ [Next]_vars => ClosedInv'
  <2> SUFFICES ASSUME TypeInv, ClosedInv, [Next]_vars PROVE ClosedInv'
    BY Zenon
  <2>1. CASE phase' = "visit" \/ EndOfModule
    BY <2>1 DEF ClosedInv, EndOfModule
  <2>2. CASE EnforceHitl
    BY <2>2, Zenon DEF EnforceHitl, enforce_hitl_policy, TypeInv, IsVerdict, ClosedInv
  <2>3. CASE UNCHANGED vars
    BY <2>3, Zenon DEF vars, analyzerVars, placeVars, ClosedInv
  <2> QED  BY <2>1, <2>2, <2>3, PhaseStep DEF DoEnd
<1>3. TypeInv /\ ClosedInv => RequireFailsClosed
  BY DEF TypeInv, ClosedInv, GateInv, RequireFailsClosed
<1> QED  BY <1>1, <1>2, <1>3, InitTypeInv, NextTypeInv, PTL DEF Spec
=============================================================================
