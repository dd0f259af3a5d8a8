------------------------------- MODULE LlvmIr -------------------------------
(***************************************************************************)
(* LLVM's side of the IR reader: the instructions a valid function may     *)
(* hold, how LLVM lays out their operands, and their types.  LLVM is a     *)
(* library; it is modelled from the C API calls of llvm-ir-patched/src.    *)
(*                                                                         *)
(* The rules of LLVM's verifier are kept where they are about types and    *)
(* about what an operand may be; the rules about dominance are not: the    *)
(* reader never looks at more than one instruction.                        *)
(***************************************************************************)
EXTENDS IrAttributes, IrConstants, IrOperands, FiniteSets
LOCAL INSTANCE SequencesExt

CONSTANTS
    ValueTypes,     \* bound: the types that are loaded, allocated, cast to
    FunctionTypes,  \* bound: the function types that are called
    CallAttrs       \* bound: the attribute lists of a call: [at, a]

-----------------------------------------------------------------------------
(* Values.                                                                 *)

\* v: what kind of value; i: the position of a local or a block in the function;
\* c: <<the constant>>; op: the opcode that defines a local.
LValue(v, i, c, ty, op) == [v |-> v, i |-> i, c |-> c, ty |-> ty, op |-> op]
LLocal(i, ty, op) == LValue("local", i, <<>>, ty, op)
LBlock(i) == LValue("block", i, <<>>, LScalar("Label"), "")
LConstant(c) == LValue("constant", 0, <<c>>, c.ty, "")
LAsm == LValue("asm", 0, <<>>, LPtr(0), "")
LMetadata == LValue("metadata", 0, <<>>, LScalar("Metadata"), "")

\* An instruction: args gives the values in each of its roles; sty is the type it
\* carries besides its own (allocated, source element, called function); idx are
\* the indices of an extractvalue or insertvalue and the mask of a shufflevector.
LInst(op, ty, args, sty, idx) ==
    [op |-> op, ty |-> ty, args |-> args, sty |-> sty, idx |-> idx,
     atomic |-> FALSE, attrs |-> <<>>]

-----------------------------------------------------------------------------
(* The instructions with a given opcode over the values vs and blocks bs.  *)

Scalar(t) == IF IsLVector(t) THEN t.of[1] ELSE t
Like(t, e) == IF IsLVector(t) THEN [t EXCEPT !.of = <<e>>] ELSE e
IsInt(t) == Scalar(t).kind = "Integer"
IsFloat(t) == Scalar(t).kind \in {"Float", "Double"}
IsPtr(t) == Scalar(t).kind = "Pointer"
IsFirstClass(t) == t.kind \notin {"Void", "Function", "Label", "Metadata", "Token"}

\* The type at the end of a path of indices, and the paths of a type.
RECURSIVE At(_, _)
At(t, path) == IF path = <<>> THEN t
               ELSE At(IF t.kind = "Array" THEN t.of[1] ELSE Elements(t)[path[1] + 1],
                       Tail(path))
Width(t) == CASE t.kind = "Array" -> t.n
              [] t.kind = "Struct" -> Len(Elements(t))
              [] OTHER -> 0
PathsOf(t) ==
    LET first == {<<k - 1>> : k \in 1 .. Width(t)}
    IN  first \cup UNION {{p \o <<k - 1>> : k \in 1 .. Width(At(t, p))} : p \in first}

\* What a cast may turn t into.
Casts(op, t, u) ==
    LET s == Scalar(t)
        w == Scalar(u)
    IN  /\ u = Like(t, w)
        /\ CASE op = "Trunc" -> IsInt(t) /\ IsInt(u) /\ w.n < s.n
             [] op \in {"ZExt", "SExt"} -> IsInt(t) /\ IsInt(u) /\ w.n > s.n
             [] op = "FPTrunc" -> s.kind = "Double" /\ w.kind = "Float"
             [] op = "FPExt" -> s.kind = "Float" /\ w.kind = "Double"
             [] op \in {"FPToUI", "FPToSI"} -> IsFloat(t) /\ IsInt(u)
             [] op \in {"UIToFP", "SIToFP"} -> IsInt(t) /\ IsFloat(u)
             [] op = "PtrToInt" -> IsPtr(t) /\ IsInt(u)
             [] op = "IntToPtr" -> IsInt(t) /\ IsPtr(u)
             [] op = "BitCast" -> {s, w} = {LInt(32), LScalar("Float")}
             [] op = "AddrSpaceCast" -> IsPtr(t) /\ IsPtr(u) /\ s # w

ArithmeticInsts(op, vs) ==
    CASE op \in BinaryOps ->
            {LInst(op, p[1].ty, [operand0 |-> <<p[1]>>, operand1 |-> <<p[2]>>], LVoid, <<>>) :
                p \in {q \in vs \X vs :
                         /\ q[1].ty = q[2].ty
                         /\ IF op \in {"FAdd", "FSub", "FMul", "FDiv", "FRem"}
                            THEN IsFloat(q[1].ty) ELSE IsInt(q[1].ty)}}
      [] op \in {"ICmp", "FCmp"} ->
            {LInst(op, Like(p[1].ty, LInt(1)), [operand0 |-> <<p[1]>>, operand1 |-> <<p[2]>>],
                   LVoid, <<>>) :
                p \in {q \in vs \X vs :
                         /\ q[1].ty = q[2].ty
                         /\ IF op = "FCmp" THEN IsFloat(q[1].ty)
                            ELSE IsInt(q[1].ty) \/ IsPtr(q[1].ty)}}
      [] op \in {"FNeg", "Freeze"} ->
            {LInst(op, v.ty, [operand |-> <<v>>], LVoid, <<>>) :
                v \in {w \in vs : IF op = "FNeg" THEN IsFloat(w.ty) ELSE IsFirstClass(w.ty)}}
      [] op \in CastOps ->
            {LInst(op, p[2], [operand |-> <<p[1]>>], LVoid, <<>>) :
                p \in {q \in vs \X ValueTypes : Casts(op, q[1].ty, q[2])}}
      [] op = "Select" ->
            {LInst(op, p[2].ty, [condition |-> <<p[1]>>, true_value |-> <<p[2]>>,
                                 false_value |-> <<p[3]>>], LVoid, <<>>) :
                p \in {q \in vs \X vs \X vs :
                         /\ q[2].ty = q[3].ty /\ IsFirstClass(q[2].ty)
                         /\ q[1].ty \in {LInt(1), Like(q[2].ty, LInt(1))}}}

AggregateInsts(op, vs) ==
    LET vectors == {v \in vs : IsLVector(v.ty)}
        indices == {v \in vs : v.ty = LInt(32)}
        aggregates == {v \in vs : Width(v.ty) > 0}
        masks(v) == IF v.ty.kind = "Vector" THEN {<<0>>, <<-1, 1, 0>>} ELSE {<<0, -1>>}
    IN  CASE op = "ExtractElement" ->
                {LInst(op, p[1].ty.of[1], [vector |-> <<p[1]>>, index |-> <<p[2]>>], LVoid, <<>>) :
                    p \in vectors \X indices}
          [] op = "InsertElement" ->
                {LInst(op, p[1].ty, [vector |-> <<p[1]>>, element |-> <<p[2]>>,
                                     index |-> <<p[3]>>], LVoid, <<>>) :
                    p \in {q \in vectors \X vs \X indices : q[2].ty = q[1].ty.of[1]}}
          [] op = "ShuffleVector" ->
                UNION {{LInst(op, [p[1].ty EXCEPT !.n = Len(m)],
                              [operand0 |-> <<p[1]>>, operand1 |-> <<p[2]>>], LVoid, m) :
                          m \in masks(p[1])} :
                       p \in {q \in vectors \X vectors : q[1].ty = q[2].ty}}
          [] op = "ExtractValue" ->
                UNION {{LInst(op, At(v.ty, p), [aggregate |-> <<v>>], LVoid, p) :
                          p \in PathsOf(v.ty)} : v \in aggregates}
          [] op = "InsertValue" ->
                UNION {{LInst(op, v.ty, [aggregate |-> <<v>>, element |-> <<e>>], LVoid, p) :
                          p \in {q \in PathsOf(v.ty) : At(v.ty, q) = e.ty}} :
                       v \in aggregates, e \in vs}

MemoryInsts(op, vs) ==
    LET ptrs == {v \in vs : v.ty.kind = "Pointer"}
        firsts == {v \in vs : IsFirstClass(v.ty)}
        ints == {v \in vs : v.ty.kind = "Integer"}
        atomics == {v \in vs : v.ty.kind \in {"Integer", "Pointer"}}
        Atomic(insts) == insts \cup {[i EXCEPT !.atomic = TRUE] : i \in insts}
    IN  CASE op = "Alloca" ->
                {LInst(op, LPtr(s), [num_elements |-> <<v>>], t, <<>>) :
                    s \in {0, 5}, v \in ints, t \in ValueTypes}
          [] op = "Load" ->
                Atomic({LInst(op, t, [address |-> <<v>>], LVoid, <<>>) :
                           v \in ptrs, t \in ValueTypes})
          [] op = "Store" ->
                Atomic({LInst(op, LVoid, [value |-> <<v>>, address |-> <<p>>], LVoid, <<>>) :
                           v \in firsts, p \in ptrs})
          [] op = "Fence" -> {LInst(op, LVoid, << >>, LVoid, <<>>)}
          [] op = "CmpXchg" ->
                {LInst(op, LStruct(<<p[2].ty, LInt(1)>>, FALSE),
                       [address |-> <<p[1]>>, expected |-> <<p[2]>>, replacement |-> <<p[3]>>],
                       LVoid, <<>>) :
                    p \in {q \in ptrs \X atomics \X atomics : q[2].ty = q[3].ty}}
          [] op = "AtomicRMW" ->
                {LInst(op, v.ty, [address |-> <<p>>, value |-> <<v>>], LVoid, <<>>) :
                    p \in ptrs, v \in atomics}
          [] op = "GetElementPtr" ->
                {LInst(op, IF IsLVector(p[1].ty) THEN p[1].ty ELSE Like(p[2].ty, p[1].ty),
                       [address |-> <<p[1]>>, indices |-> <<p[2]>> \o p[4]], p[3], <<>>) :
                    p \in {q \in vs \X vs \X ValueTypes \X ({<<>>} \cup {<<v>> : v \in ints}) :
                             /\ IsPtr(q[1].ty) /\ IsInt(q[2].ty)
                             /\ IsLVector(q[1].ty) /\ IsLVector(q[2].ty)
                                    => Like(q[1].ty, LVoid) = Like(q[2].ty, LVoid)}}
          [] op = "VAArg" ->
                {LInst(op, t, [arg_list |-> <<v>>], LVoid, <<>>) : v \in ptrs, t \in ValueTypes}

\* Calls: the arguments fit the function type; what is called is a pointer or inline
\* assembly.
CallInsts(op, vs) ==
    LET fits(ft) == {a \in [1 .. Len(ft.of) - 1 -> vs] :
                        \A k \in DOMAIN a : a[k].ty = ft.of[k + 1]}
        callees == {v \in vs : v.ty = LPtr(0)} \cup {LAsm}
    IN  UNION {UNION {{[LInst(op, ft.of[1], [function |-> <<f>>, arguments |-> a \o extra],
                              ft, <<>>) EXCEPT !.attrs = attrs] :
                          f \in callees, a \in fits(ft), attrs \in CallAttrs} :
                      extra \in {<<>>} \cup (IF ft.flag THEN {<<v>> : v \in callees \ {LAsm}}
                                            ELSE {})} :
               ft \in FunctionTypes}

With(i, args) == [i EXCEPT !.args = @ @@ args]

PadInsts(op, vs, bs) ==
    LET none == LConstant(LPlain("ConstantTokenNone", LScalar("Token"), <<>>))
        defined(o) == {v \in vs : v.op = o}
        parents == {none} \cup defined("CatchPad") \cup defined("CleanupPad")
        argss == {<<>>} \cup {<<v>> : v \in {w \in vs : IsFirstClass(w.ty)}}
        clauses == {v \in vs : v.v = "constant" /\ v.ty.kind \in {"Pointer", "Array"}}
    IN  CASE op = "LandingPad" ->
                {LInst(op, LStruct(<<LPtr(0), LInt(32)>>, FALSE), [clauses |-> c], LVoid, <<>>) :
                    c \in {<<>>} \cup {<<a>> : a \in clauses} \cup (clauses \X clauses)}
          [] op = "CatchPad" ->
                {LInst(op, LScalar("Token"), [args |-> a, catch_switch |-> <<s>>], LVoid, <<>>) :
                    a \in argss, s \in defined("CatchSwitch")}
          [] op = "CleanupPad" ->
                {LInst(op, LScalar("Token"), [args |-> a, parent_pad |-> <<p>>], LVoid, <<>>) :
                    a \in argss, p \in parents}
          [] op = "CleanupRet" ->
                {LInst(op, LVoid, [cleanup_pad |-> <<p>>, unwind_dest |-> d], LVoid, <<>>) :
                    p \in defined("CleanupPad"), d \in {<<>>} \cup {<<b>> : b \in bs}}
          [] op = "CatchRet" ->
                {LInst(op, LVoid, [catch_pad |-> <<p>>, successor |-> <<b>>], LVoid, <<>>) :
                    p \in defined("CatchPad"), b \in bs}
          [] op = "CatchSwitch" ->
                {LInst(op, LScalar("Token"), [parent_pad |-> <<p>>, default_unwind_dest |-> d,
                                              catch_handlers |-> h], LVoid, <<>>) :
                    p \in parents, d \in {<<>>} \cup {<<b>> : b \in bs},
                    h \in {<<b>> : b \in bs} \cup (bs \X bs)}

BranchInsts(op, vs, bs, ret) ==
    CASE op = "Ret" ->
            IF ret = LVoid THEN {LInst(op, LVoid, [return_operand |-> <<>>], LVoid, <<>>)}
            ELSE {LInst(op, LVoid, [return_operand |-> <<v>>], LVoid, <<>>) :
                     v \in {w \in vs : w.ty = ret}}
      [] op = "Br" ->
            {LInst(op, LVoid, [dest |-> <<b>>], LVoid, <<>>) : b \in bs}
            \cup {LInst(op, LVoid, [condition |-> <<v>>, true_dest |-> <<b>>,
                                    false_dest |-> <<c>>], LVoid, <<>>) :
                     v \in {w \in vs : w.ty = LInt(1)}, b \in bs, c \in bs}
      [] op = "Switch" ->
            UNION {{LInst(op, LVoid, [operand |-> <<v>>, default_dest |-> <<b>>,
                                      values |-> cs, dests |-> ds], LVoid, <<>>) :
                       b \in bs, ds \in [DOMAIN cs -> bs]} :
                   v \in {w \in vs : w.ty = LInt(32)},
                   cs \in {s \in {<<>>} \cup {<<x>> : x \in vs} \cup (vs \X vs) :
                             \A k \in DOMAIN s : s[k].v = "constant" /\ s[k].ty = LInt(32)}}
      [] op = "IndirectBr" ->
            {LInst(op, LVoid, [operand |-> <<v>>, possible_dests |-> ds], LVoid, <<>>) :
                v \in {w \in vs : w.ty = LPtr(0)}, ds \in {<<>>} \cup (bs \X bs)}
      [] op = "Resume" ->
            {LInst(op, LVoid, [operand |-> <<v>>], LVoid, <<>>) :
                v \in {w \in vs : IsFirstClass(w.ty)}}
      [] op = "Unreachable" -> {LInst(op, LVoid, << >>, LVoid, <<>>)}
      [] op = "Invoke" ->
            {With(i, [return_label |-> <<b>>, exception_label |-> <<c>>]) :
                i \in CallInsts(op, vs), b \in bs, c \in bs}
      [] op = "CallBr" ->
            {With(i, [return_label |-> <<b>>, other_labels |-> o]) :
                i \in {j \in CallInsts(op, vs) : j.args["function"] = <<LAsm>>},
                b \in bs, o \in {<<>>} \cup {<<c>> : c \in bs}}

\* A phi has one value per incoming block; blocks go with the values by accessor.
PhiInsts(vs, bs) ==
    {LInst("Phi", p[1].ty, [incoming_values |-> <<p[1], p[2]>>,
                            incoming_blocks |-> <<p[3], p[4]>>], LVoid, <<>>) :
        p \in {q \in vs \X vs \X bs \X bs : q[1].ty = q[2].ty /\ IsFirstClass(q[1].ty)}}

Insts(op, vs, bs, ret) ==
    CASE op = "Phi" -> PhiInsts(vs, bs)
      [] op = "Call" -> CallInsts(op, vs)
      [] op \in {"LandingPad", "CatchPad", "CleanupPad", "CleanupRet", "CatchRet",
                 "CatchSwitch"} -> PadInsts(op, vs, bs)
      [] op \in {"ExtractElement", "InsertElement", "ShuffleVector", "ExtractValue",
                 "InsertValue"} -> AggregateInsts(op, vs)
      [] op \in {"Alloca", "Load", "Store", "Fence", "CmpXchg", "AtomicRMW",
                 "GetElementPtr", "VAArg"} -> MemoryInsts(op, vs)
      [] op \in TermOps -> BranchInsts(op, vs, bs, ret)
      [] OTHER -> ArithmeticInsts(op, vs)
=============================================================================
