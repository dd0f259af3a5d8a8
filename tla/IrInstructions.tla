--------------------------- MODULE IrInstructions ---------------------------
(***************************************************************************)
(* Instructions and terminators of the IR reader                           *)
(* (llvm-ir-patched/src/instruction.rs, terminator.rs, operand.rs,         *)
(* instruction/groups.rs): from_llvm_ref, get_type, and the views.         *)
(*                                                                         *)
(* A node of the AST keeps its operands by field, the type it carries, its *)
(* literal indices and its attributes.  Its dest or result is IrNames'     *)
(* business; flags, orderings, predicates, alignments and debug locations  *)
(* are copied by the reader and left out.                                  *)
(***************************************************************************)
EXTENDS LlvmIr
LOCAL INSTANCE SequencesExt

\* An Operand, the name of a block, or the Left of a callee.
AstOperand(o, name, c, ty) == [o |-> o, name |-> name, c |-> c, ty |-> ty]
PanicOperand == AstOperand("panic", NoGlobal, <<>>, void)

Node(op, fields, ty, idx, atomic, attrs) ==
    [op |-> op, fields |-> fields, ty |-> ty, idx |-> idx, atomic |-> atomic, attrs |-> attrs]

-----------------------------------------------------------------------------
(* Operand::from_llvm_ref, InlineAssembly::from_llvm_ref, and the look-up  *)
(* of a block in bb_names.  cx holds the names of the first passes.        *)

ConstantOperand(r) ==
    [b |-> r.b, x |-> AstOperand("ConstantOperand", NoGlobal, <<r.c>>, void)]
TypedOperand(o, name, r) == [b |-> r.b, x |-> AstOperand(o, name, <<>>, r.ty)]

OperandFromLlvmRef(b, cx, v) ==
    CASE v.v \in {"local", "block"} /\ cx.locals[v.i] = NoGlobal ->
            [b |-> Panicked(b), x |-> PanicOperand]
      [] v.v = "constant" -> ConstantOperand(ConstantFromLlvmRef(b, cx.globals, v.c[1]))
      [] v.v = "metadata" -> TypedOperand("MetadataOperand", NoGlobal, ReadAs(b, void))
      [] v.v = "local" /\ cx.locals[v.i] # NoGlobal ->
            TypedOperand("LocalOperand", cx.locals[v.i], TypeFromLlvmRef(b, v.ty))
      [] v.v = "asm" -> TypedOperand("InlineAssembly", NoGlobal, TypeFromLlvmRef(b, v.ty))
      [] v.v = "block" /\ cx.locals[v.i] # NoGlobal ->
            TypedOperand("Name", cx.locals[v.i], ReadAs(b, void))

TypeOfOperand(x) ==
    CASE x.o \in {"LocalOperand", "InlineAssembly"} -> x.ty
      [] x.o = "ConstantOperand" -> TypeOfConstant(x.c[1])
      [] x.o = "MetadataOperand" -> ScalarType("MetadataType")

-----------------------------------------------------------------------------
(* from_llvm_ref.                                                          *)

\* The assertions of the conversions.
AssertsFail(inst, normal_dest) ==
    \/ CountFails(inst)
    \/ /\ inst.op = "ShuffleVector"
       /\ \/ ~IsLVector(inst.ty) \/ inst.ty.n # Len(inst.idx)
          \/ \E k \in DOMAIN inst.idx :
                IF inst.ty.kind = "ScalableVector" THEN inst.idx[k] \notin {0, -1}
                                                   ELSE inst.idx[k] < -1
    \/ inst.op = "CallBr" /\ normal_dest = <<>>

\* The LLVM type a node carries (LVoid: none): its own for to_type, loaded_ty,
\* cur_type and result_type, else allocated_type, source_element_type, function_ty.
CarriedType(inst) ==
    CASE inst.op \in CastOps \cup {"Phi", "Load", "VAArg", "LandingPad"} -> inst.ty
      [] inst.op \in {"Alloca", "GetElementPtr", "Call", "Invoke"} -> inst.sty
      [] OTHER -> LVoid

\* The attributes of a list, in order: [at, a] with at "function", "return" or
\* "argument".
AttributesFromLlvmRef(b, attrs) ==
    FoldLeft(LAMBDA acc, x :
                LET r == IF x.at = "function"
                         THEN [b |-> acc.b, a |-> FunctionAttributeFromLlvmRef(x.a)]
                         ELSE ParameterAttributeFromLlvmRef(acc.b, x.a)
                IN  [b |-> r.b, as |-> Append(acc.as, [at |-> x.at, a |-> r.a])],
             [b |-> b, as |-> <<>>], attrs)

\* Fields of LLVM values to fields of operands.  The order in which the operands of
\* one node are read decides nothing: a type reads the same before and after others.
ReadFields(b, cx, fields) ==
    LET read(x, v) == OperandFromLlvmRef(x, cx, v)
        all == FlattenSeq(SetToSeq({fields[r] : r \in DOMAIN fields}))
    IN  [b |-> FoldLeft(LAMBDA x, v : read(x, v).b, b, all),
         fields |-> [r \in DOMAIN fields |->
                        [k \in DOMAIN fields[r] |-> read(b, fields[r][k]).x]]]

\* Instruction::from_llvm_ref and Terminator::from_llvm_ref.
NodeWith(inst, f) ==
    LET t == TypeFromLlvmRef(f.b, CarriedType(inst))
        as == AttributesFromLlvmRef(t.b, inst.attrs)
    IN  [b |-> as.b,
         node |-> Node(inst.op, f.fields, t.ty, inst.idx, inst.atomic, as.as)]
NodeFromLlvmRef(b, cx, inst, normal_dest) ==
    IF AssertsFail(inst, normal_dest)
    THEN [b |-> Panicked(b), node |-> Node("panic", << >>, void, <<>>, FALSE, <<>>)]
    ELSE NodeWith(inst, ReadFields(b, cx, LlvmFields(inst, normal_dest)))

-----------------------------------------------------------------------------
(* get_type.                                                               *)

RECURSIVE EvType(_, _)
EvType(cur_type, indices) ==
    CASE indices = <<>> -> cur_type
      [] indices # <<>> /\ cur_type.kind = "ArrayType" -> EvType(cur_type.of[1], Tail(indices))
      [] indices # <<>> /\ cur_type.kind = "StructType" ->
            EvType(cur_type.of[indices[1] + 1], Tail(indices))
      [] OTHER -> PanicType

\* Mutant: a comparison is a bool, also of vectors.
CmpTypeScalar(ty) == bool
CmpType(ty) == IF ty.kind = "VectorType" THEN VectorType(bool, ty.n, ty.flag) ELSE bool

ExtractElementType(ty) == IF ty.kind = "VectorType" THEN ty.of[1] ELSE PanicType
ShuffleVectorType(ty, mask) ==
    IF ty.kind = "VectorType" THEN VectorType(ty.of[1], Len(mask), FALSE) ELSE PanicType
CmpXchgType(expected) == StructType(<<expected, bool>>, FALSE)
CallType(n) == n.ty.of[1]

\* binop_same_type, binop_left_type and their like: the type is that of one field.
TypedByField ==
    [o \in BinaryOps |-> "operand0"] @@ [o \in {"FNeg", "Freeze"} |-> "operand"]
    @@ [InsertElement |-> "vector", InsertValue |-> "aggregate", AtomicRMW |-> "value",
        Select |-> "true_value"]

TypeOfNode(n) ==
    LET ty(r) == TypeOfOperand(n.fields[r][1])
    IN  CASE n.op \in DOMAIN TypedByField -> ty(TypedByField[n.op])
          [] n.op \in CastOps \cup {"Phi", "Load", "VAArg", "LandingPad"} -> n.ty
          [] n.op = "ExtractElement" -> ExtractElementType(ty("vector"))
          [] n.op = "ShuffleVector" -> ShuffleVectorType(ty("operand0"), n.idx)
          [] n.op = "ExtractValue" -> EvType(ty("aggregate"), n.idx)
          [] n.op \in {"Alloca", "GetElementPtr"} -> pointer
          [] n.op = "CmpXchg" -> CmpXchgType(ty("expected"))
          [] n.op \in {"ICmp", "FCmp"} -> CmpType(ty("operand0"))
          [] n.op \in {"Call", "Invoke"} -> CallType(n)
          [] n.op \in {"CatchPad", "CleanupPad"} -> ScalarType("TokenType")
          [] n.op \in {"CatchSwitch", "CallBr"} -> PanicType
          [] OTHER -> void

\* Fields whose types get_type compares with debug_assert_eq.
ComparedFields ==
    [o \in (BinaryOps \ ShiftOps) \cup {"ICmp", "FCmp", "ShuffleVector"} |->
        <<"operand0", "operand1">>]
    @@ [CmpXchg |-> <<"expected", "replacement">>, Select |-> <<"true_value", "false_value">>]
DebugAssertsHold(n) ==
    n.op \in DOMAIN ComparedFields =>
        LET ty(k) == TypeOfOperand(n.fields[ComparedFields[n.op][k]][1]) IN ty(1) = ty(2)

-----------------------------------------------------------------------------
(* Views: is_binary_op and BinaryOp, is_unary_op and UnaryOp, is_atomic.   *)

\* The operands a view gives, in its order; <<>> for a node that has no such view.
BinaryView(n) ==
    IF n.op \in BinaryOps THEN n.fields["operand0"] \o n.fields["operand1"] ELSE <<>>
UnaryView(n) == IF n.op \in CastOps \cup {"FNeg", "Freeze"} THEN n.fields["operand"] ELSE <<>>
IsAtomic(n) ==
    \/ n.op \in {"Load", "Store"} /\ n.atomic
    \/ n.op \in {"Fence", "CmpXchg", "AtomicRMW"}
=============================================================================
