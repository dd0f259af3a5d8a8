---------------------------- MODULE IrConstants ----------------------------
(***************************************************************************)
(* The constants of the IR reader (llvm-ir-patched/src/constant.rs):       *)
(* LLVM's constants, the crate's Constant, the conversion and get_type.    *)
(*                                                                         *)
(* The values of numbers are left out; what is kept is which constant a    *)
(* reference names, what it is made of, and its type.  ctx.constants, a    *)
(* memo of the conversion, is left out: the conversion of a constant does  *)
(* not change while a module is read.                                      *)
(***************************************************************************)
EXTENDS IrTypes

\* An LLVM constant: value kind, type, opcode of an expression, operands, the
\* global it is (0: none) and that global's value type.
LConst(vk, ty, opcode, ops, global, vty) ==
    [vk |-> vk, ty |-> ty, opcode |-> opcode, ops |-> ops, global |-> global, vty |-> vty]
LPlain(vk, ty, ops) == LConst(vk, ty, "", ops, 0, LVoid)
LExpr(opcode, ty, ops) == LConst("ConstantExpr", ty, opcode, ops, 0, LVoid)
LGlobal(g, ty, vty) == LConst("GlobalValue", ty, "", <<>>, g, vty)

\* A Constant: variant, the TypeRef it carries (void: none), operands, the global's
\* first-pass position, is_packed.  The Name of a GlobalReference is looked up in
\* names, the first pass's names of the globals.
Const(variant, ty, ops, name, packed) ==
    [variant |-> variant, ty |-> ty, ops |-> ops, name |-> name, packed |-> packed]

NoGlobal == [str |-> "", num |-> -1]

-----------------------------------------------------------------------------
(* from_llvm_ref.                                                          *)

\* Kinds that become a variant with just their type.
TypedKinds ==
    [ConstantInt |-> "Int", ConstantFP |-> "Float", ConstantPointerNull |-> "Null",
     ConstantAggregateZero |-> "AggregateZero", UndefValue |-> "Undef",
     PoisonValue |-> "Poison"]
UntypedKinds == [ConstantTokenNone |-> "TokenNone", BlockAddress |-> "BlockAddress"]

ConstBinops == {"Add", "Sub", "Mul", "Xor"}
ConstCasts == {"Trunc", "PtrToInt", "IntToPtr", "BitCast", "AddrSpaceCast"}
\* Mutant: an insertelement is expected to have two operands.
ConstArityShort ==
    [o \in ConstBinops |-> 2] @@ [o \in ConstCasts |-> 1]
    @@ [ExtractElement |-> 2, InsertElement |-> 2, GetElementPtr |-> 0]
\* The opcodes the conversion knows, and the operands it asserts they have (0: any).
ConstArity ==
    [o \in ConstBinops |-> 2] @@ [o \in ConstCasts |-> 1]
    @@ [ExtractElement |-> 2, InsertElement |-> 3, GetElementPtr |-> 0]

RECURSIVE ConstantFromLlvmRef(_, _, _)
RECURSIVE ConstantsFromLlvmRef(_, _, _)

ConstantsFromLlvmRef(b, names, cs) ==
    IF cs = <<>> THEN [b |-> b, cs |-> <<>>]
    ELSE LET r == ConstantFromLlvmRef(b, names, Head(cs))
             rest == ConstantsFromLlvmRef(r.b, names, Tail(cs))
         IN  [b |-> rest.b, cs |-> <<r.c>> \o rest.cs]

PanicConst(b) == [b |-> Panicked(b), c |-> Const("panic", void, <<>>, NoGlobal, FALSE)]
\* A constant that is just its type, r, or is made of the constants vs.
OfType(variant, r, name) == [b |-> r.b, c |-> Const(variant, r.ty, <<>>, name, FALSE)]
MadeOf(variant, ty, vs, packed) ==
    [b |-> vs.b, c |-> Const(variant, ty, vs.cs, NoGlobal, packed)]

\* A struct constant: the number of values is that of its type or, for a named
\* struct, of the definition.
StructAs(r, names, c) ==
    LET def == IF r.ty.kind = "NamedStructType" THEN r.b.defs[r.ty.n] ELSE r.ty
    IN  IF def = Opaque THEN PanicConst(r.b)
        ELSE MadeOf("Struct", void,
                    ConstantsFromLlvmRef(r.b, names, SubSeq(c.ops, 1, Len(def.of))), def.flag)
StructFromLlvmRef(b, names, c) == StructAs(TypeFromLlvmRef(b, c.ty), names, c)

\* Mutant: the element type of an array constant is the type of the array.
ArrayOwnType(r, names, c) ==
    MadeOf("Array", r.ty, ConstantsFromLlvmRef(r.b, names, SubSeq(c.ops, 1, r.ty.n)), FALSE)
\* ConstantArray and ConstantDataArray: num_elements of the type.
ArrayAs(r, names, c) ==
    MadeOf("Array", r.ty.of[1], ConstantsFromLlvmRef(r.b, names, SubSeq(c.ops, 1, r.ty.n)), FALSE)

\* ConstantVector goes by its operands, ConstantDataVector by its type.
VectorFromLlvmRef(b, names, c) ==
    LET r == IF c.vk = "ConstantDataVector" THEN TypeFromLlvmRef(b, c.ty).b ELSE b
    IN  MadeOf("Vector", void, ConstantsFromLlvmRef(r, names, c.ops), FALSE)

\* Constant expressions; a shufflevector is known and always panics.
ExprOf(c, vs) ==
    IF c.opcode \in ConstCasts
    THEN LET r == TypeFromLlvmRef(vs.b, c.ty)
         IN  MadeOf(c.opcode, r.ty, [vs EXCEPT !.b = r.b], FALSE)
    ELSE MadeOf(c.opcode, void, vs, FALSE)
ExprFromLlvmRef(b, names, c) ==
    IF \/ c.opcode \notin DOMAIN ConstArity
       \/ ConstArity[c.opcode] \notin {0, Len(c.ops)}
    THEN PanicConst(b)
    ELSE ExprOf(c, ConstantsFromLlvmRef(b, names, c.ops))

\* A global: its name in the first pass, and its value type.
GlobalFromLlvmRef(b, names, c) ==
    IF c.global \notin DOMAIN names THEN PanicConst(b)
    ELSE OfType("GlobalReference", TypeFromLlvmRef(b, c.vty), names[c.global])

ConstantFromLlvmRef(b, names, c) ==
    CASE c.vk \in DOMAIN TypedKinds ->
            OfType(TypedKinds[c.vk], TypeFromLlvmRef(b, c.ty), NoGlobal)
      [] c.vk \in DOMAIN UntypedKinds ->
            [b |-> b, c |-> Const(UntypedKinds[c.vk], void, <<>>, NoGlobal, FALSE)]
      [] c.vk = "ConstantStruct" -> StructFromLlvmRef(b, names, c)
      [] c.vk \in {"ConstantArray", "ConstantDataArray"} ->
            ArrayAs(TypeFromLlvmRef(b, c.ty), names, c)
      [] c.vk \in {"ConstantVector", "ConstantDataVector"} -> VectorFromLlvmRef(b, names, c)
      [] c.vk = "ConstantExpr" -> ExprFromLlvmRef(b, names, c)
      [] c.vk = "ConstantPtrAuth" ->
            MadeOf("PtrAuth", void, ConstantsFromLlvmRef(b, names, c.ops), FALSE)
      [] c.vk = "GlobalValue" -> GlobalFromLlvmRef(b, names, c)
      [] OTHER -> PanicConst(b)

-----------------------------------------------------------------------------
(* get_type.                                                               *)

RECURSIVE TypeOfConstant(_)
TypeOfConstant(c) ==
    CASE c.variant \in {"Int", "Float", "Null", "AggregateZero", "Undef", "Poison"} -> c.ty
      [] c.variant = "Struct" ->
            StructType([k \in DOMAIN c.ops |-> TypeOfConstant(c.ops[k])], c.packed)
      [] c.variant = "Array" -> ArrayType(c.ty, Len(c.ops))
      [] c.variant = "Vector" -> VectorType(TypeOfConstant(c.ops[1]), Len(c.ops), FALSE)
      [] c.variant = "BlockAddress" -> ScalarType("LabelType")
      [] c.variant \in {"GlobalReference", "GetElementPtr", "PtrAuth"} -> pointer
      [] c.variant = "TokenNone" -> ScalarType("TokenType")
      [] c.variant \in ConstBinops \cup {"InsertElement"} -> TypeOfConstant(c.ops[1])
      [] c.variant \in ConstCasts -> c.ty
      [] c.variant = "ExtractElement" ->
            LET v == TypeOfConstant(c.ops[1])
            IN  IF v.kind = "VectorType" THEN v.of[1] ELSE PanicType
      [] c.variant = "panic" -> PanicType

-----------------------------------------------------------------------------
(* What a Constant stands for.                                             *)

RECURSIVE ConstDenotes(_, _, _)
\* c is the reading of l: same variant, same operands in the same order, and, for
\* a global, the name that no other global has.
ConstDenotes(c, l, names) ==
    /\ CASE l.vk = "ConstantExpr" -> c.variant = l.opcode
         [] l.vk = "GlobalValue" ->
                /\ c.variant = "GlobalReference"
                /\ {g \in DOMAIN names : names[g] = c.name} = {l.global}
         [] OTHER -> c.variant \notin {"GlobalReference", "panic"}
    /\ Len(c.ops) = Len(l.ops)
    /\ \A k \in DOMAIN l.ops : ConstDenotes(c.ops[k], l.ops[k], names)

RECURSIVE SubConstants(_)
SubConstants(l) == {l} \cup UNION {SubConstants(l.ops[k]) : k \in DOMAIN l.ops}

\* Constants get_type mistypes: pointers outside address space 0 and getelementptrs
\* over vectors (typed as plain pointers), block addresses (typed as labels), and
\* constants of named structs (typed as literal structs).
Mistyped(l) ==
    \/ l.vk \in {"GlobalValue", "ConstantPtrAuth"} /\ l.ty # LPtr(0)
    \/ l.vk = "ConstantExpr" /\ l.opcode = "GetElementPtr" /\ l.ty # LPtr(0)
    \/ l.vk = "BlockAddress"
    \/ l.vk = "ConstantStruct" /\ l.ty.n # 0

\* Constants the conversion cannot read: it panics.
Unreadable(l) ==
    \/ l.vk = "ConstantExpr" /\ l.opcode = "ShuffleVector"
    \/ l.vk \notin DOMAIN TypedKinds \cup DOMAIN UntypedKinds \cup
                   {"ConstantStruct", "ConstantArray", "ConstantDataArray",
                    "ConstantVector", "ConstantDataVector", "ConstantExpr",
                    "ConstantPtrAuth", "GlobalValue"}
=============================================================================
