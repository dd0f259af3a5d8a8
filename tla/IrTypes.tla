------------------------------ MODULE IrTypes ------------------------------
(***************************************************************************)
(* TypesBuilder (llvm-ir-patched/src/types.rs), which turns LLVM's types   *)
(* into the crate's while a module is read.  A TypeRef compares by the     *)
(* structure it points to, so a cached type and a fresh one of the same    *)
(* structure cannot be told apart: of the builder's caches only those that *)
(* decide what is returned are state.                                      *)
(***************************************************************************)
EXTENDS IrTypeSyntax, TLC

CONSTANT Structs    \* LLVM's identified structs: <<[name, opaque, packed, of]>>
                    \* (name 0: it has none)

IsLVector(t) == t.kind \in {"Vector", "ScalableVector"}
\* LLVMIsOpaqueStruct, LLVMGetStructElementTypes, LLVMIsPackedStruct.
IsOpaque(t) == t.n # 0 /\ Structs[t.n].opaque
Elements(t) == IF t.n = 0 THEN t.of ELSE Structs[t.n].of
IsPacked(t) == IF t.n = 0 THEN t.flag ELSE Structs[t.n].packed
\* get_struct_name of a struct that is not literal.
StructName(t) == IF t.n = 0 THEN 0 ELSE Structs[t.n].name

-----------------------------------------------------------------------------
(* TypesBuilder.                                                           *)

Opaque == T("Opaque", 0, FALSE, <<>>)       \* NamedStructDef::Opaque

\* named: the keys of named_struct_types; defs: named_struct_defs (Defined(ty) is
\* ty); map: llvm_type_map; panicked: a call of the reader has panicked.
NewBuilder == [named |-> {}, defs |-> << >>, map |-> << >>, panicked |-> FALSE]

Panicked(b) == [b EXCEPT !.panicked = TRUE]
Named(b, name) == [b EXCEPT !.named = @ \cup {name}]

\* add_named_struct_def panics if the struct has a definition.
AddDef(b, name, def) ==
    IF name \in DOMAIN b.defs THEN Panicked(b)
    ELSE [b EXCEPT !.defs = (name :> def) @@ @]

\* The kinds without parts.
ScalarKinds ==
    [Void |-> "VoidType", Half |-> "Half", BFloat |-> "BFloat", Float |-> "Single",
     Double |-> "Double", FP128 |-> "FP128", X86_FP80 |-> "X86_FP80",
     PPC_FP128 |-> "PPC_FP128", X86_MMX |-> "X86_MMXType", X86_AMX |-> "X86_AMXType",
     Metadata |-> "MetadataType", Label |-> "LabelType", Token |-> "TokenType",
     TargetExt |-> "TargetExtType"]

\* What a read gives: the builder after it, and a type (or types, or a constant).
ReadAs(b, ty) == [b |-> b, ty |-> ty]

RECURSIVE TypeFromLlvmRef(_, _)
RECURSIVE TypesFromLlvmRef(_, _)

\* The types of a list, left to right.
TypesFromLlvmRef(b, ts) ==
    IF ts = <<>> THEN [b |-> b, tys |-> <<>>]
    ELSE LET r == TypeFromLlvmRef(b, Head(ts))
             rest == TypesFromLlvmRef(r.b, Tail(ts))
         IN  [b |-> rest.b, tys |-> <<r.ty>> \o rest.tys]

StructOf(r, packed) == ReadAs(r.b, StructType(r.tys, packed))
StructTypeFromLlvmRef(b, t) ==
    IF IsOpaque(t) THEN ReadAs(Panicked(b), PanicType)
    ELSE StructOf(TypesFromLlvmRef(b, Elements(t)), IsPacked(t))

DefineStruct(s, r) == ReadAs(AddDef(r.b, s, r.ty), NamedStructType(s))
\* Mutant: the definition of an opaque struct is not recorded.
NamedStructNoOpaque(b, t, s) ==
    CASE s \in b.named \/ IsOpaque(t) -> ReadAs(Named(b, s), NamedStructType(s))
      [] OTHER -> DefineStruct(s, StructTypeFromLlvmRef(Named(b, s), t))
\* A struct with name s: defined once, and by name before its elements are read.
NamedStructFromLlvmRef(b, t, s) ==
    CASE s \in b.named -> ReadAs(b, NamedStructType(s))
      [] s \notin b.named /\ IsOpaque(t) -> DefineStruct(s, ReadAs(Named(b, s), Opaque))
      [] OTHER -> DefineStruct(s, StructTypeFromLlvmRef(Named(b, s), t))

\* parse_type_from_llvm_ref.
ParseType(b, t) ==
    CASE t.kind \in DOMAIN ScalarKinds -> ReadAs(b, ScalarType(ScalarKinds[t.kind]))
      [] t.kind = "Integer" -> ReadAs(b, IntegerType(t.n))
      [] t.kind = "Pointer" -> ReadAs(b, PointerType(t.n))
      [] t.kind = "Array" ->
            LET r == TypeFromLlvmRef(b, t.of[1]) IN ReadAs(r.b, ArrayType(r.ty, t.n))
      [] IsLVector(t) ->
            LET r == TypeFromLlvmRef(b, t.of[1])
            IN  ReadAs(r.b, VectorType(r.ty, t.n, t.kind = "ScalableVector"))
      [] t.kind = "Struct" ->
            IF StructName(t) # 0 THEN NamedStructFromLlvmRef(b, t, StructName(t))
            ELSE StructTypeFromLlvmRef(b, t)
      [] t.kind = "Function" ->
            LET r == TypesFromLlvmRef(b, t.of)
            IN  ReadAs(r.b, FuncType(r.tys[1], Tail(r.tys), t.flag))

\* type_from_llvm_ref: the memo, then the parse.
Remember(t, r) == ReadAs([r.b EXCEPT !.map = (t :> r.ty) @@ @], r.ty)
TypeFromLlvmRef(b, t) ==
    IF t \in DOMAIN b.map THEN ReadAs(b, b.map[t]) ELSE Remember(t, ParseType(b, t))

-----------------------------------------------------------------------------
(* What a Type stands for, with the definitions of a builder.              *)

Meaning ==
    [VoidType |-> "Void", Half |-> "Half", BFloat |-> "BFloat", Single |-> "Float",
     Double |-> "Double", FP128 |-> "FP128", X86_FP80 |-> "X86_FP80",
     PPC_FP128 |-> "PPC_FP128", X86_MMXType |-> "X86_MMX", X86_AMXType |-> "X86_AMX",
     MetadataType |-> "Metadata", LabelType |-> "Label", TokenType |-> "Token",
     TargetExtType |-> "TargetExt", IntegerType |-> "Integer",
     PointerType |-> "Pointer", ArrayType |-> "Array", StructType |-> "Struct",
     FuncType |-> "Function", panic |-> "panic"]

RECURSIVE LlvmOf(_)
\* The LLVM type a Type denotes; a NamedStructType denotes the struct of its name.
LlvmOf(a) ==
    LET of == [k \in DOMAIN a.of |-> LlvmOf(a.of[k])]
    IN  CASE a.kind = "NamedStructType" ->
                LIdentified(CHOOSE id \in DOMAIN Structs : Structs[id].name = a.n)
          [] a.kind = "VectorType" ->
                T(IF a.flag THEN "ScalableVector" ELSE "Vector", a.n, FALSE, of)
          [] OTHER -> T(Meaning[a.kind], a.n, a.flag, of)

RECURSIVE Parts(_)
\* A type and every type it is made of, named structs unfolded.
Parts(t) ==
    LET of == IF t.kind = "Struct" THEN Elements(t) ELSE t.of
    IN  {t} \cup UNION {Parts(of[k]) : k \in DOMAIN of}

\* LLVM types the crate's Type cannot express: a target extension type keeps no
\* parameters, and an identified struct without a name is read as a literal one.
Expressible(t) ==
    \A p \in Parts(t) : /\ p.kind # "TargetExt"
                        /\ p.kind = "Struct" /\ p.n # 0 => StructName(p) # 0

\* Every type the reader has seen denotes the LLVM type it was read from, if the
\* crate's Type can express that at all (type_from_llvm_ref and its memo).
TypesFaithful(b) ==
    \A t \in DOMAIN b.map : Expressible(t) => LlvmOf(b.map[t]) = t

\* named_struct_def finds the definition of every named struct that a type of the
\* module mentions, and it is LLVM's: an opaque struct is opaque, any other has
\* LLVM's elements and packing.
StructsDefined(b) ==
    \A s \in b.named :
        /\ s \in DOMAIN b.defs
        /\ \A id \in DOMAIN Structs :
              Structs[id].name = s =>
                  LET t == LIdentified(id)
                  IN  IF IsOpaque(t) THEN b.defs[s] = Opaque
                      ELSE Expressible(t) =>
                               LlvmOf(b.defs[s]) = LStruct(Elements(t), IsPacked(t))
=============================================================================
