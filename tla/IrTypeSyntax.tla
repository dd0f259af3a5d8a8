---------------------------- MODULE IrTypeSyntax ----------------------------
(***************************************************************************)
(* The types of LLVM and of the IR reader (llvm-ir-patched/src/types.rs).  *)
(* Both kinds of type are records of one shape.                            *)
(***************************************************************************)
EXTENDS Integers, Sequences

\* A type: its variant, a number (bits, address space, count, identity), a flag
\* (variadic, packed, scalable) and the types it is made of.
T(kind, n, flag, of) == [kind |-> kind, n |-> n, flag |-> flag, of |-> of]

-----------------------------------------------------------------------------
(* LLVM's types (LLVMTypeKind); pointers are opaque.                       *)

LVoid == T("Void", 0, FALSE, <<>>)
LInt(bits) == T("Integer", bits, FALSE, <<>>)
LPtr(space) == T("Pointer", space, FALSE, <<>>)
LScalar(kind) == T(kind, 0, FALSE, <<>>)
LArray(t, n) == T("Array", n, FALSE, <<t>>)
LVector(t, n) == T("Vector", n, FALSE, <<t>>)
LScalable(t, n) == T("ScalableVector", n, FALSE, <<t>>)
LStruct(ts, packed) == T("Struct", 0, packed, ts)           \* a literal struct
LIdentified(id) == T("Struct", id, FALSE, <<>>)             \* Structs[id]
LFunction(ret, params, variadic) == T("Function", 0, variadic, <<ret>> \o params)
LTargetExt(id) == T("TargetExt", id, FALSE, <<>>)

-----------------------------------------------------------------------------
(* Type and the getters of Types.                                          *)

PanicType == T("panic", 0, FALSE, <<>>)     \* no type: the code panicked

ScalarType(variant) == T(variant, 0, FALSE, <<>>)
IntegerType(bits) == T("IntegerType", bits, FALSE, <<>>)
PointerType(space) == T("PointerType", space, FALSE, <<>>)
FuncType(ret, params, is_var_arg) == T("FuncType", 0, is_var_arg, <<ret>> \o params)
VectorType(t, n, scalable) == T("VectorType", n, scalable, <<t>>)
ArrayType(t, n) == T("ArrayType", n, FALSE, <<t>>)
StructType(ts, is_packed) == T("StructType", 0, is_packed, ts)
NamedStructType(name) == T("NamedStructType", name, FALSE, <<>>)

void == ScalarType("VoidType")
bool == IntegerType(1)
pointer == PointerType(0)       \* Types::pointer: always address space 0
=============================================================================
