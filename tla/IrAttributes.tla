---------------------------- MODULE IrAttributes ----------------------------
(***************************************************************************)
(* Function and parameter attributes of the IR reader                      *)
(* (llvm-ir-patched/src/function.rs).                                      *)
(*                                                                         *)
(* LLVM packs the two numbers of an allocsize into the halves of one       *)
(* integer: HalfBits stands for their 32 bits.                             *)
(***************************************************************************)
EXTENDS IrTypes

CONSTANT HalfBits
ASSUME HalfBitsAssumption == HalfBits \in Nat \ {0}

\* An LLVM attribute: "enum" (with or without a value), "string", "type", or
\* "range", which is none of these.
LAttr(form, name, value, ty) == [form |-> form, name |-> name, value |-> value, ty |-> ty]

\* A FunctionAttribute or ParameterAttribute: variant, numbers, type.
Attribute(variant, nums, ty) == [variant |-> variant, nums |-> nums, ty |-> ty]
NoneCount == -1     \* AllocSize's num_elts: None

\* AttributesData: the names looked up, and what the plain ones become.
FunctionAttributes ==
    [alwaysinline |-> "AlwaysInline", builtin |-> "Builtin", cold |-> "Cold",
     convergent |-> "Convergent", inlinehint |-> "InlineHint",
     jumptable |-> "JumpTable", minsize |-> "MinimizeSize", naked |-> "Naked",
     nobuiltin |-> "NoBuiltin", nocf_check |-> "NoCFCheck",
     noduplicate |-> "NoDuplicate", nofree |-> "NoFree",
     noimplicitfloat |-> "NoImplicitFloat", noinline |-> "NoInline",
     nomerge |-> "NoMerge", nonlazybind |-> "NonLazyBind",
     noredzone |-> "NoRedZone", noreturn |-> "NoReturn",
     norecurse |-> "NoRecurse", willreturn |-> "WillReturn",
     returns_twice |-> "ReturnsTwice", nosync |-> "NoSync",
     nounwind |-> "NoUnwind", null_pointer_is_valid |-> "NullPointerIsValid",
     optforfuzzing |-> "OptForFuzzing", optnone |-> "OptNone",
     optsize |-> "OptSize", readnone |-> "ReadNone", readonly |-> "ReadOnly",
     writeonly |-> "WriteOnly", safestack |-> "SafeStack",
     sanitize_address |-> "SanitizeAddress",
     sanitize_memory |-> "SanitizeMemory", sanitize_thread |-> "SanitizeThread",
     sanitize_hwaddress |-> "SanitizeHWAddress",
     sanitize_memtag |-> "SanitizeMemTag", shadowcallstack |-> "ShadowCallStack",
     speculative_load_hardening |-> "SpeculativeLoadHardening",
     speculatable |-> "Speculatable", ssp |-> "StackProtect",
     sspreq |-> "StackProtectReq", sspstrong |-> "StackProtectStrong",
     strictfp |-> "StrictFP", uwtable |-> "UWTable"]
ParameterAttributes ==
    [zeroext |-> "ZeroExt", signext |-> "SignExt", inreg |-> "InReg",
     noalias |-> "NoAlias", nocapture |-> "NoCapture", nofree |-> "NoFree",
     nest |-> "Nest", returned |-> "Returned", nonnull |-> "NonNull",
     swiftself |-> "SwiftSelf", swifterror |-> "SwiftError", immarg |-> "ImmArg",
     noundef |-> "NoUndef"]
ParameterNumbers ==
    [align |-> "Alignment", dereferenceable |-> "Dereferenceable",
     dereferenceable_or_null |-> "DereferenceableOrNull"]
ParameterTypes ==
    [byval |-> "ByVal", preallocated |-> "Preallocated", inalloca |-> "InAlloca",
     sret |-> "SRet"]

\* The upper half is elt_size; the lower half is num_elts, all ones for none.
AllocSize(value) ==
    LET num_elts == value % 2^HalfBits
    IN  <<value \div 2^HalfBits, IF num_elts = 2^HalfBits - 1 THEN NoneCount ELSE num_elts>>

\* Mutant: argmem and inaccessible_mem are taken from each other's bits.
MemorySwapped(value) == <<(value \div 16) % 4, (value \div 4) % 4, value % 4>>
\* <<default, argmem, inaccessible_mem>>: two bits each (MemoryEffect), argmem lowest.
Memory(value) == <<(value \div 16) % 4, value % 4, (value \div 4) % 4>>

FunctionAttributeFromLlvmRef(a) ==
    CASE a.form = "enum" /\ a.name = "alignstack" -> Attribute("AlignStack", <<a.value>>, void)
      [] a.form = "enum" /\ a.name = "allocsize" ->
            Attribute("AllocSize", AllocSize(a.value), void)
      [] a.form = "enum" /\ a.name = "memory" -> Attribute("Memory", Memory(a.value), void)
      [] a.form = "enum" /\ a.name \in DOMAIN FunctionAttributes ->
            Attribute(FunctionAttributes[a.name], <<>>, void)
      [] a.form = "string" -> Attribute("StringAttribute", <<a.value>>, void)
      [] OTHER -> Attribute("UnknownAttribute", <<>>, void)

\* A type attribute's type is read whether or not the attribute is known.  A known
\* name in the wrong form panics.
ParameterAttributeFromLlvmRef(b, a) ==
    LET known == DOMAIN ParameterAttributes \cup DOMAIN ParameterNumbers
                 \cup DOMAIN ParameterTypes
        r == TypeFromLlvmRef(b, a.ty)
        is(attr) == [b |-> b, a |-> attr]
    IN  CASE a.form = "enum" /\ a.name \in DOMAIN ParameterAttributes ->
                is(Attribute(ParameterAttributes[a.name], <<>>, void))
          [] a.form = "enum" /\ a.name \in DOMAIN ParameterNumbers ->
                is(Attribute(ParameterNumbers[a.name], <<a.value>>, void))
          [] a.form = "string" -> is(Attribute("StringAttribute", <<a.value>>, void))
          [] a.form = "type" /\ a.name \in DOMAIN ParameterTypes ->
                [b |-> r.b, a |-> Attribute(ParameterTypes[a.name], <<>>, r.ty)]
          [] a.form = "type" /\ a.name \notin known ->
                [b |-> r.b, a |-> Attribute("UnknownTypeAttribute", <<>>, r.ty)]
          [] a.form \in {"enum", "type"} /\ a.name \in known ->
                [b |-> Panicked(b), a |-> Attribute("panic", <<>>, void)]
          [] OTHER -> is(Attribute("UnknownAttribute", <<>>, void))

-----------------------------------------------------------------------------
(* What LLVM means by a value.                                             *)

\* AttributeImpl's packing of allocsize, and ModRef's of memory: ref 1, mod 2, for
\* argument memory, inaccessible memory and the rest, in this order from bit 0.
PackAllocSize(elt_size, num_elts) ==
    elt_size * 2^HalfBits + (IF num_elts = NoneCount THEN 2^HalfBits - 1 ELSE num_elts)
PackMemory(default, argmem, inaccessible) == argmem + 4 * inaccessible + 16 * default

\* The numbers of an attribute that is read with numbers can be packed again to LLVM's
\* value, and the type of one that is read with a type is LLVM's type.
AttributeDenotes(x, a) ==
    /\ x.variant # "panic"
    /\ x.variant = "AllocSize" => PackAllocSize(x.nums[1], x.nums[2]) = a.value
    /\ x.variant = "Memory" => PackMemory(x.nums[1], x.nums[2], x.nums[3]) = a.value
    /\ x.variant \notin {"AllocSize", "Memory"} /\ x.nums # <<>> => x.nums = <<a.value>>
    /\ a.form = "type" /\ x.variant # "UnknownAttribute" /\ Expressible(a.ty)
          => LlvmOf(x.ty) = a.ty
=============================================================================
