------------------------------ MODULE IrReader ------------------------------
(***************************************************************************)
(* Reading a module (skv-analyzer/llvm-ir-patched, Module::from_llvm_ref): *)
(* IrNames with the contents of what is named.                             *)
(*                                                                         *)
(* Every step of IrNames is a step here.  Where the second pass builds a   *)
(* piece of the AST (a parameter, an instruction, a function, a global),   *)
(* the step chooses a valid LLVM object with the opcode and the type the   *)
(* first pass saw, and reads it.  llvm and node hold that object and what  *)
(* it was read as, until the next one.                                     *)
(***************************************************************************)
EXTENDS IrNames, IrInstructions, IrDataLayout
LOCAL INSTANCE SequencesExt

CONSTANTS
    GlobalChoices(_),           \* bounds: the globals that may come next,
    ItemChoices(_, _, _, _, _), \* what may come next in a body,
    Constants(_, _, _),         \* the constants an opcode may have as operands,
    AttrChoices(_, _, _, _),    \* the attributes of parameters and functions,
    MayAddSpec(_, _)            \* and the length of a layout string

VARIABLES
    gtypes,     \* gtypes[i]: value type and address space of globals[i]
    ltypes,     \* ltypes[i]: LLVM's type of body[i]
    builder,    \* ctx.types
    llvm,       \* the LLVM object last read
    node        \* what it was read as

astVars == <<builder, llvm, node>>
typeVars == <<gtypes, ltypes>>
readerVars == <<vars, typeVars, astVars, layoutVars>>

NoInst == LInst("", LVoid, << >>, LVoid, <<>>)
NoNode == Node("", << >>, void, <<>>, FALSE, <<>>)

ReaderInit ==
    /\ Init
    /\ gtypes = <<>> /\ ltypes = <<>>
    /\ builder = NewBuilder /\ llvm = NoInst /\ node = NoNode
    /\ LayoutInit

Running == ~builder.panicked /\ ~layout.panicked

Context == [globals |-> global_names, locals |-> names]

-----------------------------------------------------------------------------
(* Globals and the data layout.                                            *)

ReaderNameGlobal ==
    \E c \in GlobalChoices(globals) :
        /\ NameGlobal(c.g)
        /\ gtypes' = Append(gtypes, [ty |-> c.ty, space |-> c.space])
        /\ UNCHANGED <<ltypes, astVars, layoutVars>>

ReaderReset == ResetGlobals /\ UNCHANGED <<typeVars, astVars, layoutVars>>

\* DataLayout::from_module_ref comes before every function.
ReadLayoutSpec ==
    /\ phase = "read_globals"
    /\ global_built = <<>>
    /\ MayAddSpec(globals, specs)
    /\ \E s \in Specs : ReadLayout(s)
    /\ UNCHANGED <<vars, typeVars, astVars>>

\* A GlobalVariable with its initializer, a GlobalAlias with its aliasee, a
\* GlobalIFunc with its resolver_fn.
GlobalRoles == [Variable |-> "initializer", Alias |-> "aliasee", IFunc |-> "resolver_fn"]
GlobalObjects(g, t) ==
    LET cs == {LConstant(c) : c \in Constants(g.kind, globals, gtypes)}
        fits == IF g.kind = "Variable" THEN {v \in cs : v.ty = t.ty}
                ELSE {v \in cs : v.c[1].vk = "GlobalValue"}
        role == GlobalRoles[g.kind]
    IN  {LInst(g.kind, LPtr(t.space), role :> a, LVoid, <<>>) :
            a \in {<<v>> : v \in fits} \cup (IF g.kind = "Variable" THEN {<<>>} ELSE {})}

ReaderReadGlobal ==
    /\ ReadGlobal
    /\ \E o \in GlobalObjects(globals[Current], gtypes[Current]) :
          LET t == TypeFromLlvmRef(builder, o.ty)
              f == ReadFields(t.b, Context, o.args)
          IN  /\ llvm' = o
              /\ node' = Node(o.op, f.fields, t.ty, <<>>, FALSE, <<>>)
              /\ builder' = IF t.ty.kind = "PointerType" \/ o.op = "IFunc" THEN f.b
                            ELSE Panicked(f.b)
    /\ UNCHANGED <<typeVars, layoutVars>>

ReaderFinish == FinishModule /\ UNCHANGED <<typeVars, astVars, layoutVars>>

-----------------------------------------------------------------------------
(* Functions.                                                              *)

FunctionType == gtypes[Current].ty
ParamTypes == Tail(FunctionType.of)
ParamsLeft == Len(body) < Len(ParamTypes)

ReaderBegin ==
    /\ BeginFunction
    /\ ltypes' = <<>>
    /\ UNCHANGED <<gtypes, astVars, layoutVars>>

\* A Parameter: its type, then its attributes.
ReaderReadParam ==
    /\ phase = "params"
    /\ ParamsLeft
    /\ LET t == ParamTypes[Len(body) + 1] IN
          /\ \E s \in Strings \cup {Unnamed} :
                ReadParam([op |-> "Param", str |-> s, void |-> FALSE])
          /\ ltypes' = Append(ltypes, t)
          /\ \E attrs \in AttrChoices("argument", globals, body, t) :
                LET r == TypeFromLlvmRef(builder, t)
                    as == AttributesFromLlvmRef(r.b, attrs)
                IN  /\ llvm' = [LInst("Param", t, << >>, LVoid, <<>>) EXCEPT !.attrs = attrs]
                    /\ node' = Node("Param", << >>, r.ty, <<>>, FALSE, as.as)
                    /\ builder' = as.b
    /\ UNCHANGED <<gtypes, layoutVars>>

\* The rest of a FunctionDeclaration: its return type, then the attributes of that.
\* The node's type is the declaration's get_type.
ReadSignature ==
    \E attrs \in AttrChoices("return", globals, body, FunctionType) :
        LET params == [k \in DOMAIN ltypes |-> builder.map[ltypes[k]]]
            ret == TypeFromLlvmRef(builder, FunctionType.of[1])
            as == AttributesFromLlvmRef(ret.b, attrs)
        IN  /\ llvm' = [LInst("Signature", FunctionType, << >>, LVoid, <<>>)
                           EXCEPT !.attrs = attrs]
            /\ node' = Node("Signature", << >>, FuncType(ret.ty, params, FunctionType.flag),
                            <<>>, FALSE, as.as)
            /\ builder' = as.b
            /\ UNCHANGED <<typeVars, layoutVars>>

ReaderEndDeclaration == EndDeclaration /\ ~ParamsLeft /\ ReadSignature
ReaderEndParams == EndParams /\ ~ParamsLeft /\ ReadSignature

Values(op, b, ts) ==
    {LLocal(k, ts[k], b[k].op) : k \in {j \in DOMAIN b : b[j].op # "Block" /\ ~b[j].void}}
    \cup {LConstant(c) : c \in Constants(op, globals, gtypes)}
    \cup {LMetadata}
\* The entry block is no branch target.
Blocks(b) == LET all == {k \in DOMAIN b : b[k].op = "Block"}
             IN  {LBlock(k) : k \in {j \in all : \E i \in all : i < j}}

ReaderFirstPass ==
    /\ phase = "first"
    /\ \E c \in ItemChoices(globals, gtypes, body, ltypes, FunctionType) :
          /\ FirstPass(c.item)
          /\ ltypes' = Append(ltypes, c.ty)
    /\ UNCHANGED <<gtypes, astVars, layoutVars>>

ReaderEndFirstPass == EndFirstPass /\ UNCHANGED <<typeVars, astVars, layoutVars>>

ReadInstruction ==
    LET k == Len(built) + 1
        bs == Blocks(body)
    IN  \E inst \in Insts(body[k].op, Values(body[k].op, body, ltypes), bs, FunctionType.of[1]) :
           /\ inst.ty = ltypes[k]
           /\ \E d \in NormalDests(inst, bs) :
                 LET r == NodeFromLlvmRef(builder, Context, inst, d)
                 IN  /\ llvm' = inst
                     /\ node' = r.node
                     /\ builder' = r.b

ReaderSecondPass ==
    /\ SecondPass
    /\ IF body[Len(built) + 1].op = "Block"
       THEN llvm' = NoInst /\ node' = NoNode /\ UNCHANGED builder
       ELSE ReadInstruction
    /\ UNCHANGED <<typeVars, layoutVars>>

\* The rest of a Function: its attributes, then its personality_function.
ReaderEndBody ==
    /\ EndBody
    /\ \E attrs \in AttrChoices("function", globals, body, FunctionType),
          p \in {<<>>} \cup {<<LConstant(c)>> : c \in Constants("Function", globals, gtypes)} :
          LET as == AttributesFromLlvmRef(builder, attrs)
              f == ReadFields(as.b, Context, [personality_function |-> p])
          IN  /\ llvm' = [LInst("Function", LVoid, [personality_function |-> p], LVoid, <<>>)
                             EXCEPT !.attrs = attrs]
              /\ node' = Node("Function", f.fields, void, <<>>, FALSE, as.as)
              /\ builder' = f.b
    /\ UNCHANGED <<typeVars, layoutVars>>

ReaderNext ==
    /\ Running
    /\ \/ ReaderNameGlobal
       \/ ReaderReset
       \/ ReadLayoutSpec
       \/ ReaderReadGlobal
       \/ ReaderFinish
       \/ ReaderBegin
       \/ ReaderReadParam
       \/ ReaderEndDeclaration
       \/ ReaderEndParams
       \/ ReaderFirstPass
       \/ ReaderEndFirstPass
       \/ ReaderSecondPass
       \/ ReaderEndBody

ReaderSpec == ReaderInit /\ [][ReaderNext]_readerVars

-----------------------------------------------------------------------------
(* Properties.                                                             *)

\* The object last read is an instruction or a terminator of the body.
IsInst == llvm.op \in InstOps \cup TermOps
AllValues == UNION {ToSet(llvm.args[r]) : r \in DOMAIN llvm.args}
AllConstants == UNION {SubConstants(v.c[1]) : v \in {w \in AllValues : w.v = "constant"}}

\* x is the reading of v.  A name stands for the only object with that name, and
\* for the definition of that name in the AST once there is one.
Denotes(x, v) ==
    CASE v.v \in {"local", "block"} ->
            /\ x.o = IF v.v = "local" THEN "LocalOperand" ELSE "Name"
            /\ {k \in DOMAIN names : names[k] = x.name} = {v.i}
            /\ v.i \in DOMAIN built => built[v.i] = x.name
      [] v.v = "constant" ->
            x.o = "ConstantOperand" /\ ConstDenotes(x.c[1], v.c[1], global_names)
      [] v.v = "asm" -> x.o = "InlineAssembly"
      [] v.v = "metadata" -> x.o = "MetadataOperand"

\* An instruction that is viewed as a UnaryOp or a BinaryOp has just the operands
\* that the view gives, in LLVM's order; is_atomic is LLVM's notion.
ViewsDenote ==
    LET o == Operands(llvm)
        view == UnaryView(node) \o BinaryView(node)
    IN  /\ view # <<>> => /\ Len(view) = Len(o)
                          /\ \A k \in DOMAIN o : Denotes(view[k], o[k])
        /\ IsAtomic(node) <=> llvm.atomic \/ llvm.op \in {"Fence", "CmpXchg", "AtomicRMW"}

\* Every field of a node holds LLVM's operands of that role, in LLVM's order, no
\* operand is lost, and the views give the same ones.  Two fields are not what their
\* names say: the parent_pad of a cleanuppad with arguments is its first argument,
\* and the return_label of a callbr is what LLVMGetNormalDest, an accessor of
\* invokes, makes of it; a callbr's other_labels are not read.
FieldsDenoteOperands ==
    Running =>
        /\ \A r \in DOMAIN node.fields :
              \/ llvm.op = "CallBr" /\ r = "return_label"
              \/ LET vs == RoleRead(llvm, r)
                 IN  /\ Len(node.fields[r]) = Len(vs)
                     /\ \A k \in DOMAIN vs : Denotes(node.fields[r][k], vs[k])
        /\ \A r \in DOMAIN llvm.args \ {"other_labels"} :
              llvm.args[r] # <<>> => r \in DOMAIN node.fields
        /\ IsInst => Shaped(llvm) /\ ViewsDenote

\* The type the reader gives an operand is LLVM's.
OperandExact(x, v) == v.v # "block" => LlvmOf(TypeOfOperand(x)) = v.ty

\* get_type of an operand is LLVM's type, unless it is a constant that contains one
\* that get_type mistypes.
ConstantTypesExact ==
    Running /\ (IsInst \/ llvm.op \in DOMAIN GlobalRoles) =>
        \A r \in DOMAIN node.fields \cap DOMAIN llvm.args : \A k \in DOMAIN node.fields[r] :
            LET v == llvm.args[r][k] IN
            (v.v = "constant" /\ llvm.op \notin {"CleanupPad", "CallBr"} /\ Expressible(v.ty)) =>
                /\ (\A c \in SubConstants(v.c[1]) : ~Mistyped(c) /\ Expressible(c.ty))
                       => OperandExact(node.fields[r][k], v)
                /\ Mistyped(v.c[1]) => ~OperandExact(node.fields[r][k], v)

\* Instructions get_type mistypes, or panics on, whatever their operands: pointers
\* made by alloca or getelementptr that are not plain pointers in address space 0,
\* shuffles of scalable vectors, extractvalues through a named struct, catchswitch
\* and callbr.
MistypedInst(i) ==
    \/ i.op \in {"Alloca", "GetElementPtr"} /\ i.ty # LPtr(0)
    \/ i.op = "ShuffleVector" /\ i.ty.kind = "ScalableVector"
    \/ /\ i.op = "ExtractValue"
       /\ \E n \in 0 .. Len(i.idx) - 1 :
             LET t == At(i.args["aggregate"][1].ty, SubSeq(i.idx, 1, n))
             IN  t.kind = "Struct" /\ StructName(t) # 0
    \/ i.op \in {"CatchSwitch", "CallBr"}

\* Given that its operands are typed as LLVM types them, get_type of an instruction
\* is LLVM's type exactly when the instruction is not one of MistypedInst, and its
\* debug_assert_eq on operand types holds.
TypesExact ==
    (/\ Running /\ IsInst
     /\ \A v \in AllValues : Expressible(v.ty)
     /\ Expressible(llvm.ty) /\ Expressible(llvm.sty)
     /\ llvm.op \notin {"CleanupPad", "CallBr"} =>
            \A r \in DOMAIN node.fields : \A k \in DOMAIN node.fields[r] :
                OperandExact(node.fields[r][k], llvm.args[r][k])) =>
        /\ LlvmOf(TypeOfNode(node)) = llvm.ty <=> ~MistypedInst(llvm)
        /\ DebugAssertsHold(node)

\* Reading panics exactly on what it does not support: a cleanupret with an unwind
\* destination, the constants Unreadable names, the layout keys that are not the
\* reader's; and perhaps on a callbr.
PanicsWhenUnsupported ==
    LET unsupported == \/ llvm.op = "CleanupRet" /\ llvm.args["unwind_dest"] # <<>>
                       \/ \E c \in AllConstants : Unreadable(c)
    IN  /\ unsupported => builder.panicked
        /\ builder.panicked => unsupported \/ llvm.op = "CallBr"
        /\ LayoutPanics

\* Whatever has been read, its types denote LLVM's types and its named structs are
\* defined as LLVM defines them, so that resolve_named_type of the analyzer finds
\* them; and get_type of a function is LLVM's.
TypesAsLLVM ==
    Running =>
        /\ TypesFaithful(builder) /\ StructsDefined(builder)
        /\ llvm.op = "Signature" /\ Expressible(llvm.ty) => LlvmOf(node.ty) = llvm.ty

\* Attributes of functions, returns, parameters and calls are as many as LLVM's, on the
\* same items in the same order, and none makes the reader panic; one read with numbers
\* has LLVM's value (allocsize and memory once packed again), one read with a type has
\* LLVM's type.  An attribute read as another variant without numbers, or as
\* UnknownAttribute, is not told apart.
AttributesDenote ==
    Running =>
        /\ Len(node.attrs) = Len(llvm.attrs)
        /\ \A k \in DOMAIN node.attrs :
              /\ node.attrs[k].at = llvm.attrs[k].at
              /\ AttributeDenotes(node.attrs[k].a, llvm.attrs[k].a)
=============================================================================
