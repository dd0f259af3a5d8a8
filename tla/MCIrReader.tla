----------------------------- MODULE MCIrReader -----------------------------
(***************************************************************************)
(* Small modules for IrReader.  Three families, told apart by the first    *)
(* global: a wide function with one parameter of every type, over seven    *)
(* globals of every kind, whose body is one of a few shapes around one     *)
(* instruction; modules of up to two globals, named and not, with bodies   *)
(* around the instructions that are named differently by the two passes;   *)
(* and modules without globals, for data layouts.                          *)
(***************************************************************************)
EXTENDS IrReader
LOCAL INSTANCE SequencesExt

i1 == LInt(1)
i8 == LInt(8)
i32 == LInt(32)
i64 == LInt(64)
ptr == LPtr(0)
bytes == LArray(i8, 2)
pair == LStruct(<<i32, bytes>>, FALSE)
vec == LVector(i32, 2)

\* %1 = {i32, [2 x i8]}, %2 = <{i8, %1}>, %3 opaque, and one without a name.
MCStructs ==
    <<[name |-> 1, opaque |-> FALSE, packed |-> FALSE, of |-> <<i32, bytes>>],
      [name |-> 2, opaque |-> FALSE, packed |-> TRUE, of |-> <<i8, LIdentified(1)>>],
      [name |-> 3, opaque |-> TRUE, packed |-> FALSE, of |-> <<>>],
      [name |-> 0, opaque |-> FALSE, packed |-> FALSE, of |-> <<i64>>]>>

WideType ==
    LFunction(i32, <<i1, i32, i64, LScalar("Float"), LScalar("Double"), ptr, LPtr(5), vec,
                     LScalable(i32, 2), LVector(LScalar("Float"), 2), LVector(ptr, 2), pair,
                     LIdentified(1), LIdentified(2), LArray(i32, 2), LTargetExt(1),
                     LIdentified(4)>>, TRUE)
ThinType == LFunction(i32, <<i32>>, FALSE)
VoidType == LFunction(LVoid, <<>>, FALSE)
MCFunctionTypes ==
    {ThinType, LFunction(ptr, <<ptr>>, TRUE),
     LFunction(LVoid, <<LScalar("Metadata")>>, FALSE)}
MCValueTypes == {i8, i32, i64, LScalar("Float"), LScalar("Double"), LPtr(1), vec,
                 LVector(LInt(64), 2), LIdentified(2), LArray(LIdentified(1), 3)}

-----------------------------------------------------------------------------
Choice(kind, str, ty, space) == [g |-> [kind |-> kind, str |-> str], ty |-> ty, space |-> space]
WideGlobals ==
    <<Choice("Defined", "w", WideType, 0), Choice("Declared", "a", LFunction(i32, <<i32>>, TRUE), 0),
      Choice("Variable", "b", i32, 0), Choice("Variable", "", LIdentified(2), 1),
      Choice("Variable", "", LIdentified(3), 0), Choice("Alias", "", i32, 0),
      Choice("IFunc", "", VoidType, 0)>>
ThinGlobals ==
    {Choice(k, s, t, 0) : k \in FunctionKinds, s \in {"", "a"}, t \in {ThinType, VoidType}}
    \cup {Choice(k, s, i32, 0) : k \in {"Variable", "Alias", "IFunc"}, s \in {"", "a"}}
IsWide(gs) == gs # <<>> /\ gs[1].str = "w"
IsWhole(gs) == IsWide(gs) /\ Len(gs) = Len(WideGlobals)

MCGlobalChoices(gs) ==
    CASE gs = <<>> -> {WideGlobals[1]} \cup ThinGlobals
      [] IsWide(gs) /\ ~IsWhole(gs) -> {WideGlobals[Len(gs) + 1]}
      [] ~IsWide(gs) /\ Len(gs) = 1 -> ThinGlobals
      [] OTHER -> {}
MCMayAddGlobal(gs, g) == TRUE
MCMayAddItem(b, i) == i.op = "Param" => i.str = ""

-----------------------------------------------------------------------------
Int32 == LPlain("ConstantInt", i32, <<>>)
Byte == LPlain("ConstantInt", i8, <<>>)
NullPtr == LPlain("ConstantPointerNull", ptr, <<>>)
Address == LExpr("PtrToInt", i32, <<NullPtr>>)
PairC == LPlain("ConstantStruct", pair, <<Int32, LPlain("ConstantDataArray", bytes, <<Byte, Byte>>)>>)
NamedC == LPlain("ConstantStruct", LIdentified(1), PairC.ops)
VecC == LPlain("ConstantDataVector", vec, <<Int32, Int32>>)

GlobalRefs(gs, gts) ==
    IF IsWhole(gs) THEN {LGlobal(g, LPtr(gts[g].space), gts[g].ty) : g \in 2 .. Len(gs)} ELSE {}

\* Constants of every kind the conversion tells apart, and two it does not know.
AllKinds(gs, gts) ==
    LET refs == GlobalRefs(gs, gts)
        cs == {c \in refs : c.ty = ptr}
    IN  {Int32, NullPtr, Address, PairC, NamedC, VecC}
        \cup refs
        \cup {LPlain("ConstantFP", LScalar("Float"), <<>>),
              LPlain("ConstantPointerNull", LPtr(5), <<>>),
              LPlain("ConstantAggregateZero", LIdentified(2), <<>>),
              LPlain("UndefValue", LArray(LIdentified(1), 3), <<>>),
              LPlain("PoisonValue", vec, <<>>), LPlain("BlockAddress", ptr, <<>>),
              LPlain("ConstantStruct", LIdentified(2), <<Byte, NamedC>>),
              LPlain("ConstantStruct", LStruct(<<i8, i32>>, TRUE), <<Byte, Int32>>),
              LPlain("ConstantVector", vec, <<Int32, Address>>),
              LPlain("DSOLocalEquivalent", ptr, <<>>), LPlain("NoCFIValue", ptr, <<>>)}
        \cup {LPlain("ConstantArray", LArray(ptr, 2), <<c, NullPtr>>) : c \in cs}
        \cup {LExpr(o, i32, <<Address, Int32>>) : o \in ConstBinops}
        \cup {LExpr("Trunc", i8, <<Address>>), LExpr("IntToPtr", ptr, <<Int32>>),
              LExpr("BitCast", vec, <<LPlain("ConstantInt", i64, <<>>)>>)}
        \cup {LExpr("AddrSpaceCast", LPtr(5), <<c>>) : c \in cs}
        \cup {LExpr("GetElementPtr", c.ty, <<c, Int32, Int32>>) : c \in refs}
        \cup {LExpr("GetElementPtr", LVector(ptr, 2), <<NullPtr, VecC>>),
              LExpr("ExtractElement", i32, <<VecC, Address>>),
              LExpr("InsertElement", vec, <<VecC, Int32, Address>>),
              LExpr("ShuffleVector", vec, <<VecC, VecC>>)}
        \cup {LPlain("ConstantPtrAuth", ptr, <<c, Int32, LPlain("ConstantInt", i64, <<>>), NullPtr>>) :
                 c \in cs}

MCConstants(op, gs, gts) ==
    CASE ~IsWhole(gs) -> IF op \in {"Store", "Call", "Invoke"} THEN {NullPtr} ELSE {Int32}
      [] IsWhole(gs) /\ op \in {"Store", "Variable"} -> AllKinds(gs, gts)
      [] IsWhole(gs) /\ op \in {"Function", "LandingPad", "Alias", "IFunc", "Call"} ->
            GlobalRefs(gs, gts)
            \cup {Int32, LPlain("ConstantArray", LArray(ptr, 1), <<NullPtr>>)}
      [] OTHER -> {Int32, VecC}

-----------------------------------------------------------------------------
\* Shapes of bodies: the opcodes after the parameters.
WideShapes ==
    {<<"Block", o, "Ret">> : o \in InstOps \ {"Phi", "CatchPad", "CleanupPad", "LandingPad"}}
    \cup {<<"Block", o, "Block", "Unreachable", "Block", "Unreachable">> :
             o \in {"Br", "Switch", "IndirectBr", "Invoke", "CallBr"}}
    \cup {<<"Block", "Resume">>, <<"Block", "Unreachable">>,
          <<"Block", "Br", "Block", "Phi", "Ret">>, <<"Block", "LandingPad", "Resume">>,
          <<"Block", "CleanupPad", "CleanupRet", "Block", "Ret">>,
          <<"Block", "CatchSwitch", "Block", "CatchPad", "CatchRet", "Block", "Ret">>}
ThinShapes ==
    {<<"Block", o, p, "Ret">> : o, p \in {"Add", "Call", "Store"}}
    \cup {<<"Block", o, "Invoke", "Block", "Ret">> : o \in {"Add", "Call", "Fence"}}

Shapes(gs) == CASE IsWhole(gs) -> WideShapes
                [] IsWide(gs) /\ ~IsWhole(gs) -> {}
                [] ~IsWide(gs) /\ Len(gs) = 1 -> ThinShapes
                [] OTHER -> {<<"Block", "Unreachable">>}

ShapeOf(b) == LET s == SelectSeq(b, LAMBDA i : i.op # "Param")
              IN  [k \in DOMAIN s |-> s[k].op]

MCItemChoices(gs, gts, b, ts, ft) ==
    LET done == ShapeOf(b)
        n == Len(done) + 1
        next == {s[n] : s \in {t \in Shapes(gs) : Len(t) >= n /\ SubSeq(t, 1, n - 1) = done}}
        types(o) == IF o = "Block" THEN {LScalar("Label")}
                    ELSE {i.ty : i \in Insts(o, Values(o, b, ts), {LBlock(1)}, ft.of[1])}
        names_of(o, t) == IF IsWide(gs) \/ t = LVoid \/ Len(gs) > 1 THEN {""} ELSE {"", "b"}
    IN  UNION {UNION {{[item |-> [op |-> o, str |-> s, void |-> t = LVoid], ty |-> t] :
                          s \in names_of(o, t)} : t \in types(o)} : o \in next}

-----------------------------------------------------------------------------
Enum(name, value) == LAttr("enum", name, value, LVoid)
At1(at, a) == <<[at |-> at, a |-> a]>>
ParamAttrs ==
    {Enum("noalias", 0), Enum("align", 8), Enum("readonly", 0), LAttr("string", "s", 1, LVoid),
     LAttr("type", "byval", 0, LIdentified(2)), LAttr("type", "sret", 0, bytes),
     LAttr("type", "elementtype", 0, i64), LAttr("range", "range", 0, LVoid)}
FunctionAttrs ==
    {Enum("memory", v) : v \in 0 .. 63} \cup {Enum("allocsize", v) : v \in 0 .. 63}
    \cup {Enum(n, 0) : n \in DOMAIN FunctionAttributes}
    \cup {Enum("alignstack", 16), Enum("mustprogress", 0), LAttr("string", "s", 1, LVoid)}

MCAttrChoices(at, gs, b, t) ==
    CASE at = "argument" /\ IsWhole(gs) /\ t = ptr -> {<<>>} \cup {At1(at, a) : a \in ParamAttrs}
      [] at = "return" /\ IsWide(gs) ->
            {<<>>, At1(at, Enum("zeroext", 0)) \o At1(at, Enum("noundef", 0))}
      [] at = "function" /\ IsWide(gs) /\ ShapeOf(b) = <<"Block", "Unreachable">> ->
            {At1(at, a) : a \in FunctionAttrs}
      [] OTHER -> {<<>>}
MCCallAttrs ==
    {<<>>, At1("return", LAttr("type", "sret", 0, bytes)) \o At1("function", Enum("cold", 0))}

MCSpecs ==
    {LSpec("e", 0, <<>>), LSpec("S", 0, <<128>>), LSpec("P", 0, <<1>>), LSpec("A", 0, <<5>>),
     LSpec("p", 0, <<32, 32>>), LSpec("p", 1, <<64, 64, 128, 32>>), LSpec("i", 64, <<64>>),
     LSpec("i", 96, <<128, 64>>), LSpec("i", 8, <<8, 32>>), LSpec("v", 32, <<32>>),
     LSpec("v", 256, <<64>>), LSpec("f", 80, <<128>>), LSpec("a", 0, <<0, 32>>),
     LSpec("Fn", 0, <<32>>), LSpec("m", "e", <<>>), LSpec("m", "l", <<>>),
     LSpec("ni", 0, <<5, 7>>), LSpec("n", 0, <<32, 64>>), LSpec("", 0, <<>>),
     LSpec("G", 0, <<1>>), LSpec("s", 0, <<64, 64>>), LSpec("p", 0, <<64, 8>>),
     LSpec("i", 64, <<8, 8>>)}
MCMayAddSpec(gs, ss) == gs = <<>> /\ Len(ss) < 3
=============================================================================
