----------------------------- MODULE IrOperands -----------------------------
(***************************************************************************)
(* The operands of an instruction: in which order LLVM keeps them, and     *)
(* which one, by its number, the IR reader puts into which field           *)
(* (llvm-ir-patched/src/instruction.rs, terminator.rs).                    *)
(*                                                                         *)
(* An instruction is a record; args gives the values in each of its roles. *)
(* LLVM is a library; it is modelled from the C API calls that read        *)
(* operands.                                                               *)
(***************************************************************************)
EXTENDS Integers, Sequences, Functions, IrOpcodes

\* The operand list of an instruction: its roles in this order.  (Operand bundles
\* are left out.)  A phi keeps its blocks apart from its operands.
Layout(op) ==
    CASE op \in BinaryOps \cup {"ICmp", "FCmp", "ShuffleVector"} -> <<"operand0", "operand1">>
      [] op \in CastOps \cup {"FNeg", "Freeze", "Resume"} -> <<"operand">>
      [] op = "ExtractElement" -> <<"vector", "index">>
      [] op = "InsertElement" -> <<"vector", "element", "index">>
      [] op = "ExtractValue" -> <<"aggregate">>
      [] op = "InsertValue" -> <<"aggregate", "element">>
      [] op = "Alloca" -> <<"num_elements">>
      [] op = "Load" -> <<"address">>
      [] op = "Store" -> <<"value", "address">>
      [] op \in {"Fence", "Unreachable"} -> <<>>
      [] op = "CmpXchg" -> <<"address", "expected", "replacement">>
      [] op = "AtomicRMW" -> <<"address", "value">>
      [] op = "GetElementPtr" -> <<"address", "indices">>
      [] op = "Phi" -> <<"incoming_values">>
      [] op = "VAArg" -> <<"arg_list">>
      [] op = "Select" -> <<"condition", "true_value", "false_value">>
      [] op = "Call" -> <<"arguments", "function">>
      [] op = "LandingPad" -> <<"clauses">>
      [] op = "CatchPad" -> <<"args", "catch_switch">>
      [] op = "CleanupPad" -> <<"args", "parent_pad">>
      [] op = "Ret" -> <<"return_operand">>
      [] op = "IndirectBr" -> <<"operand", "possible_dests">>
      [] op = "Br" -> <<"condition", "false_dest", "true_dest", "dest">>
      [] op = "Invoke" -> <<"arguments", "return_label", "exception_label", "function">>
      [] op = "CallBr" -> <<"arguments", "return_label", "other_labels", "function">>
      [] op = "CleanupRet" -> <<"cleanup_pad", "unwind_dest">>
      [] op = "CatchRet" -> <<"catch_pad", "successor">>
      [] op = "CatchSwitch" -> <<"parent_pad", "default_unwind_dest", "catch_handlers">>

\* The values in a role, and in the k-th role of a layout.
In(inst, r) == IF r \in DOMAIN inst.args THEN inst.args[r] ELSE <<>>
Part(inst, k) ==
    IF k \in DOMAIN Layout(inst.op) THEN In(inst, Layout(inst.op)[k]) ELSE <<>>

\* A switch alternates case values and destinations.
Cases(inst) ==
    [k \in 1 .. 2 * Len(inst.args["values"]) |->
        IF k % 2 = 1 THEN inst.args["values"][(k + 1) \div 2] ELSE inst.args["dests"][k \div 2]]

\* LLVMGetOperand(inst, k) is Operands(inst)[k + 1].  No layout has a fifth role.
Operands(inst) ==
    IF inst.op = "Switch"
    THEN inst.args["operand"] \o inst.args["default_dest"] \o Cases(inst)
    ELSE Part(inst, 1) \o Part(inst, 2) \o Part(inst, 3) \o Part(inst, 4)

\* Roles that hold any number of values, and roles that may be empty; the others hold
\* one value.
ListRoles == {"arguments", "indices", "incoming_values", "incoming_blocks", "clauses", "args",
              "values", "dests", "possible_dests", "catch_handlers", "other_labels"}
OptionalRoles == {"return_operand", "unwind_dest", "default_unwind_dest"}

RoleSets(op) ==
    CASE op = "Br" -> {{"dest"}, {"condition", "true_dest", "false_dest"}}
      [] op = "Switch" -> {{"operand", "default_dest", "values", "dests"}}
      [] op = "Phi" -> {{"incoming_values", "incoming_blocks"}}
      [] OTHER -> {Range(Layout(op))}

\* What LLVM's verifier guarantees about the roles of an instruction.
Shaped(inst) ==
    /\ inst.op \in InstOps \cup TermOps
    /\ DOMAIN inst.args \in RoleSets(inst.op)
    /\ \A r \in DOMAIN inst.args :
          \/ r \in ListRoles
          \/ Len(inst.args[r]) = 1
          \/ r \in OptionalRoles /\ inst.args[r] = <<>>
    /\ inst.op = "Switch" => Len(inst.args["values"]) = Len(inst.args["dests"])

-----------------------------------------------------------------------------
(* from_llvm_ref: which operand, by its number, goes into which field.     *)

\* Instructions read from a fixed number of operands, which the code asserts.
UnaryOperands == [operand |-> 0]
CastOperands == [operand |-> 0]
BinaryOperands == [operand0 |-> 0, operand1 |-> 1]
VectorOperands(op) ==
    CASE op = "ExtractElement" -> [vector |-> 0, index |-> 1]
      [] op = "InsertElement" -> [vector |-> 0, element |-> 1, index |-> 2]
      [] op = "ShuffleVector" -> [operand0 |-> 0, operand1 |-> 1]
AggregateOperands(op) ==
    CASE op = "ExtractValue" -> [aggregate |-> 0]
      [] op = "InsertValue" -> [aggregate |-> 0, element |-> 1]
MemoryOperands(op) ==
    CASE op = "Alloca" -> [num_elements |-> 0]
      [] op = "Load" -> [address |-> 0]
      [] op = "Store" -> [address |-> 1, value |-> 0]
      [] op = "Fence" -> << >>
      [] op = "CmpXchg" -> [address |-> 0, expected |-> 1, replacement |-> 2]
      [] op = "AtomicRMW" -> [address |-> 0, value |-> 1]
CmpOperands == [operand0 |-> 0, operand1 |-> 1]
SelectOperands == [condition |-> 0, true_value |-> 1, false_value |-> 2]
VAArgOperands == [arg_list |-> 0]
ExitOperands(op) ==
    CASE op = "Resume" -> [operand |-> 0]
      [] op = "Unreachable" -> << >>

VectorOps == {"ExtractElement", "InsertElement", "ShuffleVector"}
MemoryOps == {"Alloca", "Load", "Store", "Fence", "CmpXchg", "AtomicRMW"}
FixedOps == {"FNeg", "Freeze"} \cup CastOps \cup BinaryOps \cup VectorOps
            \cup {"ExtractValue", "InsertValue"} \cup MemoryOps
            \cup {"ICmp", "FCmp", "Select", "VAArg", "Resume", "Unreachable"}
FixedOperands(op) ==
    CASE op \in {"FNeg", "Freeze"} -> UnaryOperands
      [] op \in CastOps -> CastOperands
      [] op \in BinaryOps -> BinaryOperands
      [] op \in VectorOps -> VectorOperands(op)
      [] op \in {"ExtractValue", "InsertValue"} -> AggregateOperands(op)
      [] op \in MemoryOps -> MemoryOperands(op)
      [] op \in {"ICmp", "FCmp"} -> CmpOperands
      [] op = "Select" -> SelectOperands
      [] op = "VAArg" -> VAArgOperands
      [] op \in {"Resume", "Unreachable"} -> ExitOperands(op)

GetElementPtrFields(inst, o) ==
    [address |-> <<o[1]>>, indices |-> SubSeq(o, 2, Len(inst.args["indices"]) + 1)]
PhiFields(inst) == [incoming_values |-> inst.args["incoming_values"],
                    incoming_blocks |-> inst.args["incoming_blocks"]]
\* A funclet pad's arguments come by accessor; a cleanuppad's parent is taken to be
\* operand 0.
PadFields(inst, o) ==
    CASE inst.op = "LandingPad" -> [clauses |-> inst.args["clauses"]]
      [] inst.op = "CatchPad" -> [catch_switch |-> inst.args["catch_switch"],
                                  args |-> inst.args["args"]]
      [] inst.op = "CleanupPad" -> [parent_pad |-> <<o[1]>>, args |-> inst.args["args"]]

\* CallInfo: the callee by accessor, the arguments as operands 0 .. num_args.
CallFields(inst, o) ==
    [function |-> inst.args["function"],
     arguments |-> SubSeq(o, 1, Len(inst.args["arguments"]))]

\* Mutant: the destinations of a switch are its first successors.
SwitchFromDefault(inst, o) ==
    LET successors == inst.args["default_dest"] \o inst.args["dests"]
        n == Len(successors)
    IN  [operand |-> <<o[1]>>, values |-> [i \in 1 .. n - 1 |-> o[2 * i + 1]],
         dests |-> [i \in 1 .. n - 1 |-> successors[i]],
         default_dest |-> inst.args["default_dest"]]
\* Successor 0 of a switch is the default; case i has its value in operand 2i and
\* its block in successor i.
SwitchFields(inst, o) ==
    LET successors == inst.args["default_dest"] \o inst.args["dests"]
        n == Len(successors)
    IN  [operand |-> <<o[1]>>, values |-> [i \in 1 .. n - 1 |-> o[2 * i + 1]],
         dests |-> [i \in 1 .. n - 1 |-> successors[i + 1]],
         default_dest |-> inst.args["default_dest"]]

\* LLVMGetNormalDest is an accessor of invokes; of a callbr it may give any block,
\* or none of bb_names.
NormalDests(inst, bs) ==
    IF inst.op = "CallBr" THEN {<<d>> : d \in bs} \cup {<<>>} ELSE {<<>>}

BranchFields(inst, o) ==
    CASE inst.op = "Ret" -> [return_operand |-> o]
      [] inst.op = "Br" ->
            IF Len(o) = 1 THEN [dest |-> o]
            ELSE [condition |-> <<o[1]>>, true_dest |-> <<o[3]>>, false_dest |-> <<o[2]>>]
UnwindFields(inst, o) ==
    CASE inst.op = "CleanupRet" ->
            [cleanup_pad |-> <<o[1]>>, unwind_dest |-> inst.args["unwind_dest"]]
      [] inst.op = "CatchRet" ->
            [catch_pad |-> <<o[1]>>, successor |-> inst.args["successor"]]
      [] inst.op = "CatchSwitch" ->
            [parent_pad |-> <<o[1]>>, catch_handlers |-> inst.args["catch_handlers"],
             default_unwind_dest |-> inst.args["default_unwind_dest"]]
InvokeFields(inst, o) ==
    [function |-> CallFields(inst, o).function, arguments |-> CallFields(inst, o).arguments,
     return_label |-> inst.args["return_label"],
     exception_label |-> inst.args["exception_label"]]
CallBrFields(inst, o, normal_dest) ==
    [function |-> CallFields(inst, o).function, arguments |-> CallFields(inst, o).arguments,
     return_label |-> normal_dest]
TerminatorFields(inst, o) ==
    CASE inst.op \in {"Ret", "Br"} -> BranchFields(inst, o)
      [] inst.op = "Switch" -> SwitchFields(inst, o)
      [] inst.op = "IndirectBr" ->
            [operand |-> <<o[1]>>, possible_dests |-> inst.args["possible_dests"]]
      [] inst.op = "Invoke" -> InvokeFields(inst, o)
      [] OTHER -> UnwindFields(inst, o)

LlvmFields(inst, normal_dest) ==
    LET o == Operands(inst)
    IN  CASE inst.op \in FixedOps ->
                LET at == FixedOperands(inst.op) IN [r \in DOMAIN at |-> <<o[at[r] + 1]>>]
          [] inst.op = "Call" -> CallFields(inst, o)
          [] inst.op = "GetElementPtr" -> GetElementPtrFields(inst, o)
          [] inst.op = "Phi" -> PhiFields(inst)
          [] inst.op \in {"LandingPad", "CatchPad", "CleanupPad"} -> PadFields(inst, o)
          [] inst.op = "CallBr" -> CallBrFields(inst, o, normal_dest)
          [] OTHER -> TerminatorFields(inst, o)

\* The assertions of the conversions on the number of operands: a fixed list has as
\* many as are read from it.
CountFails(inst) ==
    LET n == Len(Operands(inst))
    IN  CASE inst.op \in FixedOps -> Range(FixedOperands(inst.op)) # 0 .. n - 1
          [] inst.op = "Ret" -> n > 1
          [] inst.op = "Br" -> n \notin {1, 3}
          [] inst.op = "CleanupRet" -> n # 1
          [] OTHER -> FALSE

-----------------------------------------------------------------------------
(* What the fields are to hold.                                            *)

\* The values of a role as the reader understands them: the parent_pad of a cleanuppad
\* with arguments is its first argument.
RoleRead(inst, r) ==
    IF inst.op = "CleanupPad" /\ r = "parent_pad" /\ inst.args["args"] # <<>>
    THEN <<inst.args["args"][1]>> ELSE inst.args[r]

\* Every role but a callbr's other_labels has a field, which holds the values of that
\* role, in their order; a callbr's return_label is what LLVMGetNormalDest makes of it.
FieldsAreRoles(inst, normal_dest) ==
    LET fields == LlvmFields(inst, normal_dest)
    IN  /\ DOMAIN fields = DOMAIN inst.args \ {"other_labels"}
        /\ \A r \in DOMAIN fields :
              \/ inst.op = "CallBr" /\ r = "return_label"
              \/ fields[r] = RoleRead(inst, r)
=============================================================================
