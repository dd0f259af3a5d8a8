------------------------------ MODULE IrNames ------------------------------
(***************************************************************************)
(* How the IR reader (skv-analyzer/llvm-ir-patched) names things.          *)
(*                                                                         *)
(* LLVM objects without a string name are numbered by a counter, and the   *)
(* reader counts twice: a first pass maps every object to its name, so     *)
(* that forward references can be resolved; a second pass builds the AST   *)
(* and counts again to name what it builds.  The analyzer finds the        *)
(* definition of an operand by comparing the two.                          *)
(*                                                                         *)
(* The program being read is written as it is first read: the first pass   *)
(* of a behaviour chooses the next object, the second pass walks over what *)
(* was chosen.  A reference to an object is its position.                  *)
(***************************************************************************)
EXTENDS Integers, Sequences, IrOpcodes

CONSTANTS
    Strings,                \* string names a program may give
    MayAddGlobal(_, _),     \* bound: the globals a module may have
    MayAddItem(_, _)        \* bound: the objects a function may hold

Unnamed == ""               \* get_value_name of an object without a name

-----------------------------------------------------------------------------
(* The objects of a program.                                               *)

\* Only values that are not void can carry a string name.
Items == {i \in [op : {"Param", "Block"} \cup InstOps \cup TermOps,
                 str : Strings \cup {Unnamed}, void : BOOLEAN] :
            /\ i.op \in VoidOps => i.void
            /\ i.op \notin VoidOps \cup CalleeTyped => ~i.void
            /\ i.void => i.str = Unnamed}

FunctionKinds == {"Defined", "Declared"}
GlobalKinds == FunctionKinds \cup {"Variable", "Alias", "IFunc"}
Globals == [kind : GlobalKinds, str : Strings \cup {Unnamed}]

-----------------------------------------------------------------------------
(* Names.                                                                  *)

\* Mutant: the increment is lost.
NoAdvance(s) == 0
\* What name_or_num adds to the counter.
Advance(s) == IF s = Unnamed THEN 1 ELSE 0

\* Name::Number(ctr) or Name::Name(s).
NameOrNum(s, c) == [str |-> s, num |-> IF s = Unnamed THEN c ELSE -1]

NoName == [str |-> Unnamed, num |-> -1]
Names == [str : Strings \cup {Unnamed}, num : Int]

\* Mutant: a call is taken to have no result.
NeedsNameNoCall(i) ==
    \/ i.str # Unnamed
    \/ i.op \in {"Param", "Block", "Invoke", "CatchSwitch", "CallBr"}
    \/ i.op \in InstOps \ {"Store", "Fence", "Call"}
\* needs_name and term_needs_name: what the first pass numbers.
NeedsName(i) ==
    \/ i.str # Unnamed
    \/ i.op \in {"Param", "Block"}
    \/ i.op \in InstOps \ {"Store", "Fence", "Call"}
    \/ i.op = "Call" /\ ~i.void
    \/ i.op \in {"Invoke", "CatchSwitch", "CallBr"}

\* The dest and result fields of the AST: what the second pass numbers.
HasResult(i) ==
    \/ i.op \in {"Param", "Block"}
    \/ i.op \in InstOps \ {"Store", "Fence", "Call"}
    \/ i.op = "Call" /\ ~i.void
    \/ i.op \in {"Invoke", "CatchSwitch", "CallBr"}

FirstName(i, c) == IF NeedsName(i) THEN NameOrNum(i.str, c) ELSE NoName
FirstAdvance(i) == IF NeedsName(i) THEN Advance(i.str) ELSE 0
SecondName(i, c) == IF HasResult(i) THEN NameOrNum(i.str, c) ELSE NoName
SecondAdvance(i) == IF HasResult(i) THEN Advance(i.str) ELSE 0

\* A function's name in the AST is its string, also when that is empty.
FunctionName(s) == [str |-> s, num |-> -1]

-----------------------------------------------------------------------------
VARIABLES
    phase,          \* what the reader is doing
    globals,        \* the module's globals, in the order of the first pass
    global_ctr,
    global_names,   \* global_names[i]: the first pass's name of globals[i]
    global_built,   \* global_built[i]: the name of globals[i] in the AST
    body,           \* the objects of the function being read
    local_ctr,
    names,          \* names[i]: the first pass's name of body[i] (bb_names, val_names)
    built,          \* built[i]: the name of body[i] in the AST
    after_params,   \* ctr_val_after_parameters
    before          \* history: local_ctr when the first pass came to body[i]

globalVars == <<globals, global_ctr, global_names, global_built>>
localVars == <<body, local_ctr, names, built, after_params, before>>
vars == <<phase, globalVars, localVars>>

TypeOK ==
    /\ phase \in {"name_globals", "read_globals", "params", "first", "second", "done"}
    /\ globals \in Seq(Globals) /\ global_ctr \in Nat
    /\ global_names \in Seq(Names) /\ global_built \in Seq(Names)
    /\ body \in Seq(Items) /\ local_ctr \in Nat /\ after_params \in Nat
    /\ names \in Seq(Names) /\ built \in Seq(Names) /\ before \in Seq(Nat)

Init ==
    /\ phase = "name_globals"
    /\ globals = <<>> /\ global_ctr = 0 /\ global_names = <<>> /\ global_built = <<>>
    /\ body = <<>> /\ local_ctr = 0 /\ names = <<>> /\ built = <<>>
    /\ after_params = 0 /\ before = <<>>

-----------------------------------------------------------------------------
(* Module::from_llvm_ref.                                                  *)

\* The chain of the first pass: defined functions, declared functions, global
\* variables, aliases, ifuncs.
Rank(k) == CASE k = "Defined" -> 1 [] k = "Declared" -> 2 [] k = "Variable" -> 3
             [] k = "Alias" -> 4 [] k = "IFunc" -> 5

NameGlobal(g) ==
    /\ phase = "name_globals"
    /\ MayAddGlobal(globals, g)
    /\ \A i \in DOMAIN globals : /\ Rank(globals[i].kind) <= Rank(g.kind)
                                 /\ g.str # Unnamed => globals[i].str # g.str
    /\ globals' = Append(globals, g)
    /\ global_names' = Append(global_names, NameOrNum(g.str, global_ctr))
    /\ global_ctr' = global_ctr + Advance(g.str)
    /\ UNCHANGED <<phase, global_built, localVars>>

\* Mutant: the counter is not reset between the passes.
NoReset ==
    /\ phase = "name_globals"
    /\ phase' = "read_globals"
    /\ UNCHANGED <<globalVars, localVars>>
\* "reset the global_ctr; the second pass should number everything exactly the
\* same though"
ResetGlobals ==
    /\ phase = "name_globals"
    /\ phase' = "read_globals"
    /\ global_ctr' = 0
    /\ UNCHANGED <<globals, global_names, global_built, localVars>>

Current == Len(global_built) + 1    \* the global the second pass is at

\* Function::from_llvm_ref and FunctionDeclaration::from_llvm_ref start here.
BeginFunction ==
    /\ phase = "read_globals"
    /\ Current <= Len(globals)
    /\ globals[Current].kind \in FunctionKinds
    /\ phase' = "params"
    /\ body' = <<>> /\ local_ctr' = 0 /\ names' = <<>> /\ built' = <<>>
    /\ before' = <<>>
    /\ UNCHANGED <<after_params, globalVars>>

\* GlobalVariable, GlobalAlias and GlobalIFunc::from_llvm_ref.
ReadGlobal ==
    /\ phase = "read_globals"
    /\ Current <= Len(globals)
    /\ LET g == globals[Current] IN
          /\ g.kind \notin FunctionKinds
          /\ global_built' = Append(global_built, NameOrNum(g.str, global_ctr))
          /\ global_ctr' = global_ctr + Advance(g.str)
    /\ UNCHANGED <<phase, globals, global_names, localVars>>

FinishModule ==
    /\ phase = "read_globals"
    /\ Current > Len(globals)
    /\ phase' = "done"
    /\ UNCHANGED <<globalVars, localVars>>

-----------------------------------------------------------------------------
(* Function::from_llvm_ref.                                                *)

\* String names are unique within a function: LLVM renames clashes.
FreshString(i) == i.str = Unnamed \/ \A k \in DOMAIN body : body[k].str # i.str

\* from_llvm_ref_internal names the parameters, once for both passes.
ReadParam(i) ==
    /\ phase = "params"
    /\ i.op = "Param"
    /\ MayAddItem(body, i)
    /\ FreshString(i)
    /\ body' = Append(body, i)
    /\ names' = Append(names, NameOrNum(i.str, local_ctr))
    /\ built' = Append(built, NameOrNum(i.str, local_ctr))
    /\ before' = Append(before, local_ctr)
    /\ local_ctr' = local_ctr + Advance(i.str)
    /\ UNCHANGED <<phase, after_params, globalVars>>

EndFunction ==
    /\ phase' = "read_globals"
    /\ global_built' = Append(global_built, FunctionName(globals[Current].str))
    /\ UNCHANGED <<globals, global_ctr, global_names, localVars>>

EndDeclaration ==
    /\ phase = "params"
    /\ globals[Current].kind = "Declared"
    /\ EndFunction

EndParams ==
    /\ phase = "params"
    /\ globals[Current].kind = "Defined"
    /\ phase' = "first"
    /\ after_params' = local_ctr
    /\ UNCHANGED <<globalVars, body, local_ctr, names, built, before>>

\* A block is its label, instructions, and one terminator.
InBlock == Len(body) > Len(built) /\ body[Len(body)].op \notin TermOps
Follows(i) == IF InBlock THEN i.op \in InstOps \cup TermOps ELSE i.op = "Block"

\* BasicBlock::first_pass_names.
FirstPass(i) ==
    /\ phase = "first"
    /\ Follows(i)
    /\ MayAddItem(body, i)
    /\ FreshString(i)
    /\ body' = Append(body, i)
    /\ names' = Append(names, FirstName(i, local_ctr))
    /\ before' = Append(before, local_ctr)
    /\ local_ctr' = local_ctr + FirstAdvance(i)
    /\ UNCHANGED <<phase, built, after_params, globalVars>>

\* Mutant: the second pass goes on counting where the first one stopped.
KeepCounting ==
    /\ phase = "first"
    /\ Len(body) > Len(built) /\ ~InBlock
    /\ phase' = "second"
    /\ UNCHANGED <<globalVars, localVars>>
\* Mutant: the second pass restarts one before the end of the parameters.
RestartBefore ==
    /\ phase = "first"
    /\ Len(body) > Len(built) /\ ~InBlock
    /\ phase' = "second"
    /\ local_ctr' = after_params - 1
    /\ UNCHANGED <<globalVars, body, names, built, after_params, before>>
\* "restart the local_ctr; the second pass should number everything exactly the
\* same though"
EndFirstPass ==
    /\ phase = "first"
    /\ Len(body) > Len(built) /\ ~InBlock
    /\ phase' = "second"
    /\ local_ctr' = after_params
    /\ UNCHANGED <<globalVars, body, names, built, after_params, before>>

\* BasicBlock::from_llvm_ref: labels, instructions and terminators in order.
SecondPass ==
    /\ phase = "second"
    /\ Len(built) < Len(body)
    /\ LET i == body[Len(built) + 1] IN
          /\ built' = Append(built, SecondName(i, local_ctr))
          /\ local_ctr' = local_ctr + SecondAdvance(i)
    /\ UNCHANGED <<phase, globalVars, body, names, after_params, before>>

EndBody ==
    /\ phase = "second"
    /\ Len(built) = Len(body)
    /\ EndFunction

Next ==
    \/ \E g \in Globals : NameGlobal(g)
    \/ ResetGlobals
    \/ BeginFunction
    \/ ReadGlobal
    \/ FinishModule
    \/ \E i \in Items : ReadParam(i) \/ FirstPass(i)
    \/ EndDeclaration
    \/ EndParams
    \/ EndFirstPass
    \/ SecondPass
    \/ EndBody

Spec == Init /\ [][Next]_vars

-----------------------------------------------------------------------------
(* Properties.                                                             *)

\* The two passes over a function give every block, instruction and terminator
\* the same name: the debug_assert_eq of BasicBlock::from_llvm_ref never fires,
\* and an operand's name is the dest of the instruction that defines it.
PassesAgree == \A i \in DOMAIN built : built[i] = names[i]

\* No two objects of a function get the same name, so a name denotes at most one
\* definition: the analyzer's maps are keyed by these names.
NamesUnique ==
    \A i, j \in DOMAIN names :
        names[i] # NoName /\ names[i] = names[j] => i = j

\* Whatever can be an operand or a branch target has a name in val_names or
\* bb_names: the lookups of the second pass, which panic otherwise, succeed.
OperandsNamed == \A i \in DOMAIN names : ~body[i].void => names[i] # NoName

\* In a module whose functions all have names, as those of C have, a reference to a
\* global carries the name the global has in the AST.
NamedPassesAgree ==
    (\A k \in DOMAIN globals : globals[k].kind \in FunctionKinds => globals[k].str # Unnamed) =>
        \A i \in DOMAIN global_built : global_built[i] = global_names[i]

\* "The second pass should number everything exactly the same": every variable, alias
\* and ifunc has in the AST the name that references to it carry.
GlobalPassesAgree ==
    \A i \in DOMAIN global_built :
        globals[i].kind \notin FunctionKinds => global_built[i] = global_names[i]
=============================================================================
