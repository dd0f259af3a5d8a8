--------------------------- MODULE IrReaderProofs ---------------------------
(***************************************************************************)
(* Proofs about the IR reader.  IrNames: the two passes of the reader      *)
(* agree, and names are unique, for functions of any length and programs   *)
(* with any names.  IrOperands: every field holds the operands it is named *)
(* for, for any operands.  IrDataLayout: the alignments are those the data *)
(* layout string says, for any string.                                     *)
(***************************************************************************)
EXTENDS IrNames, IrDataLayout, IrOperands, WellFoundedInduction, TLAPS

-----------------------------------------------------------------------------
(* Names.                                                                  *)


\* The counter behaves: each object the first pass numbers moves it on, and the
\* second pass finds it, before each object, where the first pass had it.
CounterInv ==
    /\ \A i, j \in DOMAIN body : i < j => before[i] + FirstAdvance(body[i]) <= before[j]
    /\ \A i \in DOMAIN body : i + 1 \in DOMAIN body =>
          before[i + 1] = before[i] + FirstAdvance(body[i])
    /\ phase \in {"params", "first"} =>
          /\ \A i \in DOMAIN body : before[i] + FirstAdvance(body[i]) <= local_ctr
          /\ Len(body) > 0 =>
                local_ctr = before[Len(body)] + FirstAdvance(body[Len(body)])
    /\ phase = "first" =>
          after_params = IF Len(body) > Len(built) THEN before[Len(built) + 1]
                                                   ELSE local_ctr
    /\ phase = "second" /\ Len(built) < Len(body) => local_ctr = before[Len(built) + 1]

LengthInv ==
    /\ Len(names) = Len(body) /\ Len(before) = Len(body) /\ Len(built) <= Len(body)
    /\ phase = "params" => Len(built) = Len(body)
    /\ phase \in {"params", "first", "second"} => Current <= Len(globals)

StringsUnique ==
    \A i, j \in DOMAIN body : body[i].str # Unnamed /\ body[i].str = body[j].str => i = j

\* The inductive invariant: what the first pass gave every object is determined
\* by the object and by the counter it found.
IInv ==
    /\ TypeOK
    /\ LengthInv
    /\ CounterInv
    /\ StringsUnique
    /\ \A i \in DOMAIN body : names[i] = FirstName(body[i], before[i])
    /\ PassesAgree

-----------------------------------------------------------------------------
(* Objects and names.                                                      *)

\* What LLVM guarantees of an object: which opcodes are void, and that void objects
\* have no string name.
LEMMA ItemFields ==
    ASSUME NEW i \in Items
    PROVE  /\ i.op \in {"Param", "Block"} \cup InstOps \cup TermOps
           /\ i.str \in Strings \cup {Unnamed}
           /\ i.void \in BOOLEAN
           /\ i.op \in VoidOps => i.void
           /\ i.op \notin VoidOps \cup CalleeTyped => ~i.void
           /\ i.void => i.str = Unnamed
BY DEF Items

\* needs_name and term_needs_name hold for exactly the objects that get a dest or
\* result field in the AST.
LEMMA SameNumbered ==
    ASSUME NEW i \in Items
    PROVE  NeedsName(i) <=> HasResult(i)
<1>1. CASE i.str = Unnamed
  BY <1>1 DEF NeedsName, HasResult
<1>2. CASE i.str # Unnamed
  <2>1. ~i.void /\ i.op \notin VoidOps
    BY <1>2, ItemFields
  <2>2. i.op \in {"Param", "Block"} \cup InstOps \cup TermOps
    BY ItemFields
  <2>3. CASE i.op \in TermOps
    BY <2>1, <2>3 DEF VoidOps, HasResult, NeedsName, TermOps
  <2>4. CASE i.op \in InstOps
    <3>1. i.op \notin {"Store", "Fence"}
      BY <2>1 DEF VoidOps
    <3> QED  BY <1>2, <2>1, <2>4, <3>1 DEF HasResult, NeedsName
  <2>5. CASE i.op \in {"Param", "Block"}
    BY <1>2, <2>5 DEF HasResult, NeedsName
  <2> QED  BY <2>2, <2>3, <2>4, <2>5
<1> QED  BY <1>1, <1>2

\* Started from the same counter, the two passes give an object the same name and
\* count on alike.
LEMMA SameName ==
    ASSUME NEW i \in Items, NEW c \in Nat
    PROVE  /\ FirstName(i, c) = SecondName(i, c)
           /\ FirstAdvance(i) = SecondAdvance(i)
BY SameNumbered DEF FirstName, SecondName, FirstAdvance, SecondAdvance

\* Equal names come from equal strings and, for numbered objects, equal counters.
LEMMA NameInjective ==
    \A s, c, t, d : NameOrNum(s, c) = NameOrNum(t, d) => s = t /\ (s = Unnamed => c = d)
<1> SUFFICES ASSUME NEW s, NEW c, NEW t, NEW d, NameOrNum(s, c) = NameOrNum(t, d)
             PROVE  s = t /\ (s = Unnamed => c = d)
  OBVIOUS
<1>1. NameOrNum(s, c).str = s /\ NameOrNum(t, d).str = t
  BY Zenon DEF NameOrNum
<1>2. s = t
  BY <1>1
<1>3. ASSUME s = Unnamed
      PROVE  c = d
  <2>1. NameOrNum(s, c) = [str |-> s, num |-> c] /\ NameOrNum(t, d) = [str |-> t, num |-> d]
    BY <1>2, <1>3, Zenon DEF NameOrNum
  <2>2. [str |-> s, num |-> c].num = c /\ [str |-> t, num |-> d].num = d
    BY Zenon
  <2> QED  BY <2>1, <2>2, Zenon
<1> QED  BY <1>2, <1>3

\* An object takes one number or none.
LEMMA AdvanceType ==
    /\ \A s : Advance(s) \in {0, 1}
    /\ \A i : FirstAdvance(i) \in {0, 1} /\ SecondAdvance(i) \in {0, 1}
BY DEF Advance, FirstAdvance, SecondAdvance

\* Naming never takes the counter back.
LEMMA AdvanceNat ==
    \A s : Advance(s) \in Nat
BY DEF Advance

\* name_or_num and both passes make names.
LEMMA NameType ==
    ASSUME NEW i \in Items, NEW c \in Nat
    PROVE  /\ NameOrNum(i.str, c) \in Names
           /\ FirstName(i, c) \in Names
           /\ SecondName(i, c) \in Names
BY ItemFields DEF NameOrNum, FirstName, SecondName, NoName, Names

\* What can be an operand or a branch target is numbered.
LEMMA NotVoidNamed ==
    ASSUME NEW i \in Items, ~i.void
    PROVE  NeedsName(i)
<1>1. i.op \notin VoidOps /\ i.op \in {"Param", "Block"} \cup InstOps \cup TermOps
  BY ItemFields
<1>2. CASE i.op \in TermOps
  BY <1>1, <1>2 DEF VoidOps, NeedsName, TermOps
<1>3. CASE i.op \in InstOps
  BY <1>1, <1>3 DEF VoidOps, NeedsName
<1> QED  BY <1>1, <1>2, <1>3 DEF NeedsName

-----------------------------------------------------------------------------
(* The invariant implies the properties.                                   *)

\* Names that are determined by increasing counters and distinct strings are unique.
LEMMA UniqueFromCounter == IInv => NamesUnique
<1> SUFFICES ASSUME IInv,
                    NEW i \in DOMAIN names, NEW j \in DOMAIN names,
                    names[i] # NoName, names[i] = names[j], i < j
             PROVE  FALSE
  <2>1. \A k \in DOMAIN names : k \in Nat
    BY DEF IInv, TypeOK
  <2> QED  BY <2>1 DEF NamesUnique, IInv, TypeOK
<1>1. i \in DOMAIN body /\ j \in DOMAIN body
  BY DEF IInv, LengthInv, TypeOK
<1>2. /\ names[i] = FirstName(body[i], before[i])
      /\ names[j] = FirstName(body[j], before[j])
      /\ before[i] + FirstAdvance(body[i]) <= before[j]
  BY <1>1 DEF IInv, CounterInv
<1>3. before[i] \in Nat /\ before[j] \in Nat
  BY <1>1 DEF IInv, TypeOK, LengthInv
<1>4. NeedsName(body[i]) /\ NeedsName(body[j])
  BY <1>2, Zenon DEF FirstName
<1>9. /\ names[i] = NameOrNum(body[i].str, before[i])
      /\ names[j] = NameOrNum(body[j].str, before[j])
  BY <1>2, <1>4, Zenon DEF FirstName
<1>10. NameOrNum(body[i].str, before[i]) = NameOrNum(body[j].str, before[j])
  BY <1>9, Zenon
<1>5. body[i].str = body[j].str
  BY <1>10, NameInjective
<1>6. body[i].str = Unnamed
  BY <1>1, <1>5 DEF IInv, StringsUnique, TypeOK
<1>7. before[i] = before[j]
  BY <1>10, <1>6, NameInjective
<1>8. FirstAdvance(body[i]) = 1
  BY <1>4, <1>6 DEF FirstAdvance, Advance
<1> QED  BY <1>2, <1>3, <1>7, <1>8

\* What can be an operand was numbered by the first pass, so it has a name.
LEMMA NamedFromInvariant == IInv => OperandsNamed
<1> SUFFICES ASSUME IInv, NEW i \in DOMAIN names, ~body[i].void
             PROVE  names[i] # NoName
  BY DEF OperandsNamed
<1>1. i \in DOMAIN body /\ body[i] \in Items /\ before[i] \in Nat
  BY DEF IInv, LengthInv, TypeOK
<1>2. names[i] = NameOrNum(body[i].str, before[i])
  BY <1>1, NotVoidNamed DEF IInv, FirstName
<1> QED  BY <1>1, <1>2 DEF NameOrNum, NoName

-----------------------------------------------------------------------------
(* The invariant is inductive.                                             *)

\* What a sequence is after an Append.
LEMMA AppendFacts ==
    ASSUME NEW S, NEW s \in Seq(S), NEW e \in S
    PROVE  /\ Append(s, e) \in Seq(S) /\ Len(Append(s, e)) = Len(s) + 1
           /\ DOMAIN s = 1..Len(s) /\ Len(s) \in Nat
           /\ DOMAIN Append(s, e) = 1..Len(s) + 1
           /\ \A k \in 1..Len(s) : Append(s, e)[k] = s[k]
           /\ Append(s, e)[Len(s) + 1] = e
OBVIOUS

\* What the first pass and the reading of parameters do alike: they append an
\* object, its name and the counter it found.
LEMMA AppendObject ==
    ASSUME IInv, phase \in {"params", "first"}, phase' = phase,
           NEW i \in Items, FreshString(i),
           body' = Append(body, i),
           names' = Append(names, FirstName(i, local_ctr)),
           before' = Append(before, local_ctr),
           local_ctr' = local_ctr + FirstAdvance(i)
    PROVE  /\ body' \in Seq(Items) /\ names' \in Seq(Names) /\ before' \in Seq(Nat)
           /\ local_ctr' \in Nat
           /\ Len(body') = Len(body) + 1 /\ Len(names') = Len(body') /\ Len(before') = Len(body')
           /\ \A k \in DOMAIN body : body'[k] = body[k] /\ before'[k] = before[k] /\ names'[k] = names[k]
           /\ before'[Len(body')] = local_ctr
           /\ \A j, k \in DOMAIN body' : j < k => before'[j] + FirstAdvance(body'[j]) <= before'[k]
           /\ \A k \in DOMAIN body' : k + 1 \in DOMAIN body' =>
                 before'[k + 1] = before'[k] + FirstAdvance(body'[k])
           /\ \A k \in DOMAIN body' : before'[k] + FirstAdvance(body'[k]) <= local_ctr'
           /\ local_ctr' = before'[Len(body')] + FirstAdvance(body'[Len(body')])
           /\ StringsUnique'
           /\ \A k \in DOMAIN body' : names'[k] = FirstName(body'[k], before'[k])
<1> USE DEF IInv, LengthInv
<1>1. /\ body \in Seq(Items) /\ names \in Seq(Names) /\ before \in Seq(Nat) /\ local_ctr \in Nat
      /\ Len(names) = Len(body) /\ Len(before) = Len(body)
  BY DEF TypeOK
<1>2. FirstName(i, local_ctr) \in Names /\ FirstAdvance(i) \in {0, 1}
  BY <1>1, NameType, AdvanceType
<1>3. /\ body' \in Seq(Items) /\ names' \in Seq(Names) /\ before' \in Seq(Nat) /\ local_ctr' \in Nat
      /\ Len(body') = Len(body) + 1 /\ Len(names') = Len(body') /\ Len(before') = Len(body')
  <2>1. body' \in Seq(Items) /\ Len(body') = Len(body) + 1
    BY <1>1, AppendFacts
  <2>2. names' \in Seq(Names) /\ Len(names') = Len(names) + 1
    BY <1>1, <1>2, AppendFacts
  <2>3. before' \in Seq(Nat) /\ Len(before') = Len(before) + 1
    BY <1>1, AppendFacts
  <2>4. local_ctr' \in Nat
    BY ONLY <1>1, <1>2, local_ctr' = local_ctr + FirstAdvance(i)
  <2> QED  BY <1>1, <2>1, <2>2, <2>3, <2>4
<1>4. /\ DOMAIN body = 1..Len(body) /\ DOMAIN body' = 1..Len(body)+1 /\ Len(body) \in Nat
      /\ \A k \in 1..Len(body) : body'[k] = body[k] /\ before'[k] = before[k] /\ names'[k] = names[k]
      /\ body'[Len(body) + 1] = i /\ before'[Len(body) + 1] = local_ctr
      /\ names'[Len(body) + 1] = FirstName(i, local_ctr)
  <2>1. /\ DOMAIN body = 1..Len(body) /\ DOMAIN body' = 1..Len(body)+1 /\ Len(body) \in Nat
        /\ \A k \in 1..Len(body) : body'[k] = body[k]
        /\ body'[Len(body) + 1] = i
    BY <1>1, AppendFacts
  <2>2. (\A k \in 1..Len(body) : before'[k] = before[k]) /\ before'[Len(body) + 1] = local_ctr
    BY <1>1, AppendFacts
  <2>3. /\ \A k \in 1..Len(body) : names'[k] = names[k]
        /\ names'[Len(body) + 1] = FirstName(i, local_ctr)
    BY <1>1, <1>2, AppendFacts
  <2> QED  BY <2>1, <2>2, <2>3
<1>5. \A k \in 1..Len(body) : before[k] \in Nat /\ FirstAdvance(body[k]) \in {0, 1}
  BY <1>1, AdvanceType, SMTT(30)
<1>6. /\ \A k \in 1..Len(body) : before[k] + FirstAdvance(body[k]) <= local_ctr
      /\ Len(body) > 0 => local_ctr = before[Len(body)] + FirstAdvance(body[Len(body)])
  BY <1>4 DEF CounterInv
<1>7. \A j, k \in DOMAIN body' : j < k => before'[j] + FirstAdvance(body'[j]) <= before'[k]
  BY <1>4, <1>6 DEF CounterInv
<1>8. ASSUME NEW k \in DOMAIN body', k + 1 \in DOMAIN body'
      PROVE  before'[k + 1] = before'[k] + FirstAdvance(body'[k])
  <2>1. CASE k = Len(body)
    BY <2>1, <1>4, <1>6
  <2>2. CASE k # Len(body)
    <3>1. k \in DOMAIN body /\ k + 1 \in DOMAIN body
      BY <2>2, <1>8, <1>4
    <3> QED  BY <3>1, <1>4 DEF CounterInv
  <2> QED  BY <2>1, <2>2, Zenon
<1>9. \A k \in DOMAIN body' : before'[k] + FirstAdvance(body'[k]) <= local_ctr'
  <2> SUFFICES ASSUME NEW k \in DOMAIN body'
               PROVE  before'[k] + FirstAdvance(body'[k]) <= local_ctr'
    OBVIOUS
  <2>1. CASE k = Len(body) + 1
    BY <2>1, <1>1, <1>2, <1>4
  <2>2. CASE k \in 1..Len(body)
    <3> HIDE DEF IInv, LengthInv
    <3>1. before[k] \in Nat /\ FirstAdvance(body[k]) \in {0, 1}
      BY <2>2, <1>5
    <3>2. FirstAdvance(body[k]) \in Nat
      BY <3>1
    <3>3. before[k] + FirstAdvance(body[k]) <= local_ctr
      BY <2>2, <1>6
    <3>4. before[k] + FirstAdvance(body[k]) \in Nat
      BY <3>1, <3>2
    <3>5. local_ctr <= local_ctr'
      BY <1>1, <1>2
    <3>6. before'[k] = before[k] /\ body'[k] = body[k]
      BY <2>2, <1>4, Zenon
    <3> QED  BY <3>3, <3>4, <3>5, <3>6, <1>1, <1>3
  <2> QED  BY <2>1, <2>2, <1>4
<1>10. local_ctr' = before'[Len(body')] + FirstAdvance(body'[Len(body')])
  BY <1>3, <1>4
<1>11. StringsUnique'
  BY <1>4 DEF StringsUnique, FreshString
<1>12. \A k \in DOMAIN body' : names'[k] = FirstName(body'[k], before'[k])
  BY <1>4
<1> QED  BY <1>3, <1>4, <1>7, <1>8, <1>9, <1>10, <1>11, <1>12, Zenon

\* Before anything is read the invariant holds.
LEMMA InitInv == Init => IInv
BY DEF Init, IInv, TypeOK, LengthInv, CounterInv, StringsUnique, PassesAgree, Current

\* The names of a global, as a function and by number, are names.
LEMMA GlobalFields ==
    ASSUME NEW g \in Globals
    PROVE  g.str \in Strings \cup {Unnamed} /\ FunctionName(g.str) \in Names
           /\ \A c \in Nat : NameOrNum(g.str, c) \in Names
BY DEF Globals, FunctionName, NameOrNum, Names

\* Steps that leave the function being read alone.
LEMMA LocalsUnchanged ==
    ASSUME IInv, UNCHANGED localVars, TypeOK',
           phase' = phase \/ phase' \notin {"params", "first", "second"},
           phase' = phase => Len(globals) <= Len(globals') /\ Current' = Current
    PROVE  IInv'
<1> USE DEF localVars
<1>1. LengthInv'
  BY SMTT(30) DEF IInv, LengthInv, Current, TypeOK
<1>2. CounterInv'
  BY DEF IInv, CounterInv
<1> QED  BY <1>1, <1>2 DEF IInv, StringsUnique, PassesAgree

\* Every step of both passes keeps the invariant.
LEMMA NextInv == IInv /\ [Next]_vars => IInv'
<1> SUFFICES ASSUME IInv, [Next]_vars
             PROVE  IInv'
  OBVIOUS
<1> USE DEF globalVars, localVars
<1>0. TypeOK /\ LengthInv
  BY DEF IInv
<1>1. CASE \E g \in Globals : NameGlobal(g)
  <2> PICK g \in Globals : NameGlobal(g)
    BY <1>1
  <2>1. TypeOK'
    <3>1. NameOrNum(g.str, global_ctr) \in Names /\ global_ctr + Advance(g.str) \in Nat
      BY <1>0, GlobalFields, AdvanceNat DEF TypeOK
    <3> QED  BY <1>0, <3>1, AppendFacts DEF NameGlobal, TypeOK
  <2>2. Len(globals) <= Len(globals') /\ Current' = Current
    BY <1>0 DEF NameGlobal, TypeOK, Current
  <2> QED  BY <2>1, <2>2, LocalsUnchanged DEF NameGlobal
<1>2. CASE ResetGlobals
  <2>1. TypeOK'
    BY <1>0, <1>2 DEF ResetGlobals, TypeOK
  <2> QED  BY <1>2, <2>1, LocalsUnchanged DEF ResetGlobals
<1>3. CASE BeginFunction
  <2>1. TypeOK'
    BY <1>0, <1>3 DEF BeginFunction, TypeOK
  <2> QED  BY <1>0, <1>3, <2>1
           DEF BeginFunction, IInv, LengthInv, CounterInv, StringsUnique, PassesAgree, Current
<1>4. CASE ReadGlobal
  <2>1. globals[Current] \in Globals
    BY <1>0, <1>4 DEF ReadGlobal, TypeOK, Current
  <2>2. TypeOK'
    <3>1. /\ NameOrNum(globals[Current].str, global_ctr) \in Names
          /\ global_ctr + Advance(globals[Current].str) \in Nat
      BY <1>0, <2>1, GlobalFields, AdvanceNat DEF TypeOK
    <3> QED  BY <1>0, <1>4, <3>1, AppendFacts DEF ReadGlobal, TypeOK
  <2>3. IInv'
    BY <1>4, <2>2 DEF ReadGlobal, IInv, LengthInv, CounterInv, StringsUnique, PassesAgree
  <2> QED  BY <2>3
<1>5. CASE FinishModule
  <2>1. TypeOK'
    BY <1>0, <1>5 DEF FinishModule, TypeOK
  <2> QED  BY <1>5, <2>1, LocalsUnchanged DEF FinishModule
<1>6. ASSUME NEW i \in Items, ReadParam(i)
      PROVE  IInv'
  <2>1. FirstName(i, local_ctr) = NameOrNum(i.str, local_ctr) /\ FirstAdvance(i) = Advance(i.str)
    BY <1>6 DEF ReadParam, FirstName, FirstAdvance, NeedsName
  <2>2. FirstName(i, local_ctr) \in Names
    BY <1>0, NameType DEF TypeOK
  <2>3. built' \in Seq(Names) /\ Len(built') = Len(built) + 1 /\ Len(built') = Len(body')
        /\ \A k \in DOMAIN built' : built'[k] = names'[k]
    <3>1. built' = Append(built, FirstName(i, local_ctr)) /\ built \in Seq(Names)
      BY <1>6, <2>1, <1>0 DEF ReadParam, TypeOK
    <3>2. names' = Append(names, FirstName(i, local_ctr)) /\ names \in Seq(Names)
      BY <1>6, <2>1, <1>0 DEF ReadParam, TypeOK
    <3>3. Len(built) = Len(names) /\ \A k \in 1..Len(built) : built[k] = names[k]
      BY <1>0, <1>6, <3>1 DEF ReadParam, LengthInv, IInv, PassesAgree
    <3>4. Len(body') = Len(built) + 1
      BY <1>0, <1>6, AppendFacts DEF ReadParam, LengthInv, TypeOK
    <3>5. /\ built' \in Seq(Names) /\ Len(built') = Len(built) + 1
          /\ DOMAIN built' = 1..Len(built) + 1
          /\ \A k \in 1..Len(built) : built'[k] = built[k]
          /\ built'[Len(built) + 1] = FirstName(i, local_ctr)
      BY <2>2, <3>1, AppendFacts
    <3>6. /\ \A k \in 1..Len(names) : names'[k] = names[k]
          /\ names'[Len(names) + 1] = FirstName(i, local_ctr)
      BY <2>2, <3>2, AppendFacts
    <3>7. Len(built) \in Nat
      BY <3>1
    <3> QED  BY <3>3, <3>4, <3>5, <3>6, <3>7
  <2>4. /\ phase \in {"params", "first"} /\ phase' = phase /\ FreshString(i)
        /\ body' = Append(body, i)
        /\ names' = Append(names, FirstName(i, local_ctr))
        /\ before' = Append(before, local_ctr)
        /\ local_ctr' = local_ctr + FirstAdvance(i)
    BY <1>6, <2>1 DEF ReadParam
  <2>5. TypeOK'
    BY <1>0, <1>6, <2>3, <2>4, AppendObject, Zenon DEF ReadParam, TypeOK
  <2>6. LengthInv'
    BY <1>0, <1>6, <2>3, <2>4, AppendObject DEF ReadParam, LengthInv, Current
  <2>7. CounterInv'
    BY <1>6, <2>4, AppendObject, Zenon DEF ReadParam, CounterInv
  <2>8. StringsUnique' /\ \A k \in DOMAIN body' : names'[k] = FirstName(body'[k], before'[k])
    BY <2>4, AppendObject
  <2> QED  BY <2>3, <2>5, <2>6, <2>7, <2>8 DEF IInv, PassesAgree
<1>7. ASSUME NEW i \in Items, FirstPass(i)
      PROVE  IInv'
  <2>1. /\ phase \in {"params", "first"} /\ phase' = phase /\ FreshString(i)
        /\ body' = Append(body, i)
        /\ names' = Append(names, FirstName(i, local_ctr))
        /\ before' = Append(before, local_ctr)
        /\ local_ctr' = local_ctr + FirstAdvance(i)
    BY <1>7 DEF FirstPass
  <2>2. TypeOK'
    BY <1>0, <1>7, <2>1, AppendObject, Zenon DEF FirstPass, TypeOK
  <2>3. LengthInv'
    BY <1>0, <1>7, <2>1, AppendObject, SMTT(30) DEF FirstPass, LengthInv, Current, TypeOK
  <2>4. CounterInv'
    <3>1. after_params = IF Len(body) > Len(built) THEN before[Len(built) + 1] ELSE local_ctr
      BY <1>7 DEF FirstPass, IInv, CounterInv
    <3>2. Len(built) \in Nat /\ Len(body) \in Nat /\ Len(built) <= Len(body) /\ DOMAIN body = 1..Len(body)
      BY <1>0 DEF TypeOK, LengthInv
    <3>3. /\ Len(body') = Len(body) + 1 /\ before'[Len(body) + 1] = local_ctr
          /\ \A k \in DOMAIN body : before'[k] = before[k]
      BY <2>1, AppendObject
    <3>4. after_params' = before'[Len(built') + 1] /\ Len(body') > Len(built')
      <4>1. built' = built /\ after_params' = after_params
        BY <1>7 DEF FirstPass
      <4>2. CASE Len(body) = Len(built)
        BY <3>1, <3>2, <3>3, <4>1, <4>2
      <4>3. CASE Len(body) > Len(built)
        BY <3>1, <3>2, <3>3, <4>1, <4>3
      <4> QED  BY <3>2, <4>2, <4>3
    <3> QED  BY <1>7, <2>1, <3>4, AppendObject, Zenon DEF FirstPass, CounterInv
  <2>5. StringsUnique' /\ \A k \in DOMAIN body' : names'[k] = FirstName(body'[k], before'[k])
    BY <2>1, AppendObject
  <2>6. PassesAgree'
    <3>1. built' = built /\ Len(built) <= Len(body) /\ PassesAgree
      BY <1>0, <1>7, Zenon DEF FirstPass, IInv, LengthInv
    <3>2. DOMAIN built = 1..Len(built) /\ DOMAIN body = 1..Len(body)
          /\ Len(built) \in Nat /\ Len(body) \in Nat
      BY <1>0 DEF TypeOK
    <3>3. DOMAIN built \subseteq DOMAIN body
      BY ONLY <3>1, <3>2
    <3>4. \A k \in DOMAIN body : names'[k] = names[k]
      BY <2>1, AppendObject, Zenon
    <3> QED  BY ONLY <3>1, <3>3, <3>4, Zenon DEF PassesAgree
  <2> QED  BY <2>2, <2>3, <2>4, <2>5, <2>6 DEF IInv
<1>8. ASSUME EndFunction, phase \in {"params", "first", "second"}
      PROVE  IInv'
  <2>1. globals[Current] \in Globals
    BY <1>0, <1>8 DEF LengthInv, TypeOK, Current
  <2>2. TypeOK'
    BY <1>0, <1>8, <2>1, GlobalFields, AppendFacts DEF EndFunction, TypeOK
  <2> QED  BY <1>8, <2>2, LocalsUnchanged DEF EndFunction
<1>9. CASE EndDeclaration
  BY <1>8, <1>9 DEF EndDeclaration
<1>10. CASE EndParams
  <2>1. TypeOK'
    BY <1>0, <1>10 DEF EndParams, TypeOK
  <2>2. LengthInv'
    BY <1>0, <1>10 DEF EndParams, LengthInv, Current
  <2>3. CounterInv'
    BY <1>0, <1>10 DEF EndParams, CounterInv, IInv, LengthInv, TypeOK
  <2> QED  BY <1>10, <2>1, <2>2, <2>3 DEF EndParams, IInv, StringsUnique, PassesAgree
<1>11. CASE EndFirstPass
  <2>1. TypeOK'
    BY <1>0, <1>11 DEF EndFirstPass, TypeOK
  <2>2. LengthInv'
    BY <1>0, <1>11 DEF EndFirstPass, LengthInv, Current
  <2>3. CounterInv'
    BY <1>0, <1>11 DEF EndFirstPass, CounterInv, IInv
  <2> QED  BY <1>11, <2>1, <2>2, <2>3 DEF EndFirstPass, IInv, StringsUnique, PassesAgree
<1>12. CASE SecondPass
  <2> DEFINE k == Len(built) + 1
  <2>1. k \in DOMAIN body /\ body[k] \in Items /\ before[k] \in Nat /\ local_ctr = before[k]
    <3>1. k \in DOMAIN body
      BY <1>0, <1>12 DEF SecondPass, TypeOK
    <3>2. local_ctr = before[k]
      BY <1>12, Zenon DEF SecondPass, IInv, CounterInv
    <3> QED  BY <1>0, <3>1, <3>2 DEF TypeOK, LengthInv
  <2>2. names[k] = SecondName(body[k], local_ctr) /\ SecondName(body[k], local_ctr) \in Names
    BY <2>1, SameName, NameType DEF IInv
  <2>3. SecondAdvance(body[k]) = FirstAdvance(body[k]) /\ FirstAdvance(body[k]) \in {0, 1}
    BY <2>1, SameName, AdvanceType
  <2>4. /\ built' = Append(built, SecondName(body[k], local_ctr))
        /\ local_ctr' = local_ctr + FirstAdvance(body[k])
        /\ UNCHANGED <<phase, globalVars, body, names, after_params, before>>
        /\ phase = "second" /\ Len(built) < Len(body)
    BY <1>12, <2>3 DEF SecondPass
  <2> HIDE DEF k
  <2>5. built \in Seq(Names) /\ k = Len(built) + 1 /\ Len(built) \in Nat
    BY <1>0, SMTT(30) DEF TypeOK, k
  <2>6. /\ built' \in Seq(Names) /\ Len(built') = k /\ DOMAIN built' = 1..k
        /\ \A j \in 1..Len(built) : built'[j] = built[j]
        /\ built'[k] = names[k]
    BY <2>2, <2>4, <2>5, AppendFacts, SMTT(30)
  <2>7. TypeOK'
    <3>1. local_ctr' \in Nat
      BY ONLY <2>1, <2>3, <2>4
    <3> QED  BY <1>0, <2>4, <2>6, <3>1, Zenon DEF TypeOK, globalVars
  <2>8. LengthInv'
    BY <1>0, <2>4, <2>5, <2>6 DEF LengthInv, Current, TypeOK
  <2>9. CounterInv'
    <3>1. ASSUME Len(built') < Len(body')
          PROVE  local_ctr' = before'[Len(built') + 1]
      <4>1. k + 1 \in DOMAIN body
        BY <1>0, <2>4, <2>5, <2>6, <3>1 DEF TypeOK
      <4>2. before[k + 1] = before[k] + FirstAdvance(body[k])
        BY <2>1, <4>1 DEF IInv, CounterInv
      <4> QED  BY <2>1, <2>4, <2>6, <4>2
    <3> QED  BY <2>4, <3>1, Zenon DEF IInv, CounterInv
  <2>10. PassesAgree'
    BY <2>4, <2>5, <2>6 DEF IInv, PassesAgree
  <2> QED  BY <2>4, <2>7, <2>8, <2>9, <2>10 DEF IInv, StringsUnique
<1>13. CASE EndBody
  BY <1>8, <1>13, Zenon DEF EndBody
<1>14. CASE UNCHANGED vars
  BY <1>14 DEF vars, IInv, TypeOK, LengthInv, CounterInv, StringsUnique, PassesAgree, Current
<1> QED  BY <1>1, <1>2, <1>3, <1>4, <1>5, <1>6, <1>7, <1>9, <1>10, <1>11, <1>12, <1>13, <1>14 DEF Next

-----------------------------------------------------------------------------
(* The globals of the module.                                              *)

UnnamedFunction(i) == globals[i].kind \in FunctionKinds /\ globals[i].str = Unnamed

\* count[i] is the counter that the first pass had at globals[i]: its names follow
\* from that, and the second pass is behind it once it has read a function that the
\* first pass numbered.
Counted(count) ==
    /\ Len(count) = Len(globals) + 1 /\ count[1] = 0
    /\ \A i \in 1..Len(globals) :
          /\ global_names[i] = NameOrNum(globals[i].str, count[i])
          /\ count[i + 1] = count[i] + Advance(globals[i].str)
    /\ phase = "name_globals" =>
          global_built = <<>> /\ global_ctr = count[Len(globals) + 1]
    /\ phase # "name_globals" =>
          /\ (\A i \in 1..Len(global_built) : ~UnnamedFunction(i)) => global_ctr = count[Current]
          /\ (\E i \in 1..Len(global_built) : UnnamedFunction(i)) => global_ctr < count[Current]

\* The two passes name a global alike exactly when it has a string or, for variables,
\* aliases and ifuncs, when no function of the module is unnamed: unnamed functions
\* take numbers in the first pass and none in the second.
GlobalsAgreeExactly ==
    \A i \in DOMAIN global_built :
        global_built[i] = global_names[i] <=>
            \/ globals[i].str # Unnamed
            \/ /\ globals[i].kind \notin FunctionKinds
               /\ \A k \in DOMAIN globals :
                     globals[k].kind \in FunctionKinds => globals[k].str # Unnamed

\* The inductive invariant of the passes over the globals: the first pass takes the
\* functions before everything else, and its counter can be reconstructed.
GlobalInv ==
    /\ Len(global_names) = Len(globals) /\ Len(global_built) <= Len(globals)
    /\ \A i, j \in 1..Len(globals) :
          i < j /\ globals[j].kind \in FunctionKinds => globals[i].kind \in FunctionKinds
    /\ phase \in {"params", "first", "second"} => globals[Current].kind \in FunctionKinds
    /\ \E count \in Seq(Nat) : Counted(count)
    /\ GlobalsAgreeExactly

\* What the first pass appends comes after the functions, unless it is one.
LEMMA FunctionsFirst ==
    ASSUME NEW g \in Globals, NEW h \in Globals, Rank(g.kind) <= Rank(h.kind),
           h.kind \in FunctionKinds
    PROVE  g.kind \in FunctionKinds
BY DEF Globals, GlobalKinds, FunctionKinds, Rank

\* Nothing is read at first.
LEMMA InitGlobalInv == Init => GlobalInv
<1> SUFFICES ASSUME Init
             PROVE  GlobalInv
  OBVIOUS
<1> DEFINE zero == <<0>>
<1>1. zero \in Seq(Nat) /\ Counted(zero)
  BY DEF Init, Counted
<1> HIDE DEF zero
<1>2. \E count \in Seq(Nat) : Counted(count)
  BY <1>1
<1> QED  BY <1>2 DEF Init, GlobalInv, GlobalsAgreeExactly

\* The first pass over the globals keeps the invariant.
LEMMA NameGlobalInv ==
    ASSUME IInv, GlobalInv, NEW g \in Globals, NameGlobal(g)
    PROVE  GlobalInv'
<1> DEFINE n == Len(globals)
<1>1. /\ globals \in Seq(Globals) /\ global_names \in Seq(Names) /\ global_ctr \in Nat
      /\ n \in Nat /\ Len(global_names) = n
  BY DEF IInv, TypeOK, GlobalInv
<1>2. /\ Len(globals') = n + 1 /\ globals'[n + 1] = g
      /\ \A i \in 1..n : globals'[i] = globals[i]
  BY <1>1, AppendFacts DEF NameGlobal
<1>3. /\ Len(global_names') = n + 1
      /\ global_names'[n + 1] = NameOrNum(g.str, global_ctr)
      /\ \A i \in 1..n : global_names'[i] = global_names[i]
  <2>1. NameOrNum(g.str, global_ctr) \in Names
    BY <1>1, GlobalFields
  <2> QED  BY <1>1, <2>1, AppendFacts DEF NameGlobal
<1> PICK count \in Seq(Nat) : Counted(count)
  BY DEF GlobalInv
<1>4. phase = "name_globals" /\ phase' = phase /\ global_built' = global_built
      /\ global_built = <<>> /\ global_ctr = count[n + 1]
      /\ global_ctr' = global_ctr + Advance(g.str)
  BY DEF NameGlobal, Counted
<1> HIDE DEF n
<1>5. n \in Nat /\ global_ctr' \in Nat /\ Len(count) = n + 1 /\ count[1] = 0
  <2>1. n \in Nat /\ global_ctr' \in Nat
    BY ONLY <1>1, <1>4, AdvanceNat, SMTT(30)
  <2> QED  BY <2>1 DEF Counted, n
<1> PICK next \in Seq(Nat) :
      /\ Len(next) = n + 2 /\ next[n + 2] = global_ctr' /\ next[1] = 0
      /\ \A i \in 1..n + 1 : next[i] = count[i]
  <2> DEFINE s == Append(count, global_ctr')
  <2>1. /\ s \in Seq(Nat) /\ Len(s) = Len(count) + 1 /\ s[Len(count) + 1] = global_ctr'
        /\ \A i \in 1..Len(count) : s[i] = count[i]
    BY ONLY <1>5, count \in Seq(Nat), AppendFacts
  <2> HIDE DEF s
  <2>2. 1 \in 1..n + 1 /\ n + 1 + 1 = n + 2
    BY ONLY <1>5
  <2>3. Len(s) = n + 2 /\ s[n + 2] = global_ctr' /\ s[1] = 0 /\ \A i \in 1..n + 1 : s[i] = count[i]
    BY ONLY <1>5, <2>1, <2>2
  <2> QED  BY ONLY <2>1, <2>3, Zenon
<1>6. Counted(next)'
  <2>1. ASSUME NEW i \in 1..n + 1
        PROVE  /\ global_names'[i] = NameOrNum(globals'[i].str, next[i])
               /\ next[i + 1] = next[i] + Advance(globals'[i].str)
    <3>1. CASE i = n + 1
      <4>1. i + 1 = n + 2 /\ next[i] = count[n + 1]
        BY <1>5, <3>1
      <4> QED  BY <1>2, <1>3, <1>4, <3>1, <4>1, Zenon
    <3>2. CASE i \in 1..n
      <4>1. global_names[i] = NameOrNum(globals[i].str, count[i])
            /\ count[i + 1] = count[i] + Advance(globals[i].str)
        BY <3>2 DEF Counted, n
      <4>2. next[i + 1] = count[i + 1] /\ next[i] = count[i]
        BY <1>5, <3>2
      <4> QED  BY <1>2, <1>3, <3>2, <4>1, <4>2
    <3> QED  BY <1>5, <3>1, <3>2
  <2>2. next[Len(globals') + 1] = global_ctr' /\ Len(next) = Len(globals') + 1
    BY <1>2, <1>5
  <2> QED  BY <1>2, <1>4, <2>1, <2>2 DEF Counted
<1>7. ASSUME NEW i \in 1..n + 1, NEW j \in 1..n + 1, i < j, globals'[j].kind \in FunctionKinds
      PROVE  globals'[i].kind \in FunctionKinds
  <2>1. i \in 1..n
    BY <1>1, <1>7
  <2>2. CASE j = n + 1
    <3>1. globals[i] \in Globals /\ Rank(globals[i].kind) <= Rank(g.kind)
      <4>1. \A l \in DOMAIN globals : Rank(globals[l].kind) <= Rank(g.kind)
        BY DEF NameGlobal
      <4>2. i \in DOMAIN globals
        BY ONLY <1>1, <2>1 DEF n
      <4> QED  BY ONLY <1>1, <4>1, <4>2
    <3> QED  BY <1>2, <1>7, <2>1, <2>2, <3>1, FunctionsFirst
  <2>3. CASE j \in 1..n
    BY ONLY GlobalInv, <1>2, <1>7, <2>1, <2>3 DEF GlobalInv, n
  <2> QED  BY <1>1, <2>2, <2>3
<1>8. (\E c \in Seq(Nat) : Counted(c))'
  BY <1>6
<1> QED  BY ONLY <1>1, <1>2, <1>3, <1>4, <1>7, <1>8 DEF GlobalInv, GlobalsAgreeExactly

\* Numbering by the second pass matches where no function before was unnamed.
LEMMA BuildGlobalInv ==
    ASSUME IInv, GlobalInv, phase # "name_globals", phase' \notin {"name_globals", "params", "first", "second"},
           Current <= Len(globals), UNCHANGED <<globals, global_names>>,
           NEW e \in Names, global_built' = Append(global_built, e),
           IF globals[Current].kind \in FunctionKinds
           THEN e = FunctionName(globals[Current].str) /\ global_ctr' = global_ctr
           ELSE /\ e = NameOrNum(globals[Current].str, global_ctr)
                /\ global_ctr' = global_ctr + Advance(globals[Current].str)
    PROVE  GlobalInv'
<1> DEFINE k == Current
           g == globals[k]
<1>1. /\ globals \in Seq(Globals) /\ global_built \in Seq(Names) /\ global_ctr \in Nat
      /\ Len(globals) \in Nat /\ Len(global_built) \in Nat /\ k = Len(global_built) + 1
      /\ k \in 1..Len(globals) /\ g \in Globals
  BY DEF IInv, TypeOK, Current
<1>2. /\ Len(global_built') = k /\ Current' = k + 1 /\ global_built'[k] = e
      /\ \A i \in 1..Len(global_built) : global_built'[i] = global_built[i]
      /\ DOMAIN global_built' = 1..k /\ DOMAIN global_built = 1..Len(global_built)
  BY <1>1, AppendFacts DEF Current
<1> PICK count \in Seq(Nat) : Counted(count)
  BY DEF GlobalInv
<1>3. /\ global_names[k] = NameOrNum(g.str, count[k])
      /\ count[k + 1] = count[k] + Advance(g.str) /\ count[k] \in Nat /\ count[k + 1] \in Nat
  <2>1. /\ Len(count) = Len(globals) + 1
        /\ global_names[k] = NameOrNum(globals[k].str, count[k])
        /\ count[k + 1] = count[k] + Advance(globals[k].str)
    BY <1>1, Zenon DEF Counted
  <2> HIDE DEF k
  <2>2. k \in 1..Len(count) /\ k + 1 \in 1..Len(count)
    BY ONLY <1>1, <2>1
  <2>3. \A i \in 1..Len(count) : count[i] \in Nat
    BY ONLY count \in Seq(Nat)
  <2> QED  BY ONLY <2>1, <2>2, <2>3, Zenon
<1>4. /\ (\A i \in 1..Len(global_built) : ~UnnamedFunction(i)) => global_ctr = count[k]
      /\ (\E i \in 1..Len(global_built) : UnnamedFunction(i)) => global_ctr < count[k]
  BY DEF Counted
<1> HIDE DEF k, g
<1>5. Advance(g.str) \in {0, 1} /\ (g.str = Unnamed <=> Advance(g.str) = 1)
  BY DEF Advance
<1>6. UnnamedFunction(k) <=> g.kind \in FunctionKinds /\ g.str = Unnamed
  BY DEF UnnamedFunction, g
<1>7. \A i : UnnamedFunction(i)' = UnnamedFunction(i)
  BY DEF UnnamedFunction
<1>8. \A i \in 1..k : i = k \/ i \in 1..Len(global_built)
  BY <1>1
<1>9. k \in 1..k /\ \A i \in 1..Len(global_built) : i \in 1..k
  BY <1>1
<1>10. IF g.kind \in FunctionKinds
       THEN e = FunctionName(g.str) /\ global_ctr' = global_ctr
       ELSE e = NameOrNum(g.str, global_ctr) /\ global_ctr' = global_ctr + Advance(g.str)
  BY DEF k, g
<1>11. (\A i \in 1..k : ~UnnamedFunction(i)) => global_ctr' = count[k + 1]
  BY ONLY <1>1, <1>3, <1>4, <1>5, <1>6, <1>9, <1>10
<1>12. (\E i \in 1..k : UnnamedFunction(i)) => global_ctr' < count[k + 1]
  <2>1. CASE UnnamedFunction(k)
    <3>1. global_ctr <= count[k]
      BY ONLY <1>1, <1>3, <1>4
    <3> QED  BY ONLY <1>1, <1>3, <1>5, <1>6, <1>10, <2>1, <3>1
  <2>2. ASSUME NEW i \in 1..Len(global_built), UnnamedFunction(i)
        PROVE  global_ctr' < count[k + 1]
    BY ONLY <1>1, <1>3, <1>4, <1>5, <1>10, <2>2, SMTT(30)
  <2> QED  BY ONLY <1>8, <2>1, <2>2
<1>13. Counted(count)'
  BY <1>2, <1>7, <1>11, <1>12, Zenon DEF Counted
<1>14. e = global_names[k] <=>
          \/ g.str # Unnamed
          \/ /\ g.kind \notin FunctionKinds
             /\ \A i \in DOMAIN globals : globals[i].kind \in FunctionKinds => globals[i].str # Unnamed
  <2>1. CASE g.str # Unnamed
    BY <1>3, <1>10, <2>1 DEF NameOrNum, FunctionName
  <2>2. CASE g.str = Unnamed /\ g.kind \in FunctionKinds
    <3>1. e.num = -1 /\ global_names[k].num = count[k]
      BY <1>3, <1>10, <2>2 DEF NameOrNum, FunctionName
    <3> QED  BY <1>3, <2>2, <3>1, SMTT(30)
  <2>3. CASE g.str = Unnamed /\ g.kind \notin FunctionKinds
    <3>1. (\A i \in DOMAIN globals : globals[i].kind \in FunctionKinds => globals[i].str # Unnamed)
          <=> \A i \in 1..Len(global_built) : ~UnnamedFunction(i)
      <4>1. ASSUME NEW i \in DOMAIN globals, globals[i].kind \in FunctionKinds
            PROVE  i \in 1..Len(global_built)
        <5>1. ~(k < i)
          BY <1>1, <2>3, <4>1 DEF GlobalInv, g
        <5>2. i # k
          BY <2>3, <4>1 DEF g
        <5>3. i \in 1..Len(globals) /\ k = Len(global_built) + 1 /\ Len(global_built) \in Nat
          BY <1>1, <4>1
        <5> QED  BY ONLY <5>1, <5>2, <5>3
      <4>2. \A i \in 1..Len(global_built) : i \in DOMAIN globals
        BY <1>1
      <4> QED  BY <4>1, <4>2 DEF UnnamedFunction
    <3>2. e = global_names[k] <=> global_ctr = count[k]
      BY <1>3, <1>10, <2>3, NameInjective
    <3>3. global_ctr = count[k] <=> \A i \in 1..Len(global_built) : ~UnnamedFunction(i)
      <4>1. global_ctr \in Nat /\ count[k] \in Nat
        BY ONLY <1>1, <1>3, Zenon
      <4> QED  BY ONLY <1>4, <4>1
    <3> QED  BY ONLY <2>3, <3>1, <3>2, <3>3
  <2> QED  BY ONLY <2>1, <2>2, <2>3
<1>15. GlobalsAgreeExactly'
  BY <1>2, <1>8, <1>14, ZenonT(30) DEF GlobalsAgreeExactly, GlobalInv, g
<1>16. (\E c \in Seq(Nat) : Counted(c))'
  BY <1>13
<1>17. Len(global_names') = Len(globals') /\ Len(global_built') <= Len(globals')
  BY ONLY GlobalInv, UNCHANGED <<globals, global_names>>, <1>1, <1>2 DEF GlobalInv
<1>18. \A i, j \in 1..Len(globals') :
          i < j /\ globals'[j].kind \in FunctionKinds => globals'[i].kind \in FunctionKinds
  BY ONLY GlobalInv, UNCHANGED <<globals, global_names>>, Zenon DEF GlobalInv
<1> QED
  BY ONLY phase' \notin {"name_globals", "params", "first", "second"},
          <1>15, <1>16, <1>17, <1>18, Zenon DEF GlobalInv

\* Steps that leave the globals and the pass over them alone.
LEMMA GlobalsUnchanged ==
    ASSUME GlobalInv, UNCHANGED globalVars,
           (phase = "name_globals") <=> (phase' = "name_globals"),
           phase' \in {"params", "first", "second"} => globals[Current].kind \in FunctionKinds
    PROVE  GlobalInv'
<1> USE DEF globalVars
<1> PICK count \in Seq(Nat) : Counted(count)
  BY DEF GlobalInv
<1>1. Counted(count)'
  BY DEF Counted, UnnamedFunction, Current
<1>2. (\E c \in Seq(Nat) : Counted(c))'
  BY <1>1
<1> QED  BY <1>2 DEF GlobalInv, GlobalsAgreeExactly, Current

\* Every step keeps the invariant of the globals.
LEMMA NextGlobalInv == IInv /\ GlobalInv /\ [Next]_vars => GlobalInv'
<1> SUFFICES ASSUME IInv, GlobalInv, [Next]_vars
             PROVE  GlobalInv'
  OBVIOUS
<1>1. CASE \E g \in Globals : NameGlobal(g)
  BY <1>1, NameGlobalInv
<1>2. CASE ResetGlobals
  <2> PICK count \in Seq(Nat) : Counted(count)
    BY DEF GlobalInv
  <2>1. Counted(count)'
    BY <1>2 DEF ResetGlobals, Counted, Current
  <2>2. (\E c \in Seq(Nat) : Counted(c))'
    BY <2>1
  <2> QED  BY <1>2, <2>2 DEF ResetGlobals, GlobalInv, GlobalsAgreeExactly
<1>3. CASE ReadGlobal
  <2>1. globals[Current] \in Globals /\ global_ctr \in Nat
    BY <1>3 DEF ReadGlobal, IInv, TypeOK, Current
  <2>2. NameOrNum(globals[Current].str, global_ctr) \in Names
    BY <2>1, GlobalFields
  <2> QED  BY <1>3, <2>2, BuildGlobalInv DEF ReadGlobal
<1>4. ASSUME EndFunction, phase \in {"params", "first", "second"}
      PROVE  GlobalInv'
  <2>1. Current <= Len(globals) /\ globals[Current] \in Globals /\ globals[Current].kind \in FunctionKinds
    BY <1>4 DEF IInv, TypeOK, LengthInv, GlobalInv, Current
  <2>2. FunctionName(globals[Current].str) \in Names
    BY <2>1, GlobalFields
  <2> QED  BY <1>4, <2>1, <2>2, BuildGlobalInv, Zenon DEF EndFunction
<1>5. CASE EndDeclaration \/ EndBody
  BY <1>4, <1>5 DEF EndDeclaration, EndBody
<1>6. CASE BeginFunction
  BY <1>6, GlobalsUnchanged DEF BeginFunction
<1>7. CASE FinishModule
  BY <1>7, GlobalsUnchanged DEF FinishModule
<1>8. ASSUME NEW i \in Items, ReadParam(i) \/ FirstPass(i)
      PROVE  GlobalInv'
  <2>1. UNCHANGED <<phase, globalVars>>
    BY <1>8 DEF ReadParam, FirstPass
  <2> QED  BY <2>1, GlobalsUnchanged, Zenon DEF GlobalInv
<1>9. CASE EndParams \/ EndFirstPass \/ SecondPass
  <2>1. UNCHANGED globalVars /\ {phase, phase'} \subseteq {"params", "first", "second"}
    BY <1>9 DEF EndParams, EndFirstPass, SecondPass
  <2> QED  BY <2>1, GlobalsUnchanged DEF GlobalInv
<1>10. CASE UNCHANGED vars
  <2>1. UNCHANGED <<phase, globalVars>>
    BY <1>10 DEF vars
  <2> QED  BY <2>1, GlobalsUnchanged DEF GlobalInv
<1> QED  BY <1>1, <1>2, <1>3, <1>5, <1>6, <1>7, <1>8, <1>9, <1>10 DEF Next

-----------------------------------------------------------------------------
(* Theorems.                                                               *)

\* The invariant holds throughout the reading of any module.
LEMMA Inductive == Spec => []IInv
BY InitInv, NextInv, PTL DEF Spec

\* The variables keep their types, for any set of string names and any length.
THEOREM TypeCorrect == Spec => []TypeOK
<1>1. IInv => TypeOK
  BY DEF IInv
<1> QED  BY <1>1, Inductive, PTL

\* Whatever a function contains, the second pass of Function::from_llvm_ref gives
\* each object the name the first pass gave it.
THEOREM PassesAlwaysAgree == Spec => []PassesAgree
<1>1. IInv => PassesAgree
  BY DEF IInv
<1> QED  BY <1>1, Inductive, PTL

\* In every function, a name that an operand carries is the dest of one object.
THEOREM NamesAlwaysUnique == Spec => []NamesUnique
BY UniqueFromCounter, Inductive, PTL

\* In every function, the lookups of operands and branch targets succeed.
THEOREM OperandsAlwaysNamed == Spec => []OperandsNamed
BY NamedFromInvariant, Inductive, PTL

\* In every module whose functions all have names, a reference to a global carries the
\* name the global has in the AST.
THEOREM NamedPassesAlwaysAgree == Spec => []NamedPassesAgree
<1>1. IInv /\ GlobalInv => NamedPassesAgree
  <2> SUFFICES ASSUME IInv, GlobalInv,
                      \A k \in DOMAIN globals : globals[k].kind \in FunctionKinds => globals[k].str # Unnamed,
                      NEW i \in DOMAIN global_built
               PROVE  global_built[i] = global_names[i]
    BY Zenon DEF NamedPassesAgree
  <2>1. i \in DOMAIN globals
    <3>1. globals \in Seq(Globals) /\ global_built \in Seq(Names) /\ Len(global_built) <= Len(globals)
      BY Zenon DEF IInv, TypeOK, GlobalInv
    <3> QED  BY <3>1
  <2> QED  BY <2>1, Zenon DEF GlobalInv, GlobalsAgreeExactly
<1> QED  BY <1>1, Inductive, InitGlobalInv, NextGlobalInv, PTL DEF Spec

-----------------------------------------------------------------------------
(* Operands.                                                               *)

\* A sequence of one value.
LEMMA OneValue ==
    ASSUME NEW V, NEW s \in Seq(V), Len(s) = 1
    PROVE  s = <<s[1]>>
  OBVIOUS

\* The two tables of a fixed operand list agree: LLVM's order l has as its roles the
\* fields the reader fills, each at the number the reader takes it from.
TablesAgree(l, at) ==
    /\ DOMAIN at = Range(l)
    /\ \/ DOMAIN l = {} /\ Range(at) = {}
       \/ DOMAIN l = {1} /\ Range(at) = {0}
       \/ DOMAIN l = {1, 2} /\ Range(at) = {0, 1}
       \/ DOMAIN l = {1, 2, 3} /\ Range(at) = {0, 1, 2}
    /\ \A r \in DOMAIN at : at[r] \in {0, 1, 2} /\ at[r] + 1 \in DOMAIN l /\ l[at[r] + 1] = r
    /\ \A r \in DOMAIN at : r \notin ListRoles \cup OptionalRoles

\* For every opcode with a fixed operand list, the reader takes each field from the
\* number at which LLVM keeps the operand of that role.
LEMMA FixedTables == \A op \in FixedOps : TablesAgree(Layout(op), FixedOperands(op))
<1> SUFFICES ASSUME NEW op \in FixedOps PROVE TablesAgree(Layout(op), FixedOperands(op))
  OBVIOUS
<1> USE DEF BinaryOps, ArithmeticOps, BitwiseOps, ShiftOps, FloatOps,
            CastOps, IntCastOps, FloatCastOps, PointerCastOps
<1>1. CASE op \in BinaryOps \cup {"ICmp", "FCmp", "ShuffleVector"}
  <2>1. Layout(op) = <<"operand0", "operand1">>
    BY <1>1, Zenon DEF Layout
  <2>2. FixedOperands(op) = [operand0 |-> 0, operand1 |-> 1]
    BY <1>1, Zenon DEF FixedOperands, UnaryOperands, CastOperands, BinaryOperands, VectorOps,
       VectorOperands, AggregateOperands, MemoryOps, MemoryOperands, CmpOperands, SelectOperands,
       VAArgOperands, ExitOperands
  <2>3. TablesAgree(<<"operand0", "operand1">>, [operand0 |-> 0, operand1 |-> 1])
    BY DEF TablesAgree, Range, ListRoles, OptionalRoles
  <2> QED
    BY <2>1, <2>2, <2>3, Zenon
<1>2. CASE op \in CastOps \cup {"FNeg", "Freeze", "Resume"}
  <2>1. Layout(op) = <<"operand">>
    BY <1>2, Zenon DEF Layout
  <2>2. FixedOperands(op) = [operand |-> 0]
    BY <1>2, Zenon DEF FixedOperands, UnaryOperands, CastOperands, BinaryOperands, VectorOps,
       VectorOperands, AggregateOperands, MemoryOps, MemoryOperands, CmpOperands, SelectOperands,
       VAArgOperands, ExitOperands
  <2>3. TablesAgree(<<"operand">>, [operand |-> 0])
    BY DEF TablesAgree, Range, ListRoles, OptionalRoles
  <2> QED
    BY <2>1, <2>2, <2>3, Zenon
<1>3. CASE op \in {"Fence", "Unreachable"}
  <2>1. Layout(op) = <<>>
    BY <1>3, Zenon DEF Layout
  <2>2. FixedOperands(op) = << >>
    BY <1>3, Zenon DEF FixedOperands, UnaryOperands, CastOperands, BinaryOperands, VectorOps,
       VectorOperands, AggregateOperands, MemoryOps, MemoryOperands, CmpOperands, SelectOperands,
       VAArgOperands, ExitOperands
  <2>3. TablesAgree(<<>>, << >>)
    BY DEF TablesAgree, Range, ListRoles, OptionalRoles
  <2> QED
    BY <2>1, <2>2, <2>3, Zenon
<1>4. CASE op = "ExtractElement"
  <2>1. Layout(op) = <<"vector", "index">>
    BY <1>4, Zenon DEF Layout
  <2>2. FixedOperands(op) = [vector |-> 0, index |-> 1]
    BY <1>4, Zenon DEF FixedOperands, UnaryOperands, CastOperands, BinaryOperands, VectorOps,
       VectorOperands, AggregateOperands, MemoryOps, MemoryOperands, CmpOperands, SelectOperands,
       VAArgOperands, ExitOperands
  <2>3. TablesAgree(<<"vector", "index">>, [vector |-> 0, index |-> 1])
    BY DEF TablesAgree, Range, ListRoles, OptionalRoles
  <2> QED
    BY <2>1, <2>2, <2>3, Zenon
<1>5. CASE op = "InsertElement"
  <2>1. Layout(op) = <<"vector", "element", "index">>
    BY <1>5, Zenon DEF Layout
  <2>2. FixedOperands(op) = [vector |-> 0, element |-> 1, index |-> 2]
    BY <1>5, Zenon DEF FixedOperands, UnaryOperands, CastOperands, BinaryOperands, VectorOps,
       VectorOperands, AggregateOperands, MemoryOps, MemoryOperands, CmpOperands, SelectOperands,
       VAArgOperands, ExitOperands
  <2>3. TablesAgree(<<"vector", "element", "index">>, [vector |-> 0, element |-> 1, index |-> 2])
    BY DEF TablesAgree, Range, ListRoles, OptionalRoles
  <2> QED
    BY <2>1, <2>2, <2>3, Zenon
<1>6. CASE op = "ExtractValue"
  <2>1. Layout(op) = <<"aggregate">>
    BY <1>6, Zenon DEF Layout
  <2>2. FixedOperands(op) = [aggregate |-> 0]
    BY <1>6, Zenon DEF FixedOperands, UnaryOperands, CastOperands, BinaryOperands, VectorOps,
       VectorOperands, AggregateOperands, MemoryOps, MemoryOperands, CmpOperands, SelectOperands,
       VAArgOperands, ExitOperands
  <2>3. TablesAgree(<<"aggregate">>, [aggregate |-> 0])
    BY DEF TablesAgree, Range, ListRoles, OptionalRoles
  <2> QED
    BY <2>1, <2>2, <2>3, Zenon
<1>7. CASE op = "InsertValue"
  <2>1. Layout(op) = <<"aggregate", "element">>
    BY <1>7, Zenon DEF Layout
  <2>2. FixedOperands(op) = [aggregate |-> 0, element |-> 1]
    BY <1>7, Zenon DEF FixedOperands, UnaryOperands, CastOperands, BinaryOperands, VectorOps,
       VectorOperands, AggregateOperands, MemoryOps, MemoryOperands, CmpOperands, SelectOperands,
       VAArgOperands, ExitOperands
  <2>3. TablesAgree(<<"aggregate", "element">>, [aggregate |-> 0, element |-> 1])
    BY DEF TablesAgree, Range, ListRoles, OptionalRoles
  <2> QED
    BY <2>1, <2>2, <2>3, Zenon
<1>8. CASE op = "Alloca"
  <2>1. Layout(op) = <<"num_elements">>
    BY <1>8, Zenon DEF Layout
  <2>2. FixedOperands(op) = [num_elements |-> 0]
    BY <1>8, Zenon DEF FixedOperands, UnaryOperands, CastOperands, BinaryOperands, VectorOps,
       VectorOperands, AggregateOperands, MemoryOps, MemoryOperands, CmpOperands, SelectOperands,
       VAArgOperands, ExitOperands
  <2>3. TablesAgree(<<"num_elements">>, [num_elements |-> 0])
    BY DEF TablesAgree, Range, ListRoles, OptionalRoles
  <2> QED
    BY <2>1, <2>2, <2>3, Zenon
<1>9. CASE op = "Load"
  <2>1. Layout(op) = <<"address">>
    BY <1>9, Zenon DEF Layout
  <2>2. FixedOperands(op) = [address |-> 0]
    BY <1>9, Zenon DEF FixedOperands, UnaryOperands, CastOperands, BinaryOperands, VectorOps,
       VectorOperands, AggregateOperands, MemoryOps, MemoryOperands, CmpOperands, SelectOperands,
       VAArgOperands, ExitOperands
  <2>3. TablesAgree(<<"address">>, [address |-> 0])
    BY DEF TablesAgree, Range, ListRoles, OptionalRoles
  <2> QED
    BY <2>1, <2>2, <2>3, Zenon
<1>10. CASE op = "Store"
  <2>1. Layout(op) = <<"value", "address">>
    BY <1>10, Zenon DEF Layout
  <2>2. FixedOperands(op) = [address |-> 1, value |-> 0]
    BY <1>10, Zenon DEF FixedOperands, UnaryOperands, CastOperands, BinaryOperands, VectorOps,
       VectorOperands, AggregateOperands, MemoryOps, MemoryOperands, CmpOperands, SelectOperands,
       VAArgOperands, ExitOperands
  <2>3. TablesAgree(<<"value", "address">>, [address |-> 1, value |-> 0])
    BY DEF TablesAgree, Range, ListRoles, OptionalRoles
  <2> QED
    BY <2>1, <2>2, <2>3, Zenon
<1>11. CASE op = "CmpXchg"
  <2>1. Layout(op) = <<"address", "expected", "replacement">>
    BY <1>11, Zenon DEF Layout
  <2>2. FixedOperands(op) = [address |-> 0, expected |-> 1, replacement |-> 2]
    BY <1>11, Zenon DEF FixedOperands, UnaryOperands, CastOperands, BinaryOperands, VectorOps,
       VectorOperands, AggregateOperands, MemoryOps, MemoryOperands, CmpOperands, SelectOperands,
       VAArgOperands, ExitOperands
  <2>3. TablesAgree(<<"address", "expected", "replacement">>,
                    [address |-> 0, expected |-> 1, replacement |-> 2])
    BY DEF TablesAgree, Range, ListRoles, OptionalRoles
  <2> QED
    BY <2>1, <2>2, <2>3, Zenon
<1>12. CASE op = "AtomicRMW"
  <2>1. Layout(op) = <<"address", "value">>
    BY <1>12, Zenon DEF Layout
  <2>2. FixedOperands(op) = [address |-> 0, value |-> 1]
    BY <1>12, Zenon DEF FixedOperands, UnaryOperands, CastOperands, BinaryOperands, VectorOps,
       VectorOperands, AggregateOperands, MemoryOps, MemoryOperands, CmpOperands, SelectOperands,
       VAArgOperands, ExitOperands
  <2>3. TablesAgree(<<"address", "value">>, [address |-> 0, value |-> 1])
    BY DEF TablesAgree, Range, ListRoles, OptionalRoles
  <2> QED
    BY <2>1, <2>2, <2>3, Zenon
<1>13. CASE op = "VAArg"
  <2>1. Layout(op) = <<"arg_list">>
    BY <1>13, Zenon DEF Layout
  <2>2. FixedOperands(op) = [arg_list |-> 0]
    BY <1>13, Zenon DEF FixedOperands, UnaryOperands, CastOperands, BinaryOperands, VectorOps,
       VectorOperands, AggregateOperands, MemoryOps, MemoryOperands, CmpOperands, SelectOperands,
       VAArgOperands, ExitOperands
  <2>3. TablesAgree(<<"arg_list">>, [arg_list |-> 0])
    BY DEF TablesAgree, Range, ListRoles, OptionalRoles
  <2> QED
    BY <2>1, <2>2, <2>3, Zenon
<1>14. CASE op = "Select"
  <2>1. Layout(op) = <<"condition", "true_value", "false_value">>
    BY <1>14, Zenon DEF Layout
  <2>2. FixedOperands(op) = [condition |-> 0, true_value |-> 1, false_value |-> 2]
    BY <1>14, Zenon DEF FixedOperands, UnaryOperands, CastOperands, BinaryOperands, VectorOps,
       VectorOperands, AggregateOperands, MemoryOps, MemoryOperands, CmpOperands, SelectOperands,
       VAArgOperands, ExitOperands
  <2>3. TablesAgree(<<"condition", "true_value", "false_value">>,
                    [condition |-> 0, true_value |-> 1, false_value |-> 2])
    BY DEF TablesAgree, Range, ListRoles, OptionalRoles
  <2> QED
    BY <2>1, <2>2, <2>3, Zenon
<1> QED
  BY <1>1, <1>2, <1>3, <1>4, <1>5, <1>6, <1>7, <1>8, <1>9, <1>10, <1>11, <1>12, <1>13, <1>14,
     Zenon DEF FixedOps, VectorOps, MemoryOps

\* Roles hold sequences of values.
HoldsValues(inst, V) == \A r \in DOMAIN inst.args : inst.args[r] \in Seq(V)

\* So does each part of an operand list.
LEMMA PartsHoldValues ==
    ASSUME NEW V, NEW inst, HoldsValues(inst, V)
    PROVE  \A k : Part(inst, k) \in Seq(V)
<1>1. <<>> \in Seq(V)
  OBVIOUS
<1> QED
  BY <1>1, Zenon DEF HoldsValues, Part, In

\* Where the parts of an operand list begin.
LEMMA OperandParts ==
    ASSUME NEW V, NEW inst, HoldsValues(inst, V), inst.op # "Switch"
    PROVE  LET o == Operands(inst)
               p(k) == Part(inst, k)
           IN  /\ Len(o) = Len(p(1)) + Len(p(2)) + Len(p(3)) + Len(p(4))
               /\ p(1) # <<>> => o[1] = p(1)[1]
               /\ p(1) = <<>> /\ Len(p(2)) = 1 => o[1] = p(2)[1]
               /\ Len(p(1)) = 1 /\ Len(p(2)) = 1 => o[2] = p(2)[1]
               /\ Len(p(1)) = 1 /\ Len(p(2)) = 1 /\ Len(p(3)) = 1 => o[3] = p(3)[1]
               /\ SubSeq(o, 1, Len(p(1))) = p(1)
               /\ Len(p(1)) = 1 => SubSeq(o, 2, Len(p(2)) + 1) = p(2)
               /\ p(2) = <<>> /\ p(3) = <<>> /\ p(4) = <<>> => o = p(1)
               /\ p(1) = <<>> /\ p(2) = <<>> /\ p(3) = <<>> => o = p(4)
<1> DEFINE p1 == Part(inst, 1)
           p2 == Part(inst, 2)
           p3 == Part(inst, 3)
           p4 == Part(inst, 4)
           o == Operands(inst)
<1>1. p1 \in Seq(V) /\ p2 \in Seq(V) /\ p3 \in Seq(V) /\ p4 \in Seq(V)
  BY PartsHoldValues, Zenon
<1>2. o = p1 \o p2 \o p3 \o p4
  BY Zenon DEF Operands
<1> HIDE DEF p1, p2, p3, p4, o
<1>3. o \in Seq(V) /\ Len(o) = Len(p1) + Len(p2) + Len(p3) + Len(p4)
  BY ONLY <1>1, <1>2
<1>4. \A k \in 1..Len(p1) : o[k] = p1[k]
  BY ONLY <1>1, <1>2
<1>5. \A k \in 1..Len(p2) : o[Len(p1) + k] = p2[k]
  BY ONLY <1>1, <1>2
<1>6. \A k \in 1..Len(p3) : o[Len(p1) + Len(p2) + k] = p3[k]
  BY ONLY <1>1, <1>2
<1>7. SubSeq(o, 1, Len(p1)) = p1
  BY ONLY <1>1, <1>3, <1>4
<1>8. Len(p1) = 1 => SubSeq(o, 2, Len(p2) + 1) = p2
  BY ONLY <1>1, <1>3, <1>5
<1>9. /\ Len(p1) = 1 /\ Len(p2) = 1 => o[2] = p2[1]
      /\ Len(p1) = 1 /\ Len(p2) = 1 /\ Len(p3) = 1 => o[3] = p3[1]
  BY ONLY <1>4, <1>5, <1>6
<1>10. p1 # <<>> => o[1] = p1[1]
  BY ONLY <1>1, <1>4
<1>11. p1 = <<>> /\ Len(p2) = 1 => o[1] = p2[1]
  BY ONLY <1>1, <1>5
<1>12. p2 = <<>> /\ p3 = <<>> /\ p4 = <<>> => o = p1
  BY ONLY <1>1, <1>2
<1>13. p1 = <<>> /\ p2 = <<>> /\ p3 = <<>> => o = p4
  BY ONLY <1>1, <1>2
<1> QED
  BY <1>3, <1>7, <1>8, <1>9, <1>10, <1>11, <1>12, <1>13, Zenon DEF p1, p2, p3, p4, o

\* Fields of instructions with a fixed operand list.
LEMMA FixedFields ==
    ASSUME NEW V, NEW inst, NEW normal_dest, HoldsValues(inst, V), Shaped(inst),
           inst.op \in FixedOps
    PROVE  /\ FieldsAreRoles(inst, normal_dest)
           /\ Range(FixedOperands(inst.op)) = 0 .. Len(Operands(inst)) - 1
<1> DEFINE l == Layout(inst.op)
           at == FixedOperands(inst.op)
           o == Operands(inst)
<1>1. TablesAgree(l, at)
  BY FixedTables, Zenon
<1>2. inst.op \notin {"Br", "Switch", "Phi", "Call", "GetElementPtr", "LandingPad", "CatchPad",
                      "CleanupPad", "CallBr"}
  BY Zenon DEF FixedOps, VectorOps, MemoryOps, BinaryOps, ArithmeticOps, BitwiseOps, ShiftOps,
     FloatOps, CastOps, IntCastOps, FloatCastOps, PointerCastOps
<1>3. DOMAIN inst.args = Range(l)
  BY <1>2, Zenon DEF Shaped, RoleSets
<1>4. \A r \in Range(l) : Len(inst.args[r]) = 1 /\ inst.args[r] \in Seq(V)
  BY <1>1, <1>3, Zenon DEF Shaped, TablesAgree, HoldsValues
<1>5. \A k \in DOMAIN l : Part(inst, k) = inst.args[l[k]] /\ l[k] \in Range(l)
  BY <1>3, Zenon DEF Part, In, Range
<1>7. LlvmFields(inst, normal_dest) = [r \in DOMAIN at |-> <<o[at[r] + 1]>>]
  BY <1>2, Zenon DEF LlvmFields
<1> HIDE DEF l, at, o
<1>8. \A k \in DOMAIN l : o[k] = inst.args[l[k]][1]
  <2>0. Len(<<>>) # 1
    OBVIOUS
  <2>1. \A k \in DOMAIN l : Len(Part(inst, k)) = 1 /\ Part(inst, k) # <<>>
    BY <1>4, <1>5, <2>0, Zenon
  <2>2. /\ Part(inst, 1) # <<>> => o[1] = Part(inst, 1)[1]
        /\ Len(Part(inst, 1)) = 1 /\ Len(Part(inst, 2)) = 1 => o[2] = Part(inst, 2)[1]
        /\ Len(Part(inst, 1)) = 1 /\ Len(Part(inst, 2)) = 1 /\ Len(Part(inst, 3)) = 1
              => o[3] = Part(inst, 3)[1]
    BY <1>2, OperandParts, Zenon DEF o
  <2>3. \A k \in DOMAIN l : o[k] = Part(inst, k)[1]
    <3>1. \A k \in DOMAIN l :
              k \in {1, 2, 3} /\ 1 \in DOMAIN l /\ (k = 3 => 2 \in DOMAIN l)
      <4>1. DOMAIN l \in {{}, {1}, {1, 2}, {1, 2, 3}}
        BY <1>1, Zenon DEF TablesAgree
      <4> QED
        BY ONLY <4>1
    <3> QED
      BY <2>1, <2>2, <3>1, Zenon
  <2> QED
    BY <1>5, <2>3, Zenon
<1>9. \A r \in DOMAIN at : <<o[at[r] + 1]>> = inst.args[r]
  <2> SUFFICES ASSUME NEW r \in DOMAIN at PROVE <<o[at[r] + 1]>> = inst.args[r]
    BY Zenon
  <2>1. at[r] + 1 \in DOMAIN l /\ l[at[r] + 1] = r /\ r \in Range(l)
    BY <1>1, Zenon DEF TablesAgree
  <2>2. o[at[r] + 1] = inst.args[r][1]
    BY <1>8, <2>1, Zenon
  <2> QED
    BY <1>4, <2>1, <2>2, OneValue, Zenon
<1>10. DOMAIN at = DOMAIN inst.args \ {"other_labels"}
  BY <1>1, <1>3, Zenon DEF TablesAgree, ListRoles
<1>11. Range(at) = 0 .. Len(o) - 1
  <2> DEFINE len(k) == Len(Part(inst, k))
             D == DOMAIN l
             N == Range(at)
  <2>1. \/ D = {} /\ N = {}
        \/ D = {1} /\ N = {0}
        \/ D = {1, 2} /\ N = {0, 1}
        \/ D = {1, 2, 3} /\ N = {0, 1, 2}
    BY <1>1, Zenon DEF TablesAgree
  <2>2. Len(o) = len(1) + len(2) + len(3) + len(4)
    BY <1>2, OperandParts, Zenon DEF o
  <2>3. Len(<<>>) = 0
    OBVIOUS
  <2>4. \A k \in D : len(k) = 1
    BY <1>4, <1>5, Zenon
  <2>5. \A k : k \notin D => len(k) = 0
    BY <2>3, Zenon DEF Part, l
  <2> HIDE DEF D, N, len
  <2>6. N = 0 .. Len(o) - 1
    <3>1. CASE D = {} /\ N = {}
      <4>1. Len(o) = 0
        BY ONLY <2>2, <2>5, <3>1
      <4> QED
        BY ONLY <3>1, <4>1
    <3>2. CASE D = {1} /\ N = {0}
      <4>1. Len(o) = 1
        BY ONLY <2>2, <2>4, <2>5, <3>2
      <4> QED
        BY ONLY <3>2, <4>1
    <3>3. CASE D = {1, 2} /\ N = {0, 1}
      <4>1. Len(o) = 2
        BY ONLY <2>2, <2>4, <2>5, <3>3
      <4> QED
        BY ONLY <3>3, <4>1
    <3>4. CASE D = {1, 2, 3} /\ N = {0, 1, 2}
      <4>1. Len(o) = 3
        BY ONLY <2>2, <2>4, <2>5, <3>4
      <4> QED
        BY ONLY <3>4, <4>1
    <3> QED
      BY <2>1, <3>1, <3>2, <3>3, <3>4, Zenon
  <2> QED
    BY <2>6 DEF N
<1> QED
  BY <1>2, <1>7, <1>9, <1>10, <1>11, Zenon DEF FieldsAreRoles, RoleRead, o, at

\* The opcodes whose operand list is not fixed.
LEMMA OtherOps ==
    {"Call", "GetElementPtr", "Phi", "LandingPad", "CatchPad", "CleanupPad", "CallBr", "Ret", "Br",
     "Switch", "IndirectBr", "Invoke", "CleanupRet", "CatchRet", "CatchSwitch"} \cap FixedOps = {}
<1> USE DEF FixedOps, VectorOps, MemoryOps, BinaryOps, ArithmeticOps, BitwiseOps, ShiftOps,
            FloatOps, CastOps, IntCastOps, FloatCastOps, PointerCastOps
<1>1. {"Call", "GetElementPtr", "Phi", "LandingPad", "CatchPad"} \cap FixedOps = {}
  BY Zenon
<1>2. {"CleanupPad", "CallBr", "Ret", "Br", "Switch"} \cap FixedOps = {}
  BY Zenon
<1>3. {"IndirectBr", "Invoke", "CleanupRet", "CatchRet", "CatchSwitch"} \cap FixedOps = {}
  BY Zenon
<1> HIDE DEF FixedOps
<1> QED
  BY <1>1, <1>2, <1>3, Zenon

\* A role that is neither a list nor optional holds one value.
LEMMA SingleRoles ==
    ASSUME NEW V, NEW inst, HoldsValues(inst, V), Shaped(inst)
    PROVE  \A r \in DOMAIN inst.args \ (ListRoles \cup OptionalRoles) :
              /\ Len(inst.args[r]) = 1 /\ inst.args[r] # <<>>
              /\ inst.args[r] = <<inst.args[r][1]>>
<1>1. \A r \in DOMAIN inst.args \ (ListRoles \cup OptionalRoles) :
          Len(inst.args[r]) = 1 /\ inst.args[r] \in Seq(V)
  BY Zenon DEF Shaped, HoldsValues
<1>2. Len(<<>>) # 1
  OBVIOUS
<1> QED
  BY <1>1, <1>2, OneValue, Zenon

\* Fields of the instructions that have operands in roles of any length.
LEMMA ListFields ==
    ASSUME NEW V, NEW inst, NEW normal_dest, HoldsValues(inst, V), Shaped(inst),
           inst.op \in {"GetElementPtr", "LandingPad", "CatchPad", "CleanupPad", "Ret", "IndirectBr",
                        "Call", "Invoke", "CallBr", "CleanupRet", "CatchRet", "CatchSwitch"}
    PROVE  FieldsAreRoles(inst, normal_dest)
<1> USE DEF BinaryOps, ArithmeticOps, BitwiseOps, ShiftOps, FloatOps,
            CastOps, IntCastOps, FloatCastOps, PointerCastOps
<1> DEFINE o == Operands(inst)
           fields == LlvmFields(inst, normal_dest)
           part(k) == Part(inst, k)
<1>1. inst.op # "Switch" /\ inst.op \notin FixedOps
  BY OtherOps, Zenon
<1>2. /\ part(1) # <<>> => o[1] = part(1)[1]
      /\ part(1) = <<>> /\ Len(part(2)) = 1 => o[1] = part(2)[1]
      /\ SubSeq(o, 1, Len(part(1))) = part(1)
      /\ Len(part(1)) = 1 => SubSeq(o, 2, Len(part(2)) + 1) = part(2)
      /\ part(2) = <<>> /\ part(3) = <<>> /\ part(4) = <<>> => o = part(1)
  BY <1>1, OperandParts, Zenon
<1>3. \A r \in DOMAIN inst.args \ (ListRoles \cup OptionalRoles) :
          /\ Len(inst.args[r]) = 1 /\ inst.args[r] # <<>>
          /\ inst.args[r] = <<inst.args[r][1]>>
  BY SingleRoles, Zenon
<1> HIDE DEF o
<1>4. CASE inst.op = "GetElementPtr"
  <2>1. Layout(inst.op) = <<"address", "indices">>
    BY <1>4, Zenon DEF Layout
  <2>2. DOMAIN inst.args = Range(<<"address", "indices">>)
    BY <1>4, <2>1, Zenon DEF Shaped, RoleSets
  <2>3. /\ DOMAIN inst.args = {"address", "indices"}
        /\ part(1) = inst.args["address"]
        /\ part(2) = inst.args["indices"]
    BY <2>1, <2>2 DEF Range, Part, In
  <2>4. fields = [address |-> <<o[1]>>, indices |-> SubSeq(o, 2, Len(inst.args["indices"]) + 1)]
    BY <1>1, <1>4, Zenon DEF LlvmFields, GetElementPtrFields, o
  <2>5. \A r \in {"address"} :
            /\ Len(inst.args[r]) = 1 /\ inst.args[r] # <<>>
            /\ inst.args[r] = <<inst.args[r][1]>>
    BY <1>3, <2>3, Zenon DEF ListRoles, OptionalRoles
  <2>6. /\ fields.address = <<o[1]>>
        /\ fields.indices = SubSeq(o, 2, Len(inst.args["indices"]) + 1)
    BY <2>4
  <2>7. /\ fields.address = inst.args["address"]
        /\ fields.indices = inst.args["indices"]
    BY <1>2, <2>3, <2>5, <2>6, Zenon
  <2>8. DOMAIN fields = {"address", "indices"}
    BY <2>4, Zenon
  <2> HIDE DEF fields
  <2> QED
    BY <1>4, <2>3, <2>7, <2>8, Zenon DEF FieldsAreRoles, RoleRead, fields
<1>5. CASE inst.op = "LandingPad"
  <2>1. Layout(inst.op) = <<"clauses">>
    BY <1>5, Zenon DEF Layout
  <2>2. DOMAIN inst.args = Range(<<"clauses">>)
    BY <1>5, <2>1, Zenon DEF Shaped, RoleSets
  <2>3. /\ DOMAIN inst.args = {"clauses"}
        /\ part(1) = inst.args["clauses"]
    BY <2>1, <2>2 DEF Range, Part, In
  <2>4. fields = [clauses |-> inst.args["clauses"]]
    BY <1>1, <1>5, Zenon DEF LlvmFields, PadFields, o
  <2>5. fields.clauses = inst.args["clauses"]
    BY <2>4
  <2>6. fields.clauses = inst.args["clauses"]
    BY <1>2, <2>3, <2>5, Zenon
  <2>7. DOMAIN fields = {"clauses"}
    BY <2>4, Zenon
  <2> HIDE DEF fields
  <2> QED
    BY <1>5, <2>3, <2>6, <2>7, Zenon DEF FieldsAreRoles, RoleRead, fields
<1>6. CASE inst.op = "CatchPad"
  <2>1. Layout(inst.op) = <<"args", "catch_switch">>
    BY <1>6, Zenon DEF Layout
  <2>2. DOMAIN inst.args = Range(<<"args", "catch_switch">>)
    BY <1>6, <2>1, Zenon DEF Shaped, RoleSets
  <2>3. /\ DOMAIN inst.args = {"args", "catch_switch"}
        /\ part(1) = inst.args["args"]
    BY <2>1, <2>2 DEF Range, Part, In
  <2>4. fields = [catch_switch |-> inst.args["catch_switch"], args |-> inst.args["args"]]
    BY <1>1, <1>6, Zenon DEF LlvmFields, PadFields, o
  <2>5. \A r \in {"catch_switch"} :
            /\ Len(inst.args[r]) = 1 /\ inst.args[r] # <<>>
            /\ inst.args[r] = <<inst.args[r][1]>>
    BY <1>3, <2>3, Zenon DEF ListRoles, OptionalRoles
  <2>6. /\ fields.catch_switch = inst.args["catch_switch"]
        /\ fields.args = inst.args["args"]
    BY <2>4
  <2>7. /\ fields.catch_switch = inst.args["catch_switch"]
        /\ fields.args = inst.args["args"]
    BY <1>2, <2>3, <2>5, <2>6, Zenon
  <2>8. DOMAIN fields = {"catch_switch", "args"}
    BY <2>4, Zenon
  <2> HIDE DEF fields
  <2> QED
    BY <1>6, <2>3, <2>7, <2>8, Zenon DEF FieldsAreRoles, RoleRead, fields
<1>7. CASE inst.op = "CleanupPad"
  <2>1. Layout(inst.op) = <<"args", "parent_pad">>
    BY <1>7, Zenon DEF Layout
  <2>2. DOMAIN inst.args = Range(<<"args", "parent_pad">>)
    BY <1>7, <2>1, Zenon DEF Shaped, RoleSets
  <2>3. /\ DOMAIN inst.args = {"args", "parent_pad"}
        /\ part(1) = inst.args["args"]
        /\ part(2) = inst.args["parent_pad"]
    BY <2>1, <2>2 DEF Range, Part, In
  <2>4. fields = [parent_pad |-> <<o[1]>>, args |-> inst.args["args"]]
    BY <1>1, <1>7, Zenon DEF LlvmFields, PadFields, o
  <2>5. \A r \in {"parent_pad"} :
            /\ Len(inst.args[r]) = 1 /\ inst.args[r] # <<>>
            /\ inst.args[r] = <<inst.args[r][1]>>
    BY <1>3, <2>3, Zenon DEF ListRoles, OptionalRoles
  <2>6. /\ fields.parent_pad = <<o[1]>>
        /\ fields.args = inst.args["args"]
    BY <2>4
  <2>7. /\ fields.parent_pad = IF inst.args["args"] # <<>> THEN <<inst.args["args"][1]>>
                                            ELSE inst.args["parent_pad"]
        /\ fields.args = inst.args["args"]
    BY <1>2, <2>3, <2>5, <2>6, Zenon
  <2>8. DOMAIN fields = {"parent_pad", "args"}
    BY <2>4, Zenon
  <2> HIDE DEF fields
  <2> QED
    BY <1>7, <2>3, <2>7, <2>8, Zenon DEF FieldsAreRoles, RoleRead, fields
<1>8. CASE inst.op = "Ret"
  <2>1. Layout(inst.op) = <<"return_operand">>
    BY <1>8, Zenon DEF Layout
  <2>2. DOMAIN inst.args = Range(<<"return_operand">>)
    BY <1>8, <2>1, Zenon DEF Shaped, RoleSets
  <2>3. /\ DOMAIN inst.args = {"return_operand"}
        /\ part(1) = inst.args["return_operand"]
        /\ part(2) = <<>> /\ part(3) = <<>> /\ part(4) = <<>>
    BY <2>1, <2>2 DEF Range, Part, In
  <2>4. fields = [return_operand |-> o]
    BY <1>1, <1>8, Zenon DEF LlvmFields, TerminatorFields, BranchFields, o
  <2>5. fields.return_operand = o
    BY <2>4
  <2>6. fields.return_operand = inst.args["return_operand"]
    BY <1>2, <2>3, <2>5, Zenon
  <2>7. DOMAIN fields = {"return_operand"}
    BY <2>4, Zenon
  <2> HIDE DEF fields
  <2> QED
    BY <1>8, <2>3, <2>6, <2>7, Zenon DEF FieldsAreRoles, RoleRead, fields
<1>9. CASE inst.op = "IndirectBr"
  <2>1. Layout(inst.op) = <<"operand", "possible_dests">>
    BY <1>9, Zenon DEF Layout
  <2>2. DOMAIN inst.args = Range(<<"operand", "possible_dests">>)
    BY <1>9, <2>1, Zenon DEF Shaped, RoleSets
  <2>3. /\ DOMAIN inst.args = {"operand", "possible_dests"}
        /\ part(1) = inst.args["operand"]
    BY <2>1, <2>2 DEF Range, Part, In
  <2>4. fields = [operand |-> <<o[1]>>, possible_dests |-> inst.args["possible_dests"]]
    BY <1>1, <1>9, Zenon DEF LlvmFields, TerminatorFields, o
  <2>5. \A r \in {"operand"} :
            /\ Len(inst.args[r]) = 1 /\ inst.args[r] # <<>>
            /\ inst.args[r] = <<inst.args[r][1]>>
    BY <1>3, <2>3, Zenon DEF ListRoles, OptionalRoles
  <2>6. /\ fields.operand = <<o[1]>>
        /\ fields.possible_dests = inst.args["possible_dests"]
    BY <2>4
  <2>7. /\ fields.operand = inst.args["operand"]
        /\ fields.possible_dests = inst.args["possible_dests"]
    BY <1>2, <2>3, <2>5, <2>6, Zenon
  <2>8. DOMAIN fields = {"operand", "possible_dests"}
    BY <2>4, Zenon
  <2> HIDE DEF fields
  <2> QED
    BY <1>9, <2>3, <2>7, <2>8, Zenon DEF FieldsAreRoles, RoleRead, fields
<1>10. CASE inst.op = "Call"
  <2>1. Layout(inst.op) = <<"arguments", "function">>
    BY <1>10, Zenon DEF Layout
  <2>2. DOMAIN inst.args = Range(<<"arguments", "function">>)
    BY <1>10, <2>1, Zenon DEF Shaped, RoleSets
  <2>3. /\ DOMAIN inst.args = {"arguments", "function"}
        /\ part(1) = inst.args["arguments"]
    BY <2>1, <2>2 DEF Range, Part, In
  <2>4. fields = [function |-> inst.args["function"],
                     arguments |-> SubSeq(o, 1, Len(inst.args["arguments"]))]
    BY <1>1, <1>10, Zenon DEF LlvmFields, CallFields, o
  <2>5. \A r \in {"function"} :
            /\ Len(inst.args[r]) = 1 /\ inst.args[r] # <<>>
            /\ inst.args[r] = <<inst.args[r][1]>>
    BY <1>3, <2>3, Zenon DEF ListRoles, OptionalRoles
  <2>6. /\ fields.function = inst.args["function"]
        /\ fields.arguments = SubSeq(o, 1, Len(inst.args["arguments"]))
    BY <2>4
  <2>7. /\ fields.function = inst.args["function"]
        /\ fields.arguments = inst.args["arguments"]
    BY <1>2, <2>3, <2>5, <2>6, Zenon
  <2>8. DOMAIN fields = {"function", "arguments"}
    BY <2>4, Zenon
  <2> HIDE DEF fields
  <2> QED
    BY <1>10, <2>3, <2>7, <2>8, Zenon DEF FieldsAreRoles, RoleRead, fields
<1>11. CASE inst.op = "Invoke"
  <2>1. Layout(inst.op) = <<"arguments", "return_label", "exception_label", "function">>
    BY <1>11, Zenon DEF Layout
  <2>2. DOMAIN inst.args = Range(<<"arguments", "return_label", "exception_label", "function">>)
    BY <1>11, <2>1, Zenon DEF Shaped, RoleSets
  <2>3. /\ DOMAIN inst.args = {"arguments", "return_label", "exception_label", "function"}
        /\ part(1) = inst.args["arguments"]
    BY <2>1, <2>2 DEF Range, Part, In
  <2>4. fields = [function |-> inst.args["function"],
                     arguments |-> SubSeq(o, 1, Len(inst.args["arguments"])),
                     return_label |-> inst.args["return_label"],
                     exception_label |-> inst.args["exception_label"]]
    BY <1>1, <1>11, Zenon DEF LlvmFields, TerminatorFields, InvokeFields, CallFields, o
  <2>5. \A r \in {"return_label", "exception_label", "function"} :
            /\ Len(inst.args[r]) = 1 /\ inst.args[r] # <<>>
            /\ inst.args[r] = <<inst.args[r][1]>>
    BY <1>3, <2>3, Zenon DEF ListRoles, OptionalRoles
  <2>6. /\ fields.function = inst.args["function"]
        /\ fields.arguments = SubSeq(o, 1, Len(inst.args["arguments"]))
        /\ fields.return_label = inst.args["return_label"]
        /\ fields.exception_label = inst.args["exception_label"]
    BY <2>4
  <2>7. /\ fields.function = inst.args["function"]
        /\ fields.arguments = inst.args["arguments"]
        /\ fields.return_label = inst.args["return_label"]
        /\ fields.exception_label = inst.args["exception_label"]
    BY <1>2, <2>3, <2>5, <2>6, Zenon
  <2>8. DOMAIN fields = {"function", "arguments", "return_label", "exception_label"}
    BY <2>4, Zenon
  <2> HIDE DEF fields
  <2> QED
    BY <1>11, <2>3, <2>7, <2>8, Zenon DEF FieldsAreRoles, RoleRead, fields
<1>12. CASE inst.op = "CallBr"
  <2>1. Layout(inst.op) = <<"arguments", "return_label", "other_labels", "function">>
    BY <1>12, Zenon DEF Layout
  <2>2. DOMAIN inst.args = Range(<<"arguments", "return_label", "other_labels", "function">>)
    BY <1>12, <2>1, Zenon DEF Shaped, RoleSets
  <2>3. /\ DOMAIN inst.args = {"arguments", "return_label", "other_labels", "function"}
        /\ part(1) = inst.args["arguments"]
    BY <2>1, <2>2 DEF Range, Part, In
  <2>4. fields = [function |-> inst.args["function"],
                     arguments |-> SubSeq(o, 1, Len(inst.args["arguments"])),
                     return_label |-> normal_dest]
    BY <1>1, <1>12, Zenon DEF LlvmFields, CallBrFields, CallFields, o
  <2>5. \A r \in {"return_label", "function"} :
            /\ Len(inst.args[r]) = 1 /\ inst.args[r] # <<>>
            /\ inst.args[r] = <<inst.args[r][1]>>
    BY <1>3, <2>3, Zenon DEF ListRoles, OptionalRoles
  <2>6. /\ fields.function = inst.args["function"]
        /\ fields.arguments = SubSeq(o, 1, Len(inst.args["arguments"]))
        /\ fields.return_label = normal_dest
    BY <2>4
  <2>7. /\ fields.function = inst.args["function"]
        /\ fields.arguments = inst.args["arguments"]
    BY <1>2, <2>3, <2>5, <2>6, Zenon
  <2>8. DOMAIN fields = {"function", "arguments", "return_label"}
    BY <2>4, Zenon
  <2> HIDE DEF fields
  <2> QED
    BY <1>12, <2>3, <2>7, <2>8, Zenon DEF FieldsAreRoles, RoleRead, fields
<1>13. CASE inst.op = "CleanupRet"
  <2>1. Layout(inst.op) = <<"cleanup_pad", "unwind_dest">>
    BY <1>13, Zenon DEF Layout
  <2>2. DOMAIN inst.args = Range(<<"cleanup_pad", "unwind_dest">>)
    BY <1>13, <2>1, Zenon DEF Shaped, RoleSets
  <2>3. /\ DOMAIN inst.args = {"cleanup_pad", "unwind_dest"}
        /\ part(1) = inst.args["cleanup_pad"]
    BY <2>1, <2>2 DEF Range, Part, In
  <2>4. fields = [cleanup_pad |-> <<o[1]>>, unwind_dest |-> inst.args["unwind_dest"]]
    BY <1>1, <1>13, Zenon DEF LlvmFields, TerminatorFields, UnwindFields, o
  <2>5. \A r \in {"cleanup_pad"} :
            /\ Len(inst.args[r]) = 1 /\ inst.args[r] # <<>>
            /\ inst.args[r] = <<inst.args[r][1]>>
    BY <1>3, <2>3, Zenon DEF ListRoles, OptionalRoles
  <2>6. /\ fields.cleanup_pad = <<o[1]>>
        /\ fields.unwind_dest = inst.args["unwind_dest"]
    BY <2>4
  <2>7. /\ fields.cleanup_pad = inst.args["cleanup_pad"]
        /\ fields.unwind_dest = inst.args["unwind_dest"]
    BY <1>2, <2>3, <2>5, <2>6, Zenon
  <2>8. DOMAIN fields = {"cleanup_pad", "unwind_dest"}
    BY <2>4, Zenon
  <2> HIDE DEF fields
  <2> QED
    BY <1>13, <2>3, <2>7, <2>8, Zenon DEF FieldsAreRoles, RoleRead, fields
<1>14. CASE inst.op = "CatchRet"
  <2>1. Layout(inst.op) = <<"catch_pad", "successor">>
    BY <1>14, Zenon DEF Layout
  <2>2. DOMAIN inst.args = Range(<<"catch_pad", "successor">>)
    BY <1>14, <2>1, Zenon DEF Shaped, RoleSets
  <2>3. /\ DOMAIN inst.args = {"catch_pad", "successor"}
        /\ part(1) = inst.args["catch_pad"]
    BY <2>1, <2>2 DEF Range, Part, In
  <2>4. fields = [catch_pad |-> <<o[1]>>, successor |-> inst.args["successor"]]
    BY <1>1, <1>14, Zenon DEF LlvmFields, TerminatorFields, UnwindFields, o
  <2>5. \A r \in {"catch_pad", "successor"} :
            /\ Len(inst.args[r]) = 1 /\ inst.args[r] # <<>>
            /\ inst.args[r] = <<inst.args[r][1]>>
    BY <1>3, <2>3, Zenon DEF ListRoles, OptionalRoles
  <2>6. /\ fields.catch_pad = <<o[1]>>
        /\ fields.successor = inst.args["successor"]
    BY <2>4
  <2>7. /\ fields.catch_pad = inst.args["catch_pad"]
        /\ fields.successor = inst.args["successor"]
    BY <1>2, <2>3, <2>5, <2>6, Zenon
  <2>8. DOMAIN fields = {"catch_pad", "successor"}
    BY <2>4, Zenon
  <2> HIDE DEF fields
  <2> QED
    BY <1>14, <2>3, <2>7, <2>8, Zenon DEF FieldsAreRoles, RoleRead, fields
<1>15. CASE inst.op = "CatchSwitch"
  <2>1. Layout(inst.op) = <<"parent_pad", "default_unwind_dest", "catch_handlers">>
    BY <1>15, Zenon DEF Layout
  <2>2. DOMAIN inst.args = Range(<<"parent_pad", "default_unwind_dest", "catch_handlers">>)
    BY <1>15, <2>1, Zenon DEF Shaped, RoleSets
  <2>3. /\ DOMAIN inst.args = {"parent_pad", "default_unwind_dest", "catch_handlers"}
        /\ part(1) = inst.args["parent_pad"]
    BY <2>1, <2>2 DEF Range, Part, In
  <2>4. fields = [parent_pad |-> <<o[1]>>, catch_handlers |-> inst.args["catch_handlers"],
                     default_unwind_dest |-> inst.args["default_unwind_dest"]]
    BY <1>1, <1>15, Zenon DEF LlvmFields, TerminatorFields, UnwindFields, o
  <2>5. \A r \in {"parent_pad"} :
            /\ Len(inst.args[r]) = 1 /\ inst.args[r] # <<>>
            /\ inst.args[r] = <<inst.args[r][1]>>
    BY <1>3, <2>3, Zenon DEF ListRoles, OptionalRoles
  <2>6. /\ fields.parent_pad = <<o[1]>>
        /\ fields.catch_handlers = inst.args["catch_handlers"]
        /\ fields.default_unwind_dest = inst.args["default_unwind_dest"]
    BY <2>4
  <2>7. /\ fields.parent_pad = inst.args["parent_pad"]
        /\ fields.catch_handlers = inst.args["catch_handlers"]
        /\ fields.default_unwind_dest = inst.args["default_unwind_dest"]
    BY <1>2, <2>3, <2>5, <2>6, Zenon
  <2>8. DOMAIN fields = {"parent_pad", "catch_handlers", "default_unwind_dest"}
    BY <2>4, Zenon
  <2> HIDE DEF fields
  <2> QED
    BY <1>15, <2>3, <2>7, <2>8, Zenon DEF FieldsAreRoles, RoleRead, fields
<1> QED
  BY <1>4, <1>5, <1>6, <1>7, <1>8, <1>9, <1>10, <1>11, <1>12, <1>13, <1>14, <1>15, Zenon

\* A phi's values and blocks.
LEMMA PhiFieldsAreRoles ==
    ASSUME NEW inst, NEW normal_dest, Shaped(inst), inst.op = "Phi"
    PROVE  FieldsAreRoles(inst, normal_dest)
<1> DEFINE fields == LlvmFields(inst, normal_dest)
<1>1. fields = [incoming_values |-> inst.args["incoming_values"],
                incoming_blocks |-> inst.args["incoming_blocks"]]
  BY OtherOps, Zenon DEF LlvmFields, PhiFields
<1>2. DOMAIN inst.args = {"incoming_values", "incoming_blocks"}
  BY Zenon DEF Shaped, RoleSets
<1>3. /\ DOMAIN fields = {"incoming_values", "incoming_blocks"}
      /\ fields["incoming_values"] = inst.args["incoming_values"]
      /\ fields["incoming_blocks"] = inst.args["incoming_blocks"]
  BY <1>1
<1> HIDE DEF fields
<1> QED
  BY <1>2, <1>3, Zenon DEF FieldsAreRoles, RoleRead, fields

\* A branch: LLVM keeps the destinations of a conditional one in reverse.
LEMMA BrFieldsAreRoles ==
    ASSUME NEW V, NEW inst, NEW normal_dest, HoldsValues(inst, V), Shaped(inst), inst.op = "Br"
    PROVE  FieldsAreRoles(inst, normal_dest) /\ Len(Operands(inst)) \in {1, 3}
<1> DEFINE o == Operands(inst)
           fields == LlvmFields(inst, normal_dest)
           part(k) == Part(inst, k)
<1>1. fields = IF Len(o) = 1 THEN [dest |-> o]
               ELSE [condition |-> <<o[1]>>, true_dest |-> <<o[3]>>, false_dest |-> <<o[2]>>]
  BY OtherOps, Zenon DEF LlvmFields, TerminatorFields, BranchFields
<1>2. Layout(inst.op) = <<"condition", "false_dest", "true_dest", "dest">>
  BY Zenon DEF Layout, BinaryOps, ArithmeticOps, BitwiseOps, ShiftOps, FloatOps,
     CastOps, IntCastOps, FloatCastOps, PointerCastOps
<1>3. /\ part(1) = In(inst, "condition") /\ part(2) = In(inst, "false_dest")
      /\ part(3) = In(inst, "true_dest") /\ part(4) = In(inst, "dest")
  BY <1>2 DEF Part
<1>4. /\ Len(o) = Len(part(1)) + Len(part(2)) + Len(part(3)) + Len(part(4))
      /\ part(1) # <<>> => o[1] = part(1)[1]
      /\ Len(part(1)) = 1 /\ Len(part(2)) = 1 => o[2] = part(2)[1]
      /\ Len(part(1)) = 1 /\ Len(part(2)) = 1 /\ Len(part(3)) = 1 => o[3] = part(3)[1]
      /\ part(1) = <<>> /\ part(2) = <<>> /\ part(3) = <<>> => o = part(4)
  BY OperandParts, Zenon
<1>5. \A r \in DOMAIN inst.args \ (ListRoles \cup OptionalRoles) :
          /\ Len(inst.args[r]) = 1 /\ inst.args[r] # <<>>
          /\ inst.args[r] = <<inst.args[r][1]>>
  BY SingleRoles, Zenon
<1> HIDE DEF o
<1>6. DOMAIN inst.args \in {{"dest"}, {"condition", "true_dest", "false_dest"}}
  BY Zenon DEF Shaped, RoleSets
<1>7. CASE DOMAIN inst.args = {"dest"}
  <2>1. o = inst.args["dest"] /\ Len(inst.args["dest"]) = 1
    BY <1>3, <1>4, <1>5, <1>7, Zenon DEF In, ListRoles, OptionalRoles
  <2>2. fields = [dest |-> o]
    BY <1>1, <2>1, Zenon
  <2>3. DOMAIN fields = {"dest"} /\ fields["dest"] = o
    BY <2>2
  <2> HIDE DEF fields
  <2> QED
    BY <1>7, <2>1, <2>3, Zenon DEF FieldsAreRoles, RoleRead, fields, o
<1>8. CASE DOMAIN inst.args = {"condition", "true_dest", "false_dest"}
  <2>1. \A r \in DOMAIN inst.args :
            /\ Len(inst.args[r]) = 1 /\ inst.args[r] # <<>>
            /\ inst.args[r] = <<inst.args[r][1]>>
    BY <1>5, <1>8, Zenon DEF ListRoles, OptionalRoles
  <2>2. /\ part(1) = inst.args["condition"] /\ part(2) = inst.args["false_dest"]
        /\ part(3) = inst.args["true_dest"] /\ part(4) = <<>>
    BY <1>3, <1>8, Zenon DEF In
  <2>3. Len(part(1)) = 1 /\ Len(part(2)) = 1 /\ Len(part(3)) = 1 /\ part(1) # <<>>
    BY <1>8, <2>1, <2>2, Zenon
  <2>4. /\ <<o[1]>> = inst.args["condition"] /\ <<o[2]>> = inst.args["false_dest"]
        /\ <<o[3]>> = inst.args["true_dest"]
    <3>1. /\ o[1] = inst.args["condition"][1] /\ o[2] = inst.args["false_dest"][1]
          /\ o[3] = inst.args["true_dest"][1]
      BY <1>4, <2>2, <2>3, Zenon
    <3>2. /\ inst.args["condition"] = <<inst.args["condition"][1]>>
          /\ inst.args["false_dest"] = <<inst.args["false_dest"][1]>>
          /\ inst.args["true_dest"] = <<inst.args["true_dest"][1]>>
      BY <1>8, <2>1, Zenon
    <3> QED
      BY <3>1, <3>2, Zenon
  <2>5. Len(o) = 3
    <3>1. Len(o) = Len(part(1)) + Len(part(2)) + Len(part(3)) + Len(<<>>)
      BY <1>4, <2>2, Zenon
    <3>2. Len(<<>>) = 0
      OBVIOUS
    <3>3. Len(o) = 1 + 1 + 1 + 0
      BY <2>3, <3>1, <3>2, Zenon
    <3> QED
      BY ONLY <3>3
  <2>6. fields = [condition |-> <<o[1]>>, true_dest |-> <<o[3]>>, false_dest |-> <<o[2]>>]
    BY <1>1, <2>5
  <2>7. /\ DOMAIN fields = {"condition", "true_dest", "false_dest"}
        /\ fields["condition"] = <<o[1]>> /\ fields["true_dest"] = <<o[3]>>
        /\ fields["false_dest"] = <<o[2]>>
    BY <2>6
  <2> HIDE DEF fields
  <2> QED
    BY <1>8, <2>4, <2>5, <2>7, Zenon DEF FieldsAreRoles, RoleRead, fields, o
<1> QED
  BY <1>6, <1>7, <1>8, Zenon

\* A switch: the value of case i is operand 2i and its block successor i.
LEMMA SwitchFieldsAreRoles ==
    ASSUME NEW V, NEW inst, NEW normal_dest, HoldsValues(inst, V), Shaped(inst), inst.op = "Switch"
    PROVE  FieldsAreRoles(inst, normal_dest)
<1> DEFINE o == Operands(inst)
           operand == inst.args["operand"]
           default == inst.args["default_dest"]
           values == inst.args["values"]
           dests == inst.args["dests"]
           cases == Cases(inst)
           successors == default \o dests
           n == Len(values)
<1>1. DOMAIN inst.args = {"operand", "default_dest", "values", "dests"}
  BY Zenon DEF Shaped, RoleSets
<1>2. operand \in Seq(V) /\ default \in Seq(V) /\ values \in Seq(V) /\ dests \in Seq(V)
  BY <1>1, Zenon DEF HoldsValues
<1>3. Len(operand) = 1 /\ Len(default) = 1 /\ Len(dests) = n /\ operand = <<operand[1]>>
  <2>1. {"operand", "default_dest"} \subseteq DOMAIN inst.args \ (ListRoles \cup OptionalRoles)
    BY <1>1, Zenon DEF ListRoles, OptionalRoles
  <2>2. Len(operand) = 1 /\ Len(default) = 1 /\ operand = <<operand[1]>>
    <3>1. \A r \in DOMAIN inst.args \ (ListRoles \cup OptionalRoles) :
              Len(inst.args[r]) = 1 /\ inst.args[r] = <<inst.args[r][1]>>
      BY SingleRoles, Zenon
    <3> QED
      BY <2>1, <3>1, Zenon
  <2>3. Len(dests) = n
    BY Zenon DEF Shaped
  <2> QED
    BY <2>2, <2>3, Zenon
<1>4. o = operand \o default \o cases
  BY Zenon DEF Operands
<1>5. cases = [k \in 1 .. 2 * n |-> IF k % 2 = 1 THEN values[(k + 1) \div 2] ELSE dests[k \div 2]]
  BY Zenon DEF Cases
<1>6. LlvmFields(inst, normal_dest) =
          [operand |-> <<o[1]>>, values |-> [i \in 1 .. Len(successors) - 1 |-> o[2 * i + 1]],
           dests |-> [i \in 1 .. Len(successors) - 1 |-> successors[i + 1]],
           default_dest |-> default]
  BY OtherOps, Zenon DEF LlvmFields, TerminatorFields, SwitchFields
<1> HIDE DEF o, operand, default, values, dests, cases
<1>7. n \in Nat /\ cases \in Seq(V)
  <2>1. n \in Nat /\ DOMAIN values = 1..n /\ DOMAIN dests = 1..n
    BY ONLY <1>2, <1>3
  <2>2. \A k \in 1 .. 2 * n : cases[k] \in V
    <3> SUFFICES ASSUME NEW k \in 1 .. 2 * n PROVE cases[k] \in V
      BY Zenon
    <3>1. k % 2 = 1 => (k + 1) \div 2 \in 1..n
      BY ONLY <2>1
    <3>2. k % 2 # 1 => k \div 2 \in 1..n
      BY ONLY <2>1
    <3> QED
      BY <1>2, <1>5, <2>1, <3>1, <3>2
  <2>3. cases \in [1 .. 2 * n -> V]
    BY <1>5, <2>2, Zenon
  <2> QED
    BY ONLY <2>1, <2>3
<1>8. Len(cases) = 2 * n
  <2>1. Len(cases) \in Nat /\ 2 * n \in Nat /\ DOMAIN cases = 1..Len(cases)
    BY ONLY <1>7
  <2>2. 1..Len(cases) = 1 .. 2 * n
    BY <1>5, <2>1, Zenon
  <2>3. ASSUME NEW a \in Nat, NEW b \in Nat, 1..a = 1..b PROVE a = b
    <3>1. /\ a \in 1..a \/ a = 0
          /\ b \in 1..b \/ b = 0
      BY ONLY a \in Nat, b \in Nat
    <3> QED
      BY ONLY <3>1, <2>3, a \in Nat, b \in Nat
  <2> QED
    BY <2>1, <2>2, <2>3, Zenon
<1>9. o[1] = operand[1] /\ \A j \in 1 .. 2 * n : o[2 + j] = cases[j]
  <2>1. \A j \in 1..Len(cases) : o[Len(operand) + Len(default) + j] = cases[j]
    BY ONLY <1>2, <1>4, <1>7
  <2>2. 1 \in 1..Len(operand) => o[1] = operand[1]
    BY ONLY <1>2, <1>4, <1>7
  <2>3. Len(operand) + Len(default) = 2 /\ 1 \in 1..Len(operand)
    BY ONLY <1>3
  <2> QED
    BY <1>8, <2>1, <2>2, <2>3, Zenon
<1>10. \A i \in 1..n : o[2 * i + 1] = values[i]
  <2> SUFFICES ASSUME NEW i \in 1..n PROVE o[2 * i + 1] = values[i]
    BY Zenon
  <2>1. /\ 2 * i - 1 \in 1 .. 2 * n /\ 2 + (2 * i - 1) = 2 * i + 1
        /\ (2 * i - 1) % 2 = 1 /\ ((2 * i - 1) + 1) \div 2 = i
    BY ONLY <1>7
  <2>2. o[2 * i + 1] = cases[2 * i - 1]
    BY <1>9, <2>1, Zenon
  <2> QED
    BY <1>5, <2>1, <2>2, Zenon
<1>11. Len(successors) - 1 = n /\ \A i \in 1..n : successors[i + 1] = dests[i]
  <2>1. successors \in Seq(V) /\ Len(successors) = Len(default) + Len(dests)
    BY ONLY <1>2
  <2>2. \A i \in 1..Len(dests) : successors[Len(default) + i] = dests[i]
    BY ONLY <1>2
  <2> HIDE DEF successors
  <2>3. Len(successors) - 1 = n
    BY ONLY <2>1, <1>3, <1>7
  <2>4. \A i \in 1..n : successors[1 + i] = dests[i] /\ 1 + i = i + 1
    BY ONLY <2>2, <1>3, <1>7
  <2> QED
    BY <2>3, <2>4, Zenon
<1> HIDE DEF successors
<1>12. [i \in 1 .. Len(successors) - 1 |-> o[2 * i + 1]] = values
  <2>1. values = [i \in 1..n |-> values[i]]
    BY ONLY <1>2
  <2> QED
    BY ONLY <1>10, <1>11, <2>1
<1>13. [i \in 1 .. Len(successors) - 1 |-> successors[i + 1]] = dests
  <2>1. dests = [i \in 1..n |-> dests[i]]
    BY ONLY <1>2, <1>3
  <2> QED
    BY ONLY <1>11, <2>1
<1>14. <<o[1]>> = operand
  BY <1>3, <1>9, Zenon
<1>15. LlvmFields(inst, normal_dest) =
          [operand |-> operand, values |-> values, dests |-> dests, default_dest |-> default]
  BY <1>6, <1>12, <1>13, <1>14, Zenon
<1> DEFINE fields == LlvmFields(inst, normal_dest)
<1>16. /\ DOMAIN fields = {"operand", "default_dest", "values", "dests"}
       /\ fields["operand"] = operand /\ fields["default_dest"] = default
       /\ fields["values"] = values /\ fields["dests"] = dests
  BY <1>15
<1> HIDE DEF fields
<1> QED
  BY <1>1, <1>16, Zenon DEF FieldsAreRoles, RoleRead, operand, default, values, dests, fields

\* For every instruction and terminator that LLVM's verifier lets pass, whatever its
\* operands and however many: each field that from_llvm_ref fills from operands by
\* their numbers holds the operands of the role the field is named for, in order.
THEOREM FieldsHoldRoles ==
    ASSUME NEW V, NEW inst, NEW normal_dest, HoldsValues(inst, V), Shaped(inst)
    PROVE  FieldsAreRoles(inst, normal_dest)
<1>1. inst.op \in InstOps \cup TermOps
  BY Zenon DEF Shaped
<1>2. \/ inst.op \in FixedOps
      \/ inst.op \in {"GetElementPtr", "LandingPad", "CatchPad", "CleanupPad", "Ret", "IndirectBr",
                       "Call", "Invoke", "CallBr", "CleanupRet", "CatchRet", "CatchSwitch"}
      \/ inst.op \in {"Phi", "Br", "Switch"}
  BY <1>1, Zenon DEF InstOps, TermOps, FixedOps, VectorOps, MemoryOps
<1> QED
  BY <1>2, FixedFields, ListFields, PhiFieldsAreRoles, BrFieldsAreRoles, SwitchFieldsAreRoles,
     Zenon

\* The assertions of from_llvm_ref about the number of operands hold for every
\* instruction LLVM's verifier lets pass, but for a cleanupret that unwinds to a block.
THEOREM CountsAsserted ==
    ASSUME NEW V, NEW inst, HoldsValues(inst, V), Shaped(inst)
    PROVE  CountFails(inst) <=> inst.op = "CleanupRet" /\ inst.args["unwind_dest"] # <<>>
<1> DEFINE n == Len(Operands(inst))
           len(k) == Len(Part(inst, k))
<1>1. CASE inst.op \in FixedOps
  <2>1. Range(FixedOperands(inst.op)) = 0 .. n - 1
    BY <1>1, FixedFields, Zenon
  <2>2. inst.op \notin {"Ret", "Br", "CleanupRet"}
    BY <1>1, OtherOps, Zenon
  <2> QED
    BY <1>1, <2>1, <2>2, Zenon DEF CountFails
<1>2. CASE inst.op = "Br"
  <2>1. n \in {1, 3}
    BY <1>2, BrFieldsAreRoles, Zenon
  <2> QED
    BY <1>2, <2>1, OtherOps, Zenon DEF CountFails
<1>3. inst.op \in {"Ret", "CleanupRet"} => n = len(1) + len(2) + len(3) + len(4)
  BY OperandParts, Zenon
<1>4. Len(<<>>) = 0
  OBVIOUS
<1> USE DEF BinaryOps, ArithmeticOps, BitwiseOps, ShiftOps, FloatOps,
            CastOps, IntCastOps, FloatCastOps, PointerCastOps
<1>5. CASE inst.op = "Ret"
  <2>1. Layout(inst.op) = <<"return_operand">>
    BY <1>5, Zenon DEF Layout
  <2>2. DOMAIN inst.args = Range(<<"return_operand">>)
    BY <1>5, <2>1, Zenon DEF Shaped, RoleSets
  <2>3. /\ DOMAIN inst.args = {"return_operand"} /\ Part(inst, 1) = inst.args["return_operand"]
        /\ Part(inst, 2) = <<>> /\ Part(inst, 3) = <<>> /\ Part(inst, 4) = <<>>
    BY <2>1, <2>2 DEF Range, Part, In
  <2>4. len(1) \in {0, 1} /\ len(2) = 0 /\ len(3) = 0 /\ len(4) = 0
    BY <1>4, <2>3, Zenon DEF Shaped, ListRoles
  <2> HIDE DEF n, len
  <2>5. ~(n > 1)
    BY ONLY <1>3, <1>5, <2>4
  <2> QED
    BY <1>5, <2>5, OtherOps, Zenon DEF CountFails, n
<1>6. CASE inst.op = "CleanupRet"
  <2>1. Layout(inst.op) = <<"cleanup_pad", "unwind_dest">>
    BY <1>6, Zenon DEF Layout
  <2>2. DOMAIN inst.args = Range(<<"cleanup_pad", "unwind_dest">>)
    BY <1>6, <2>1, Zenon DEF Shaped, RoleSets
  <2>3. /\ DOMAIN inst.args = {"cleanup_pad", "unwind_dest"}
        /\ Part(inst, 1) = inst.args["cleanup_pad"] /\ Part(inst, 2) = inst.args["unwind_dest"]
        /\ Part(inst, 3) = <<>> /\ Part(inst, 4) = <<>>
    BY <2>1, <2>2 DEF Range, Part, In
  <2>4. len(1) = 1 /\ len(3) = 0 /\ len(4) = 0
    BY <1>4, <2>3, Zenon DEF Shaped, ListRoles, OptionalRoles
  <2>5. /\ inst.args["unwind_dest"] = <<>> => len(2) = 0
        /\ inst.args["unwind_dest"] # <<>> => len(2) = 1
    <3>1. Len(inst.args["unwind_dest"]) = 1 \/ inst.args["unwind_dest"] = <<>>
      BY <2>3, Zenon DEF Shaped, ListRoles
    <3>2. len(2) = Len(inst.args["unwind_dest"])
      BY <2>3, Zenon
    <3> QED
      BY <1>4, <3>1, <3>2, Zenon
  <2> HIDE DEF n, len
  <2>6. n # 1 <=> inst.args["unwind_dest"] # <<>>
    BY ONLY <1>3, <1>6, <2>4, <2>5
  <2> QED
    BY <1>6, <2>6, OtherOps, Zenon DEF CountFails, n
<1>7. CASE inst.op \notin FixedOps \cup {"Br", "Ret", "CleanupRet"}
  BY <1>7, Zenon DEF CountFails
<1> QED
  BY <1>1, <1>2, <1>5, <1>6, <1>7, Zenon

-----------------------------------------------------------------------------
(* The data layout.                                                        *)

\* The fields of a DataLayout and of its Alignments.
LayoutFields ==
    {"endianness", "stack_alignment", "program_address_space", "alloca_address_space",
     "mangling", "native_int_widths", "non_integral_ptr_types", "panicked",
     "int", "vec", "fp", "agg", "fptr", "ptr"}

\* The specifications at which the reader panics.
Refused(s) == s.key \notin ReaderKeys \/ (s.key = "m" /\ s.about \notin Manglings)

\* The pointer layouts that a list of specifications defines.
PtrEntries(ss) ==
    [a \in {0} \cup Abouts(ss, "p") |->
        IF LastSpec(ss, "p", a) = <<>> THEN DefaultPointer
                                       ELSE PointerLayout(LastSpec(ss, "p", a))]

\* The tables are what the specifications read so far say.
LayoutInv ==
    /\ specs \in Seq(Specs)
    /\ DOMAIN layout = LayoutFields
    /\ layout.panicked \in BOOLEAN
    /\ LayoutPanics
    /\ ~layout.panicked =>
          /\ layout.int = Entries(specs, "i", DefaultAlignments.int)
          /\ layout.vec = Entries(specs, "v", DefaultAlignments.vec)
          /\ layout.fp = Entries(specs, "f", DefaultAlignments.fp)
          /\ layout.ptr = PtrEntries(specs)

\* A set of natural numbers that is not empty has a least one.
LEMMA LeastNumber ==
    ASSUME NEW U \in SUBSET Nat, U # {}
    PROVE  \E u \in U : \A v \in U : ~(v < u)
<1> DEFINE R == OpToRel(<, Nat)
<1>1. IsWellFoundedOn(R, Nat)
  BY NatLessThanWellFounded, Zenon
<1>2. \A u, v \in Nat : v < u => <<v, u>> \in R
  BY Zenon DEF OpToRel
<1> HIDE DEF R
<1>3. \E u \in U : \A v \in U : ~(<<v, u>> \in R)
  BY <1>1, WFMin, Zenon
<1> QED
  BY <1>2, <1>3, Zenon

\* A set of positions that is not empty has a largest one.
LEMMA MaxOfPositions ==
    ASSUME NEW n \in Nat, NEW S \in SUBSET (1..n), S # {}
    PROVE  Max(S) \in S
<1> DEFINE U == {m \in Nat : \A y \in S : m >= y}
<1>1. n \in U /\ U \in SUBSET Nat
  OBVIOUS
<1> HIDE DEF U
<1>2. PICK u \in U : \A v \in U : ~(v < u)
  BY <1>1, LeastNumber, Zenon
<1> USE DEF U
<1>3. u \in S
  <2> SUFFICES ASSUME u \notin S PROVE FALSE
    BY Zenon
  <2>0. u \in Nat /\ S \subseteq Nat \ {0} /\ \A y \in S : u >= y /\ u # y
    BY <1>2
  <2>1. u - 1 \in Nat /\ \A y \in S : u - 1 >= y
    <3>1. \A y \in S : u - 1 >= y /\ y >= 1
      BY ONLY <2>0
    <3>2. PICK y \in S : u - 1 >= y /\ y >= 1 /\ y \in Nat
      BY <2>0, <3>1, Zenon
    <3>3. u - 1 \in Nat
      BY ONLY <2>0, <3>2
    <3> QED
      BY <3>1, <3>3, Zenon
  <2> QED
    BY <1>2, <2>1
<1>4. \A y \in S : u >= y
  BY <1>2, Zenon
<1> HIDE DEF U
<1> QED
  BY <1>3, <1>4, Zenon DEF Max

\* The last specification of a key, one specification later.
LEMMA LastSpecAppend ==
    ASSUME NEW ss \in Seq(Specs), NEW s \in Specs, NEW key, NEW about
    PROVE  LastSpec(Append(ss, s), key, about) =
              IF s.key = key /\ s.about = about THEN s.nums ELSE LastSpec(ss, key, about)
<1> DEFINE n == Len(ss)
           after == Append(ss, s)
           at == {k \in DOMAIN ss : ss[k].key = key /\ ss[k].about = about}
           at2 == {k \in DOMAIN after : after[k].key = key /\ after[k].about = about}
<1>1. n \in Nat /\ DOMAIN ss = 1..n /\ DOMAIN after = 1..(n + 1) /\ after[n + 1] = s
  OBVIOUS
<1>2. \A k \in 1..n : after[k] = ss[k]
  OBVIOUS
<1>3. CASE s.key = key /\ s.about = about
  <2>1. n + 1 \in at2 /\ \A y \in at2 : n + 1 >= y
    BY <1>1, <1>3
  <2>2. at2 \subseteq Int
    BY <1>1
  <2>3. \A x \in at2 : (\A y \in at2 : x >= y) => x = n + 1
    BY ONLY <2>1, <2>2, <1>1
  <2> HIDE DEF at2, after, n
  <2>4. Max(at2) = n + 1
    BY <2>1, <2>3, Zenon DEF Max
  <2>5. at2 # {}
    BY <2>1, Zenon
  <2> USE DEF at2
  <2> QED
    BY <2>4, <2>5, <1>1, <1>3, Zenon DEF LastSpec, after
<1>4. CASE ~(s.key = key /\ s.about = about)
  <2>1. at2 = at
    BY <1>1, <1>2, <1>4
  <2>2. at \in SUBSET (1..n)
    BY <1>1
  <2>3. CASE at = {}
    BY <2>1, <2>3, <1>4, Zenon DEF LastSpec
  <2>4. CASE at # {}
    <3>1. Max(at) \in 1..n
      <4> HIDE DEF at, n
      <4> QED
        BY <1>1, <2>2, <2>4, MaxOfPositions, Zenon
    <3>2. after[Max(at)].nums = ss[Max(at)].nums
      BY <3>1, <1>2, Zenon
    <3> QED
      BY <2>1, <2>4, <3>2, <1>4, Zenon DEF LastSpec
  <2> QED
    BY <2>3, <2>4, Zenon
<1> QED
  BY <1>3, <1>4, Zenon

\* A specification that is an entry of a table has numbers.
LEMMA EntryHasNumbers ==
    ASSUME NEW s \in Specs, s.key \in {"i", "v", "f", "p"}
    PROVE  s.nums # <<>>
<1>1. s.nums \in Seq(Nat) /\ Len(s.nums) \in {1, 2, 3, 4}
  BY LayoutAssumption, Zenon DEF WellFormed, AbiKeys
<1>2. Len(<<>>) = 0 /\ 0 \notin {1, 2, 3, 4}
  OBVIOUS
<1> QED
  BY <1>1, <1>2, Zenon

\* Entries, one specification later: those of its key gain or change one entry.
LEMMA EntriesAppend ==
    ASSUME NEW ss \in Seq(Specs), NEW s \in Specs, NEW key, NEW defaults,
           s.key = key => s.nums # <<>>
    PROVE  /\ Abouts(Append(ss, s), key) =
                 Abouts(ss, key) \cup (IF s.key = key THEN {s.about} ELSE {})
           /\ Entries(Append(ss, s), key, defaults) =
                 IF s.key = key THEN Insert(Entries(ss, key, defaults), s.about, AbiPref(s.nums))
                                ELSE Entries(ss, key, defaults)
<1>1. Abouts(Append(ss, s), key) =
          Abouts(ss, key) \cup (IF s.key = key THEN {s.about} ELSE {})
  <2>1. /\ DOMAIN Append(ss, s) = DOMAIN ss \cup {Len(ss) + 1}
        /\ Append(ss, s)[Len(ss) + 1] = s
        /\ \A k \in DOMAIN ss : Append(ss, s)[k] = ss[k]
    OBVIOUS
  <2> DEFINE after == Append(ss, s)  n == Len(ss) + 1
  <2> HIDE DEF after, n
  <2> SUFFICES Abouts(after, key) =
          Abouts(ss, key) \cup (IF s.key = key THEN {s.about} ELSE {})
    BY DEF after
  <2>2. /\ DOMAIN after = DOMAIN ss \cup {n} /\ after[n] = s
        /\ \A k \in DOMAIN ss : after[k] = ss[k]
    BY <2>1 DEF after, n
  <2> QED
    BY <2>2, Zenon DEF Abouts
<1>2. CASE s.key = key
  <2>1. \A k : LastSpec(Append(ss, s), key, k) =
            IF s.about = k THEN s.nums ELSE LastSpec(ss, key, k)
    BY <1>2, LastSpecAppend
  <2> QED
    BY <1>1, <1>2, <2>1 DEF Entries, Insert
<1>3. CASE s.key # key
  <2>2. Abouts(Append(ss, s), key) = Abouts(ss, key)
    BY <1>1, <1>3, Zenon
  <2>1. \A k : LastSpec(Append(ss, s), key, k) = LastSpec(ss, key, k)
    BY <1>3, LastSpecAppend
  <2> QED
    BY <2>2, <1>3, <2>1 DEF Entries
<1> QED
  BY <1>1, <1>2, <1>3, Zenon

\* The same for the pointer layouts.
LEMMA PtrEntriesAppend ==
    ASSUME NEW ss \in Seq(Specs), NEW s \in Specs, s.key = "p" => s.nums # <<>>
    PROVE  PtrEntries(Append(ss, s)) =
              IF s.key = "p" THEN Insert(PtrEntries(ss), s.about, PointerLayout(s.nums))
                             ELSE PtrEntries(ss)
<1>1. Abouts(Append(ss, s), "p") =
          Abouts(ss, "p") \cup (IF s.key = "p" THEN {s.about} ELSE {})
  BY EntriesAppend, Zenon
<1>2. CASE s.key = "p"
  <2>1. \A k : LastSpec(Append(ss, s), "p", k) =
            IF s.about = k THEN s.nums ELSE LastSpec(ss, "p", k)
    BY <1>2, LastSpecAppend
  <2> QED
    BY <1>1, <1>2, <2>1 DEF PtrEntries, Insert
<1>3. CASE s.key # "p"
  <2>2. Abouts(Append(ss, s), "p") = Abouts(ss, "p")
    BY <1>1, <1>3, Zenon
  <2>1. \A k : LastSpec(Append(ss, s), "p", k) = LastSpec(ss, "p", k)
    BY <1>3, LastSpecAppend
  <2> QED
    BY <2>2, <1>3, <2>1 DEF PtrEntries
<1> QED
  BY <1>2, <1>3, Zenon

\* An update of one field of the layout.
LEMMA FieldUpdate ==
    ASSUME NEW l, DOMAIN l = LayoutFields, NEW f \in LayoutFields, NEW v
    PROVE  /\ DOMAIN [l EXCEPT ![f] = v] = LayoutFields
           /\ \A g \in LayoutFields : [l EXCEPT ![f] = v][g] = IF g = f THEN v ELSE l[g]
  BY Zenon

\* One turn of the loop: the fields stay, a refused specification panics, and only a
\* specification of its key changes a table.
LEMMA ReadSpecEffect ==
    ASSUME NEW l, DOMAIN l = LayoutFields, NEW s \in Specs, l.panicked = FALSE
    PROVE  /\ DOMAIN ReadSpec(l, s) = LayoutFields
           /\ ReadSpec(l, s).panicked \in BOOLEAN
           /\ ReadSpec(l, s).panicked <=> Refused(s)
           /\ ReadSpec(l, s).int =
                 IF s.key = "i" THEN Insert(l.int, s.about, AbiPref(s.nums)) ELSE l.int
           /\ ReadSpec(l, s).vec =
                 IF s.key = "v" THEN Insert(l.vec, s.about, AbiPref(s.nums)) ELSE l.vec
           /\ ReadSpec(l, s).fp =
                 IF s.key = "f" THEN Insert(l.fp, s.about, AbiPref(s.nums)) ELSE l.fp
           /\ ReadSpec(l, s).ptr =
                 IF s.key = "p" THEN Insert(l.ptr, s.about, PointerLayout(s.nums)) ELSE l.ptr
<1>1. s.key = "ni" => 0 \notin Range(s.nums)
  BY LayoutAssumption, Zenon DEF WellFormed, Range
<1>2. CASE s.key \in {"E", "e"}
  <2>1. ReadSpec(l, s) = [l EXCEPT !["endianness"] = s.key]
    BY <1>1, <1>2, Zenon DEF ReadSpec, Refused, ReaderKeys
  <2> QED
    BY <2>1, <1>2, FieldUpdate, Zenon DEF LayoutFields, Refused, ReaderKeys
<1>3. CASE s.key = "S"
  <2>1. ReadSpec(l, s) = [l EXCEPT !["stack_alignment"] = s.nums[1]]
    BY <1>1, <1>3, Zenon DEF ReadSpec, Refused, ReaderKeys
  <2> QED
    BY <2>1, <1>3, FieldUpdate, Zenon DEF LayoutFields, Refused, ReaderKeys
<1>4. CASE s.key = "P"
  <2>1. ReadSpec(l, s) = [l EXCEPT !["program_address_space"] = s.nums[1]]
    BY <1>1, <1>4, Zenon DEF ReadSpec, Refused, ReaderKeys
  <2> QED
    BY <2>1, <1>4, FieldUpdate, Zenon DEF LayoutFields, Refused, ReaderKeys
<1>5. CASE s.key = "A"
  <2>1. ReadSpec(l, s) = [l EXCEPT !["alloca_address_space"] = s.nums[1]]
    BY <1>1, <1>5, Zenon DEF ReadSpec, Refused, ReaderKeys
  <2> QED
    BY <2>1, <1>5, FieldUpdate, Zenon DEF LayoutFields, Refused, ReaderKeys
<1>6. CASE s.key = "p"
  <2>1. ReadSpec(l, s) = [l EXCEPT !["ptr"] = Insert(l.ptr, s.about, PointerLayout(s.nums))]
    BY <1>1, <1>6, Zenon DEF ReadSpec, AlignmentSpec, Refused, ReaderKeys
  <2> QED
    BY <2>1, <1>6, FieldUpdate, Zenon DEF LayoutFields, Refused, ReaderKeys
<1>7. CASE s.key = "i"
  <2>1. ReadSpec(l, s) = [l EXCEPT !["int"] = Insert(l.int, s.about, AbiPref(s.nums))]
    BY <1>1, <1>7, Zenon DEF ReadSpec, AlignmentSpec, Refused, ReaderKeys
  <2> QED
    BY <2>1, <1>7, FieldUpdate, Zenon DEF LayoutFields, Refused, ReaderKeys
<1>8. CASE s.key = "v"
  <2>1. ReadSpec(l, s) = [l EXCEPT !["vec"] = Insert(l.vec, s.about, AbiPref(s.nums))]
    BY <1>1, <1>8, Zenon DEF ReadSpec, AlignmentSpec, Refused, ReaderKeys
  <2> QED
    BY <2>1, <1>8, FieldUpdate, Zenon DEF LayoutFields, Refused, ReaderKeys
<1>9. CASE s.key = "f"
  <2>1. ReadSpec(l, s) = [l EXCEPT !["fp"] = Insert(l.fp, s.about, AbiPref(s.nums))]
    BY <1>1, <1>9, Zenon DEF ReadSpec, AlignmentSpec, Refused, ReaderKeys
  <2> QED
    BY <2>1, <1>9, FieldUpdate, Zenon DEF LayoutFields, Refused, ReaderKeys
<1>10. CASE s.key = "a"
  <2>1. ReadSpec(l, s) = [l EXCEPT !["agg"] = AbiPref(s.nums)]
    BY <1>1, <1>10, Zenon DEF ReadSpec, AlignmentSpec, Refused, ReaderKeys
  <2> QED
    BY <2>1, <1>10, FieldUpdate, Zenon DEF LayoutFields, Refused, ReaderKeys
<1>11. CASE s.key \in {"Fi", "Fn"}
  <2>1. ReadSpec(l, s) = [l EXCEPT !["fptr"] = [independent |-> s.key = "Fi", abi |-> s.nums[1]]]
    BY <1>1, <1>11, Zenon DEF ReadSpec, AlignmentSpec, Refused, ReaderKeys
  <2> QED
    BY <2>1, <1>11, FieldUpdate, Zenon DEF LayoutFields, Refused, ReaderKeys
<1>12. CASE s.key = "m" /\ s.about \in Manglings
  <2>1. ReadSpec(l, s) = [l EXCEPT !["mangling"] = s.about]
    BY <1>1, <1>12, Zenon DEF ReadSpec, Refused, ReaderKeys
  <2> QED
    BY <2>1, <1>12, FieldUpdate, Zenon DEF LayoutFields, Refused, ReaderKeys
<1>13. CASE s.key = "ni"
  <2>1. ReadSpec(l, s) =
            [l EXCEPT !["non_integral_ptr_types"] = l.non_integral_ptr_types \cup Range(s.nums)]
    BY <1>1, <1>13, Zenon DEF ReadSpec, Refused, ReaderKeys
  <2> QED
    BY <2>1, <1>13, FieldUpdate, Zenon DEF LayoutFields, Refused, ReaderKeys
<1>14. CASE s.key = "n"
  <2>1. ReadSpec(l, s) = [l EXCEPT !["native_int_widths"] = l.native_int_widths \cup Range(s.nums)]
    BY <1>1, <1>14, Zenon DEF ReadSpec, Refused, ReaderKeys
  <2> QED
    BY <2>1, <1>14, FieldUpdate, Zenon DEF LayoutFields, Refused, ReaderKeys
<1>15. CASE Refused(s)
  <2>1. ReadSpec(l, s) = [l EXCEPT !["panicked"] = TRUE]
    BY <1>1, <1>15, Zenon DEF ReadSpec, Refused, ReaderKeys
  <2> QED
    BY <2>1, <1>15, FieldUpdate, Zenon DEF LayoutFields, Refused, ReaderKeys
<1>16. CASE s.key = ""
  <2>1. ReadSpec(l, s) = l
    BY <1>16, Zenon DEF ReadSpec
  <2> QED
    BY <2>1, <1>16, Zenon DEF Refused, ReaderKeys
<1> QED
  BY <1>2, <1>3, <1>4, <1>5, <1>6, <1>7, <1>8, <1>9, <1>10, <1>11, <1>12, <1>13, <1>14, <1>15,
     <1>16, Zenon DEF Refused, ReaderKeys

\* The defaults are what an empty list of specifications says.
LEMMA LayoutInitial == LayoutInit => LayoutInv
<1> SUFFICES ASSUME LayoutInit PROVE LayoutInv
  OBVIOUS
<1>1. specs = <<>> /\ layout = DefaultLayout
  BY DEF LayoutInit
<1>2. \A key : Abouts(specs, key) = {}
  BY <1>1 DEF Abouts
<1>3. \A key, about : LastSpec(specs, key, about) = <<>>
  BY <1>1 DEF LastSpec
<1>4. \A key, d : Entries(specs, key, d) = [k \in DOMAIN d |-> d[k]]
  BY <1>2, <1>3, Zenon DEF Entries
<1>5. /\ DefaultAlignments.int = [k \in DOMAIN DefaultAlignments.int |-> DefaultAlignments.int[k]]
      /\ DefaultAlignments.vec = [k \in DOMAIN DefaultAlignments.vec |-> DefaultAlignments.vec[k]]
      /\ DefaultAlignments.fp = [k \in DOMAIN DefaultAlignments.fp |-> DefaultAlignments.fp[k]]
  BY DEF DefaultAlignments
<1>6. /\ DOMAIN layout = LayoutFields /\ layout.panicked = FALSE
      /\ layout.int = DefaultAlignments.int /\ layout.vec = DefaultAlignments.vec
      /\ layout.fp = DefaultAlignments.fp
      /\ layout.ptr = [space \in {0} |-> DefaultPointer]
  <2>1. DefaultAlignments.ptr = [space \in {0} |-> DefaultPointer]
    BY DEF DefaultAlignments
  <2> QED
    BY <1>1, <2>1, Zenon DEF DefaultLayout, LayoutFields
<1>7. layout.ptr = PtrEntries(specs)
  BY <1>2, <1>3, <1>6 DEF PtrEntries
<1>8. LayoutPanics
  BY <1>1, <1>6, Zenon DEF LayoutPanics
<1>9. /\ layout.int = Entries(specs, "i", DefaultAlignments.int)
      /\ layout.vec = Entries(specs, "v", DefaultAlignments.vec)
      /\ layout.fp = Entries(specs, "f", DefaultAlignments.fp)
  <2>1. \A key, d : d = [k \in DOMAIN d |-> d[k]] => d = Entries(specs, key, d)
    BY ONLY <1>4
  <2>2. layout.int = Entries(specs, "i", DefaultAlignments.int)
    BY ONLY <2>1, <1>5, <1>6
  <2>3. layout.vec = Entries(specs, "v", DefaultAlignments.vec)
    BY ONLY <2>1, <1>5, <1>6
  <2>4. layout.fp = Entries(specs, "f", DefaultAlignments.fp)
    BY ONLY <2>1, <1>5, <1>6
  <2> QED
    BY <2>2, <2>3, <2>4, Zenon
<1>10. specs \in Seq(Specs)
  BY ONLY <1>1
<1> QED
  BY <1>6, <1>7, <1>8, <1>9, <1>10, Zenon DEF LayoutInv

\* Reading one more specification keeps the tables what the specifications say.
LEMMA LayoutStep == LayoutInv /\ [LayoutNext]_layoutVars => LayoutInv'
<1> SUFFICES ASSUME LayoutInv, [LayoutNext]_layoutVars PROVE LayoutInv'
  OBVIOUS
<1>1. CASE UNCHANGED layoutVars
  BY <1>1, Zenon DEF layoutVars, LayoutInv, LayoutPanics
<1>2. CASE LayoutNext
  <2>1. PICK s \in Specs : ReadLayout(s)
    BY <1>2, Zenon DEF LayoutNext
  <2>2. /\ layout.panicked = FALSE /\ specs' = Append(specs, s)
        /\ layout' = ReadSpec(layout, s) /\ specs \in Seq(Specs)
        /\ DOMAIN layout = LayoutFields
        /\ layout.int = Entries(specs, "i", DefaultAlignments.int)
        /\ layout.vec = Entries(specs, "v", DefaultAlignments.vec)
        /\ layout.fp = Entries(specs, "f", DefaultAlignments.fp)
        /\ layout.ptr = PtrEntries(specs)
    BY <2>1, Zenon DEF ReadLayout, LayoutInv
  <2>3. s.key \in {"i", "v", "f", "p"} => s.nums # <<>>
    BY EntryHasNumbers, Zenon
  <2>4. specs' \in Seq(Specs) /\ specs' # <<>> /\ specs'[Len(specs')] = s
    BY <2>2
  <2>5. /\ DOMAIN layout' = LayoutFields
        /\ layout'.panicked \in BOOLEAN
        /\ layout'.panicked <=> Refused(s)
    BY <2>2, ReadSpecEffect, Zenon
  <2>6. layout'.int = Entries(specs', "i", DefaultAlignments.int)
    <3>1. layout'.int =
              IF s.key = "i" THEN Insert(layout.int, s.about, AbiPref(s.nums)) ELSE layout.int
      BY <2>2, ReadSpecEffect, Zenon
    <3>2. Entries(specs', "i", DefaultAlignments.int) =
              IF s.key = "i" THEN Insert(layout.int, s.about, AbiPref(s.nums)) ELSE layout.int
      <4>1. /\ specs \in Seq(Specs) /\ specs' = Append(specs, s)
            /\ layout.int = Entries(specs, "i", DefaultAlignments.int)
            /\ s.key = "i" => s.nums # <<>>
        BY <2>2, <2>3, Zenon
      <4> QED  BY ONLY <4>1, s \in Specs, EntriesAppend
    <3> QED
      BY <3>1, <3>2, Zenon
  <2>7. layout'.fp = Entries(specs', "f", DefaultAlignments.fp)
    <3>1. layout'.fp =
              IF s.key = "f" THEN Insert(layout.fp, s.about, AbiPref(s.nums)) ELSE layout.fp
      BY <2>2, ReadSpecEffect, Zenon
    <3>2. Entries(specs', "f", DefaultAlignments.fp) =
              IF s.key = "f" THEN Insert(layout.fp, s.about, AbiPref(s.nums)) ELSE layout.fp
      <4>1. /\ specs \in Seq(Specs) /\ specs' = Append(specs, s)
            /\ layout.fp = Entries(specs, "f", DefaultAlignments.fp)
            /\ s.key = "f" => s.nums # <<>>
        BY <2>2, <2>3, Zenon
      <4> QED  BY ONLY <4>1, s \in Specs, EntriesAppend
    <3> QED
      BY <3>1, <3>2, Zenon
  <2>10. layout'.vec = Entries(specs', "v", DefaultAlignments.vec)
    <3>1. layout'.vec =
              IF s.key = "v" THEN Insert(layout.vec, s.about, AbiPref(s.nums)) ELSE layout.vec
      BY <2>2, ReadSpecEffect, Zenon
    <3>2. Entries(specs', "v", DefaultAlignments.vec) =
              IF s.key = "v" THEN Insert(layout.vec, s.about, AbiPref(s.nums)) ELSE layout.vec
      <4>1. /\ specs \in Seq(Specs) /\ specs' = Append(specs, s)
            /\ layout.vec = Entries(specs, "v", DefaultAlignments.vec)
            /\ s.key = "v" => s.nums # <<>>
        BY <2>2, <2>3, Zenon
      <4> QED  BY ONLY <4>1, s \in Specs, EntriesAppend
    <3> QED
      BY <3>1, <3>2, Zenon
  <2>8. layout'.ptr = PtrEntries(specs')
    <3>1. layout'.ptr = IF s.key = "p" THEN Insert(layout.ptr, s.about, PointerLayout(s.nums))
                                       ELSE layout.ptr
      BY <2>2, ReadSpecEffect, Zenon
    <3>2. PtrEntries(specs') =
              IF s.key = "p" THEN Insert(layout.ptr, s.about, PointerLayout(s.nums))
                             ELSE layout.ptr
      BY <2>2, <2>3, PtrEntriesAppend
    <3> QED
      BY <3>1, <3>2, Zenon
  <2>9. LayoutPanics'
    BY <2>4, <2>5, Zenon DEF LayoutPanics, Refused
  <2> QED
    BY <2>4, <2>5, <2>6, <2>7, <2>8, <2>9, <2>10, Zenon DEF LayoutInv
<1> QED
  BY <1>1, <1>2, Zenon

\* The alignment of an integer is that of its own entry, of the next larger one, or of
\* the largest: the entry the specifications read so far choose.
LEMMA IntAsWritten ==
    ASSUME LayoutInv, ~layout.panicked, NEW size \in Nat
    PROVE  IntAlignment(layout, size) = IntAlignmentOf(specs, size)
<1> DEFINE E == Entries(specs, "i", DefaultAlignments.int)
           D == DOMAIN E
           larger == {k \in D : k > size}
           enough == {k \in D : k >= size}
<1>1. layout.int = E
  BY Zenon DEF LayoutInv
<1>2. D \subseteq Nat
  <2>1. Abouts(specs, "i") \subseteq Nat
    <3>1. \A k \in DOMAIN specs : specs[k] \in Specs
      BY DEF LayoutInv
    <3> QED
      BY <3>1, LayoutAssumption, Zenon DEF Abouts, WellFormed
  <2>2. DOMAIN DefaultAlignments.int \subseteq Nat
    BY DEF DefaultAlignments
  <2> QED
    BY <2>1, <2>2 DEF Entries
<1> HIDE DEF E
<1>3. IntAlignment(layout, size) =
          E[CASE size \in D -> size
              [] size \notin D /\ larger # {} -> Min(larger)
              [] OTHER -> Max(D)]
  BY <1>1, Zenon DEF IntAlignment
<1>4. IntAlignmentOf(specs, size) = E[IF enough # {} THEN Min(enough) ELSE Max(D)]
  BY Zenon DEF IntAlignmentOf, E
<1> HIDE DEF D
<1>5. CASE size \in D
  <2>1. size \in enough /\ \A y \in enough : size =< y
    BY <1>2, <1>5
  <2>2. \A x \in enough : (\A y \in enough : x =< y) => x = size
    BY <2>1, <1>2
  <2> HIDE DEF enough
  <2>3. Min(enough) = size /\ enough # {}
    BY <2>1, <2>2, Zenon DEF Min
  <2> QED
    BY <1>3, <1>4, <1>5, <2>3, Zenon
<1>6. CASE size \notin D
  <2>0. \A k \in D : k >= size <=> k > size
    BY ONLY <1>2, <1>6, size \in Nat
  <2>1. enough = larger
    BY <2>0, Zenon
  <2> HIDE DEF enough, larger
  <2> QED
    BY <1>3, <1>4, <1>6, <2>1, Zenon
<1> QED
  BY <1>5, <1>6, Zenon

\* The layout of a pointer is the one last written for its address space, or else the
\* one of space 0.
LEMMA PtrAsWritten ==
    ASSUME LayoutInv, ~layout.panicked, NEW space
    PROVE  PtrAlignment(layout, space) = PtrLayoutOf(specs, space)
<1>1. layout.ptr = PtrEntries(specs) /\ specs \in Seq(Specs)
  BY Zenon DEF LayoutInv
<1>2. \A a : LastSpec(specs, "p", a) # <<>> => a \in Abouts(specs, "p")
  <2> SUFFICES ASSUME NEW a, LastSpec(specs, "p", a) # <<>> PROVE a \in Abouts(specs, "p")
    BY Zenon
  <2>1. {k \in DOMAIN specs : specs[k].key = "p" /\ specs[k].about = a} # {}
    BY Zenon DEF LastSpec
  <2> QED
    BY <2>1, Zenon DEF Abouts
<1>3. \A a \in Abouts(specs, "p") : LastSpec(specs, "p", a) # <<>>
  <2> SUFFICES ASSUME NEW a \in Abouts(specs, "p") PROVE LastSpec(specs, "p", a) # <<>>
    BY Zenon
  <2> DEFINE at == {k \in DOMAIN specs : specs[k].key = "p" /\ specs[k].about = a}
  <2>1. at # {} /\ at \in SUBSET (1..Len(specs)) /\ Len(specs) \in Nat
    <3>1. at # {}
      BY Zenon DEF Abouts
    <3> QED
      BY <1>1, <3>1
  <2>2. Max(at) \in at
    <3> HIDE DEF at
    <3> QED
      BY <2>1, MaxOfPositions, Zenon
  <2>3. specs[Max(at)] \in Specs /\ specs[Max(at)].key = "p"
    BY <1>1, <2>2
  <2>4. specs[Max(at)].nums # <<>>
    <3> HIDE DEF at
    <3> QED
      BY <2>3, EntryHasNumbers, Zenon
  <2> QED
    BY <2>1, <2>4, Zenon DEF LastSpec
<1>4. CASE space \in Abouts(specs, "p")
  BY <1>1, <1>3, <1>4 DEF PtrAlignment, PtrLayoutOf, PtrEntries
<1>5. CASE space \notin Abouts(specs, "p")
  <2>1. LastSpec(specs, "p", space) = <<>>
    BY <1>2, <1>5, Zenon
  <2> QED
    BY <1>1, <1>2, <1>5, <2>1 DEF PtrAlignment, PtrLayoutOf, PtrEntries
<1> QED
  BY <1>4, <1>5, Zenon

\* For any data layout string, DataLayout::from_module_ref builds tables from which
\* every type gets the alignment that the string says (the last specification of its
\* kind and size), and the reader panics exactly when the string has a specification
\* it does not know.
THEOREM LayoutReadAsWritten == LayoutSpec => [](LayoutAsWritten /\ LayoutPanics)
<1>1. LayoutInv => LayoutAsWritten /\ LayoutPanics
  <2> SUFFICES ASSUME LayoutInv, ~layout.panicked PROVE LayoutAsWritten
    BY Zenon DEF LayoutInv, LayoutAsWritten
  <2>1. ASSUME NEW size \in AskedSizes
        PROVE  TypeAlignment(layout, IntegerType(size)) = IntAlignmentOf(specs, size)
    <3>1. size \in Nat
      BY LayoutAssumption
    <3>2. TypeAlignment(layout, IntegerType(size)) = IntAlignment(layout, size)
      BY DEF TypeAlignment, IntegerType, T, FptSize
    <3> QED
      BY <3>1, <3>2, IntAsWritten, Zenon
  <2>2. ASSUME NEW space \in AskedSpaces
        PROVE  /\ PtrAlignment(layout, space) = PtrLayoutOf(specs, space)
               /\ TypeAlignment(layout, PointerType(space)) = PtrLayoutOf(specs, space).alignment
    <3>1. TypeAlignment(layout, PointerType(space)) = PtrAlignment(layout, space).alignment
      BY DEF TypeAlignment, PointerType, T, FptSize
    <3> QED
      BY <3>1, PtrAsWritten, Zenon
  <2>3. ASSUME NEW variant \in DOMAIN FptSize
        PROVE  TypeAlignment(layout, ScalarType(variant)) = FpAlignmentOf(specs, variant)
    <3>1. TypeAlignment(layout, ScalarType(variant)) = FpAlignment(layout, variant)
      BY DEF TypeAlignment, ScalarType, T, FptSize
    <3>2. layout.fp = Entries(specs, "f", DefaultAlignments.fp)
      BY Zenon DEF LayoutInv
    <3> QED
      BY <3>1, <3>2, Zenon DEF FpAlignment, FpAlignmentOf
  <2> DEFINE V == Entries(specs, "v", DefaultAlignments.vec)
  <2>4. ASSUME NEW bits \in AskedSizes, NEW n \in AskedSizes, bits * n \in DOMAIN V
        PROVE  TypeAlignment(layout, VectorType(IntegerType(bits), n, FALSE)) = V[bits * n]
    <3>1. layout.vec = V
      BY Zenon DEF LayoutInv
    <3>2. TypeAlignment(layout, VectorType(IntegerType(bits), n, FALSE)) = VecAlignment(layout, bits * n)
      BY DEF TypeAlignment, VectorType, IntegerType, T, FptSize
    <3> HIDE DEF V
    <3> QED
      BY <2>4, <3>1, <3>2, Zenon DEF VecAlignment
  <2> QED
    BY <2>1, <2>2, <2>3, <2>4, Zenon DEF LayoutAsWritten
<1> QED
  BY <1>1, LayoutInitial, LayoutStep, PTL DEF LayoutSpec
=============================================================================
