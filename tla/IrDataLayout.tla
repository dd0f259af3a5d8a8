---------------------------- MODULE IrDataLayout ----------------------------
(***************************************************************************)
(* The data layout of the IR reader (DataLayout and Alignments,            *)
(* llvm-ir-patched/src/module.rs).                                         *)
(*                                                                         *)
(* A specification of the layout string is its key, what the key is about  *)
(* (an address space or a size, 0 if nothing) and its numbers.  LLVM has   *)
(* checked the string, so specifications are well formed; the keys "s",    *)
(* "G" and the mangling "l" are LLVM's and not the reader's.  The string   *)
(* is chosen as it is read, one specification after the other.             *)
(***************************************************************************)
EXTENDS IrTypeSyntax, FiniteSetsExt, Functions

LSpec(key, about, nums) == [key |-> key, about |-> about, nums |-> nums]

CONSTANTS
    Specs,          \* the specifications a layout string may hold
    AskedSizes,     \* the sizes, in bits,
    AskedSpaces     \* and the address spaces, whose alignments are asked for

AbiKeys == {"i", "v", "f", "a"}     \* abi and an optional pref
FirstKeys == {"S", "P", "A", "Fi", "Fn"}
WellFormed(s) ==
    /\ s = LSpec(s.key, s.about, s.nums)
    /\ s.nums \in Seq(Nat)
    /\ s.key \in {"i", "v", "f", "p"} => s.about \in Nat
    /\ s.key \in AbiKeys => Len(s.nums) \in {1, 2}
    /\ s.key = "p" => Len(s.nums) \in {2, 3, 4}
    /\ s.key \in FirstKeys => Len(s.nums) = 1
    /\ s.key = "ni" => \A k \in DOMAIN s.nums : s.nums[k] # 0

ASSUME LayoutAssumption ==
    /\ \A s \in Specs : WellFormed(s)
    /\ AskedSizes \subseteq Nat

VARIABLES
    specs,          \* history: the specifications read
    layout          \* data_layout

layoutVars == <<specs, layout>>

-----------------------------------------------------------------------------
(* DataLayout::from_module_ref.                                            *)

Alignment(abi, pref) == [abi |-> abi, pref |-> pref]
Natural(size) == Alignment(size, size)

\* abi and an optional pref.
AbiPref(nums) == Alignment(nums[1], nums[IF Len(nums) > 1 THEN 2 ELSE 1])

PointerLayout(nums) ==
    [size |-> nums[1], alignment |-> AbiPref(Tail(nums)),
     index_size |-> nums[IF Len(nums) > 3 THEN 4 ELSE 1]]
DefaultPointer == [size |-> 64, alignment |-> Natural(64), index_size |-> 64]

DefaultAlignments ==
    [int |-> [k \in {1, 8, 16, 32, 64} |->
                CASE k = 1 -> Natural(8) [] k = 64 -> Alignment(32, 64) [] OTHER -> Natural(k)],
     vec |-> [k \in {64, 128} |-> Natural(k)],
     fp |-> [k \in {16, 32, 64, 128} |-> Natural(k)],
     agg |-> Alignment(0, 64), fptr |-> [independent |-> TRUE, abi |-> 64],
     ptr |-> [space \in {0} |-> DefaultPointer]]
DefaultLayout ==
    [endianness |-> "E", stack_alignment |-> 0, program_address_space |-> 0,
     alloca_address_space |-> 0, mangling |-> "", native_int_widths |-> {},
     non_integral_ptr_types |-> {}, panicked |-> FALSE,
     int |-> DefaultAlignments.int, vec |-> DefaultAlignments.vec,
     fp |-> DefaultAlignments.fp, agg |-> DefaultAlignments.agg,
     fptr |-> DefaultAlignments.fptr, ptr |-> DefaultAlignments.ptr]

Manglings == {"e", "m", "o", "x", "w", "a"}

\* BTreeMap::insert: an entry of the same key is replaced.
Insert(map, key, value) ==
    [k \in DOMAIN map \cup {key} |-> IF k = key THEN value ELSE map[k]]

AlignmentSpec(l, s) ==
    CASE s.key = "p" -> [l EXCEPT !.ptr = Insert(@, s.about, PointerLayout(s.nums))]
      [] s.key = "i" -> [l EXCEPT !.int = Insert(@, s.about, AbiPref(s.nums))]
      [] s.key = "v" -> [l EXCEPT !.vec = Insert(@, s.about, AbiPref(s.nums))]
      [] s.key = "f" -> [l EXCEPT !.fp = Insert(@, s.about, AbiPref(s.nums))]
      [] s.key = "a" -> [l EXCEPT !.agg = AbiPref(s.nums)]
      [] s.key \in {"Fi", "Fn"} ->
            [l EXCEPT !.fptr = [independent |-> s.key = "Fi", abi |-> s.nums[1]]]

ReaderKeys == {"E", "e", "S", "P", "A", "p", "i", "v", "f", "a", "Fi", "Fn", "m", "ni", "n", ""}

\* One turn of from_module_ref's loop.
ReadSpec(l, s) ==
    CASE s.key \in {"E", "e"} -> [l EXCEPT !.endianness = s.key]
      [] s.key = "S" -> [l EXCEPT !.stack_alignment = s.nums[1]]
      [] s.key = "P" -> [l EXCEPT !.program_address_space = s.nums[1]]
      [] s.key = "A" -> [l EXCEPT !.alloca_address_space = s.nums[1]]
      [] s.key \in {"p", "i", "v", "f", "a", "Fi", "Fn"} -> AlignmentSpec(l, s)
      [] s.key = "m" /\ s.about \in Manglings -> [l EXCEPT !.mangling = s.about]
      [] s.key = "ni" /\ 0 \notin Range(s.nums) ->
            [l EXCEPT !.non_integral_ptr_types = @ \cup Range(s.nums)]
      [] s.key = "n" -> [l EXCEPT !.native_int_widths = @ \cup Range(s.nums)]
      [] s.key = "" -> l
      [] OTHER -> [l EXCEPT !.panicked = TRUE]

LayoutInit == specs = <<>> /\ layout = DefaultLayout

ReadLayout(s) ==
    /\ ~layout.panicked
    /\ specs' = Append(specs, s)
    /\ layout' = ReadSpec(layout, s)

LayoutNext == \E s \in Specs : ReadLayout(s)

LayoutSpec == LayoutInit /\ [][LayoutNext]_layoutVars

-----------------------------------------------------------------------------
(* Alignments.                                                             *)

NoAlignment == Alignment(-1, -1)    \* the code panics

\* Mutant: the next smaller entry.
IntAlignmentBelow(l, size) ==
    LET below == {k \in DOMAIN l.int : k <= size}
    IN  l.int[IF below # {} THEN Max(below) ELSE Min(DOMAIN l.int)]
\* An entry of this size, else the next larger one, else the largest.
IntAlignment(l, size) ==
    LET larger == {k \in DOMAIN l.int : k > size}
    IN  l.int[CASE size \in DOMAIN l.int -> size
                [] size \notin DOMAIN l.int /\ larger # {} -> Min(larger)
                [] OTHER -> Max(DOMAIN l.int)]

\* An entry of this size, else the first entry that is smaller, else the first:
\* iter() of a BTreeMap starts with its smallest key.
VecAlignment(l, size) ==
    LET smaller == {k \in DOMAIN l.vec : k < size}
    IN  l.vec[CASE size \in DOMAIN l.vec -> size
                [] size \notin DOMAIN l.vec /\ smaller # {} -> Min(smaller)
                [] OTHER -> Min(DOMAIN l.vec)]

FptSize == [Half |-> 16, BFloat |-> 16, Single |-> 32, Double |-> 64, FP128 |-> 128,
            X86_FP80 |-> 80, PPC_FP128 |-> 128]
FpAlignment(l, variant) ==
    IF FptSize[variant] \in DOMAIN l.fp THEN l.fp[FptSize[variant]] ELSE NoAlignment

PtrAlignment(l, space) == l.ptr[IF space \in DOMAIN l.ptr THEN space ELSE 0]

TypeAlignment(l, ty) ==
    CASE ty.kind = "IntegerType" -> IntAlignment(l, ty.n)
      [] ty.kind = "VectorType" ->
            LET e == ty.of[1]
            IN  CASE e.kind = "IntegerType" -> VecAlignment(l, e.n * ty.n)
                  [] e.kind \in DOMAIN FptSize -> VecAlignment(l, FptSize[e.kind] * ty.n)
                  [] OTHER -> NoAlignment
      [] ty.kind \in DOMAIN FptSize -> FpAlignment(l, ty.kind)
      [] ty.kind \in {"StructType", "NamedStructType", "ArrayType"} -> l.agg
      [] ty.kind = "PointerType" -> PtrAlignment(l, ty.n).alignment
      [] OTHER -> NoAlignment

-----------------------------------------------------------------------------
(* What a layout string says.                                              *)

\* The last specification of a key, about the same thing; <<>> if there is none.
LastSpec(ss, key, about) ==
    LET at == {k \in DOMAIN ss : ss[k].key = key /\ ss[k].about = about}
    IN  IF at = {} THEN <<>> ELSE ss[Max(at)].nums

\* What the specifications of a key are about.
Abouts(ss, key) == {ss[k].about : k \in {i \in DOMAIN ss : ss[i].key = key}}

\* The entries of a table: the last ones written for their key, else the defaults.
Entries(ss, key, defaults) ==
    [k \in DOMAIN defaults \cup Abouts(ss, key) |->
        LET nums == LastSpec(ss, key, k) IN IF nums = <<>> THEN defaults[k] ELSE AbiPref(nums)]

\* LLVM's integer alignment: by the smallest size with an entry that is not below,
\* else by the largest.
IntAlignmentOf(ss, size) ==
    LET entries == Entries(ss, "i", DefaultAlignments.int)
        enough == {k \in DOMAIN entries : k >= size}
    IN  entries[IF enough # {} THEN Min(enough) ELSE Max(DOMAIN entries)]

\* An address space without a specification has the layout of address space 0.
PtrLayoutOf(ss, space) ==
    LET own == LastSpec(ss, "p", space)
        nums == IF own # <<>> THEN own ELSE LastSpec(ss, "p", 0)
    IN  IF nums = <<>> THEN DefaultPointer ELSE PointerLayout(nums)

FpAlignmentOf(ss, variant) ==
    LET entries == Entries(ss, "f", DefaultAlignments.fp)
    IN  IF FptSize[variant] \in DOMAIN entries THEN entries[FptSize[variant]] ELSE NoAlignment

-----------------------------------------------------------------------------
(* Properties.                                                             *)

\* The layout is what the layout string says: integer, pointer, floating point and
\* vector alignments are the last ones written, else the defaults, for every size,
\* address space and variant; of vectors, for every size that has an entry.
LayoutAsWritten ==
    ~layout.panicked =>
        /\ \A size \in AskedSizes :
              TypeAlignment(layout, IntegerType(size)) = IntAlignmentOf(specs, size)
        /\ \A space \in AskedSpaces :
              /\ PtrAlignment(layout, space) = PtrLayoutOf(specs, space)
              /\ TypeAlignment(layout, PointerType(space)) = PtrLayoutOf(specs, space).alignment
        /\ \A variant \in DOMAIN FptSize :
              TypeAlignment(layout, ScalarType(variant)) = FpAlignmentOf(specs, variant)
        /\ LET entries == Entries(specs, "v", DefaultAlignments.vec)
           IN  \A bits, n \in AskedSizes :
                  bits * n \in DOMAIN entries =>
                     TypeAlignment(layout, VectorType(IntegerType(bits), n, FALSE)) = entries[bits * n]

\* from_module_ref panics exactly on a specification that is LLVM's and not the
\* reader's, and then on the last one it reads.
LayoutPanics ==
    layout.panicked <=>
        specs # <<>> /\ LET s == specs[Len(specs)]
                        IN  s.key \notin ReaderKeys \/ (s.key = "m" /\ s.about \notin Manglings)
=============================================================================
