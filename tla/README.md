# Sentinel-KV in TLA+

Sentinel-KV reads the LLVM IR of a kernel driver, looks for memory errors with an
abstract interpreter and Z3, and answers Pass, Unknown or Fail. In the stricter
"ring" modes the answer also depends on an attestation token that may be used
once. This directory models the way from a bitcode file to an exit code: the reader
that turns LLVM's module into an AST, the analysis, the review gate, the ring policy
with its token validators, and the output files. TLC checks the models; TLAPS proves
the safety properties of both validators, the analysis, the gate and the pipeline, and
of the reader its naming, its data layout and where it puts operands, for every size of
them.

## The system and its parts

| Part | Source (under `src/`) | Model |
|---|---|---|
| IR analysis: `analyze()`, its maps, `check_access`, `infer_gep_offset` | `skv-analyzer/src/main.rs` 438-1664 | `Analyzer`, run against `KernelMachine` in `AnalyzedProgram`; `AnalyzedInv`, `AnalyzerPolicyProofs`, `AnalyzerExactProofs`, `AnalyzerSoundProofs` |
| Human-in-the-loop gate: `HitlGate`, `should_run_solver`, `enforce_hitl_policy` | `main.rs` | `HitlGate`; `AnalyzerPolicyProofs` |
| Z3, as the code queries it | `main.rs`, `check_access` | `SolverAnswers` in `Analyzer` |
| C attestation backend | `skv-analyzer/src/c/attestation_bridge.c` | `AttestationBridge`, `AttestationBridgeProofs`, abstractly `ReplayGuard` |
| Zig attestation backend | `skv-analyzer/src/zig/attestation_bridge.zig` | `ZigBridge`, `ZigBridgeProofs` |
| Ring policy and ed25519 signatures | `main.rs`, `apply_ring_policy`, `verify_attestation_signature` | `Pipeline`, `PipelineInv`, `PipelineProofs` |
| `run()`, `write_output_file`, approval files | `main.rs` | `Pipeline`, `PipelineInv`, `PipelineFileProofs`, `PipelineProofs` |
| IR reader: names and the two passes | `skv-analyzer/llvm-ir-patched/src/`: `module.rs`, `function.rs`, `basicblock.rs`, `instruction.rs`, `terminator.rs` | `IrNames`; `IrReaderProofs` |
| IR reader: types, constants, attributes, data layout | `types.rs`, `constant.rs`, `function.rs`, `module.rs` | `IrTypeSyntax`, `IrTypes`, `IrConstants`, `IrAttributes`, `IrDataLayout`; `IrReaderProofs` |
| IR reader: instructions, terminators, operands, views | `instruction.rs`, `instruction/groups.rs`, `terminator.rs`, `operand.rs` | `IrOpcodes`, `IrOperands`, `IrInstructions`, composed in `IrReader`; `IrReaderProofs` |
| LLVM, as the reader calls it | external | `LlvmIr` |
| Token parsers | both backends | abstracted to the set of fields found |
| CLI, TUI, doctor, build script | | not modelled |

How they interact: `run()` reads the module with the patched `llvm-ir` crate, loads
the approvals and calls `analyze()`, which asks the gate before each solver query.
It lists the conditions for a reviewer, `enforce_hitl_policy` turns blocked ones into
Fail, and `apply_ring_policy` checks signatures and calls the one validator that was
linked at build time, C or Zig. The verdict is printed, then written. Several
analyzer processes may run at once; what they share is the replay-state file. What
one run leaves to the next are that file, the output files, and what a reviewer
adds to the approval files.

## Modules

### AttestationBridge: the C backend

Everything `skv_validate_attestation_token` does before it opens the replay file
reads the token, the arguments and the clock and changes nothing, so it is one
action, `Call`. From `open` on each system call is its own action: `OpenState`,
`LockState` (waits, as `F_SETLKW` does), `StatState` / `RejectInsecure`,
`ReadCounter`, `RejectReplay` / `TruncateState`, `WriteCounter`, `SyncState`,
`GrantToken` (chmod, close, return 1). `pc[p]` names the next call. `file` is the
number that `strtoll` would read, -1 for a missing or empty file; `disk` is what a
power loss leaves of it; `name` says whether its directory entry is on disk, which
nothing in the code syncs. `Return` models that every return path closes the
descriptor, which drops the lock. Whether the file is `secure` is chosen once, in
`Init`: no process of the model changes its mode or owner.

The environment makes calls fail (`Fail`, `FailTruncate`, `FailWrite`, and a
`pread` that fails, which the code does not notice), kills processes, cuts the
power, and writes the file or its directory back unasked (`Writeback`,
`WritebackName`). The constant `Faults` selects which. The history variable `forgot`
records that the file, or what a process believes of it, has lost its counter: by a
failed `pread`, a write that stored too little, a kill or a write-back between
`ftruncate` and `write`, or a power loss that takes a new file's directory entry with
it. The age of a token is computed with a signed subtraction; where it overflows C
defines nothing, and `AgeOutcomes` has the exact and the wrapped value.

### ReplayGuard: what a validator promises

One monotonic counter; a token above it takes it over and is then granted or
dropped. The counter can be lost (`forgot`), and the guard promises nothing from then
on. `AttestationBridge` implements it with the counter on disk as the monotonic
counter, `ZigBridge` with the counter in the file as long as validations do not overlap
(`RefinesGuard` in both); `Pipeline` calls a validator as the guard allows.

### ZigBridge: the Zig backend

The same function in Zig: `lstat`, read, compare, create with truncation, write.
There is no lock and no sync in the code, hence none here. `mode` is what `lstat`
finds; an insecure file takes the path of a missing one. `disk_mode` and `disk` are what
a power loss leaves, and only the kernel's `Writeback` moves anything there. `forgot`
records that a counter may have been lost: a file with one was taken for a missing one,
a validation ended between the truncation and the write, or a power loss took what had
not been written back. `Abandon` is a failed call, or a kill, at any other place. In
ReleaseSafe, the mode the build uses, an overflow of the age stops the process, so such a
token is never admitted.

### HitlGate and Analyzer: the analysis

`Analyzer` has one action per arm of the match on an instruction (the calls
`kmalloc`/`kzalloc`, `kcalloc`, `dma_alloc_coherent`, `kfree`, `memset`, `memcpy`,
`dma_map_single`, `iommu_map`, inline assembly; `alloca`, `store`, `load`,
`getelementptr`, `ptrtoint`, `inttoptr`, `add`, `sub`, `bitcast`; everything else is
`Opaque`), the start of the next function, the `iommu` check after the loop and
`enforce_hitl_policy`. Variables have the code's names. Each action has the
operands as parameters and covers the whole arm: map updates, gate, solver, the
irq-race condition, Fail, and the early exits. `HitlGate` is a record with the
code's `seen` and `blocked` lists as sets.

Names are numbers, the way clang leaves them: they start over in every function,
while the maps of `analyze()` live as long as the module. A type size is a number
or `NoSize`; Z3 answers a query exactly, or "unknown" if `SolverMayGiveUp`. Assembly is
a text that is a safe pattern, one that only begins with one, or another;
`is_safe_inline_asm` takes the first two for safe.

### KernelMachine and AnalyzedProgram: the yardstick

`KernelMachine` is not part of the repository: it is what the same instructions do
when they run, in terms of objects, offsets, stack slots and frees. It records
every error in `hazard`. `AnalyzedProgram` takes each instruction in both modules
at once, so a behaviour writes a module, analyses it and runs it. The machine has the
meaning of the code where the analysis has its reading of it: `TrueGep` the offset of a
GEP for the element sizes `Strides`, `Meanings` the values a constant may stand for,
`TrueSizes` the bytes an access may touch, `Moduli` the widths at which arithmetic wraps.
`Programs` is
a set of kinds of module: which instructions, which constants, how long, and which
command-line options. `Habits` adds things a module may do that the analysis is
not able to follow (see below).

### Pipeline: one run after another

`pc` names the place in `run()`. An action is a step after which another process, a
reviewer or a crash can be noticed: starting with one of the command lines `ArgSets`,
parsing, loading approvals, one condition of the analysis (`Visit`), `Enforce`, the
checks of `apply_ring_policy` one by one, the call of the validator, the verdict, and
for each output file the system calls of `write_output_file`: `Lstat`, `Open`,
`Chmod`, `WriteAll`, `SyncAll`. Every early return of the code is a disjunct that
leads to `Reject` or to an exit code. `HitlGate` and `ReplayGuard` are instantiated,
so the gate is the one `Analyzer` uses and the validator is what `AttestationBridge`
is proved to implement.

The token file is read up to three times: for its signature, for the root's
signature, and by the validator. `RenewToken` and `RenewSignature` may come between
any two; `past.midway` remembers that the token changed between reads. Signatures are
abstracted to the token they are of. `write_output_file` checks the path, opens it,
sets the mode by path and writes to the descriptor; `MoveFile` may come anywhere
between, and `w.detached` is the open file once it is not the one at the path.
A file has a `mode`, a `content`, what of it is on `disk`, and whether its name is
(`entry`: the code does not sync the directory). `PowerLoss` picks, per file, one of
the states that may survive. `Kill` ends a run at any step, and most steps have a
failing disjunct. `past` is history for the properties; no guard reads it.

### IrNames: how the reader names things

LLVM values without a name get a number. The reader counts twice: a first pass fills
`val_names`, `bb_names` and `global_names` so that forward references resolve, a second
builds the AST and counts again. What takes a number is decided by `needs_name` in the
first and by which AST nodes have a `dest` in the second, and the analyzer works only if
they agree. In the model the first pass also chooses the function being read, object by
object, and the second walks over what was chosen; a reference to an object is its
position.

### IrTypes, IrConstants, IrAttributes, IrDataLayout, IrOperands, IrInstructions: what is read

Each module has LLVM's side of a concept, the crate's side, the conversion between
them, and what it means for the second to denote the first. `IrTypeSyntax` has the
types of both sides, `IrTypes` has `TypesBuilder` with the cache of named structs that
makes recursive ones end.
`IrConstants` has the conversion of every constant and `Constant::get_type`.
`IrAttributes` unpacks LLVM's packed integers. `IrDataLayout` is the parser of the
layout string, a step per specification (`ReadLayout`), and the alignment lookups.
`IrOperands` has, for each opcode, the order in which LLVM keeps the operands, the
fields `from_llvm_ref` fills and from which operand number, and how many operands it
asserts. `IrInstructions` reads those operands and adds `get_type` and the views of
`groups.rs`. `IrOpcodes` lists the variants. Numbers, flags, orderings and predicates
that are copied one to one are left out.

`LlvmIr` is LLVM: which instructions a valid function may hold and their types, as far
as the reader's calls of the C API show it.

`IrReader` composes all of it: each step of `IrNames` is a step, and where the second
pass builds a piece of the AST the step picks a valid LLVM object of that opcode and
reads it, panics included. `llvm` and `node` are the object and what it was read as.

## Runs

| Run | Result | States | What it shows |
|---|---|---|---|
| `bridge` | pass | 122 358 | Two processes, two validations each, every fault, tokens that are not valid yet, lack a nonce, or overflow the age. Until a counter is lost: `AtMostOnceWhenWhole` (no counter granted twice), `GrantDurable` (a granted counter is on disk and stays there), `ComparesCurrent` (the counter compared is the file's), `GrantsIncrease`. Always: `RefinesGuard`, `InsecureStateUntouched`, and `Returns` (each validation ends). |
| `bridge_truncated` | violation of `AtMostOnce` | | A kill between `ftruncate` and `write` empties the file; the next validation reads -1 and accepts an old counter. |
| `zig_serial` | pass | 31 332 | One process, three validations, every kind of replay file, failing writes, power losses. `AtMostOnceWhenWhole`, `RefinesGuard`. |
| `zig_concurrent` | violation of `AtMostOnceWhenWhole` | | Two processes read the same counter before either writes. |
| `prog` | pass | 1 029 961 | All functions of 4 heap instructions, 5 with spills, 5 with casts; DMA under each policy, interrupts that free, the gate in both modes with some conditions approved, inline assembly under both policies, two functions, a solver that gives up, and unsupported forms of each instruction. `SoundPass` (Pass means no error so far), `FailIsReal` (Fail means there was one), `ProvenanceExact` (tracked values point where the maps say), `NoSolverWithoutApproval`, `RequireFailsClosed`, `VerdictNeverImproves`. |
| `prog_iommu` | violation of `IommuPaired` | | One `iommu_map` marks both of two DMA buffers as mapped, and the module passes under `require-iommu`. |
| `prog_unproven` | violation of `UnprovenNeverPass` | | A store through a parameter or phi leaves Pass, where the documentation promises Unknown. |
| `prog_stride` | violation of `SoundPass` | | `infer_gep_offset` counts 8 bytes per first index and 4 per other one; with elements of 16 bytes an out-of-bounds store passes. |
| `prog_stale` | violation of `FailIsReal` | | A name in the second function is taken for the freed pointer that had the same number in the first. |
| `ir_reader` | pass | 79 520 | Modules of up to seven globals, functions around every instruction and terminator, 40 constants, all attributes, layout strings of up to three parts. `PassesAgree`, `NamesUnique`, `OperandsNamed`, `NamedPassesAgree` (names); `FieldsDenoteOperands` (each field of a node is the operand it is named for); `ConstantTypesExact`, `TypesExact`, `TypesAsLLVM` (`get_type` is LLVM's type); `PanicsWhenUnsupported` (the reader panics on what it does not support and nothing else); `AttributesDenote`, `LayoutAsWritten`. |
| `ir_globals` | violation of `GlobalPassesAgree` | | An unnamed function takes a number in the first pass and none in the second, so references to an unnamed variable carry another name than the variable. |
| `pipeline` | pass | 3 734 082 | Two runs with any of 13 command lines, a reviewer, one renewal of the token, and one failed call, kill, power loss or moved file at any place. `StrictPassJustified`, `ReportedIsSpent`, `OnePassPerToken`, `SpentIsPrinted` (ring policy); `ReviewConverges` (what is listed for review is enough); `KeptAfterExit`, `PrivateContent` (output files). |

The seven violations are the `findings` of `PROJECT.json`, each with the sentence
of the repository it contradicts. For each property of a passing run a mutated
definition (`Mutant:` in the modules) is listed under `mutants`; TLC finds the
property violated once the mutant takes the place of the original.

### Bounds

- Two processes suffice for lost updates and lock errors; the proofs cover any
  number. Two validations each allow a replay after a grant and a restart. Counters
  1 and 12 (0 too in the other runs of the validators) are two in order, one of them with
  a proper prefix that is a number (a short write of "12" is read as 1). The processes
  are interchangeable in `bridge_truncated`, so symmetry is used there, and not under
  fairness.
- `I64Max = 7` with a timestamp of -8 puts the overflow of the age within reach;
  `MaxTime = 1` in `bridge` and 3 in `zig_serial` let tokens become valid, and in
  the latter expire, before and during a validation.
- Four to five instructions allow: allocate, derive (GEP, cast, spill), free, use;
  `U64Max = 127` is above every offset reached and below 16 * 16, so that `kcalloc`
  overflows. Sizes 8 and 16 with GEP units of 8 and 4 give accesses before, at and
  beyond the end. `Moduli`, for the habit `wrap`, has a narrow and the widest integer type.
- `pipeline`: two runs are what a replay, a review and a left-over file need; one fault
  is enough for each place to be hit, and two tokens for a change between two reads.
  The proofs cover any number of each. Of the two conditions one has an id that
  `load_hitl_approvals` takes for a comment. The command lines lack one option per
  check.
- `ir_reader`: three families of modules (`MCIrReader`). A wide function, with a
  parameter of every type over seven globals of every kind, holds one instruction of
  any opcode and the blocks that opcode needs. Thin modules of up to two globals,
  named and not, mix instructions that take a number with some that do not. Modules
  without globals are for layout strings. An instruction is read by itself, so one
  per function shows all that its conversion can do; that names agree in functions of
  any length is proved. `HalfBits = 3` stands for the 32 bits of each half of a packed
  `allocsize`; all 64 values of it and of `memory` are tried.

### Fairness

Only `Returns` needs it: `FairSpec` has weak fairness of `Step(p)`, the steps of a
process inside the validator. Nothing there waits except `F_SETLKW`, whose holder
runs to its `close` or is killed, which also drops the lock. Weak fairness is
enough on the bounded instance, since every process makes finitely many calls;
with unbounded callers the kernel's fair queueing of lock requests would be needed.
No fairness is assumed of faults, of the clock, or of new calls.

## Proofs

`AttestationBridgeProofs` proves, for any processes, tokens, requests, faults and
bounds that satisfy `BridgeAssumption`:

- `TypeCorrect`: `TypeOK`, which includes that at most one process holds the lock;
- `ReplayProtection` (`AtMostOnceWhenWhole`), `Durability` (`GrantDurable`),
  `NoStaleCompare` (`ComparesCurrent`), `Monotonic` (`GrantsIncrease`): each holds until
  a counter has been lost;
- `ImplementsGuard` (`RefinesGuard`) and `InsecureUntouched` (`InsecureStateUntouched`),
  whatever is lost.

The condition `~forgot` is needed: `bridge_truncated` is a counterexample to `AtMostOnce`
without it. It still admits kills at any other place, power losses, write-backs, and
failures of every call that does not lose the counter.

The argument. `AtMostOnce` is not inductive: that the next grant is of a new counter
depends on what the process compared its counter with, and that on the lock. `IInv`
adds (1) a process from `fstat` on is the only lock holder; (2) at the comparison,
what it read is still in the file; (3) at `write`, the disk is at or below what it
read, which is below its counter; (4) at `fsync` and `chmod` the file has its counter,
above everything granted; at `chmod` so does the disk; (5) everything granted is on
disk, and the disk is not ahead of a file that is not truncated; (2) to (5) as long as
nothing was lost. `NextIInv` takes the
actions one by one; `Inductive` is the result, the other theorems follow from it. The
refinement uses `IInv` too: a `Writeback` or `SyncState` that moves the disk is
`Take` (or `Burn`, when the process has died), `GrantToken` is `Grant`, and a return
between is `Drop`; a step that loses the counter, and every step after it, is `Forgotten`.

`ZigBridgeProofs` proves for the Zig backend, for any processes, tokens, requests and
bounds that satisfy `ZigAssumption`: `SerialReplayProtection`, i.e. as long as
validations do not overlap (`[]Serial`), `AtMostOnceWhenWhole`. `Serial` is a condition on
the behaviour because the code has nothing that would ensure it, and `zig_concurrent` is
the counterexample without it; `OneProcess` is the case of a single process, where it
holds by itself. `IInv` there says what a process has read when it compares, and that what
was granted is at or below the counter in the file, or below the one being written while
the file is truncated, until a counter is lost. `SerialImplementsGuard` uses the same
invariant for `RefinesGuard`: the truncation takes the counter over, the write grants it;
a failed write, an insecure file taken for a missing one, or a power loss before the
write-back is the guard's `Forgotten`.

`PipelineProofs` proves, for any command lines, conditions, tokens, number of runs and
number of faults that satisfy `PipelineAssumption`: `StrictPass`
(`StrictPassJustified`), `Reported` (`ReportedIsSpent`), `OnePass` (`OnePassPerToken`),
`Printed` (`SpentIsPrinted`), `PrivateFiles` (`PrivateContent`), `Durable`
(`KeptAfterExit`) and `ReviewSuffices` (`ReviewConverges`). None is inductive, since
each looks at the end of a run or at what an earlier run left. `IInv` (`PipelineInv`)
has a part for each concern, and a lemma each that steps keep it: the files' parts,
`FileInv` and `KeptInv`, in `PipelineFileProofs`, the types and the other parts in
`PipelineProofs`:

- `RingInv`: a counter is pending only while the validator answers and spent only after
  `apply_ring_policy`; from there on a strict run is decided.
- `TokenInv`: after each check, what it verified is the token in the file, unless the
  file changed; then that this is the token taken, and spent.
- `ExitInv`: what an exit code says of the above.
- `PassInv`: what passed earlier is at most the backend's counter and below the one
  being granted, as long as the backend has not lost its counter, which a kill or a power
  loss may make it do. This is where `OnePassPerToken` comes from: until then the counter
  never falls.
- `FileInv`: a file with output has mode 0600, on disk too; after `set_permissions` the
  open file has that mode, or was moved before.
- `KeptInv`: an output already written in this run is complete and on disk unless moved,
  and so is what earlier runs kept, unless opened again.
- `ReviewInv`: what is blocked is not approved by the files as they are, each condition
  visited is approved or listed, and the list of a complete analysis has every condition
  that the files did not and do not approve. `IdAssumption` is what `vc_id` and
  `vc_class_id` give: no id is empty, and a class id is read back as it was written.

`AnalyzerPolicyProofs` proves, for any module with any habits, any strides and indices,
any approvals, and a solver that gives up or not, as far as `ProgramAssumption` goes:
`TypeCorrect` (every id in a map is an allocation with a size, so the "Missing
allocation size metadata" branches are dead), `NeverImproves` (`VerdictNeverImproves`),
`SolverApproved` (`NoSolverWithoutApproval`) and `FailsClosed` (`RequireFailsClosed`).
`TypeInv` (`AnalyzedInv`) is the inductive
invariant: the shapes of the maps, that ids stand for distinct objects of the recorded
sizes, and `GateInv`, i.e. what Z3 was asked was approved, and a condition that was
asked for and not approved has left an entry in `blocked`. `Leads` says what a step may
make of the verdict; the actions are brought into four forms (an allocation, a new name,
no new name, the next function), each treated once.

`AnalyzerExactProofs` and `AnalyzerSoundProofs` prove what the analysis is for. `PlainCode`
says that a module has no habits, that its element types have the sizes
`infer_gep_offset` assumes, and that no index saturates the product with them. For plain
code of any length, any number of functions and objects, any sizes, under any policy (but
`ignore` for DMA, which `SoundPass` excludes), with interrupts and with the gate:

- `PassIsSound` (`SoundPass`): while the verdict is Pass no instruction has made a memory error.

- `ProvenanceAlwaysExact` (`ProvenanceExact`): in the first function, what is tracked is
  where it points;

and if the module has one function:

- `FailsAreReal` (`FailIsReal`): a Fail has an error behind it.

`PlainCode` is needed: each of its parts is a limit of the analysis listed below, and
`prog_stride` and `prog_unproven` show two of them. The last two are about
the first function, as `prog_stale` shows they must be; that `PassIsSound` holds for any
number of them is a result of the proof. `SoundPass` is not inductive, since a store that is checked against the wrong
object, or not at all, makes an error while the verdict stays Pass. `SoundInv` adds
`MachineShape` (slots are reached by their own names only, heap objects hold no
pointers), `KindInv` (what is taken for a DMA buffer is one) and `PassInv`: while the
verdict is Pass, every pointer into the heap that the running function holds, in a name,
as an integer or in a slot, has an entry, the entry is exact, and every freed object is
in `freed_allocs` unless an interrupt may have freed it. The converse, that every entry
is exact whatever the verdict, is `ExactInv`, and holds in a module of one function:
names of a second find the entries of the first. A stale entry cannot harm a Pass,
because a pointer into the heap overwrites it when it is defined, and an access through
anything else is no heap access. Each instruction has a lemma (`GepStep`, `StoreStep`,
`KfreeStep`, ...) that it keeps both.

`IrReaderProofs` has three parts. Of `IrNames` it proves, for functions of any length
with any names: `TypeCorrect`, `PassesAlwaysAgree` (`PassesAgree`), `NamesAlwaysUnique`
(`NamesUnique`) and `OperandsAlwaysNamed` (`OperandsNamed`); and for any globals
`NamedPassesAlwaysAgree` (`NamedPassesAgree`), from `GlobalsAgreeExactly`, which says
exactly when a reference and a definition agree. `IInv` adds a history `before`, the counter in front of each
object in the first pass: a name is determined by its object and that counter, the
counters increase over numbered objects, and the second pass has the same counter at
each position. `SameNumbered` is the heart: `needs_name` and `term_needs_name` hold for
exactly the objects that get a `dest` or `result`. Uniqueness also uses that LLVM keeps
string names unique in a function.

Of `IrDataLayout` it proves `LayoutReadAsWritten`: for layout strings of any length and
any specifications that are well formed (`LayoutAssumption`), any sizes and any address
spaces, `LayoutAsWritten` and `LayoutPanics`. `LayoutAsWritten` speaks of lookups;
`LayoutInv` has what the loop keeps: each of the tables for integers, vectors, floats and
pointers is the one that the specifications read so far define. One more specification
replaces or adds one entry of one table (`ReadSpecEffect`), and is from then on the
last of its key (`LastSpecAppend`, `EntriesAppend`). The lookups then agree because the
least entry that is not below a size is the entry itself or the least above it; of
vectors, sizes with an entry are looked up. The
theorem is about `LayoutSpec`, the loop by itself. In `IrReader` the step
`ReadLayoutSpec` is a `ReadLayout` step and all others leave `layoutVars` unchanged.

Of `IrOperands` it proves, for every opcode, any values in the roles and any number of
arguments, cases, indices, clauses and labels: `FieldsHoldRoles` (each field holds the
operands of its role, in order, with the two exceptions that `FieldsAreRoles` names) and
`CountsAsserted` (the assertions on operand counts fail only for a `cleanupret` that
unwinds to a block). `OperandParts` says where each role starts in the operand list,
`FixedTables` compares the tables of the opcodes with a fixed list, and
`SwitchFieldsAreRoles` has the arithmetic of a switch: the value of case i is operand 2i.
The hypothesis `Shaped` is what LLVM's verifier guarantees, namely which roles there are
and which hold one value; TLC checks it of every instruction of `ir_reader`, in
`FieldsDenoteOperands`. `FieldsHoldRoles` is that property without the conversion of each
operand.

Only model-checked: `Returns`, which is liveness under fairness; and of the reader
`ConstantTypesExact`, `TypesExact`, `TypesAsLLVM`, `AttributesDenote`, the conversion of
single operands in `FieldsDenoteOperands`, and `PanicsWhenUnsupported` beyond layouts and
operand counts. These conversions are recursive operators over types and constants, and
what they compute for every input needs an induction over that data. Neither is within
the prover's reach.

## What the passing runs leave out

The analysis has limits that no passing run hides, because each is switched by a
constant or the choice of instructions. Each habit is needed: with any one of them allowed,
and modules of at most seven instructions, TLC finds `SoundPass`, `FailIsReal` or
`ProvenanceExact` violated.

- `alias`: unknown instructions that return pointers to tracked objects
  (`prog_unproven`). `heap_pointers`: the same through memory.
- `slot_reuse`: `alloca_store_map` keeps a spilled pointer when a value without an entry
  is stored over it (`main.rs` 1433); later loads get the old provenance.
- `slot_address`, `int_spill`: a store to a slot records what `ptr_env` has for the value,
  so the address of a slot, or an integer made from a heap pointer, comes back without
  provenance (`main.rs` 1431); casts of slot addresses are not followed either.
- `slot_gep`: a GEP of a stack slot is taken for a GEP of the pointer spilled in it
  (`main.rs` 1239).
- `dma_as_heap`: `kfree`, `memset`, `memcpy` and `ptrtoint` look at `kmalloc` pointers
  only (`main.rs` 911, 942, 1302). `map_freed`: `dma_map_single` does not look at
  `freed_allocs` (`main.rs` 1150). `handler_freed`: the irq-race condition exists for
  loads and stores only.
- `negative`, `wrap`: `operand_const_u64` zero-extends constants (`main.rs` 490), so a
  negative index or addend is a large number to the analysis, and its sums do not go round
  at the width of the type. `padding`: `type_size` adds up the fields of a struct without
  padding, and does not check its products (`main.rs` 454), so an access may be wider than
  it says.
- `asm_prefix`: `is_safe_inline_asm` looks at how a text begins (`main.rs` 287), whatever
  follows. `hidden_handler`: `scan_irq_handlers` (`main.rs` 635) finds the handlers
  that are passed by name to `request_irq` and call `kfree` themselves; one that frees in a
  function it calls, or is registered in another way, raises no irq-race condition.
- `iommu_map` marks all DMA allocations made before it (`prog_iommu`). A
  `dma_alloc_coherent` whose size is no constant makes the verdict Unknown and is not
  recorded, so it needs no `iommu_map`; with a Pass there is none.
- Strides other than 8 and 4 (`prog_stride`). Modules with more than one function
  (`prog_stale`) are in `prog` for the properties of the gate and for
  `SoundPass`, without `kfree`; `PassIsSound` covers them with `kfree`.

Of the validators: the C code does not look at the clock again after it waited for
the lock, so a token may be older than `max_age` when it is granted. The age check
means nothing where the subtraction overflows in C. That a token that is admitted is not
too old is the check itself and no property here. A replay file that the C code has just
created may vanish in a power loss, synced or not, since its directory is not synced. The
Zig code treats an insecure replay file as missing and does not look at the owner;
`AtMostOnceWhenWhole` ends there.

Of the pipeline: `println!` panics if standard output is gone, which ends a run with
101, a code the feature list does not have (`main.rs` 2247); the properties speak of
the documented codes. Output files are synced and their directory is not, so the name
of a new file may be lost (`KeptAfterExit` says so). A path exchanged between the `lstat`
and the open of `write_output_file` is not caught by `PrivateContent`, which looks at the
mode of the file that holds the output, and a mode that was set and not synced is taken to
survive a power loss together with the file (`AfterLoss`). A condition id starts with the
name of a function; one that starts with `#`, or with white space at an end, is not read
back from the approvals, which is the exception in `ReviewConverges`. Approvals by id
are loaded in off mode too, where nothing uses them. The option `--emit-equiv-summary`
is parsed and not read by `run()` (`main.rs` 121).

Of the reader: the properties of `ir_reader` name its exceptions and say exactly when
they happen. References to unnamed globals have another number than the global itself
if a function of the module has no name (`ir_globals`). The `return_label` of a
`callbr` comes from an accessor of `invoke`, its other labels are not read, and the
`parent_pad` of a `cleanuppad` with arguments is the first of them
(`FieldsDenoteOperands`). `get_type` gives pointers made by `alloca` and
`getelementptr` address space 0, and a shuffle of scalable vectors a fixed one, and
panics on an `extractvalue` through a named struct (`TypesExact`). For a vector size
without an entry `vec_alignment` takes the smallest entry, where its comment says "Find the
next smaller size that has an explicit entry" (`module.rs` 509); `LayoutAsWritten` speaks
of sizes with an entry only. `AttributesDenote` compares numbers and types of attributes
and not which variant an attribute without either is read as.

The analysis visits basic blocks in the order of the file, so branches and loops of
the driver are outside what these models compare; the modules are straight-line.

## Not modelled

- CLI parsing, the TUI, `doctor`, the feature list, the token template: printing and
  prompting, with no state that outlives the command.
- `build.rs`: selects a backend once.
- Token parsers: scanning of text without state. The validators' modules start from
  the fields found, with fields missing or out of range among them.
- Of `llvm-ir-patched`: `Display`, debug locations, the wrappers of C strings, the tables
  that copy flags, orderings, predicates, linkage, visibility and calling conventions
  one to one, and `metadata.rs`, which is not compiled in.
- Cryptography; Z3 beyond its answer.

## What could come next

- The line parsers of both backends as operators, compared with each other over small
  inputs (duplicates, missing fields, range limits).
- `type_size`, `scan_irq_handlers` and `is_safe_inline_asm` against reference
  definitions.
- `TypesBuilder` with a measure in place of recursion, so that what it caches can be
  reasoned about.
