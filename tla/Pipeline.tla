------------------------------ MODULE Pipeline ------------------------------
(***************************************************************************)
(* A run of the analyzer, main.rs: run(), apply_ring_policy,               *)
(* verify_attestation_signature, write_output_file and the approval files. *)
(* Runs follow one another on the same machine.                            *)
(*                                                                         *)
(* Reading the IR is one step here, and analyzing it one per condition     *)
(* (see IrReader and Analyzer).  The attestation backend is ReplayGuard,   *)
(* which both bridges refine, and which a fault can make forget its        *)
(* counter.  Around a run the world moves: the token and its signatures    *)
(* are renewed, output files are moved away or replaced, system calls      *)
(* fail, the process is killed, the power goes.                            *)
(***************************************************************************)
EXTENDS Integers, Sequences

CONSTANTS
    ArgSets,        \* command lines
    Conditions,     \* of the module: sequence of [vc, class, answers of the solver]
    ReadBack,       \* ReadBack[l]: the id that line l is loaded as; NoId: none
    Tokens,         \* versions of the token, each with its counter: 1 .. n
    MaxRuns,        \* bound: runs
    MaxFaults       \* bound: failed calls, kills, power losses and moved files

ASSUME PipelineAssumption ==
    /\ Tokens \subseteq Nat \ {0} /\ 1 \in Tokens
    /\ Conditions \in Seq({Conditions[k] : k \in DOMAIN Conditions})
    /\ MaxRuns \in Nat /\ MaxFaults \in Nat

NoId == ""
\* vc_id and vc_class_id: no id is empty; a class, which starts with "class::" and ends
\* with a number, is neither a comment nor trimmed.
ASSUME IdAssumption ==
    \A k \in DOMAIN Conditions :
        /\ Conditions[k].vc # NoId
        /\ ReadBack[Conditions[k].class] = Conditions[k].class /\ Conditions[k].class # NoId

Paths == {"vcs", "verdict", "proof"}
Keys == {"attestation", "root"}
NoToken == 0
Strict(ring) == ring \in {"ring-1", "ring-2"}

VARIABLES
    pc, args, exit,             \* where run() is; its arguments; the exit code
    approved, approved_classes, \* what load_hitl_approvals returned
    gate, result,               \* hitl_gate; the AnalysisResult so far
    visited,                    \* how many conditions analyze() has come to
    token_sha256,               \* the token reported, NoToken: None
    token_read,                 \* the token in memory while its signature is checked
    w,                          \* write_output_file: path; open; detached, the open file
                                \* if it is no longer the one at path, else Absent
    files,                      \* files[p]: the file at output path p
    vc_lines, class_lines,      \* the approval files
    token, signed,              \* the token file; signed[k]: the token k's signature is of
    last, pending, grants, forgot, \* the backend, see ReplayGuard
    runs, faults,               \* what the bounds count
    past                        \* history, see NewPast

Gate == INSTANCE HitlGate WITH Approved <- approved, ApprovedClasses <- approved_classes
Guard == INSTANCE ReplayGuard WITH Counters <- Tokens

gateVars == <<approved, approved_classes, gate, visited>>
ringVars == <<token_sha256, token_read>>
reviewVars == <<vc_lines, class_lines>>
issueVars == <<token, signed>>
guardVars == <<last, pending, grants, forgot>>
bounds == <<runs, faults>>
vars == <<pc, args, exit, gateVars, result, ringVars, w, files, reviewVars, issueVars,
          guardVars, bounds, past>>

\* What a file holds: the verdict or the conditions of a run.  run 0: not ours.
Content(n, status, blocked, classes) ==
    [run |-> n, status |-> status, blocked |-> blocked, classes |-> classes]
Foreign == Content(0, "", {}, {})
\* entry: the name in the directory is on disk; disk: the contents that are.
File(mode, content, entry) ==
    [mode |-> mode, content |-> content, disk |-> content, entry |-> entry]
Absent == File("", Foreign, TRUE)
Exists(f) == f.mode # ""
\* Mode 0664 stands for all that the checks on an existing file refuse.

\* Of the current run: spent, the token granted; proven, the <<key, token>> whose
\* signature was verified; midway, the token file changed between its reads; moved,
\* the paths that changed and where; printed.  Of all runs: created, the paths
\* whose file a run created; passed, the tokens of strict runs that ended with 0;
\* emitted, the conditions listed by runs in require mode whose analysis came to
\* the end; kept, the files of runs that ended normally.
NewPast == [spent |-> NoToken, proven |-> {}, midway |-> FALSE, moved |-> {}, printed |-> FALSE,
            created |-> {}, passed |-> <<>>, emitted |-> {},
            kept |-> [p \in Paths |-> Foreign]]

NoArgs == [command |-> "", ring |-> "ring0", mode |-> "off", sources |-> {}, missing |-> {},
           max_age |-> "ok", outs |-> {}]
NoWrite == [path |-> "", open |-> FALSE, detached |-> Absent]

Init ==
    /\ pc = "idle" /\ args = NoArgs /\ exit = -1
    /\ approved = {} /\ approved_classes = {} /\ gate = Gate!NewGate("off") /\ result = "pass"
    /\ visited = 0
    /\ token_sha256 = NoToken /\ token_read = NoToken
    /\ w = NoWrite
    /\ \E f \in {Absent} \cup {File(m, Foreign, TRUE) : m \in {"0644", "0664"}} :
          files = [p \in Paths |-> f]
    /\ vc_lines = {} /\ class_lines = {}
    /\ token = 1 /\ signed = [k \in Keys |-> 1]
    /\ last = 0 /\ pending = {} /\ grants = [c \in Tokens |-> 0]
    /\ forgot = FALSE
    /\ runs = 0 /\ faults = 0 /\ past = NewPast

MayFail == faults < MaxFaults /\ faults' = faults + 1

\* main: an error of run() is exit code 1, a panic is 101.
Exit(code) == pc' = "idle" /\ exit' = code
Go(where) == pc' = where /\ UNCHANGED exit
\* Write to path p if the arguments ask for it, else go on.
WriteOr(p, otherwise) ==
    IF p \in args.outs
    THEN Go("lstat") /\ w' = [NoWrite EXCEPT !.path = p]
    ELSE Go(otherwise) /\ UNCHANGED w

-----------------------------------------------------------------------------
(* Commands, parsing and approvals.                                        *)

Start ==
    /\ pc = "idle" /\ runs < MaxRuns
    /\ runs' = runs + 1
    /\ \E a \in ArgSets :
          /\ args' = a
          /\ pc' = IF a.command = "attest-check" THEN "ring" ELSE "parse"
          /\ gate' = Gate!NewGate(a.mode)
    /\ exit' = -1 /\ result' = "pass" /\ token_sha256' = NoToken /\ token_read' = NoToken
    /\ approved' = {} /\ approved_classes' = {} /\ visited' = 0
    /\ past' = [past EXCEPT !.spent = NoToken, !.proven = {}, !.midway = FALSE, !.moved = {},
                            !.printed = FALSE]
    /\ w' = NoWrite
    /\ UNCHANGED <<files, reviewVars, issueVars, guardVars, faults>>

\* Module::from_ir_path returns, fails, or panics inside catch_unwind.
Parse ==
    /\ pc = "parse"
    /\ \/ Go("approvals") /\ UNCHANGED faults
       \/ MayFail /\ Exit(1)
    /\ UNCHANGED <<args, gateVars, result, ringVars, w, files, reviewVars, issueVars,
                   guardVars, runs, past>>

\* Blank lines and comments are skipped, the others are trimmed.
load_hitl_approvals(lines) == {ReadBack[l] : l \in lines} \ {NoId}

LoadApprovals ==
    /\ pc = "approvals"
    /\ \/ /\ args.mode = "require" => args.sources # {}
          /\ approved' = IF "vcs" \in args.sources THEN load_hitl_approvals(vc_lines) ELSE {}
          /\ approved_classes' = IF args.mode = "require" /\ "classes" \in args.sources
                                 THEN load_hitl_approvals(class_lines) ELSE {}
          /\ Go("analyze")
          /\ UNCHANGED faults
       \/ /\ args.mode = "require" /\ args.sources = {}
          /\ Exit(1)
          /\ UNCHANGED <<approved, approved_classes, faults>>
       \/ /\ "vcs" \in args.sources \/ (args.mode = "require" /\ args.sources # {})
          /\ MayFail /\ Exit(1)
          /\ UNCHANGED <<approved, approved_classes>>
    /\ UNCHANGED <<args, gate, visited, result, ringVars, w, files, reviewVars, issueVars,
                   guardVars, runs, past>>

\* Mutant: after a blocked condition the others are passed over.
VisitStopsAtBlocked(acc, c, answer) ==
    IF acc.gate.blocked # {} THEN acc
    ELSE [gate |-> Gate!should_run_solver(acc.gate, c.vc, c.class),
          result |-> IF ~Gate!MayRun(acc.gate, c.vc, c.class) \/ answer = "gave_up"
                     THEN "unknown"
                     ELSE IF answer = "violated" THEN "fail" ELSE acc.result]
\* One condition: blocked or undecided it makes a pass unknown.
VisitCondition(acc, c, answer) ==
    [gate |-> Gate!should_run_solver(acc.gate, c.vc, c.class),
     result |-> IF ~Gate!MayRun(acc.gate, c.vc, c.class) \/ answer = "gave_up"
                THEN "unknown"
                ELSE IF answer = "violated" THEN "fail" ELSE acc.result]

\* analyze(): the next condition, unless one was violated.
Visit ==
    /\ pc = "analyze" /\ result # "fail" /\ visited < Len(Conditions)
    /\ visited' = visited + 1
    /\ \E answer \in Conditions[visited + 1].answers :
          LET end == VisitCondition([gate |-> gate, result |-> result],
                                    Conditions[visited + 1], answer)
          IN  gate' = end.gate /\ result' = end.result
    /\ UNCHANGED <<pc, args, exit, approved, approved_classes, ringVars, w, files, reviewVars,
                   issueVars, guardVars, bounds, past>>

EndAnalysis ==
    /\ pc = "analyze"
    /\ result = "fail" \/ visited = Len(Conditions)
    /\ WriteOr("vcs", "enforce")
    /\ UNCHANGED <<args, gateVars, result, ringVars, files, reviewVars, issueVars, guardVars,
                   bounds, past>>

Enforce ==
    /\ pc = "enforce"
    /\ result' = Gate!enforce_hitl_policy(result, gate)
    /\ Go("ring")
    /\ past' = IF "vcs" \in args.outs /\ args.mode = "require" /\ result # "fail"
               THEN [past EXCEPT !.emitted = @ \cup
                        {[blocked |-> gate.blocked, classes |-> gate.blocked_classes,
                          sources |-> args.sources]}]
               ELSE past
    /\ UNCHANGED <<args, gateVars, ringVars, w, files, reviewVars, issueVars, guardVars, bounds>>

-----------------------------------------------------------------------------
(* apply_ring_policy.                                                      *)

Lacks(options) == args.missing \cap options # {}

\* Every early return of apply_ring_policy.
Reject == result' = "fail" /\ Go("print")

RingPolicy ==
    /\ pc = "ring"
    /\ \/ ~Strict(args.ring) /\ Go("print") /\ UNCHANGED result
       \/ Strict(args.ring) /\ Lacks({"token", "pubkey", "signature", "fingerprint"}) /\ Reject
       \/ /\ Strict(args.ring) /\ ~Lacks({"token", "pubkey", "signature", "fingerprint"})
          /\ Go("read_token") /\ UNCHANGED result
    /\ UNCHANGED <<args, gateVars, ringVars, w, files, reviewVars, issueVars, guardVars,
                   bounds, past>>

\* verify_attestation_signature, up to fs::read of the token.
ReadToken ==
    /\ \/ pc = "read_token" /\ Go("check_signature") /\ UNCHANGED <<result, faults>>
       \/ /\ pc = "read_token_again"
          /\ ~Lacks({"root_pubkey", "root_signature", "root_fingerprint"})
          /\ Go("check_root")
          /\ UNCHANGED <<result, faults>>
       \/ /\ pc = "read_token_again"
          /\ Lacks({"root_pubkey", "root_signature", "root_fingerprint"})
          /\ Reject
          /\ UNCHANGED faults
       \/ pc \in {"read_token", "read_token_again"} /\ MayFail /\ Reject
    /\ token_read' = token
    /\ UNCHANGED <<args, gateVars, token_sha256, w, files, reviewVars, issueVars, guardVars,
                   runs, past>>

\* The rest of it: the signature is read, checked against the token in memory, and
\* the key against its pin.
WrongPin == [attestation |-> "wrong_pin", root |-> "wrong_root_pin"]
Verified(k) == signed[k] = token_read /\ ~Lacks({WrongPin[k]})

Proves(k) == past' = [past EXCEPT !.proven = @ \cup {<<k, token_read>>}]

\* Mutant: the error of the verification is dropped.
CheckSignatureContinues ==
    /\ pc = "check_signature"
    /\ token_sha256' = IF Verified("attestation") THEN token_read ELSE token_sha256
    /\ Proves("attestation")
    /\ Go(IF args.ring = "ring-2" THEN "read_token_again" ELSE "binding")
    /\ UNCHANGED result
    /\ UNCHANGED <<args, gateVars, token_read, w, files, reviewVars, issueVars, guardVars, bounds>>
CheckSignature ==
    /\ pc = "check_signature"
    /\ IF Verified("attestation")
       THEN /\ token_sha256' = token_read
            /\ Proves("attestation")
            /\ Go(IF args.ring = "ring-2" THEN "read_token_again" ELSE "binding")
            /\ UNCHANGED result
       ELSE Reject /\ UNCHANGED <<token_sha256, past>>
    /\ UNCHANGED <<args, gateVars, token_read, w, files, reviewVars, issueVars, guardVars, bounds>>

CheckRoot ==
    /\ pc = "check_root"
    /\ IF Verified("root")
       THEN Proves("root") /\ Go("binding") /\ UNCHANGED result
       ELSE Reject /\ UNCHANGED past
    /\ UNCHANGED <<args, gateVars, ringVars, w, files, reviewVars, issueVars, guardVars, bounds>>

\* The checks of max age, nonce and replay state.
CheckBinding ==
    /\ pc = "binding"
    /\ IF args.max_age \in {"zero", "above i64"} \/ Lacks({"nonce", "replay_state"})
       THEN Reject
       ELSE Go("validate") /\ UNCHANGED result
    /\ UNCHANGED <<args, gateVars, ringVars, w, files, reviewVars, issueVars, guardVars,
                   bounds, past>>

\* Mutant: only ring -2 rejects an unresolved proof.
PromoteRing2(r) == IF args.ring = "ring-2" /\ r = "unknown" THEN "fail" ELSE r
\* The match at the end: an unresolved proof is rejected.
Promote(r) == IF Strict(args.ring) /\ r = "unknown" THEN "fail" ELSE r

\* The file of the backend is left empty, or short, or is gone: the next counter is
\* compared with 0.
Forget == last' = 0 /\ forgot' = TRUE /\ UNCHANGED grants

\* Mutant: the validator's refusal is taken for a yes.
ValidateAnyAnswer ==
    /\ pc = "validate"
    /\ \/ Guard!Take(token) /\ Go("granting") /\ UNCHANGED result
       \/ result' = Promote(result) /\ Go("print") /\ UNCHANGED guardVars
    /\ UNCHANGED <<args, gateVars, ringVars, w, files, reviewVars, issueVars, bounds, past>>
\* skv_validate_attestation_token reads the token itself.  It takes the counter
\* over, or refuses: for the counter, or for any other field.  A call that fails
\* while the backend rewrites its file makes it refuse too, and the counter is lost.
Validate ==
    /\ pc = "validate"
    /\ \/ Guard!Take(token) /\ Go("granting") /\ UNCHANGED <<result, faults>>
       \/ Reject /\ UNCHANGED <<guardVars, faults>>
       \/ Reject /\ MayFail /\ Forget /\ UNCHANGED pending
    /\ UNCHANGED <<args, gateVars, ringVars, w, files, reviewVars, issueVars, runs, past>>

\* It answers 1, or fails after all.
ValidatorAnswers ==
    /\ pc = "granting"
    /\ \E c \in pending :
          \/ /\ Guard!Grant(c)
             /\ result' = Promote(result) /\ Go("print")
             /\ past' = [past EXCEPT !.spent = c]
             /\ UNCHANGED faults
          \/ Guard!Drop(c) /\ Reject /\ MayFail /\ UNCHANGED past
    /\ UNCHANGED <<args, gateVars, ringVars, w, files, reviewVars, issueVars, runs>>

-----------------------------------------------------------------------------
(* The verdict and write_output_file.                                      *)

Code == [pass |-> 0, fail |-> 10, unknown |-> 20]

\* Mutant: the verdict is printed when the files are written.
PrintLast ==
    /\ pc = "print"
    /\ past' = [past EXCEPT !.printed = args.outs = {}]
    /\ WriteOr("verdict", "proof") /\ UNCHANGED faults
    /\ UNCHANGED <<args, gateVars, result, ringVars, files, reviewVars, issueVars, guardVars,
                   runs>>
\* println! panics when standard output is gone.
PrintVerdict ==
    /\ pc = "print"
    /\ \/ past' = [past EXCEPT !.printed = TRUE] /\ WriteOr("verdict", "proof") /\ UNCHANGED faults
       \/ MayFail /\ Exit(101) /\ UNCHANGED <<past, w>>
    /\ UNCHANGED <<args, gateVars, result, ringVars, files, reviewVars, issueVars, guardVars,
                   runs>>

\* attest-check writes no proof.
EmitProof ==
    /\ pc = "proof"
    /\ IF args.command = "attest-check" THEN Go("return") /\ UNCHANGED w
       ELSE WriteOr("proof", "return")
    /\ UNCHANGED <<args, gateVars, result, ringVars, files, reviewVars, issueVars, guardVars,
                   bounds, past>>

AfterWrite == [vcs |-> "enforce", verdict |-> "proof", proof |-> "return"]

\* What is written to a path: the VC lists, or the status of the verdict.
Output(p) == IF p = "vcs" THEN Content(runs, "listed", gate.blocked, gate.blocked_classes)
             ELSE Content(runs, result, {}, {})

\* symlink_metadata: an error of it counts as no file.
Lstat ==
    /\ pc = "lstat"
    /\ \/ files[w.path].mode = "0664" /\ Exit(1) /\ UNCHANGED faults
       \/ files[w.path].mode # "0664" /\ Go("open") /\ UNCHANGED faults
       \/ MayFail /\ Go("open")
    /\ UNCHANGED <<args, gateVars, result, ringVars, w, files, reviewVars, issueVars, guardVars,
                   runs, past>>

\* open with create and truncate.
Opened(f) == IF Exists(f) THEN [f EXCEPT !.content = Foreign] ELSE File("0644", Foreign, FALSE)

\* Mutant: the permissions are not set.
OpenThenWrite ==
    /\ pc = "open"
    /\ \/ /\ files' = [files EXCEPT ![w.path] = Opened(@)]
          /\ w' = [w EXCEPT !.open = TRUE]
          /\ past' = [past EXCEPT !.kept[w.path] = Foreign]
          /\ Go("write") /\ UNCHANGED faults
       \/ MayFail /\ Exit(1) /\ UNCHANGED <<files, w, past>>
    /\ UNCHANGED <<args, gateVars, result, ringVars, reviewVars, issueVars, guardVars, runs>>
Open ==
    /\ pc = "open"
    /\ \/ /\ files' = [files EXCEPT ![w.path] = Opened(@)]
          /\ w' = [w EXCEPT !.open = TRUE]
          /\ past' = [past EXCEPT !.kept[w.path] = Foreign,
                                  !.created = IF Exists(files[w.path]) THEN @
                                              ELSE @ \cup {w.path}]
          /\ Go("chmod") /\ UNCHANGED faults
       \/ MayFail /\ Exit(1) /\ UNCHANGED <<files, w, past>>
    /\ UNCHANGED <<args, gateVars, result, ringVars, reviewVars, issueVars, guardVars, runs>>

\* set_permissions goes by the path, not by the open file.
Chmod ==
    /\ pc = "chmod"
    /\ \/ /\ Exists(files[w.path])
          /\ files' = [files EXCEPT ![w.path].mode = "0600"]
          /\ Go("write") /\ UNCHANGED faults
       \/ ~Exists(files[w.path]) /\ Exit(1) /\ UNCHANGED <<files, faults>>
       \/ MayFail /\ Exit(1) /\ UNCHANGED files
    /\ UNCHANGED <<args, gateVars, result, ringVars, w, reviewVars, issueVars, guardVars,
                   runs, past>>

\* Contents c go to the open file.
PutContent(c) ==
    IF Exists(w.detached)
    THEN w' = [w EXCEPT !.detached.content = c] /\ UNCHANGED files
    ELSE files' = [files EXCEPT ![w.path].content = c] /\ UNCHANGED w

\* write_all may fail half way.
WriteAll ==
    /\ pc = "write"
    /\ \/ PutContent(Output(w.path)) /\ Go("sync") /\ UNCHANGED faults
       \/ PutContent([Output(w.path) EXCEPT !.status = "torn"]) /\ MayFail /\ Exit(1)
    /\ UNCHANGED <<args, gateVars, result, ringVars, reviewVars, issueVars, guardVars, runs, past>>

\* Mutant: no sync_all.
SyncSkipped ==
    /\ pc = "sync"
    /\ Go(AfterWrite[w.path])
    /\ UNCHANGED <<args, gateVars, result, ringVars, w, files, reviewVars, issueVars, guardVars,
                   bounds, past>>
SyncAll ==
    /\ pc = "sync"
    /\ \/ /\ files' = IF Exists(w.detached) THEN files
                      ELSE [files EXCEPT ![w.path].disk = files[w.path].content]
          /\ Go(AfterWrite[w.path]) /\ UNCHANGED faults
       \/ MayFail /\ Exit(1) /\ UNCHANGED files
    /\ UNCHANGED <<args, gateVars, result, ringVars, w, reviewVars, issueVars, guardVars, runs, past>>

Written == args.outs \cap (IF args.command = "attest-check" THEN {"verdict"} ELSE Paths)
Undisturbed(p) == \A m \in past.moved : m[1] # p

Return ==
    /\ pc = "return"
    /\ Exit(Code[result])
    /\ past' = [past EXCEPT
          !.kept = [p \in Paths |-> IF p \in Written /\ Undisturbed(p) THEN Output(p) ELSE @[p]],
          !.passed = IF Strict(args.ring) /\ result = "pass"
                     THEN Append(@, [reported |-> token_sha256, midway |-> past.midway])
                     ELSE @]
    /\ UNCHANGED <<args, gateVars, result, ringVars, w, files, reviewVars, issueVars, guardVars,
                   bounds>>

-----------------------------------------------------------------------------
(* Around the runs.  A change of the token, of a signature or of an output *)
(* file at a step that does not come near it is the same as one just       *)
(* before the next step that does, so the others are left out.             *)

TokenSteps == {"read_token", "check_signature", "read_token_again", "check_root", "binding",
               "validate"}
WriteSteps == {"lstat", "open", "chmod", "write", "sync"}

\* A new token, then its signatures, are put in place of the old ones.
RenewToken ==
    /\ pc \in TokenSteps \cup {"idle"}
    /\ token + 1 \in Tokens
    /\ token' = token + 1
    /\ past' = [past EXCEPT !.midway = @ \/ pc \in TokenSteps \ {"read_token"}]
    /\ UNCHANGED <<pc, args, exit, gateVars, result, ringVars, w, files, reviewVars, signed,
                   guardVars, bounds>>
RenewSignature(k) ==
    /\ pc \in {"idle", "check_signature", "check_root"}
    /\ signed[k] # token
    /\ signed' = [signed EXCEPT ![k] = token]
    /\ UNCHANGED <<pc, args, exit, gateVars, result, ringVars, w, files, reviewVars, token,
                   guardVars, bounds, past>>

\* A reviewer approves what a run listed as blocked, by id or by class.
Review ==
    /\ pc = "idle"
    /\ LET c == files["vcs"].content IN
          /\ c.status = "listed"
          /\ \/ ~(c.blocked \subseteq vc_lines) /\ vc_lines' = vc_lines \cup c.blocked
                /\ UNCHANGED class_lines
             \/ ~(c.classes \subseteq class_lines) /\ class_lines' = class_lines \cup c.classes
                /\ UNCHANGED vc_lines
    /\ UNCHANGED <<pc, args, exit, gateVars, result, ringVars, w, files, issueVars,
                   guardVars, bounds, past>>

\* An output file is moved away, and perhaps another one put in its place.
MoveFile(p) ==
    /\ MayFail
    /\ Exists(files[p])
    /\ pc = "idle" \/ (w.path = p /\ pc \in WriteSteps)
    /\ \E f \in {Absent} \cup {File(m, Foreign, TRUE) : m \in {"0644", "0664"}} :
          files' = [files EXCEPT ![p] = f]
    /\ w' = IF pc # "idle" /\ w.open /\ ~Exists(w.detached)
            THEN [w EXCEPT !.detached = files[p]] ELSE w
    /\ past' = [past EXCEPT !.moved = @ \cup {<<p, pc>>}, !.created = @ \ {p},
                            !.kept[p] = Foreign]
    /\ UNCHANGED <<pc, args, exit, gateVars, result, ringVars, reviewVars, issueVars, guardVars,
                   runs>>

\* The process is killed; a validation under way is dropped.
Killed == /\ exit' = 137 /\ pc' = "idle" /\ pending' = {}
          /\ UNCHANGED <<args, gateVars, result, ringVars, w, reviewVars, issueVars, runs, past>>
\* Within the validator a kill may come between ftruncate and write (C), or between
\* create and writeAll (Zig).
Kill ==
    /\ pc # "idle" /\ MayFail /\ Killed
    /\ \/ UNCHANGED <<last, grants, forgot>>
       \/ pc = "validate" /\ Forget
    /\ UNCHANGED files

\* Contents that are not synced, and names of new files, may or may not survive; the
\* mode of a file survives with it.
AfterLoss(f) ==
    {File(f.mode, c, TRUE) : c \in {f.content, f.disk}} \cup (IF f.entry THEN {} ELSE {Absent})

\* The backend's file may be lost too: the C bridge does not sync the directory, the
\* Zig one nothing.
PowerLoss ==
    /\ runs > 0 /\ MayFail /\ Killed
    /\ UNCHANGED <<last, grants, forgot>> \/ Forget
    /\ files' \in {g \in [Paths -> UNION {AfterLoss(files[p]) : p \in Paths}] :
                      \A p \in Paths : g[p] \in AfterLoss(files[p])}

Process ==
    \/ Start \/ Parse \/ LoadApprovals \/ Visit \/ EndAnalysis \/ Enforce
    \/ RingPolicy \/ ReadToken \/ CheckSignature \/ CheckRoot \/ CheckBinding
    \/ Validate \/ ValidatorAnswers
    \/ PrintVerdict \/ EmitProof \/ Return
    \/ Lstat \/ Open \/ Chmod \/ WriteAll \/ SyncAll

World ==
    \/ RenewToken \/ Review \/ Kill \/ PowerLoss
    \/ \E k \in Keys : RenewSignature(k)
    \/ \E p \in Paths : MoveFile(p)

Next == Process \/ World

Spec == Init /\ [][Next]_vars

-----------------------------------------------------------------------------
(* Properties.                                                             *)

Ended(code) == pc = "idle" /\ exit = code

\* apply_ring_policy: a run for ring -1 or -2 that exits with 0 has spent a counter,
\* has the analysis on its side, has verified the signature of the token it reports,
\* for ring -2 the root's too, and of the token whose counter was spent unless the
\* file changed between the reads; and it never exits with 20.
StrictPassJustified ==
    Strict(args.ring) =>
        /\ ~Ended(20)
        /\ Ended(0) =>
              /\ past.spent # NoToken
              /\ gate.mode = "require" /\ args.command = "analyze" => gate.blocked = {}
              /\ <<"attestation", token_sha256>> \in past.proven
              /\ args.ring = "ring-2" => \E t \in Tokens : <<"root", t>> \in past.proven
              /\ past.midway \/
                    \A k \in IF args.ring = "ring-2" THEN Keys ELSE {"attestation"} :
                        <<k, past.spent>> \in past.proven

\* The token_sha256 of the verdict is the token whose counter apply_ring_policy spent,
\* unless the token file changed between verify_attestation_signature and
\* skv_validate_attestation_token, which read it one after the other.
ReportedIsSpent ==
    past.spent # NoToken /\ token_sha256 # past.spent => past.midway

\* As long as no fault made the backend forget its counter, no two strict runs pass
\* on the same reported token, whatever else failed or was killed in between, unless
\* the token file changed between its reads by apply_ring_policy in one of them.
OnePassPerToken ==
    ~forgot =>
        \A i, j \in DOMAIN past.passed :
            i < j /\ past.passed[i].reported = past.passed[j].reported
                => past.passed[i].midway \/ past.passed[j].midway

\* run() emits the VC lists before it spends a counter: a run that ends with an
\* error (exit code 1; a println! that panics ends it with 101) after the counter was
\* spent has printed its verdict.
SpentIsPrinted == Ended(1) /\ past.spent # NoToken => past.printed

\* What emit_hitl_vcs lists is enough: a reviewer who approves everything a complete
\* analysis in require mode was blocked on finds nothing blocked in the next run,
\* but for the ids that load_hitl_approvals does not read back; by class, nothing.
ReviewConverges ==
    pc \notin {"idle", "parse", "approvals", "analyze"} /\ args.mode = "require" =>
        \A e \in past.emitted :
            e.sources \subseteq args.sources =>
                /\ "vcs" \in args.sources /\ e.blocked \subseteq vc_lines
                      => \A v \in gate.blocked : ReadBack[v] # v
                /\ "classes" \in args.sources /\ e.classes \subseteq class_lines
                      => gate.blocked = {}

\* A run that exits with 0, 10 or 20 leaves the files asked for, complete, with mode
\* 0600 and on disk: a later power loss takes no content, only the name of a file
\* write_output_file created (it does not sync the directory).
KeptAfterExit ==
    \A p \in Paths : past.kept[p].run # 0 =>
        \/ /\ files[p].content = past.kept[p] /\ files[p].disk = past.kept[p]
           /\ files[p].mode = "0600"
        \/ ~Exists(files[p]) /\ p \in past.created

\* write_output_file sets the mode before it writes: no file holds output of a run
\* with another mode than 0600, unless it was moved between open and set_permissions.
\* Whether the path still leads to what lstat saw is not looked at.
PrivateContent ==
    /\ \A p \in Paths : files[p].content.run # 0 => files[p].mode = "0600"
    /\ w.detached.content.run # 0 /\ w.detached.mode # "0600" => <<w.path, "chmod">> \in past.moved
=============================================================================
