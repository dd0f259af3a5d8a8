---------------------------- MODULE PipelineInv -----------------------------
(***************************************************************************)
(* The inductive invariant of Pipeline.  IInv has a part for each concern: *)
(* types, ring policy, token, exit code, earlier passes, modes of files,   *)
(* contents of files, review.  PipelineFileProofs proves that every step   *)
(* keeps the parts about files, PipelineProofs that it keeps the others.   *)
(***************************************************************************)
EXTENDS Pipeline

\* Where run() can be, and the fields of the history.
Results == {"pass", "fail", "unknown"}
RingSteps == TokenSteps \cup {"granting"}
Steps == {"idle", "parse", "approvals", "analyze", "enforce", "ring", "print", "proof",
          "return"} \cup RingSteps \cup WriteSteps

PastFields == {"spent", "proven", "midway", "moved", "printed", "created", "passed", "emitted",
               "kept"}

\* The types the other parts need; a token in memory while a signature is checked.
TypeOK ==
    /\ pc \in Steps /\ exit \in Int /\ result \in Results
    /\ token \in Tokens /\ token_sha256 \in Tokens \cup {NoToken}
    /\ token_read \in Tokens \cup {NoToken}
    /\ pc \in {"check_signature", "check_root"} => token_read \in Tokens
    /\ last \in Int /\ pending \subseteq Tokens
    /\ DOMAIN w = {"path", "open", "detached"}
    /\ pc \in WriteSteps => w.path \in Paths
    /\ DOMAIN past = PastFields
    /\ past.spent \in Tokens \cup {NoToken}

\* apply_ring_policy has returned.
Late == pc \in {"print", "proof", "return"} \/ (pc \in WriteSteps /\ w.path # "vcs")

\* A counter is pending only at the validator's answer, spent only after it; once
\* apply_ring_policy has returned a strict run is decided, and passes only on a spent
\* counter with nothing blocked.
RingInv ==
    /\ pending # {} => pc = "granting"
    /\ pc = "granting" => pending = {last}
    /\ past.spent # NoToken => pc = "idle" \/ Late
    /\ pc \in RingSteps => Strict(args.ring)
    /\ Late /\ Strict(args.ring) =>
          result # "unknown" /\ (result = "pass" => past.spent # NoToken)
    /\ (pc \in {"ring"} \cup RingSteps \/ Late) /\ args.command = "analyze" /\ result = "pass" =>
          (gate.mode = "require" => gate.blocked = {})

\* From each check on, what it verified is in the history, and is the token in the
\* file (then the one taken, then the one spent) unless the file changed midway.
TokenInv ==
    /\ pc \in {"check_signature", "check_root"} => past.midway \/ token_read = token
    /\ pc \in {"read_token_again", "check_root", "binding", "validate", "granting"} =>
          /\ <<"attestation", token_sha256>> \in past.proven
          /\ past.midway \/ token_sha256 = IF pc = "granting" THEN last ELSE token
    /\ pc \in {"binding", "validate", "granting"} /\ args.ring = "ring-2" =>
          \E t \in Tokens : <<"root", t>> \in past.proven /\ (past.midway \/ t = token_sha256)
    /\ past.spent # NoToken =>
          /\ <<"attestation", token_sha256>> \in past.proven
          /\ past.midway \/ token_sha256 = past.spent
          /\ args.ring = "ring-2" =>
                \E t \in Tokens : <<"root", t>> \in past.proven /\ (past.midway \/ t = past.spent)

\* What the exit code of the last run tells, and that a verdict was printed.
ExitInv ==
    /\ Ended(20) => ~Strict(args.ring)
    /\ Ended(0) /\ Strict(args.ring) =>
          /\ past.spent # NoToken
          /\ gate.mode = "require" /\ args.command = "analyze" => gate.blocked = {}
    /\ past.spent # NoToken /\ pc # "print" => past.printed \/ (pc = "idle" /\ exit # 1)

\* Unless the backend forgot, the tokens that passed before are at most its last
\* counter, and below what is being granted or was spent in this run.
Passes == [reported : Nat, midway : BOOLEAN]
Below(s, c) == \A i \in DOMAIN s : s[i].midway \/ s[i].reported < c
PassedOnce(s) ==
    \A i, j \in DOMAIN s : i < j /\ s[i].reported = s[j].reported => s[i].midway \/ s[j].midway
PassBounds ==
    /\ Below(past.passed, last + 1)
    /\ pc = "granting" => Below(past.passed, last)
    /\ Late /\ past.spent # NoToken => Below(past.passed, past.spent) /\ past.spent <= last
    /\ PassedOnce(past.passed)
PassInv ==
    /\ past.passed \in Seq(Passes) /\ past.midway \in BOOLEAN
    /\ ~forgot => PassBounds

\* A file with output of a run has mode 0600, on disk too.  The open file is the one
\* at the path, with mode 0600 once set_permissions is done, or was moved away.
FileFields == {"mode", "content", "disk", "entry"}
Private(f) ==
    /\ DOMAIN f = FileFields
    /\ f.content.run # 0 \/ f.disk.run # 0 => f.mode = "0600"
FileInv ==
    /\ DOMAIN files = Paths /\ \A p \in Paths : Private(files[p])
    /\ DOMAIN w.detached = FileFields
    /\ pc \in WriteSteps => (w.open <=> pc \in {"chmod", "write", "sync"})
    /\ Exists(w.detached) => w.open
    /\ pc \in {"write", "sync"} /\ ~Exists(w.detached) => files[w.path].mode = "0600"
    /\ Exists(w.detached) /\ w.detached.mode # "0600" => <<w.path, "chmod">> \in past.moved
    /\ w.detached.content.run # 0 => Exists(w.detached)

\* p has been written in this run.
Done(p) ==
    /\ p \in Written
    /\ p = "vcs" => pc \in {"enforce", "ring"} \cup RingSteps \/ Late
    /\ p = "verdict" => pc \in {"proof", "return"} \/ (pc \in WriteSteps /\ w.path = "proof")
    /\ p = "proof" => pc = "return"
\* Output p of this run is complete and synced unless it was moved; what was kept of
\* earlier runs is still there.
Holds(p, c) == files[p].content = c /\ files[p].disk = c /\ files[p].mode = "0600"
KeptInv ==
    /\ DOMAIN past.kept = Paths
    /\ \A p \in Paths : ~files[p].entry => p \in past.created
    /\ pc \in WriteSteps /\ Exists(w.detached) => \E m \in past.moved : m[1] = w.path
    /\ pc \in {"chmod", "write", "sync"} => past.kept[w.path].run = 0
    /\ pc = "sync" /\ ~Exists(w.detached) => files[w.path].content = Output(w.path)
    /\ \A p \in Paths : Done(p) /\ Undisturbed(p) => Holds(p, Output(p))
    /\ KeptAfterExit

\* The approval files approve condition c for a run that reads these sources.
Covered(sources, c) ==
    \/ "vcs" \in sources /\ c.vc \in load_hitl_approvals(vc_lines)
    \/ "classes" \in sources /\ c.class \in load_hitl_approvals(class_lines)
\* They do, or c was listed.
Listed(blocked, classes, sources, c) ==
    Covered(sources, c) \/ (c.vc \in blocked /\ c.class \in classes)
\* The analysis is over, and its list is written.
Listing == pc = "enforce" \/ (pc \in WriteSteps /\ w.path = "vcs")
\* The gate blocks what the files do not approve, all of that up to where the analysis
\* is, and a list that was written has all of it.
GateFields == {"mode", "seen", "blocked", "seen_classes", "blocked_classes", "asked"}
ReviewInv ==
    /\ DOMAIN gate = GateFields /\ gate.mode = args.mode /\ visited \in 0..Len(Conditions)
    /\ pc \in {"parse", "approvals"} => gate.blocked = {} /\ visited = 0
    /\ pc = "analyze" /\ args.mode = "require" =>
          \A k \in DOMAIN Conditions :
             Gate!IsApproved(Conditions[k].vc, Conditions[k].class) <=> Covered(args.sources, Conditions[k])
    /\ pc \notin {"idle", "parse", "approvals"} /\ args.mode = "require" =>
          /\ \A v \in gate.blocked :
                \E k \in DOMAIN Conditions : Conditions[k].vc = v /\ ~Covered(args.sources, Conditions[k])
          /\ \A k \in 1..visited :
                Listed(gate.blocked, gate.blocked_classes, args.sources, Conditions[k])
    /\ Listing => result = "fail" \/ visited = Len(Conditions)
    /\ \A e \in past.emitted : \A k \in DOMAIN Conditions :
          Listed(e.blocked, e.classes, e.sources, Conditions[k])

IInv == TypeOK /\ RingInv /\ TokenInv /\ ExitInv /\ PassInv /\ FileInv /\ KeptInv /\ ReviewInv
=============================================================================
