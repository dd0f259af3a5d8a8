------------------------------ MODULE HitlGate ------------------------------
(***************************************************************************)
(* The human-in-the-loop gate of main.rs: struct HitlGate, its             *)
(* should_run_solver, and enforce_hitl_policy.  A gate is a record; the    *)
(* code's vectors are only ever read as sets (every count and every list   *)
(* it reports is deduplicated), so they are sets here.                     *)
(***************************************************************************)

CONSTANTS
    Approved,            \* ids of the --hitl-approvals file
    ApprovedClasses      \* ids of the --hitl-class-approvals file

HitlModes == {"off", "require"}

\* asked is history: the pairs of an id and its class, which the code keeps in
\* two separate lists.
NewGate(mode) ==
    [mode |-> mode, seen |-> {}, blocked |-> {}, seen_classes |-> {},
     blocked_classes |-> {}, asked |-> {}]

IsApproved(vc, class) == vc \in Approved \/ class \in ApprovedClasses

\* The answer of should_run_solver.
MayRun(gate, vc, class) == gate.mode = "off" \/ IsApproved(vc, class)

\* The gate after should_run_solver.
should_run_solver(gate, vc, class) ==
    LET denied(x) == IF MayRun(gate, vc, class) THEN {} ELSE {x}
    IN  [gate EXCEPT !.seen = @ \cup {vc},
                     !.seen_classes = @ \cup {class},
                     !.blocked = @ \cup denied(vc),
                     !.blocked_classes = @ \cup denied(class),
                     !.asked = @ \cup {<<vc, class>>}]

\* Mutant: a Pass is let through although conditions were blocked.
EnforceUnknownOnly(result, gate) ==
    IF gate.mode = "require" /\ gate.blocked # {} /\ result = "unknown" THEN "fail" ELSE result

\* Mutant: blocked conditions make the verdict unknown, whatever it was.
EnforceUnknown(result, gate) ==
    IF gate.mode = "require" /\ gate.blocked # {} THEN "unknown" ELSE result

enforce_hitl_policy(result, gate) ==
    IF gate.mode = "require" /\ gate.blocked # {} THEN "fail" ELSE result
=============================================================================
