---------------------------- MODULE ReplayGuard ----------------------------
(***************************************************************************)
(* What the replay protection of an attestation backend promises, said     *)
(* without files, locks or processes.  There is one monotonic counter.  A  *)
(* token whose counter is above it may take it over; a taken counter is    *)
(* then granted (the validator answers 1) or dropped (the validator fails  *)
(* or dies first).  The counter may also pass over values nobody is        *)
(* granted.                                                                *)
(*                                                                         *)
(* The counter lives in a file, and a file can be lost.  From then on the  *)
(* guard has forgotten what it granted, and promises nothing.              *)
(*                                                                         *)
(* AttestationBridge refines this module, ZigBridge while validations do   *)
(* not overlap, and Pipeline uses it.                                      *)
(***************************************************************************)
EXTENDS Integers

CONSTANT Counters          \* the counters tokens carry

VARIABLES
    last,                  \* the monotonic counter
    pending,               \* counters taken over, neither granted nor dropped
    grants,                \* grants[c]: how often counter c has been granted
    forgot                 \* the counter has been lost at least once

guardVars == <<last, pending, grants, forgot>>

Init ==
    /\ last \in Int
    /\ pending = {}
    /\ grants = [c \in Counters |-> 0]
    /\ forgot = FALSE

Take(c) ==
    /\ c > last
    /\ last' = c
    /\ pending' = pending \cup {c}
    /\ UNCHANGED <<grants, forgot>>

\* The counter moves up and nobody will be granted what it moves to.
Burn ==
    /\ last' \in Int
    /\ last' > last
    /\ UNCHANGED <<pending, grants, forgot>>

Grant(c) ==
    /\ c \in pending
    /\ pending' = pending \ {c}
    /\ grants' = [grants EXCEPT ![c] = @ + 1]
    /\ UNCHANGED <<last, forgot>>

Drop(c) ==
    /\ c \in pending
    /\ pending' = pending \ {c}
    /\ UNCHANGED <<last, grants, forgot>>

\* The step that loses the counter, and every step after it.
Forgotten ==
    /\ forgot'
    /\ last' \in Int
    /\ pending' \subseteq Counters
    /\ grants' \in [Counters -> Nat]

Next ==
    \/ \E c \in Counters : Take(c) \/ Grant(c) \/ Drop(c)
    \/ Burn
    \/ Forgotten

Spec == Init /\ [][Next]_guardVars
=============================================================================
