------------------------ MODULE MCAttestationBridge ------------------------
(***************************************************************************)
(* Small instances of AttestationBridge for TLC.                           *)
(***************************************************************************)
EXTENDS AttestationBridge, TLC

CONSTANTS p1, p2

MCProcs == {p1, p2}
MCSymmetry == Permutations(MCProcs)

Token(ring, ts, counter) ==
    [secure |-> TRUE, found |-> Fields, ring |-> ring, attested |-> TRUE,
     root_attested |-> TRUE, timestamp |-> ts, nonce |-> "n", counter |-> counter]

\* Tokens the checks let through, told apart by their counters only.
MCCounterTokens == {Token(-1, 0, c) : c \in {0, 1, 12}}

\* The second is not valid yet at first, the third has a timestamp at the bottom of
\* the long long range, and the last fails another check.
MCTokens ==
    {Token(-1, 0, 1), Token(-1, 1, 12), Token(-1, -8, 12),
     [Token(-1, 0, 12) EXCEPT !.found = Fields \ {"nonce"}]}

MCRequest == {[ring |-> -1, max_age |-> 1, nonce |-> "n"]}

MCAllFaults == AllFaults
MCKill == {"kill"}
=============================================================================
