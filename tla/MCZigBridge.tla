---------------------------- MODULE MCZigBridge ----------------------------
(***************************************************************************)
(* Small instances of ZigBridge for TLC.                                   *)
(***************************************************************************)
EXTENDS ZigBridge

CONSTANTS p1, p2

MCOneProc == {p1}
MCTwoProcs == {p1, p2}

Token(ring, ts, counter) ==
    [secure |-> TRUE, found |-> Fields, ring |-> ring, attested |-> TRUE,
     root_attested |-> TRUE, timestamp |-> ts, nonce |-> "n", counter |-> counter]

\* Tokens that expire, that are not valid yet, that fail one of the other checks,
\* and one whose timestamp is at the bottom of the i64 range.
MCTokens ==
    {Token(-1, 0, 0), Token(-1, 0, 1), Token(-1, 2, 12), Token(-1, -8, 12),
     [Token(-1, 0, 12) EXCEPT !.found = Fields \ {"nonce"}]}

MCRequests == {[ring |-> r, max_age |-> 1, nonce |-> "n"] : r \in {-1, -2}}

MCSecureModes == {"absent", "secure"}
MCAllModes == Modes
=============================================================================
