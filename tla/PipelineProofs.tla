--------------------------- MODULE PipelineProofs ---------------------------
(***************************************************************************)
(* Proofs about Pipeline, for any command lines, conditions and tokens,    *)
(* and any number of runs and faults: the steps keep the types and what    *)
(* IInv says of the ring policy, the token, the exit code, the earlier     *)
(* passes and the review; with PipelineFileProofs, IInv is an invariant,   *)
(* and each safety property follows from it.                               *)
(***************************************************************************)
EXTENDS PipelineFileProofs

\* Every step keeps the types, and w.path an output path while a file is written.
LEMMA TypeStep == TypeOK /\ [Next]_vars => TypeOK'
<1> SUFFICES ASSUME TypeOK, [Next]_vars PROVE TypeOK'
  OBVIOUS
<1> USE PipelineAssumption DEF TypeOK, PastFields, Steps, RingSteps, TokenSteps,
        WriteSteps, Paths, Results, NoToken, gateVars, ringVars, issueVars, guardVars
<1>1. CASE Start
  <2>1. DOMAIN past' = PastFields /\ past'.spent = NoToken
    BY <1>1 DEF Start
  <2>2. DOMAIN w' = {"path", "open", "detached"}
    BY <1>1, Zenon DEF Start, NoWrite
  <2> QED
    BY <1>1, <2>1, <2>2 DEF Start
<1>2. CASE Parse
  BY <1>2 DEF Parse, Go, Exit, MayFail
<1>3. CASE LoadApprovals
  BY <1>3 DEF LoadApprovals, Go, Exit, MayFail
<1>4. CASE Visit
  BY <1>4 DEF Visit, VisitCondition
<1>5. CASE EndAnalysis
  BY <1>5, Zenon DEF EndAnalysis, WriteOr, Go, NoWrite
<1>6. CASE Enforce
  BY <1>6 DEF Enforce, Go, Gate!enforce_hitl_policy
<1>7. CASE RingPolicy
  BY <1>7 DEF RingPolicy, Go, Reject
<1>8. CASE ReadToken
  BY <1>8 DEF ReadToken, Go, Reject, MayFail
<1>9. CASE CheckSignature
  BY <1>9, Zenon DEF CheckSignature, Go, Reject, Proves
<1>10. CASE CheckRoot
  BY <1>10, Zenon DEF CheckRoot, Go, Reject, Proves
<1>11. CASE CheckBinding
  BY <1>11, Zenon DEF CheckBinding, Go, Reject
<1>12. CASE Validate
  <2>1. Guard!Take(token) => last' \in Int /\ pending' \subseteq Tokens
    BY DEF Guard!Take
  <2>2. UNCHANGED guardVars => last' \in Int /\ pending' \subseteq Tokens
    BY DEF guardVars
  <2>3. Forget => last' \in Int
    BY DEF Forget
  <2>4. last' \in Int /\ pending' \subseteq Tokens
    BY <1>12, <2>1, <2>2, <2>3, Zenon DEF Validate
  <2> QED
    BY <1>12, <2>4 DEF Validate, Go, Reject
<1>13. CASE ValidatorAnswers
  BY <1>13, Zenon DEF ValidatorAnswers, Go, Reject, MayFail, Promote, Guard!Grant,
     Guard!Drop
<1>14. CASE PrintVerdict
  <2>1. DOMAIN past' = PastFields /\ past'.spent = past.spent
    BY <1>14 DEF PrintVerdict
  <2>2. DOMAIN w' = {"path", "open", "detached"}
    BY <1>14, Zenon DEF PrintVerdict, WriteOr, NoWrite
  <2>3. CASE WriteOr("verdict", "proof")
    BY <1>14, <2>1, <2>2, <2>3, ZenonT(30) DEF PrintVerdict, WriteOr, NoWrite, Go, Steps,
       RingSteps,
       TokenSteps, WriteSteps, Paths, ringVars, issueVars, guardVars
  <2>4. CASE Exit(101)
    BY <1>14, <2>1, <2>2, <2>4 DEF PrintVerdict, Exit, Steps, RingSteps, TokenSteps,
       WriteSteps, ringVars, issueVars, guardVars
  <2> QED
    BY <1>14, <2>3, <2>4 DEF PrintVerdict
<1>15. CASE EmitProof
  BY <1>15, Zenon DEF EmitProof, WriteOr, Go, NoWrite
<1>16. CASE Return
  BY <1>16 DEF Return, Exit, Code
<1>17. CASE Lstat
  BY <1>17 DEF Lstat, Go, Exit, MayFail
<1>18. CASE Open
  <2>1. DOMAIN past' = PastFields /\ past'.spent = past.spent
    BY <1>18, Zenon DEF Open
  <2>2. DOMAIN w' = {"path", "open", "detached"} /\ w'.path = w.path
    BY <1>18 DEF Open
  <2> QED
    BY <1>18, <2>1, <2>2 DEF Open, Go, Exit
<1>19. CASE Chmod
  BY <1>19 DEF Chmod, Go, Exit, MayFail
<1>20. CASE WriteAll
  BY <1>20 DEF WriteAll, PutContent, Go, Exit, MayFail
<1>21. CASE SyncAll
  BY <1>21 DEF SyncAll, Go, Exit, AfterWrite, MayFail
<1>22. CASE RenewToken
  BY <1>22 DEF RenewToken
<1>23. CASE Review
  BY <1>23 DEF Review
<1>24. CASE Kill
  BY <1>24 DEF Kill, Killed, MayFail, Forget
<1>25. CASE PowerLoss
  BY <1>25 DEF PowerLoss, Killed, MayFail, Forget
<1>26. CASE \E k \in Keys : RenewSignature(k)
  BY <1>26 DEF RenewSignature
<1>27. CASE \E p \in Paths : MoveFile(p)
  BY <1>27 DEF MoveFile, MayFail
<1>28. CASE UNCHANGED vars
  BY <1>28, SMTT(30) DEF vars, gateVars, ringVars, issueVars, guardVars
<1> QED
  BY <1>1, <1>2, <1>3, <1>4, <1>5, <1>6, <1>7, <1>8, <1>9, <1>10, <1>11, <1>12, <1>13,
     <1>14, <1>15, <1>16, <1>17, <1>18, <1>19, <1>20, <1>21, <1>22, <1>23, <1>24, <1>25,
     <1>26, <1>27, <1>28, Zenon DEF Next, Process, World

\* apply_ring_policy: where a counter may be pending or spent, and what the result may
\* be once it has returned.
LEMMA RingStep == TypeOK /\ TypeOK' /\ RingInv /\ [Next]_vars => RingInv'
<1> SUFFICES ASSUME TypeOK, TypeOK', RingInv, [Next]_vars PROVE RingInv'
  OBVIOUS
<1> USE PipelineAssumption DEF TypeOK, RingInv, Late, PastFields, Steps, RingSteps,
        TokenSteps, WriteSteps, Paths, Results, NoToken, gateVars, ringVars, issueVars,
        guardVars, Strict
<1>1. CASE Start
  BY <1>1, Zenon DEF Start, NoWrite
<1>2. CASE Parse
  BY <1>2 DEF Parse, Go, Exit
<1>3. CASE LoadApprovals
  BY <1>3 DEF LoadApprovals, Go, Exit
<1>4. CASE Visit
  BY <1>4 DEF Visit
<1>5. CASE EndAnalysis
  BY <1>5, ZenonT(30) DEF EndAnalysis, WriteOr, Go, NoWrite
<1>6. CASE Enforce
  BY <1>6 DEF Enforce, Go, Gate!enforce_hitl_policy
<1>7. CASE RingPolicy
  BY <1>7 DEF RingPolicy, Go, Reject
<1>8. CASE ReadToken
  BY <1>8 DEF ReadToken, Go, Reject
<1>9. CASE CheckSignature
  BY <1>9 DEF CheckSignature, Go, Reject, Proves
<1>10. CASE CheckRoot
  BY <1>10 DEF CheckRoot, Go, Reject, Proves
<1>11. CASE CheckBinding
  BY <1>11, Zenon DEF CheckBinding, Go, Reject
<1>12. CASE Validate
  BY <1>12 DEF Validate, Go, Reject, Guard!Take
<1>13. CASE ValidatorAnswers
  BY <1>13 DEF ValidatorAnswers, Go, Reject, Promote, Guard!Grant, Guard!Drop
<1>14. CASE PrintVerdict
  <2>1. past'.spent = past.spent /\ past'.proven = past.proven /\ past'.midway = past.midway
    BY <1>14 DEF PrintVerdict
  <2>2. CASE WriteOr("verdict", "proof") /\ past' = [past EXCEPT !.printed = TRUE]
    <3>1. past'.printed /\ pc' \in {"lstat", "proof"} /\ (pc' = "lstat" => w'.path = "verdict")
      BY <2>2, Zenon DEF WriteOr, Go, NoWrite
    <3> QED
      BY <1>14, <2>1, <3>1, Zenon DEF PrintVerdict, Strict, RingSteps, TokenSteps, WriteSteps,
         gateVars, guardVars
  <2>3. CASE Exit(101) /\ UNCHANGED <<past, w>>
    BY <1>14, <2>1, <2>3 DEF PrintVerdict, Exit, Strict
  <2> QED
    BY <1>14, <2>2, <2>3 DEF PrintVerdict
<1>15. CASE EmitProof
  BY <1>15, ZenonT(30) DEF EmitProof, WriteOr, Go, NoWrite
<1>16. CASE Return
  BY <1>16 DEF Return, Exit, Code
<1>17. CASE Lstat
  BY <1>17 DEF Lstat, Go, Exit
<1>18. CASE Open
  BY <1>18, ZenonT(30) DEF Open, Go, Exit
<1>19. CASE Chmod
  BY <1>19, Zenon DEF Chmod, Go, Exit
<1>20. CASE WriteAll
  BY <1>20, ZenonT(30) DEF WriteAll, PutContent, Go, Exit
<1>21. CASE SyncAll
  BY <1>21 DEF SyncAll, Go, Exit, AfterWrite
<1>22. CASE RenewToken
  BY <1>22 DEF RenewToken
<1>23. CASE Review
  BY <1>23 DEF Review
<1>24. CASE Kill
  BY <1>24 DEF Kill, Killed
<1>25. CASE PowerLoss
  BY <1>25 DEF PowerLoss, Killed
<1>26. CASE \E k \in Keys : RenewSignature(k)
  BY <1>26 DEF RenewSignature
<1>27. CASE \E p \in Paths : MoveFile(p)
  BY <1>27 DEF MoveFile
<1>28. CASE UNCHANGED vars
  BY <1>28, ZenonT(30) DEF vars
<1> QED
  BY <1>1, <1>2, <1>3, <1>4, <1>5, <1>6, <1>7, <1>8, <1>9, <1>10, <1>11, <1>12, <1>13,
     <1>14, <1>15, <1>16, <1>17, <1>18, <1>19, <1>20, <1>21, <1>22, <1>23, <1>24, <1>25,
     <1>26, <1>27, <1>28, ZenonT(30) DEF Next, Process, World

\* The token file is read three times: which token was verified, and that it is the
\* one whose counter is spent unless the file changed midway.
LEMMA TokenStep == TypeOK /\ TypeOK' /\ RingInv /\ TokenInv /\ [Next]_vars => TokenInv'
<1> SUFFICES ASSUME TypeOK, TypeOK', RingInv, TokenInv, [Next]_vars PROVE TokenInv'
  OBVIOUS
<1> USE PipelineAssumption DEF TypeOK, RingInv, TokenInv, Late, PastFields, Steps,
        RingSteps, TokenSteps, WriteSteps, Paths, Results, NoToken, gateVars, ringVars,
        issueVars, guardVars, Strict, Verified
<1>1. CASE Start
  BY <1>1, Zenon DEF Start, NoWrite
<1>2. CASE Parse
  BY <1>2 DEF Parse, Go, Exit
<1>3. CASE LoadApprovals
  BY <1>3 DEF LoadApprovals, Go, Exit
<1>4. CASE Visit
  BY <1>4 DEF Visit
<1>5. CASE EndAnalysis
  BY <1>5, Zenon DEF EndAnalysis, WriteOr, Go, NoWrite
<1>6. CASE Enforce
  BY <1>6 DEF Enforce, Go, Gate!enforce_hitl_policy
<1>7. CASE RingPolicy
  BY <1>7 DEF RingPolicy, Go, Reject
<1>8. CASE ReadToken
  BY <1>8 DEF ReadToken, Go, Reject
<1>9. CASE CheckSignature
  <2>1. CASE Verified("attestation")
    <3>1. /\ past'.spent = past.spent /\ past'.midway = past.midway
          /\ past'.proven = past.proven \cup {<<"attestation", token_read>>}
      BY <1>9, <2>1 DEF CheckSignature, Proves
    <3>2. /\ token_sha256' = token_read /\ pc' \in {"read_token_again", "binding"}
          /\ args.ring = "ring-2" => pc' = "read_token_again"
          /\ UNCHANGED <<token, args, last>>
      BY <1>9, <2>1 DEF CheckSignature, Go, issueVars, guardVars
    <3>3. past.spent = NoToken /\ (past.midway \/ token_read = token)
      BY <1>9 DEF CheckSignature, WriteSteps
    <3> QED
      BY <3>1, <3>2, <3>3
  <2>2. CASE ~Verified("attestation")
    BY <1>9, <2>2 DEF CheckSignature, Reject, Go
  <2> QED
    BY <2>1, <2>2, Zenon
<1>10. CASE CheckRoot
  <2>1. CASE Verified("root")
    <3>1. /\ past'.spent = past.spent /\ past'.midway = past.midway
          /\ past'.proven = past.proven \cup {<<"root", token_read>>}
      BY <1>10, <2>1 DEF CheckRoot, Proves
    <3>2. /\ pc = "check_root" /\ pc' = "binding"
          /\ UNCHANGED <<token, token_sha256, token_read, args, last>>
      BY <1>10, <2>1 DEF CheckRoot, Go, ringVars, issueVars, guardVars
    <3>3. token_read \in Tokens /\ past.spent = NoToken
      BY <3>2 DEF WriteSteps
    <3> QED
      BY <3>1, <3>2, <3>3
  <2>2. CASE ~Verified("root")
    BY <1>10, <2>2 DEF CheckRoot, Reject, Go
  <2> QED
    BY <2>1, <2>2, Zenon
<1>11. CASE CheckBinding
  BY <1>11, Zenon DEF CheckBinding, Go, Reject
<1>12. CASE Validate
  BY <1>12 DEF Validate, Go, Reject, Guard!Take
<1>13. CASE ValidatorAnswers
  <2>1. pc = "granting" /\ pc' = "print" /\ pending = {last} /\ UNCHANGED <<token_sha256, args>>
    BY <1>13 DEF ValidatorAnswers, Reject, Go, ringVars
  <2>2. CASE past' = [past EXCEPT !.spent = last]
    BY <2>1, <2>2, Zenon
  <2>3. CASE UNCHANGED past
    BY <2>1, <2>3
  <2> QED
    BY <1>13, <2>1, <2>2, <2>3, Zenon DEF ValidatorAnswers
<1>14. CASE PrintVerdict
  BY <1>14, ZenonT(60) DEF PrintVerdict, WriteOr, Go, Exit, NoWrite
<1>15. CASE EmitProof
  BY <1>15, Zenon DEF EmitProof, WriteOr, Go, NoWrite
<1>16. CASE Return
  BY <1>16, Zenon DEF Return, Exit, Code
<1>17. CASE Lstat
  BY <1>17 DEF Lstat, Go, Exit
<1>18. CASE Open
  BY <1>18, ZenonT(30) DEF Open, Go, Exit
<1>19. CASE Chmod
  BY <1>19, Zenon DEF Chmod, Go, Exit
<1>20. CASE WriteAll
  BY <1>20, Zenon DEF WriteAll, PutContent, Go, Exit
<1>21. CASE SyncAll
  <2>1. pc' \in {"enforce", "proof", "return", "idle"}
    BY <1>21 DEF SyncAll, Go, Exit, AfterWrite, WriteSteps, Paths
  <2> QED
    BY <1>21, <2>1, Zenon DEF SyncAll
<1>22. CASE RenewToken
  BY <1>22, Zenon DEF RenewToken
<1>23. CASE Review
  BY <1>23 DEF Review
<1>24. CASE Kill
  BY <1>24 DEF Kill, Killed
<1>25. CASE PowerLoss
  BY <1>25, Zenon DEF PowerLoss, Killed
<1>26. CASE \E k \in Keys : RenewSignature(k)
  BY <1>26 DEF RenewSignature
<1>27. CASE \E p \in Paths : MoveFile(p)
  <2>1. /\ past'.spent = past.spent /\ past'.proven = past.proven /\ past'.midway = past.midway
        /\ UNCHANGED <<pc, args, token_sha256, token_read, token, last>>
    BY <1>27 DEF MoveFile, ringVars, issueVars, guardVars
  <2> QED
    BY <2>1
<1>28. CASE UNCHANGED vars
  BY <1>28, Zenon DEF vars
<1> QED
  BY <1>1, <1>2, <1>3, <1>4, <1>5, <1>6, <1>7, <1>8, <1>9, <1>10, <1>11, <1>12, <1>13,
     <1>14, <1>15, <1>16, <1>17, <1>18, <1>19, <1>20, <1>21, <1>22, <1>23, <1>24, <1>25,
     <1>26, <1>27, <1>28, Zenon DEF Next, Process, World

\* The exit code tells what apply_ring_policy and the gate decided.
LEMMA ExitStep == TypeOK /\ TypeOK' /\ RingInv /\ ExitInv /\ [Next]_vars => ExitInv'
<1> SUFFICES ASSUME TypeOK, TypeOK', RingInv, ExitInv, [Next]_vars PROVE ExitInv'
  OBVIOUS
<1> USE PipelineAssumption DEF TypeOK, RingInv, ExitInv, Ended, Late, PastFields, Steps,
        RingSteps, TokenSteps, WriteSteps, Paths, Results, NoToken, gateVars, ringVars,
        issueVars, guardVars, Strict
<1>1. CASE Start
  BY <1>1, Zenon DEF Start, NoWrite
<1>2. CASE Parse
  BY <1>2 DEF Parse, Go, Exit
<1>3. CASE LoadApprovals
  BY <1>3 DEF LoadApprovals, Go, Exit
<1>4. CASE Visit
  BY <1>4 DEF Visit
<1>5. CASE EndAnalysis
  BY <1>5, Zenon DEF EndAnalysis, WriteOr, Go, NoWrite
<1>6. CASE Enforce
  BY <1>6 DEF Enforce, Go, Gate!enforce_hitl_policy
<1>7. CASE RingPolicy
  BY <1>7 DEF RingPolicy, Go, Reject
<1>8. CASE ReadToken
  BY <1>8 DEF ReadToken, Go, Reject
<1>9. CASE CheckSignature
  BY <1>9 DEF CheckSignature, Go, Reject, Proves
<1>10. CASE CheckRoot
  BY <1>10 DEF CheckRoot, Go, Reject, Proves
<1>11. CASE CheckBinding
  BY <1>11, Zenon DEF CheckBinding, Go, Reject
<1>12. CASE Validate
  BY <1>12 DEF Validate, Go, Reject, Guard!Take
<1>13. CASE ValidatorAnswers
  BY <1>13 DEF ValidatorAnswers, Go, Reject, Promote, Guard!Grant, Guard!Drop
<1>14. CASE PrintVerdict
  <2>1. past'.spent = past.spent /\ past'.proven = past.proven /\ past'.midway = past.midway
    BY <1>14 DEF PrintVerdict
  <2>2. CASE WriteOr("verdict", "proof") /\ past' = [past EXCEPT !.printed = TRUE]
    <3>1. past'.printed /\ pc' \in {"lstat", "proof"} /\ (pc' = "lstat" => w'.path = "verdict")
      BY <2>2, Zenon DEF WriteOr, Go, NoWrite
    <3> QED
      BY <1>14, <2>1, <3>1 DEF PrintVerdict, Strict, RingSteps, TokenSteps, WriteSteps,
         gateVars, guardVars
  <2>3. CASE Exit(101) /\ UNCHANGED <<past, w>>
    BY <1>14, <2>1, <2>3 DEF PrintVerdict, Exit, Strict
  <2> QED
    BY <1>14, <2>2, <2>3 DEF PrintVerdict
<1>15. CASE EmitProof
  BY <1>15, Zenon DEF EmitProof, WriteOr, Go, NoWrite
<1>16. CASE Return
  BY <1>16, SMTT(30) DEF Return, Exit, Code
<1>17. CASE Lstat
  BY <1>17 DEF Lstat, Go, Exit
<1>18. CASE Open
  <2>1. past'.spent = past.spent /\ past'.printed = past.printed /\ UNCHANGED <<args, gate>>
    BY <1>18, Zenon DEF Open, gateVars
  <2>2. pc' \in {"chmod", "idle"} /\ (pc' = "idle" => exit' = 1)
    BY <1>18 DEF Open, Go, Exit
  <2> QED
    BY <1>18, <2>1, <2>2 DEF Open
<1>19. CASE Chmod
  BY <1>19 DEF Chmod, Go, Exit
<1>20. CASE WriteAll
  BY <1>20 DEF WriteAll, PutContent, Go, Exit
<1>21. CASE SyncAll
  BY <1>21 DEF SyncAll, Go, Exit, AfterWrite
<1>22. CASE RenewToken
  BY <1>22 DEF RenewToken
<1>23. CASE Review
  BY <1>23 DEF Review
<1>24. CASE Kill
  BY <1>24 DEF Kill, Killed
<1>25. CASE PowerLoss
  BY <1>25 DEF PowerLoss, Killed
<1>26. CASE \E k \in Keys : RenewSignature(k)
  BY <1>26 DEF RenewSignature
<1>27. CASE \E p \in Paths : MoveFile(p)
  BY <1>27 DEF MoveFile
<1>28. CASE UNCHANGED vars
  BY <1>28 DEF vars
<1> QED
  BY <1>1, <1>2, <1>3, <1>4, <1>5, <1>6, <1>7, <1>8, <1>9, <1>10, <1>11, <1>12, <1>13,
     <1>14, <1>15, <1>16, <1>17, <1>18, <1>19, <1>20, <1>21, <1>22, <1>23, <1>24, <1>25,
     <1>26, <1>27, <1>28, Zenon DEF Next, Process, World


\* One more pass, on a counter above all earlier ones, keeps the passes apart.
LEMMA AppendPass ==
    ASSUME NEW s \in Seq(Passes), NEW r \in Passes, NEW n \in Int,
           Below(s, n + 1), PassedOnce(s), r.midway \/ (Below(s, r.reported) /\ r.reported <= n)
    PROVE  /\ Append(s, r) \in Seq(Passes)
           /\ Below(Append(s, r), n + 1) /\ PassedOnce(Append(s, r))
<1> DEFINE t == Append(s, r)
<1>1. /\ t \in Seq(Passes) /\ DOMAIN t = 1 .. Len(s) + 1
      /\ DOMAIN s = 1 .. Len(s) /\ Len(s) \in Nat
      /\ \A i \in 1 .. Len(s) : t[i] = s[i]
      /\ t[Len(s) + 1] = r
  OBVIOUS
<1>2. \A i \in 1 .. Len(s) : s[i].reported \in Nat
  <2>1. \A i \in 1 .. Len(s) : s[i] \in Passes
    BY <1>1
  <2> QED
    BY <2>1 DEF Passes
<1>3. r.reported \in Nat
  BY DEF Passes
<1> HIDE DEF t
<1>4. Below(t, n + 1)
  BY <1>1, <1>2, <1>3 DEF Below
<1>5. PassedOnce(t)
  <2> SUFFICES ASSUME NEW i \in DOMAIN t, NEW j \in DOMAIN t, i < j,
                      t[i].reported = t[j].reported
               PROVE  t[i].midway \/ t[j].midway
    BY Zenon DEF PassedOnce
  <2>1. i \in 1 .. Len(s) /\ t[i] = s[i]
    BY <1>1
  <2>2. CASE j = Len(s) + 1
    BY <1>1, <1>2, <1>3, <2>1, <2>2 DEF Below
  <2>3. CASE j \in 1 .. Len(s)
    BY <1>1, <2>1, <2>3 DEF PassedOnce
  <2> QED
    BY <1>1, <2>2, <2>3
<1> QED
  BY <1>1, <1>4, <1>5 DEF t

\* A bound on the counters that passed may be raised.
LEMMA BelowMore ==
    ASSUME NEW s \in Seq(Passes), NEW m \in Int, NEW n \in Int, m < n, Below(s, m + 1)
    PROVE  Below(s, n) /\ Below(s, n + 1)
<1>1. \A i \in DOMAIN s : s[i] \in Passes
  OBVIOUS
<1>2. \A i \in DOMAIN s : s[i].reported \in Nat
  BY <1>1 DEF Passes
<1> QED
  BY <1>2 DEF Below

\* Counters of passes stay below the one being granted: the backend's last does not
\* fall unless it forgets.
LEMMA PassStep == TypeOK /\ TypeOK' /\ RingInv /\ TokenInv /\ PassInv /\ [Next]_vars => PassInv'
<1> SUFFICES ASSUME TypeOK, TypeOK', RingInv, TokenInv, PassInv, [Next]_vars PROVE PassInv'
  BY Zenon
<1> USE PipelineAssumption DEF TypeOK, RingInv, TokenInv, PassInv, Late, PastFields
<1> DEFINE Quiet == /\ past'.passed = past.passed /\ past'.spent = past.spent
                    /\ past'.midway \in BOOLEAN
                    /\ last' = last /\ forgot' = forgot
                    /\ pc' = "granting" => pc = "granting"
                    /\ Late' /\ past.spent # NoToken => Late
<1>q. Quiet => PassInv'
  <2>1. ASSUME Quiet, PassBounds PROVE PassBounds'
    <3>1. Below(past'.passed, last' + 1) /\ PassedOnce(past'.passed)
      BY ONLY <2>1, Zenon DEF PassBounds
    <3>2. pc' = "granting" => Below(past'.passed, last')
      BY ONLY <2>1, Zenon DEF PassBounds
    <3>3. Late' /\ past'.spent # NoToken => Below(past'.passed, past'.spent) /\ past'.spent <= last'
      BY ONLY <2>1, Zenon DEF PassBounds
    <3> QED
      BY ONLY <3>1, <3>2, <3>3, Zenon DEF PassBounds
  <2>2. Quiet => (~forgot' => ~forgot)
    BY Zenon
  <2> QED
    BY <2>1, <2>2, SMT
<1>f. past' = past /\ Forget => PassInv'
  BY Zenon DEF Forget
<1>t. past.passed \in Seq(Passes)
  BY Zenon
<1>i. last \in Int /\ last' \in Int
  BY Zenon
<1>1. CASE Start
  <2>1. past'.passed = past.passed /\ past'.spent = NoToken /\ past'.midway = FALSE
    BY <1>1, Zenon DEF Start
  <2>2. last' = last /\ forgot' = forgot /\ pc' # "granting"
    BY <1>1, Zenon DEF Start, guardVars
  <2> QED
    BY <2>1, <2>2, Zenon DEF PassBounds
<1>2. CASE Parse
  BY <1>2, <1>q, Zenon DEF Parse, Go, Exit, WriteSteps, guardVars
<1>3. CASE LoadApprovals
  BY <1>3, <1>q, Zenon DEF LoadApprovals, Go, Exit, WriteSteps, guardVars
<1>4. CASE Visit
  BY <1>4, <1>q DEF Visit, WriteSteps, guardVars
<1>5. CASE EndAnalysis
  BY <1>5, <1>q, Zenon DEF EndAnalysis, WriteOr, Go, NoWrite, WriteSteps, guardVars
<1>6. CASE Enforce
  <2>1. past'.passed = past.passed /\ past'.spent = past.spent /\ past'.midway = past.midway
    BY <1>6, Zenon DEF Enforce
  <2> QED
    BY <1>6, <1>q, <2>1 DEF Enforce, Go, WriteSteps, guardVars
<1>7. CASE RingPolicy
  BY <1>7, <1>q, Zenon DEF RingPolicy, Go, Reject, WriteSteps, guardVars
<1>8. CASE ReadToken
  BY <1>8, <1>q, Zenon DEF ReadToken, Go, Reject, WriteSteps, guardVars
<1>9. CASE CheckSignature
  <2>1. past'.passed = past.passed /\ past'.spent = past.spent /\ past'.midway = past.midway
    BY <1>9, Zenon DEF CheckSignature, Proves
  <2> QED
    BY <1>9, <1>q, <2>1 DEF CheckSignature, Reject, Go, WriteSteps, guardVars
<1>10. CASE CheckRoot
  <2>1. past'.passed = past.passed /\ past'.spent = past.spent /\ past'.midway = past.midway
    BY <1>10, Zenon DEF CheckRoot, Proves
  <2> QED
    BY <1>10, <1>q, <2>1 DEF CheckRoot, Reject, Go, WriteSteps, guardVars
<1>11. CASE CheckBinding
  BY <1>11, <1>q, Zenon DEF CheckBinding, Go, Reject, WriteSteps, guardVars
<1>12. CASE Validate
  <2>1. CASE Guard!Take(token)
    <3>1. past' = past /\ past.spent = NoToken /\ forgot' = forgot
      BY <1>12, <2>1, Zenon DEF Validate, Guard!Take, WriteSteps
    <3>2. last < last'
      BY <2>1, Zenon DEF Guard!Take
    <3>3. Below(past.passed, last + 1) => Below(past.passed, last') /\ Below(past.passed, last' + 1)
      BY ONLY <1>i, <1>t, <3>2, BelowMore, Zenon
    <3> QED
      BY <3>1, <3>3, Zenon DEF PassBounds
  <2>2. CASE Reject /\ UNCHANGED guardVars
    BY <1>12, <1>q, <2>2, Zenon DEF Validate, Reject, Go, guardVars, WriteSteps
  <2>3. CASE Forget
    BY <1>12, <1>f, <2>3, Zenon DEF Validate
  <2> QED
    BY <1>12, <2>1, <2>2, <2>3, Zenon DEF Validate
<1>13. CASE ValidatorAnswers
  <2>1. /\ pc = "granting" /\ pc' = "print" /\ pending = {last} /\ last' = last
        /\ forgot' = forgot
    BY <1>13, Zenon DEF ValidatorAnswers, Reject, Go, Guard!Grant, Guard!Drop
  <2>2. CASE past' = [past EXCEPT !.spent = last]
    <3>1. /\ past'.passed = past.passed /\ past'.spent = last /\ past'.midway = past.midway
          /\ pc' # "granting"
      BY <2>1, <2>2, Zenon
    <3>2. last <= last
      BY ONLY <1>i
    <3> QED
      BY <2>1, <3>1, <3>2, Zenon DEF PassBounds
  <2>3. CASE UNCHANGED past
    BY <1>q, <2>1, <2>3, Zenon DEF WriteSteps
  <2> QED
    BY <1>13, <2>1, <2>2, <2>3, Zenon DEF ValidatorAnswers
<1>14. CASE PrintVerdict
  <2>1. past'.passed = past.passed /\ past'.spent = past.spent /\ past'.midway = past.midway
    BY <1>14, Zenon DEF PrintVerdict
  <2> QED
    BY <1>14, <1>q, <2>1, Zenon DEF PrintVerdict, Go, Exit, WriteOr, NoWrite, WriteSteps,
       guardVars
<1>15. CASE EmitProof
  BY <1>15, <1>q, Zenon DEF EmitProof, WriteOr, Go, NoWrite, WriteSteps, guardVars
<1>16. CASE Return
  <2> DEFINE r == [reported |-> token_sha256, midway |-> past.midway]
  <2>1. /\ pc = "return" /\ pc' = "idle" /\ last' = last /\ forgot' = forgot
        /\ past'.spent = past.spent /\ past'.midway = past.midway
    BY <1>16, Zenon DEF Return, Exit, guardVars
  <2>2. CASE Strict(args.ring) /\ result = "pass"
    <3>1. past'.passed = Append(past.passed, r)
      BY <1>16, <2>2, Zenon DEF Return
    <3>2. r \in Passes
      <4>1. token_sha256 \in Nat
        BY SMTT(30) DEF NoToken
      <4> QED
        BY <4>1, Zenon DEF Passes
    <3>3. ~forgot => r.midway \/ (Below(past.passed, r.reported) /\ r.reported <= last)
      BY <2>1, <2>2, Zenon DEF PassBounds
    <3>4. past'.passed \in Seq(Passes)
      BY ONLY <1>t, <3>1, <3>2
    <3>5. ~forgot => Below(past'.passed, last + 1) /\ PassedOnce(past'.passed)
      <4>1. ~forgot => Below(past.passed, last + 1) /\ PassedOnce(past.passed)
        BY Zenon DEF PassBounds
      <4> HIDE DEF r
      <4>2. ~forgot => /\ Below(Append(past.passed, r), last + 1)
                       /\ PassedOnce(Append(past.passed, r))
        BY ONLY <1>i, <1>t, <3>2, <3>3, <4>1, AppendPass, Zenon
      <4> QED
        BY ONLY <3>1, <4>2, Zenon
    <3>6. pc' # "granting" /\ ~Late'
      BY <2>1, Zenon DEF WriteSteps
    <3> QED
      BY <2>1, <3>4, <3>5, <3>6, Zenon DEF PassBounds
  <2>3. CASE ~(Strict(args.ring) /\ result = "pass")
    <3>1. past'.passed = past.passed
      BY <1>16, <2>3, Zenon DEF Return
    <3> QED
      BY <1>q, <2>1, <3>1 DEF WriteSteps
  <2> QED
    BY <2>2, <2>3
<1>17. CASE Lstat
  BY <1>17, <1>q, Zenon DEF Lstat, Go, Exit, WriteSteps, guardVars
<1>18. CASE Open
  <2>1. past'.passed = past.passed /\ past'.spent = past.spent /\ past'.midway = past.midway
    BY <1>18, Zenon DEF Open
  <2> QED
    BY <1>18, <1>q, <2>1, Zenon DEF Open, Go, Exit, WriteSteps, guardVars
<1>19. CASE Chmod
  BY <1>19, <1>q, Zenon DEF Chmod, Go, Exit, WriteSteps, guardVars
<1>20. CASE WriteAll
  BY <1>20, <1>q, Zenon DEF WriteAll, PutContent, Go, Exit, WriteSteps, guardVars
<1>21. CASE SyncAll
  <2>1. /\ pc' \in {"enforce", "proof", "return", "idle"}
        /\ pc' = "enforce" <=> pc' # "idle" /\ w.path = "vcs"
    BY <1>21, SMTT(30) DEF SyncAll, Go, Exit, AfterWrite, WriteSteps, Paths
  <2> QED
    BY <1>21, <1>q, <2>1, Zenon DEF SyncAll, WriteSteps, guardVars
<1>22. CASE RenewToken
  <2>1. past'.passed = past.passed /\ past'.spent = past.spent /\ past'.midway \in BOOLEAN
    BY <1>22, Zenon DEF RenewToken
  <2> QED
    BY <1>22, <1>q, <2>1 DEF RenewToken, guardVars
<1>23. CASE Review
  BY <1>23, <1>q, Zenon DEF Review, WriteSteps, guardVars
<1>24. CASE Kill
  BY <1>24, <1>q, <1>f, Zenon DEF Kill, Killed, WriteSteps
<1>25. CASE PowerLoss
  BY <1>25, <1>q, <1>f, Zenon DEF PowerLoss, Killed, WriteSteps
<1>26. CASE \E k \in Keys : RenewSignature(k)
  BY <1>26, <1>q, Zenon DEF RenewSignature, WriteSteps, guardVars
<1>27. CASE \E p \in Paths : MoveFile(p)
  <2>1. past'.passed = past.passed /\ past'.spent = past.spent /\ past'.midway = past.midway
    BY <1>27, ZenonT(30) DEF MoveFile
  <2> QED
    BY <1>27, <1>q, <2>1, Zenon DEF MoveFile, WriteSteps, guardVars
<1>28. CASE UNCHANGED vars
  BY <1>28, <1>q DEF vars, WriteSteps, guardVars
<1> QED
  BY <1>1, <1>2, <1>3, <1>4, <1>5, <1>6, <1>7, <1>8, <1>9, <1>10, <1>11, <1>12, <1>13,
     <1>14, <1>15, <1>16, <1>17, <1>18, <1>19, <1>20, <1>21, <1>22, <1>23, <1>24, <1>25,
     <1>26, <1>27, <1>28, ZenonT(30) DEF Next, Process, World

-----------------------------------------------------------------------------
(* Review.                                                                 *)

\* Steps after the analysis, and steps that end a run: nothing of the review moves.
Elsewhere ==
    /\ UNCHANGED <<args, approved, approved_classes, gate, visited, vc_lines, class_lines>>
    /\ past'.emitted = past.emitted
    /\ \/ pc' = "idle"
       \/ /\ {pc, pc'} \cap {"idle", "parse", "approvals", "analyze"} = {}
          /\ Listing' => Listing /\ result' = result

\* Such steps keep what the invariant says of the review.
LEMMA ElsewhereStep == ReviewInv /\ Elsewhere => ReviewInv'
<1> SUFFICES ASSUME ReviewInv, Elsewhere PROVE ReviewInv'
  OBVIOUS
<1>1. \A s, c : Covered(s, c)' <=> Covered(s, c)
  BY DEF Elsewhere, Covered, load_hitl_approvals
<1>2. \A b, d, s, c : Listed(b, d, s, c)' <=> Listed(b, d, s, c)
  BY <1>1 DEF Listed
<1>3. pc' = "idle" => ~Listing'
  BY DEF Listing, WriteSteps
<1> QED
  BY <1>1, <1>2, <1>3, Zenon DEF Elsewhere, ReviewInv

\* load_hitl_approvals of more lines returns no less.
LEMMA CoveredGrows ==
    ASSUME vc_lines \subseteq vc_lines', class_lines \subseteq class_lines'
    PROVE  /\ \A s, c : Covered(s, c) => Covered(s, c)'
           /\ \A b, d, s, c : Listed(b, d, s, c) => Listed(b, d, s, c)'
<1>1. \A s, c : Covered(s, c) => Covered(s, c)'
  BY DEF Covered, load_hitl_approvals
<1> QED
  BY <1>1 DEF Listed

\* One more condition: the gate lists it unless it is approved.
LEMMA VisitReview == TypeOK /\ ReviewInv /\ Visit => ReviewInv'
<1> SUFFICES ASSUME TypeOK, ReviewInv, Visit PROVE ReviewInv'
  BY Zenon
<1> DEFINE c == Conditions[visited + 1]
           may == Gate!MayRun(gate, c.vc, c.class)
<1>1. /\ gate' = Gate!should_run_solver(gate, c.vc, c.class)
      /\ pc = "analyze" /\ pc' = "analyze" /\ visited' = visited + 1 /\ visited < Len(Conditions)
      /\ UNCHANGED <<args, approved, approved_classes, vc_lines, class_lines, past, w>>
  BY DEF Visit, VisitCondition, reviewVars
<1>2. /\ DOMAIN gate' = GateFields /\ gate'.mode = gate.mode
      /\ gate'.blocked = gate.blocked \cup (IF may THEN {} ELSE {c.vc})
      /\ gate'.blocked_classes = gate.blocked_classes \cup (IF may THEN {} ELSE {c.class})
  BY <1>1, Zenon DEF Gate!should_run_solver, ReviewInv, GateFields
<1>3. /\ DOMAIN Conditions = 1..Len(Conditions) /\ Len(Conditions) \in Nat /\ visited \in Nat
  BY PipelineAssumption DEF ReviewInv
<1>4. visited + 1 \in DOMAIN Conditions /\ visited' \in 0..Len(Conditions)
  BY <1>1, <1>3
<1>5. \A s, d : Covered(s, d)' <=> Covered(s, d)
  BY <1>1 DEF Covered, load_hitl_approvals
<1>6. \A k : Gate!IsApproved(Conditions[k].vc, Conditions[k].class)'
             <=> Gate!IsApproved(Conditions[k].vc, Conditions[k].class)
  BY <1>1, Zenon DEF Gate!IsApproved
<1> HIDE DEF c, may
<1>7. ASSUME args.mode = "require"
      PROVE  may <=> Covered(args.sources, c)
  BY <1>1, <1>4, <1>7, Zenon DEF ReviewInv, may, c, Gate!MayRun
<1>8. ASSUME args.mode = "require"
      PROVE  /\ \A v \in gate'.blocked :
                   \E k \in DOMAIN Conditions : Conditions[k].vc = v /\ ~Covered(args.sources, Conditions[k])
             /\ \A k \in 1..visited' :
                   Listed(gate'.blocked, gate'.blocked_classes, args.sources, Conditions[k])
  <2>1. \A v \in gate.blocked :
           \E k \in DOMAIN Conditions : Conditions[k].vc = v /\ ~Covered(args.sources, Conditions[k])
    BY <1>1, <1>8, Zenon DEF ReviewInv
  <2>2. \A k \in 1..visited :
           Listed(gate.blocked, gate.blocked_classes, args.sources, Conditions[k])
    BY <1>1, <1>8 DEF ReviewInv
  <2>3. ~may => c.vc = Conditions[visited + 1].vc /\ ~Covered(args.sources, Conditions[visited + 1])
    BY <1>7, <1>8, Zenon DEF c
  <2>4. Listed(gate'.blocked, gate'.blocked_classes, args.sources, Conditions[visited + 1])
    BY <1>2, <1>7, <1>8 DEF Listed, c
  <2>5. \A k \in 1..visited' : k \in 1..visited \/ k = visited + 1
    BY <1>1, <1>3
  <2>6. \A v \in gate'.blocked : v \in gate.blocked \/ (~may /\ v = c.vc)
    BY <1>2
  <2>7. \A k \in 1..visited :
           Listed(gate'.blocked, gate'.blocked_classes, args.sources, Conditions[k])
    BY <1>2, <2>2 DEF Listed
  <2> QED
    BY <1>4, <2>1, <2>3, <2>4, <2>5, <2>6, <2>7, Zenon
<1>9. \A b, d, s, e : Listed(b, d, s, e)' <=> Listed(b, d, s, e)
  BY <1>5 DEF Listed
<1>10. ~Listing'
  BY <1>1, Zenon DEF Listing, WriteSteps
<1> QED
  BY <1>1, <1>2, <1>4, <1>5, <1>6, <1>8, <1>9, <1>10, Zenon DEF ReviewInv

\* The list of a complete analysis has every condition that is not approved.
LEMMA EnforceReview == TypeOK /\ ReviewInv /\ Enforce => ReviewInv'
<1> SUFFICES ASSUME TypeOK, ReviewInv, Enforce PROVE ReviewInv'
  OBVIOUS
<1>1. /\ pc = "enforce" /\ pc' = "ring"
      /\ UNCHANGED <<args, gate, visited, approved, approved_classes, vc_lines, class_lines>>
  BY DEF Enforce, Go, gateVars, reviewVars
<1>2. \A s, c : Covered(s, c)' <=> Covered(s, c)
  BY <1>1 DEF Covered, load_hitl_approvals
<1>3. \A b, d, s, c : Listed(b, d, s, c)' <=> Listed(b, d, s, c)
  BY <1>2 DEF Listed
<1>4. \A e \in past'.emitted : \A k \in DOMAIN Conditions :
         Listed(e.blocked, e.classes, e.sources, Conditions[k])
  <2>1. CASE past' = past
    BY <2>1, Zenon DEF ReviewInv
  <2>2. CASE args.mode = "require" /\ result # "fail" /\ past' # past
    <3> DEFINE new == [blocked |-> gate.blocked, classes |-> gate.blocked_classes,
                       sources |-> args.sources]
    <3>1. past'.emitted = past.emitted \cup {new}
      BY <2>2, Zenon DEF Enforce, TypeOK, PastFields
    <3>2. /\ new.blocked = gate.blocked /\ new.classes = gate.blocked_classes
          /\ new.sources = args.sources
      BY Zenon
    <3> HIDE DEF new
    <3>3. visited = Len(Conditions) /\ DOMAIN Conditions = 1..visited
      <4>1. visited = Len(Conditions)
        BY <1>1, <2>2, Zenon DEF ReviewInv, Listing
      <4>2. DOMAIN Conditions = 1..Len(Conditions)
        BY PipelineAssumption
      <4> QED
        BY ONLY <4>1, <4>2, Zenon
    <3>4. \A k \in DOMAIN Conditions : Listed(new.blocked, new.classes, new.sources, Conditions[k])
      BY <1>1, <2>2, <3>2, <3>3 DEF ReviewInv
    <3> QED
      BY <3>1, <3>4 DEF ReviewInv
  <2> QED
    BY <2>1, <2>2, Zenon DEF Enforce
<1>5. ~Listing'
  BY <1>1 DEF Listing, WriteSteps
<1> QED
  BY <1>1, <1>2, <1>3, <1>4, <1>5, Zenon DEF ReviewInv

\* Every step keeps what the invariant says of the review.
LEMMA ReviewStep == TypeOK /\ ReviewInv /\ [Next]_vars => ReviewInv'
<1> SUFFICES ASSUME TypeOK, ReviewInv, [Next]_vars PROVE ReviewInv'
  BY Zenon
<1>1. CASE Start
  <2>1. /\ gate'.mode = args'.mode /\ gate'.blocked = {} /\ DOMAIN gate' = GateFields
        /\ visited' = 0 /\ pc' \in {"ring", "parse"}
        /\ UNCHANGED <<vc_lines, class_lines>>
    BY <1>1 DEF Start, Gate!NewGate, GateFields, reviewVars
  <2>2. past'.emitted = past.emitted
    BY <1>1, Zenon DEF Start, TypeOK, PastFields
  <2>3. \A b, d, s, c : Listed(b, d, s, c)' <=> Listed(b, d, s, c)
    BY <2>1 DEF Listed, Covered, load_hitl_approvals
  <2>4. Len(Conditions) \in Nat
    BY PipelineAssumption
  <2>5. ~Listing'
    BY <2>1 DEF Listing, WriteSteps
  <2>6. visited' \in 0..Len(Conditions) /\ \A k : k \notin 1..visited'
    BY ONLY <2>1, <2>4
  <2> QED
    BY <2>1, <2>2, <2>3, <2>5, <2>6, ZenonT(30) DEF ReviewInv
<1>2. CASE Parse
  <2>1. /\ UNCHANGED <<args, approved, approved_classes, gate, visited, vc_lines, class_lines, past>>
        /\ pc = "parse" /\ pc' \in {"idle", "approvals"}
    BY <1>2 DEF Parse, Go, Exit, gateVars, reviewVars
  <2>2. \A b, d, s, c : Listed(b, d, s, c)' <=> Listed(b, d, s, c)
    BY <2>1 DEF Listed, Covered, load_hitl_approvals
  <2>3. ~Listing'
    BY <2>1 DEF Listing, WriteSteps
  <2> QED
    BY <2>1, <2>2, <2>3, Zenon DEF ReviewInv
<1>3. CASE LoadApprovals
  <2>1. CASE pc' = "idle"
    BY <1>3, <2>1, ElsewhereStep, Zenon DEF LoadApprovals, Go, Elsewhere, reviewVars
  <2>2. CASE pc' # "idle"
    <3>1. /\ pc = "approvals" /\ pc' = "analyze"
          /\ UNCHANGED <<args, gate, visited, vc_lines, class_lines, past>>
          /\ approved' = IF "vcs" \in args.sources THEN load_hitl_approvals(vc_lines) ELSE {}
          /\ approved_classes' = IF args.mode = "require" /\ "classes" \in args.sources
                                 THEN load_hitl_approvals(class_lines) ELSE {}
      BY <1>3, <2>2, Zenon DEF LoadApprovals, Go, Exit, reviewVars
    <3>2. \A s, c : Covered(s, c)' <=> Covered(s, c)
      BY <3>1 DEF Covered, load_hitl_approvals
    <3>3. \A b, d, s, c : Listed(b, d, s, c)' <=> Listed(b, d, s, c)
      BY <3>2, Zenon DEF Listed
    <3>4. args.mode = "require" => \A k \in DOMAIN Conditions :
             Gate!IsApproved(Conditions[k].vc, Conditions[k].class)' <=> Covered(args.sources, Conditions[k])
      BY <3>1 DEF Gate!IsApproved, Covered
    <3>5. ~Listing' /\ \A k : k \notin 1..0
      BY <3>1 DEF Listing, WriteSteps
    <3> QED
      BY <3>1, <3>2, <3>3, <3>4, <3>5, Zenon DEF ReviewInv
  <2> QED
    BY <2>1, <2>2, Zenon
<1>4. CASE Visit
  BY <1>4, VisitReview, Zenon
<1>5. CASE EndAnalysis
  <2>1. /\ UNCHANGED <<args, approved, approved_classes, gate, visited, vc_lines, class_lines, past, result>>
        /\ pc = "analyze" /\ pc' \in {"lstat", "enforce"}
        /\ result = "fail" \/ visited = Len(Conditions)
    BY <1>5 DEF EndAnalysis, WriteOr, Go, gateVars, reviewVars
  <2>2. \A s, c : Covered(s, c)' <=> Covered(s, c)
    BY <2>1 DEF Covered, load_hitl_approvals
  <2>3. \A b, d, s, c : Listed(b, d, s, c)' <=> Listed(b, d, s, c)
    BY <2>2 DEF Listed
  <2> QED
    BY <2>1, <2>2, <2>3, Zenon DEF ReviewInv
<1>6. CASE Enforce
  BY <1>6, EnforceReview, Zenon
<1>7. CASE Review
  <2>1. /\ UNCHANGED <<args, approved, approved_classes, gate, visited, past>>
        /\ pc = "idle" /\ pc' = "idle"
        /\ vc_lines \subseteq vc_lines' /\ class_lines \subseteq class_lines'
    BY <1>7, Zenon DEF Review, gateVars
  <2>2. \A b, d, s, c : Listed(b, d, s, c) => Listed(b, d, s, c)'
    BY <2>1, CoveredGrows
  <2>3. ~Listing'
    BY <2>1 DEF Listing, WriteSteps
  <2> QED
    BY <2>1, <2>2, <2>3, Zenon DEF ReviewInv
<1>8. CASE RingPolicy \/ ReadToken \/ CheckSignature \/ CheckRoot \/ CheckBinding
           \/ Validate \/ ValidatorAnswers
  <2>1. /\ UNCHANGED <<args, approved, approved_classes, gate, visited, vc_lines, class_lines>>
        /\ pc \in {"ring"} \cup RingSteps /\ pc' \in {"print"} \cup RingSteps
    BY <1>8, Zenon DEF RingPolicy, ReadToken, CheckSignature, CheckRoot, CheckBinding, Validate,
       ValidatorAnswers, Go, Reject, RingSteps, TokenSteps, gateVars, reviewVars
  <2>2. past'.emitted = past.emitted
    BY <1>8, Zenon DEF RingPolicy, ReadToken, CheckSignature, CheckRoot, CheckBinding, Validate,
       ValidatorAnswers, Proves, TypeOK, PastFields
  <2> QED
    BY <2>1, <2>2, ElsewhereStep DEF Elsewhere, Listing, RingSteps, TokenSteps, WriteSteps
<1>9. CASE PrintVerdict \/ EmitProof \/ Return
  <2>1. /\ UNCHANGED <<args, approved, approved_classes, gate, visited, vc_lines, class_lines>>
        /\ pc \in {"print", "proof", "return"}
        /\ pc' \in {"proof", "return", "idle"} \/ (pc' = "lstat" /\ w'.path # "vcs")
    BY <1>9, Zenon DEF PrintVerdict, EmitProof, Return, WriteOr, Go, Exit, NoWrite, gateVars, reviewVars
  <2>2. past'.emitted = past.emitted
    BY <1>9, Zenon DEF PrintVerdict, EmitProof, Return, TypeOK, PastFields
  <2> QED
    BY <2>1, <2>2, ElsewhereStep DEF Elsewhere, Listing, WriteSteps
<1>10. CASE Lstat \/ Open \/ Chmod \/ WriteAll \/ SyncAll
  <2>1. /\ UNCHANGED <<args, approved, approved_classes, gate, visited, vc_lines, class_lines, result>>
        /\ pc \in WriteSteps
    BY <1>10, Zenon DEF Lstat, Open, Chmod, WriteAll, SyncAll, WriteSteps, gateVars, reviewVars
  <2>2. past'.emitted = past.emitted
    BY <1>10, Zenon DEF Lstat, Open, Chmod, WriteAll, SyncAll, TypeOK, PastFields
  <2>3. w'.path = w.path
    BY <1>10, Zenon DEF Lstat, Open, Chmod, WriteAll, SyncAll, PutContent, TypeOK
  <2>4. \/ pc' \in WriteSteps \cup {"idle"}
        \/ pc' \in {"enforce", "proof", "return"} /\ (pc' = "enforce" => w.path = "vcs")
    <3>1. CASE SyncAll
      BY <2>1, <3>1 DEF SyncAll, Go, Exit, AfterWrite, TypeOK, Paths
    <3> QED
      BY <1>10, <3>1, Zenon DEF Lstat, Open, Chmod, WriteAll, Go, Exit, WriteSteps
  <2> QED
    BY <2>1, <2>2, <2>3, <2>4, ElsewhereStep DEF Elsewhere, Listing, WriteSteps
<1>11. CASE RenewToken \/ Kill \/ PowerLoss \/ (\E k \in Keys : RenewSignature(k))
            \/ (\E p \in Paths : MoveFile(p)) \/ UNCHANGED vars
  <2>1. /\ UNCHANGED <<args, approved, approved_classes, gate, visited, vc_lines, class_lines, result>>
        /\ pc' \in {pc, "idle"}
    BY <1>11, Zenon DEF RenewToken, Kill, PowerLoss, Killed, RenewSignature, MoveFile, vars,
       gateVars, reviewVars
  <2>2. past'.emitted = past.emitted
    BY <1>11, Zenon DEF RenewToken, Kill, PowerLoss, Killed, RenewSignature, MoveFile, vars,
       TypeOK, PastFields
  <2>3. w'.path = w.path
    BY <1>11, Zenon DEF RenewToken, Kill, PowerLoss, Killed, RenewSignature, MoveFile, vars, TypeOK
  <2>4. CASE pc' = "idle"
    BY <2>1, <2>2, <2>4, ElsewhereStep, Zenon DEF Elsewhere
  <2>5. CASE pc' = pc
    <3>1. \A s, c : Covered(s, c)' <=> Covered(s, c)
      BY <2>1 DEF Covered, load_hitl_approvals
    <3>2. \A b, d, s, c : Listed(b, d, s, c)' <=> Listed(b, d, s, c)
      BY <3>1 DEF Listed
    <3>3. \A k : Gate!IsApproved(Conditions[k].vc, Conditions[k].class)'
                 <=> Gate!IsApproved(Conditions[k].vc, Conditions[k].class)
      BY <2>1 DEF Gate!IsApproved
    <3>4. Listing' <=> Listing
      BY <2>3, <2>5 DEF Listing
    <3> QED
      BY <2>1, <2>2, <2>5, <3>1, <3>2, <3>3, <3>4, Zenon DEF ReviewInv
  <2> QED
    BY <2>1, <2>4, <2>5
<1> QED
  BY <1>1, <1>2, <1>3, <1>4, <1>5, <1>6, <1>7, <1>8, <1>9, <1>10, <1>11, Zenon
     DEF Next, Process, World

\* What a complete list leaves: nothing but ids that are not read back; by class, nothing.
LEMMA ReviewEnough == ReviewInv => ReviewConverges
<1> SUFFICES ASSUME ReviewInv, pc \notin {"idle", "parse", "approvals", "analyze"},
                    args.mode = "require", NEW e \in past.emitted, e.sources \subseteq args.sources,
                    NEW v \in gate.blocked
             PROVE  /\ ~("vcs" \in args.sources /\ e.blocked \subseteq vc_lines /\ ReadBack[v] = v)
                    /\ ~("classes" \in args.sources /\ e.classes \subseteq class_lines)
  BY Zenon DEF ReviewConverges
<1>0. PICK k : k \in DOMAIN Conditions /\ Conditions[k].vc = v /\ ~Covered(args.sources, Conditions[k])
  BY Zenon DEF ReviewInv
<1>1. ~Covered(e.sources, Conditions[k])
  BY <1>0, Zenon DEF Covered
<1>2. v \in e.blocked /\ Conditions[k].class \in e.classes
  BY <1>0, <1>1, Zenon DEF ReviewInv, Listed
<1>3. /\ v # NoId /\ Conditions[k].class # NoId
      /\ ReadBack[Conditions[k].class] = Conditions[k].class
  BY <1>0, IdAssumption
<1> QED
  BY <1>0, <1>2, <1>3 DEF Covered, load_hitl_approvals

-----------------------------------------------------------------------------
(* The invariant and the theorems.                                         *)

\* The inductive invariant holds before the first run.
LEMMA InitIInv == Init => IInv
<1> SUFFICES ASSUME Init PROVE IInv
  BY Zenon
<1>1. /\ DOMAIN past = PastFields /\ past.spent = NoToken /\ past.passed = <<>>
      /\ past.midway = FALSE /\ past.kept = [p \in Paths |-> Foreign]
  BY Zenon DEF Init, NewPast, PastFields
<1>2. pc = "idle" /\ exit = -1 /\ result = "pass" /\ token = 1 /\ last = 0 /\ pending = {}
      /\ forgot = FALSE /\ token_sha256 = NoToken /\ token_read = NoToken /\ w = NoWrite
  BY DEF Init
<1>3. pc \notin RingSteps /\ pc \notin WriteSteps /\ ~Late /\ \A p \in Paths : ~Done(p)
  BY <1>2, Zenon DEF RingSteps, TokenSteps, WriteSteps, Late, Done, Paths
<1>4. TypeOK
  <2>1. DOMAIN w = {"path", "open", "detached"}
    BY <1>2, ZenonT(30) DEF NoWrite
  <2> QED
    BY <1>1, <1>2, <1>3, <2>1, PipelineAssumption, SMTT(30) DEF TypeOK, Steps, Results
<1>5. RingInv /\ TokenInv /\ ExitInv
  BY <1>1, <1>2, <1>3, SMTT(30) DEF RingInv, TokenInv, ExitInv, Ended
<1>6. PassInv
  <2>1. DOMAIN past.passed = {} /\ past.passed \in Seq(Passes)
    BY <1>1
  <2> QED
    BY <1>1, <1>2, <1>3, <2>1, Zenon DEF PassInv, PassBounds, Below, PassedOnce
<1>7. /\ DOMAIN files = Paths /\ \A p \in Paths : Private(files[p]) /\ files[p].entry
  BY PrivateNew, ZenonT(30) DEF Init
<1>8. FileInv
  BY <1>2, <1>3, <1>7, NoWriteIs, Zenon DEF FileInv, WriteSteps
<1>9. KeptInv
  <2>1. \A p \in Paths : past.kept[p].run = 0
    <3>1. Foreign.run = 0
      BY Zenon DEF Foreign, Content
    <3> QED
      BY <1>1, <3>1
  <2> QED
    BY <1>1, <1>2, <1>3, <1>7, <2>1, Zenon DEF KeptInv, KeptAfterExit, WriteSteps
<1>10. ReviewInv
  <2>1. /\ DOMAIN gate = GateFields /\ gate.mode = args.mode /\ visited = 0 /\ past.emitted = {}
    BY Zenon DEF Init, Gate!NewGate, GateFields, NoArgs, NewPast
  <2>2. Len(Conditions) \in Nat
    BY PipelineAssumption
  <2>3. visited \in 0..Len(Conditions) /\ \A k : k \notin 1..visited
    BY ONLY <2>1, <2>2
  <2> QED
    BY <1>2, <2>1, <2>3, ZenonT(30) DEF ReviewInv, Listing, WriteSteps
<1> QED
  BY <1>4, <1>5, <1>6, <1>8, <1>9, <1>10 DEF IInv

\* Every step of a run and of the world around it preserves the inductive invariant.
LEMMA NextIInv == IInv /\ [Next]_vars => IInv'
  BY TypeStep, RingStep, TokenStep, ExitStep, PassStep, FileStep, KeptStep, ReviewStep DEF IInv

\* The inductive invariant holds throughout, for any number of runs and faults.
THEOREM Invariance == Spec => []IInv
  BY InitIInv, NextIInv, PTL DEF Spec

\* apply_ring_policy: no run for ring -1 or -2 exits with 0 without a spent counter,
\* verified signatures and nothing blocked; none exits with 20.
THEOREM StrictPass == Spec => []StrictPassJustified
<1>1. IInv => StrictPassJustified
  BY Zenon DEF IInv, TypeOK, RingInv, TokenInv, ExitInv, StrictPassJustified, Ended, Keys
<1> QED
  BY <1>1, Invariance, PTL

\* The token reported is the token spent, unless its file changed between the reads.
THEOREM Reported == Spec => []ReportedIsSpent
<1>1. IInv => ReportedIsSpent
  BY DEF IInv, TokenInv, ReportedIsSpent
<1> QED
  BY <1>1, Invariance, PTL

\* As long as the backend keeps its counter, no two strict runs pass on the same token,
\* whatever else failed or was killed in between.
THEOREM OnePass == Spec => []OnePassPerToken
<1>1. IInv => OnePassPerToken
  BY Zenon DEF IInv, PassInv, PassBounds, PassedOnce, OnePassPerToken
<1> QED
  BY <1>1, Invariance, PTL

\* A run that fails after it spent a counter has printed its verdict.
THEOREM Printed == Spec => []SpentIsPrinted
<1>1. IInv => SpentIsPrinted
  BY DEF IInv, ExitInv, SpentIsPrinted, Ended
<1> QED
  BY <1>1, Invariance, PTL

\* write_output_file never leaves output readable by others, but for a file moved
\* between open and set_permissions.
THEOREM PrivateFiles == Spec => []PrivateContent
<1>1. IInv => PrivateContent
  BY DEF IInv, FileInv, Private, PrivateContent
<1> QED
  BY <1>1, Invariance, PTL

\* Review converges: what emit_hitl_vcs lists of a complete analysis in require mode is
\* all that a later run, which reads at least the same approvals, can be blocked on, but
\* for the ids that load_hitl_approvals does not read back.
THEOREM ReviewSuffices == Spec => []ReviewConverges
<1>1. IInv => ReviewConverges
  BY ReviewEnough DEF IInv
<1> QED
  BY <1>1, Invariance, PTL

\* What a run that exits normally has written survives kills and power losses, but for
\* the name of a file it created.
THEOREM Durable == Spec => []KeptAfterExit
<1>1. IInv => KeptAfterExit
  BY DEF IInv, KeptInv
<1> QED
  BY <1>1, Invariance, PTL
=============================================================================
