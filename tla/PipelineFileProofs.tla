------------------------- MODULE PipelineFileProofs -------------------------
(***************************************************************************)
(* The steps of Pipeline keep what IInv says of the files: their modes,    *)
(* through everything a file goes through (created, opened, chmod,         *)
(* written, synced, lost), and the contents of those a run has written.    *)
(***************************************************************************)
EXTENDS PipelineInv, TLAPS

\* What MoveFile puts at a path, and what is there at first, holds no output.
LEMMA PrivateNew ==
    ASSUME NEW f \in {Absent} \cup {File(m, Foreign, TRUE) : m \in {"0644", "0664"}}
    PROVE  Private(f) /\ f.entry
<1>1. CASE f = Absent
  BY <1>1, Zenon DEF Private, FileFields, Absent, File, Foreign, Content
<1>2. CASE f \in {File(m, Foreign, TRUE) : m \in {"0644", "0664"}}
  <2>1. PICK m : f = File(m, Foreign, TRUE)
    BY <1>2, Zenon
  <2> QED
    BY <2>1, Zenon DEF Private, FileFields, File, Foreign, Content
<1> QED
  BY <1>1, <1>2, Zenon

\* open with truncate leaves no output behind; only a file it creates has its name not
\* yet on disk.
LEMMA PrivateOpened ==
    ASSUME NEW f, Private(f)
    PROVE  Private(Opened(f)) /\ (~Opened(f).entry => ~Exists(f) \/ ~f.entry)
<1>1. CASE Exists(f)
  BY <1>1, Zenon DEF Private, FileFields, Opened, Foreign, Content
<1>2. CASE ~Exists(f)
  BY <1>2, Zenon DEF Private, FileFields, Opened, File, Foreign, Content
<1> QED
  BY <1>1, <1>2

\* set_permissions keeps a file private and gives it mode 0600.
LEMMA PrivateChmod ==
    ASSUME NEW f, Private(f)
    PROVE  LET g == [f EXCEPT !.mode = "0600"]
           IN  Private(g) /\ g.mode = "0600" /\ g.entry = f.entry
  BY DEF Private, FileFields

\* write_all to a file with mode 0600 keeps it private.
LEMMA PrivatePut ==
    ASSUME NEW f, Private(f), f.mode = "0600", NEW c
    PROVE  LET g == [f EXCEPT !.content = c]
           IN  Private(g) /\ g.mode = f.mode /\ g.content = c /\ g.entry = f.entry
  BY DEF Private, FileFields

\* sync_all keeps a file private, and what it holds is then on disk.
LEMMA PrivateSync ==
    ASSUME NEW f, Private(f)
    PROVE  LET g == [f EXCEPT !.disk = f.content]
           IN  Private(g) /\ g.mode = f.mode /\ g.content = f.content /\ g.disk = f.content
               /\ g.entry = f.entry
  BY DEF Private, FileFields

\* A power loss leaves a file as it was or as it is on disk, or takes a new name.
LEMMA PrivateLoss ==
    ASSUME NEW f, Private(f), NEW g \in AfterLoss(f)
    PROVE  /\ Private(g) /\ g.entry
           /\ \/ g.mode = f.mode /\ g.content \in {f.content, f.disk} /\ g.disk = g.content
              \/ ~f.entry /\ ~Exists(g)
<1>1. CASE g \in {File(f.mode, c, TRUE) : c \in {f.content, f.disk}}
  <2>1. PICK c \in {f.content, f.disk} : g = File(f.mode, c, TRUE)
    BY <1>1, Zenon
  <2>2. /\ DOMAIN g = FileFields /\ g.entry
        /\ g.mode = f.mode /\ g.content = c /\ g.disk = c
    BY <2>1 DEF File, FileFields
  <2> QED
    BY <2>1, <2>2, ZenonT(30) DEF Private
<1>2. CASE ~f.entry /\ g = Absent
  BY <1>2, Zenon DEF Private, FileFields, File, Absent, Foreign, Content, Exists
<1> QED
  BY <1>1, <1>2, ZenonT(30) DEF AfterLoss

\* A write begins with no file open.
LEMMA NoWriteFacts ==
    ASSUME NEW p
    PROVE  LET v == [NoWrite EXCEPT !.path = p]
           IN  /\ v.path = p /\ ~v.open /\ ~Exists(v.detached) /\ v.detached.content.run = 0
               /\ DOMAIN v.detached = FileFields
  BY Zenon DEF NoWrite, Absent, File, Foreign, Content, Exists, FileFields

\* Before any write no file is open.
LEMMA NoWriteIs == ~Exists(NoWrite.detached) /\ NoWrite.detached.content.run = 0 /\ ~NoWrite.open
                   /\ DOMAIN NoWrite.detached = FileFields
  BY Zenon DEF NoWrite, Absent, File, Foreign, Content, Exists, FileFields

\* write_output_file: the mode is set before anything is written to the file at the
\* path, and the open file is another one only if it was moved.
LEMMA FileStep == TypeOK /\ TypeOK' /\ FileInv /\ [Next]_vars => FileInv'
<1> SUFFICES ASSUME TypeOK, TypeOK', FileInv, [Next]_vars PROVE FileInv'
  OBVIOUS
<1> USE DEF TypeOK, FileInv, PastFields
<1> DEFINE Quiet == /\ UNCHANGED <<files, w>> /\ past'.moved = past.moved
                    /\ pc' \notin WriteSteps \/ pc' = pc
<1>q. Quiet => FileInv'
  BY DEF WriteSteps
<1>1. CASE Start
  <2>1. pc' \notin WriteSteps /\ UNCHANGED files /\ w' = NoWrite
    BY <1>1, SMTT(30) DEF Start, WriteSteps
  <2> QED
    BY <2>1, NoWriteIs DEF WriteSteps
<1>2. CASE Parse
  BY <1>2, <1>q, SMTT(30) DEF Parse, Go, Exit, WriteSteps
<1>3. CASE LoadApprovals
  BY <1>3, <1>q, SMTT(30) DEF LoadApprovals, Go, Exit, WriteSteps
<1>4. CASE Visit
  BY <1>4, <1>q DEF Visit, WriteSteps
<1>5. CASE EndAnalysis
  <2>1. past'.moved = past.moved /\ UNCHANGED files
    BY <1>5 DEF EndAnalysis
  <2>2. CASE pc' = "lstat" /\ w' = [NoWrite EXCEPT !.path = "vcs"]
    BY <2>1, <2>2, NoWriteFacts DEF WriteSteps
  <2>3. CASE pc' \notin WriteSteps /\ UNCHANGED w
    BY <1>q, <2>1, <2>3
  <2> QED
    BY <1>5, <2>2, <2>3 DEF EndAnalysis, WriteOr, Go, WriteSteps
<1>6. CASE Enforce
  <2>1. past'.moved = past.moved
    BY <1>6, SMTT(30) DEF Enforce
  <2> QED
    BY <1>6, <1>q, <2>1 DEF Enforce, Go, WriteSteps
<1>7. CASE RingPolicy
  BY <1>7, <1>q, SMTT(30) DEF RingPolicy, Go, Reject, WriteSteps
<1>8. CASE ReadToken
  BY <1>8, <1>q DEF ReadToken, Go, Reject, WriteSteps
<1>9. CASE CheckSignature
  <2>1. past'.moved = past.moved
    BY <1>9, SMTT(30) DEF CheckSignature, Proves
  <2> QED
    BY <1>9, <1>q, <2>1 DEF CheckSignature, Go, Reject, WriteSteps
<1>10. CASE CheckRoot
  <2>1. past'.moved = past.moved
    BY <1>10, SMTT(30) DEF CheckRoot, Proves
  <2> QED
    BY <1>10, <1>q, <2>1 DEF CheckRoot, Go, Reject, WriteSteps
<1>11. CASE CheckBinding
  BY <1>11, <1>q, ZenonT(30) DEF CheckBinding, Go, Reject, WriteSteps
<1>12. CASE Validate
  BY <1>12, <1>q DEF Validate, Go, Reject, Guard!Take, WriteSteps
<1>13. CASE ValidatorAnswers
  <2>1. past'.moved = past.moved
    BY <1>13 DEF ValidatorAnswers
  <2> QED
    BY <1>13, <1>q, <2>1 DEF ValidatorAnswers, Go, Reject, WriteSteps
<1>14. CASE PrintVerdict
  <2>1. past'.moved = past.moved /\ UNCHANGED files
    BY <1>14 DEF PrintVerdict
  <2>2. CASE pc' = "lstat" /\ w' = [NoWrite EXCEPT !.path = "verdict"]
    BY <2>1, <2>2, NoWriteFacts DEF WriteSteps
  <2>3. CASE pc' \notin WriteSteps /\ UNCHANGED w
    BY <1>q, <2>1, <2>3
  <2> QED
    BY <1>14, <2>2, <2>3 DEF PrintVerdict, WriteOr, Go, Exit, WriteSteps
<1>15. CASE EmitProof
  <2>1. past'.moved = past.moved /\ UNCHANGED files
    BY <1>15 DEF EmitProof
  <2>2. CASE pc' = "lstat" /\ w' = [NoWrite EXCEPT !.path = "proof"]
    BY <2>1, <2>2, NoWriteFacts DEF WriteSteps
  <2>3. CASE pc' \notin WriteSteps /\ UNCHANGED w
    BY <1>q, <2>1, <2>3
  <2> QED
    BY <1>15, <2>2, <2>3 DEF EmitProof, WriteOr, Go, WriteSteps
<1>16. CASE Return
  <2>1. past'.moved = past.moved
    BY <1>16, SMTT(30) DEF Return
  <2> QED
    BY <1>16, <1>q, <2>1 DEF Return, Exit, WriteSteps
<1>17. CASE Lstat
  <2>1. pc = "lstat" /\ pc' \in {"open", "idle"} /\ UNCHANGED <<files, w, past>>
    BY <1>17 DEF Lstat, Go, Exit
  <2> QED
    BY <2>1 DEF WriteSteps
<1>18. CASE Open
  <2>1. CASE pc' = "idle" /\ UNCHANGED <<files, w, past>>
    BY <1>q, <2>1 DEF WriteSteps
  <2>2. CASE /\ pc' = "chmod" /\ files' = [files EXCEPT ![w.path] = Opened(@)]
             /\ w' = [w EXCEPT !.open = TRUE]
    <3>1. w.path \in Paths /\ pc = "open" /\ ~Exists(w.detached)
      BY <1>18 DEF Open, WriteSteps
    <3>2. past'.moved = past.moved
      BY <1>18, ZenonT(30) DEF Open
    <3>3. w'.path = w.path /\ w'.detached = w.detached /\ w'.open
      BY <2>2
    <3>4. Private(Opened(files[w.path]))
      BY <3>1, PrivateOpened
    <3>5. /\ DOMAIN files' = Paths
          /\ \A p \in Paths :
                files'[p] = IF p = w.path THEN Opened(files[w.path]) ELSE files[p]
      BY <2>2, <3>1
    <3> QED
      BY <2>2, <3>1, <3>2, <3>3, <3>4, <3>5 DEF WriteSteps
  <2> QED
    BY <1>18, <2>1, <2>2, SMTT(30) DEF Open, Go, Exit
<1>19. CASE Chmod
  <2>1. CASE pc' = "idle" /\ UNCHANGED files
    BY <1>19, <1>q, <2>1 DEF Chmod, WriteSteps
  <2>2. CASE pc' = "write" /\ files' = [files EXCEPT ![w.path].mode = "0600"]
    <3>1. pc = "chmod" /\ w.path \in Paths /\ UNCHANGED <<w, past>>
      BY <1>19 DEF Chmod, WriteSteps
    <3>2. /\ DOMAIN files' = Paths
          /\ \A p \in Paths :
                files'[p] = IF p = w.path THEN [files[w.path] EXCEPT !.mode = "0600"]
                            ELSE files[p]
      BY <2>2, <3>1
    <3>3. Private(files'[w.path]) /\ files'[w.path].mode = "0600"
      <4>1. Private(files[w.path])
        BY <3>1
      <4>2. files'[w.path] = [files[w.path] EXCEPT !.mode = "0600"]
        BY <3>1, <3>2
      <4>3. LET g == [files[w.path] EXCEPT !.mode = "0600"] IN Private(g) /\ g.mode = "0600"
        BY ONLY <4>1, PrivateChmod
      <4> QED
        BY ONLY <4>2, <4>3
    <3> QED
      BY <2>2, <3>1, <3>2, <3>3 DEF WriteSteps
  <2> QED
    BY <1>19, <2>1, <2>2 DEF Chmod, Go, Exit
<1>20. CASE WriteAll
  <2>1. PICK c : PutContent(c)
    BY <1>20 DEF WriteAll
  <2>2. pc = "write" /\ pc' \in {"sync", "idle"} /\ w.path \in Paths /\ past' = past /\ w.open
    BY <1>20 DEF WriteAll, Go, Exit, WriteSteps
  <2>3. CASE Exists(w.detached)
    <3>1. w' = [w EXCEPT !.detached.content = c] /\ UNCHANGED files
      BY <2>1, <2>3 DEF PutContent
    <3>2. w'.path = w.path /\ w'.open = w.open /\ w'.detached = [w.detached EXCEPT !.content = c]
      BY <3>1
    <3>3. /\ Exists(w'.detached) /\ w'.detached.mode = w.detached.mode
          /\ DOMAIN w'.detached = FileFields
      BY <2>3, <3>2, Zenon DEF Exists, FileFields
    <3> QED
      BY <2>2, <2>3, <3>1, <3>2, <3>3 DEF WriteSteps
  <2>4. CASE ~Exists(w.detached)
    <3>1. files' = [files EXCEPT ![w.path].content = c] /\ UNCHANGED w
      BY <2>1, <2>4 DEF PutContent
    <3>2. /\ DOMAIN files' = Paths
          /\ \A p \in Paths :
                files'[p] = IF p = w.path THEN [files[w.path] EXCEPT !.content = c]
                            ELSE files[p]
      BY <2>2, <3>1
    <3>3. files[w.path].mode = "0600"
      BY <2>2, <2>4
    <3>4. Private(files'[w.path]) /\ files'[w.path].mode = "0600"
      <4>1. Private(files[w.path])
        BY <2>2
      <4>2. files'[w.path] = [files[w.path] EXCEPT !.content = c]
        BY <2>2, <3>2
      <4>3. LET g == [files[w.path] EXCEPT !.content = c]
            IN  Private(g) /\ g.mode = files[w.path].mode
        BY ONLY <3>3, <4>1, PrivatePut
      <4> QED
        BY ONLY <3>3, <4>2, <4>3
    <3> QED
      BY <2>2, <2>4, <3>1, <3>2, <3>4 DEF WriteSteps
  <2> QED
    BY <2>3, <2>4
<1>21. CASE SyncAll
  <2>0. pc = "sync" /\ w.path \in Paths
    BY <1>21 DEF SyncAll, WriteSteps
  <2>1. pc' \notin WriteSteps /\ UNCHANGED <<w, past>>
    <3>1. AfterWrite[w.path] \notin WriteSteps
      BY <2>0, SMTT(30) DEF AfterWrite, WriteSteps, Paths
    <3> QED
      BY <1>21, <3>1 DEF SyncAll, Go, Exit, WriteSteps
  <2>2. CASE UNCHANGED files
    BY <1>q, <2>1, <2>2
  <2>3. CASE ~Exists(w.detached) /\ files' = [files EXCEPT ![w.path].disk = files[w.path].content]
    <3>1. /\ DOMAIN files' = Paths
          /\ \A p \in Paths :
                files'[p] = IF p = w.path THEN [files[w.path] EXCEPT !.disk = files[w.path].content]
                            ELSE files[p]
      BY <2>0, <2>3
    <3>2. Private(files'[w.path])
      BY <2>0, <3>1, PrivateSync
    <3> QED
      BY <2>0, <2>1, <2>3, <3>1, <3>2
  <2> QED
    BY <1>21, <2>2, <2>3 DEF SyncAll
<1>22. CASE RenewToken
  <2>1. past'.moved = past.moved
    BY <1>22, SMTT(30) DEF RenewToken
  <2> QED
    BY <1>22, <1>q, <2>1 DEF RenewToken, WriteSteps
<1>23. CASE Review
  BY <1>23, <1>q, SMTT(30) DEF Review, WriteSteps
<1>24. CASE Kill
  BY <1>24, <1>q, SMTT(30) DEF Kill, Killed, WriteSteps
<1>25. CASE PowerLoss
  <2>1. pc' = "idle" /\ UNCHANGED <<w, past>>
    BY <1>25 DEF PowerLoss, Killed
  <2>2. DOMAIN files' = Paths /\ \A p \in Paths : files'[p] \in AfterLoss(files[p])
    BY <1>25 DEF PowerLoss
  <2>3. \A p \in Paths : Private(files'[p])
    BY <2>2, PrivateLoss, SMTT(30)
  <2> QED
    BY <2>1, <2>2, <2>3 DEF WriteSteps
<1>26. CASE \E k \in Keys : RenewSignature(k)
  BY <1>26, <1>q DEF RenewSignature, WriteSteps
<1>27. CASE \E p \in Paths : MoveFile(p)
  <2>1. PICK p \in Paths : MoveFile(p)
    BY <1>27
  <2>2. PICK f \in {Absent} \cup {File(m, Foreign, TRUE) : m \in {"0644", "0664"}} :
           files' = [files EXCEPT ![p] = f]
    BY <2>1, Zenon DEF MoveFile
  <2>3. Private(f)
    BY PrivateNew, ZenonT(30)
  <2>4. DOMAIN files' = Paths /\ \A q \in Paths : files'[q] = IF q = p THEN f ELSE files[q]
    BY <2>2
  <2>5. pc' = pc /\ past'.moved = past.moved \cup {<<p, pc>>} /\ (pc \in WriteSteps => w.path = p)
    BY <2>1 DEF MoveFile, WriteSteps
  <2>6. CASE pc \in WriteSteps /\ w.open /\ ~Exists(w.detached)
    <3>1. w' = [w EXCEPT !.detached = files[p]]
      BY <2>1, <2>6 DEF MoveFile, WriteSteps
    <3>2. w'.path = p /\ w'.open /\ w'.detached = files[p] /\ Exists(files[p])
      BY <2>1, <2>5, <2>6, <3>1 DEF MoveFile
    <3>3. files[p].mode # "0600" => pc = "chmod"
      BY <2>5, <2>6
    <3>4. DOMAIN files[p] = FileFields /\ <<p, pc>> \in past'.moved
      BY <2>5, SMTT(30) DEF Private
    <3> QED
      BY <2>3, <2>4, <2>5, <2>6, <3>2, <3>3, <3>4
  <2>7. CASE UNCHANGED w /\ (pc \in WriteSteps => ~w.open \/ Exists(w.detached))
    <3>1. pc \in {"write", "sync"} => w.open /\ Exists(w.detached)
      BY <2>7, SMTT(30) DEF WriteSteps
    <3> QED
      BY <2>3, <2>4, <2>5, <2>7, <3>1, SMTT(30)
  <2> QED
    BY <2>1, <2>6, <2>7 DEF MoveFile, WriteSteps
<1>28. CASE UNCHANGED vars
  BY <1>28, <1>q DEF vars, WriteSteps
<1> QED
  BY <1>1, <1>2, <1>3, <1>4, <1>5, <1>6, <1>7, <1>8, <1>9, <1>10, <1>11, <1>12, <1>13,
     <1>14, <1>15, <1>16, <1>17, <1>18, <1>19, <1>20, <1>21, <1>22, <1>23, <1>24, <1>25,
     <1>26, <1>27, <1>28, Zenon DEF Next, Process, World

-----------------------------------------------------------------------------
(* Contents.                                                               *)

\* A written file stays complete and synced until it is moved or opened again.
LEMMA KeptStep == TypeOK /\ FileInv /\ KeptInv /\ [Next]_vars => KeptInv'
<1> SUFFICES ASSUME TypeOK, FileInv, KeptInv, [Next]_vars PROVE KeptInv'
  OBVIOUS
<1> DEFINE Same(p) == Done(p) /\ Output(p)' = Output(p) /\ (Undisturbed(p)' => Undisturbed(p))
           Quiet == /\ UNCHANGED files /\ past'.created = past.created /\ past'.kept = past.kept
                    /\ pc' \notin WriteSteps
                    /\ \A p \in Paths : Done(p)' => Same(p)
           Rewrites ==
               /\ pc \in WriteSteps /\ pc' \in {"chmod", "write", "sync", "idle"}
               /\ w'.path = w.path /\ UNCHANGED <<args, gate, result, runs>>
               /\ past'.moved = past.moved
               /\ DOMAIN past'.kept = Paths /\ past'.kept[w.path].run = 0
               /\ \A p \in Paths \ {w.path} :
                     files'[p] = files[p] /\ past'.kept[p] = past.kept[p]
                     /\ (p \in past.created => p \in past'.created)
               /\ ~files'[w.path].entry => w.path \in past'.created
               /\ Exists(w'.detached) => Exists(w.detached)
               /\ pc' = "sync" /\ ~Exists(w'.detached) => files'[w.path].content = Output(w.path)
<1>a. pc \in WriteSteps => w.path \in Paths /\ ~Done(w.path)
  BY DEF TypeOK, Done, Late, RingSteps, TokenSteps, WriteSteps, Paths
<1>f. Foreign.run = 0
  BY DEF Foreign, Content
<1>b. pc' = "idle" => \A p \in Paths : ~Done(p)'
  BY SMTT(30) DEF Done, Late, RingSteps, TokenSteps, WriteSteps, Paths
<1>q. Quiet => KeptInv'
  <2> SUFFICES ASSUME Quiet PROVE KeptInv'
    BY SMTT(30)
  <2>1. \A p \in Paths : Done(p)' /\ Undisturbed(p)' => Holds(p, Output(p))'
    BY SMTT(30) DEF KeptInv, Holds
  <2>2. KeptAfterExit'
    BY SMTT(30) DEF KeptInv, KeptAfterExit
  <2> QED
    BY <2>1, <2>2 DEF KeptInv, WriteSteps
<1>r. Rewrites => KeptInv'
  <2> SUFFICES ASSUME Rewrites PROVE KeptInv'
    BY SMTT(30)
  <2>1. ASSUME NEW p \in Paths, Done(p)', Undisturbed(p)' PROVE Holds(p, Output(p))'
    <3>1. pc' \in WriteSteps
      BY <1>b, <2>1, SMTT(30) DEF WriteSteps
    <3>2. Done(p)
      BY <2>1, <3>1 DEF Done, Written, Late, RingSteps, TokenSteps, WriteSteps
    <3>3. p # w.path /\ files'[p] = files[p]
      BY <1>a, <3>2, SMTT(30)
    <3>4. Output(p)' = Output(p) /\ Undisturbed(p)
      BY <2>1, SMTT(30) DEF Output, Undisturbed
    <3> QED
      BY <3>2, <3>3, <3>4 DEF KeptInv, Holds
  <2>2. KeptAfterExit'
    BY SMTT(30) DEF KeptInv, KeptAfterExit
  <2>3. Output(w.path)' = Output(w.path)
    BY DEF Output
  <2> QED
    BY <2>1, <2>2, <2>3, <1>a, ZenonT(30) DEF KeptInv, WriteSteps
<1>1. CASE Start
  <2>1. \A p \in Paths : ~Done(p)'
    BY <1>1 DEF Start, Done, Written, Late, RingSteps, TokenSteps, WriteSteps, Paths
  <2>2. past'.created = past.created /\ past'.kept = past.kept
    BY <1>1, SMTT(30) DEF Start, TypeOK, PastFields
  <2> QED
    BY <1>1, <1>q, <2>1, <2>2 DEF Start, WriteSteps
<1>2. CASE Parse \/ LoadApprovals \/ Visit \/ Kill
  <2>1. \A p \in Paths : ~Done(p)'
    BY <1>2 DEF Parse, LoadApprovals, Visit, Kill, Killed, Go, Exit, Done, Late,
       RingSteps, TokenSteps, WriteSteps, Paths
  <2> QED
    BY <1>2, <1>q, <2>1, SMTT(30) DEF Parse, LoadApprovals, Visit, Kill, Killed, Go, Exit,
       WriteSteps
<1>5. CASE EndAnalysis
  <2>1. \A p \in Paths : ~Done(p)'
    BY <1>5, Zenon DEF EndAnalysis, WriteOr, Go, NoWrite, Done, Written, Late, RingSteps,
       TokenSteps, WriteSteps, Paths
  <2>2. UNCHANGED <<files, past>>
    BY <1>5 DEF EndAnalysis
  <2>3. CASE pc' = "enforce"
    BY <1>q, <2>1, <2>2, <2>3 DEF WriteSteps
  <2>4. CASE pc' = "lstat" /\ w' = [NoWrite EXCEPT !.path = "vcs"]
    <3>1. ~Exists(w'.detached)
      BY <2>4, NoWriteFacts, SMTT(30)
    <3>2. KeptAfterExit'
      BY <2>2 DEF KeptInv, KeptAfterExit
    <3> QED
      BY <2>1, <2>2, <2>4, <3>1, <3>2 DEF KeptInv
  <2> QED
    BY <1>5, <2>3, <2>4 DEF EndAnalysis, WriteOr, Go
<1>6. CASE Enforce
  <2>1. past'.created = past.created /\ past'.kept = past.kept /\ past'.moved = past.moved
    BY <1>6 DEF Enforce, TypeOK, PastFields
  <2>2. \A p \in Paths : Done(p)' => p = "vcs"
    BY <1>6 DEF Enforce, Go, Done, Late, RingSteps, TokenSteps, WriteSteps, Paths
  <2>3. Done("vcs")' => Same("vcs")
    BY <1>6, <2>1 DEF Enforce, Go, Done, Written, Output, Undisturbed, gateVars, bounds
  <2> QED
    BY <1>6, <1>q, <2>1, <2>2, <2>3 DEF Enforce, Go, WriteSteps
<1>7. CASE RingPolicy \/ ReadToken \/ CheckSignature \/ CheckRoot \/ CheckBinding \/ Validate
           \/ ValidatorAnswers
  <2>1. /\ pc \in {"ring"} \cup RingSteps /\ pc' \in RingSteps \cup {"print"}
        /\ UNCHANGED <<files, args, gate, runs>>
    BY <1>7, Zenon DEF RingPolicy, ReadToken, CheckSignature, CheckRoot, CheckBinding,
       Validate,
                ValidatorAnswers, Go, Reject, RingSteps, TokenSteps, gateVars, bounds
  <2>2. past'.created = past.created /\ past'.kept = past.kept /\ past'.moved = past.moved
    BY <1>7, Zenon DEF RingPolicy, ReadToken, CheckSignature, CheckRoot, CheckBinding,
       Validate,
                ValidatorAnswers, Proves, TypeOK, PastFields
  <2>3. \A p \in Paths : Done(p)' => p = "vcs"
    BY <2>1 DEF Done, Late, RingSteps, TokenSteps, WriteSteps, Paths
  <2>4. Done("vcs")' => Same("vcs")
    BY <2>1, <2>2 DEF Done, Written, Output, Undisturbed
  <2> QED
    BY <1>q, <2>1, <2>2, <2>3, <2>4 DEF RingSteps, TokenSteps, WriteSteps
<1>14. CASE PrintVerdict \/ EmitProof
  <2>1. /\ past'.created = past.created /\ past'.kept = past.kept /\ past'.moved = past.moved
        /\ UNCHANGED <<files, args, gate, runs, result>>
    BY <1>14 DEF PrintVerdict, EmitProof, TypeOK, PastFields, gateVars, bounds
  <2>2. CASE pc' = "idle"
    BY <1>b, <1>q, <2>1, <2>2 DEF WriteSteps
  <2>3. \A p \in Paths : Output(p)' = Output(p) /\ (Undisturbed(p)' <=> Undisturbed(p))
    BY <2>1 DEF Output, Undisturbed
  <2>4. CASE pc' \in {"proof", "return"} /\ UNCHANGED w
    <3>1. \A p \in Paths : Done(p)' => Done(p)
      BY <1>14, <2>1, <2>4 DEF PrintVerdict, EmitProof, WriteOr, Go, Exit, Done, Written,
         Late, WriteSteps, Paths
    <3> QED
      BY <1>q, <2>1, <2>3, <2>4, <3>1 DEF WriteSteps
  <2>5. ASSUME NEW q \in Paths, pc' = "lstat", w' = [NoWrite EXCEPT !.path = q],
               q = IF pc = "print" THEN "verdict" ELSE "proof", pc \in {"print", "proof"}
        PROVE  KeptInv'
    <3>1. ~Exists(w'.detached) /\ w'.path = q
      BY <2>5, NoWriteFacts
    <3>2. \A p \in Paths : Done(p)' => Done(p)
      BY <2>1, <2>5, <3>1, SMTT(30) DEF Done, Written, Late, RingSteps, TokenSteps,
         WriteSteps, Paths
    <3>3. KeptAfterExit'
      BY <2>1, SMTT(30) DEF KeptInv, KeptAfterExit
    <3>4. \A p \in Paths : Done(p)' /\ Undisturbed(p)' => Holds(p, Output(p))'
      BY <2>1, <2>3, <3>2 DEF KeptInv, Holds
    <3> QED
      BY <2>1, <2>5, <3>1, <3>3, <3>4 DEF KeptInv
  <2>6. "verdict" \in Paths /\ "proof" \in Paths
    BY SMTT(30) DEF Paths
  <2> QED
    BY <1>14, <2>2, <2>4, <2>5, <2>6 DEF PrintVerdict, EmitProof, WriteOr, Go, Exit
<1>16. CASE Return
  <2>1. /\ pc = "return" /\ pc' = "idle" /\ UNCHANGED files /\ past'.created = past.created
        /\ past'.kept = [p \in Paths |-> IF p \in Written /\ Undisturbed(p) THEN Output(p)
                                         ELSE past.kept[p]]
    BY <1>16 DEF Return, Exit, TypeOK, PastFields
  <2>2. \A p \in Written : p \in Paths /\ Done(p)
    BY <2>1, SMTT(30) DEF Done, Written, Late, Paths
  <2>3. KeptAfterExit'
    BY <2>1, <2>2 DEF KeptInv, Holds, KeptAfterExit
  <2> QED
    BY <1>b, <2>1, <2>3, Zenon DEF KeptInv, WriteSteps
<1>17. CASE Lstat
  <2>1. /\ pc = "lstat" /\ pc' \in {"open", "idle"}
        /\ UNCHANGED <<files, w, past, args, gate, runs, result>>
    BY <1>17 DEF Lstat, Go, Exit, gateVars
  <2>2. CASE pc' = "idle"
    BY <1>b, <1>q, <2>1, <2>2, SMTT(30) DEF WriteSteps
  <2>3. CASE pc' = "open"
    <3>1. \A p \in Paths : Done(p)' => Same(p)
      BY <2>1, <2>3, SMTT(30) DEF Done, Written, Late, RingSteps, TokenSteps, WriteSteps,
         Output,
         Undisturbed
    <3>2. KeptAfterExit'
      BY <2>1, ZenonT(30) DEF KeptInv, KeptAfterExit
    <3>3. \A p \in Paths : Done(p)' /\ Undisturbed(p)' => Holds(p, Output(p))'
      BY <2>1, <3>1, Zenon DEF KeptInv, Holds
    <3> QED
      BY <2>1, <2>3, <3>2, <3>3, ZenonT(30) DEF KeptInv, WriteSteps
  <2> QED
    BY <2>1, <2>2, <2>3
<1>18. CASE Open
  <2>1. CASE pc' = "idle" /\ UNCHANGED <<files, past>>
    BY <1>b, <1>q, <2>1 DEF WriteSteps
  <2>2. CASE pc' = "chmod" /\ files' = [files EXCEPT ![w.path] = Opened(@)]
    <3>1. /\ pc = "open" /\ w.path \in Paths /\ w' = [w EXCEPT !.open = TRUE]
          /\ UNCHANGED <<args, gate, result, runs>>
      BY <1>18, <2>2 DEF Open, Go, Exit, TypeOK, WriteSteps, gateVars
    <3>2. /\ past'.moved = past.moved
          /\ past'.kept = [past.kept EXCEPT ![w.path] = Foreign]
          /\ past'.created = IF Exists(files[w.path]) THEN past.created
                             ELSE past.created \cup {w.path}
      BY <1>18, <2>2, Zenon DEF Open, Go, Exit, TypeOK, PastFields
    <3>3. w'.path = w.path /\ w'.detached = w.detached
      BY <3>1 DEF TypeOK
    <3>4. /\ files'[w.path] = Opened(files[w.path])
          /\ \A p \in Paths \ {w.path} : files'[p] = files[p]
      BY <2>2, <3>1 DEF FileInv
    <3>5. ~files'[w.path].entry => ~Exists(files[w.path]) \/ ~files[w.path].entry
      BY <3>1, <3>4, PrivateOpened DEF FileInv
    <3>6. /\ DOMAIN past'.kept = Paths /\ past'.kept[w.path].run = 0
          /\ \A p \in Paths \ {w.path} : past'.kept[p] = past.kept[p]
      BY <1>f, <3>1, <3>2 DEF KeptInv
    <3> QED
      BY <1>r, <2>2, <3>1, <3>2, <3>3, <3>4, <3>5, <3>6 DEF KeptInv, WriteSteps
  <2> QED
    BY <1>18, <2>1, <2>2 DEF Open, Go, Exit
<1>19. CASE Chmod
  <2>1. /\ pc = "chmod" /\ w.path \in Paths /\ UNCHANGED <<w, past, args, gate, result, runs>>
    BY <1>19 DEF Chmod, TypeOK, WriteSteps, gateVars
  <2>2. CASE pc' = "idle" /\ UNCHANGED files
    BY <1>b, <1>q, <2>1, <2>2 DEF WriteSteps
  <2>3. CASE pc' = "write" /\ files' = [files EXCEPT ![w.path].mode = "0600"]
    <3>1. /\ files'[w.path] = [files[w.path] EXCEPT !.mode = "0600"]
          /\ \A p \in Paths \ {w.path} : files'[p] = files[p]
      BY <2>1, <2>3 DEF FileInv
    <3>2. files'[w.path].entry = files[w.path].entry
      BY <2>1, <3>1 DEF FileInv, Private, FileFields
    <3> QED
      BY <1>r, <2>1, <2>3, <3>1, <3>2 DEF KeptInv, WriteSteps
  <2> QED
    BY <1>19, <2>2, <2>3 DEF Chmod, Go, Exit
<1>20. CASE WriteAll
  <2>1. /\ pc = "write" /\ w.path \in Paths /\ UNCHANGED <<past, args, gate, result, runs>>
        /\ pc' \in {"sync", "idle"}
    BY <1>20 DEF WriteAll, Go, Exit, TypeOK, WriteSteps, gateVars
  <2>2. PICK c : PutContent(c) /\ (pc' = "sync" => c = Output(w.path))
    BY <1>20 DEF WriteAll, Go, Exit
  <2>3. CASE Exists(w.detached)
    <3>1. UNCHANGED files /\ w' = [w EXCEPT !.detached.content = c]
      BY <2>2, <2>3 DEF PutContent
    <3>2. w'.path = w.path /\ w'.detached = [w.detached EXCEPT !.content = c]
      BY <3>1 DEF TypeOK
    <3>3. Exists(w'.detached)
      BY <2>3, <3>2, Zenon DEF FileInv, FileFields, Exists
    <3> QED
      BY <1>r, <2>1, <2>3, <3>1, <3>2, <3>3 DEF KeptInv, WriteSteps
  <2>4. CASE ~Exists(w.detached)
    <3>1. files' = [files EXCEPT ![w.path].content = c] /\ UNCHANGED w
      BY <2>2, <2>4 DEF PutContent
    <3>2. /\ files'[w.path] = [files[w.path] EXCEPT !.content = c]
          /\ \A p \in Paths \ {w.path} : files'[p] = files[p]
      BY <2>1, <3>1 DEF FileInv
    <3>3. files'[w.path].entry = files[w.path].entry /\ files'[w.path].content = c
      BY <2>1, <3>2 DEF FileInv, Private, FileFields
    <3> QED
      BY <1>r, <2>1, <2>2, <3>1, <3>2, <3>3 DEF KeptInv, WriteSteps
  <2> QED
    BY <2>3, <2>4
<1>21. CASE SyncAll
  <2>1. /\ pc = "sync" /\ w.path \in Paths /\ UNCHANGED <<w, past, args, gate, result, runs>>
    BY <1>21 DEF SyncAll, TypeOK, WriteSteps, gateVars
  <2>2. CASE pc' = "idle" /\ UNCHANGED files
    BY <1>b, <1>q, <2>1, <2>2 DEF WriteSteps
  <2>3. CASE /\ pc' = AfterWrite[w.path]
             /\ files' = IF Exists(w.detached) THEN files
                         ELSE [files EXCEPT ![w.path].disk = files[w.path].content]
    <3>1. /\ pc' \in {"enforce", "proof", "return"}
          /\ \A p \in Paths : Done(p)' => p = w.path \/ Done(p)
      BY <2>1, <2>3 DEF AfterWrite, Done, Written, Late, RingSteps, TokenSteps,
         WriteSteps, Paths
    <3>2. \A p \in Paths : Output(p)' = Output(p) /\ (Undisturbed(p)' => Undisturbed(p))
      BY <2>1 DEF Output, Undisturbed
    <3>3. CASE Exists(w.detached)
      <4>1. ~Undisturbed(w.path)
        BY <2>1, <3>3 DEF KeptInv, Undisturbed, WriteSteps
      <4>2. \A p \in Paths : Done(p)' /\ Undisturbed(p)' => Holds(p, Output(p))'
        BY <2>3, <3>1, <3>2, <3>3, <4>1 DEF KeptInv, Holds
      <4>3. KeptAfterExit'
        BY <2>1, <2>3, <3>3 DEF KeptInv, KeptAfterExit
      <4> QED
        BY <2>1, <2>3, <3>1, <3>3, <4>2, <4>3, SMTT(30) DEF KeptInv, WriteSteps
    <3>4. CASE ~Exists(w.detached)
      <4>1. /\ files'[w.path] = [files[w.path] EXCEPT !.disk = files[w.path].content]
            /\ \A p \in Paths \ {w.path} : files'[p] = files[p]
        BY <2>1, <2>3, <3>4 DEF FileInv
      <4>2. /\ files'[w.path].entry = files[w.path].entry
            /\ files'[w.path].content = files[w.path].content
            /\ files'[w.path].disk = files[w.path].content
            /\ files'[w.path].mode = files[w.path].mode
        BY <2>1, <4>1 DEF FileInv, Private, FileFields
      <4>3. Holds(w.path, Output(w.path))'
        BY <2>1, <3>2, <3>4, <4>2, Zenon DEF KeptInv, FileInv, Holds
      <4>4. \A p \in Paths : Done(p)' /\ Undisturbed(p)' => Holds(p, Output(p))'
        <5> SUFFICES ASSUME NEW p \in Paths, Done(p)', Undisturbed(p)' PROVE Holds(p, Output(p))'
          OBVIOUS
        <5>1. CASE p = w.path
          BY <4>3, <5>1, <2>1, SMTT(30)
        <5>2. CASE p # w.path
          <6>1. Holds(p, Output(p)) /\ files'[p] = files[p] /\ Output(p)' = Output(p)
            BY <3>1, <3>2, <4>1, <5>2 DEF KeptInv
          <6> QED
            BY <6>1 DEF Holds
        <5> QED
          BY <5>1, <5>2
      <4>5. KeptAfterExit'
        BY <2>1, <4>1, SMTT(30) DEF KeptInv, KeptAfterExit
      <4> QED
        BY <2>1, <3>1, <4>1, <4>2, <4>4, <4>5, Zenon DEF KeptInv, WriteSteps
    <3> QED
      BY <3>3, <3>4
  <2> QED
    BY <1>21, <2>2, <2>3 DEF SyncAll, Go, Exit
<1>22. CASE RenewToken \/ Review \/ \E k \in Keys : RenewSignature(k)
  <2>1. /\ pc' = pc /\ pc \in TokenSteps \cup {"idle"}
        /\ UNCHANGED <<files, w, args, gate, result, runs>>
    BY <1>22 DEF RenewToken, Review, RenewSignature, TokenSteps, gateVars, bounds
  <2>2. past'.created = past.created /\ past'.kept = past.kept /\ past'.moved = past.moved
    BY <1>22, SMTT(30) DEF RenewToken, Review, RenewSignature, TypeOK, PastFields
  <2>3. \A p \in Paths : Done(p)' => Same(p)
    BY <2>1, <2>2, SMTT(30) DEF Done, Written, Late, Output, Undisturbed
  <2> QED
    BY <1>q, <2>1, <2>2, <2>3 DEF TokenSteps, WriteSteps
<1>25. CASE PowerLoss
  <2>1. pc' = "idle" /\ UNCHANGED past
    BY <1>25 DEF PowerLoss, Killed
  <2>2. \A p \in Paths : files'[p] \in AfterLoss(files[p])
    BY <1>25, SMTT(30) DEF PowerLoss
  <2>3. \A p \in Paths :
           /\ files'[p].entry
           /\ \/ /\ files'[p].mode = files[p].mode /\ files'[p].disk = files'[p].content
                 /\ files'[p].content \in {files[p].content, files[p].disk}
              \/ ~files[p].entry /\ ~Exists(files'[p])
    BY <2>2, PrivateLoss, SMTT(30) DEF FileInv
  <2>4. KeptAfterExit'
    BY <2>1, <2>3, ZenonT(30) DEF KeptInv, KeptAfterExit, Exists
  <2> QED
    BY <1>b, <2>1, <2>3, <2>4, Zenon DEF KeptInv, WriteSteps
<1>27. CASE \E p \in Paths : MoveFile(p)
  <2>1. PICK p \in Paths : MoveFile(p)
    BY <1>27
  <2>2. PICK f \in {Absent} \cup {File(m, Foreign, TRUE) : m \in {"0644", "0664"}} :
           files' = [files EXCEPT ![p] = f]
    BY <2>1, Zenon DEF MoveFile
  <2>3. f.entry
    BY PrivateNew, Zenon
  <2>4. \A q \in Paths : files'[q] = IF q = p THEN f ELSE files[q]
    BY <2>2 DEF FileInv
  <2>5. /\ pc' = pc /\ (pc = "idle" \/ (w.path = p /\ pc \in WriteSteps))
        /\ UNCHANGED <<args, gate, result, runs>>
    BY <2>1 DEF MoveFile, gateVars
  <2>6. /\ past'.moved = past.moved \cup {<<p, pc>>} /\ past'.created = past.created \ {p}
        /\ past'.kept = [past.kept EXCEPT ![p] = Foreign]
    BY <2>1 DEF MoveFile, TypeOK, PastFields
  <2>7. w'.path = w.path /\ (w.open /\ pc # "idle" => Exists(w'.detached))
    BY <2>1, SMTT(30) DEF MoveFile, TypeOK
  <2>8. /\ DOMAIN past'.kept = Paths
        /\ \A q \in Paths : past'.kept[q] = IF q = p THEN Foreign ELSE past.kept[q]
    BY <2>6, ZenonT(30) DEF KeptInv
  <2>9. \A q \in Paths : Output(q)' = Output(q) /\ (Undisturbed(q)' => Undisturbed(q) /\ q # p)
    <3>1. \A q \in Paths : Output(q)' = Output(q)
      BY <2>5 DEF Output
    <3>2. <<p, pc>> \in past'.moved /\ <<p, pc>>[1] = p /\ past.moved \subseteq past'.moved
      BY <2>6, SMTT(30)
    <3> QED
      BY <3>1, <3>2, SMTT(30) DEF Undisturbed
  <2>10. \A q \in Paths : Done(q)' => Done(q)
    BY <2>5, <2>7, SMTT(30) DEF Done, Written, Late
  <2>11. \A q \in Paths : Done(q)' /\ Undisturbed(q)' => Holds(q, Output(q))'
    BY <2>4, <2>9, <2>10, ZenonT(30) DEF KeptInv, Holds
  <2>12. KeptAfterExit'
    BY <1>f, <2>4, <2>6, <2>8, ZenonT(30) DEF KeptInv, KeptAfterExit
  <2>13. pc = "sync" => Exists(w'.detached)
    BY <2>7 DEF FileInv, WriteSteps
  <2>14. pc \in WriteSteps => \E m \in past'.moved : m[1] = w'.path
    <3>1. <<p, pc>> \in past'.moved /\ <<p, pc>>[1] = p
      BY <2>6, SMTT(30)
    <3> QED
      BY <2>5, <2>7, <3>1 DEF WriteSteps
  <2>15. pc \in {"chmod", "write", "sync"} => past'.kept[w'.path].run = 0
    BY <1>f, <2>5, <2>7, <2>8, SMTT(30)
  <2> QED
    BY <2>3, <2>4, <2>5, <2>6, <2>8, <2>11, <2>12, <2>13, <2>14, <2>15, Zenon DEF KeptInv
<1>28. CASE UNCHANGED vars
  <2>1. UNCHANGED <<pc, w, files, past, args, gate, result, runs>>
    BY <1>28, SMTT(30) DEF vars, gateVars, bounds
  <2>2. \A p \in Paths : Done(p)' => Same(p)
    BY <2>1, SMTT(30) DEF Done, Written, Late, Output, Undisturbed
  <2>3. KeptAfterExit'
    BY <2>1, ZenonT(30) DEF KeptInv, KeptAfterExit
  <2>4. \A p \in Paths : Done(p)' /\ Undisturbed(p)' => Holds(p, Output(p))'
    BY <2>1, <2>2, Zenon DEF KeptInv, Holds
  <2>5. Output(w.path)' = Output(w.path)
    BY <2>1 DEF Output
  <2> QED
    BY <2>1, <2>3, <2>4, <2>5, Zenon DEF KeptInv
<1> QED
  BY <1>1, <1>2, <1>5, <1>6, <1>7, <1>14, <1>16, <1>17, <1>18, <1>19, <1>20, <1>21, <1>22,
     <1>25,
     <1>27, <1>28 DEF Next, Process, World
=============================================================================
