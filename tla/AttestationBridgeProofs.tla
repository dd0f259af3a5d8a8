---------------------- MODULE AttestationBridgeProofs ----------------------
(***************************************************************************)
(* Proofs about AttestationBridge for any number of processes, any tokens  *)
(* and requests, and any set of faults.                                    *)
(***************************************************************************)
EXTENDS AttestationBridge, TLAPS

Critical == {"fstat", "pread", "ftruncate", "write", "fsync", "chmod"}

\* Whoever is past F_SETLKW holds the lock.
LockInv == \A p \in Procs : pc[p] \in Critical => lock = {p}

\* What process p knows, by how far it has come.
Knows(p) ==
    /\ pc[p] \in {"open", "lock", "fstat", "pread"} => last_counter[p] = NoCounter
    /\ pc[p] = "ftruncate" => last_counter[p] = file
    /\ pc[p] = "write" => /\ file = NoCounter
                          /\ disk <= last_counter[p]
                          /\ last_counter[p] < token_counter[p]
    /\ pc[p] \in {"fsync", "chmod"} =>
          /\ file = token_counter[p]
          /\ \A c \in Counters : Granted(c) => c < token_counter[p]
    /\ pc[p] = "chmod" => disk = file

\* While no counter has been lost, everything granted is on disk, at or below the
\* file, and the lock protects what its holder has read.
WholeInv ==
    /\ AtMostOnce
    /\ \A c \in Counters : Granted(c) => c <= disk
    /\ ~Truncated => disk <= file
    /\ \A p \in Procs : Knows(p)

\* The inductive strengthening of AtMostOnceWhenWhole.
IInv == TypeOK /\ LockInv /\ (~forgot => WholeInv)

-----------------------------------------------------------------------------
\* The counters of tokens are integers.
LEMMA TokenFacts ==
    /\ \A t \in Tokens : t.counter \in Counters
    /\ Counters # {} /\ Counters \subseteq Int
    /\ NoCounter \in Int
BY BridgeAssumption DEF Counters, NoCounter

\* What strtoll reads from the start of a line is an integer.
LEMMA PrefixFacts == ASSUME NEW c \in Int PROVE PrefixValues(c) \subseteq Int
BY TokenFacts DEF PrefixValues

\* The first states have their types.
LEMMA InitTypes == Init => TypeOK
<1> SUFFICES ASSUME Init PROVE TypeOK
  OBVIOUS
<1>1. (CHOOSE c \in Counters : TRUE) \in Counters
  BY TokenFacts
<1>2. name \in Names /\ file \in Int /\ secure \in BOOLEAN
  BY TokenFacts, Zenon DEF Init, Names
<1>3. grants \in [Counters -> Nat] /\ calls \in [Procs -> 0..MaxCalls] /\ now \in 0..MaxTime
  BY BridgeAssumption DEF Init
<1> QED
  BY <1>1, <1>2, <1>3, TokenFacts, Zenon DEF Init, TypeOK, PcStates

\* Every step keeps the types.
LEMMA TypeStep == TypeOK /\ [Next]_vars => TypeOK'
<1> SUFFICES ASSUME TypeOK, [Next]_vars
             PROVE  TypeOK'
  OBVIOUS
<1> USE TokenFacts DEF TypeOK, PcStates, Return, Goto, Forgets
<1>1. CASE \E p \in Procs, t \in Tokens, r \in Requests : Call(p, t, r)
  BY <1>1, BridgeAssumption DEF Call, fileVars
<1>2. CASE \E p \in Procs : Step(p)
  <2> SUFFICES ASSUME NEW p \in Procs, Step(p)
               PROVE  TypeOK'
    BY <1>2
  <2>1. CASE OpenState(p)
    BY <2>1 DEF OpenState, Names
  <2>2. CASE LockState(p)
    BY <2>2 DEF LockState
  <2>3. CASE StatState(p)
    BY <2>3 DEF StatState
  <2>4. CASE RejectInsecure(p) \/ RejectReplay(p)
    BY <2>4 DEF RejectInsecure, RejectReplay
  <2>5. CASE ReadCounter(p)
    BY <2>5, Zenon DEF ReadCounter
  <2>6. CASE TruncateState(p)
    BY <2>6 DEF TruncateState
  <2>7. CASE WriteCounter(p)
    BY <2>7 DEF WriteCounter
  <2>8. CASE SyncState(p)
    BY <2>8 DEF SyncState
  <2>9. CASE GrantToken(p)
    <3>1. /\ pc' = [pc EXCEPT ![p] = "idle"] /\ lock' = lock \ {p}
          /\ grants' = [grants EXCEPT ![token_counter[p]] = @ + 1]
          /\ UNCHANGED <<token_counter, last_counter, calls, secure, name, file, disk, now, forgot>>
      BY <2>9, Zenon DEF GrantToken
    <3>2. grants \in [Counters -> Nat] /\ token_counter[p] \in Counters
      OBVIOUS
    <3>3. grants' \in [Counters -> Nat]
      BY ONLY <3>1, <3>2
    <3> QED
      BY <3>1, <3>3
  <2> QED
    BY <2>1, <2>2, <2>3, <2>4, <2>5, <2>6, <2>7, <2>8, <2>9 DEF Step
<1>3. CASE \E p \in Procs : FailedStep(p)
  <2> SUFFICES ASSUME NEW p \in Procs, FailedStep(p)
               PROVE  TypeOK'
    BY <1>3
  <2>1. PrefixValues(token_counter[p]) \subseteq Int
    BY PrefixFacts, Zenon
  <2>2. CASE FailWrite(p)
    BY <2>1, <2>2 DEF FailWrite
  <2>3. CASE FailTruncate(p) \/ \E call \in PcStates : Fail(p, call)
    BY <2>3 DEF FailTruncate, Fail
  <2> QED
    BY <2>2, <2>3 DEF FailedStep
<1>4. CASE \E p \in Procs : Kill(p)
  BY <1>4 DEF Kill
<1>5. CASE PowerLoss
  BY <1>5, Zenon DEF PowerLoss, Names
<1>6. CASE Writeback
  BY <1>6 DEF Writeback, procVars
<1>7. CASE WritebackName
  BY <1>7 DEF WritebackName, procVars, Names
<1>8. CASE Tick
  BY <1>8, BridgeAssumption DEF Tick, procVars, fileVars
<1>9. CASE UNCHANGED vars
  BY <1>9 DEF vars, procVars, fileVars
<1> QED
  BY <1>1, <1>2, <1>3, <1>4, <1>5, <1>6, <1>7, <1>8, <1>9 DEF Next, Terminated

\* The variables keep their types, whatever faults the environment injects.
THEOREM TypeCorrect == Spec => []TypeOK
BY InitTypes, TypeStep, PTL DEF Spec

-----------------------------------------------------------------------------
\* Before the first call of skv_validate_attestation_token the invariant holds.
LEMMA InitIInv == Init => IInv
<1> SUFFICES ASSUME Init
             PROVE  IInv
  OBVIOUS
<1>1. TypeOK
  BY InitTypes
<1>2. ~Truncated /\ (\A c \in Counters : ~Granted(c)) /\ AtMostOnce /\ disk <= file
  BY <1>1 DEF Init, Truncated, Granted, AtMostOnce, TypeOK
<1>3. LockInv /\ \A p \in Procs : Knows(p)
  BY DEF Init, LockInv, Knows, Critical
<1> QED
  BY <1>1, <1>2, <1>3 DEF IInv, WholeInv

\* The lock excludes: while p is past it, nobody else is.
LEMMA Alone ==
    ASSUME LockInv, NEW p \in Procs, pc[p] \in Critical, NEW q \in Procs, q # p
    PROVE  pc[q] \notin Critical
BY DEF LockInv

\* Every step keeps the lock with whoever is past F_SETLKW.
LEMMA LockStep == TypeOK /\ LockInv /\ [Next]_vars => LockInv'
<1> SUFFICES ASSUME TypeOK, LockInv, [Next]_vars
             PROVE  LockInv'
  OBVIOUS
<1>1. ASSUME NEW p \in Procs, Return(p)
      PROVE  LockInv'
  BY <1>1 DEF Return, LockInv, TypeOK, Critical
<1>2. ASSUME NEW p \in Procs, pc[p] \in Critical, NEW to \in PcStates,
             pc' = [pc EXCEPT ![p] = to], lock' = lock
      PROVE  LockInv'
  BY <1>2 DEF LockInv, TypeOK
<1>3. ASSUME NEW p \in Procs, NEW to \in {"idle", "open", "lock"},
             pc' = [pc EXCEPT ![p] = to], lock' = lock
      PROVE  LockInv'
  BY <1>3 DEF LockInv, TypeOK, Critical
<1>4. ASSUME NEW p \in Procs, NEW t \in Tokens, NEW r \in Requests, Call(p, t, r)
      PROVE  LockInv'
  <2>1. lock' = lock /\ (pc' = pc \/ pc' = [pc EXCEPT ![p] = "open"])
    BY <1>4 DEF Call, fileVars
  <2> QED
    BY <1>3, <2>1 DEF LockInv
<1>5. ASSUME NEW p \in Procs, Step(p)
      PROVE  LockInv'
  <2>1. CASE OpenState(p)
    BY <2>1, <1>3, Zenon DEF OpenState, Goto
  <2>2. CASE LockState(p)
    BY <2>2 DEF LockState, Goto, LockInv, TypeOK, Critical
  <2>3. CASE StatState(p) \/ ReadCounter(p) \/ TruncateState(p) \/ WriteCounter(p) \/ SyncState(p)
    BY <2>3, <1>2 DEF StatState, ReadCounter, TruncateState, WriteCounter, SyncState, Goto, Critical,
                     PcStates
  <2>4. CASE RejectInsecure(p) \/ RejectReplay(p) \/ GrantToken(p)
    BY <2>4, <1>1 DEF RejectInsecure, RejectReplay, GrantToken
  <2> QED
    BY <1>5, <2>1, <2>2, <2>3, <2>4 DEF Step
<1>6. ASSUME NEW p \in Procs, FailedStep(p) \/ Kill(p)
      PROVE  LockInv'
  BY <1>6, <1>1 DEF FailedStep, Fail, FailTruncate, FailWrite, Kill
<1>7. CASE PowerLoss
  BY <1>7 DEF PowerLoss, LockInv, Critical
<1>8. CASE Writeback \/ WritebackName \/ Tick \/ UNCHANGED vars
  BY <1>8 DEF Writeback, WritebackName, Tick, vars, procVars, fileVars, LockInv
<1> QED
  BY <1>4, <1>5, <1>6, <1>7, <1>8 DEF Next, Terminated

\* A process that has not reached the lock knows nothing, so a return keeps WholeInv
\* when it changes neither the file nor the disk.
LEMMA ReturnKeeps ==
    ASSUME TypeOK, WholeInv, NEW p \in Procs, Return(p), pc[p] = "write" => disk <= file,
           LockInv, UNCHANGED <<token_counter, last_counter, file, disk, grants>>
    PROVE  WholeInv'
<1>1. \A q \in Procs : pc'[q] = pc[q] \/ pc'[q] = "idle"
  BY DEF TypeOK, Return
<1>2. \A q \in Procs : Knows(q)'
  BY <1>1 DEF WholeInv, Knows, Granted
<1>3. ~Truncated' => disk' <= file'
  <2>1. CASE pc[p] = "write"
    BY <2>1
  <2>2. CASE pc[p] # "write"
    <3>1. Truncated => Truncated'
      BY <2>2 DEF Truncated, Return, TypeOK
    <3> QED
      BY <3>1 DEF WholeInv
  <2> QED
    BY <2>1, <2>2
<1> QED
  BY <1>2, <1>3 DEF WholeInv, AtMostOnce, Granted

\* A step of a process that leaves file, disk and grants alone, and does not leave or
\* enter the truncated state, keeps WholeInv if it leaves the process with what it
\* must know.
LEMMA LocalKeeps ==
    ASSUME WholeInv, NEW p \in Procs, Knows(p)',
           UNCHANGED <<file, disk, grants>>,
           \A q \in Procs \ {p} : pc'[q] = pc[q] /\ token_counter'[q] = token_counter[q]
                                  /\ last_counter'[q] = last_counter[q],
           pc[p] # "write", pc'[p] # "write"
    PROVE  WholeInv'
<1>1. Truncated' <=> Truncated
  BY DEF Truncated
<1>2. \A q \in Procs \ {p} : Knows(q)'
  BY DEF WholeInv, Knows, Granted
<1> QED
  BY <1>1, <1>2 DEF WholeInv, AtMostOnce, Granted

\* Every system call of a validator and every fault keeps WholeInv, or has lost a
\* counter.
LEMMA WholeStep ==
    ASSUME IInv, TypeOK', [Next]_vars, ~forgot, ~forgot'
    PROVE  WholeInv'
<1> TypeOK /\ LockInv /\ WholeInv
  BY DEF IInv
<1>1. ASSUME NEW p \in Procs, NEW t \in Tokens, NEW r \in Requests, Call(p, t, r)
      PROVE  WholeInv'
  <2>1. /\ pc[p] = "idle" /\ pc'[p] \in {"idle", "open"}
        /\ pc'[p] = "open" => last_counter'[p] = NoCounter
        /\ \A q \in Procs \ {p} : pc'[q] = pc[q] /\ token_counter'[q] = token_counter[q]
                                  /\ last_counter'[q] = last_counter[q]
        /\ UNCHANGED <<file, disk, grants>>
    BY <1>1 DEF Call, TypeOK, fileVars
  <2>2. Knows(p)'
    BY <2>1 DEF Knows
  <2> QED
    BY <2>1, <2>2, LocalKeeps
<1>2. ASSUME NEW p \in Procs, Step(p)
      PROVE  WholeInv'
  <2>1. CASE OpenState(p) \/ LockState(p) \/ StatState(p)
    <3>1. /\ pc[p] \in {"open", "lock", "fstat"} /\ pc'[p] \in {"lock", "fstat", "pread"}
          /\ \A q \in Procs \ {p} : pc'[q] = pc[q]
          /\ UNCHANGED <<token_counter, last_counter, file, disk, grants>>
      BY <2>1 DEF OpenState, LockState, StatState, Goto, TypeOK
    <3>2. Knows(p)'
      BY <3>1 DEF WholeInv, Knows
    <3> QED
      BY <3>1, <3>2, LocalKeeps
  <2>2. CASE RejectInsecure(p) \/ RejectReplay(p)
    BY <2>2, ReturnKeeps DEF RejectInsecure, RejectReplay
  <2>3. CASE ReadCounter(p)
    <3>1. /\ pc[p] = "pread" /\ pc' = [pc EXCEPT ![p] = "ftruncate"]
          /\ UNCHANGED <<token_counter, file, disk, grants>>
          /\ \/ last_counter' = [last_counter EXCEPT ![p] = file]
             \/ file = NoCounter /\ last_counter' = last_counter
      BY <2>3, Zenon DEF ReadCounter, Goto, Forgets
    <3>2. last_counter[p] = NoCounter
      BY <3>1 DEF WholeInv, Knows
    <3>3. last_counter'[p] = file /\ \A q \in Procs \ {p} : last_counter'[q] = last_counter[q]
      BY <3>1, <3>2 DEF TypeOK
    <3>4. pc'[p] = "ftruncate" /\ \A q \in Procs \ {p} : pc'[q] = pc[q]
      BY <3>1 DEF TypeOK
    <3>5. Knows(p)'
      BY <3>1, <3>3, <3>4 DEF Knows
    <3> QED
      BY <3>1, <3>3, <3>4, <3>5, LocalKeeps
  <2>4. CASE TruncateState(p)
    <3>1. /\ pc[p] = "ftruncate" /\ pc' = [pc EXCEPT ![p] = "write"] /\ file' = NoCounter
          /\ token_counter[p] > last_counter[p]
          /\ UNCHANGED <<token_counter, last_counter, lock, disk, grants>>
      BY <2>4 DEF TruncateState, Goto
    <3>2. \A q \in Procs \ {p} : pc'[q] = pc[q] /\ pc[q] \notin Critical
      BY <3>1, Alone DEF TypeOK, Critical
    <3>3. ~Truncated /\ Truncated'
      BY <3>1, <3>2 DEF TypeOK, Truncated, Critical
    <3>4. disk <= last_counter[p] /\ last_counter[p] < token_counter[p]
      BY <3>1, <3>3, TokenFacts DEF WholeInv, TypeOK, Knows
    <3>5. Knows(p)'
      BY <3>1, <3>4 DEF TypeOK, Knows
    <3>6. \A q \in Procs \ {p} : Knows(q)'
      BY <3>1, <3>2 DEF WholeInv, Knows, Critical
    <3> QED
      BY <3>1, <3>3, <3>5, <3>6 DEF WholeInv, AtMostOnce, Granted
  <2>5. CASE WriteCounter(p)
    <3>1. /\ pc[p] = "write" /\ pc' = [pc EXCEPT ![p] = "fsync"]
          /\ file' = token_counter[p]
          /\ UNCHANGED <<token_counter, last_counter, lock, disk, grants>>
      BY <2>5 DEF WriteCounter, Goto
    <3>2. \A q \in Procs \ {p} : pc'[q] = pc[q] /\ pc[q] \notin Critical
      BY <3>1, Alone DEF TypeOK, Critical
    <3>3. disk <= last_counter[p] /\ last_counter[p] < token_counter[p]
      BY <3>1 DEF WholeInv, Knows
    <3>4. /\ token_counter[p] \in Int /\ last_counter[p] \in Int /\ disk \in Int
          /\ Counters \subseteq Int
      BY TokenFacts, Zenon DEF TypeOK
    <3>5. \A c \in Counters : Granted(c) => c < token_counter[p]
      <4>1. \A c \in Counters : Granted(c) => c <= disk
        BY DEF WholeInv
      <4> QED
        BY ONLY <3>3, <3>4, <4>1
    <3>6. Knows(p)'
      BY <3>1, <3>5 DEF TypeOK, Knows, Granted
    <3>7. \A q \in Procs \ {p} : Knows(q)'
      BY <3>1, <3>2 DEF WholeInv, Knows, Critical
    <3>8. disk' <= file'
      BY ONLY <3>1, <3>3, <3>4
    <3> QED
      BY <3>1, <3>6, <3>7, <3>8 DEF WholeInv, AtMostOnce, Granted
  <2>6. CASE SyncState(p)
    <3>1. /\ pc[p] = "fsync" /\ pc' = [pc EXCEPT ![p] = "chmod"] /\ disk' = file
          /\ UNCHANGED <<token_counter, last_counter, lock, file, grants>>
      BY <2>6 DEF SyncState, Goto
    <3>2. \A q \in Procs \ {p} : pc'[q] = pc[q] /\ pc[q] \notin Critical
      BY <3>1, Alone DEF TypeOK, Critical
    <3>3. /\ file = token_counter[p] /\ file \in Int /\ Counters \subseteq Int
          /\ \A c \in Counters : Granted(c) => c < token_counter[p]
      BY <3>1, TokenFacts DEF WholeInv, TypeOK, Knows
    <3>4. Knows(p)'
      BY <3>1, <3>3 DEF TypeOK, Knows, Granted
    <3>5. \A q \in Procs \ {p} : Knows(q)'
      BY <3>1, <3>2 DEF WholeInv, Knows, Critical
    <3>6. \A c \in Counters : Granted(c)' => c <= disk'
      BY <3>1, <3>3 DEF Granted
    <3>7. disk' <= file'
      BY <3>1, <3>3
    <3> QED
      BY <3>1, <3>4, <3>5, <3>6, <3>7 DEF WholeInv, AtMostOnce
  <2>7. CASE GrantToken(p)
    <3> DEFINE g == token_counter[p]
    <3>1. /\ pc[p] = "chmod" /\ pc' = [pc EXCEPT ![p] = "idle"]
          /\ grants' = [grants EXCEPT ![g] = @ + 1]
          /\ UNCHANGED <<token_counter, last_counter, file, disk>>
      BY <2>7 DEF GrantToken, Return
    <3>2. \A q \in Procs \ {p} : pc'[q] = pc[q] /\ pc[q] \notin Critical
      BY <3>1, Alone DEF TypeOK, Critical
    <3>3. /\ g \in Counters /\ g \in Int /\ g = disk
          /\ \A c \in Counters : Granted(c) => c < g
      BY <3>1, TokenFacts DEF WholeInv, TypeOK, Knows
    <3>4. grants \in [Counters -> Nat]
      BY DEF TypeOK
    <3>5. grants[g] = 0
      BY <3>3, <3>4 DEF Granted
    <3>6. AtMostOnce'
      BY <3>1, <3>3, <3>4, <3>5 DEF WholeInv, AtMostOnce
    <3>7. \A c \in Counters : Granted(c)' => c <= disk'
      <4>1. \A c \in Counters : Granted(c)' => Granted(c) \/ c = g
        BY <3>1, <3>4 DEF Granted
      <4> QED
        BY <3>1, <3>3, <4>1 DEF WholeInv
    <3>8. \A q \in Procs : Knows(q)'
      BY <3>1, <3>2 DEF WholeInv, TypeOK, Knows, Critical
    <3>9. ~Truncated' => disk' <= file'
      BY <3>1, <3>2 DEF WholeInv, TypeOK, Truncated, Critical
    <3> QED
      BY <3>6, <3>7, <3>8, <3>9 DEF WholeInv
  <2> QED
    BY <1>2, <2>1, <2>2, <2>3, <2>4, <2>5, <2>6, <2>7 DEF Step
<1>3. ASSUME NEW p \in Procs, FailedStep(p)
      PROVE  WholeInv'
  <2>1. CASE FailTruncate(p) \/ \E call \in {"open", "lock", "fstat", "fsync", "chmod"} : Fail(p, call)
    BY <2>1, ReturnKeeps DEF FailTruncate, Fail
  <2>2. CASE FailWrite(p)
    <3>1. /\ pc[p] = "write" /\ pc' = [pc EXCEPT ![p] = "idle"] /\ ~(file' < last_counter[p])
          /\ UNCHANGED <<token_counter, last_counter, disk, grants>>
      BY <2>2, Zenon DEF FailWrite, Return, Forgets
    <3>2. \A q \in Procs \ {p} : pc'[q] = pc[q] /\ pc[q] \notin Critical
      BY <3>1, Alone DEF TypeOK, Critical
    <3>3. disk <= last_counter[p]
      BY <3>1 DEF WholeInv, Knows
    <3>4. disk' <= file'
      BY <3>1, <3>3 DEF TypeOK
    <3>5. \A q \in Procs : Knows(q)'
      BY <3>1, <3>2 DEF WholeInv, TypeOK, Knows, Critical
    <3> QED
      BY <3>1, <3>4, <3>5 DEF WholeInv, AtMostOnce, Granted
  <2> QED
    BY <1>3, <2>1, <2>2 DEF FailedStep
<1>4. ASSUME NEW p \in Procs, Kill(p)
      PROVE  WholeInv'
  <2>1. /\ Return(p) /\ UNCHANGED <<token_counter, last_counter, file, disk, grants>>
        /\ pc[p] = "write" => last_counter[p] = NoCounter
    BY <1>4, Zenon DEF Kill, Forgets
  <2>2. pc[p] = "write" => disk <= file
    BY <2>1 DEF WholeInv, Knows
  <2> QED
    BY <2>1, <2>2, ReturnKeeps
<1>5. CASE PowerLoss
  <2>1. /\ \A p \in Procs : pc'[p] = "idle"
        /\ file' = disk /\ disk' = disk /\ grants' = grants
    BY <1>5, Zenon DEF PowerLoss, Forgets
  <2>2. \A p \in Procs : Knows(p)'
    BY <2>1 DEF Knows
  <2>3. disk' <= file'
    BY <2>1 DEF TypeOK
  <2> QED
    BY <2>1, <2>2, <2>3 DEF WholeInv, AtMostOnce, Granted
<1>6. CASE Writeback
  <2>1. /\ disk # file /\ disk' = file /\ (Truncated => disk = NoCounter)
        /\ UNCHANGED <<pc, token_counter, last_counter, file, grants>>
    BY <1>6, Zenon DEF Writeback, Forgets, procVars
  <2>2. Truncated => file = NoCounter
    BY DEF WholeInv, Truncated, Knows
  <2>3. ~Truncated /\ ~Truncated' /\ disk <= file
    BY <2>1, <2>2 DEF WholeInv, Truncated
  <2>4. \A c \in Counters : Granted(c)' => c <= disk'
    BY <2>1, <2>3, TokenFacts DEF WholeInv, Granted, TypeOK
  <2>5. \A p \in Procs : Knows(p)'
    BY <2>1, <2>3 DEF WholeInv, Knows, Granted, Truncated
  <2>6. disk' <= file'
    BY <2>1 DEF TypeOK
  <2> QED
    BY <2>1, <2>4, <2>5, <2>6 DEF WholeInv, AtMostOnce
<1>7. CASE WritebackName \/ Tick \/ UNCHANGED vars
  <2>1. UNCHANGED <<pc, token_counter, last_counter, file, disk, grants>>
    BY <1>7 DEF WritebackName, Tick, vars, procVars, fileVars
  <2> QED
    BY <2>1 DEF WholeInv, Knows, Truncated, AtMostOnce, Granted
<1> QED
  BY <1>1, <1>2, <1>3, <1>4, <1>5, <1>6, <1>7 DEF Next, Terminated

\* A counter that is lost stays lost.
LEMMA ForgotStays == ASSUME [Next]_vars, forgot PROVE forgot'
BY Zenon DEF Next, vars, Call, Step, OpenState, LockState, StatState, RejectInsecure, ReadCounter,
       RejectReplay, TruncateState, WriteCounter, SyncState, GrantToken, FailedStep, Fail,
       FailTruncate, FailWrite, Kill, PowerLoss, Writeback, WritebackName, Tick, Terminated, Forgets

\* Every step keeps the inductive invariant.
LEMMA NextIInv == IInv /\ [Next]_vars => IInv'
<1> SUFFICES ASSUME IInv, [Next]_vars
             PROVE  IInv'
  OBVIOUS
<1>1. TypeOK' /\ LockInv'
  BY TypeStep, LockStep DEF IInv
<1>2. ASSUME ~forgot' PROVE WholeInv'
  BY <1>1, <1>2, WholeStep, ForgotStays
<1> QED
  BY <1>1, <1>2 DEF IInv

-----------------------------------------------------------------------------
\* IInv holds throughout, whatever fails.
THEOREM Inductive == Spec => []IInv
BY InitIInv, NextIInv, PTL DEF Spec

\* Replay protection for any number of processes, tokens, faults and restarts: until
\* a counter is lost, the validator answers 1 at most once per counter.
THEOREM ReplayProtection == Spec => []AtMostOnceWhenWhole
<1>1. IInv => AtMostOnceWhenWhole
  BY DEF IInv, WholeInv, AtMostOnceWhenWhole
<1> QED
  BY <1>1, Inductive, PTL

\* Until a counter is lost, what was granted stays at or below the counter on disk.
THEOREM Durability == Spec => []GrantDurable
<1>1. IInv => GrantDurable
  BY DEF IInv, WholeInv, GrantDurable
<1> QED
  BY <1>1, Inductive, PTL

\* The counter line 256 compares with is never stale.
THEOREM NoStaleCompare == Spec => []ComparesCurrent
<1>1. IInv => ComparesCurrent
  BY Zenon DEF IInv, WholeInv, Knows, ComparesCurrent
<1> QED
  BY <1>1, Inductive, PTL

\* Only GrantToken changes grants, for the counter of the token it holds.
LEMMA GrantStep ==
    ASSUME TypeOK, [Next]_vars, grants' # grants
    PROVE  \E p \in Procs : GrantToken(p)
BY DEF Next, vars, Call, Step, OpenState, LockState, StatState, RejectInsecure, ReadCounter,
       RejectReplay, TruncateState, WriteCounter, SyncState, FailedStep, Fail, FailTruncate,
       FailWrite, Kill, PowerLoss, Writeback, WritebackName, Tick, Terminated

\* Until a counter is lost, counters are granted in strictly increasing order.
THEOREM Monotonic == Spec => GrantsIncrease
<1> DEFINE Increases ==
      ~forgot => \A c \in Counters :
         grants'[c] > grants[c] => \A d \in Counters : Granted(d) => d < c
<1>1. IInv /\ [Next]_vars => [Increases]_vars
  <2> SUFFICES ASSUME IInv, [Next]_vars, ~forgot, NEW c \in Counters, grants'[c] > grants[c],
                      NEW d \in Counters, Granted(d)
               PROVE  d < c
    BY DEF vars
  <2>1. grants \in [Counters -> Nat]
    BY DEF IInv, TypeOK
  <2>2. grants' # grants
    BY <2>1
  <2>3. PICK p \in Procs : GrantToken(p)
    BY <2>2, GrantStep DEF IInv
  <2>4. pc[p] = "chmod" /\ grants' = [grants EXCEPT ![token_counter[p]] = @ + 1]
    BY <2>3 DEF GrantToken
  <2>5. c = token_counter[p]
    BY <2>1, <2>4
  <2> QED
    BY <2>4, <2>5 DEF IInv, WholeInv, Knows
<1> QED
  BY <1>1, Inductive, PTL DEF Spec, GrantsIncrease

-----------------------------------------------------------------------------
(* The bridge implements ReplayGuard. *)

Pending == {token_counter[p] : p \in Holders}

\* At most the lock holder is pending.
LEMMA OnePending ==
    ASSUME LockInv, NEW p \in Procs, pc[p] \in Critical
    PROVE  Pending = IF p \in Holders THEN {token_counter[p]} ELSE {}
<1>1. \A q \in Holders : q = p
  BY Alone DEF Holders, Critical
<1> QED
  BY <1>1 DEF Pending, Holders

\* A step in which a process returns without a grant drops what it held.
LEMMA ReturnDrops ==
    ASSUME TypeOK, LockInv, NEW p \in Procs, Return(p), UNCHANGED <<token_counter, disk, grants>>
    PROVE  \/ Pending' = Pending
           \/ \E c \in Counters : c \in Pending /\ Pending' = Pending \ {c}
<1>1. Holders' = Holders \ {p}
  BY DEF Holders, Return, TypeOK
<1>2. CASE p \notin Holders
  BY <1>1, <1>2 DEF Pending
<1>3. CASE p \in Holders
  <2>1. pc[p] \in Critical /\ token_counter[p] \in Counters
    BY <1>3, TokenFacts DEF Holders, Critical, TypeOK
  <2>2. \A q \in Holders : q = p
    BY <2>1, Alone DEF Holders, Critical
  <2>3. Pending = {token_counter[p]} /\ Pending' = {}
    BY <1>1, <1>3, <2>2 DEF Pending
  <2> QED
    BY <2>1, <2>3
<1> QED
  BY <1>2, <1>3

\* Disk, pending tokens and grants are the last, pending and grants of ReplayGuard:
\* a step that loses no counter takes, passes over, grants or drops one, or is no step
\* of the guard.
LEMMA StepRefines ==
    ASSUME IInv, IInv', [Next]_vars, ~forgot, ~forgot'
    PROVE  \/ UNCHANGED <<disk, Pending, grants>>
           \/ \E c \in Counters :
                \/ c > disk /\ disk' = c /\ Pending' = Pending \cup {c} /\ UNCHANGED grants
                \/ c \in Pending /\ Pending' = Pending \ {c} /\ UNCHANGED disk
                   /\ grants' = [grants EXCEPT ![c] = @ + 1]
                \/ c \in Pending /\ Pending' = Pending \ {c} /\ UNCHANGED <<disk, grants>>
           \/ disk' > disk /\ UNCHANGED <<Pending, grants>>
<1> TypeOK /\ LockInv /\ WholeInv
  BY DEF IInv
<1> USE DEF TypeOK
<1>1. CASE \E p \in Procs, t \in Tokens, r \in Requests : Call(p, t, r)
  <2> SUFFICES ASSUME NEW p \in Procs, NEW t \in Tokens, NEW r \in Requests, Call(p, t, r)
               PROVE  UNCHANGED <<disk, Pending, grants>>
    BY <1>1
  <2>1. Holders' = Holders /\ p \notin Holders /\ UNCHANGED <<disk, grants>>
    BY DEF Call, Holders, fileVars
  <2>2. \A q \in Holders : token_counter'[q] = token_counter[q]
    BY <2>1 DEF Call, Holders
  <2> QED
    BY <2>1, <2>2 DEF Pending
<1>2. CASE \E p \in Procs : Step(p)
  <2> PICK p \in Procs : Step(p)
    BY <1>2
  <2>1. CASE OpenState(p) \/ LockState(p) \/ StatState(p) \/ ReadCounter(p) \/ TruncateState(p)
    <3>1. Holders' = Holders /\ UNCHANGED <<disk, token_counter, grants>>
      BY <2>1 DEF OpenState, LockState, StatState, ReadCounter, TruncateState, Goto, Holders
    <3> QED
      BY <3>1 DEF Pending
  <2>2. CASE RejectInsecure(p) \/ RejectReplay(p)
    BY <2>2, ReturnDrops DEF RejectInsecure, RejectReplay
  <2>3. CASE WriteCounter(p)
    <3>1. disk # token_counter[p]
      <4>1. disk <= last_counter[p] /\ last_counter[p] < token_counter[p]
        BY <2>3 DEF WriteCounter, Goto, WholeInv, Knows
      <4> QED
        BY <4>1, TokenFacts
    <3>2. Holders' = Holders /\ UNCHANGED <<disk, token_counter, grants>>
      BY <2>3, <3>1 DEF WriteCounter, Goto, Holders
    <3> QED
      BY <3>2 DEF Pending
  <2>4. CASE SyncState(p)
    <3> DEFINE c == token_counter[p]
    <3>1. /\ pc[p] = "fsync" /\ pc'[p] = "chmod" /\ file = c /\ disk' = c
          /\ c \in Counters /\ c \in Int /\ disk \in Int
          /\ UNCHANGED <<token_counter, grants>>
      BY <2>4, TokenFacts DEF SyncState, Goto, WholeInv, Knows
    <3>2. disk <= file
      BY <3>1, Alone DEF WholeInv, Truncated, Critical
    <3>3. Pending = IF disk = c THEN {c} ELSE {}
      BY <3>1, OnePending DEF Holders, Critical
    <3>4. p \in Holders' /\ (\A q \in Holders' : q = p)
      BY <2>4, <3>1, Alone DEF SyncState, Goto, Holders, Critical
    <3>5. Pending' = {c}
      BY <3>1, <3>4 DEF Pending
    <3> QED
      BY <3>1, <3>2, <3>3, <3>5
  <2>5. CASE GrantToken(p)
    <3> DEFINE c == token_counter[p]
    <3>1. /\ pc[p] = "chmod" /\ pc' = [pc EXCEPT ![p] = "idle"] /\ c \in Counters
          /\ grants' = [grants EXCEPT ![c] = @ + 1] /\ UNCHANGED <<token_counter, disk>>
      BY <2>5, TokenFacts DEF GrantToken, Return
    <3>2. \A q \in Holders : q = p
      BY <3>1, Alone DEF Holders, Critical
    <3>3. p \in Holders /\ Holders' = {}
      BY <3>1, <3>2 DEF Holders
    <3>4. Pending = {c} /\ Pending' = {}
      BY <3>2, <3>3 DEF Pending
    <3> QED
      BY <3>1, <3>4, Zenon
  <2> QED
    BY <2>1, <2>2, <2>3, <2>4, <2>5 DEF Step
<1>3. CASE \E p \in Procs : FailedStep(p) \/ Kill(p)
  <2>1. PICK p \in Procs : FailedStep(p) \/ Kill(p)
    BY <1>3
  <2>2. Return(p) /\ UNCHANGED <<token_counter, disk, grants>>
    BY <2>1 DEF FailedStep, Fail, FailTruncate, FailWrite, Kill
  <2> QED
    BY <2>2, ReturnDrops
<1>4. CASE PowerLoss
  <2>1. Holders' = {} /\ UNCHANGED <<disk, grants>>
    BY <1>4, Zenon DEF PowerLoss, Forgets, Holders
  <2>2. Pending' = {}
    BY <2>1 DEF Pending
  <2>3. CASE Holders = {}
    BY <2>1, <2>2, <2>3 DEF Pending
  <2>4. CASE Holders # {}
    <3>1. PICK p \in Procs : p \in Holders
      BY <2>4 DEF Holders
    <3>2. pc[p] \in Critical /\ token_counter[p] \in Counters
      BY <3>1, TokenFacts DEF Holders, Critical
    <3>3. Pending = {token_counter[p]}
      BY <3>1, <3>2, OnePending
    <3> QED
      BY <2>1, <2>2, <3>2, <3>3
  <2> QED
    BY <2>3, <2>4
<1>5. CASE Writeback
  <2>1. /\ disk # file /\ disk' = file /\ (Truncated => disk = NoCounter)
        /\ UNCHANGED <<pc, token_counter, grants>>
    BY <1>5, Zenon DEF Writeback, Forgets, procVars
  <2>2. Truncated => file = NoCounter
    BY DEF WholeInv, Truncated, Knows
  <2>3. file > disk
    BY <2>1, <2>2 DEF WholeInv
  <2>4. CASE \E p \in Procs : pc[p] = "fsync"
    <3>1. PICK p \in Procs : pc[p] = "fsync"
      BY <2>4
    <3>2. file = token_counter[p] /\ file \in Counters
      BY <3>1, TokenFacts DEF WholeInv, Knows
    <3>3. Pending = {}
      BY <3>1, <3>2, <2>1, OnePending DEF Holders, Critical
    <3>4. p \in Holders' /\ (\A q \in Holders' : q = p)
      BY <3>1, <3>2, <2>1, Alone DEF Holders, Critical
    <3>5. Pending' = {file}
      BY <3>2, <3>4, <2>1 DEF Pending
    <3> QED
      BY <2>1, <2>3, <3>2, <3>3, <3>5
  <2>5. CASE \A p \in Procs : pc[p] # "fsync"
    <3>1. Holders = {} /\ Holders' = {}
      BY <2>1, <2>5 DEF Holders, WholeInv, Knows
    <3>2. Pending = {} /\ Pending' = {}
      BY <3>1 DEF Pending
    <3> QED
      BY <2>1, <2>3, <3>2
  <2> QED
    BY <2>4, <2>5
<1>6. CASE WritebackName \/ Tick \/ UNCHANGED vars
  BY <1>6, Zenon DEF WritebackName, Tick, vars, procVars, fileVars, Pending, Holders
<1> QED
  BY <1>1, <1>2, <1>3, <1>4, <1>5, <1>6, Zenon DEF Next, Terminated

\* The bridge implements ReplayGuard, whatever the environment does: the counter on
\* disk, the tokens that hold it and the grants behave as one atomic monotonic counter,
\* which forgets only when the bridge has lost a counter.
THEOREM ImplementsGuard == Spec => RefinesGuard
<1>1. Init => Guard!Init
  <2> SUFFICES ASSUME Init PROVE Guard!Init
    OBVIOUS
  <2>1. Holders = {}
    BY Zenon DEF Init, Holders
  <2>2. Pending = {} /\ disk \in Int
    BY <2>1, InitTypes DEF Pending, TypeOK
  <2> QED
    BY <2>2, Zenon DEF Init, Guard!Init, Pending
<1>2. IInv /\ [Next]_vars => [Guard!Next]_(Guard!guardVars)
  <2> SUFFICES ASSUME IInv, [Next]_vars PROVE [Guard!Next]_(Guard!guardVars)
    OBVIOUS
  <2>1. IInv' /\ disk' \in Int /\ grants' \in [Counters -> Nat]
    BY NextIInv DEF IInv, TypeOK
  <2>2. Pending' \subseteq Counters
    <3>1. token_counter' \in [Procs -> Counters] /\ Holders' \subseteq Procs
      BY <2>1, Zenon DEF IInv, TypeOK, Holders
    <3> QED
      BY ONLY <3>1 DEF Pending
  <2>3. CASE forgot'
    BY <2>1, <2>2, <2>3, Zenon DEF Guard!Next, Guard!Forgotten, Pending
  <2>4. CASE ~forgot'
    <3>1. ~forgot /\ forgot' = forgot
      BY <2>4, ForgotStays, <2>1 DEF IInv, TypeOK
    <3> QED
      BY <2>1, <2>4, <3>1, StepRefines, Zenon DEF Guard!Next, Guard!guardVars, Guard!Take,
         Guard!Burn, Guard!Grant, Guard!Drop, Pending
  <2> QED
    BY <2>3, <2>4
<1> QED
  BY <1>1, <1>2, Inductive, PTL DEF Spec, RefinesGuard, Guard!Spec

-----------------------------------------------------------------------------

\* Behind the fstat check nobody works on an insecure file, so nothing of it waits
\* to reach the disk, and it is none that open has created.
SecureInv ==
    ~secure => /\ name = "kept" /\ file = disk
               /\ \A p \in Procs : pc[p] \notin Critical \ {"fstat"}

\* Every step keeps SecureInv, and leaves an insecure file and the grants alone.
LEMMA SecureStep ==
    ASSUME TypeOK, SecureInv, [Next]_vars
    PROVE  SecureInv' /\ (~secure => UNCHANGED <<file, grants>>)
<1> USE DEF SecureInv, TypeOK, Critical
<1>1. ASSUME NEW p \in Procs, NEW t \in Tokens, NEW r \in Requests, Call(p, t, r)
      PROVE  SecureInv' /\ (~secure => UNCHANGED <<file, grants>>)
  BY <1>1 DEF Call, fileVars
<1>2. ASSUME NEW p \in Procs, Step(p)
      PROVE  SecureInv' /\ (~secure => UNCHANGED <<file, grants>>)
  <2>1. CASE OpenState(p) \/ LockState(p) \/ StatState(p)
    BY <2>1 DEF OpenState, LockState, StatState, Goto
  <2>2. CASE RejectInsecure(p) \/ RejectReplay(p)
    BY <2>2 DEF RejectInsecure, RejectReplay, Return
  <2>3. CASE ReadCounter(p) \/ TruncateState(p) \/ WriteCounter(p) \/ SyncState(p)
    BY <2>3 DEF ReadCounter, TruncateState, WriteCounter, SyncState, Goto
  <2>4. CASE GrantToken(p)
    BY <2>4 DEF GrantToken
  <2> QED
    BY <1>2, <2>1, <2>2, <2>3, <2>4 DEF Step
<1>3. ASSUME NEW p \in Procs, FailedStep(p) \/ Kill(p)
      PROVE  SecureInv' /\ (~secure => UNCHANGED <<file, grants>>)
  BY <1>3 DEF FailedStep, Fail, FailTruncate, FailWrite, Kill, Return
<1>4. CASE PowerLoss \/ Writeback \/ WritebackName
  BY <1>4 DEF PowerLoss, Writeback, WritebackName, procVars
<1>5. CASE Tick \/ UNCHANGED vars
  BY <1>5 DEF Tick, procVars, fileVars, vars
<1> QED
  BY <1>1, <1>2, <1>3, <1>4, <1>5 DEF Next, Terminated

\* The fstat check of the replay file: one that others may write is never changed and
\* grants nothing, whatever fails or is killed, power losses included.
THEOREM InsecureUntouched == Spec => InsecureStateUntouched
<1>1. Init => SecureInv
  BY DEF Init, SecureInv, Critical
<1>2. TypeOK /\ SecureInv /\ [Next]_vars => SecureInv'
  BY SecureStep
<1>3. TypeOK /\ SecureInv /\ [Next]_vars => [~secure => UNCHANGED <<file, grants>>]_vars
  BY SecureStep
<1> QED
  BY <1>1, <1>2, <1>3, TypeCorrect, PTL DEF Spec, InsecureStateUntouched
=============================================================================
