-------------------------- MODULE ZigBridgeProofs --------------------------
(***************************************************************************)
(* Proofs about ZigBridge, for any processes, tokens, requests and bounds. *)
(* The backend has no lock; what it guarantees it guarantees while its     *)
(* validations do not overlap.                                             *)
(***************************************************************************)
EXTENDS ZigBridge, TLAPS

\* Validations do not overlap.
Serial == \A p, q \in Procs : pc[p] # "idle" /\ pc[q] # "idle" => p = q

\* What a process has read when it compares is what the file holds; whatever was
\* granted is at or below the counter in the file, and below the one being written
\* while the file is truncated for it.
WholeInv ==
    /\ AtMostOnce
    /\ \A p \in Procs : pc[p] = "create" => last_counter[p] = file
    /\ \A p \in Procs : pc[p] = "write" => \A c \in Counters : grants[c] > 0 => c < token_counter[p]
    /\ Writers = {} => \A c \in Counters : grants[c] > 0 => c <= file

\* The inductive invariant.
IInv ==
    /\ TypeOK
    /\ \A p \in Procs : pc[p] \in {"lstat", "read"} => last_counter[p] = NoCounter
    /\ ~forgot => WholeInv

-----------------------------------------------------------------------------

\* Token counters are integers.
LEMMA Facts ==
    /\ \A t \in Tokens : t.counter \in Counters
    /\ Counters # {} /\ Counters \subseteq Int
    /\ NoCounter \in Int
  BY ZigAssumption DEF Counters, NoCounter

\* The first states satisfy the inductive invariant.
LEMMA InitIInv == Init => IInv
<1> SUFFICES ASSUME Init PROVE IInv
  OBVIOUS
<1>1. (CHOOSE c \in Counters : TRUE) \in Counters
  BY Facts
<1>2. TypeOK
  <2>1. mode \in Modes /\ file \in Int
    BY Facts, ZigAssumption DEF Init
  <2>2. /\ grants \in [Counters -> Nat]
        /\ last_counter \in [Procs -> Int] /\ calls \in [Procs -> 0..MaxCalls] /\ now \in 0..MaxTime
    BY Facts, ZigAssumption DEF Init
  <2> QED
    BY <1>1, <2>1, <2>2, Zenon DEF Init, TypeOK, PcStates
<1>3. AtMostOnce /\ \A c \in Counters : ~(grants[c] > 0)
  BY DEF Init, AtMostOnce
<1> QED
  BY <1>2, <1>3 DEF Init, IInv, WholeInv

\* Every step keeps the types.
LEMMA TypeStep == TypeOK /\ [Next]_vars => TypeOK'
<1> SUFFICES ASSUME TypeOK, [Next]_vars PROVE TypeOK'
  OBVIOUS
<1> USE Facts, ZigAssumption DEF TypeOK, PcStates, diskVars
<1>1. ASSUME NEW p \in Procs, NEW t \in Tokens, NEW r \in Requests, Call(p, t, r) PROVE TypeOK'
  BY <1>1 DEF Call
<1>2. ASSUME NEW p \in Procs, StatState(p) PROVE TypeOK'
  BY <1>2, Zenon DEF StatState, Goto, Forgets
<1>3. ASSUME NEW p \in Procs, ReadCounter(p) PROVE TypeOK'
  BY <1>3 DEF ReadCounter, Goto
<1>4. ASSUME NEW p \in Procs, RejectReplay(p) PROVE TypeOK'
  BY <1>4 DEF RejectReplay, Goto
<1>5. ASSUME NEW p \in Procs, CreateState(p) PROVE TypeOK'
  BY <1>5 DEF CreateState, Goto, Modes
<1>6. ASSUME NEW p \in Procs, WriteCounter(p) PROVE TypeOK'
  BY <1>6 DEF WriteCounter, Goto
<1>7. ASSUME NEW p \in Procs, FailWrite(p) PROVE TypeOK'
  <2>1. token_counter[p] \in Int
    BY Zenon
  <2>2. PrefixValues(token_counter[p]) \subseteq Int
    BY ONLY <2>1, Facts DEF PrefixValues
  <2> QED
    BY <1>7, <2>2 DEF FailWrite, Goto
<1>8. ASSUME NEW p \in Procs, Abandon(p) PROVE TypeOK'
  BY <1>8 DEF Abandon, Goto
<1>9. CASE Tick
  BY <1>9 DEF Tick
<1>10. CASE Writeback
  BY <1>10 DEF Writeback
<1>11. CASE PowerLoss
  BY <1>11 DEF PowerLoss, Forgets
<1>12. CASE UNCHANGED vars
  BY <1>12 DEF vars
<1> QED
  BY <1>1, <1>2, <1>3, <1>4, <1>5, <1>6, <1>7, <1>8, <1>9, <1>10, <1>11, <1>12 DEF Next, Terminated

\* A step of a process that validates alone keeps the inductive invariant.
LEMMA NextIInv == IInv /\ Serial /\ [Next]_vars => IInv'
<1> SUFFICES ASSUME IInv, Serial, [Next]_vars PROVE IInv'
  OBVIOUS
<1> TypeOK'
  BY TypeStep DEF IInv
<1> USE Facts DEF IInv, TypeOK, PcStates
<1>1. ASSUME NEW p \in Procs, NEW t \in Tokens, NEW r \in Requests, Call(p, t, r) PROVE IInv'
  BY <1>1 DEF Call, WholeInv, AtMostOnce, Writers
<1>2. ASSUME NEW p \in Procs, StatState(p) PROVE IInv'
  BY <1>2 DEF StatState, Goto, Forgets, WholeInv, AtMostOnce, Writers
<1>3. ASSUME NEW p \in Procs, ReadCounter(p) PROVE IInv'
  BY <1>3 DEF ReadCounter, Goto, WholeInv, AtMostOnce, Writers
<1>4. ASSUME NEW p \in Procs, RejectReplay(p) PROVE IInv'
  BY <1>4 DEF RejectReplay, Goto, WholeInv, AtMostOnce, Writers
<1>5. ASSUME NEW p \in Procs, CreateState(p) PROVE IInv'
  <2>1. \A q \in Procs : q # p => pc[q] = "idle"
    BY <1>5 DEF CreateState, Goto, Serial
  <2>2. ASSUME ~forgot PROVE WholeInv'
    <3>1. \A c \in Counters : grants[c] > 0 => c < token_counter[p]
      <4>1. Writers = {} /\ last_counter[p] = file
        BY <1>5, <2>1, <2>2 DEF CreateState, Goto, WholeInv, Writers
      <4>2. \A c \in Counters : grants[c] > 0 => c <= file
        BY <2>2, <4>1, Zenon DEF WholeInv
      <4>3. token_counter[p] > file /\ token_counter[p] \in Int /\ file \in Int
        BY <1>5, <4>1, Zenon DEF CreateState
      <4> QED
        BY ONLY <4>2, <4>3, Facts
    <3> QED
      BY <1>5, <2>1, <2>2, <3>1 DEF CreateState, Goto, WholeInv, AtMostOnce, Writers
  <2> QED
    BY <1>5, <2>2 DEF CreateState, Goto
<1>6. ASSUME NEW p \in Procs, WriteCounter(p) PROVE IInv'
  <2>1. \A q \in Procs : q # p => pc[q] = "idle"
    BY <1>6 DEF WriteCounter, Goto, Serial
  <2>2. ASSUME ~forgot PROVE WholeInv'
    <3>1. \A c \in Counters : grants[c] > 0 => c < token_counter[p]
      BY <1>6, <2>2 DEF WriteCounter, Goto, WholeInv
    <3>2. ASSUME NEW c \in Counters
          PROVE  grants'[c] <= 1 /\ (grants'[c] > 0 => c <= file')
      BY <1>6, <2>2, <3>1 DEF WriteCounter, Goto, WholeInv, AtMostOnce
    <3> QED
      BY <1>6, <2>1, <3>2 DEF WriteCounter, Goto, WholeInv, AtMostOnce
  <2> QED
    BY <1>6, <2>2 DEF WriteCounter, Goto
<1>7. ASSUME NEW p \in Procs, FailWrite(p) PROVE IInv'
  BY <1>7 DEF FailWrite, Goto
<1>8. ASSUME NEW p \in Procs, Abandon(p) PROVE IInv'
  BY <1>8 DEF Abandon, Goto, WholeInv, AtMostOnce, Writers
<1>9. CASE Tick
  BY <1>9 DEF Tick, WholeInv, AtMostOnce, Writers
<1>10. CASE Writeback
  BY <1>10 DEF Writeback, WholeInv, AtMostOnce, Writers
<1>11. CASE PowerLoss
  <2>1. \A p \in Procs : pc'[p] = "idle"
    BY <1>11, Zenon DEF PowerLoss
  <2>2. UNCHANGED <<last_counter, grants>>
    BY <1>11, Zenon DEF PowerLoss
  <2>3. ASSUME ~forgot' PROVE WholeInv'
    <3>1. ~forgot /\ Writers = {} /\ file' = file
      BY <1>11, <2>3, Zenon DEF PowerLoss, Forgets
    <3> QED
      BY <2>1, <2>2, <3>1, Zenon DEF WholeInv, AtMostOnce, Writers
  <2> QED
    BY <2>1, <2>3
<1>12. CASE UNCHANGED vars
  BY <1>12 DEF vars, WholeInv, AtMostOnce, Writers
<1> QED
  BY <1>1, <1>2, <1>3, <1>4, <1>5, <1>6, <1>7, <1>8, <1>9, <1>10, <1>11, <1>12 DEF Next, Terminated

-----------------------------------------------------------------------------

\* parseToken without a lock: when validations do not overlap, a counter is granted
\* at most once, until the replay file fails its check, a write does not go through or
\* the power fails before the kernel has written the file back.  Failed opens and reads
\* and kills before the truncation are covered.
THEOREM SerialReplayProtection == Spec /\ []Serial => []AtMostOnceWhenWhole
<1>1. IInv => AtMostOnceWhenWhole
  BY DEF IInv, WholeInv, AtMostOnceWhenWhole
<1> QED
  BY <1>1, InitIInv, NextIInv, PTL DEF Spec

\* One analyzer process is enough for that.
THEOREM OneProcess ==
    ASSUME \A p, q \in Procs : p = q
    PROVE  Spec => []AtMostOnceWhenWhole
<1>1. Serial
  BY DEF Serial
<1> QED
  BY <1>1, SerialReplayProtection, PTL

-----------------------------------------------------------------------------

\* The guard's counter, and the counters taken over and not yet granted.
GuardLast == IF Writers = {} THEN file ELSE token_counter[CHOOSE p \in Writers : TRUE]
GuardPending == {token_counter[p] : p \in Writers}

\* A step that neither begins nor ends a write, and leaves the file, the writer's
\* token and forgot alone, is no step of the guard.
LEMMA GuardStutter ==
    ASSUME Writers' = Writers, file' = file, grants' = grants, forgot' = forgot,
           \A p \in Writers : token_counter'[p] = token_counter[p]
    PROVE  UNCHANGED (Guard!guardVars)
<1>1. GuardLast' = GuardLast
  <2>1. CASE Writers = {}
    BY <2>1 DEF GuardLast
  <2>2. CASE Writers # {}
    <3>1. (CHOOSE p \in Writers : TRUE) \in Writers
      BY <2>2
    <3> QED
      BY <2>2, <3>1 DEF GuardLast
  <2> QED
    BY <2>1, <2>2
<1>2. GuardPending' = GuardPending
  BY DEF GuardPending
<1> QED
  BY <1>1, <1>2 DEF Guard!guardVars, GuardLast, GuardPending

\* With one writer the guard's counter is the one it writes, and is the only one
\* taken over; without a writer it is the file's.
LEMMA GuardState ==
    /\ Writers = {} => GuardLast = file /\ GuardPending = {}
    /\ \A p : Writers = {p} => GuardLast = token_counter[p] /\ GuardPending = {token_counter[p]}
<1>1. Writers = {} => GuardLast = file /\ GuardPending = {}
  BY DEF GuardLast, GuardPending
<1>2. ASSUME NEW p, Writers = {p}
      PROVE  GuardLast = token_counter[p] /\ GuardPending = {token_counter[p]}
  <2>1. (CHOOSE q \in Writers : TRUE) = p /\ Writers # {}
    BY <1>2
  <2> QED
    BY <1>2, <2>1 DEF GuardLast, GuardPending
<1> QED
  BY <1>1, <1>2

\* The guard's variables have the types it gives them.
LEMMA GuardTypes ==
    ASSUME TypeOK'
    PROVE  GuardLast' \in Int /\ GuardPending' \subseteq Counters /\ grants' \in [Counters -> Nat]
<1>1. GuardPending' \subseteq Counters
  BY Zenon DEF TypeOK, GuardPending, Writers
<1>2. CASE Writers' = {}
  <2>1. GuardLast' = file'
    BY <1>2, Zenon DEF GuardLast
  <2> QED
    BY <1>1, <2>1, Zenon DEF TypeOK
<1>3. CASE Writers' # {}
  <2> DEFINE w == CHOOSE p \in Writers' : TRUE
  <2>1. w \in Writers'
    BY <1>3
  <2>2. w \in Procs
    BY <2>1, Zenon DEF Writers
  <2>3. token_counter'[w] \in Int
    BY <2>2, Facts, Zenon DEF TypeOK
  <2>4. GuardLast' = token_counter'[w]
    BY <1>3, Zenon DEF GuardLast
  <2> QED
    BY <1>1, <2>3, <2>4, Zenon DEF TypeOK
<1> QED
  BY <1>1, <1>2, <1>3 DEF TypeOK

\* A step of a process that validates alone is a step of the guard or a stutter, as
\* long as the counter is not lost.
LEMMA GuardStep ==
    ASSUME IInv, Serial, Next, ~forgot'
    PROVE  [Guard!Next]_(Guard!guardVars)
<1> USE Facts DEF IInv, TypeOK, PcStates
<1>1. ASSUME NEW p \in Procs, NEW t \in Tokens, NEW r \in Requests, Call(p, t, r)
      PROVE  UNCHANGED (Guard!guardVars)
  BY <1>1, GuardStutter DEF Call, Writers
<1>2. ASSUME NEW p \in Procs, StatState(p) PROVE UNCHANGED (Guard!guardVars)
  BY <1>2, GuardStutter, Zenon DEF StatState, Goto, Forgets, Writers
<1>3. ASSUME NEW p \in Procs, ReadCounter(p) PROVE UNCHANGED (Guard!guardVars)
  BY <1>3, GuardStutter DEF ReadCounter, Goto, Writers
<1>4. ASSUME NEW p \in Procs, RejectReplay(p) PROVE UNCHANGED (Guard!guardVars)
  BY <1>4, GuardStutter DEF RejectReplay, Goto, Writers
<1>5. ASSUME NEW p \in Procs, CreateState(p) PROVE Guard!Take(token_counter[p])
  <2>1. Writers = {} /\ Writers' = {p}
    BY <1>5 DEF CreateState, Goto, Serial, Writers
  <2>2. token_counter[p] > file
    BY <1>5 DEF CreateState, Goto, WholeInv
  <2>3. GuardLast = file /\ GuardPending = {}
    BY <2>1, GuardState
  <2>4. GuardLast' = token_counter[p] /\ GuardPending' = {token_counter[p]}
    <3>1. (CHOOSE q \in {p} : TRUE) = p
      OBVIOUS
    <3>2. GuardLast' = token_counter'[p] /\ GuardPending' = {token_counter'[p]}
      BY <2>1, <3>1, Zenon DEF GuardLast, GuardPending
    <3> QED
      BY <1>5, <3>2 DEF CreateState, Goto
  <2> QED
    BY <1>5, <2>2, <2>3, <2>4, Zenon DEF CreateState, Guard!Take, GuardLast, GuardPending
<1>6. ASSUME NEW p \in Procs, WriteCounter(p) PROVE Guard!Grant(token_counter[p])
  <2>1. Writers = {p} /\ Writers' = {}
    BY <1>6 DEF WriteCounter, Goto, Serial, Writers
  <2>2. GuardLast = token_counter[p] /\ GuardPending = {token_counter[p]}
    BY <2>1, GuardState
  <2>3. GuardLast' = file' /\ GuardPending' = {}
    BY <2>1, Zenon DEF GuardLast, GuardPending
  <2> QED
    BY <1>6, <2>2, <2>3, Zenon DEF WriteCounter, Guard!Grant, GuardLast, GuardPending
<1>7. ASSUME NEW p \in Procs, FailWrite(p) PROVE FALSE
  BY <1>7 DEF FailWrite
<1>8. ASSUME NEW p \in Procs, Abandon(p) PROVE UNCHANGED (Guard!guardVars)
  BY <1>8, GuardStutter DEF Abandon, Goto, Writers
<1>9. CASE Tick \/ Writeback
  BY <1>9, GuardStutter DEF Tick, Writeback, Writers
<1>10. CASE PowerLoss
  BY <1>10, GuardStutter, Zenon DEF PowerLoss, Forgets, Writers
<1>11. CASE Terminated
  BY <1>11, GuardStutter DEF Terminated, vars, Writers
<1>12. \A p \in Procs : token_counter[p] \in Counters
  OBVIOUS
<1>13. ASSUME NEW p \in Procs, CreateState(p) \/ WriteCounter(p) PROVE Guard!Next
  BY <1>5, <1>6, <1>12, <1>13, Zenon DEF Guard!Next, Guard!Take, Guard!Grant, Guard!Drop,
     Guard!Burn, Guard!Forgotten
<1> HIDE DEF IInv, TypeOK, PcStates
<1> QED
  BY <1>1, <1>2, <1>3, <1>4, <1>7, <1>8, <1>9, <1>10, <1>11, <1>13, Zenon DEF Next

\* parseToken refines the replay guard while its validations do not overlap: creating
\* the file takes the counter over, writing the line grants it, and a file that fails
\* its check, a write that does not go through or a power loss is the guard forgetting.
THEOREM SerialImplementsGuard == Spec /\ []Serial => RefinesGuard
<1>1. Init => Guard!Init
  <2> SUFFICES ASSUME Init PROVE Guard!Init
    OBVIOUS
  <2>1. Writers = {}
    BY DEF Init, Writers
  <2>2. file \in Int
    BY InitIInv DEF IInv, TypeOK
  <2>3. GuardLast = file /\ GuardPending = {}
    BY <2>1, GuardState
  <2> QED
    BY <2>2, <2>3, Zenon DEF Init, Guard!Init, GuardLast, GuardPending
<1>2. IInv /\ Serial /\ [Next]_vars => [Guard!Next]_(Guard!guardVars)
  <2> SUFFICES ASSUME IInv, Serial, [Next]_vars PROVE [Guard!Next]_(Guard!guardVars)
    OBVIOUS
  <2>1. ASSUME UNCHANGED vars PROVE UNCHANGED (Guard!guardVars)
    BY <2>1, GuardStutter DEF vars, Writers
  <2>2. TypeOK'
    BY TypeStep DEF IInv
  <2>3. GuardLast' \in Int /\ GuardPending' \subseteq Counters /\ grants' \in [Counters -> Nat]
    BY <2>2, GuardTypes
  <2>4. ASSUME forgot' PROVE Guard!Next
    BY <2>3, <2>4, Zenon DEF Guard!Next, Guard!Forgotten, GuardLast, GuardPending
  <2> QED
    BY <2>1, <2>4, GuardStep
<1> QED
  BY <1>1, <1>2, InitIInv, NextIInv, PTL DEF Spec, RefinesGuard, Guard!Spec
=============================================================================
