------------------------- MODULE AttestationBridge -------------------------
(***************************************************************************)
(* The C attestation backend (skv-analyzer/src/c/attestation_bridge.c):    *)
(* skv_validate_attestation_token, run by several analyzer processes that  *)
(* share one replay-state file.                                            *)
(*                                                                         *)
(* Everything up to the open() of the replay file reads only the token,    *)
(* the arguments and the clock: it is one step, Call.  From the open() on, *)
(* each system call on the replay file is a step of its own, because other *)
(* processes, a kill or a power loss may come between any two of them.     *)
(*                                                                         *)
(* The replay file is abstracted to the number strtoll reads from it, with *)
(* NoCounter for a file in which strtoll finds no number (missing, empty). *)
(***************************************************************************)
EXTENDS Integers

CONSTANTS
    Procs,          \* analyzer processes
    Tokens,         \* token files as the parser of lines 123-169 reads them
    Requests,       \* the other arguments of the exported validator
    Faults,         \* the faults the environment may inject, see AllFaults
    I64Max,         \* largest long long
    MaxCalls,       \* bound: validations per process
    MaxTime         \* bound: last tick of the clock

\* System calls that fail, a process that is killed, a power loss, and the
\* kernel writing the file or its directory to disk unasked.
AllFaults == {"open", "lock", "fstat", "pread", "ftruncate", "write", "fsync", "chmod",
              "kill", "power", "writeback"}

Fields == {"ring", "attested", "root_attested", "timestamp", "nonce", "counter"}

NoCounter == -1             \* long long last_counter = -1
NoNonce == "NULL"           \* expected_nonce == NULL

Counters == {t.counter : t \in Tokens}

ASSUME BridgeAssumption ==
    /\ Tokens # {} /\ Requests # {}
    /\ \A t \in Tokens :
          t \in [secure : BOOLEAN, found : SUBSET Fields, ring : Int,
                 attested : BOOLEAN, root_attested : BOOLEAN, timestamp : Int,
                 nonce : STRING, counter : Int]
    /\ \A r \in Requests : r \in [ring : Int, max_age : Int, nonce : STRING]
    /\ Faults \subseteq AllFaults
    /\ I64Max \in Nat
    /\ MaxCalls \in Nat
    /\ MaxTime \in Nat

VARIABLES
    pc,             \* pc[p]: the next system call of p's validation
    token_counter,  \* token_counter[p]: the counter of the token p validates
    last_counter,   \* last_counter[p]: what p read from the replay file
    calls,          \* calls[p]: validations p has begun
    lock,           \* the processes that hold the write lock (at most one)
    secure,         \* the replay file is regular, owned and not shared-writable
    name,           \* the replay file in its directory, see Names
    file,           \* the replay file as the processes see it
    disk,           \* the replay file as it is on disk
    now,            \* time(NULL)
    grants,         \* history: grants[c] counts the answers 1 for counter c
    forgot          \* history: a counter in the replay file has been lost

procVars == <<pc, token_counter, last_counter, calls>>
fileVars == <<lock, secure, name, file, disk>>
vars == <<procVars, fileVars, now, grants, forgot>>

\* No replay file; one whose directory entry is only in memory, which a power loss
\* takes away with all that was synced to it; one whose entry is on disk.
Names == {"none", "new", "kept"}

PcStates == {"idle", "open", "lock", "fstat", "pread", "ftruncate", "write",
             "fsync", "chmod"}

\* The shapes of the state; F_WRLCK is exclusive.
TypeOK ==
    /\ pc \in [Procs -> PcStates]
    /\ token_counter \in [Procs -> Counters]
    /\ last_counter \in [Procs -> Int]
    /\ calls \in [Procs -> 0..MaxCalls]
    /\ lock \subseteq Procs /\ \A p, q \in lock : p = q
    /\ secure \in BOOLEAN
    /\ name \in Names
    /\ file \in Int
    /\ disk \in Int
    /\ now \in 0..MaxTime
    /\ grants \in [Counters -> Nat]
    /\ forgot \in BOOLEAN

Init ==
    /\ pc = [p \in Procs |-> "idle"]
    /\ token_counter = [p \in Procs |-> CHOOSE c \in Counters : TRUE]
    /\ last_counter = [p \in Procs |-> NoCounter]
    /\ calls = [p \in Procs |-> 0]
    /\ lock = {}
    /\ \/ /\ name = "kept"
          /\ secure \in BOOLEAN
          /\ file \in {NoCounter} \cup {c \in Counters : c >= 0}
       \/ /\ name = "none"
          /\ secure = TRUE                  \* open creates it with mode 0600
          /\ file = NoCounter
    /\ disk = file
    /\ now = 0
    /\ grants = [c \in Counters |-> 0]
    /\ forgot = FALSE

-----------------------------------------------------------------------------
(* The checks before the replay file. *)

\* (long long)now - token_ts.  Below the smallest representable timestamp the
\* subtraction overflows, which C leaves undefined: the build may keep the
\* mathematical value or the one wrapped to 64 bits.
AgeOutcomes(t) ==
    LET age == now - t.timestamp
    IN  IF age <= I64Max THEN {age} ELSE {age, age - 2 * (I64Max + 1)}

\* The token passes every check, its age having come out as `age`.
Admissible(t, r, age) ==
    /\ t.secure
    /\ {"ring", "attested", "timestamp", "counter"} \subseteq t.found
    /\ t.attested
    /\ t.ring = r.ring
    /\ r.ring = -2 => "root_attested" \in t.found /\ t.root_attested
    /\ r.max_age > 0
    /\ t.timestamp <= now
    /\ age <= r.max_age
    /\ r.nonce # NoNonce => "nonce" \in t.found /\ t.nonce = r.nonce

Call(p, t, r) ==
    /\ pc[p] = "idle"
    /\ calls[p] < MaxCalls
    /\ calls' = [calls EXCEPT ![p] = @ + 1]
    /\ \E age \in AgeOutcomes(t) :
          \/ /\ Admissible(t, r, age)
             /\ pc' = [pc EXCEPT ![p] = "open"]
             /\ token_counter' = [token_counter EXCEPT ![p] = t.counter]
             /\ last_counter' = [last_counter EXCEPT ![p] = NoCounter]
          \/ /\ ~Admissible(t, r, age)
             /\ UNCHANGED <<pc, token_counter, last_counter>>
    /\ UNCHANGED <<fileVars, now, grants, forgot>>

-----------------------------------------------------------------------------
(* The replay file, one system call at a time. *)

\* Every return path closes state_fd, and the close drops the process's lock.
Return(p) ==
    /\ pc' = [pc EXCEPT ![p] = "idle"]
    /\ lock' = lock \ {p}

\* The call p is about to make fails and the validator answers 0.
Fail(p, call) ==
    /\ pc[p] = call
    /\ call \in Faults
    /\ Return(p)
    /\ UNCHANGED <<token_counter, last_counter, calls, secure, name, file, disk, now,
                   grants, forgot>>

Goto(p, from, to) ==
    /\ pc[p] = from
    /\ pc' = [pc EXCEPT ![p] = to]
    /\ UNCHANGED <<token_counter, calls, secure, now>>

\* A step that loses the counter in the replay file, when lost holds.
Forgets(lost) == forgot' = (forgot \/ lost)

\* open(O_RDWR | O_CREAT): a created file is empty, so it reads as NoCounter.
OpenState(p) ==
    /\ Goto(p, "open", "lock")
    /\ name' = IF name = "none" THEN "new" ELSE name
    /\ UNCHANGED <<last_counter, lock, file, disk, grants, forgot>>

\* Mutant: F_SETLKW without effect (a read lock, or another file).
LockStateShared(p) ==
    /\ Goto(p, "lock", "fstat")
    /\ lock' = lock \cup {p}
    /\ UNCHANGED <<last_counter, name, file, disk, grants, forgot>>

\* fcntl(F_SETLKW) waits until no other process holds the lock.
LockState(p) ==
    /\ lock = {}
    /\ Goto(p, "lock", "fstat")
    /\ lock' = {p}
    /\ UNCHANGED <<last_counter, name, file, disk, grants, forgot>>

\* Mutant: a second descriptor of the file is closed here, which drops the lock.
StatStateUnlocks(p) ==
    /\ secure
    /\ Goto(p, "fstat", "pread")
    /\ lock' = lock \ {p}
    /\ UNCHANGED <<last_counter, name, file, disk, grants, forgot>>

\* Mutant: the checks on st_mode and st_uid are missing.
StatStateUnchecked(p) ==
    /\ Goto(p, "fstat", "pread")
    /\ UNCHANGED <<last_counter, lock, name, file, disk, grants, forgot>>

StatState(p) ==
    /\ secure
    /\ Goto(p, "fstat", "pread")
    /\ UNCHANGED <<last_counter, lock, name, file, disk, grants, forgot>>

RejectInsecure(p) ==
    /\ ~secure
    /\ pc[p] = "fstat"
    /\ Return(p)
    /\ UNCHANGED <<token_counter, last_counter, calls, secure, name, file, disk, now,
                   grants, forgot>>

\* Mutant: what strtoll returns is not kept.
ReadCounterIgnored(p) ==
    /\ Goto(p, "pread", "ftruncate")
    /\ UNCHANGED <<last_counter, lock, name, file, disk, grants, forgot>>

\* A pread that fails leaves last_counter at its initial value.
ReadCounter(p) ==
    /\ Goto(p, "pread", "ftruncate")
    /\ \/ /\ last_counter' = [last_counter EXCEPT ![p] = file]
          /\ UNCHANGED forgot
       \/ /\ "pread" \in Faults
          /\ Forgets(file # NoCounter)
          /\ UNCHANGED last_counter
    /\ UNCHANGED <<lock, name, file, disk, grants>>

\* Mutant: return 0 without close(state_fd).
RejectReplayLeaks(p) ==
    /\ pc[p] = "ftruncate"
    /\ token_counter[p] <= last_counter[p]
    /\ pc' = [pc EXCEPT ![p] = "idle"]
    /\ UNCHANGED <<token_counter, last_counter, calls, fileVars, now, grants, forgot>>

RejectReplay(p) ==
    /\ pc[p] = "ftruncate"
    /\ token_counter[p] <= last_counter[p]
    /\ Return(p)
    /\ UNCHANGED <<token_counter, last_counter, calls, secure, name, file, disk, now,
                   grants, forgot>>

\* Mutant: token_counter < last_counter is what gets refused.
TruncateStateEqual(p) ==
    /\ token_counter[p] >= last_counter[p]
    /\ Goto(p, "ftruncate", "write")
    /\ file' = NoCounter
    /\ UNCHANGED <<last_counter, lock, name, disk, grants, forgot>>

\* Mutant: only the counter last used is refused.
TruncateStateOther(p) ==
    /\ token_counter[p] # last_counter[p]
    /\ Goto(p, "ftruncate", "write")
    /\ file' = NoCounter
    /\ UNCHANGED <<last_counter, lock, name, disk, grants, forgot>>

TruncateState(p) ==
    /\ token_counter[p] > last_counter[p]
    /\ Goto(p, "ftruncate", "write")
    /\ file' = NoCounter
    /\ UNCHANGED <<last_counter, lock, name, disk, grants, forgot>>

\* The same comparison precedes a truncation that fails.
FailTruncate(p) ==
    /\ token_counter[p] > last_counter[p]
    /\ Fail(p, "ftruncate")

WriteCounter(p) ==
    /\ Goto(p, "write", "fsync")
    /\ file' = token_counter[p]
    /\ UNCHANGED <<last_counter, lock, name, disk, grants, forgot>>

\* What strtoll reads back when write stored a proper prefix of "%lld\n":
\* nothing, or the number without its last digits (counters below 10^4).
PrefixValues(c) ==
    {NoCounter, c} \cup {c \div w : w \in {v \in {10, 100, 1000} : v <= c}}

\* An lseek, snprintf or write that fails, or stores less than the whole line,
\* makes the validator answer 0 and leaves the file as it then is.
FailWrite(p) ==
    /\ pc[p] = "write"
    /\ "write" \in Faults
    /\ file' \in PrefixValues(token_counter[p])
    /\ Forgets(file' < last_counter[p])
    /\ Return(p)
    /\ UNCHANGED <<token_counter, last_counter, calls, secure, name, disk, now, grants>>

\* Mutant: no fsync.
SyncStateLazy(p) ==
    /\ Goto(p, "fsync", "chmod")
    /\ UNCHANGED <<last_counter, lock, name, file, disk, grants, forgot>>

SyncState(p) ==
    /\ Goto(p, "fsync", "chmod")
    /\ disk' = file
    /\ UNCHANGED <<last_counter, lock, name, file, grants, forgot>>

\* chmod, close, return 1.
GrantToken(p) ==
    /\ pc[p] = "chmod"
    /\ Return(p)
    /\ grants' = [grants EXCEPT ![token_counter[p]] = @ + 1]
    /\ UNCHANGED <<token_counter, last_counter, calls, secure, name, file, disk, now,
                   forgot>>

-----------------------------------------------------------------------------
(* The environment. *)

\* A killed process loses its descriptors, and with them its lock.  Between the
\* ftruncate and the write it leaves an empty file.
Kill(p) ==
    /\ pc[p] # "idle"
    /\ "kill" \in Faults
    /\ Forgets(pc[p] = "write" /\ last_counter[p] # NoCounter)
    /\ Return(p)
    /\ UNCHANGED <<token_counter, last_counter, calls, secure, name, file, disk, now,
                   grants>>

\* After the power loss the file is what the disk holds, if the disk holds its name.
PowerLoss ==
    /\ "power" \in Faults
    /\ pc' = [p \in Procs |-> "idle"]
    /\ lock' = {}
    /\ \/ /\ name # "new"
          /\ file' = disk
          /\ UNCHANGED <<name, disk, forgot>>
       \/ /\ name = "new"
          /\ name' = "none"
          /\ file' = NoCounter
          /\ disk' = NoCounter
          /\ Forgets(disk # NoCounter)
    /\ UNCHANGED <<token_counter, last_counter, calls, secure, now, grants>>

Truncated == \E p \in Procs : pc[p] = "write"

\* The kernel writes the file to disk, the empty one included.
Writeback ==
    /\ "writeback" \in Faults
    /\ disk # file
    /\ disk' = file
    /\ Forgets(Truncated /\ disk # NoCounter)
    /\ UNCHANGED <<procVars, lock, secure, name, file, now, grants>>

\* The kernel writes the directory to disk.
WritebackName ==
    /\ "writeback" \in Faults
    /\ name = "new"
    /\ name' = "kept"
    /\ UNCHANGED <<procVars, lock, secure, file, disk, now, grants, forgot>>

Tick ==
    /\ now < MaxTime
    /\ now' = now + 1
    /\ UNCHANGED <<procVars, fileVars, grants, forgot>>

\* Every process has made its last validation.
Terminated ==
    /\ \A p \in Procs : pc[p] = "idle" /\ calls[p] = MaxCalls
    /\ UNCHANGED vars

-----------------------------------------------------------------------------
Step(p) ==
    \/ OpenState(p) \/ LockState(p) \/ StatState(p) \/ RejectInsecure(p)
    \/ ReadCounter(p) \/ RejectReplay(p) \/ TruncateState(p) \/ WriteCounter(p)
    \/ SyncState(p) \/ GrantToken(p)

FailedStep(p) ==
    \/ \E call \in {"open", "lock", "fstat", "fsync", "chmod"} : Fail(p, call)
    \/ FailTruncate(p)
    \/ FailWrite(p)

Next ==
    \/ \E p \in Procs :
          \/ \E t \in Tokens, r \in Requests : Call(p, t, r)
          \/ Step(p)
          \/ FailedStep(p)
          \/ Kill(p)
    \/ PowerLoss
    \/ Writeback
    \/ WritebackName
    \/ Tick
    \/ Terminated

Spec == Init /\ [][Next]_vars

\* A process inside the validator keeps running: nothing in the code waits
\* except F_SETLKW, and the scheduler runs every runnable process.
FairSpec == Spec /\ \A p \in Procs : WF_vars(Step(p))

-----------------------------------------------------------------------------
(* Properties. *)

Granted(c) == grants[c] > 0

\* Replay protection: over all processes, failures and restarts, the validator
\* answers 1 at most once for each counter value.
AtMostOnce == \A c \in Counters : grants[c] <= 1

\* The same for as long as no counter has been lost.
AtMostOnceWhenWhole == ~forgot => AtMostOnce

\* "Replay protection with monotonic counter state": a counter that is granted
\* is above every counter granted before it, whichever process got those, as long
\* as no counter has been lost.
GrantsIncrease ==
    [][~forgot => \A c \in Counters :
          grants'[c] > grants[c] => \A d \in Counters : Granted(d) => d < c]_vars

\* "Atomic replay-state update with file lock + fsync": when the validator
\* answers 1 the counter is on disk, and it stays there through kills, failed calls
\* and power losses.  A power loss takes it back only with the whole file: nothing
\* syncs the directory in which open has created it.
GrantDurable == ~forgot => \A c \in Counters : Granted(c) => c <= disk

\* The counter compared at line 256 is still the file's: no other process came
\* between the pread and the comparison, unless that pread failed.
ComparesCurrent ==
    ~forgot => \A p \in Procs : pc[p] = "ftruncate" => last_counter[p] = file

\* "Secure file checks": a replay file that others may write is never changed
\* and no token is granted on the strength of it.
InsecureStateUntouched == [][~secure => UNCHANGED <<file, grants>>]_vars

\* Every validation ends: a rejected, failed or killed one leaves no lock
\* behind for the others to wait on.
Returns == \A p \in Procs : pc[p] # "idle" ~> pc[p] = "idle"

\* The bridge keeps the promise of ReplayGuard, whatever fails.  Its monotonic
\* counter is the one on disk; a token holds it from the moment its counter is there.
Holders ==
    {p \in Procs : \/ pc[p] = "chmod"
                   \/ pc[p] = "fsync" /\ disk = token_counter[p]}

Guard == INSTANCE ReplayGuard WITH
            last <- disk,
            pending <- {token_counter[p] : p \in Holders}

RefinesGuard == Guard!Spec
=============================================================================
