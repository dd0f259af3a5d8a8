----------------------------- MODULE ZigBridge -----------------------------
(***************************************************************************)
(* The Zig attestation backend (skv-analyzer/src/zig/attestation_bridge.   *)
(* zig): parseToken, run by analyzer processes that share one replay-state *)
(* file.  The steps on the replay file are those of the code: lstat, read, *)
(* compare, create, write.  There is no lock and no sync: there is no lock *)
(* variable here, and what reaches the disk only the kernel's writeback    *)
(* takes there.                                                            *)
(***************************************************************************)
EXTENDS Integers

CONSTANTS
    Procs,          \* analyzer processes
    Tokens,         \* token files as the loop of lines 72-121 reads them
    Requests,       \* the other arguments of the exported validator
    InitialModes,   \* the replay file before the first validation
    I64Max,         \* largest i64
    MaxCalls,       \* bound: validations per process
    MaxTime         \* bound: last tick of the clock

Fields == {"ring", "attested", "root_attested", "timestamp", "nonce", "counter"}

\* A file that is missing; one that is regular, our own and not shared-writable;
\* the same with another owner; one that is not regular or is shared-writable.
Modes == {"absent", "secure", "foreign", "insecure"}

NoCounter == -1             \* var last_counter: i64 = -1
NoNonce == "NULL"           \* expected_nonce == null

Counters == {t.counter : t \in Tokens}

ASSUME ZigAssumption ==
    /\ Tokens # {} /\ Requests # {}
    /\ \A t \in Tokens :
          t \in [secure : BOOLEAN, found : SUBSET Fields, ring : Int,
                 attested : BOOLEAN, root_attested : BOOLEAN, timestamp : Int,
                 nonce : STRING, counter : Int]
    /\ \A r \in Requests : r \in [ring : Int, max_age : Int, nonce : STRING]
    /\ InitialModes \subseteq Modes
    /\ I64Max \in Nat /\ MaxCalls \in Nat /\ MaxTime \in Nat

VARIABLES
    pc,             \* pc[p]: the next step of p's validation
    token_counter,  \* token_counter[p]: the counter of the token p validates
    last_counter,   \* last_counter[p]: what p read from the replay file
    calls,          \* calls[p]: validations p has begun
    mode,           \* what lstat says of the replay file, see Modes
    file,           \* the first line of the replay file, or NoCounter
    disk_mode,      \* mode and file as a power loss would leave them
    disk,
    now,            \* std.time.timestamp()
    grants,         \* history: grants[c] counts the answers 1 for counter c
    forgot          \* history: a counter in the replay file may have been lost

diskVars == <<disk_mode, disk>>
vars == <<pc, token_counter, last_counter, calls, mode, file, diskVars, now, grants, forgot>>

PcStates == {"idle", "lstat", "read", "create", "write"}

\* The shapes of the state.
TypeOK ==
    /\ pc \in [Procs -> PcStates]
    /\ token_counter \in [Procs -> Counters]
    /\ last_counter \in [Procs -> Int]
    /\ calls \in [Procs -> 0..MaxCalls]
    /\ mode \in Modes
    /\ file \in Int
    /\ disk_mode \in Modes
    /\ disk \in Int
    /\ now \in 0..MaxTime
    /\ grants \in [Counters -> Nat]
    /\ forgot \in BOOLEAN

Init ==
    /\ pc = [p \in Procs |-> "idle"]
    /\ token_counter = [p \in Procs |-> CHOOSE c \in Counters : TRUE]
    /\ last_counter = [p \in Procs |-> NoCounter]
    /\ calls = [p \in Procs |-> 0]
    /\ mode \in InitialModes
    /\ file \in IF mode = "absent" THEN {NoCounter}
                ELSE {NoCounter} \cup {c \in Counters : c >= 0}
    /\ disk_mode = mode
    /\ disk = file
    /\ now = 0
    /\ grants = [c \in Counters |-> 0]
    /\ forgot = FALSE

\* The checks of lines 49 and 123-137.  When now - token_ts does not fit an i64
\* ReleaseSafe stops the process, so the token is not granted either.
Admissible(t, r) ==
    /\ t.secure
    /\ {"ring", "attested", "timestamp", "counter"} \subseteq t.found
    /\ t.attested
    /\ t.ring = r.ring
    /\ r.ring = -2 => "root_attested" \in t.found /\ t.root_attested
    /\ r.max_age > 0
    /\ t.timestamp <= now
    /\ now - t.timestamp <= I64Max
    /\ now - t.timestamp <= r.max_age
    /\ r.nonce # NoNonce => "nonce" \in t.found /\ t.nonce = r.nonce

Call(p, t, r) ==
    /\ pc[p] = "idle"
    /\ calls[p] < MaxCalls
    /\ calls' = [calls EXCEPT ![p] = @ + 1]
    /\ \/ /\ Admissible(t, r)
          /\ pc' = [pc EXCEPT ![p] = "lstat"]
          /\ token_counter' = [token_counter EXCEPT ![p] = t.counter]
          /\ last_counter' = [last_counter EXCEPT ![p] = NoCounter]
       \/ /\ ~Admissible(t, r)
          /\ UNCHANGED <<pc, token_counter, last_counter>>
    /\ UNCHANGED <<mode, file, diskVars, now, grants, forgot>>

Goto(p, from, to) ==
    /\ pc[p] = from
    /\ pc' = [pc EXCEPT ![p] = to]
    /\ UNCHANGED <<token_counter, calls, diskVars, now>>

\* A step that may lose the counter in the replay file, when lost holds.
Forgets(lost) == forgot' = (forgot \/ lost)

\* state_exists is false for an insecure file and for an lstat that fails just as
\* for a missing file, and the owner is not looked at.
StatState(p) ==
    /\ \/ /\ mode \in {"secure", "foreign"}
          /\ Goto(p, "lstat", "read")
          /\ UNCHANGED forgot
       \/ /\ Goto(p, "lstat", "create")
          /\ Forgets(file # NoCounter)
    /\ UNCHANGED <<last_counter, mode, file, grants>>

\* Mutant: what parseInt returns is not kept.
ReadCounterIgnored(p) ==
    /\ Goto(p, "read", "create")
    /\ UNCHANGED <<last_counter, mode, file, grants, forgot>>

ReadCounter(p) ==
    /\ Goto(p, "read", "create")
    /\ last_counter' = [last_counter EXCEPT ![p] = file]
    /\ UNCHANGED <<mode, file, grants, forgot>>

RejectReplay(p) ==
    /\ token_counter[p] <= last_counter[p]
    /\ Goto(p, "create", "idle")
    /\ UNCHANGED <<last_counter, mode, file, grants, forgot>>

\* Mutant: an equal counter is let through.
CreateStateEqual(p) ==
    /\ token_counter[p] >= last_counter[p]
    /\ Goto(p, "create", "write")
    /\ file' = NoCounter
    /\ mode' = IF mode = "absent" THEN "secure" ELSE mode
    /\ UNCHANGED <<last_counter, grants, forgot>>

\* createFileAbsolute truncates the file, or makes it with mode 0600; the mode
\* of an existing file stays.
CreateState(p) ==
    /\ token_counter[p] > last_counter[p]
    /\ Goto(p, "create", "write")
    /\ file' = NoCounter
    /\ mode' = IF mode = "absent" THEN "secure" ELSE mode
    /\ UNCHANGED <<last_counter, grants, forgot>>

\* The line is written at offset 0 and ends in '\n': it is the first line of
\* the file whatever another process wrote there before.
WriteCounter(p) ==
    /\ Goto(p, "write", "idle")
    /\ file' = token_counter[p]
    /\ grants' = [grants EXCEPT ![token_counter[p]] = @ + 1]
    /\ UNCHANGED <<last_counter, mode, forgot>>

\* What parseInt makes of a file that holds a proper prefix of "{d}\n": nothing,
\* or the number without its last digits (counters below 10^4).
PrefixValues(c) ==
    {NoCounter, c} \cup {c \div w : w \in {v \in {10, 100, 1000} : v <= c}}

\* The write fails or is cut short, or the process is killed before it.
FailWrite(p) ==
    /\ Goto(p, "write", "idle")
    /\ file' \in PrefixValues(token_counter[p])
    /\ forgot' = TRUE
    /\ UNCHANGED <<last_counter, mode, grants>>

\* A failed open, read or create, or a kill, while the file is whole.
Abandon(p) ==
    /\ pc[p] \in {"lstat", "read", "create"}
    /\ Goto(p, pc[p], "idle")
    /\ UNCHANGED <<last_counter, mode, file, grants, forgot>>

Tick ==
    /\ now < MaxTime
    /\ now' = now + 1
    /\ UNCHANGED <<pc, token_counter, last_counter, calls, mode, file, diskVars, grants, forgot>>

\* The kernel writes the file, or the directory it was made in, to disk.
Writeback ==
    /\ \/ disk # file /\ disk' = file /\ UNCHANGED disk_mode
       \/ disk_mode # mode /\ disk_mode' = mode /\ UNCHANGED disk
    /\ UNCHANGED <<pc, token_counter, last_counter, calls, mode, file, now, grants, forgot>>

Writers == {p \in Procs : pc[p] = "write"}

\* After the power loss the replay file is what the disk holds.
PowerLoss ==
    /\ pc' = [p \in Procs |-> "idle"]
    /\ mode' = disk_mode
    /\ file' = IF disk_mode = "absent" THEN NoCounter ELSE disk
    /\ disk' = file'
    /\ Forgets(Writers # {} \/ file' # file)
    /\ UNCHANGED <<token_counter, last_counter, calls, disk_mode, now, grants>>

\* Every process has made its last validation.
Terminated ==
    /\ \A p \in Procs : pc[p] = "idle" /\ calls[p] = MaxCalls
    /\ UNCHANGED vars

Next ==
    \/ \E p \in Procs :
          \/ \E t \in Tokens, r \in Requests : Call(p, t, r)
          \/ StatState(p)
          \/ ReadCounter(p)
          \/ RejectReplay(p)
          \/ CreateState(p)
          \/ WriteCounter(p)
          \/ FailWrite(p)
          \/ Abandon(p)
    \/ Writeback
    \/ PowerLoss
    \/ Tick
    \/ Terminated

Spec == Init /\ [][Next]_vars

-----------------------------------------------------------------------------
(* Properties. *)

\* Replay protection: the validator answers 1 at most once for each counter.
AtMostOnce == \A c \in Counters : grants[c] <= 1

\* What is left of it when one process at a time validates: it holds as long as the
\* file passes its check, every write goes through, and the power does not fail
\* before the kernel has taken the file to disk.
AtMostOnceWhenWhole == ~forgot => AtMostOnce

\* The guard this backend means to implement (see ReplayGuard): while a process
\* rewrites the truncated file the counter is the one being written.
Guard == INSTANCE ReplayGuard WITH
    last <- IF Writers = {} THEN file ELSE token_counter[CHOOSE p \in Writers : TRUE],
    pending <- {token_counter[p] : p \in Writers}

\* When one process at a time validates, the backend keeps the guard's promise:
\* creating the file takes the counter over, and writing the line grants it.
RefinesGuard == Guard!Spec
=============================================================================
