------------------------------- MODULE Nonce -------------------------------
(***************************************************************************)
(* The nonces of one signer: NonceManager of automation/core/nonce.py and  *)
(* the file lock HLClient.for_trading takes around it.                     *)
(*                                                                         *)
(* Several processes may be started on the same state file (the daemon and *)
(* the command-line tools use one path); the lock lets one of them sign.   *)
(* next() chooses a number above the last one, writes it to the primary    *)
(* file, then to the mirror, and only then hands it out.  Each write may   *)
(* fail and the process may die between any two steps; the host's clock    *)
(* may be set to anything; a file may be lost.                             *)
(*                                                                         *)
(* A missing, empty or corrupt file reads as 0, so 0 stands for all three. *)
(* MaxClock and MaxNonce bound the clock and the numbers, MaxFaults the    *)
(* crashes, failed writes and reads and lost files.                        *)
(***************************************************************************)
EXTENDS Integers

CONSTANTS
    Process,       \* processes started on the state file
    NoProcess,     \* the lock is free
    Tolerance,     \* backward_tolerance_ms
    Window,        \* how far ahead of its time the venue accepts a nonce
    Earlier,       \* what the venue may have accepted before these files
    MaxClock,
    MaxNonce,
    MaxFaults

ASSUME ProcessAssumption == NoProcess \notin Process
ASSUME BoundAssumption ==
    /\ Tolerance \in Nat
    /\ Window \in Nat
    /\ Earlier \subseteq 0 .. MaxNonce
    /\ MaxClock \in Nat \ {0}
    /\ MaxNonce \in Nat
    /\ MaxFaults \in Nat

VARIABLES
    time,          \* the true time, which the venue knows
    now,           \* what the host's clock reads
    holder,        \* the process that holds the lock, or NoProcess
    pc,            \* where each process is
    op,            \* the call in progress: "next" or "reanchor"
    last,          \* NonceManager._last of each process
    n,             \* the number being persisted, then signed
    reanchored,    \* reanchor returned in this life of the process
    primary,       \* the state file
    mirror,        \* its .bak
    issued,        \* the last number signed, by any process
    accepted,      \* the highest number the venue has accepted
    faults

clocks == <<time, now>>
files == <<primary, mirror>>
local == <<op, last, n, reanchored>>
venue == <<issued, accepted>>
vars == <<clocks, holder, pc, local, files, venue, faults>>

Steps == {"off", "opening", "ready", "primary", "mirror", "sign"}

\* The variables stay in their ranges.  The files and the memory hold
\* naturals, 0 for none, whatever was missing or failed.
TypeOK ==
    /\ time \in 1 .. MaxClock
    /\ now \in 1 .. MaxClock
    /\ holder \in Process \cup {NoProcess}
    /\ pc \in [Process -> Steps]
    /\ op \in [Process -> {"next", "reanchor"}]
    /\ last \in [Process -> 0 .. MaxNonce]
    /\ n \in [Process -> 0 .. MaxNonce]
    /\ reanchored \in [Process -> BOOLEAN]
    /\ primary \in 0 .. MaxNonce
    /\ mirror \in 0 .. MaxNonce
    /\ issued \in 0 .. MaxNonce
    /\ accepted \in 0 .. MaxNonce
    /\ faults \in 0 .. MaxFaults

Init ==
    /\ time = 1
    /\ now = 1
    /\ holder = NoProcess
    /\ pc = [p \in Process |-> "off"]
    /\ op = [p \in Process |-> "next"]
    /\ last = [p \in Process |-> 0]
    /\ n = [p \in Process |-> 0]
    /\ reanchored = [p \in Process |-> FALSE]
    /\ primary = 0
    /\ mirror = 0
    /\ issued = 0
    /\ accepted \in Earlier
    /\ faults = 0

Larger(a, b) == IF a >= b THEN a ELSE b

Fault ==
    /\ faults < MaxFaults
    /\ faults' = faults + 1

Goto(p, step) == pc' = [pc EXCEPT ![p] = step]

-----------------------------------------------------------------------------
(* A client is opened and closed.                                          *)

\* Mutant: the lock is not looked at.
for_trading_Unlocked(p) ==
    /\ pc[p] = "off"
    /\ holder' = p
    /\ Goto(p, "opening")
    /\ UNCHANGED <<clocks, local, files, venue, faults>>

\* The lock is tried once, without waiting: a process that finds it held
\* raises and exits, which changes nothing here.
for_trading(p) ==
    /\ pc[p] = "off"
    /\ holder = NoProcess
    /\ holder' = p
    /\ Goto(p, "opening")
    /\ UNCHANGED <<clocks, local, files, venue, faults>>

Seeded(p, a, b) ==
    /\ pc[p] = "opening"
    /\ last' = [last EXCEPT ![p] = Larger(a, b)]
    /\ Goto(p, "ready")
    /\ UNCHANGED <<clocks, holder, op, n, reanchored, files, venue>>

\* Mutant: the file is taken for the next number to issue.
_load_NextToIssue(p) ==
    /\ Seeded(p, primary - 1, mirror - 1)
    /\ UNCHANGED faults

\* Mutant: the mirror is not read.
_load_PrimaryOnly(p) ==
    /\ Seeded(p, primary, 0)
    /\ UNCHANGED faults

_load(p) ==
    /\ Seeded(p, primary, mirror)
    /\ UNCHANGED faults

\* One file exists and cannot be read: it counts as 0.
LoadOne(p) ==
    /\ \/ mirror # 0 /\ Seeded(p, 0, mirror)
       \/ primary # 0 /\ Seeded(p, primary, 0)
    /\ Fault

\* The memory of a process that ends is gone.
Forget(p) ==
    /\ holder' = NoProcess
    /\ Goto(p, "off")
    /\ op' = [op EXCEPT ![p] = "next"]
    /\ last' = [last EXCEPT ![p] = 0]
    /\ n' = [n EXCEPT ![p] = 0]
    /\ reanchored' = [reanchored EXCEPT ![p] = FALSE]
    /\ UNCHANGED <<clocks, files, venue>>

close(p) ==
    /\ pc[p] = "ready"
    /\ Forget(p)
    /\ UNCHANGED faults

-----------------------------------------------------------------------------
(* A number is issued.                                                     *)

\* ClockError: the clock is behind the last number by more than tolerated.
Refused(p) == now < last[p] - Tolerance

NextNonce(p) == Larger(now, last[p] + 1)

Persist(p, call, k) ==
    /\ k <= MaxNonce
    /\ op' = [op EXCEPT ![p] = call]
    /\ n' = [n EXCEPT ![p] = k]
    /\ Goto(p, "primary")
    /\ UNCHANGED <<clocks, holder, last, reanchored, files, venue, faults>>

\* A submission asks for a number.  A refused call raises before anything
\* is signed or sent, and changes nothing.
next(p) ==
    /\ pc[p] = "ready"
    /\ ~Refused(p)
    /\ Persist(p, "next", NextNonce(p))

\* A seam for recovery that nothing in the repository but its tests calls.  The
\* floor is the venue's highest accepted number.
reanchor(p) ==
    /\ pc[p] = "ready"
    /\ accepted > last[p]
    /\ Persist(p, "reanchor", accepted)

\* Mutant: the floor is only remembered as done, never applied.
ReanchorNoOp_Always(p) ==
    /\ pc[p] = "ready"
    /\ reanchored' = [reanchored EXCEPT ![p] = TRUE]
    /\ UNCHANGED <<clocks, holder, pc, op, last, n, files, venue, faults>>

\* A floor at or below the last number is a no-op.
ReanchorNoOp(p) ==
    /\ pc[p] = "ready"
    /\ accepted <= last[p]
    /\ reanchored' = [reanchored EXCEPT ![p] = TRUE]
    /\ UNCHANGED <<clocks, holder, pc, op, last, n, files, venue, faults>>

WritePrimary(p) ==
    /\ pc[p] = "primary"
    /\ primary' = n[p]
    /\ Goto(p, "mirror")
    /\ UNCHANGED <<clocks, holder, local, mirror, venue, faults>>

\* The number becomes the last one once both files hold it.
WriteMirror(p) ==
    /\ pc[p] = "mirror"
    /\ mirror' = n[p]
    /\ last' = [last EXCEPT ![p] = n[p]]
    /\ \/ /\ op[p] = "next"
          /\ Goto(p, "sign")
          /\ UNCHANGED reanchored
       \/ /\ op[p] = "reanchor"
          /\ Goto(p, "ready")
          /\ reanchored' = [reanchored EXCEPT ![p] = TRUE]
    /\ UNCHANGED <<clocks, holder, op, n, primary, venue, faults>>

\* Mutant: a failed write is logged and the call goes on.
WriteFails_Swallowed(p) ==
    /\ pc[p] \in {"primary", "mirror"}
    /\ Fault
    /\ Goto(p, IF pc[p] = "primary" THEN "mirror" ELSE "sign")
    /\ UNCHANGED <<clocks, holder, local, files, venue>>

\* A write raises and the call with it.  What the primary already holds
\* stays, and the memory keeps its number.
WriteFails(p) ==
    /\ pc[p] \in {"primary", "mirror"}
    /\ Fault
    /\ Goto(p, "ready")
    /\ UNCHANGED <<clocks, holder, local, files, venue>>

\* The request is signed and sent.  The venue accepts a number it has not
\* passed unless it is too far ahead of its time.
Sign(p) ==
    /\ pc[p] = "sign"
    /\ issued' = n[p]
    /\ accepted' = IF n[p] <= time + Window THEN Larger(accepted, n[p])
                   ELSE accepted
    /\ Goto(p, "ready")
    /\ UNCHANGED <<clocks, holder, local, files, faults>>

-----------------------------------------------------------------------------
(* The environment.                                                        *)

\* The operating system frees the lock of a process that dies.
Crash(p) ==
    /\ pc[p] # "off"
    /\ Fault
    /\ Forget(p)

\* Time passes, and the host's clock runs, stops, leaps or is set back.
Clock ==
    /\ time' \in {t \in {time, time + 1} : t <= MaxClock}
    /\ now' \in 1 .. MaxClock
    /\ UNCHANGED <<holder, pc, local, files, venue, faults>>

\* One file is lost while the other is there.
LoseFile ==
    /\ \/ mirror # 0 /\ primary' = 0 /\ UNCHANGED mirror
       \/ primary # 0 /\ mirror' = 0 /\ UNCHANGED primary
    /\ Fault
    /\ UNCHANGED <<clocks, holder, pc, local, venue>>

Next ==
    \/ Clock
    \/ LoseFile
    \/ \E p \in Process :
          \/ for_trading(p) \/ _load(p) \/ LoadOne(p) \/ close(p)
          \/ next(p) \/ reanchor(p) \/ ReanchorNoOp(p)
          \/ WritePrimary(p) \/ WriteMirror(p) \/ WriteFails(p) \/ Sign(p)
          \/ Crash(p)

Spec == Init /\ [][Next]_vars

-----------------------------------------------------------------------------
(* Properties.                                                             *)

\* Every number signed is above every number signed before it: by any
\* process, across crashes, failed writes, a lost file and any movement of
\* the clock (NonceManager, "always strictly increasing").
NonceIncreases == [][issued' # issued => issued' > issued]_vars

\* What a process started now would read is never below a signed number:
\* the number is durable before it is used.
IssuedIsDurable == issued <= Larger(primary, mirror)

\* A process that has loaded never works from a number older than one
\* another process has signed: the lock spans the whole life of a client.
MemoryIsCurrent ==
    \A p \in Process : pc[p] \notin {"off", "opening"} => last[p] >= issued

\* A process that called the recovery seam reanchor does not sign a number the
\* venue has seen, even one accepted before these files existed.
ReanchoredAboveVenue ==
    \A p \in Process :
        pc[p] \notin {"off", "opening"} /\ reanchored[p] =>
            /\ last[p] >= accepted \/ pc[p] = "sign"
            /\ pc[p] = "sign" => n[p] > accepted

=============================================================================
