---------------------------- MODULE NonceProofs ----------------------------
(***************************************************************************)
(* The numbers of a signer increase, for any number of processes, any      *)
(* clock, any tolerance and any number of faults.                          *)
(*                                                                         *)
(* The files bound the signed numbers from above and the memory of the one *)
(* process that holds the lock is at least as new; a number on its way to  *)
(* a signature is above both.                                              *)
(***************************************************************************)
EXTENDS Nonce, TLAPS

Loaded(p) == pc[p] \notin {"off", "opening"}
Persisting(p) == pc[p] \in {"primary", "mirror"}

\* A file is lost or at least k.
Holds(f, k) == f = 0 \/ f >= k

FilesHold(k) ==
    /\ Holds(primary, k) /\ Holds(mirror, k)
    /\ primary # 0 \/ mirror # 0 \/ k = 0

LockAt(p) == pc[p] # "off" => holder = p

MemoryAt(p) ==
    /\ Loaded(p) => last[p] >= issued
    /\ Persisting(p) => n[p] > last[p]
    /\ pc[p] = "mirror" => Holds(primary, n[p])
    /\ pc[p] = "sign" =>
          n[p] = last[p] /\ n[p] > issued /\ FilesHold(n[p])

ReanchorAt(p) ==
    /\ ~Loaded(p) => ~reanchored[p]
    /\ Persisting(p) /\ op[p] = "reanchor" => n[p] >= accepted
    /\ Loaded(p) /\ reanchored[p] =>
          IF pc[p] = "sign" THEN n[p] > accepted ELSE last[p] >= accepted

ProcessAt(p) == LockAt(p) /\ MemoryAt(p) /\ ReanchorAt(p)

IInv ==
    /\ TypeOK
    /\ FilesHold(issued)
    /\ \A p \in Process : ProcessAt(p)

-----------------------------------------------------------------------------
(* Types.                                                                  *)

LEMMA LargerType ==
  ASSUME NEW a \in Int, NEW b \in Int
  PROVE  /\ Larger(a, b) \in {a, b}
         /\ Larger(a, b) >= a /\ Larger(a, b) >= b
  BY DEF Larger

LEMMA TypeInit == Init => TypeOK
  BY BoundAssumption DEF Init, TypeOK, Steps

LEMMA GotoType ==
  ASSUME TypeOK, NEW p \in Process, NEW step \in Steps, Goto(p, step)
  PROVE  pc' \in [Process -> Steps]
  BY DEF TypeOK, Goto

LEMMA FaultType ==
  ASSUME TypeOK, Fault
  PROVE  faults' \in 0 .. MaxFaults
  BY BoundAssumption DEF TypeOK, Fault

LEMMA TypeStep == TypeOK /\ [Next]_vars => TypeOK'
  <1>. SUFFICES ASSUME TypeOK, [Next]_vars PROVE TypeOK'
    OBVIOUS
  <1>. USE BoundAssumption
  <1>1. CASE UNCHANGED vars
    BY <1>1 DEF TypeOK, vars, clocks, local, files, venue
  <1>2. CASE Clock
    BY <1>2 DEF TypeOK, Clock, local, files, venue
  <1>3. CASE LoseFile
    BY <1>3, FaultType DEF TypeOK, LoseFile, clocks, local, venue
  <1>4. ASSUME NEW p \in Process, for_trading(p) PROVE TypeOK'
    BY <1>4, GotoType
       DEF TypeOK, for_trading, Steps, clocks, local, files, venue
  <1>5. ASSUME NEW p \in Process, _load(p) \/ LoadOne(p) PROVE TypeOK'
    <2>1. PICK a \in 0 .. MaxNonce, b \in 0 .. MaxNonce : Seeded(p, a, b)
      BY <1>5 DEF _load, LoadOne, TypeOK
    <2>2. faults' \in 0 .. MaxFaults
      BY <1>5, FaultType DEF _load, LoadOne, TypeOK
    <2>3. Larger(a, b) \in 0 .. MaxNonce
      BY DEF Larger
    <2>. QED
      BY <2>1, <2>2, <2>3, GotoType DEF TypeOK, Seeded, Steps, clocks, files, venue
  <1>6. ASSUME NEW p \in Process, Forget(p), faults' \in 0 .. MaxFaults
        PROVE  TypeOK'
    BY <1>6, GotoType DEF TypeOK, Forget, Steps, clocks, files, venue
  <1>7. ASSUME NEW p \in Process, close(p) \/ Crash(p) PROVE TypeOK'
    <2>1. faults' \in 0 .. MaxFaults
      BY <1>7, FaultType DEF close, Crash, TypeOK
    <2>. QED
      BY <1>6, <1>7, <2>1 DEF close, Crash
  <1>8. ASSUME NEW p \in Process, NEW call \in {"next", "reanchor"},
               NEW k \in Nat, Persist(p, call, k)
        PROVE  TypeOK'
    BY <1>8, GotoType DEF TypeOK, Persist, Steps, clocks, files, venue
  <1>9. ASSUME NEW p \in Process, next(p) PROVE TypeOK'
    <2>1. NextNonce(p) \in Nat
      BY DEF TypeOK, NextNonce, Larger
    <2>. QED
      BY <1>8, <1>9, <2>1 DEF next
  <1>10. ASSUME NEW p \in Process, reanchor(p) PROVE TypeOK'
    <2>1. accepted \in Nat
      BY DEF TypeOK
    <2>. QED
      BY <1>8, <1>10, <2>1 DEF reanchor
  <1>11. ASSUME NEW p \in Process, ReanchorNoOp(p) PROVE TypeOK'
    BY <1>11 DEF TypeOK, ReanchorNoOp, clocks, files, venue
  <1>12. ASSUME NEW p \in Process, WritePrimary(p) PROVE TypeOK'
    BY <1>12, GotoType DEF TypeOK, WritePrimary, Steps, clocks, local, venue
  <1>13. ASSUME NEW p \in Process, WriteMirror(p) PROVE TypeOK'
    <2>1. pc' \in [Process -> Steps]
      BY <1>13, GotoType DEF WriteMirror, Steps
    <2>2. last' \in [Process -> 0 .. MaxNonce] /\ mirror' \in 0 .. MaxNonce
      BY <1>13 DEF WriteMirror, TypeOK
    <2>3. reanchored' \in [Process -> BOOLEAN]
      BY <1>13 DEF WriteMirror, TypeOK
    <2>. QED
      BY <1>13, <2>1, <2>2, <2>3 DEF TypeOK, WriteMirror, clocks, venue
  <1>14. ASSUME NEW p \in Process, WriteFails(p) PROVE TypeOK'
    BY <1>14, GotoType, FaultType
       DEF TypeOK, WriteFails, Steps, clocks, local, files, venue
  <1>15. ASSUME NEW p \in Process, Sign(p) PROVE TypeOK'
    <2>1. issued' \in 0 .. MaxNonce /\ accepted' \in 0 .. MaxNonce
      BY <1>15 DEF TypeOK, Sign, Larger
    <2>. QED
      BY <1>15, <2>1, GotoType DEF TypeOK, Sign, Steps, clocks, local, files
  <1>. QED
    BY <1>1, <1>2, <1>3, <1>4, <1>5, <1>7, <1>9, <1>10, <1>11, <1>12, <1>13,
       <1>14, <1>15 DEF Next

\* The clocks, the lock, the processes, the files and the venue stay in
\* their ranges, whatever is missing, fails or dies.
THEOREM TypeCorrect == Spec => []TypeOK
  BY TypeInit, TypeStep, PTL DEF Spec
-----------------------------------------------------------------------------
(* The invariant.                                                          *)

\* While one process is up, or the lock is free, the others are down.
LEMMA OthersOff ==
  ASSUME IInv, NEW p \in Process, NEW q \in Process,
         (p # q /\ pc[p] # "off") \/ holder = NoProcess
  PROVE  pc[q] = "off" /\ ~reanchored[q]
  BY ProcessAssumption DEF IInv, ProcessAt, LockAt, ReanchorAt, Loaded

\* Nothing is asked of a process that is down.
LEMMA DownIsFine ==
  ASSUME NEW q \in Process, pc'[q] = "off", ~reanchored'[q]
  PROVE  ProcessAt(q)'
  BY DEF ProcessAt, LockAt, MemoryAt, ReanchorAt, Loaded, Persisting

\* An action of p that touches p alone leaves every other process fine.
LEMMA OthersFine ==
  ASSUME IInv, NEW p \in Process, NEW q \in Process, p # q,
         pc[p] # "off" \/ holder = NoProcess,
         pc'[q] = pc[q], reanchored'[q] = reanchored[q]
  PROVE  ProcessAt(q)'
  BY OthersOff, DownIsFine

LEMMA InvInit == Init => IInv
  BY TypeInit DEF Init, IInv, FilesHold, Holds, ProcessAt, LockAt, MemoryAt,
     ReanchorAt, Loaded, Persisting

\* The clocks are in no part of the invariant.
LEMMA ClockKeeps ==
  ASSUME IInv, TypeOK',
         UNCHANGED <<holder, pc, local, files, venue>>
  PROVE  IInv'
  BY DEF IInv, FilesHold, Holds, ProcessAt, LockAt, MemoryAt, ReanchorAt,
     Loaded, Persisting, local, files, venue

LEMMA LoseFileKeeps == ASSUME IInv, TypeOK', LoseFile PROVE IInv'
  <1>1. \A k \in Nat : FilesHold(k) => FilesHold(k)'
    BY DEF LoseFile, FilesHold, Holds
  <1>2. FilesHold(issued)'
    BY <1>1 DEF IInv, TypeOK, LoseFile, venue
  <1>3. ASSUME NEW q \in Process PROVE ProcessAt(q)'
    <2>1. n[q] \in Nat
      BY DEF IInv, TypeOK
    <2>2. /\ Holds(primary, n[q]) => Holds(primary, n[q])'
          /\ FilesHold(n[q]) => FilesHold(n[q])'
      BY <1>1, <2>1 DEF LoseFile, Holds, local
    <2>. QED
      BY <2>2 DEF IInv, ProcessAt, LockAt, MemoryAt, ReanchorAt, Loaded,
         Persisting, LoseFile, local, venue
  <1>. QED
    BY <1>2, <1>3 DEF IInv

LEMMA OpenKeeps ==
  ASSUME IInv, TypeOK', NEW p \in Process, for_trading(p)
  PROVE  IInv'
  <1>1. FilesHold(issued)'
    BY DEF IInv, FilesHold, Holds, for_trading, files, venue
  <1>2. ASSUME NEW q \in Process PROVE ProcessAt(q)'
    <2>1. CASE q # p
      BY <2>1, OthersFine DEF for_trading, Goto, local, IInv, TypeOK
    <2>2. CASE q = p
      <3>1. pc'[p] = "opening" /\ holder' = p /\ ~reanchored'[p]
        BY OthersOff DEF for_trading, Goto, local, IInv, TypeOK
      <3>. QED
        BY <2>2, <3>1
           DEF ProcessAt, LockAt, MemoryAt, ReanchorAt, Loaded, Persisting
    <2>. QED
      BY <2>1, <2>2
  <1>. QED
    BY <1>1, <1>2 DEF IInv

LEMMA LoadKeeps ==
  ASSUME IInv, TypeOK', NEW p \in Process, _load(p) \/ LoadOne(p)
  PROVE  IInv'
  <1>1. FilesHold(issued)'
    BY DEF IInv, FilesHold, Holds, _load, LoadOne, Seeded, files, venue
  <1>2. PICK a \in {0, primary}, b \in {0, mirror} :
           /\ Seeded(p, a, b)
           /\ \/ a = primary /\ b = mirror
              \/ a = 0 /\ b # 0
              \/ a # 0 /\ b = 0
    BY DEF _load, LoadOne
  <1>3. a \in Nat /\ b \in Nat /\ issued \in Nat
    BY DEF IInv, TypeOK
  <1>4. Larger(a, b) >= issued
    BY <1>2, <1>3 DEF IInv, TypeOK, FilesHold, Holds, Larger
  <1>5. ASSUME NEW q \in Process PROVE ProcessAt(q)'
    <2>1. CASE q # p
      BY <1>2, <2>1, OthersFine DEF Seeded, Goto, IInv, TypeOK
    <2>2. CASE q = p
      <3>1. /\ pc[p] = "opening" /\ pc'[p] = "ready"
            /\ last'[p] = Larger(a, b) /\ issued' = issued
            /\ holder' = holder /\ reanchored'[p] = reanchored[p]
        BY <1>2 DEF Seeded, Goto, IInv, TypeOK, venue
      <3>2. holder = p /\ ~reanchored[p]
        BY <3>1 DEF IInv, ProcessAt, LockAt, ReanchorAt, Loaded
      <3>. QED
        BY <1>4, <2>2, <3>1, <3>2
           DEF ProcessAt, LockAt, MemoryAt, ReanchorAt, Loaded, Persisting
    <2>. QED
      BY <2>1, <2>2
  <1>. QED
    BY <1>1, <1>5 DEF IInv

LEMMA ForgetKeeps ==
  ASSUME IInv, TypeOK', NEW p \in Process, Forget(p), pc[p] # "off"
  PROVE  IInv'
  <1>1. FilesHold(issued)'
    BY DEF IInv, FilesHold, Holds, Forget, files, venue
  <1>2. ASSUME NEW q \in Process PROVE ProcessAt(q)'
    <2>1. CASE q # p
      BY <2>1, OthersFine DEF Forget, Goto, IInv, TypeOK
    <2>2. CASE q = p
      BY <2>2, DownIsFine DEF Forget, Goto, IInv, TypeOK
    <2>. QED
      BY <2>1, <2>2
  <1>. QED
    BY <1>1, <1>2 DEF IInv

LEMMA PersistKeeps ==
  ASSUME IInv, TypeOK', NEW p \in Process, pc[p] = "ready",
         NEW call \in {"next", "reanchor"}, NEW k \in Nat,
         Persist(p, call, k), k > last[p],
         call = "reanchor" => k >= accepted
  PROVE  IInv'
  <1>1. FilesHold(issued)'
    BY DEF IInv, FilesHold, Holds, Persist, files, venue
  <1>2. ASSUME NEW q \in Process PROVE ProcessAt(q)'
    <2>1. CASE q # p
      BY <2>1, OthersFine DEF Persist, Goto, IInv, TypeOK
    <2>2. CASE q = p
      <3>1. /\ pc'[p] = "primary" /\ op'[p] = call /\ n'[p] = k
            /\ UNCHANGED <<last, reanchored, holder, issued, accepted>>
        BY DEF Persist, Goto, IInv, TypeOK, venue
      <3>2. holder = p /\ last[p] >= issued
            /\ (reanchored[p] => last[p] >= accepted)
        BY DEF IInv, ProcessAt, LockAt, MemoryAt, ReanchorAt, Loaded
      <3>. QED
        BY <2>2, <3>1, <3>2
           DEF ProcessAt, LockAt, MemoryAt, ReanchorAt, Loaded, Persisting
    <2>. QED
      BY <2>1, <2>2
  <1>. QED
    BY <1>1, <1>2 DEF IInv

LEMMA NoOpKeeps ==
  ASSUME IInv, TypeOK', NEW p \in Process, ReanchorNoOp(p)
  PROVE  IInv'
  <1>1. FilesHold(issued)'
    BY DEF IInv, FilesHold, Holds, ReanchorNoOp, files, venue
  <1>2. ASSUME NEW q \in Process PROVE ProcessAt(q)'
    <2>1. CASE q # p
      BY <2>1, OthersFine DEF ReanchorNoOp, IInv, TypeOK
    <2>2. CASE q = p
      <3>1. UNCHANGED <<holder, pc, last, issued, accepted>>
        BY DEF ReanchorNoOp, venue
      <3>2. holder = p /\ last[p] >= issued /\ last[p] >= accepted
        BY DEF ReanchorNoOp, IInv, TypeOK, ProcessAt, LockAt, MemoryAt, Loaded
      <3>. QED
        BY <2>2, <3>1, <3>2 DEF ReanchorNoOp, ProcessAt, LockAt, MemoryAt,
           ReanchorAt, Loaded, Persisting
    <2>. QED
      BY <2>1, <2>2
  <1>. QED
    BY <1>1, <1>2 DEF IInv
LEMMA PrimaryKeeps ==
  ASSUME IInv, TypeOK', NEW p \in Process, WritePrimary(p)
  PROVE  IInv'
  <1>1. /\ pc[p] = "primary" /\ pc'[p] = "mirror" /\ primary' = n[p]
        /\ UNCHANGED <<holder, op, last, n, reanchored, mirror>>
        /\ UNCHANGED <<issued, accepted>>
    BY DEF WritePrimary, Goto, IInv, TypeOK, local, venue
  <1>2. /\ holder = p /\ n[p] > last[p] /\ last[p] >= issued
        /\ n[p] \in Nat /\ last[p] \in Nat /\ issued \in Nat
    BY <1>1 DEF IInv, TypeOK, ProcessAt, LockAt, MemoryAt, Loaded, Persisting
  <1>3. FilesHold(issued)'
    BY <1>1, <1>2 DEF IInv, FilesHold, Holds
  <1>4. ASSUME NEW q \in Process PROVE ProcessAt(q)'
    <2>1. CASE q # p
      BY <2>1, <1>1, OthersFine DEF WritePrimary, Goto, IInv, TypeOK
    <2>2. CASE q = p
      <3>1. LockAt(p)'
        BY <1>1, <1>2 DEF LockAt
      <3>2. MemoryAt(p)'
        BY <1>1, <1>2 DEF MemoryAt, Loaded, Persisting, Holds
      <3>3. ReanchorAt(p)'
        BY <1>1 DEF IInv, ProcessAt, ReanchorAt, Loaded, Persisting
      <3>. QED
        BY <2>2, <3>1, <3>2, <3>3 DEF ProcessAt
    <2>. QED
      BY <2>1, <2>2
  <1>. QED
    BY <1>3, <1>4 DEF IInv

LEMMA MirrorKeeps ==
  ASSUME IInv, TypeOK', NEW p \in Process, WriteMirror(p)
  PROVE  IInv'
  <1>1. /\ pc[p] = "mirror" /\ mirror' = n[p] /\ last'[p] = n[p]
        /\ UNCHANGED <<holder, op, n, primary, issued, accepted>>
    BY DEF WriteMirror, IInv, TypeOK, venue
  <1>2. /\ holder = p /\ n[p] > last[p] /\ last[p] >= issued
        /\ Holds(primary, n[p])
        /\ n[p] \in Nat /\ last[p] \in Nat /\ issued \in Nat
    BY <1>1 DEF IInv, TypeOK, ProcessAt, LockAt, MemoryAt, Loaded, Persisting
  <1>3. FilesHold(issued)' /\ FilesHold(n[p])'
    BY <1>1, <1>2 DEF IInv, FilesHold, Holds
  <1>4. \/ op[p] = "next" /\ pc'[p] = "sign" /\ UNCHANGED reanchored
        \/ op[p] = "reanchor" /\ pc'[p] = "ready" /\ reanchored'[p] = TRUE
    BY DEF WriteMirror, Goto, IInv, TypeOK
  <1>5. /\ op[p] = "reanchor" => n[p] >= accepted
        /\ reanchored[p] => last[p] >= accepted
        /\ accepted \in Nat
    BY <1>1 DEF IInv, TypeOK, ProcessAt, ReanchorAt, Loaded, Persisting
  <1>6. ASSUME NEW q \in Process PROVE ProcessAt(q)'
    <2>1. CASE q # p
      <3>1. pc'[q] = pc[q] /\ reanchored'[q] = reanchored[q]
        BY <2>1 DEF WriteMirror, Goto, IInv, TypeOK
      <3>. QED
        BY <2>1, <3>1, <1>1, OthersFine
    <2>2. CASE q = p
      <3>1. LockAt(p)'
        BY <1>1, <1>2 DEF LockAt
      <3>2. MemoryAt(p)'
        BY <1>1, <1>2, <1>3, <1>4 DEF MemoryAt, Loaded, Persisting
      <3>3. ReanchorAt(p)'
        BY <1>1, <1>2, <1>4, <1>5 DEF ReanchorAt, Loaded, Persisting
      <3>. QED
        BY <2>2, <3>1, <3>2, <3>3 DEF ProcessAt
    <2>. QED
      BY <2>1, <2>2
  <1>. QED
    BY <1>3, <1>6 DEF IInv

LEMMA FailKeeps ==
  ASSUME IInv, TypeOK', NEW p \in Process, WriteFails(p)
  PROVE  IInv'
  <1>1. FilesHold(issued)'
    BY DEF IInv, FilesHold, Holds, WriteFails, files, venue
  <1>2. ASSUME NEW q \in Process PROVE ProcessAt(q)'
    <2>1. CASE q # p
      BY <2>1, OthersFine DEF WriteFails, Goto, IInv, TypeOK, local
    <2>2. CASE q = p
      <3>1. /\ pc[p] \in {"primary", "mirror"} /\ pc'[p] = "ready"
            /\ UNCHANGED <<holder, last, reanchored, issued, accepted>>
        BY DEF WriteFails, Goto, IInv, TypeOK, local, venue
      <3>. QED
        BY <2>2, <3>1 DEF IInv, ProcessAt, LockAt, MemoryAt, ReanchorAt,
           Loaded, Persisting
    <2>. QED
      BY <2>1, <2>2
  <1>. QED
    BY <1>1, <1>2 DEF IInv

LEMMA SignKeeps ==
  ASSUME IInv, TypeOK', NEW p \in Process, Sign(p)
  PROVE  IInv' /\ issued' > issued
  <1>1. /\ pc[p] = "sign" /\ pc'[p] = "ready" /\ issued' = n[p]
        /\ UNCHANGED <<holder, op, last, n, reanchored, primary, mirror>>
    BY DEF Sign, Goto, IInv, TypeOK, local, files
  <1>2. /\ holder = p /\ n[p] = last[p] /\ n[p] > issued
        /\ FilesHold(n[p]) /\ n[p] \in Nat
    BY <1>1 DEF IInv, TypeOK, ProcessAt, LockAt, MemoryAt, Loaded
  <1>3. reanchored[p] => accepted' <= n[p]
    <2>1. reanchored[p] => n[p] > accepted
      BY <1>1 DEF IInv, ProcessAt, ReanchorAt, Loaded
    <2>2. accepted \in Nat
      BY DEF IInv, TypeOK
    <2>. QED
      BY <1>2, <2>1, <2>2 DEF Sign, Larger
  <1>4. FilesHold(issued)'
    BY <1>1, <1>2 DEF FilesHold, Holds
  <1>5. ASSUME NEW q \in Process PROVE ProcessAt(q)'
    <2>1. CASE q # p
      BY <2>1, OthersFine DEF Sign, Goto, IInv, TypeOK, local
    <2>2. CASE q = p
      <3>1. accepted' \in Nat
        BY DEF TypeOK
      <3>. QED
        BY <2>2, <3>1, <1>1, <1>2, <1>3
           DEF ProcessAt, LockAt, MemoryAt, ReanchorAt, Loaded, Persisting
    <2>. QED
      BY <2>1, <2>2
  <1>. QED
    BY <1>1, <1>2, <1>4, <1>5 DEF IInv

LEMMA NextNonceAbove ==
  ASSUME TypeOK, NEW p \in Process
  PROVE  NextNonce(p) \in Nat /\ NextNonce(p) > last[p]
  BY DEF TypeOK, NextNonce, Larger

\* Only Sign moves issued; every step keeps the invariant.
LEMMA InvStep ==
  IInv /\ [Next]_vars => IInv' /\ (issued' # issued => issued' > issued)
  <1>. SUFFICES ASSUME IInv, [Next]_vars
                PROVE  IInv' /\ (issued' # issued => issued' > issued)
    OBVIOUS
  <1>. TypeOK'
    BY TypeStep DEF IInv
  <1>1. CASE UNCHANGED vars
    BY <1>1, ClockKeeps DEF vars, venue
  <1>2. CASE Clock
    BY <1>2, ClockKeeps DEF Clock, venue
  <1>3. CASE LoseFile
    BY <1>3, LoseFileKeeps DEF LoseFile, venue
  <1>4. ASSUME NEW p \in Process, for_trading(p)
        PROVE  IInv' /\ issued' = issued
    BY <1>4, OpenKeeps DEF for_trading, venue
  <1>5. ASSUME NEW p \in Process, _load(p) \/ LoadOne(p)
        PROVE  IInv' /\ issued' = issued
    BY <1>5, LoadKeeps DEF _load, LoadOne, Seeded, venue
  <1>6. ASSUME NEW p \in Process, close(p) \/ Crash(p)
        PROVE  IInv' /\ issued' = issued
    BY <1>6, ForgetKeeps DEF close, Crash, Forget, venue
  <1>7. ASSUME NEW p \in Process, next(p) PROVE IInv' /\ issued' = issued
    BY <1>7, NextNonceAbove, PersistKeeps DEF next, Persist, IInv, venue
  <1>8. ASSUME NEW p \in Process, reanchor(p) PROVE IInv' /\ issued' = issued
    <2>1. accepted \in Nat /\ accepted >= accepted
      BY DEF IInv, TypeOK
    <2>2. /\ pc[p] = "ready" /\ accepted > last[p]
          /\ Persist(p, "reanchor", accepted)
      BY <1>8 DEF reanchor
    <2>3. IInv'
      BY <2>1, <2>2, PersistKeeps
    <2>. QED
      BY <2>2, <2>3 DEF Persist, venue
  <1>9. ASSUME NEW p \in Process, ReanchorNoOp(p)
        PROVE  IInv' /\ issued' = issued
    BY <1>9, NoOpKeeps DEF ReanchorNoOp, venue
  <1>10. ASSUME NEW p \in Process, WritePrimary(p)
         PROVE  IInv' /\ issued' = issued
    BY <1>10, PrimaryKeeps DEF WritePrimary, venue
  <1>11. ASSUME NEW p \in Process, WriteMirror(p)
         PROVE  IInv' /\ issued' = issued
    BY <1>11, MirrorKeeps DEF WriteMirror, venue
  <1>12. ASSUME NEW p \in Process, WriteFails(p)
         PROVE  IInv' /\ issued' = issued
    BY <1>12, FailKeeps DEF WriteFails, venue
  <1>13. ASSUME NEW p \in Process, Sign(p) PROVE IInv' /\ issued' > issued
    BY <1>13, SignKeeps
  <1>. QED
    BY <1>1, <1>2, <1>3, <1>4, <1>5, <1>6, <1>7, <1>8, <1>9, <1>10, <1>11,
       <1>12, <1>13 DEF Next

-----------------------------------------------------------------------------
(* The theorems.                                                           *)

\* The invariant holds of every behaviour: the lock, the memory of its
\* holder, the files and the venue agree as IInv says.
THEOREM InductiveInvariant == Spec => []IInv
  BY InvInit, InvStep, PTL DEF Spec

\* No two requests of the signer carry the same number or go back, whichever
\* processes sent them and whatever failed in between.
THEOREM NoncesIncrease == Spec => NonceIncreases
  <1>1. IInv /\ [Next]_vars => [issued' # issued => issued' > issued]_vars
    BY InvStep
  <1>. QED
    BY <1>1, InductiveInvariant, PTL DEF Spec, NonceIncreases

\* A signed number is in a file before it is used, and one file is enough to
\* start above it.
THEOREM AlwaysDurable == Spec => []IssuedIsDurable
  <1>1. IInv => IssuedIsDurable
    BY DEF IInv, TypeOK, FilesHold, Holds, IssuedIsDurable, Larger
  <1>. QED
    BY <1>1, InductiveInvariant, PTL

\* The process that may sign knows of every number signed before.
THEOREM MemoryAlwaysCurrent == Spec => []MemoryIsCurrent
  <1>1. IInv => MemoryIsCurrent
    BY DEF IInv, ProcessAt, MemoryAt, Loaded, MemoryIsCurrent
  <1>. QED
    BY <1>1, InductiveInvariant, PTL

\* After a reanchor nothing the venue has seen is signed again, even when it
\* was accepted before the files existed.
THEOREM ReanchorHolds == Spec => []ReanchoredAboveVenue
  <1>1. IInv => ReanchoredAboveVenue
    BY DEF IInv, ProcessAt, ReanchorAt, Loaded, ReanchoredAboveVenue
  <1>. QED
    BY <1>1, InductiveInvariant, PTL
=============================================================================
