---------------------------- MODULE DaemonProofs ----------------------------
(***************************************************************************)
(* Safety of the daemon, for every value of the constants: type            *)
(* correctness; the inductive invariant IInv, the safety properties it     *)
(* implies and the refinement of DailyTrader; and what the daemon's past   *)
(* says about its windows: attempts are paced, and a day lost to a crash   *)
(* is warned about, across any number of crashes.                          *)
(***************************************************************************)
EXTENDS Daemon, TLAPS

-----------------------------------------------------------------------------
(***************************************************************************)
(* The values the steps compute are well-formed.                           *)
(***************************************************************************)

\* The clock readings run_once works with.
LEMMA ClockTypes ==
    TypeOK => /\ Now \in Nat
              /\ Expected \in OrNone(AsOf)
              /\ Expected # None => Expected < day
              /\ None \notin Nat
  BY SchedulerAssumption, SMT
     DEF TypeOK, Now, Expected, Instant, expected_as_of, OrNone, AsOf

\* None is a value of every optional field.
LEMMA NoneTypes ==
    /\ \A S : None \in OrNone(S) /\ S \subseteq OrNone(S)
    /\ AsOf \subseteq Nat
    /\ OrNone(AsOf) \subseteq OrNone(AsOf \cup {Cash})
    /\ OrNone(AsOf) \subseteq OrNone(AsOf \cup {Stamp})
    /\ Cash \in OrNone(AsOf \cup {Cash}) /\ Stamp \in OrNone(AsOf \cup {Stamp})
  BY DEF OrNone, AsOf

\* Every rewrite of the state file keeps it well-formed.
LEMMA FieldTypes ==
  ASSUME NEW s \in State, NEW d \in OrNone(AsOf), NEW n \in Nat
  PROVE  /\ [s EXCEPT !.last_scheduled_as_of = d] \in State
         /\ [s EXCEPT !.signal_anchor = n] \in State
         /\ [s EXCEPT !.retry_last_attempt = n] \in State
  BY NoneTypes, Zenon DEF State

LEMMA ClearTypes ==
  ASSUME NEW s \in State
  PROVE  _clear_retry(s) \in State /\ _clear_recheck(s) \in State
  BY NoneTypes, Zenon DEF State, _clear_retry, _clear_recheck

LEMMA CommitTypes ==
  ASSUME NEW s \in State,
         NEW t \in OrNone(AsOf \cup {Cash}),
         NEW d \in OrNone(AsOf \cup {Stamp})
  PROVE  Committed(s, t, d) \in State
  BY Zenon DEF State, Committed

LEMMA BestEffortTypes ==
  ASSUME NEW s \in State
  PROVE  BestEffortCommitted(s) \in State
  <1>1. /\ s.retry_target \in OrNone(AsOf \cup {Cash})
        /\ s.retry_as_of \in OrNone(AsOf \cup {Stamp})
    BY NoneTypes, Zenon DEF State
  <1>2. [s EXCEPT !.last_rebalanced_target = s.retry_target,
                  !.last_rebalanced_as_of = s.retry_as_of] \in State
    BY <1>1, CommitTypes DEF Committed
  <1>. QED
    BY <1>2, ClearTypes DEF BestEffortCommitted

LEMMA ExhaustedTypes ==
  ASSUME NEW s \in State, NEW d \in OrNone(AsOf)
  PROVE  Exhausted(s, d) \in State
  <1>1. [s EXCEPT !.last_scheduled_as_of = d,
                  !.recheck_exhausted_as_of = d] \in State
    BY Zenon DEF State
  <1>. QED
    BY <1>1, ClearTypes DEF Exhausted

LEMMA WindowTypes ==
  ASSUME TypeOK, NEW s \in State
  PROVE  /\ Restored(s) \in State
         /\ Rechecking(s) \in State
         /\ RetryOpened(s) \in State
         /\ Marked(s) \in State
         /\ StampedRetry(s) \in State
  <1>1. Now \in OrNone(Nat) /\ as_of \in OrNone(AsOf)
        /\ prev_scheduled \in OrNone(AsOf)
    BY ClockTypes, NoneTypes DEF TypeOK
  <1>2. (IF s.recheck_as_of = as_of THEN s.recheck_window_start ELSE Now)
            \in OrNone(Nat)
    BY <1>1, Zenon DEF State
  <1>3. Restored(s) \in State /\ Marked(s) \in State
    BY <1>1, Zenon DEF State, Restored, Marked
  <1>4. StampedRetry(s) \in State
    BY <1>1, Zenon DEF State, StampedRetry
  <1>5. RetryOpened(s) \in State
    BY <1>1, Zenon DEF State, RetryOpened
  <1>6. Rechecking(s) \in State
    BY <1>1, <1>2, Zenon DEF State, Rechecking
  <1>. QED
    BY <1>3, <1>4, <1>5, <1>6

\* Whatever a save does, memory, file and fault count stay well-formed.
LEMMA SaveTypes ==
  ASSUME TypeOK, NEW s \in State, GuardedSave(s)
  PROVE  mem' \in State /\ disk' \in State /\ faults' \in Nat
  BY DEF TypeOK, GuardedSave, SaveOk, SaveRaises

\* The boot check's log entry.
LEMMA BootLogType ==
  ASSUME TypeOK, BootCheck
  PROVE  boot_log' \in SUBSET BootCheckEntry
  <1>1. CASE ~boot_checked /\ LostDay
    <2>1. mem.last_scheduled_as_of \in AsOf
      BY <1>1 DEF TypeOK, State, LostDay, OrNone
    <2>. DEFINE c == mem.last_scheduled_as_of = Expected
                e == recheck_enabled
                r == mem.recheck_as_of = mem.last_scheduled_as_of
                w == SuspectDropped(Expected)
    <2>2. c \in BOOLEAN /\ e \in BOOLEAN /\ r \in BOOLEAN /\ w \in BOOLEAN
      BY Zenon DEF SuspectDropped, TypeOK
    <2>3. [day |-> mem.last_scheduled_as_of, current |-> c, enabled |-> e,
           rechecking |-> r, warned |-> w] \in BootCheckEntry
      <3>. HIDE DEF c, e, r, w
      <3>. QED
        BY <2>1, <2>2, Zenon DEF BootCheckEntry
    <2>4. boot_log' =
            {[day |-> mem.last_scheduled_as_of, current |-> c, enabled |-> e,
              rechecking |-> r, warned |-> w]}
      BY <1>1, Zenon DEF BootCheck
    <2>. QED
      <3>. HIDE DEF c, e, r, w
      <3>. QED
        BY <2>3, <2>4, Zenon DEF TypeOK
  <1>2. CASE ~(~boot_checked /\ LostDay)
    BY <1>2 DEF BootCheck, TypeOK
  <1>. QED
    BY <1>1, <1>2

-----------------------------------------------------------------------------
(***************************************************************************)
(* Type correctness.                                                       *)
(***************************************************************************)

LEMMA TickTypes ==
  ASSUME TypeOK, Tick
  PROVE  TypeOK'
  <1>. USE DEF clock, config, operator, history
  <1>1. CASE TickKilled
    BY <1>1 DEF TickKilled, TypeOK
  <1>2. CASE TickExpired
    BY <1>2 DEF TickExpired, TypeOK
  <1>3. CASE TickHolds
    BY <1>3, BootLogType DEF TickHolds, TypeOK, Steps, Firing
  <1>4. CASE _best_effort_commit
    BY <1>4, BootLogType, BestEffortTypes, SaveTypes
       DEF _best_effort_commit, TypeOK, Steps, Firing
  <1>5. CASE StartRetry
    BY <1>5, BootLogType, WindowTypes, SaveTypes
       DEF StartRetry, TypeOK, Steps, Firing, GuardedSave
  <1>6. CASE RecheckExhausted
    <2>1. Expected \in AsOf
      BY <1>6, ClockTypes
         DEF RecheckExhausted, Fires, should_fire, Expected, OrNone
    <2>. QED
      <3>1. Exhausted(mem, Expected) \in State
        BY <2>1, ExhaustedTypes, NoneTypes DEF TypeOK
      <3>2. mem' \in State /\ disk' \in State /\ faults' \in Nat
        BY <1>6, <3>1, SaveTypes DEF RecheckExhausted
      <3>3. pc' \in Steps /\ pc' \notin Firing
        BY <1>6 DEF RecheckExhausted, Steps, Firing
      <3>4. concluded' \in SUBSET AsOf
        BY <1>6, <2>1 DEF RecheckExhausted, TypeOK
      <3>. QED
        BY <1>6, <3>2, <3>3, <3>4, BootLogType DEF RecheckExhausted, TypeOK
  <1>7. CASE StartFire
    <2>1. as_of' \in OrNone(AsOf) /\ as_of' # None
      BY <1>7, ClockTypes DEF StartFire, Fires, should_fire, Expected
    <2>. QED
      BY <1>7, <2>1, BootLogType DEF StartFire, TypeOK, Steps
  <1>. QED
    BY <1>1, <1>2, <1>3, <1>4, <1>5, <1>6, <1>7 DEF Tick

LEMMA RetryAttemptTypes ==
  ASSUME TypeOK, RetryAttempt
  PROVE  TypeOK'
  <1>. USE DEF clock, config, operator, history, Goto, Return
  <1>n. Now \in Nat /\ Now \in OrNone(Nat)
    BY ClockTypes, NoneTypes
  <1>s. [mem EXCEPT !.signal_anchor = Now] \in State
    BY <1>n, FieldTypes, NoneTypes DEF TypeOK
  <1>1. CASE RetryWithoutOrders
    BY <1>1, <1>n, <1>s, SaveTypes, NoneTypes
       DEF RetryWithoutOrders, TypeOK, Steps, Firing
  <1>2. CASE RetrySends
    BY <1>2, <1>n, <1>s DEF RetrySends, SaveOk, TypeOK, Steps, Firing
  <1>3. CASE RetryClean
    <2>1. /\ mem.retry_target \in OrNone(AsOf \cup {Cash})
          /\ mem.retry_as_of \in OrNone(AsOf \cup {Stamp})
      BY NoneTypes, Zenon DEF TypeOK, State
    <2>2. Committed(mem, mem.retry_target, mem.retry_as_of) \in State
      BY <2>1, CommitTypes DEF TypeOK
    <2>. QED
      BY <1>3, <2>2, SaveTypes, NoneTypes
         DEF RetryClean, GuardedSave, TypeOK, Steps, Firing
  <1>4. CASE RetryDirty
    BY <1>4, NoneTypes DEF RetryDirty, TypeOK, Steps, Firing
  <1>5. CASE RetryCleared
    BY <1>5, ClearTypes, SaveTypes, NoneTypes DEF RetryCleared, TypeOK, Steps, Firing
  <1>. QED
    BY <1>1, <1>2, <1>3, <1>4, <1>5 DEF RetryAttempt

LEMMA RunCycleTypes ==
  ASSUME TypeOK, RunCycle
  PROVE  TypeOK'
  <1>. USE DEF clock, config, operator, history, Goto, Report
  <1>n. Now \in Nat /\ Now \in OrNone(Nat)
    BY ClockTypes, NoneTypes
  <1>s. [mem EXCEPT !.signal_anchor = Now] \in State
    BY <1>n, FieldTypes, NoneTypes DEF TypeOK
  <1>r. Reports \subseteq OrNone(Reports)
    BY NoneTypes
  <1>1. CASE CycleRaises
    BY <1>1, <1>r DEF CycleRaises, TypeOK, Steps, Firing, Reports
  <1>2. CASE FirstCycle
    BY <1>2, <1>s, <1>r, SaveTypes
       DEF FirstCycle, CycleStep, GuardedSave, TypeOK, Steps, Firing, Reports
  <1>3. CASE NoSignalHold
    BY <1>3, <1>r DEF NoSignalHold, TypeOK, Steps, Firing, Reports
  <1>4. CASE DeriskFlatten
    BY <1>4 DEF DeriskFlatten, TypeOK, Steps, Firing
  <1>5. CASE DeriskCommit
    <2>1. Committed(mem, Cash, Stamp) \in State
      BY CommitTypes, NoneTypes DEF TypeOK
    <2>. QED
      BY <1>5, <2>1, <1>r, SaveTypes
         DEF DeriskCommit, GuardedSave, TypeOK, Steps, Firing, Reports
  <1>6. CASE SignalServed
    BY <1>6, <1>s, <1>r, SaveTypes
       DEF SignalServed, CycleStep, GuardedSave, TypeOK, Steps, Firing, Reports
  <1>7. CASE NothingSent
    BY <1>7, <1>r DEF NothingSent, TypeOK, Steps, Firing, Reports
  <1>8. CASE SendOrders
    BY <1>8, <1>n DEF SendOrders, TypeOK, Steps, Firing
  <1>9. CASE ExecutedClean
    <2>1. Committed(mem, as_of, as_of) \in State
      BY CommitTypes, NoneTypes DEF TypeOK
    <2>. QED
      BY <1>9, <2>1, <1>r, SaveTypes
         DEF ExecutedClean, GuardedSave, TypeOK, Steps, Firing, Reports
  <1>10. CASE ExecutedDirty
    BY <1>10, <1>r DEF ExecutedDirty, TypeOK, Steps, Firing, Reports
  <1>. QED
    BY <1>1, <1>2, <1>3, <1>4, <1>5, <1>6, <1>7, <1>8, <1>9, <1>10
       DEF RunCycle

LEMMA FireTypes ==
  ASSUME TypeOK, Fire
  PROVE  TypeOK'
  <1>. USE DEF clock, config, operator, history, Goto, Return
  <1>n. Now \in Nat /\ Now \in OrNone(Nat)
    BY ClockTypes, NoneTypes
  <1>m. mem.last_scheduled_as_of \in OrNone(AsOf)
    BY Zenon DEF TypeOK, State
  <1>1. CASE SupersedeRetry
    BY <1>1, ClearTypes, SaveTypes, NoneTypes
       DEF SupersedeRetry, UnguardedStep, GuardedSave, TypeOK, Steps, Firing
  <1>2. CASE SupersedeRecheck
    BY <1>2, ClearTypes, SaveTypes, NoneTypes
       DEF SupersedeRecheck, UnguardedStep, GuardedSave, TypeOK, Steps, Firing
  <1>3. CASE MarkScheduled
    BY <1>3, <1>m, WindowTypes, SaveTypes, NoneTypes
       DEF MarkScheduled, GuardedSave, TypeOK, Steps, Firing
  <1>4. CASE RunCycle
    BY <1>4, RunCycleTypes
  <1>5. CASE RestoreDeferred
    BY <1>5, WindowTypes, SaveTypes DEF RestoreDeferred, TypeOK, Steps, Firing
  <1>6. CASE RestoreHold
    <2>1. Rechecking(Restored(mem)) \in State
      BY WindowTypes DEF TypeOK
    <2>. QED
      BY <1>6, <2>1, <1>n, SaveTypes DEF RestoreHold, TypeOK, Steps, Firing
  <1>7. CASE CloseRecheck
    BY <1>7, ClearTypes, SaveTypes DEF CloseRecheck, TypeOK, Steps, Firing
  <1>8. CASE FlushState
    <2>1. as_of \in AsOf
      BY <1>8 DEF FlushState, TypeOK, Firing, OrNone
    <2>2. concluded' \in SUBSET AsOf
      BY <1>8, <2>1 DEF FlushState, TypeOK
    <2>. QED
      BY <1>8, <2>2, SaveTypes, NoneTypes DEF FlushState, TypeOK, Steps, Firing
  <1>9. CASE OpenRetry
    BY <1>9, WindowTypes, SaveTypes, NoneTypes DEF OpenRetry, TypeOK, Steps, Firing
  <1>. QED
    BY <1>1, <1>2, <1>3, <1>4, <1>5, <1>6, <1>7, <1>8, <1>9 DEF Fire

LEMMA EnvironmentTypes ==
  ASSUME TypeOK, Environment
  PROVE  TypeOK'
  <1>. USE DEF process, clock, config, operator, history, Down
  <1>f. Fault => faults' \in Nat
    BY DEF Fault, TypeOK
  <1>1. CASE Advance
    BY <1>1, SchedulerAssumption DEF Advance, TypeOK
  <1>2. CASE Crash
    <2>1. pc' \in Steps /\ pc' \notin Firing
      BY <1>2 DEF Crash, Steps, Firing
    <2>2. None \in OrNone(AsOf) /\ None \in OrNone(Reports)
      BY NoneTypes
    <2>. QED
      BY <1>2, <2>1, <2>2, <1>f DEF Crash, TypeOK
  <1>3. CASE Restart
    BY <1>3, DaemonAssumption DEF Restart, TypeOK, Steps, Firing
  <1>4. CASE Arm
    BY <1>4, <1>f DEF Arm, TypeOK
  <1>5. CASE Disarm
    BY <1>5 DEF Disarm, TypeOK
  <1>6. CASE KeyExpires
    BY <1>6, <1>f DEF KeyExpires, TypeOK
  <1>7. CASE RotateKey
    BY <1>7, NoneTypes DEF RotateKey, TypeOK, Steps, Firing
  <1>. QED
    BY <1>1, <1>2, <1>3, <1>4, <1>5, <1>6, <1>7 DEF Environment

LEMMA InitTypes == Init => TypeOK
  <1>1. FreshState \in State
    BY NoneTypes, Zenon DEF FreshState, State
  <1>2. Init => retry_enabled \in BOOLEAN /\ recheck_enabled \in BOOLEAN
    BY DaemonAssumption DEF Init
  <1>3. Init => day \in Nat \ {0} /\ tod \in 0 .. DayLen - 1
    BY SchedulerAssumption DEF Init
  <1>4. Init => pc \in Steps /\ pc \notin Firing
    BY DEF Init, Steps, Firing
  <1>5. /\ None \in OrNone(AsOf) /\ None \in OrNone(Nat)
        /\ None \in OrNone(Reports)
    BY NoneTypes
  <1>6. Init => /\ faults \in Nat /\ n_traded \in Nat
                /\ concluded \in SUBSET AsOf
                /\ boot_log \in SUBSET BootCheckEntry
    BY DEF Init
  <1>7. Init => /\ kill_handled \in BOOLEAN /\ boot_checked \in BOOLEAN
                /\ armed \in BOOLEAN /\ expired \in BOOLEAN
                /\ held \in BOOLEAN
    BY Zenon DEF Init
  <1>8. Init => /\ mem \in State /\ disk \in State
                /\ as_of \in OrNone(AsOf) /\ prev_scheduled \in OrNone(AsOf)
                /\ report \in OrNone(Reports)
                /\ last_traded \in OrNone(AsOf)
                /\ attempt_at \in OrNone(Nat)
    BY <1>1, <1>5, Zenon DEF Init
  <1>. QED
    BY <1>2, <1>3, <1>4, <1>6, <1>7, <1>8, Zenon DEF TypeOK

LEMMA NextTypes == TypeOK /\ [Next]_vars => TypeOK'
  <1>1. TypeOK /\ UNCHANGED vars => TypeOK'
    BY DEF TypeOK, vars, clock, process, config, operator, history
  <1>. QED
    BY <1>1, TickTypes, RetryAttemptTypes, FireTypes, EnvironmentTypes
       DEF Next, run_once

\* The daemon's fields, the state file and its copy in memory are well-formed
\* at every step, whatever saves fail (reporting/state.py).
THEOREM TypeCorrect == Spec => []TypeOK
  BY InitTypes, NextTypes, PTL DEF Spec

-----------------------------------------------------------------------------
(***************************************************************************)
(* What each rewrite of the state does to the fields IInv reads.           *)
(***************************************************************************)
LEMMA ClearRetryFields ==
  ASSUME NEW s \in State
  PROVE  LET t == _clear_retry(s)
         IN  /\ t.last_scheduled_as_of = s.last_scheduled_as_of
             /\ t.recheck_exhausted_as_of = s.recheck_exhausted_as_of
             /\ t.last_rebalanced_target = s.last_rebalanced_target
             /\ t.recheck_as_of = s.recheck_as_of
             /\ t.retry_as_of = None
  BY Zenon DEF State, _clear_retry

LEMMA ClearRecheckFields ==
  ASSUME NEW s \in State
  PROVE  LET t == _clear_recheck(s)
         IN  /\ t.last_scheduled_as_of = s.last_scheduled_as_of
             /\ t.recheck_exhausted_as_of = s.recheck_exhausted_as_of
             /\ t.last_rebalanced_target = s.last_rebalanced_target
             /\ t.recheck_as_of = None
             /\ t.retry_as_of = s.retry_as_of
             /\ t.retry_target = s.retry_target
  BY Zenon DEF State, _clear_recheck

SameWindows(s, t) ==
    /\ t.last_scheduled_as_of = s.last_scheduled_as_of
    /\ t.recheck_exhausted_as_of = s.recheck_exhausted_as_of
    /\ t.recheck_as_of = s.recheck_as_of
    /\ t.retry_as_of = s.retry_as_of
    /\ t.retry_target = s.retry_target

LEMMA StampFields ==
  ASSUME NEW s \in State, NEW n
  PROVE  /\ SameWindows(s, [s EXCEPT !.signal_anchor = n])
         /\ [s EXCEPT !.signal_anchor = n].last_rebalanced_target
                = s.last_rebalanced_target
         /\ SameWindows(s, StampedRetry(s))
         /\ StampedRetry(s).last_rebalanced_target = s.last_rebalanced_target
  BY Zenon DEF State, StampedRetry, SameWindows

LEMMA CommitFields ==
  ASSUME NEW s \in State, NEW x, NEW d
  PROVE  /\ SameWindows(s, Committed(s, x, d))
         /\ Committed(s, x, d).last_rebalanced_target = x
  BY Zenon DEF State, Committed, SameWindows

LEMMA BestEffortFields ==
  ASSUME NEW s \in State
  PROVE  LET t == BestEffortCommitted(s)
         IN  /\ t.last_scheduled_as_of = s.last_scheduled_as_of
             /\ t.recheck_exhausted_as_of = s.recheck_exhausted_as_of
             /\ t.last_rebalanced_target = s.retry_target
             /\ t.recheck_as_of = s.recheck_as_of
             /\ t.retry_as_of = None
  BY Zenon DEF State, BestEffortCommitted, _clear_retry

LEMMA ExhaustedFields ==
  ASSUME NEW s \in State, NEW d
  PROVE  LET t == Exhausted(s, d)
         IN  /\ t.last_scheduled_as_of = d
             /\ t.recheck_exhausted_as_of = d
             /\ t.last_rebalanced_target = s.last_rebalanced_target
             /\ t.recheck_as_of = None
             /\ t.retry_as_of = s.retry_as_of
             /\ t.retry_target = s.retry_target
  BY Zenon DEF State, Exhausted, _clear_recheck

LEMMA MarkFields ==
  ASSUME NEW s \in State
  PROVE  LET t == Marked(s)
         IN  /\ t.last_scheduled_as_of = as_of
             /\ t.recheck_exhausted_as_of = s.recheck_exhausted_as_of
             /\ t.last_rebalanced_target = s.last_rebalanced_target
             /\ t.recheck_as_of = s.recheck_as_of
             /\ t.retry_as_of = s.retry_as_of
  BY Zenon DEF State, Marked

LEMMA RestoreFields ==
  ASSUME NEW s \in State
  PROVE  LET t == Restored(s)
         IN  /\ t.last_scheduled_as_of = prev_scheduled
             /\ t.recheck_exhausted_as_of = s.recheck_exhausted_as_of
             /\ t.last_rebalanced_target = s.last_rebalanced_target
             /\ t.retry_as_of = s.retry_as_of
  BY Zenon DEF State, Restored

LEMMA RecheckFields ==
  ASSUME NEW s \in State
  PROVE  LET t == Rechecking(Restored(s))
         IN  /\ t.last_scheduled_as_of = prev_scheduled
             /\ t.recheck_exhausted_as_of = s.recheck_exhausted_as_of
             /\ t.last_rebalanced_target = s.last_rebalanced_target
             /\ t.retry_as_of = s.retry_as_of
  BY Zenon DEF State, Rechecking, Restored

LEMMA RetryFields ==
  ASSUME NEW s \in State
  PROVE  LET t == RetryOpened(s)
         IN  /\ t.last_scheduled_as_of = s.last_scheduled_as_of
             /\ t.recheck_exhausted_as_of = s.recheck_exhausted_as_of
             /\ t.last_rebalanced_target = s.last_rebalanced_target
             /\ t.recheck_as_of = s.recheck_as_of
             /\ t.retry_as_of = as_of
             /\ t.retry_target = as_of
  BY Zenon DEF State, RetryOpened

\* Dates are numbers, so they can be compared.
LEMMA DateTypes ==
  ASSUME NEW s \in State
  PROVE  /\ s.last_scheduled_as_of \in Nat \cup {None}
         /\ s.recheck_exhausted_as_of \in Nat \cup {None}
         /\ s.recheck_as_of \in Nat \cup {None}
         /\ s.retry_as_of \in Nat \cup {None}
  BY Zenon DEF State, OrNone, AsOf

\* What a guarded save can do to the two copies.
LEMMA SaveEffects ==
  ASSUME NEW s, GuardedSave(s)
  PROVE  mem' = s /\ (disk' = s \/ disk' = disk)
  BY DEF GuardedSave, SaveOk, SaveRaises

-----------------------------------------------------------------------------
(***************************************************************************)
(* The invariant is inductive.  One lemma for each part of Next; in each,  *)
(* one step for each action.                                               *)
(***************************************************************************)

\* Everything IInv says beyond the types.
Inv == /\ MarkInv(mem) /\ MarkInv(disk)
       /\ WindowInv(mem) /\ WindowInv(disk)
       /\ FireInv /\ BaselineInv

\* The steps that touch nothing the invariant reads.
LEMMA FrameInv ==
  ASSUME Inv,
         UNCHANGED <<pc, as_of, prev_scheduled, report, mem, disk, day,
                     last_traded>>
  PROVE  Inv'
  BY DEF Inv, MarkInv, WindowInv, FireInv, BaselineInv, Unsent, MarkHeld,
         Revocable, Residual, Covers, Before, Firing

\* A due day is newer than everything the marks cover.
LEMMA NewDay ==
  ASSUME TypeOK, Inv, Fires
  PROVE  /\ Expected \in Nat /\ Expected < day
         /\ Before(mem.last_scheduled_as_of, Expected)
         /\ Before(last_traded, Expected)
  BY ClockTypes, DateTypes, SchedulerAssumption
     DEF TypeOK, Inv, MarkInv, Covers, Before, Fires, should_fire, Expected,
         expected_as_of, OrNone, AsOf

LEMMA TickInv ==
  ASSUME TypeOK, Inv, Tick
  PROVE  Inv'
  <1>. USE DEF clock, history, config, operator
  <1>s. mem \in State /\ disk \in State
    BY DEF TypeOK
  <1>1. CASE TickKilled
    BY <1>1, FrameInv DEF TickKilled
  <1>2. CASE TickExpired
    BY <1>2, FrameInv DEF TickExpired
  <1>3. CASE TickHolds
    BY <1>3, FrameInv DEF TickHolds, Trading
  <1>4. CASE _best_effort_commit
    <2>1. /\ pc = "idle" /\ pc' = "idle" /\ mem.retry_as_of # None
          /\ UNCHANGED <<day, last_traded>>
      BY <1>4 DEF _best_effort_commit, Trading
    <2>2. /\ mem' = BestEffortCommitted(mem)
          /\ disk' = mem' \/ disk' = disk
      BY <1>4, SaveEffects DEF _best_effort_commit
    <2>3. MarkInv(mem)' /\ MarkInv(disk)'
      BY <1>s, <2>1, <2>2, BestEffortFields DEF Inv, MarkInv
    <2>4. WindowInv(mem)' /\ WindowInv(disk)'
      BY <1>s, <2>1, <2>2, BestEffortFields DEF Inv, WindowInv
    <2>5. FireInv'
      BY <2>1 DEF FireInv, Unsent, MarkHeld, Revocable, Residual, Firing
    <2>6. BaselineInv'
      BY <1>s, <2>1, <2>2, BestEffortFields DEF Inv, WindowInv, BaselineInv
    <2>. QED
      BY <2>3, <2>4, <2>5, <2>6 DEF Inv
  <1>5. CASE StartRetry
    <2>1. /\ pc = "idle" /\ pc' \in {"idle", "retry"}
          /\ mem.retry_as_of # None
          /\ UNCHANGED <<day, last_traded>>
      BY <1>5 DEF StartRetry, Trading
    <2>2. /\ mem' = StampedRetry(mem)
          /\ disk' = mem' \/ disk' = disk
      BY <1>5 DEF StartRetry, SaveOk, SaveRaises
    <2>. QED
      BY <1>s, <2>1, <2>2, StampFields
         DEF Inv, MarkInv, WindowInv, FireInv, BaselineInv, SameWindows,
             Unsent, MarkHeld, Revocable, Residual, Firing
  <1>6. CASE RecheckExhausted
    <2>1. /\ pc = "idle" /\ pc' = "idle"
          /\ Fires /\ mem.recheck_as_of = Expected
          /\ UNCHANGED <<day, last_traded>>
      BY <1>6 DEF RecheckExhausted, Trading, RecheckGate
    <2>2. /\ mem' = Exhausted(mem, Expected)
          /\ disk' = mem' \/ disk' = disk
      BY <1>6, SaveEffects DEF RecheckExhausted
    <2>3. mem.retry_as_of = None
      BY <2>1, NewDay, ClockTypes DEF Inv, WindowInv
    <2>4. MarkInv(mem)' /\ MarkInv(disk)'
      <3>. DEFINE t == Exhausted(mem, Expected)
      <3>1. /\ t.last_scheduled_as_of = Expected
            /\ t.recheck_exhausted_as_of = Expected
        BY <1>s, ExhaustedFields
      <3>2. MarkInv(t)
        <4>. HIDE DEF t
        <4>. QED
          BY <2>1, <3>1, NewDay, ClockTypes, SchedulerAssumption
             DEF MarkInv, Covers, Before, TypeOK, OrNone, AsOf
      <3>. QED
        BY <2>1, <2>2, <3>2 DEF Inv, MarkInv
    <2>5. WindowInv(mem)' /\ WindowInv(disk)'
      BY <1>s, <2>1, <2>2, <2>3, ExhaustedFields DEF Inv, WindowInv
    <2>6. FireInv'
      BY <2>1 DEF FireInv, Unsent, MarkHeld, Revocable, Residual, Firing
    <2>7. BaselineInv'
      BY <1>s, <2>1, <2>2, ExhaustedFields DEF Inv, BaselineInv
    <2>. QED
      BY <2>4, <2>5, <2>6, <2>7 DEF Inv
  <1>7. CASE StartFire
    <2>1. /\ pc = "idle" /\ pc' = "supersede" /\ as_of' = Expected /\ Fires
          /\ UNCHANGED <<mem, disk, day, last_traded>>
      BY <1>7 DEF StartFire, Trading
    <2>. QED
      BY <2>1, NewDay
         DEF Inv, MarkInv, WindowInv, FireInv, BaselineInv, Covers, Before,
             Unsent, MarkHeld, Revocable, Residual, Firing
  <1>. QED
    BY <1>1, <1>2, <1>3, <1>4, <1>5, <1>6, <1>7 DEF Tick

\* The steps after which no cycle is under way: they rewrite at most the
\* timestamps, the baseline and the open windows.
LEMMA RetryAttemptInv ==
  ASSUME TypeOK, Inv, RetryAttempt
  PROVE  Inv'
  <1>. USE DEF clock, history
  <1>s. mem \in State /\ disk \in State
    BY DEF TypeOK
  <1>1. CASE RetryWithoutOrders
    <2>1. /\ pc = "retry" /\ pc' = "idle" /\ UNCHANGED <<day, last_traded>>
      BY <1>1 DEF RetryWithoutOrders, Return
    <2>2. CASE UNCHANGED <<mem, disk>>
      BY <2>1, <2>2
         DEF Inv, MarkInv, WindowInv, FireInv, BaselineInv,
             Unsent, MarkHeld, Revocable, Residual, Firing
    <2>3. CASE GuardedSave([mem EXCEPT !.signal_anchor = Now])
      <3>1. /\ mem' = [mem EXCEPT !.signal_anchor = Now]
            /\ disk' = mem' \/ disk' = disk
        BY <2>3, SaveEffects
      <3>2. /\ SameWindows(mem, mem')
            /\ mem'.last_rebalanced_target = mem.last_rebalanced_target
        BY <1>s, <3>1, StampFields
      <3>. QED
        BY ZenonT(60), <2>1, <3>1, <3>2
           DEF Inv, MarkInv, WindowInv, FireInv, BaselineInv, SameWindows,
               Unsent, MarkHeld, Revocable, Residual, Firing
    <2>. QED
      BY <1>1, <2>2, <2>3 DEF RetryWithoutOrders
  <1>2. CASE RetrySends
    <2>1. /\ pc = "retry" /\ pc' = "resend" /\ UNCHANGED <<day, last_traded>>
          /\ mem' = [mem EXCEPT !.signal_anchor = Now] /\ disk' = mem'
      BY <1>2 DEF RetrySends, Goto, SaveOk
    <2>. QED
      BY <1>s, <2>1, StampFields
         DEF Inv, MarkInv, WindowInv, FireInv, BaselineInv, SameWindows,
             Unsent, MarkHeld, Revocable, Residual, Firing
  <1>3. CASE RetryClean
    <2>1. /\ pc = "resend" /\ pc' \in {"clear", "idle"}
          /\ UNCHANGED <<day, last_traded>>
          /\ mem' = Committed(mem, mem.retry_target, mem.retry_as_of)
          /\ disk' = mem' \/ disk' = disk
      BY <1>3 DEF RetryClean, Goto, Return, SaveOk, SaveRaises
    <2>2. mem'.last_rebalanced_target = last_traded /\ last_traded # None
      BY <1>s, <2>1, CommitFields DEF Inv, FireInv, WindowInv
    <2>3. SameWindows(mem, mem')
      BY <1>s, <2>1, CommitFields
    <2>. QED
      BY <2>1, <2>2, <2>3
         DEF Inv, MarkInv, WindowInv, FireInv, BaselineInv, SameWindows,
             Unsent, MarkHeld, Revocable, Residual, Firing
  <1>4. CASE RetryDirty
    BY <1>4 DEF RetryDirty, Return,
                Inv, MarkInv, WindowInv, FireInv, BaselineInv,
                Unsent, MarkHeld, Revocable, Residual, Firing
  <1>5. CASE RetryCleared
    <2>1. /\ pc = "clear" /\ pc' = "idle" /\ UNCHANGED <<day, last_traded>>
      BY <1>5 DEF RetryCleared, Return
    <2>2. /\ mem' = _clear_retry(mem)
          /\ disk' = mem' \/ disk' = disk
      BY <1>5, SaveEffects DEF RetryCleared
    <2>. QED
      BY <1>s, <2>1, <2>2, ClearRetryFields
         DEF Inv, MarkInv, WindowInv, FireInv, BaselineInv,
             Unsent, MarkHeld, Revocable, Residual, Firing
  <1>. QED
    BY <1>1, <1>2, <1>3, <1>4, <1>5 DEF RetryAttempt

\* What a crash loses was not in the file, and the file satisfies the
\* invariant on its own.
LEMMA EnvironmentInv ==
  ASSUME TypeOK, Inv, Environment
  PROVE  Inv'
  <1>. USE DEF process, clock, history, config, operator
  <1>1. CASE Advance
    <2>1. /\ pc \in {"idle", "down"}
          /\ UNCHANGED <<pc, mem, disk, last_traded>>
          /\ day' \in Nat /\ day <= day'
      BY <1>1 DEF Advance, TypeOK
    <2>2. \A x \in Nat \cup {None} : Before(x, day) => Before(x, day')
      BY <2>1 DEF Before, TypeOK
    <2>3. MarkInv(mem)' /\ MarkInv(disk)'
      BY <2>1, <2>2, DateTypes DEF TypeOK, Inv, MarkInv
    <2>. QED
      BY <2>1, <2>3
         DEF Inv, WindowInv, FireInv, BaselineInv,
             Unsent, MarkHeld, Revocable, Residual, Firing
  <1>2. CASE Down
    BY <1>2 DEF Down, Inv, MarkInv, WindowInv, FireInv, BaselineInv,
                Unsent, MarkHeld, Revocable, Residual, Firing
  <1>3. CASE Crash
    BY <1>2, <1>3 DEF Crash
  <1>4. CASE RotateKey
    BY <1>2, <1>4 DEF RotateKey
  <1>5. CASE Restart
    BY <1>5 DEF Restart, Inv, MarkInv, WindowInv, FireInv, BaselineInv,
                Unsent, MarkHeld, Revocable, Residual, Firing
  <1>6. CASE Arm \/ Disarm \/ KeyExpires
    BY <1>6, FrameInv DEF Arm, Disarm, KeyExpires
  <1>. QED
    BY <1>1, <1>3, <1>4, <1>5, <1>6 DEF Environment

\* The guards before the cycle: windows of other days are dropped, the new day
\* is marked in memory and on disk, or a failed save ends the tick.
LEMMA SupersedeInv ==
  ASSUME TypeOK, Inv, SupersedeRetry \/ SupersedeRecheck \/ MarkScheduled
  PROVE  Inv'
  <1>. USE DEF clock, history
  <1>s. mem \in State /\ disk \in State
    BY DEF TypeOK
  <1>p. pc = "supersede" /\ UNCHANGED <<day, last_traded>>
    BY DEF SupersedeRetry, SupersedeRecheck, MarkScheduled
  <1>1. CASE SupersedeRetry
    <2>1. /\ mem' = _clear_retry(mem)
          /\ disk' = mem' \/ disk' = disk
          /\ \/ pc' = "supersede" /\ UNCHANGED as_of
             \/ pc' = "idle"
      BY <1>1 DEF SupersedeRetry, UnguardedStep, SaveOk, SaveRaises, Goto,
                  Return
    <2>2. /\ MarkInv(mem)' /\ MarkInv(disk)'
          /\ WindowInv(mem)' /\ WindowInv(disk)'
          /\ BaselineInv'
          /\ mem'.last_scheduled_as_of = mem.last_scheduled_as_of
      BY <1>s, <1>p, <2>1, ClearRetryFields
         DEF Inv, MarkInv, WindowInv, BaselineInv
    <2>. QED
      BY <1>p, <2>1, <2>2
         DEF Inv, FireInv, Unsent, MarkHeld, Revocable, Residual, Firing
  <1>2. CASE SupersedeRecheck
    <2>1. /\ mem' = _clear_recheck(mem)
          /\ disk' = mem' \/ disk' = disk
          /\ \/ pc' = "supersede" /\ UNCHANGED as_of
             \/ pc' = "idle"
      BY <1>2 DEF SupersedeRecheck, UnguardedStep, SaveOk, SaveRaises, Goto,
                  Return
    <2>2. /\ MarkInv(mem)' /\ MarkInv(disk)'
          /\ WindowInv(mem)' /\ WindowInv(disk)'
          /\ BaselineInv'
          /\ mem'.last_scheduled_as_of = mem.last_scheduled_as_of
      BY <1>s, <1>p, <2>1, ClearRecheckFields
         DEF Inv, MarkInv, WindowInv, BaselineInv
    <2>. QED
      BY <1>p, <2>1, <2>2
         DEF Inv, FireInv, Unsent, MarkHeld, Revocable, Residual, Firing
  <1>3. CASE MarkScheduled
    \* A window for this day would mean that it had traded already.
    <2>1. mem.retry_as_of = None
      BY <1>s, <1>3, <1>p, DateTypes, SchedulerAssumption
         DEF Inv, FireInv, WindowInv, MarkScheduled, StaleRetry, Before, TypeOK
    <2>2. /\ mem' = Marked(mem)
          /\ \/ /\ disk' = mem' /\ pc' = "cycle"
                /\ prev_scheduled' = mem.last_scheduled_as_of
                /\ UNCHANGED as_of
             \/ disk' = disk /\ pc' = "idle"
      BY <1>3 DEF MarkScheduled, SaveOk, SaveRaises, Return
    <2>3. /\ as_of \in Nat /\ as_of < day
          /\ Before(mem.last_scheduled_as_of, as_of)
      BY <1>p DEF Inv, FireInv, TypeOK, Firing, OrNone, AsOf
    <2>4. /\ mem'.last_scheduled_as_of = as_of
          /\ mem'.recheck_exhausted_as_of = mem.recheck_exhausted_as_of
          /\ mem'.last_rebalanced_target = mem.last_rebalanced_target
          /\ mem'.retry_as_of = None
      BY <1>s, <2>1, <2>2, MarkFields
    <2>5. MarkInv(mem)'
      BY <1>s, <1>p, <2>3, <2>4, DateTypes, SchedulerAssumption
         DEF Inv, MarkInv, Covers, Before, TypeOK, OrNone, AsOf
    <2>6. MarkInv(disk)'
      BY <1>p, <2>2, <2>5 DEF Inv, MarkInv
    <2>7. /\ WindowInv(mem)' /\ WindowInv(disk)' /\ BaselineInv'
      BY <1>p, <2>2, <2>4 DEF Inv, WindowInv, BaselineInv
    <2>8. FireInv'
      BY <1>p, <2>2, <2>3, <2>4
         DEF Inv, MarkInv, FireInv, Unsent, MarkHeld, Revocable, Residual,
             Firing
    <2>. QED
      BY <2>5, <2>6, <2>7, <2>8 DEF Inv
  <1>. QED
    BY <1>1, <1>2, <1>3

\* A step of the cycle that saves a rewrite of the baseline or of a timestamp
\* only, and does not send orders.
LEMMA CycleSaveInv ==
  ASSUME TypeOK, Inv, NEW s,
         pc \in {"cycle", "plan", "derisk", "send"},
         SameWindows(mem, s),
         \/ s.last_rebalanced_target = mem.last_rebalanced_target
         \/ s.last_rebalanced_target = Cash
         \/ last_traded # None /\ s.last_rebalanced_target = last_traded,
         UNCHANGED <<day, last_traded, as_of, prev_scheduled>>,
         mem' = s,
         \/ disk' = s /\ pc' = pc
         \/ disk' = s /\ pc' = "plan" /\ pc = "cycle"
         \/ /\ disk' = s \/ disk' = disk
            /\ pc' = "post" /\ report' \notin {"hold", "deferred", "dirty"}
  PROVE  Inv'
  <1>1. /\ mem.last_scheduled_as_of = as_of
        /\ disk.last_scheduled_as_of = as_of
        /\ mem.retry_as_of = None /\ disk.retry_as_of = None
        /\ as_of # None /\ as_of < day /\ Before(prev_scheduled, as_of)
    BY DEF Inv, FireInv, MarkHeld, Unsent, TypeOK, Firing
  <1>2. MarkInv(mem)' /\ MarkInv(disk)' /\ WindowInv(mem)' /\ WindowInv(disk)'
    BY DEF Inv, MarkInv, WindowInv, SameWindows
  <1>3. BaselineInv'
    BY DEF Inv, BaselineInv
  <1>4. FireInv'
    BY <1>1 DEF Inv, FireInv, SameWindows,
                Unsent, MarkHeld, Revocable, Residual, Firing
  <1>. QED
    BY <1>2, <1>3, <1>4 DEF Inv

LEMMA RunCycleInv ==
  ASSUME TypeOK, Inv, RunCycle
  PROVE  Inv'
  <1>. USE DEF clock, history
  <1>s. mem \in State /\ disk \in State
    BY DEF TypeOK
  <1>a. /\ SameWindows(mem, [mem EXCEPT !.signal_anchor = Now])
        /\ [mem EXCEPT !.signal_anchor = Now].last_rebalanced_target
                = mem.last_rebalanced_target
    BY <1>s, StampFields
  <1>1. CASE CycleRaises \/ NoSignalHold \/ NothingSent
             \/ ExecutedDirty \/ DeriskFlatten
    <2>1. /\ pc \in {"cycle", "plan", "send", "derisk"}
          /\ UNCHANGED <<day, last_traded, as_of, prev_scheduled, mem, disk>>
          /\ \/ pc' = "derisk" /\ pc = "cycle"
             \/ pc' = "post" /\ report' \in {"hold", "deferred"}
                    /\ pc \in {"cycle", "plan"}
             \/ pc' = "post" /\ report' = "dirty" /\ pc = "send"
             \/ pc' = "post" /\ report' \notin {"hold", "deferred", "dirty"}
      BY <1>1 DEF CycleRaises, NoSignalHold, NothingSent, ExecutedDirty,
                  DeriskFlatten, Report, Goto
    <2>2. /\ MarkInv(mem)' /\ MarkInv(disk)'
          /\ WindowInv(mem)' /\ WindowInv(disk)'
          /\ BaselineInv'
      BY <2>1 DEF Inv, MarkInv, WindowInv, BaselineInv
    <2>3. FireInv'
      BY <2>1 DEF Inv, FireInv, Unsent, MarkHeld, Revocable, Residual, Firing
    <2>. QED
      BY <2>2, <2>3 DEF Inv
  <1>2. CASE FirstCycle \/ SignalServed
    <2>. DEFINE s == [mem EXCEPT !.signal_anchor = Now]
    <2>1. /\ pc = "cycle" /\ UNCHANGED <<day, last_traded, as_of, prev_scheduled>>
          /\ mem' = s
          /\ \/ disk' = s /\ pc' \in {"cycle", "plan"}
             \/ disk' = disk /\ pc' = "post" /\ report' = "error"
      BY <1>2 DEF FirstCycle, SignalServed, CycleStep, SaveOk, SaveRaises,
                  Goto, Report
    <2>. HIDE DEF s
    <2>2. /\ SameWindows(mem, s)
          /\ s.last_rebalanced_target = mem.last_rebalanced_target
      BY <1>a DEF s
    <2>. QED
      BY <2>1, <2>2, CycleSaveInv
  <1>3. CASE DeriskCommit
    BY <1>3, <1>s, CommitFields, CycleSaveInv
       DEF DeriskCommit, SaveOk, SaveRaises, Report
  <1>4. CASE ExecutedClean
    <2>1. last_traded = as_of /\ as_of # None
      BY <1>4 DEF ExecutedClean, Inv, FireInv, Residual, TypeOK, Firing
    <2>. QED
      BY <1>4, <2>1, <1>s, CommitFields, CycleSaveInv
         DEF ExecutedClean, SaveOk, SaveRaises, Report
  <1>5. CASE SendOrders
    <2>1. /\ pc = "plan" /\ pc' = "send" /\ last_traded' = as_of
          /\ UNCHANGED <<day, as_of, prev_scheduled, mem, disk>>
      BY <1>5 DEF SendOrders, Goto
    <2>2. /\ as_of \in Nat /\ mem = disk
          /\ mem.last_scheduled_as_of = as_of /\ mem.retry_as_of = None
          /\ Before(prev_scheduled, as_of)
          /\ Covers(prev_scheduled, mem.recheck_exhausted_as_of)
      BY <2>1 DEF Inv, FireInv, MarkHeld, Revocable, Unsent, TypeOK, Firing,
                  OrNone, AsOf
    \* No exhausted day is this day: it is covered by the mark before.
    <2>3. MarkInv(mem)'
      BY <1>s, <2>1, <2>2, DateTypes, SchedulerAssumption
         DEF Inv, MarkInv, Covers, Before, TypeOK, OrNone, AsOf
    <2>4. WindowInv(mem)' /\ BaselineInv'
      BY <2>1, <2>2 DEF Inv, WindowInv, BaselineInv
    <2>5. FireInv'
      BY <2>1, <2>2
         DEF Inv, FireInv, Unsent, MarkHeld, Revocable, Residual, Firing
    <2>. QED
      BY <2>1, <2>2, <2>3, <2>4, <2>5 DEF Inv
  <1>. QED
    BY <1>1, <1>2, <1>3, <1>4, <1>5 DEF RunCycle

\* After the cycle: the day is given back only if it sent nothing, a re-check
\* window closes before a retry window opens.
LEMMA AfterInv ==
  ASSUME TypeOK, Inv,
         \/ RestoreDeferred \/ RestoreHold \/ CloseRecheck
         \/ FlushState \/ OpenRetry
  PROVE  Inv'
  <1>. USE DEF clock, history
  <1>s. mem \in State /\ disk \in State
    BY DEF TypeOK
  <1>p. UNCHANGED <<day, last_traded>>
    BY DEF RestoreDeferred, RestoreHold, CloseRecheck, FlushState, OpenRetry
  <1>1. CASE RestoreDeferred \/ RestoreHold
    <2>. DEFINE s == mem'
    <2>1. /\ pc = "post" /\ pc' = "flush" /\ report \in {"hold", "deferred"}
          /\ UNCHANGED <<as_of, report>>
          /\ disk' = s \/ disk' = disk
      BY <1>1, SaveEffects
         DEF RestoreDeferred, RestoreHold, _is_no_signal_hold, Goto
    <2>2. /\ s.last_scheduled_as_of = prev_scheduled
          /\ s.recheck_exhausted_as_of = mem.recheck_exhausted_as_of
          /\ s.last_rebalanced_target = mem.last_rebalanced_target
          /\ s.retry_as_of = mem.retry_as_of
      <3>1. CASE RestoreDeferred
        BY <3>1, <1>s, SaveEffects, RestoreFields DEF RestoreDeferred
      <3>2. CASE RestoreHold
        BY <3>2, <1>s, SaveEffects, RecheckFields DEF RestoreHold
      <3>. QED
        BY <1>1, <3>1, <3>2
    <2>. HIDE DEF s
    <2>3. /\ as_of \in Nat /\ as_of < day
          /\ mem.retry_as_of = None
          /\ Before(prev_scheduled, as_of)
          /\ Covers(prev_scheduled, last_traded)
          /\ Covers(prev_scheduled, mem.recheck_exhausted_as_of)
          /\ prev_scheduled \in Nat \cup {None}
      BY <2>1 DEF Inv, FireInv, MarkHeld, Revocable, TypeOK, Firing, OrNone,
                  AsOf
    <2>4. MarkInv(s)
      BY <2>2, <2>3, SchedulerAssumption DEF Inv, MarkInv, Before, TypeOK
    <2>5. WindowInv(s)
      BY <2>2, <2>3 DEF WindowInv
    <2>6. /\ MarkInv(mem)' /\ MarkInv(disk)'
          /\ WindowInv(mem)' /\ WindowInv(disk)'
      BY <1>p, <2>1, <2>4, <2>5 DEF Inv, MarkInv, WindowInv, s
    <2>7. BaselineInv'
      BY <1>p, <2>1, <2>2 DEF Inv, BaselineInv, s
    <2>8. FireInv'
      BY <1>p, <2>1, <2>3
         DEF FireInv, Unsent, MarkHeld, Revocable, Residual, Firing
    <2>. QED
      BY <2>6, <2>7, <2>8 DEF Inv
  <1>2. CASE CloseRecheck
    <2>1. /\ pc = "post" /\ pc' = "flush" /\ UNCHANGED <<as_of, report>>
          /\ \/ mem.recheck_as_of = None /\ UNCHANGED <<mem, disk>>
             \/ mem' = _clear_recheck(mem) /\ (disk' = mem' \/ disk' = disk)
      BY <1>2, SaveEffects DEF CloseRecheck, Goto
    <2>2. /\ mem'.last_scheduled_as_of = mem.last_scheduled_as_of
          /\ mem'.recheck_exhausted_as_of = mem.recheck_exhausted_as_of
          /\ mem'.last_rebalanced_target = mem.last_rebalanced_target
          /\ mem'.recheck_as_of = None
          /\ mem'.retry_as_of = mem.retry_as_of
          /\ disk' = mem' \/ disk' = disk
      BY <1>s, <2>1, ClearRecheckFields
    <2>3. mem.retry_as_of = None /\ as_of < day
      BY <2>1 DEF Inv, FireInv, MarkHeld, Firing
    <2>4. /\ MarkInv(mem)' /\ MarkInv(disk)'
          /\ WindowInv(mem)' /\ WindowInv(disk)'
          /\ BaselineInv'
      BY <1>p, <2>2, <2>3 DEF Inv, MarkInv, WindowInv, BaselineInv
    <2>5. FireInv'
      BY <1>p, <2>1, <2>2, <2>3
         DEF Inv, FireInv, Unsent, MarkHeld, Revocable, Residual, Firing
    <2>. QED
      BY <2>4, <2>5 DEF Inv
  <1>3. CASE FlushState
    <2>1. /\ pc = "flush" /\ mem' = mem /\ (disk' = mem \/ disk' = disk)
          /\ \/ pc' = "open" /\ report = "dirty" /\ UNCHANGED <<as_of, report>>
             \/ pc' = "idle"
      BY <1>3, SaveEffects DEF FlushState, LeavesResidual, Goto, Return
    <2>2. /\ MarkInv(mem)' /\ MarkInv(disk)'
          /\ WindowInv(mem)' /\ WindowInv(disk)'
          /\ BaselineInv'
      BY <1>p, <2>1 DEF Inv, MarkInv, WindowInv, BaselineInv
    <2>3. FireInv'
      BY <1>p, <2>1
         DEF Inv, FireInv, Unsent, MarkHeld, Revocable, Residual, Firing
    <2>. QED
      BY <2>2, <2>3 DEF Inv
  <1>4. CASE OpenRetry
    <2>1. /\ pc = "open" /\ pc' = "idle"
          /\ mem' = RetryOpened(mem)
          /\ disk' = mem' \/ disk' = disk
      BY <1>4, SaveEffects DEF OpenRetry, Return
    <2>2. /\ last_traded = as_of /\ mem.last_scheduled_as_of = as_of
          /\ mem.recheck_as_of = None
      BY <2>1 DEF Inv, FireInv, Residual
    <2>3. /\ MarkInv(mem)' /\ MarkInv(disk)'
          /\ WindowInv(mem)' /\ WindowInv(disk)'
          /\ BaselineInv'
      BY <1>s, <1>p, <2>1, <2>2, RetryFields
         DEF Inv, MarkInv, WindowInv, BaselineInv
    <2>4. FireInv'
      BY <2>1 DEF FireInv, Unsent, MarkHeld, Revocable, Residual, Firing
    <2>. QED
      BY <2>3, <2>4 DEF Inv
  <1>. QED
    BY <1>1, <1>2, <1>3, <1>4

-----------------------------------------------------------------------------
(***************************************************************************)
(* The theorems.                                                           *)
(***************************************************************************)
LEMMA InitInv == Init => Inv
  BY DEF Init, FreshState, Inv, MarkInv, WindowInv, FireInv, BaselineInv,
         Covers, Before, Unsent, MarkHeld, Revocable, Residual, Firing

LEMMA NextInv == TypeOK /\ Inv /\ [Next]_vars => Inv'
  <1>1. TypeOK /\ Inv /\ UNCHANGED vars => Inv'
    BY FrameInv DEF vars, clock, process, history
  <1>. QED
    BY <1>1, TickInv, RetryAttemptInv, SupersedeInv, RunCycleInv, AfterInv,
       EnvironmentInv
       DEF Next, run_once, Fire

\* The inductive invariant the safety properties follow from (it is also
\* checked by TLC): what daemon.run_once keeps true of the marks and windows.
THEOREM InductiveInvariant == Spec => []IInv
  <1>1. Init => TypeOK /\ Inv
    BY InitTypes, InitInv
  <1>2. TypeOK /\ Inv /\ [Next]_vars => TypeOK' /\ Inv'
    BY NextTypes, NextInv
  <1>3. TypeOK /\ Inv => IInv
    BY DEF Inv, IInv
  <1>. QED
    BY <1>1, <1>2, <1>3, PTL DEF Spec

\* F1 (daemon.py, Step 2): no daily cycle that could send orders runs for a
\* day that traded, nor for an earlier one.
THEOREM AtMostOneTradingCycle == Spec => []OneTradingCyclePerDay
  <1>1. IInv => OneTradingCyclePerDay
    BY SchedulerAssumption
       DEF IInv, TypeOK, FireInv, Unsent, MarkHeld, Revocable, Covers, Before,
           OneTradingCyclePerDay, Firing, OrNone, AsOf
  <1>. QED
    BY <1>1, InductiveInvariant, PTL

\* C1 (daemon.py, Step 1b): an open retry window is never for a superseded
\* day, so giving it up cannot overwrite a newer baseline.
THEOREM RetryWindowAlwaysNewest == Spec => []RetryWindowIsNewest
  <1>1. IInv => RetryWindowIsNewest
    BY DEF IInv, WindowInv, RetryWindowIsNewest
  <1>. QED
    BY <1>1, InductiveInvariant, PTL

\* daemon.py, Steps 3b and 4b: a re-check and a retry window are never open
\* together, in memory or in the state file.
THEOREM WindowsAlwaysExclude == Spec => []WindowsExclude
  <1>1. IInv => WindowsExclude
    BY DEF IInv, WindowInv, WindowsExclude
  <1>. QED
    BY <1>1, InductiveInvariant, PTL

\* daemon.py, the re-check gate: a day consumed by an expired re-check window
\* is never a day that traded.
THEOREM ExhaustedDaysNeverTrade == Spec => []ExhaustedNeverTrades
  <1>1. IInv => ExhaustedNeverTrades
    BY DEF IInv, MarkInv, ExhaustedNeverTrades
  <1>. QED
    BY <1>1, InductiveInvariant, PTL

-----------------------------------------------------------------------------
(***************************************************************************)
(* Refinement: the marks and baselines the daemon keeps on disk implement  *)
(* DailyTrader.                                                            *)
(***************************************************************************)

\* The durable baseline changes only to one the abstract trader may record.
Recorded ==
    \/ disk'.last_rebalanced_target \in
            {disk.last_rebalanced_target, mem.last_rebalanced_target, Cash}
    \/ last_traded # None /\ disk'.last_rebalanced_target = last_traded

LEMMA RecordedTrader ==
  ASSUME Inv, Recorded, UNCHANGED <<last_traded, n_traded>>
  PROVE  [Trader!Next]_<<last_traded, n_traded, disk.last_rebalanced_target>>
  BY DEF Inv, BaselineInv, Recorded, Trader!Next, Trader!Record, Trader!Derisk

\* Sending orders is the abstract Trade.
LEMMA SendTrader ==
  ASSUME TypeOK, Inv, SendOrders
  PROVE  [Trader!Next]_<<last_traded, n_traded, disk.last_rebalanced_target>>
  <1>1. /\ as_of \in Nat /\ last_traded' = as_of /\ n_traded' = n_traded + 1
        /\ UNCHANGED disk
        /\ Before(prev_scheduled, as_of) /\ Covers(prev_scheduled, last_traded)
        /\ prev_scheduled \in Nat \cup {None}
        /\ last_traded \in Nat \cup {None}
    BY DEF SendOrders, Goto, Inv, FireInv, Unsent, MarkHeld, Revocable, TypeOK,
           Firing, OrNone, AsOf
  <1>2. last_traded = None \/ last_traded < as_of
    BY <1>1, SchedulerAssumption DEF Before, Covers
  <1>. QED
    BY <1>1, <1>2 DEF Trader!Next, Trader!Trade, Trader!Before

LEMMA OtherRecorded ==
  ASSUME TypeOK, Inv, Next, ~SendOrders
  PROVE  Recorded /\ UNCHANGED <<last_traded, n_traded>>
  <1>. USE DEF clock, history, process, config, operator
  <1>s. mem \in State
    BY DEF TypeOK
  <1>a. [mem EXCEPT !.signal_anchor = Now].last_rebalanced_target
            = mem.last_rebalanced_target
    BY <1>s, StampFields
  <1>1. CASE Tick
    <2>1. CASE TickKilled \/ TickExpired \/ TickHolds \/ StartFire
      BY <2>1 DEF TickKilled, TickExpired, TickHolds, StartFire, Recorded
    <2>2. CASE _best_effort_commit
      <3>1. /\ disk' = BestEffortCommitted(mem) \/ disk' = disk
            /\ mem.retry_as_of # None /\ UNCHANGED <<last_traded, n_traded>>
        BY <2>2, SaveEffects DEF _best_effort_commit
      <3>2. mem.retry_target = last_traded /\ last_traded # None
        BY <3>1 DEF Inv, WindowInv
      <3>. QED
        BY <3>1, <3>2, <1>s, BestEffortFields DEF Recorded
    <2>3. CASE StartRetry
      BY <2>3, <1>s, StampFields DEF StartRetry, SaveOk, SaveRaises, Recorded
    <2>4. CASE RecheckExhausted
      <3>1. /\ disk' = Exhausted(mem, Expected) \/ disk' = disk
            /\ UNCHANGED <<last_traded, n_traded>>
        BY <2>4, SaveEffects DEF RecheckExhausted
      <3>. QED
        BY <3>1, <1>s, ExhaustedFields DEF Recorded
    <2>. QED
      BY <1>1, <2>1, <2>2, <2>3, <2>4 DEF Tick
  <1>2. CASE RetryAttempt
    <2>1. CASE RetryWithoutOrders \/ RetrySends \/ RetryDirty
      BY <2>1, <1>a, SaveEffects
         DEF RetryWithoutOrders, RetrySends, RetryDirty, SaveOk, Recorded
    <2>2. CASE RetryClean
      <3>1. /\ \/ disk' = Committed(mem, mem.retry_target, mem.retry_as_of)
               \/ disk' = disk
            /\ pc = "resend" /\ UNCHANGED <<last_traded, n_traded>>
        BY <2>2 DEF RetryClean, SaveOk, SaveRaises
      <3>2. mem.retry_target = last_traded /\ last_traded # None
        BY <3>1 DEF Inv, FireInv, WindowInv
      <3>. QED
        BY <3>1, <3>2, <1>s, CommitFields DEF Recorded
    <2>3. CASE RetryCleared
      <3>1. /\ disk' = _clear_retry(mem) \/ disk' = disk
            /\ UNCHANGED <<last_traded, n_traded>>
        BY <2>3, SaveEffects DEF RetryCleared
      <3>. QED
        BY <3>1, <1>s, ClearRetryFields DEF Recorded
    <2>. QED
      BY <1>2, <2>1, <2>2, <2>3 DEF RetryAttempt
  <1>3. CASE SupersedeRetry \/ SupersedeRecheck \/ MarkScheduled
    <2>1. /\ disk' \in {_clear_retry(mem), _clear_recheck(mem), Marked(mem),
                       disk}
          /\ UNCHANGED <<last_traded, n_traded>>
      BY <1>3 DEF SupersedeRetry, SupersedeRecheck, MarkScheduled,
                  UnguardedStep, SaveOk, SaveRaises
    <2>. QED
      BY <2>1, <1>s, ClearRetryFields, ClearRecheckFields, MarkFields
         DEF Recorded
  <1>4. CASE RunCycle
    <2>1. CASE CycleRaises \/ NoSignalHold \/ DeriskFlatten \/ NothingSent
               \/ ExecutedDirty
      BY <2>1 DEF CycleRaises, NoSignalHold, DeriskFlatten, NothingSent,
                  ExecutedDirty, Recorded
    <2>2. CASE FirstCycle \/ SignalServed
      BY <2>2, <1>a
         DEF FirstCycle, SignalServed, CycleStep, SaveOk, SaveRaises, Recorded
    <2>3. CASE DeriskCommit
      <3>1. /\ disk' = Committed(mem, Cash, Stamp) \/ disk' = disk
            /\ UNCHANGED <<last_traded, n_traded>>
        BY <2>3 DEF DeriskCommit, SaveOk, SaveRaises
      <3>. QED
        BY <3>1, <1>s, CommitFields DEF Recorded
    <2>4. CASE ExecutedClean
      <3>1. /\ disk' = Committed(mem, as_of, as_of) \/ disk' = disk
            /\ pc = "send" /\ UNCHANGED <<last_traded, n_traded>>
        BY <2>4 DEF ExecutedClean, SaveOk, SaveRaises
      <3>2. as_of = last_traded /\ last_traded # None
        BY <3>1 DEF Inv, FireInv, Residual, TypeOK, Firing
      <3>. QED
        BY <3>1, <3>2, <1>s, CommitFields DEF Recorded
    <2>. QED
      BY <1>4, <2>1, <2>2, <2>3, <2>4 DEF RunCycle
  <1>5. CASE RestoreDeferred \/ RestoreHold \/ CloseRecheck \/ FlushState
             \/ OpenRetry
    <2>1. /\ disk' \in {Restored(mem), Rechecking(Restored(mem)),
                       _clear_recheck(mem), mem, RetryOpened(mem), disk}
          /\ UNCHANGED <<last_traded, n_traded>>
      BY <1>5, SaveEffects
         DEF RestoreDeferred, RestoreHold, CloseRecheck, FlushState, OpenRetry
    <2>. QED
      BY <2>1, <1>s, RestoreFields, RecheckFields, ClearRecheckFields,
         RetryFields
         DEF Recorded
  <1>6. CASE Environment
    BY <1>6 DEF Environment, Advance, Crash, Restart, Arm, Disarm, KeyExpires,
                RotateKey, Down, Recorded
  <1>. QED
    BY <1>1, <1>2, <1>3, <1>4, <1>5, <1>6 DEF Next, run_once, Fire

\* The daemon, with all its crashes, retries and failed saves, implements the
\* once-a-day trader: orders go out once for a day, for days in order, and the
\* state file's baseline is only ever the newest day's target or cash.
THEOREM ImplementsDailyTrader == Spec => TraderSpec
  <1>1. Init => Trader!Init
    BY DEF Init, FreshState, Trader!Init
  <1>2. TypeOK /\ Inv /\ [Next]_vars
            => [Trader!Next]_<<last_traded, n_traded, disk.last_rebalanced_target>>
    <2>1. ASSUME UNCHANGED vars
          PROVE  UNCHANGED <<last_traded, n_traded, disk.last_rebalanced_target>>
      BY <2>1 DEF vars, history
    <2>. QED
      BY <2>1, SendTrader, OtherRecorded, RecordedTrader
  <1>3. IInv => TypeOK /\ Inv
    BY DEF Inv, IInv
  <1>. QED
    BY <1>1, <1>2, <1>3, InductiveInvariant, PTL DEF Spec, TraderSpec, Trader!Spec

-----------------------------------------------------------------------------
(***************************************************************************)
(* What each rewrite of the state does to the fields read here.            *)
(***************************************************************************)
Kept(s, t, F) == \A f \in F : t[f] = s[f]
RetryPart == {"retry_as_of", "retry_last_attempt"}
RecheckPart == {"recheck_as_of", "recheck_last_attempt"}
MarkPart == {"last_scheduled_as_of", "recheck_exhausted_as_of"}

LEMMA HistoryFields ==
  ASSUME NEW s \in State, NEW x, NEW d
  PROVE  /\ Kept(s, [s EXCEPT !.signal_anchor = x],
                 RetryPart \cup RecheckPart \cup MarkPart)
         /\ Kept(s, Committed(s, x, d),
                 RetryPart \cup RecheckPart \cup MarkPart)
         /\ Kept(s, _clear_retry(s), RecheckPart \cup MarkPart)
         /\ _clear_retry(s).retry_as_of = None
         /\ Kept(s, BestEffortCommitted(s), RecheckPart \cup MarkPart)
         /\ BestEffortCommitted(s).retry_as_of = None
         /\ Kept(s, _clear_recheck(s), RetryPart \cup MarkPart)
         /\ _clear_recheck(s).recheck_as_of = None
         /\ Kept(s, Exhausted(s, d), RetryPart)
         /\ Exhausted(s, d).recheck_as_of = None
         /\ Exhausted(s, d).recheck_exhausted_as_of = d
         /\ Kept(s, StampedRetry(s),
                 {"retry_as_of"} \cup RecheckPart \cup MarkPart)
         /\ StampedRetry(s).retry_last_attempt = Now
  <1>. USE DEF Kept, RetryPart, RecheckPart, MarkPart
  <1>1. /\ Kept(s, [s EXCEPT !.signal_anchor = x],
                RetryPart \cup RecheckPart \cup MarkPart)
        /\ Kept(s, Committed(s, x, d),
                RetryPart \cup RecheckPart \cup MarkPart)
    BY Zenon DEF State, Committed
  <1>2. /\ Kept(s, _clear_retry(s), RecheckPart \cup MarkPart)
        /\ _clear_retry(s).retry_as_of = None
    BY Zenon DEF State, _clear_retry
  <1>3. /\ Kept(s, BestEffortCommitted(s), RecheckPart \cup MarkPart)
        /\ BestEffortCommitted(s).retry_as_of = None
    BY Zenon DEF State, BestEffortCommitted, _clear_retry
  <1>4. /\ Kept(s, _clear_recheck(s), RetryPart \cup MarkPart)
        /\ _clear_recheck(s).recheck_as_of = None
    BY Zenon DEF State, _clear_recheck
  <1>5. /\ Kept(s, Exhausted(s, d), RetryPart)
        /\ Exhausted(s, d).recheck_as_of = None
        /\ Exhausted(s, d).recheck_exhausted_as_of = d
    BY Zenon DEF State, Exhausted, _clear_recheck
  <1>6. /\ Kept(s, StampedRetry(s),
                {"retry_as_of"} \cup RecheckPart \cup MarkPart)
        /\ StampedRetry(s).retry_last_attempt = Now
    BY Zenon DEF State, StampedRetry
  <1>. QED
    BY <1>1, <1>2, <1>3, <1>4, <1>5, <1>6

\* The rewrites of a firing day.
LEMMA FiringFields ==
  ASSUME NEW s \in State
  PROVE  /\ Kept(s, Marked(s), {"recheck_exhausted_as_of"}
                               \cup RetryPart \cup RecheckPart)
         /\ Marked(s).last_scheduled_as_of = as_of
         /\ Kept(s, Restored(s), {"recheck_exhausted_as_of"}
                                 \cup RetryPart \cup RecheckPart)
         /\ Restored(s).last_scheduled_as_of = prev_scheduled
         /\ Kept(s, Rechecking(Restored(s)),
                 {"recheck_exhausted_as_of"} \cup RetryPart)
         /\ Rechecking(Restored(s)).last_scheduled_as_of = prev_scheduled
         /\ Rechecking(Restored(s)).recheck_as_of = as_of
         /\ Rechecking(Restored(s)).recheck_last_attempt = Now
         /\ Kept(s, RetryOpened(s), MarkPart \cup RecheckPart)
         /\ RetryOpened(s).retry_as_of = as_of
         /\ RetryOpened(s).retry_last_attempt = Now
  <1>. USE DEF Kept, RetryPart, RecheckPart, MarkPart
  <1>1. /\ Kept(s, Marked(s), {"recheck_exhausted_as_of"}
                              \cup RetryPart \cup RecheckPart)
        /\ Marked(s).last_scheduled_as_of = as_of
    BY Zenon DEF State, Marked
  <1>2. /\ Kept(s, Restored(s), {"recheck_exhausted_as_of"}
                                \cup RetryPart \cup RecheckPart)
        /\ Restored(s).last_scheduled_as_of = prev_scheduled
    BY Zenon DEF State, Restored
  <1>3. /\ Kept(s, Rechecking(Restored(s)),
                {"recheck_exhausted_as_of"} \cup RetryPart)
        /\ Rechecking(Restored(s)).last_scheduled_as_of = prev_scheduled
        /\ Rechecking(Restored(s)).recheck_as_of = as_of
        /\ Rechecking(Restored(s)).recheck_last_attempt = Now
    BY Zenon DEF State, Rechecking, Restored
  <1>4. /\ Kept(s, RetryOpened(s), MarkPart \cup RecheckPart)
        /\ RetryOpened(s).retry_as_of = as_of
        /\ RetryOpened(s).retry_last_attempt = Now
    BY Zenon DEF State, RetryOpened
  <1>. QED
    BY <1>1, <1>2, <1>3, <1>4

-----------------------------------------------------------------------------
(***************************************************************************)
(* Attempts are paced.                                                     *)
(***************************************************************************)

\* The last attempt is at a, and a window says so, or a later time.
Since(last, a) == a # None /\ (last # None => a <= last)

\* A copy of the state paces the retries and the re-checks it lets start.  A
\* re-check of a marked day does not start, so its time may be old.
Paced(s, a) ==
  /\ s.retry_as_of # None => Since(s.retry_last_attempt, a)
  /\ s.recheck_as_of # None /\ Before(s.last_scheduled_as_of, s.recheck_as_of)
       => Since(s.recheck_last_attempt, a)

\* What is known where run_once is.
Pacing ==
  /\ attempt_at # None => attempt_at <= Now
  /\ Residual => attempt_at # None
  /\ pc = "retry" =>
       /\ mem = disk /\ mem.retry_last_attempt = Now
       /\ attempt_at # None /\ Now - attempt_at >= RetryInterval
  /\ pc \in {"supersede", "cycle"} /\ mem.recheck_as_of = as_of =>
       attempt_at # None /\ Now - attempt_at >= RecheckInterval
  /\ MarkHeld => /\ mem.recheck_as_of \in {None, as_of}
                 /\ disk.recheck_as_of \in {None, as_of}
  /\ Revocable /\ mem.recheck_as_of # None =>
       Since(mem.recheck_last_attempt, attempt_at)

PaceInv == Paced(mem, attempt_at) /\ Paced(disk, attempt_at) /\ Pacing

\* A rewrite that closes windows or leaves them alone, and never puts back
\* the mark before an open re-check window.
Eases(s, t) ==
  /\ \/ t.retry_as_of = None
     \/ /\ t.retry_as_of = s.retry_as_of
        /\ t.retry_last_attempt = s.retry_last_attempt
  /\ \/ t.recheck_as_of = None
     \/ /\ t.recheck_as_of = s.recheck_as_of
        /\ t.recheck_last_attempt = s.recheck_last_attempt
        /\ \/ t.last_scheduled_as_of = s.last_scheduled_as_of
           \/ ~Before(t.last_scheduled_as_of, t.recheck_as_of)

LEMMA EasesPaced ==
  ASSUME NEW s, NEW t, NEW a, Eases(s, t), Paced(s, a)
  PROVE  Paced(t, a)
  BY DEF Eases, Paced

LEMMA EasingRewrites ==
  ASSUME NEW s \in State, NEW x, NEW d
  PROVE  /\ Eases(s, s)
         /\ Eases(s, [s EXCEPT !.signal_anchor = x])
         /\ Eases(s, Committed(s, x, d))
         /\ Eases(s, _clear_retry(s))
         /\ Eases(s, BestEffortCommitted(s))
         /\ Eases(s, _clear_recheck(s))
         /\ Eases(s, Exhausted(s, d))
  BY HistoryFields DEF Eases, Kept, RetryPart, RecheckPart, MarkPart

\* A save of such a rewrite, whether it reaches the file or not.
LEMMA EasedSave ==
  ASSUME Paced(mem, attempt_at), Paced(disk, attempt_at),
         Eases(mem, mem'), disk' = mem' \/ disk' = disk,
         attempt_at' = attempt_at
  PROVE  Paced(mem', attempt_at') /\ Paced(disk', attempt_at')
  BY EasesPaced

\* Between two ticks only the times matter.
LEMMA PacingIdle ==
  ASSUME pc' \in {"idle", "down", "resend", "clear"},
         attempt_at' # None => attempt_at' <= Now'
  PROVE  Pacing'
  BY DEF Pacing, Residual, MarkHeld, Unsent, Revocable

LEMMA HistoryTypes ==
  ASSUME TypeOK
  PROVE  /\ mem \in State /\ disk \in State
         /\ Now \in Nat /\ None \notin Nat /\ Expected \in OrNone(Nat)
         /\ attempt_at \in OrNone(Nat)
         /\ \A s \in State : /\ s.retry_last_attempt \in OrNone(Nat)
                             /\ s.recheck_last_attempt \in OrNone(Nat)
  <1>1. \A s \in State : /\ s.retry_last_attempt \in OrNone(Nat)
                         /\ s.recheck_last_attempt \in OrNone(Nat)
    BY Zenon DEF State
  <1>. QED
    BY <1>1, ClockTypes DEF TypeOK, AsOf

LEMMA TickPaced ==
  ASSUME TypeOK, Inv, PaceInv, Tick
  PROVE  PaceInv'
  <1>. USE DEF clock
  <1>s. /\ mem \in State /\ disk \in State
        /\ Now \in Nat /\ None \notin Nat /\ Expected \in OrNone(Nat)
        /\ attempt_at \in OrNone(Nat)
        /\ mem.retry_last_attempt \in OrNone(Nat)
        /\ mem.recheck_last_attempt \in OrNone(Nat)
    BY HistoryTypes
  <1>c. Now' = Now /\ UNCHANGED attempt_at
    BY DEF Tick, TickKilled, TickExpired, TickHolds, _best_effort_commit,
           StartRetry, RecheckExhausted, StartFire, Now, history
  <1>n. attempt_at' # None => attempt_at' <= Now'
    BY <1>c DEF PaceInv, Pacing
  <1>1. CASE TickKilled \/ TickExpired \/ TickHolds
    <2>1. pc' = "idle" /\ UNCHANGED <<mem, disk>>
      BY <1>1 DEF TickKilled, TickExpired, TickHolds
    <2>. QED
      BY <1>c, <1>n, <2>1, PacingIdle DEF PaceInv
  <1>2. CASE _best_effort_commit \/ RecheckExhausted
    <2>1. /\ pc' = "idle" /\ (disk' = mem' \/ disk' = disk)
          /\ mem' = BestEffortCommitted(mem) \/ mem' = Exhausted(mem, Expected)
      BY <1>2, SaveEffects DEF _best_effort_commit, RecheckExhausted
    <2>2. Eases(mem, mem')
      BY <1>s, <2>1, EasingRewrites
    <2>. QED
      BY <1>c, <1>n, <2>1, <2>2, EasedSave, PacingIdle DEF PaceInv
  <1>3. CASE StartRetry
    <2>1. /\ mem.retry_as_of # None /\ RetryDue
          /\ mem' = StampedRetry(mem)
          /\ \/ disk' = mem' /\ pc' = "retry"
             \/ disk' = disk /\ pc' = "idle"
      BY <1>3 DEF StartRetry, SaveOk, SaveRaises
    <2>2. /\ mem'.retry_as_of = mem.retry_as_of
          /\ mem'.retry_last_attempt = Now
          /\ mem'.recheck_as_of = mem.recheck_as_of
          /\ mem'.recheck_last_attempt = mem.recheck_last_attempt
          /\ mem'.last_scheduled_as_of = mem.last_scheduled_as_of
      BY <1>s, <2>1, HistoryFields
         DEF Kept, RetryPart, RecheckPart, MarkPart
    <2>3. /\ attempt_at # None /\ attempt_at <= mem.retry_last_attempt
          /\ mem.retry_last_attempt # None
          /\ Now - mem.retry_last_attempt >= RetryInterval
      BY <2>1 DEF RetryDue, should_retry, PaceInv, Paced, Since
    <2>4. Now - attempt_at >= RetryInterval
      BY <1>s, <2>3, SchedulerAssumption DEF OrNone
    <2>5. Paced(mem', attempt_at')
      BY <1>c, <1>n, <2>2, <2>3 DEF PaceInv, Paced, Since
    <2>6. Paced(disk', attempt_at')
      BY <1>c, <2>1, <2>5 DEF PaceInv
    <2>7. CASE pc' = "idle"
      BY <1>n, <2>5, <2>6, <2>7, PacingIdle DEF PaceInv
    <2>8. CASE pc' = "retry"
      <3>1. mem' = disk' /\ mem'.retry_last_attempt = Now'
        BY <1>c, <2>1, <2>2, <2>8
      <3>2. Pacing'
        BY <1>c, <1>n, <2>3, <2>4, <2>8, <3>1
           DEF Pacing, Residual, MarkHeld, Unsent, Revocable
      <3>. QED
        BY <2>5, <2>6, <3>2 DEF PaceInv
    <2>. QED
      BY <2>1, <2>7, <2>8
  <1>4. CASE StartFire
    <2>1. /\ Fires /\ as_of' = Expected /\ pc' = "supersede"
          /\ mem.recheck_as_of = Expected => RecheckDue
          /\ UNCHANGED <<mem, disk>>
      BY <1>4 DEF StartFire, RecheckGate
    <2>2. ASSUME mem.recheck_as_of = Expected
          PROVE  attempt_at # None /\ Now - attempt_at >= RecheckInterval
      <3>1. /\ mem.recheck_as_of # None /\ mem.recheck_last_attempt # None
            /\ Now - mem.recheck_last_attempt >= RecheckInterval
        BY <2>1, <2>2 DEF RecheckDue, should_recheck_signal
      <3>2. Before(mem.last_scheduled_as_of, mem.recheck_as_of)
        BY <2>1, <2>2, NewDay
      <3>3. attempt_at # None /\ attempt_at <= mem.recheck_last_attempt
        BY <3>1, <3>2 DEF PaceInv, Paced, Since
      <3>. QED
        BY <1>s, <3>1, <3>3, SchedulerAssumption DEF OrNone
    <2>3. Pacing'
      BY <1>c, <1>n, <2>1, <2>2
         DEF Pacing, Residual, MarkHeld, Unsent, Revocable
    <2>. QED
      BY <1>c, <2>1, <2>3 DEF PaceInv
  <1>. QED
    BY <1>1, <1>2, <1>3, <1>4 DEF Tick

\* A retry is stamped with its own time on disk before it is made.
LEMMA RetryPaced ==
  ASSUME TypeOK, Inv, PaceInv, RetryAttempt
  PROVE  PaceInv'
  <1>. USE DEF clock, history
  <1>s. mem \in State /\ disk \in State /\ Now \in Nat /\ None \notin Nat
    BY HistoryTypes
  <1>c. Now' = Now
    BY DEF RetryAttempt, RetryWithoutOrders, RetrySends, RetryClean,
           RetryDirty, RetryCleared, Now
  <1>1. CASE RetryWithoutOrders \/ RetrySends
    <2>1. /\ pc = "retry" /\ pc' \in {"idle", "resend"} /\ attempt_at' = Now
          /\ mem' = mem \/ mem' = [mem EXCEPT !.signal_anchor = Now]
          /\ disk' = mem' \/ disk' = disk
      BY <1>1, SaveEffects
         DEF RetryWithoutOrders, RetrySends, Return, Goto, SaveOk
    <2>2. /\ mem = disk /\ mem.retry_last_attempt = Now
          /\ mem.retry_as_of # None /\ mem.recheck_as_of = None
      BY <2>1 DEF PaceInv, Pacing, Inv, FireInv, WindowInv
    <2>3. Paced(mem, Now)
      BY <1>s, <2>2 DEF Paced, Since
    <2>4. Paced(mem', Now)
      BY <1>s, <2>1, <2>3, EasingRewrites, EasesPaced
    <2>5. attempt_at' # None => attempt_at' <= Now'
      BY <1>c, <1>s, <2>1
    <2>. QED
      BY <2>1, <2>2, <2>3, <2>4, <2>5, PacingIdle DEF PaceInv
  <1>2. CASE RetryClean \/ RetryDirty \/ RetryCleared
    <2>1. /\ pc' \in {"idle", "clear"} /\ attempt_at' = attempt_at
          /\ \/ mem' = mem
             \/ mem' = Committed(mem, mem.retry_target, mem.retry_as_of)
             \/ mem' = _clear_retry(mem)
          /\ disk' = mem' \/ disk' = disk
      BY <1>2, SaveEffects DEF RetryClean, RetryDirty, RetryCleared, Return,
                               Goto, SaveOk, SaveRaises
    <2>2. Eases(mem, mem')
      BY <1>s, <2>1, EasingRewrites
    <2>3. attempt_at' # None => attempt_at' <= Now'
      BY <1>c, <2>1 DEF PaceInv, Pacing
    <2>. QED
      BY <2>1, <2>2, <2>3, EasedSave, PacingIdle DEF PaceInv
  <1>. QED
    BY <1>1, <1>2 DEF RetryAttempt

\* Time only widens the distance to the last attempt.
LEMMA EnvironmentPaced ==
  ASSUME TypeOK, Inv, PaceInv, Environment
  PROVE  PaceInv'
  <1>. USE DEF process, clock, history
  <1>s. Now \in Nat /\ None \notin Nat /\ attempt_at \in OrNone(Nat)
    BY HistoryTypes
  <1>a. attempt_at' = attempt_at
    BY DEF Environment, Advance, Crash, Restart, Arm, Disarm, KeyExpires,
           RotateKey, Down
  <1>1. CASE Advance
    <2>1. /\ pc' \in {"idle", "down"} /\ UNCHANGED <<mem, disk>>
          /\ \/ tod' = tod + 1 /\ day' = day
             \/ tod = DayLen - 1 /\ tod' = 0 /\ day' = day + 1
      BY <1>1 DEF Advance
    <2>2. Now' = Now + 1
      <3>1. day \in Nat /\ tod \in Nat /\ DayLen \in Nat
        BY SchedulerAssumption DEF TypeOK
      <3>. QED
        BY <2>1, <3>1 DEF Now, Instant
    <2>3. attempt_at' # None => attempt_at' <= Now'
      BY <1>s, <1>a, <2>2 DEF PaceInv, Pacing, OrNone
    <2>. QED
      BY <1>a, <2>1, <2>3, PacingIdle DEF PaceInv
  <1>2. CASE Crash \/ RotateKey \/ Restart
    <2>1. /\ pc' \in {"idle", "down"} /\ disk' = disk /\ Now' = Now
          /\ mem' = disk \/ mem' = mem
      BY <1>2 DEF Crash, RotateKey, Restart, Down, Now
    <2>2. attempt_at' # None => attempt_at' <= Now'
      BY <1>a, <2>1 DEF PaceInv, Pacing
    <2>. QED
      BY <1>a, <2>1, <2>2, PacingIdle DEF PaceInv
  <1>3. CASE Arm \/ Disarm \/ KeyExpires
    <2>1. UNCHANGED <<pc, as_of, report, mem, disk, attempt_at>> /\ Now' = Now
      BY <1>3 DEF Arm, Disarm, KeyExpires, Now
    <2>. QED
      BY <2>1 DEF PaceInv, Pacing, Residual, MarkHeld, Unsent, Revocable
  <1>. QED
    BY <1>1, <1>2, <1>3 DEF Environment

\* The re-check window that is left when the day is marked is the day's own,
\* and its re-check was due.
LEMMA SupersedePaced ==
  ASSUME TypeOK, Inv, PaceInv,
         SupersedeRetry \/ SupersedeRecheck \/ MarkScheduled
  PROVE  PaceInv'
  <1>. USE DEF clock, history
  <1>s. mem \in State /\ disk \in State /\ Now \in Nat /\ None \notin Nat
    BY HistoryTypes
  <1>c. /\ pc = "supersede" /\ Now' = Now /\ attempt_at' = attempt_at
        /\ as_of \in Nat
    BY DEF SupersedeRetry, SupersedeRecheck, MarkScheduled, Now, TypeOK,
           Firing, OrNone, AsOf
  <1>n. attempt_at' # None => attempt_at' <= Now'
    BY <1>c DEF PaceInv, Pacing
  <1>1. CASE SupersedeRetry \/ SupersedeRecheck
    <2>1. /\ mem' = _clear_retry(mem) \/ mem' = _clear_recheck(mem)
          /\ disk' = mem' \/ disk' = disk
          /\ \/ pc' = "supersede" /\ UNCHANGED as_of
             \/ pc' = "idle"
      BY <1>1 DEF SupersedeRetry, SupersedeRecheck, UnguardedStep, SaveOk,
                  SaveRaises, Goto, Return
    <2>2. Eases(mem, mem')
      BY <1>s, <2>1, EasingRewrites
    <2>3. mem'.recheck_as_of \in {None, mem.recheck_as_of}
      BY <2>2 DEF Eases
    <2>4. CASE pc' = "idle"
      BY <1>c, <1>n, <2>1, <2>2, <2>4, EasedSave, PacingIdle DEF PaceInv
    <2>5. CASE pc' = "supersede" /\ UNCHANGED as_of
      <3>1. Pacing'
        BY <1>s, <1>c, <1>n, <2>3, <2>5
           DEF PaceInv, Pacing, Residual, MarkHeld, Unsent, Revocable
      <3>. QED
        BY <1>c, <2>1, <2>2, <3>1, EasedSave DEF PaceInv
    <2>. QED
      BY <2>1, <2>4, <2>5
  <1>2. CASE MarkScheduled
    <2>1. /\ mem.recheck_as_of \in {None, as_of}
          /\ mem' = Marked(mem)
          /\ \/ disk' = mem' /\ pc' = "cycle" /\ UNCHANGED as_of
             \/ disk' = disk /\ pc' = "idle"
      BY <1>2 DEF MarkScheduled, StaleRecheck, SaveOk, SaveRaises, Return
    <2>2. /\ mem'.recheck_as_of = mem.recheck_as_of
          /\ mem'.recheck_last_attempt = mem.recheck_last_attempt
          /\ mem'.retry_as_of = mem.retry_as_of
          /\ mem'.retry_last_attempt = mem.retry_last_attempt
          /\ mem'.last_scheduled_as_of = as_of
      BY <1>s, <2>1, FiringFields DEF Kept, RetryPart, RecheckPart
    <2>3. Eases(mem, mem')
      BY <1>s, <1>c, <2>1, <2>2 DEF Eases, Before
    <2>4. CASE pc' = "idle"
      BY <1>c, <1>n, <2>1, <2>3, <2>4, EasedSave, PacingIdle DEF PaceInv
    <2>5. CASE pc' = "cycle" /\ disk' = mem' /\ UNCHANGED as_of
      <3>1. Before(mem.last_scheduled_as_of, as_of)
        BY <1>c DEF Inv, FireInv
      <3>2. mem.recheck_as_of # None =>
              Since(mem.recheck_last_attempt, attempt_at)
        BY <2>1, <3>1 DEF PaceInv, Paced
      <3>3. Pacing'
        BY <1>c, <1>n, <2>1, <2>2, <2>5, <3>2
           DEF PaceInv, Pacing, Residual, MarkHeld, Unsent, Revocable
      <3>. QED
        BY <1>c, <2>3, <2>5, <3>3, EasedSave DEF PaceInv
    <2>. QED
      BY <2>1, <2>4, <2>5
  <1>. QED
    BY <1>1, <1>2

\* Orders are sent when the day's mark is on disk, so that a re-check window
\* that is still open there can start nothing.
LEMMA RunCyclePaced ==
  ASSUME TypeOK, Inv, PaceInv, RunCycle
  PROVE  PaceInv'
  <1>. USE DEF clock, history
  <1>s. mem \in State /\ disk \in State /\ Now \in Nat /\ None \notin Nat
    BY HistoryTypes
  <1>c. /\ pc \in {"cycle", "plan", "send", "derisk"}
        /\ Now' = Now /\ as_of' = as_of
    BY DEF RunCycle, CycleRaises, FirstCycle, NoSignalHold, DeriskFlatten,
           DeriskCommit, SignalServed, NothingSent, SendOrders, ExecutedClean,
           ExecutedDirty, CycleStep, Report, Goto, Now
  <1>h. /\ mem.recheck_as_of \in {None, as_of}
        /\ disk.recheck_as_of \in {None, as_of}
    BY <1>c DEF PaceInv, Pacing, MarkHeld, Unsent
  <1>1. CASE ~SendOrders
    <2>1. /\ attempt_at' = attempt_at
          /\ \/ mem' = mem
             \/ mem' = [mem EXCEPT !.signal_anchor = Now]
             \/ mem' = Committed(mem, Cash, Stamp)
             \/ mem' = Committed(mem, as_of, as_of)
          /\ disk' = mem' \/ disk' = disk
          /\ \/ pc' \in {"cycle", "plan", "derisk"} /\ pc = "cycle"
             \/ pc' = "post" /\ report' \in {"hold", "deferred"}
                    /\ pc \in {"cycle", "plan"}
             \/ pc' = "post" /\ report' = "dirty" /\ pc = "send"
             \/ pc' = "post" /\ report' \notin {"hold", "deferred", "dirty"}
      BY <1>1 DEF RunCycle, CycleRaises, FirstCycle, NoSignalHold,
                  DeriskFlatten, DeriskCommit, SignalServed, NothingSent,
                  ExecutedClean, ExecutedDirty, CycleStep, SaveOk, SaveRaises,
                  Report, Goto
    <2>2. /\ Eases(mem, mem') /\ mem'.recheck_as_of = mem.recheck_as_of
          /\ mem'.recheck_last_attempt = mem.recheck_last_attempt
      <3>1. Eases(mem, mem')
        BY ZenonT(60), <1>s, <2>1, EasingRewrites
      <3>2. \A x, d :
              /\ Kept(mem, [mem EXCEPT !.signal_anchor = x], RecheckPart)
              /\ Kept(mem, Committed(mem, x, d), RecheckPart)
        BY <1>s, Zenon DEF Kept, RecheckPart, State, Committed
      <3>3. mem' = mem \/ Kept(mem, mem', RecheckPart)
        BY <2>1, <3>2
      <3>. QED
        BY <3>1, <3>3 DEF Kept, RecheckPart
    <2>3. disk'.recheck_as_of \in {None, as_of}
      BY <1>h, <2>1, <2>2
    <2>4. Pacing'
      BY <1>c, <1>h, <2>1, <2>2, <2>3
         DEF PaceInv, Pacing, Residual, MarkHeld, Unsent, Revocable
    <2>. QED
      BY <2>1, <2>2, <2>4, EasedSave DEF PaceInv
  <1>2. CASE SendOrders
    <2>1. /\ pc = "plan" /\ pc' = "send" /\ attempt_at' = Now
          /\ UNCHANGED <<mem, disk>>
      BY <1>2 DEF SendOrders, Goto
    <2>2. /\ mem = disk /\ mem.last_scheduled_as_of = as_of
          /\ mem.retry_as_of = None /\ as_of \in Nat
      BY <2>1 DEF Inv, FireInv, MarkHeld, Unsent, TypeOK, Firing, OrNone, AsOf
    <2>3. Paced(mem, Now)
      BY <1>s, <1>h, <2>2 DEF Paced, Before
    <2>4. Pacing'
      BY <1>s, <1>c, <1>h, <2>1
         DEF Pacing, Residual, MarkHeld, Unsent, Revocable
    <2>. QED
      BY <2>1, <2>2, <2>3, <2>4 DEF PaceInv
  <1>. QED
    BY <1>1, <1>2

LEMMA AfterPaced ==
  ASSUME TypeOK, Inv, PaceInv,
         \/ RestoreDeferred \/ RestoreHold \/ CloseRecheck
         \/ FlushState \/ OpenRetry
  PROVE  PaceInv'
  <1>. USE DEF clock, history
  <1>s. /\ mem \in State /\ disk \in State /\ Now \in Nat /\ None \notin Nat
        /\ attempt_at \in OrNone(Nat)
    BY HistoryTypes
  <1>c. Now' = Now
    BY DEF RestoreDeferred, RestoreHold, CloseRecheck, FlushState, OpenRetry,
           Now
  <1>1. CASE RestoreDeferred
    <2>1. /\ pc = "post" /\ pc' = "flush" /\ report = "deferred"
          /\ report' = report /\ attempt_at' = attempt_at
          /\ mem' = Restored(mem)
          /\ disk' = mem' \/ disk' = disk
      BY <1>1, SaveEffects DEF RestoreDeferred, Goto
    <2>2. /\ mem'.recheck_as_of = mem.recheck_as_of
          /\ mem'.recheck_last_attempt = mem.recheck_last_attempt
          /\ mem'.retry_as_of = mem.retry_as_of
          /\ mem'.retry_last_attempt = mem.retry_last_attempt
      BY <1>s, <2>1, FiringFields DEF Kept, RetryPart, RecheckPart
    <2>3. Revocable /\ mem.recheck_as_of # None =>
            Since(mem.recheck_last_attempt, attempt_at)
      BY DEF PaceInv, Pacing
    <2>4. Paced(mem', attempt_at)
      BY <2>1, <2>2, <2>3 DEF Revocable, PaceInv, Paced
    <2>5. Pacing'
      BY <1>c, <2>1 DEF PaceInv, Pacing, Residual, MarkHeld, Unsent, Revocable
    <2>. QED
      BY <2>1, <2>4, <2>5 DEF PaceInv
  <1>2. CASE RestoreHold
    <2>1. /\ pc = "post" /\ pc' = "flush" /\ report = "hold"
          /\ report' = report /\ attempt_at' = Now
          /\ mem' = Rechecking(Restored(mem))
          /\ disk' = mem' \/ disk' = disk
      BY <1>2, SaveEffects DEF RestoreHold, _is_no_signal_hold, Goto
    <2>2. /\ mem'.recheck_last_attempt = Now
          /\ mem'.retry_as_of = mem.retry_as_of
      BY <1>s, <2>1, FiringFields DEF Kept, RetryPart, RecheckPart
    <2>3. /\ mem.retry_as_of = None /\ disk.retry_as_of = None
          /\ disk.last_scheduled_as_of = as_of /\ as_of \in Nat
          /\ disk.recheck_as_of \in {None, as_of}
      BY <2>1 DEF Inv, FireInv, PaceInv, Pacing, MarkHeld, TypeOK, Firing,
                  OrNone, AsOf
    <2>4. Paced(mem', Now)
      BY <1>s, <2>2, <2>3 DEF Paced, Since
    <2>5. Paced(disk, Now)
      BY <1>s, <2>3 DEF Paced, Before
    <2>6. Pacing'
      BY <1>s, <1>c, <2>1 DEF Pacing, Residual, MarkHeld, Unsent, Revocable
    <2>. QED
      BY <2>1, <2>4, <2>5, <2>6 DEF PaceInv
  <1>3. CASE CloseRecheck \/ FlushState
    <2>1. /\ attempt_at' = attempt_at
          /\ mem' = mem \/ mem' = _clear_recheck(mem)
          /\ disk' = mem' \/ disk' = disk
          /\ pc' \in {"flush", "open", "idle"} /\ pc \in {"post", "flush"}
          /\ pc' = "flush" => report' = report
          /\ pc' = "open" => report = "dirty"
      BY <1>3, SaveEffects
         DEF CloseRecheck, FlushState, LeavesResidual, Goto, Return
    <2>2. Eases(mem, mem')
      BY <1>s, <2>1, EasingRewrites
    <2>3. Pacing'
      BY <1>c, <2>1 DEF PaceInv, Pacing, Residual, MarkHeld, Unsent, Revocable
    <2>. QED
      BY <2>1, <2>2, <2>3, EasedSave DEF PaceInv
  <1>4. CASE OpenRetry
    <2>1. /\ pc = "open" /\ pc' = "idle" /\ attempt_at' = attempt_at
          /\ mem' = RetryOpened(mem)
          /\ disk' = mem' \/ disk' = disk
      BY <1>4, SaveEffects DEF OpenRetry, Return
    <2>2. /\ mem'.recheck_as_of = mem.recheck_as_of
          /\ mem'.recheck_last_attempt = mem.recheck_last_attempt
          /\ mem'.last_scheduled_as_of = mem.last_scheduled_as_of
          /\ mem'.retry_last_attempt = Now
      BY <1>s, <2>1, FiringFields DEF Kept, RecheckPart, MarkPart
    <2>3. attempt_at # None /\ attempt_at <= Now
      BY <2>1 DEF PaceInv, Pacing, Residual
    <2>4. Paced(mem', attempt_at)
      BY <2>2, <2>3 DEF PaceInv, Paced, Since
    <2>. QED
      BY <1>c, <2>1, <2>3, <2>4, PacingIdle DEF PaceInv
  <1>. QED
    BY <1>1, <1>2, <1>3, <1>4

-----------------------------------------------------------------------------
(***************************************************************************)
(* A day lost to a crash is warned about.                                  *)
(***************************************************************************)

\* The days a copy of the state names, beside its mark: a day with a residual
\* and a day given up came to a conclusion, and a re-check is never older
\* than the mark.
Noted(s, done, today) ==
  /\ s.retry_as_of # None => s.retry_as_of \in done
  /\ s.recheck_exhausted_as_of # None => s.recheck_exhausted_as_of \in done
  /\ s.recheck_as_of # None =>
       /\ s.recheck_as_of < today
       /\ Covers(s.recheck_as_of, s.last_scheduled_as_of)

NoteInv == /\ Noted(mem, concluded, day) /\ Noted(disk, concluded, day)
           /\ pc = "open" => as_of \in concluded
           /\ CrashDropWarned

\* A rewrite that closes windows or leaves them, and the mark, alone.
Closes(s, t) ==
  /\ t.recheck_exhausted_as_of = s.recheck_exhausted_as_of
  /\ t.retry_as_of \in {None, s.retry_as_of}
  /\ \/ t.recheck_as_of = None
     \/ /\ t.recheck_as_of = s.recheck_as_of
        /\ t.last_scheduled_as_of = s.last_scheduled_as_of

LEMMA ClosingRewrites ==
  ASSUME NEW s \in State, NEW x, NEW d
  PROVE  /\ Closes(s, s)
         /\ Closes(s, [s EXCEPT !.signal_anchor = x])
         /\ Closes(s, Committed(s, x, d))
         /\ Closes(s, StampedRetry(s))
         /\ Closes(s, _clear_retry(s))
         /\ Closes(s, BestEffortCommitted(s))
         /\ Closes(s, _clear_recheck(s))
  BY HistoryFields DEF Closes, Kept, RetryPart, RecheckPart, MarkPart

\* Such a rewrite keeps Noted, and so do more conclusions and later days.
LEMMA ClosesNoted ==
  ASSUME NEW s, NEW t, NEW done, NEW more, NEW today,
         Closes(s, t), Noted(s, done, today), done \subseteq more
  PROVE  Noted(t, more, today)
  BY DEF Closes, Noted

LEMMA ClosingSave ==
  ASSUME Noted(mem, concluded, day), Noted(disk, concluded, day),
         Closes(mem, mem'), disk' = mem' \/ disk' = disk,
         concluded \subseteq concluded', day' = day
  PROVE  Noted(mem', concluded', day') /\ Noted(disk', concluded', day')
  <1>1. Closes(disk, disk)
    BY DEF Closes
  <1>. QED
    BY <1>1, ClosesNoted

\* What a boot finds: on its own bar a lost day has no window but its own, so
\* SuspectDropped sees it; and what SuspectDropped sees is on its own bar, has
\* re-check enabled and no window.
LEMMA BootWarns ==
  ASSUME TypeOK, Inv, NoteInv, BootCheck
  PROVE  CrashDropWarned'
  <1>. DEFINE marked == mem.last_scheduled_as_of
  <1>1. ASSUME LostDay, recheck_enabled, marked = Expected,
               mem.recheck_as_of # marked
        PROVE  SuspectDropped(Expected)
    <2>1. Expected # None
      BY <1>1 DEF LostDay
    <2>2. mem.retry_as_of = None /\ mem.recheck_exhausted_as_of # marked
      BY <1>1 DEF NoteInv, Noted, Inv, WindowInv, LostDay
    <2>3. mem.recheck_as_of = None
      <3>1. SUFFICES ASSUME mem.recheck_as_of # None PROVE FALSE
        OBVIOUS
      <3>2. /\ mem.recheck_as_of < day /\ Expected <= mem.recheck_as_of
            /\ mem.recheck_as_of \in Nat
        BY <1>1, <2>1, <3>1, DateTypes DEF NoteInv, Noted, Covers, TypeOK
      <3>3. Expected = day - 1 /\ day \in Nat
        BY <2>1 DEF Expected, expected_as_of, TypeOK
      <3>. QED
        BY <1>1, <3>2, <3>3
    <2>. QED
      BY <1>1, <2>1, <2>2, <2>3 DEF SuspectDropped, LostDay
  <1>2. ASSUME LostDay, SuspectDropped(Expected)
        PROVE  recheck_enabled /\ marked = Expected /\ mem.recheck_as_of # marked
    BY <1>2 DEF SuspectDropped
  <1>. DEFINE entry == [day        |-> marked,
                        current    |-> marked = Expected,
                        enabled    |-> recheck_enabled,
                        rechecking |-> mem.recheck_as_of = marked,
                        warned     |-> SuspectDropped(Expected)]
  <1>3. CASE boot_log' = {}
    BY <1>3 DEF CrashDropWarned
  <1>4. CASE LostDay /\ boot_log' = {entry}
    <2>1. entry.warned <=> entry.current /\ entry.enabled /\ ~entry.rechecking
      BY <1>1, <1>2, <1>4, Zenon
    <2>. HIDE DEF entry
    <2>. QED
      BY <1>4, <2>1 DEF CrashDropWarned
  <1>. QED
    BY <1>3, <1>4 DEF BootCheck

LEMMA TickNoted ==
  ASSUME TypeOK, Inv, NoteInv, Tick
  PROVE  NoteInv'
  <1>. USE DEF clock, history
  <1>s. mem \in State /\ disk \in State
    BY HistoryTypes
  <1>1. CASE TickKilled \/ TickExpired
    BY <1>1 DEF TickKilled, TickExpired, NoteInv, CrashDropWarned
  <1>b. CASE ~(TickKilled \/ TickExpired)
    <2>1. BootCheck /\ day' = day /\ pc' # "open"
      BY <1>b DEF Tick, TickHolds, _best_effort_commit, StartRetry,
                  RecheckExhausted, StartFire
    <2>w. CrashDropWarned'
      BY <2>1, BootWarns
    <2>2. CASE TickHolds \/ StartFire \/ _best_effort_commit \/ StartRetry
      <3>1. /\ concluded' = concluded
            /\ \/ mem' = mem
               \/ mem' = BestEffortCommitted(mem)
               \/ mem' = StampedRetry(mem)
            /\ disk' = mem' \/ disk' = disk
        BY <2>2, SaveEffects DEF TickHolds, StartFire, _best_effort_commit,
                                 StartRetry, SaveOk, SaveRaises
      <3>2. Closes(mem, mem')
        BY <1>s, <3>1, ClosingRewrites
      <3>. QED
        BY <2>1, <2>w, <3>1, <3>2, ClosingSave DEF NoteInv
    <2>3. CASE RecheckExhausted
      <3>1. /\ Fires /\ mem' = Exhausted(mem, Expected)
            /\ disk' = mem' \/ disk' = disk
            /\ concluded' = concluded \cup {Expected}
        BY <2>3, SaveEffects DEF RecheckExhausted
      <3>2. /\ Kept(mem, mem', RetryPart)
            /\ mem'.recheck_as_of = None
            /\ mem'.recheck_exhausted_as_of = Expected
        BY <1>s, <3>1, HistoryFields
      <3>3. Noted(mem', concluded', day')
        BY <3>1, <3>2 DEF NoteInv, Noted, Kept, RetryPart
      <3>4. Noted(disk, concluded', day')
        BY <2>1, <3>1 DEF NoteInv, Noted
      <3>. QED
        BY <2>1, <2>w, <3>1, <3>3, <3>4 DEF NoteInv
    <2>. QED
      BY <1>b, <2>2, <2>3 DEF Tick
  <1>. QED
    BY <1>1, <1>b

\* A day is given back when its window is still its own, and a day is marked
\* when the windows of other days are gone.
LEMMA FireNoted ==
  ASSUME TypeOK, Inv, NoteInv, Fire
  PROVE  NoteInv'
  <1>. USE DEF clock, history
  <1>s. mem \in State /\ disk \in State /\ None \notin Nat
    BY HistoryTypes
  <1>a. as_of \in Nat /\ as_of < day /\ day' = day /\ boot_log' = boot_log
    BY DEF Fire, RunCycle, SupersedeRetry, SupersedeRecheck, MarkScheduled,
           CycleRaises, FirstCycle, NoSignalHold, DeriskFlatten, DeriskCommit,
           SignalServed, NothingSent, SendOrders, ExecutedClean,
           ExecutedDirty, RestoreDeferred, RestoreHold, CloseRecheck,
           FlushState, OpenRetry, Inv, FireInv, TypeOK, Firing, OrNone, AsOf
  <1>w. CrashDropWarned'
    BY <1>a DEF NoteInv, CrashDropWarned
  <1>1. CASE \/ SupersedeRetry \/ SupersedeRecheck
             \/ RunCycle \/ CloseRecheck \/ FlushState
    <2>1. /\ concluded' = concluded \/ concluded' = concluded \cup {as_of}
          /\ \/ mem' = mem
             \/ mem' = _clear_retry(mem) \/ mem' = _clear_recheck(mem)
             \/ mem' = [mem EXCEPT !.signal_anchor = Now]
             \/ mem' = Committed(mem, Cash, Stamp)
             \/ mem' = Committed(mem, as_of, as_of)
          /\ disk' = mem' \/ disk' = disk
          /\ pc' = "open" => as_of' \in concluded'
      BY <1>1, SaveEffects
         DEF SupersedeRetry, SupersedeRecheck, UnguardedStep,
             RunCycle, CycleRaises, FirstCycle, NoSignalHold, DeriskFlatten,
             DeriskCommit, SignalServed, NothingSent, SendOrders,
             ExecutedClean, ExecutedDirty, CycleStep, CloseRecheck,
             FlushState, LeavesResidual, Definitive, _is_no_signal_hold,
             SaveOk, SaveRaises, Report, Goto, Return
    <2>2. Closes(mem, mem')
      BY <1>s, <2>1, ClosingRewrites
    <2>3. concluded \subseteq concluded'
      BY <2>1
    <2>. QED
      BY <1>a, <1>w, <2>1, <2>2, <2>3, ClosingSave DEF NoteInv
  <1>2. CASE MarkScheduled
    <2>1. /\ concluded' = concluded /\ pc' # "open"
          /\ mem.recheck_as_of \in {None, as_of} /\ mem' = Marked(mem)
          /\ disk' = mem' \/ disk' = disk
      BY <1>2 DEF MarkScheduled, StaleRecheck, SaveOk, SaveRaises, Return
    <2>2. /\ mem'.recheck_as_of = mem.recheck_as_of
          /\ mem'.retry_as_of = mem.retry_as_of
          /\ mem'.recheck_exhausted_as_of = mem.recheck_exhausted_as_of
          /\ mem'.last_scheduled_as_of = as_of
      BY <1>s, <2>1, FiringFields DEF Kept, RetryPart, RecheckPart
    <2>3. Noted(mem', concluded', day')
      BY <1>a, <2>1, <2>2 DEF NoteInv, Noted, Covers
    <2>. QED
      BY <1>a, <1>w, <2>1, <2>3 DEF NoteInv
  <1>3. CASE RestoreDeferred \/ RestoreHold
    <2>1. /\ pc = "post" /\ pc' = "flush" /\ concluded' = concluded
          /\ mem' = Restored(mem) \/ mem' = Rechecking(Restored(mem))
          /\ disk' = mem' \/ disk' = disk
      BY <1>3, SaveEffects DEF RestoreDeferred, RestoreHold, Goto
    <2>2. /\ mem'.recheck_as_of \in {mem.recheck_as_of, as_of}
          /\ mem'.retry_as_of = mem.retry_as_of
          /\ mem'.recheck_exhausted_as_of = mem.recheck_exhausted_as_of
          /\ mem'.last_scheduled_as_of = prev_scheduled
      BY <1>s, <2>1, FiringFields DEF Kept, RetryPart, RecheckPart
    <2>3. /\ mem.last_scheduled_as_of = as_of
          /\ Before(prev_scheduled, as_of)
          /\ prev_scheduled \in Nat \cup {None}
      BY <2>1 DEF Inv, FireInv, MarkHeld, TypeOK, OrNone, AsOf
    <2>4. /\ Covers(as_of, prev_scheduled)
          /\ mem.recheck_as_of # None =>
               /\ mem.recheck_as_of < day
               /\ Covers(mem.recheck_as_of, prev_scheduled)
      BY <1>s, <1>a, <2>3, DateTypes DEF NoteInv, Noted, Covers, Before
    <2>5. Noted(mem', concluded', day')
      BY <1>a, <2>1, <2>2, <2>4 DEF NoteInv, Noted
    <2>. QED
      BY <1>a, <1>w, <2>1, <2>5 DEF NoteInv
  <1>4. CASE OpenRetry
    <2>1. /\ pc = "open" /\ pc' = "idle" /\ concluded' = concluded
          /\ mem' = RetryOpened(mem)
          /\ disk' = mem' \/ disk' = disk
      BY <1>4, SaveEffects DEF OpenRetry, Return
    <2>2. /\ mem'.recheck_as_of = mem.recheck_as_of
          /\ mem'.retry_as_of = as_of
          /\ mem'.recheck_exhausted_as_of = mem.recheck_exhausted_as_of
          /\ mem'.last_scheduled_as_of = mem.last_scheduled_as_of
      BY <1>s, <2>1, FiringFields DEF Kept, RecheckPart, MarkPart
    <2>3. Noted(mem', concluded', day')
      BY <1>a, <2>1, <2>2 DEF NoteInv, Noted
    <2>. QED
      BY <1>a, <1>w, <2>1, <2>3 DEF NoteInv
  <1>. QED
    BY <1>1, <1>2, <1>3, <1>4 DEF Fire

LEMMA OthersNoted ==
  ASSUME TypeOK, Inv, NoteInv, RetryAttempt \/ Environment
  PROVE  NoteInv'
  <1>. USE DEF process, clock, history
  <1>s. mem \in State /\ disk \in State
    BY HistoryTypes
  <1>c. UNCHANGED <<concluded, boot_log>>
    BY DEF RetryAttempt, RetryWithoutOrders, RetrySends, RetryClean,
           RetryDirty, RetryCleared, Environment, Advance, Crash, Restart,
           Arm, Disarm, KeyExpires, RotateKey, Down
  <1>w. CrashDropWarned'
    BY <1>c DEF NoteInv, CrashDropWarned
  <1>1. CASE RetryAttempt
    <2>1. /\ day' = day /\ pc' # "open"
          /\ \/ mem' = mem
             \/ mem' = [mem EXCEPT !.signal_anchor = Now]
             \/ mem' = Committed(mem, mem.retry_target, mem.retry_as_of)
             \/ mem' = _clear_retry(mem)
          /\ disk' = mem' \/ disk' = disk
      BY <1>1, SaveEffects
         DEF RetryAttempt, RetryWithoutOrders, RetrySends, RetryClean,
             RetryDirty, RetryCleared, Return, Goto, SaveOk, SaveRaises
    <2>2. Closes(mem, mem')
      BY <1>s, <2>1, ClosingRewrites
    <2>. QED
      BY <1>c, <1>w, <2>1, <2>2, ClosingSave DEF NoteInv
  <1>2. CASE Advance
    <2>1. /\ UNCHANGED <<mem, disk>> /\ pc' # "open"
          /\ day' = day \/ day' = day + 1
      BY <1>2 DEF Advance
    <2>2. \A s \in State : Noted(s, concluded, day) =>
                             Noted(s, concluded', day')
      BY <1>c, <2>1, DateTypes DEF Noted, TypeOK
    <2>. QED
      BY <1>s, <1>w, <2>1, <2>2 DEF NoteInv
  <1>3. CASE Crash \/ RotateKey \/ Restart
    <2>1. /\ mem' = disk \/ mem' = mem
          /\ disk' = disk /\ day' = day /\ pc' # "open"
      BY <1>3 DEF Crash, RotateKey, Restart, Down
    <2>. QED
      BY <1>c, <1>w, <2>1 DEF NoteInv
  <1>4. CASE Arm \/ Disarm \/ KeyExpires
    BY <1>4 DEF Arm, Disarm, KeyExpires, NoteInv, CrashDropWarned
  <1>. QED
    BY <1>1, <1>2, <1>3, <1>4 DEF Environment

-----------------------------------------------------------------------------
(***************************************************************************)
(* The theorems.                                                           *)
(***************************************************************************)
LEMMA HistoryInit == Init => PaceInv /\ NoteInv
  BY DEF Init, FreshState, PaceInv, Paced, Pacing, Residual, MarkHeld, Unsent,
         Revocable, NoteInv, Noted, CrashDropWarned

LEMMA HistoryNext ==
  ASSUME TypeOK, Inv, PaceInv, NoteInv, [Next]_vars
  PROVE  PaceInv' /\ NoteInv'
  <1>1. CASE UNCHANGED vars
    <2>1. /\ UNCHANGED <<pc, as_of, report, mem, disk, day, tod,
                         attempt_at, concluded, boot_log>>
      BY <1>1 DEF vars, clock, process, history
    <2>2. Now' = Now
      BY <2>1 DEF Now
    <2>. QED
      BY <2>1, <2>2
         DEF PaceInv, Pacing, Residual, MarkHeld, Unsent, Revocable, NoteInv,
             CrashDropWarned
  <1>2. CASE Next
    <2>1. PaceInv'
      BY <1>2, TickPaced, RetryPaced, EnvironmentPaced, SupersedePaced,
         RunCyclePaced, AfterPaced DEF Next, run_once, Fire
    <2>2. NoteInv'
      BY <1>2, TickNoted, FireNoted, OthersNoted DEF Next, run_once
    <2>. QED
      BY <2>1, <2>2
  <1>. QED
    BY <1>1, <1>2

\* The inductive invariant of what the state file remembers of attempts and
\* conclusions, in memory and on disk, at every place of run_once.
THEOREM HistoryCorrect == Spec => [](PaceInv /\ NoteInv)
  <1>1. IInv => TypeOK /\ Inv
    BY DEF IInv, Inv
  <1>2. TypeOK /\ Inv /\ PaceInv /\ NoteInv /\ [Next]_vars =>
          PaceInv' /\ NoteInv'
    BY HistoryNext
  <1>. QED
    BY <1>1, <1>2, HistoryInit, InductiveInvariant, PTL DEF Spec

\* scheduler.should_retry and should_recheck_signal with the stamps that
\* daemon.py saves before an attempt: no retry starts sooner than its interval
\* after the last submission, and no re-check sooner than its own after the
\* last hold, though the process may have died and come back in between.
THEOREM AttemptsAlwaysPaced == Spec => []AttemptsPaced
  <1>1. PaceInv => AttemptsPaced
    BY DEF PaceInv, Pacing, AttemptsPaced
  <1>. QED
    BY <1>1, HistoryCorrect, PTL

\* The boot crash detection of run_once (daemon.py, SP3 section 5): of the days
\* that were marked and lost to a crash, those that a process with re-check
\* enabled finds on the day's own bar are warned about unless a re-check of the
\* day was under way, and no other lost day is.
THEOREM CrashDropAlwaysWarned == Spec => []CrashDropWarned
  <1>1. NoteInv => CrashDropWarned
    BY DEF NoteInv
  <1>. QED
    BY <1>1, HistoryCorrect, PTL
=============================================================================
