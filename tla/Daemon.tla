------------------------------- MODULE Daemon -------------------------------
(***************************************************************************)
(* The trading daemon of automation/runtime/daemon.py: one process that    *)
(* wakes about once a minute (run_once), fires one rebalance cycle a day,  *)
(* re-checks a missing signal, retries the residual of a dirty cycle, and  *)
(* keeps all of it in a state file that a crash may catch between any two  *)
(* writes.                                                                 *)
(*                                                                         *)
(* A run_once is cut into steps at every state save (reporting/state.py)   *)
(* and around every submission of orders, because a hard kill between two  *)
(* of them is what the code's ordering is designed for.  The venue, the    *)
(* signal and the sizer appear only as the outcomes run_cycle can have.    *)
(***************************************************************************)
EXTENDS Scheduler, Integers

CONSTANTS
    LastDay,      \* bound: the clock stops at the end of this day
    MaxStale,     \* max_signal_staleness_days, in ticks
    MaxFaults,    \* bound: crashes, failed saves, kill armings, key expiries
    RetryModes,   \* values retry.enabled may have at a (re)start
    RecheckModes, \* values signal_recheck.enabled may have at a (re)start
    Cash,         \* the all-cash baseline {} written by a de-risk
    Stamp         \* a now_ts timestamp where an as_of is expected

ASSUME DaemonAssumption ==
    /\ LastDay \in Nat /\ MaxStale \in Nat /\ MaxFaults \in Nat
    /\ RetryModes \in SUBSET BOOLEAN /\ RecheckModes \in SUBSET BOOLEAN
    /\ Cash \notin Nat /\ Stamp \notin Nat
    /\ Cash # None /\ Stamp # None

VARIABLES
    day, tod,         \* the UTC clock
    pc,               \* where run_once is; "down" when no process runs
    mem,              \* Daemon.state, the State object in memory
    disk,             \* the state file
    as_of,            \* run_once's local as_of while a cycle fires
    prev_scheduled,   \* run_once's local prev_scheduled
    report,           \* run_once's local report, by its kind
    kill_handled,     \* Daemon._kill_handled
    boot_checked,     \* Daemon._recheck_boot_checked
    retry_enabled,    \* cfg.retry.enabled
    recheck_enabled,  \* cfg.signal_recheck.enabled
    armed,            \* the kill flag exists, or cannot be read
    expired,          \* the agent key has expired
    held,             \* the venue holds a perp position of ours
    faults,           \* faults so far, at most MaxFaults
    (***********************************************************************)
    (* History, read by the properties only.                               *)
    (***********************************************************************)
    last_traded,      \* as_of of the last daily cycle that sent orders
    n_traded,         \* number of daily cycles that sent orders
    concluded,        \* as_ofs whose daily cycle ran to a conclusion
    boot_log,         \* the lost day the last tick's boot check met, if any
    attempt_at        \* instant of the last hold, submission or retry

process == <<pc, as_of, prev_scheduled, report, kill_handled, boot_checked>>
config  == <<retry_enabled, recheck_enabled>>
clock   == <<day, tod>>
operator == <<armed, expired>>
history == <<last_traded, n_traded, concluded, boot_log, attempt_at>>
vars == <<clock, process, mem, disk, config, operator, held, faults, history>>

Now == Instant(day, tod)
Expected == expected_as_of(day, tod)

AsOf == Nat
Steps == {"down", "idle", "supersede", "cycle", "plan", "send", "derisk",
          "post", "flush", "open", "retry", "resend", "clear"}
\* run_once has the local as_of.
Firing == {"supersede", "cycle", "plan", "send", "derisk", "post", "flush",
           "open"}
Reports == {"error", "hold", "derisked", "no_rebalance", "deferred",
            "aborted", "clean", "uncommitted", "dirty"}

\* Targets are named by the as_of they were served for.
State == [last_scheduled_as_of    : OrNone(AsOf),
          last_rebalanced_as_of   : OrNone(AsOf \cup {Stamp}),
          last_rebalanced_target  : OrNone(AsOf \cup {Cash}),
          signal_anchor           : OrNone(Nat),
          retry_as_of             : OrNone(AsOf),
          retry_target            : OrNone(AsOf),
          retry_window_start      : OrNone(Nat),
          retry_last_attempt      : OrNone(Nat),
          recheck_as_of           : OrNone(AsOf),
          recheck_window_start    : OrNone(Nat),
          recheck_last_attempt    : OrNone(Nat),
          recheck_exhausted_as_of : OrNone(AsOf)]

\* A lost day, as the first tick of a process that may trade finds it:
\* whether that tick is on the day's own bar (between its fire time and
\* midnight), whether re-check is on, and whether a re-check was under way.
BootCheckEntry == [day : AsOf, current : BOOLEAN, enabled : BOOLEAN,
                   rechecking : BOOLEAN, warned : BOOLEAN]

\* A deployment without a state file: reporting/state.load's defaults.
FreshState == [last_scheduled_as_of    |-> None,
               last_rebalanced_as_of   |-> None,
               last_rebalanced_target  |-> None,
               signal_anchor           |-> None,
               retry_as_of             |-> None,
               retry_target            |-> None,
               retry_window_start      |-> None,
               retry_last_attempt      |-> None,
               recheck_as_of           |-> None,
               recheck_window_start    |-> None,
               recheck_last_attempt    |-> None,
               recheck_exhausted_as_of |-> None]

Init ==
    /\ day = 1 /\ tod = 0
    /\ pc = "idle" /\ as_of = None /\ prev_scheduled = None /\ report = None
    /\ kill_handled = FALSE /\ boot_checked = FALSE
    /\ mem = FreshState /\ disk = FreshState
    /\ retry_enabled \in RetryModes /\ recheck_enabled \in RecheckModes
    /\ armed = FALSE /\ expired = FALSE /\ held = FALSE /\ faults = 0
    /\ last_traded = None /\ n_traded = 0 /\ concluded = {} /\ boot_log = {}
    /\ attempt_at = None

-----------------------------------------------------------------------------
(***************************************************************************)
(* Saving.  save() replaces the file atomically, or raises and leaves it.  *)
(***************************************************************************)
SaveOk(s) == mem' = s /\ disk' = s /\ UNCHANGED faults

SaveRaises(s) ==
    /\ faults < MaxFaults /\ faults' = faults + 1
    /\ mem' = s /\ UNCHANGED disk

\* A save inside try/except: run_once goes on whether or not it worked.
GuardedSave(s) == SaveOk(s) \/ SaveRaises(s)

Goto(p) == pc' = p /\ UNCHANGED <<as_of, prev_scheduled, report,
                                  kill_handled, boot_checked>>

\* run_once returns (or raises into run_forever, which logs and sleeps).
Return(checked) ==
    /\ pc' = "idle" /\ as_of' = None /\ prev_scheduled' = None
    /\ report' = None /\ kill_handled' = kill_handled
    /\ boot_checked' = checked

Report(kind, p) ==
    /\ report' = kind /\ pc' = p
    /\ UNCHANGED <<as_of, prev_scheduled, kill_handled, boot_checked>>

\* Mutant: the window's key survives.
_clear_retry_KeyKept(s) == [s EXCEPT !.retry_target = None,
                                     !.retry_window_start = None,
                                     !.retry_last_attempt = None]

_clear_retry(s) == [s EXCEPT !.retry_as_of = None, !.retry_target = None,
                             !.retry_window_start = None,
                             !.retry_last_attempt = None]

\* Mutant: the window's key survives.
_clear_recheck_KeyKept(s) == [s EXCEPT !.recheck_window_start = None,
                                       !.recheck_last_attempt = None]

_clear_recheck(s) == [s EXCEPT !.recheck_as_of = None,
                               !.recheck_window_start = None,
                               !.recheck_last_attempt = None]

-----------------------------------------------------------------------------
(***************************************************************************)
(* run_once: the guards that come before scheduling.                       *)
(***************************************************************************)

\* Mutant: the flatten is edge-gated like the alert.
TickKilled_EdgeOnly ==
    /\ pc = "idle" /\ armed
    /\ kill_handled' = TRUE
    /\ held' \in IF kill_handled THEN {held} ELSE {FALSE, held}
    /\ UNCHANGED <<pc, as_of, prev_scheduled, report, boot_checked, mem, disk,
                   clock, config, operator, faults, history>>

\* Step 0a.  Every armed tick flattens; only the alert is edge-gated, and an
\* unreadable flag leaves that edge alone.  The flatten may leave a position
\* (rejected, partial, venue error).
TickKilled ==
    /\ pc = "idle" /\ armed
    /\ kill_handled' \in {TRUE, kill_handled}
    /\ held' \in {FALSE, held}
    /\ UNCHANGED <<pc, as_of, prev_scheduled, report, boot_checked, mem, disk,
                   clock, config, operator, faults, history>>

\* A tick that passes Step 0a and Step 0b.  A tick with the key expired or
\* its date unreadable only resets kill_handled.
TickExpired ==
    /\ pc = "idle" /\ ~armed /\ expired
    /\ kill_handled' = FALSE
    /\ UNCHANGED <<pc, as_of, prev_scheduled, report, boot_checked, mem, disk,
                   clock, config, operator, held, faults, history>>

Trading == pc = "idle" /\ ~armed /\ ~expired

\* The once-per-process crash detection: warn, and never fire again.
SuspectDropped(exp) ==
    /\ recheck_enabled
    /\ mem.last_scheduled_as_of # None /\ mem.last_scheduled_as_of = exp
    /\ mem.last_rebalanced_as_of # mem.last_scheduled_as_of
    /\ mem.retry_as_of = None /\ mem.recheck_as_of = None
    /\ mem.recheck_exhausted_as_of # mem.last_scheduled_as_of

\* History: the last marked day was neither brought to a conclusion nor
\* recorded as rebalanced, though no process is working on it.
LostDay == mem.last_scheduled_as_of \notin
               concluded \cup {None, mem.last_rebalanced_as_of}

\* A process looks once.  Every lost day there is then is logged, whether or
\* not the code notices it, and the log holds until the next tick.
BootCheck ==
    boot_log' =
        IF ~boot_checked /\ LostDay
        THEN {[day        |-> mem.last_scheduled_as_of,
               current    |-> mem.last_scheduled_as_of = Expected,
               enabled    |-> recheck_enabled,
               rechecking |-> mem.recheck_as_of = mem.last_scheduled_as_of,
               warned     |-> SuspectDropped(Expected)]}
        ELSE {}

Fires == should_fire(day, tod, mem.last_scheduled_as_of)

-----------------------------------------------------------------------------
(***************************************************************************)
(* run_once with no daily cycle due: _maybe_retry.                         *)
(***************************************************************************)
RetryGivenUp ==
    \/ ~retry_enabled
    \/ Expected # mem.retry_as_of
    \/ retry_window_expired(Now, mem.retry_window_start, RetryWindow)

RetryDue == should_retry(Now, Expected, mem.retry_as_of,
                         mem.retry_window_start, mem.retry_last_attempt)

RecheckGate == mem.recheck_as_of = Expected

RecheckDue == should_recheck_signal(Now, mem.recheck_as_of,
                                    mem.recheck_window_start,
                                    mem.recheck_last_attempt)

RecheckExpired ==
    retry_window_expired(Now, mem.recheck_window_start, RecheckWindow)

\* Nothing to do: no window, or too early to retry or to re-check.
TickHolds ==
    /\ Trading
    /\ \/ ~Fires /\ mem.retry_as_of = None
       \/ ~Fires /\ mem.retry_as_of # None /\ ~RetryGivenUp /\ ~RetryDue
       \/ Fires /\ RecheckGate /\ ~RecheckExpired /\ ~RecheckDue
    /\ BootCheck
    /\ pc' = "idle" /\ kill_handled' = FALSE /\ boot_checked' = TRUE
    /\ UNCHANGED <<as_of, prev_scheduled, report, mem, disk, clock, config,
                   operator, held, faults, last_traded, n_traded,
                   concluded, attempt_at>>

BestEffortCommitted(s) ==
    _clear_retry([s EXCEPT !.last_rebalanced_target = s.retry_target,
                           !.last_rebalanced_as_of = s.retry_as_of])

_best_effort_commit ==
    /\ Trading /\ ~Fires /\ mem.retry_as_of # None /\ RetryGivenUp
    /\ BootCheck
    /\ GuardedSave(BestEffortCommitted(mem))   \* a failure only ends the tick
    /\ pc' = "idle" /\ kill_handled' = FALSE /\ boot_checked' = TRUE
    /\ UNCHANGED <<as_of, prev_scheduled, report, clock, config, operator,
                   held, last_traded, n_traded,
                   concluded, attempt_at>>

\* Mutant: the attempt is not stamped.
StampedRetry_Unstamped(s) == s

\* The attempt is stamped and saved before it is made.
StampedRetry(s) == [s EXCEPT !.retry_last_attempt = Now]

StartRetry ==
    /\ Trading /\ ~Fires /\ mem.retry_as_of # None
    /\ ~RetryGivenUp /\ RetryDue
    /\ BootCheck
    /\ \/ SaveOk(StampedRetry(mem)) /\ pc' = "retry"
       \/ SaveRaises(StampedRetry(mem)) /\ pc' = "idle"
    /\ kill_handled' = FALSE /\ boot_checked' = TRUE
    /\ UNCHANGED <<as_of, prev_scheduled, report, clock, config, operator,
                   held, last_traded, n_traded,
                   concluded, attempt_at>>

\* retry_attempt drives run_cycle with the frozen target as a good signal:
\* it advances the staleness anchor like a signal that was really served.
\* The cycle then sends nothing (no rebalance, deferred, aborted) or ...  With
\* a model_rev pin for all sleeves the target is refused and the retry holds,
\* anchor unmoved; the anchor is of the same day, so it does not de-risk.
RetryWithoutOrders ==
    /\ pc = "retry"
    /\ \/ UNCHANGED <<mem, disk, faults>>      \* raised before it, or held
       \/ GuardedSave([mem EXCEPT !.signal_anchor = Now])
    /\ attempt_at' = Now
    /\ Return(boot_checked)
    /\ UNCHANGED <<clock, config, operator, held, last_traded, n_traded,
                   concluded, boot_log>>

\* ... sends the residual.
RetrySends ==
    /\ pc = "retry"
    /\ SaveOk([mem EXCEPT !.signal_anchor = Now])
    /\ attempt_at' = Now
    /\ held' \in BOOLEAN
    /\ Goto("resend")
    /\ UNCHANGED <<clock, config, operator, last_traded, n_traded,
                   concluded, boot_log>>

\* Mutant: the arguments are swapped.
Committed_Swapped(s, target, d) == [s EXCEPT !.last_rebalanced_target = d,
                                             !.last_rebalanced_as_of = target]

Committed(s, target, d) == [s EXCEPT !.last_rebalanced_target = target,
                                     !.last_rebalanced_as_of = d]

\* A clean attempt commits the target; anything else leaves the window.
RetryClean ==
    /\ pc = "resend"
    /\ LET s == Committed(mem, mem.retry_target, mem.retry_as_of)
       IN  \/ SaveOk(s) /\ Goto("clear")
           \/ SaveRaises(s) /\ Return(boot_checked)
    /\ UNCHANGED <<clock, config, operator, held, history>>

RetryDirty ==
    /\ pc = "resend"
    /\ Return(boot_checked)
    /\ UNCHANGED <<mem, disk, faults, clock, config, operator, held, history>>

RetryCleared ==
    /\ pc = "clear"
    /\ GuardedSave(_clear_retry(mem))          \* a failure only ends the tick
    /\ Return(boot_checked)
    /\ UNCHANGED <<clock, config, operator, held, history>>

-----------------------------------------------------------------------------
(***************************************************************************)
(* run_once with the daily cycle due.                                      *)
(***************************************************************************)

\* Mutant: the day is not consumed.
Exhausted_DayKept(s, d) ==
    _clear_recheck([s EXCEPT !.recheck_exhausted_as_of = d])

\* The re-check window ran out: the day is consumed without a cycle.
Exhausted(s, d) ==
    _clear_recheck([s EXCEPT !.last_scheduled_as_of = d,
                             !.recheck_exhausted_as_of = d])

RecheckExhausted ==
    /\ Trading /\ Fires /\ RecheckGate /\ RecheckExpired
    /\ BootCheck
    /\ GuardedSave(Exhausted(mem, Expected))   \* a failure only ends the tick
    /\ concluded' = concluded \cup {Expected}
    /\ pc' = "idle" /\ kill_handled' = FALSE /\ boot_checked' = TRUE
    /\ UNCHANGED <<as_of, prev_scheduled, report, clock, config, operator,
                   held, last_traded, n_traded, attempt_at>>

StartFire ==
    /\ Trading /\ Fires
    /\ RecheckGate => ~RecheckExpired /\ RecheckDue
    /\ BootCheck
    /\ as_of' = Expected /\ pc' = "supersede"
    /\ kill_handled' = FALSE /\ boot_checked' = TRUE
    /\ UNCHANGED <<prev_scheduled, report, mem, disk, clock, config, operator,
                   held, faults, last_traded, n_traded,
                   concluded, attempt_at>>

\* A save outside any try: if it raises, run_once is over.
UnguardedStep(s, p) ==
    \/ SaveOk(s) /\ Goto(p)
    \/ SaveRaises(s) /\ Return(boot_checked)

\* Mutants: a window of another day is not noticed.
StaleRetry_Unnoticed == FALSE
StaleRecheck_Unnoticed == FALSE

\* Step 1b: windows of another day are dropped before the new day's cycle.
StaleRetry == mem.retry_as_of \notin {None, as_of}
StaleRecheck == mem.recheck_as_of \notin {None, as_of}

SupersedeRetry ==
    /\ pc = "supersede" /\ StaleRetry
    /\ UnguardedStep(_clear_retry(mem), "supersede")
    /\ UNCHANGED <<clock, config, operator, held, history>>

SupersedeRecheck ==
    /\ pc = "supersede" /\ ~StaleRetry /\ StaleRecheck
    /\ UnguardedStep(_clear_recheck(mem), "supersede")
    /\ UNCHANGED <<clock, config, operator, held, history>>

\* Mutant: the mark is forgotten.
Marked_Unmarked(s) == s

\* Step 2: the day is marked on disk before anything is sent.
Marked(s) == [s EXCEPT !.last_scheduled_as_of = as_of]

MarkScheduled ==
    /\ pc = "supersede" /\ ~StaleRetry /\ ~StaleRecheck
    /\ \/ /\ SaveOk(Marked(mem))
          /\ prev_scheduled' = mem.last_scheduled_as_of /\ pc' = "cycle"
          /\ UNCHANGED <<as_of, report, kill_handled, boot_checked>>
       \/ SaveRaises(Marked(mem)) /\ Return(boot_checked)
    /\ UNCHANGED <<clock, config, operator, held, history>>

-----------------------------------------------------------------------------
(***************************************************************************)
(* Step 3: run_cycle, by its outcomes.  An exception anywhere in it is     *)
(* caught by run_once and reported as "error".                             *)
(***************************************************************************)
CycleRaises ==
    /\ pc \in {"cycle", "plan", "send", "derisk"}
    /\ Report("error", "post")
    /\ UNCHANGED <<mem, disk, faults, clock, config, operator, held, history>>

\* A save inside run_cycle that is not guarded there.
CycleStep(s, p) ==
    \/ SaveOk(s) /\ Goto(p)
    \/ SaveRaises(s) /\ Report("error", "post")

\* The staleness clock of a deployment starts with its first cycle.
FirstCycle ==
    /\ pc = "cycle" /\ mem.signal_anchor = None
    /\ CycleStep([mem EXCEPT !.signal_anchor = Now], "cycle")
    /\ UNCHANGED <<clock, config, operator, held, history>>

TooStale == Now - mem.signal_anchor > MaxStale

NoSignalHold ==
    /\ pc = "cycle" /\ mem.signal_anchor # None /\ ~TooStale
    /\ Report("hold", "post")
    /\ UNCHANGED <<mem, disk, faults, clock, config, operator, held, history>>

\* No signal for too long: flatten, then record the cash baseline.
DeriskFlatten ==
    /\ pc = "cycle" /\ mem.signal_anchor # None /\ TooStale
    /\ held' \in {FALSE, held}
    /\ Goto("derisk")
    /\ UNCHANGED <<mem, disk, faults, clock, config, operator, history>>

DeriskCommit ==
    /\ pc = "derisk"
    /\ LET s == Committed(mem, Cash, Stamp)
       IN  \/ SaveOk(s) /\ Report("derisked", "post")
           \/ SaveRaises(s) /\ Report("error", "post")
    /\ UNCHANGED <<clock, config, operator, held, history>>

\* A good signal advances the staleness clock before any order is planned.
SignalServed ==
    /\ pc = "cycle" /\ mem.signal_anchor # None
    /\ CycleStep([mem EXCEPT !.signal_anchor = Now], "plan")
    /\ UNCHANGED <<clock, config, operator, held, history>>

\* The planner wants no trade, the rate budget defers the whole cycle, or a
\* cap aborts it: no order is sent.
NothingSent ==
    /\ pc = "plan"
    /\ \E r \in {"no_rebalance", "deferred", "aborted"} : Report(r, "post")
    /\ UNCHANGED <<mem, disk, faults, clock, config, operator, held, history>>

SendOrders ==
    /\ pc = "plan"
    /\ last_traded' = as_of /\ n_traded' = n_traded + 1 /\ attempt_at' = Now
    /\ held' \in BOOLEAN
    /\ Goto("send")
    /\ UNCHANGED <<mem, disk, faults, clock, config, operator, concluded,
                   boot_log>>

\* Only a clean execution commits the new baseline.
ExecutedClean ==
    /\ pc = "send"
    /\ LET s == Committed(mem, as_of, as_of)
       IN  \/ SaveOk(s) /\ Report("clean", "post")
           \/ SaveRaises(s) /\ Report("uncommitted", "post")
    /\ UNCHANGED <<clock, config, operator, held, history>>

ExecutedDirty ==
    /\ pc = "send"
    /\ Report("dirty", "post")
    /\ UNCHANGED <<mem, disk, faults, clock, config, operator, held, history>>

-----------------------------------------------------------------------------
(***************************************************************************)
(* run_once after the cycle.  Every save here is guarded.                  *)
(***************************************************************************)
_is_no_signal_hold == report = "hold"

Restored(s) == [s EXCEPT !.last_scheduled_as_of = prev_scheduled]

\* Mutant: a cycle that deferred only some orders gives the day back too.
RestoreDeferred_AlsoDirty ==
    /\ pc = "post" /\ report \in {"deferred", "dirty"}
    /\ GuardedSave(Restored(mem))
    /\ Goto("flush")
    /\ UNCHANGED <<clock, config, operator, held, history>>

\* A deferred cycle and a no-signal hold sent nothing: the day is given back.
RestoreDeferred ==
    /\ pc = "post" /\ report = "deferred"
    /\ GuardedSave(Restored(mem))
    /\ Goto("flush")
    /\ UNCHANGED <<clock, config, operator, held, history>>

Rechecking(s) ==
    [s EXCEPT !.recheck_as_of = as_of,
              !.recheck_window_start =
                    IF s.recheck_as_of = as_of THEN @ ELSE Now,
              !.recheck_last_attempt = Now]

RestoreHold ==
    /\ pc = "post" /\ recheck_enabled /\ _is_no_signal_hold
    /\ GuardedSave(Rechecking(Restored(mem)))
    /\ attempt_at' = Now
    /\ Goto("flush")
    /\ UNCHANGED <<clock, config, operator, held, last_traded, n_traded,
                   concluded, boot_log>>

\* Any other outcome closes an open re-check window.
Definitive ==
    report # "deferred" /\ ~(recheck_enabled /\ _is_no_signal_hold)

CloseRecheck ==
    /\ pc = "post" /\ Definitive
    /\ IF mem.recheck_as_of # None
       THEN GuardedSave(_clear_recheck(mem))
       ELSE UNCHANGED <<mem, disk, faults>>
    /\ Goto("flush")
    /\ UNCHANGED <<clock, config, operator, held, history>>

LeavesResidual == retry_enabled /\ report = "dirty"

\* Step 4.
FlushState ==
    /\ pc = "flush"
    /\ GuardedSave(mem)
    /\ concluded' = IF Definitive THEN concluded \cup {as_of} ELSE concluded
    /\ IF LeavesResidual THEN Goto("open") ELSE Return(boot_checked)
    /\ UNCHANGED <<clock, config, operator, held, last_traded, n_traded,
                   boot_log, attempt_at>>

\* Step 4b: a residual of the cycle is retried towards the frozen target.
RetryOpened(s) == [s EXCEPT !.retry_as_of = as_of, !.retry_target = as_of,
                            !.retry_window_start = Now,
                            !.retry_last_attempt = Now]

OpenRetry ==
    /\ pc = "open"
    /\ GuardedSave(RetryOpened(mem))
    /\ Return(boot_checked)
    /\ UNCHANGED <<clock, config, operator, held, history>>

-----------------------------------------------------------------------------
(***************************************************************************)
(* The environment.                                                        *)
(***************************************************************************)
Fault == faults < MaxFaults /\ faults' = faults + 1

\* run_once reads the clock once, so time need not pass inside it.
Advance ==
    /\ pc \in {"idle", "down"}
    /\ \/ tod < DayLen - 1 /\ tod' = tod + 1 /\ UNCHANGED day
       \/ tod = DayLen - 1 /\ day < LastDay /\ tod' = 0 /\ day' = day + 1
    /\ UNCHANGED <<process, mem, disk, config, operator, held, faults, history>>

\* The process ends; what the next one loads is the state file.
Down ==
    /\ pc' = "down" /\ as_of' = None /\ prev_scheduled' = None
    /\ report' = None /\ kill_handled' = FALSE /\ boot_checked' = FALSE
    /\ mem' = disk
    /\ UNCHANGED <<disk, clock, config, held, history>>

Crash == pc # "down" /\ Fault /\ Down /\ UNCHANGED operator

\* The supervisor starts the daemon again.  boot() may close positions whose
\* leverage type drifted, unless the key is expired.
Restart ==
    /\ pc = "down" /\ pc' = "idle"
    /\ retry_enabled' \in RetryModes /\ recheck_enabled' \in RecheckModes
    /\ held' \in IF expired THEN {held} ELSE {FALSE, held}
    /\ UNCHANGED <<as_of, prev_scheduled, report, kill_handled, boot_checked,
                   mem, disk, clock, operator, faults, history>>

Arm ==
    /\ ~armed /\ armed' = TRUE /\ Fault
    /\ UNCHANGED <<expired, process, mem, disk, clock, config, held, history>>

Disarm ==
    /\ armed /\ armed' = FALSE
    /\ UNCHANGED <<expired, process, mem, disk, clock, config, held, faults,
                   history>>

KeyExpires ==
    /\ ~expired /\ expired' = TRUE /\ Fault
    /\ UNCHANGED <<armed, process, mem, disk, clock, config, held, history>>

\* A new key needs a new configuration, hence a restart.
RotateKey ==
    /\ pc = "idle" /\ expired /\ expired' = FALSE
    /\ Down
    /\ UNCHANGED <<armed, faults>>

-----------------------------------------------------------------------------
Tick ==
    \/ TickKilled \/ TickExpired \/ TickHolds
    \/ _best_effort_commit \/ StartRetry \/ RecheckExhausted \/ StartFire

RetryAttempt ==
    \/ RetryWithoutOrders \/ RetrySends
    \/ RetryClean \/ RetryDirty \/ RetryCleared

RunCycle ==
    \/ CycleRaises \/ FirstCycle
    \/ NoSignalHold \/ DeriskFlatten \/ DeriskCommit
    \/ SignalServed \/ NothingSent
    \/ SendOrders \/ ExecutedClean \/ ExecutedDirty

Fire ==
    \/ SupersedeRetry \/ SupersedeRecheck \/ MarkScheduled
    \/ RunCycle
    \/ RestoreDeferred \/ RestoreHold \/ CloseRecheck
    \/ FlushState \/ OpenRetry

run_once == Tick \/ RetryAttempt \/ Fire

Environment ==
    Advance \/ Crash \/ Restart \/ Arm \/ Disarm \/ KeyExpires \/ RotateKey

Next == run_once \/ Environment

Spec == Init /\ [][Next]_vars

(***************************************************************************)
(* The loop keeps ticking and the clock keeps going; the supervisor        *)
(* restarts a dead process; an expired key is eventually rotated; the      *)
(* venue does not refuse a reduce-only close for ever.  Nothing obliges    *)
(* the operator to remove a kill flag.                                     *)
(***************************************************************************)
Fairness ==
    /\ WF_vars(run_once) /\ SF_vars(Advance)
    /\ WF_vars(Restart) /\ WF_vars(RotateKey)
    /\ SF_vars(TickKilled /\ ~held')

FairSpec == Spec /\ Fairness

-----------------------------------------------------------------------------
(***************************************************************************)
(* Properties.                                                             *)
(***************************************************************************)

\* The state file and its copy in memory are well-formed at every step.
TypeOK ==
    /\ day \in Nat \ {0} /\ tod \in 0 .. DayLen - 1
    /\ pc \in Steps
    /\ mem \in State /\ disk \in State
    /\ as_of \in OrNone(AsOf) /\ (pc \in Firing => as_of # None)
    /\ prev_scheduled \in OrNone(AsOf)
    /\ report \in OrNone(Reports)
    /\ kill_handled \in BOOLEAN /\ boot_checked \in BOOLEAN
    /\ retry_enabled \in BOOLEAN /\ recheck_enabled \in BOOLEAN
    /\ armed \in BOOLEAN /\ expired \in BOOLEAN /\ held \in BOOLEAN
    /\ faults \in Nat
    /\ last_traded \in OrNone(AsOf) /\ n_traded \in Nat
    /\ concluded \in SUBSET AsOf
    /\ boot_log \in SUBSET BootCheckEntry
    /\ attempt_at \in OrNone(Nat)

\* F1: whenever the daily cycle of a day is about to run or to send, no daily
\* cycle of that day or of a later one has sent orders before, whatever
\* crashes, restored days and failed saves came in between.
OneTradingCyclePerDay ==
    pc \in {"cycle", "plan"} => last_traded = None \/ last_traded < as_of

\* An open retry window, seen between two ticks, is for the day that was
\* last marked scheduled and last sent orders, and for that day's target;
\* so giving it up can never overwrite a newer day's baseline (C1).
RetryWindowIsNewest ==
    pc = "idle" /\ mem.retry_as_of # None =>
        /\ mem.retry_as_of = mem.last_scheduled_as_of
        /\ mem.retry_as_of = last_traded
        /\ mem.retry_target = last_traded

\* A missing signal and an unfilled residual are never both being chased, in
\* memory or on disk: a re-check sends the whole day again, a retry only the
\* residual.
WindowsExclude ==
    \A s \in {mem, disk} : s.retry_as_of = None \/ s.recheck_as_of = None

\* Attempts are paced even across a crash: no retry starts within
\* RetryInterval of the submission or retry before it, and no re-check within
\* RecheckInterval of the hold before it.
AttemptsPaced ==
    /\ pc = "retry" => Now - attempt_at >= RetryInterval
    /\ pc = "cycle" /\ mem.recheck_as_of = as_of =>
            Now - attempt_at >= RecheckInterval

\* A day given up because its re-check window ran out never traded, and never
\* trades later.
ExhaustedNeverTrades ==
    mem.recheck_exhausted_as_of # None =>
        mem.recheck_exhausted_as_of # last_traded

\* Of the days that were marked and lost to a crash, the boot crash-detection
\* warns of exactly those that a process with re-check enabled finds on the
\* day's own bar, from its fire time to midnight, with no re-check of that
\* day under way.  A lost day found before the fire time, on a later bar or
\* with re-check disabled passes in silence.
CrashDropWarned ==
    \A b \in boot_log :
        b.warned <=> b.current /\ b.enabled /\ ~b.rechecking

\* daemon.py:706 says of a kill between the mark and the restore of a hold
\* that it "is caught by the boot crash-detection WARN above": so the boot
\* check, when re-check is enabled and it runs on the day's own bar, warns of
\* every day that was marked and then lost to a crash.
EveryCrashDropWarned ==
    \A b \in boot_log : b.current /\ b.enabled => b.warned

\* The durable state implements the once-a-day trader.
Trader == INSTANCE DailyTrader WITH latest <- last_traded,
                                    trades <- n_traded,
                                    baseline <- disk.last_rebalanced_target
TraderSpec == Trader!Spec

\* Days whose windows the bounded clock leaves the time to close.
ClosingDays == 0 .. LastDay - 2

\* Unless the operator halts trading for good, a retry window is eventually
\* closed, by a clean attempt, by expiry, or by the next day.
RetryWindowCloses ==
    []<>~armed => \A d \in ClosingDays :
        (pc = "idle" /\ mem.retry_as_of = d) ~> (mem.retry_as_of # d)

\* Likewise a re-check window, the one left behind by a crash included.
RecheckWindowCloses ==
    []<>~armed => \A d \in ClosingDays :
        (pc = "idle" /\ mem.recheck_as_of = d) ~> (mem.recheck_as_of # d)

\* K2/K3: a kill flag left armed leaves the account without perp positions,
\* also when a cycle in flight opened one after it was armed and when closes
\* failed.  With spot_routing on, spot holdings are no positions here:
\* flatten_all leaves them.
KillFlattens == <>[]armed => <>[]~held

-----------------------------------------------------------------------------
(***************************************************************************)
(* The inductive invariant behind OneTradingCyclePerDay,                   *)
(* RetryWindowIsNewest, WindowsExclude, ExhaustedNeverTrades and           *)
(* TraderSpec (proved in DaemonProofs).                                    *)
(***************************************************************************)

\* The mark ls is at least the day x.
Covers(ls, x) == x = None \/ (ls # None /\ x <= ls)

Before(x, d) == x = None \/ x < d

\* Both copies of the mark cover every day traded or given up, and no mark is
\* ahead of the calendar: a day that should_fire accepts is a new day.
MarkInv(s) ==
    /\ Before(s.last_scheduled_as_of, day)
    /\ Covers(s.last_scheduled_as_of, last_traded)
    /\ Covers(s.last_scheduled_as_of, s.recheck_exhausted_as_of)
    /\ s.recheck_exhausted_as_of # None =>
            s.recheck_exhausted_as_of # last_traded

WindowInv(s) ==
    /\ s.retry_as_of # None =>
            /\ s.retry_as_of = s.last_scheduled_as_of
            /\ s.retry_as_of = last_traded
            /\ s.retry_target = last_traded
    /\ s.retry_as_of = None \/ s.recheck_as_of = None

\* Between the mark and the first order: the file agrees with memory.
Unsent == pc \in {"cycle", "plan", "derisk"}

\* Between the mark and the restore, if there is one.
MarkHeld == Unsent \/ pc \in {"send", "post"}

\* The day may still be given back.
Revocable == Unsent \/ (pc = "post" /\ report \in {"hold", "deferred"})

\* The cycle sent orders and its residual will be retried.
Residual == pc = "send" \/ pc = "open"
            \/ (pc \in {"post", "flush"} /\ report = "dirty")

FireInv ==
    /\ pc \in Firing => as_of < day
    /\ pc = "supersede" => Before(mem.last_scheduled_as_of, as_of)
    /\ Unsent => mem = disk
    /\ MarkHeld => /\ mem.last_scheduled_as_of = as_of
                   /\ disk.last_scheduled_as_of = as_of
                   /\ mem.retry_as_of = None /\ disk.retry_as_of = None
                   /\ Before(prev_scheduled, as_of)
    /\ Revocable => /\ Covers(prev_scheduled, last_traded)
                    /\ Covers(prev_scheduled, mem.recheck_exhausted_as_of)
    /\ Residual => /\ last_traded = as_of
                   /\ mem.last_scheduled_as_of = as_of
    /\ pc = "open" \/ (pc = "flush" /\ report = "dirty") =>
            mem.recheck_as_of = None
    /\ pc \in {"retry", "resend"} => mem.retry_as_of # None

\* What memory has and the file has not is the newest target, or cash.
BaselineInv ==
    \/ mem.last_rebalanced_target = disk.last_rebalanced_target
    \/ mem.last_rebalanced_target = Cash
    \/ last_traded # None /\ mem.last_rebalanced_target = last_traded

IInv ==
    /\ TypeOK
    /\ MarkInv(mem) /\ MarkInv(disk)
    /\ WindowInv(mem) /\ WindowInv(disk)
    /\ FireInv
    /\ BaselineInv
=============================================================================
