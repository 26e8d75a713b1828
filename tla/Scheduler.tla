----------------------------- MODULE Scheduler -----------------------------
(***************************************************************************)
(* The pure time decisions of automation/runtime/scheduler.py.             *)
(*                                                                         *)
(* A UTC instant is a pair (day, tod): a calendar day number and a time of *)
(* day in ticks.  A tick is the granularity at which the decisions can     *)
(* tell instants apart; several 60-second loop iterations of the daemon    *)
(* fit in one.  Durations are differences of Instant values.               *)
(***************************************************************************)
EXTENDS Naturals

CONSTANTS
    DayLen,          \* ticks in a UTC day
    FireTick,        \* rebalance_utc_time, as a time of day
    RetryInterval,   \* retry.interval_seconds
    RetryWindow,     \* retry.window_seconds
    RecheckInterval, \* signal_recheck.interval_seconds
    RecheckWindow,   \* signal_recheck.window_seconds
    None             \* Python's None in the fields and results below

ASSUME SchedulerAssumption ==
    /\ DayLen \in Nat \ {0}
    /\ FireTick \in Nat /\ FireTick < DayLen
    /\ {RetryInterval, RetryWindow, RecheckInterval, RecheckWindow} \subseteq Nat
    /\ None \notin Nat

OrNone(S) == S \cup {None}

Instant(day, tod) == day * DayLen + tod

\* The as_of of the bar that closed at 00:00 UTC today, once today's fire
\* time has come.
expected_as_of(day, tod) == IF tod >= FireTick THEN day - 1 ELSE None

\* The first component of should_fire's result; the second is expected_as_of.
\* The test is equality with the last scheduled as_of, not an ordering.
should_fire(day, tod, last_scheduled_as_of) ==
    expected_as_of(day, tod) \notin {None, last_scheduled_as_of}

retry_window_expired(now, window_start, window) ==
    window_start # None => now - window_start >= window

should_retry(now, expected, retry_as_of, window_start, last_attempt) ==
    /\ None \notin {retry_as_of, window_start, last_attempt}
    /\ expected = retry_as_of
    /\ ~retry_window_expired(now, window_start, RetryWindow)
    /\ now - last_attempt >= RetryInterval

should_recheck_signal(now, recheck_as_of, window_start, last_attempt) ==
    /\ None \notin {recheck_as_of, window_start, last_attempt}
    /\ now - window_start <= RecheckWindow
    /\ now - last_attempt >= RecheckInterval
=============================================================================
