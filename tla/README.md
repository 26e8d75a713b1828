# hl-allocator in TLA+

hl-allocator is a Python daemon that once a day rebalances a Hyperliquid account
towards a signed target allocation. It is written to be killed at any moment:
what it may do next is decided by a JSON state file, and most of its comments
are about the order in which that file is saved and orders are sent. This
directory models that protocol, checks it with TLC and proves its core with
TLAPS. Paths below are relative to `src/automation/`.

## The system

| Component | State it keeps | Operations | What makes it correct |
|---|---|---|---|
| `runtime/scheduler.py` | none | `expected_as_of`, `should_fire`, `should_retry`, `retry_window_expired`, `should_recheck_signal` | a day's bar is due once, from the fire time on; a retry is bound to its day |
| `runtime/daemon.py` | `Daemon.state`, two in-process flags | `boot`, `run_once` (one loop iteration), `_maybe_retry`, `shutdown` | one trading cycle a day (F1), superseded windows never commit (C1), windows close, a kill flattens (K1-K3) |
| `reporting/state.py` | the state file | `load`, atomic `save` | a save either replaces the whole file or leaves it |
| `runtime/rebalance.py` | sleeves, staleness clock, baseline, cooldowns (in the state file) | `run_cycle`, `retry_attempt`, `_handle_no_good_signal`, `_detect_liquidations` | only a clean execution commits the baseline; no signal for too long means cash |
| `execution/executor.py`, `runtime/intent_ledger.py` | the ledger of PENDING/DONE intents | `execute`, `record_pending`, `mark_done`, `reconcile_pending` | an intent is on disk before its order; an ambiguous order stays PENDING |
| `execution/sizer.py`, `execution/reconciler.py` | none | `plan`, `snapshot`, `achieved_weights` | the book stays within the cap, no coin is stranded away from its target, close before open |
| `allocation/remote_signal.py` | the anti-replay cursor | `latest_target` | only a newer, verified allocation is accepted |
| `allocation/sleeves.py` | per-sleeve records | `combine_sleeves`, `resolve_outcome` | a dark sleeve is frozen, not sold |
| `core/nonce.py` | counter in two files | `next`, `reanchor` | strictly increasing across crashes |
| `runtime/kill_switch.py` | none (the flag file, the heartbeat and the equity are read) | `is_killed`, `flatten_all`, `Watchdog.check` | reduce-only, idempotent, never dies |
| `scripts/leverage_guard.py`, the leverage step of `boot` | none | `plan_leverage`, lower in place, `--enforce-type` | never raises a leverage, only closes |
| `core/hl_client.py` | the lock on the nonce file | `for_trading`, submissions, `market_close`, `update_leverage` | one signing process; an answer is an outcome or an error |
| `monitoring/`, `reporting/alerts.py`, `reporting/audit.py`, `core/redaction.py`, `core/secrets.py`, `core/config.py`, `runtime/health.py`, `runtime/dry_run.py`, other `scripts/` | none that is read back | | |

One process runs `run_forever`: every 60 s or so it calls `run_once(now)`, which
reads the clock once. Inside a `run_once` everything is sequential; the
concurrency is with the operator (kill flag, key rotation), with the venue, with
the clock between ticks, and above all with a kill of the process between any two
writes. `boot` loads the state file again. Beside it, by the design of
`kill_switch.py`, runs the watchdog on another host and with a key of its own, which flattens the
account when the daemon stops beating or the equity falls through its floor (the repository has
the class and its tests, not the script that drives it); and an operator may start `leverage_guard` on the same account.

Hard behaviours, each listed with its line under `hazards` in `PROJECT.json`: a
kill between the mark of a day and its orders; a save that raises while memory
has moved on; giving a day back after a deferral or a hold; two kinds of window
(retry of a residual, re-check of a missing signal) that outlive their day; a
flatten that fails; a flag armed in the middle of a cycle; a flatten by one process
between two legs of another.

## The modules

**`Scheduler`** translates the decisions of `scheduler.py`. An instant is a pair
(day, time of day in ticks); a tick is as long as the shortest difference the
durations in a configuration can tell apart, so several loop iterations may fall
in one. `should_fire` keeps the code's equality test.

**`Daemon`** is `run_once`. It is cut into steps where a kill makes a difference:
at every `save` and before and after orders are sent. `pc` names the place;
`mem` is `Daemon.state` and `disk` the file. A save is `SaveOk` or `SaveRaises`
(memory already changed, file as before), and each use follows the code: guarded
by try/except (`GuardedSave`) or ending the tick (`UnguardedStep`), or the cycle
(`CycleStep`).

| Action | Code |
|---|---|
| `TickKilled`, `TickExpired` | Steps 0a and 0b of `run_once` |
| `BootCheck` (part of every tick that reaches it) | the once-per-process crash detection |
| `TickHolds`, `_best_effort_commit`, `StartRetry` | `_maybe_retry` before an attempt |
| `RetryWithoutOrders`, `RetrySends`, `RetryClean`, `RetryDirty`, `RetryCleared` | `retry_attempt` and what follows it |
| `RecheckExhausted`, `StartFire` | the re-check gate |
| `SupersedeRetry`, `SupersedeRecheck`, `MarkScheduled` | Steps 1b and 2 |
| `FirstCycle`, `NoSignalHold`, `DeriskFlatten`, `DeriskCommit`, `SignalServed`, `NothingSent`, `SendOrders`, `ExecutedClean`, `ExecutedDirty`, `CycleRaises` | Step 3, `run_cycle` by its outcomes |
| `RestoreDeferred`, `RestoreHold`, `CloseRecheck`, `FlushState`, `OpenRetry` | Steps 3b to 4b |
| `Advance`, `Crash`, `Restart`, `Arm`, `Disarm`, `KeyExpires`, `RotateKey` | the environment; `Restart` includes the flatten of `boot` |

Abstractions: a target is named by the day it was served for; `signal_anchor`
is `last_successful_signal_ts or first_cycle_ts`; attempt counters, alerts, the
audit log and the health report are left out; the account is `held`, whether a
perp position of ours is open (`flatten_all` leaves spot holdings). The constant `Stamp` is the timestamp that a de-risk
writes where an as_of is expected (`rebalance.py:279`).

Four history variables (`last_traded`, `concluded`, `boot_log`, `attempt_at`)
are written by actions and read by properties only.

**`DailyTrader`** is what the daemon promises: trade a day at most once, days in
order; the durable baseline becomes the newest target or cash, nothing else.
`Daemon!TraderSpec` is the refinement, with `latest <- last_traded` and
`baseline <- disk.last_rebalanced_target`.

**`MCDaemon`** gives TLC the sets behind the constants.
**`DaemonProofs`** holds the proofs.

**`IntentLedger`** is `intent_ledger.py`: `intents` in memory, `file` on disk. Every
mutation changes memory first and flushes second; a flush that raises leaves memory
ahead. `reconcile_pending` flushes once for each intent it resolves, so it can stop
half way (`reconcile_raises`).

**`Executor`** extends it with `execute`, cycle after cycle, one process. `pc` names the
place where another party can see or stop the executor: before the ledger write
(`record`), between the write and the order (`submit`), between the order and its
answer (`answer`), between a resting order's answer and its cancel (`cancel`).

| Action | Code |
|---|---|
| `StartCycle`, `ReconcileRaises` | `run_cycle` Step 0, the plan, and the pre-flight checks of `execute` |
| `SkipLeg`, `BeginLeg`, `FinishCycle`, `MarksRaise` | the dispatch loop: pair gating, liquidity gate, routing, the report |
| `Record`, `RecordRaises` | `_record_pending` and its flush |
| `SubmitRefused`, `SubmitFilled`, `SubmitLost`, `SubmitRests` | the submission, by what the venue does and what comes back |
| `HandleRefused`, `HandleLost`, `HandleMalformed`, `HandleExit`, `HandleFilled`, `HandleResting`, `MarkDoneRaises` | `_execute_full_exit` and one turn of the loop of `_execute_ioc` |
| `CancelReturns`, `CancelRaises` | the cancel of a resting order; `MarkDoneRaises` has the flush behind it |
| `RestFills`, `Crash`, `Boot` | the venue; a kill; `IntentLedger(path)` and the first steps of `boot` (reconcile, sweep) |

`Plans` is the tail of `sizer.plan`: a flip becomes a close leg and an open leg
anchored at flat, legs below the minimum notional are dropped, legs are sorted by the
coin's largest with the close leg first. Abstractions: prices are one, so sizes are
notionals; a client order id is the record of what `make_cloid` hashes; whether the
book is deep enough or the rate budget sufficient is a free choice; the venue
(`pos`, `book`, `sent`, `full`) is external: an order fills in any part, rests against
its kind, or is lost before or after it traded; a reduce-only order and a spot sale
never exceed the position. A resting order may fill at any time. `executed`,
`restfilled`, `strays` and `answered` are read by properties only.

**`WriteAhead`** is what the ledger promises of orders: known to the file before the
venue, sent once, DONE only after being sent. `Executor!AheadSpec` is the refinement,
with `log <- file`. **`MCExecutor`** gives TLC the ids. **`ExecutorProofs`** holds the proofs
about the ledger and the orders, **`ExecutorPositions`**, which extends it, those about the
positions.

**`Nonce`** is `nonce.py` and the lock of `HLClient.for_trading`. Any number of processes
(the daemon, the command-line tools of `scripts/`) are started on one state file; `pc`
is where a process can die or be seen: `opening` (lock taken, files not read), `ready`,
`primary` and `mirror` (about to write that file), `sign` (the number is handed out). A
process that finds the lock held raises and exits, which is no step.

| Action | Code |
|---|---|
| `for_trading`, `_load`, `LoadOne`, `close` | the lock, `NonceManager.__init__` with both files or one readable, `HLClient.close` |
| `next`, `reanchor`, `ReanchorNoOp` | the two public calls up to `_persist`; a refused `next` raises and is no step. Nothing but the tests calls `reanchor` |
| `WritePrimary`, `WriteMirror`, `WriteFails` | `_persist`, write by write |
| `Sign` | `_nonce_override` hands the number to the SDK, which signs and posts |
| `Crash`, `Clock`, `LoseFile` | the environment |

Missing, empty and corrupt files read as 0 in the code, so 0 stands for all three. The
venue keeps the highest number it accepted and refuses one too far ahead of its time.
Left out: the forward-jump alarm (it logs; `for_trading` passes no callback), and the
re-entrancy check of `_nonce_override` (one thread signs). **`NonceProofs`** holds the
proofs.

**`Sleeves`** is `sleeves.py`: `resolve_outcome`, the fate of one sleeve in one cycle, and
`combine_sleeves`. A weight is its sign: all weights have one size, above every threshold.
Which coins a dict has entries for is a set beside the book, because the code treats an entry
of 0.0 (sold) and a missing entry differently.

**`RemoteSignal`** extends it with `RemoteSignalSource`, one for each sleeve. A check that fails
raises and changes nothing, so the checks are one conjunction (`Verified`); a passing answer
moves the anti-replay file before it is returned (`_save_state_atomic`). Keys, signatures and the
bounds and caps of the payload are right or wrong (`flaw`); audience, times, schema version,
`as_of`, `seq` and the signs of the weights are looked at. An unreadable or partial anti-replay
file, which only rejects, is left out.

**`Cycle`** extends that with `run_cycle`, day after day, cut at every save of the state file, at
every write of an anti-replay file and around the orders. What is left of the daemon is when a
cycle may start: `due` (today's bar is not consumed), `window` (a residual to retry), `started`
(paced by one tick). `Daemon` treats these in detail and `run_cycle` by its outcomes; `Cycle`
does the reverse.

| Action | Code |
|---|---|
| `StartDaily`, `StartRetry`, `FirstCycle` | the two callers of `run_cycle`, and Step 0 |
| `Snapshot`, `SnapshotRaises` | Steps 1 and 1b: the book, `_detect_liquidations`, its save, `last_known_positions` |
| `_fetch_sleeve`, `FetchRejected`, `FetchFrozen` | Step 2, sleeve by sleeve; `_FrozenSource` of a retry, behind the same pin |
| `_handle_no_good_signal`, `DeriskFlatten`, `DeriskRaises`, `DeriskReset` | no sleeve served: hold in the window, `flatten_all` and a cash baseline outside it |
| `CombineRaises`, `Record` | Steps 3 and 4: the sleeves' statuses, the combined target, freshness saved |
| `Plan` | `_cooldown_blocked_set` with its pruning, the ratchet and the drift check of `sizer.plan` |
| `ExecuteDefers`, `ExecuteAborts`, `ExecuteClean`, `ExecuteDirty`, `Commit` | Steps 6 and 7 by the execution report, and what `run_once` does with it |
| `ExpireWindow`, `Tick`, `Crash` | `_best_effort_commit`, the clock, a kill and the restart |
| `Liquidate`, `Flatten` | the venue; the kill switch, the watchdog and the leverage guard, none of which writes the state file |

`Issued` and `Spoilt` are what a signal service may answer: today's or yesterday's allocation,
issued anew at any time, with at most one thing wrong. A retry's frozen target goes through the same
`_fetch_sleeve` (`FetchFrozen`): its `model_rev` is made up, so with a pin at the top level
(`GlobalPin`) it is refused and the retry holds. The singular form of the configuration names its
sleeve `default`, as a retry does: then `Sleeves = {Default}`, and a retry renews that sleeve's
record. A list with an entry that is named `default`, or has no name (`config.py:59`), is excluded by
`CycleAssumption`; see Findings. Abstractions: the account is a sign for
each coin, so whether a position differs from its target is exact and by how much is not;
of `last_weights` only the keys are used and they are `universe`, fixed; the `SizerError` and the
validation of the combined target, which look at magnitudes, are left out. `accepted`,
`served_at`, `dark`, `kept`, `lost`, `squeezed`, `hit` and `touched` are read by properties only.
**`MCCycle`** gives TLC the sets; **`CycleProofs`** holds the proofs.

**`Guards`** is everybody who may close positions outside a rebalance, as processes on one
account. A rebalance is what such a process can meet: the legs it sends, computed from the
positions it read at its start. `pc` is where a process can be seen or killed; every order is
a step of its own, and so is every write that can fail. The daemon and `leverage_guard` share a
key, hence `lock`; the watchdog does not.

| Action | Code |
|---|---|
| `Boot`, `_flatten_for_leverage`, `BootSetsLeverage`, `EndBoot` | `for_trading`, and the leverage step of `daemon.boot` with `enforce_leverage_on_drift` on or off |
| `TickKilled`, `TickIdle`, `TickDerisk`, `TickCycle` | `run_once` as far as positions are concerned: flag armed, nothing due, the dark-signal flatten, a rebalance |
| `CycleCloses`, `CycleTrades`, `EndCycle`, `CycleRaises` | the legs of `execute`: reduce-only closes, plain IOCs with their residual sent again |
| `RecordPending`, `MarketClose`, `EndFlatten` | `flatten_all`, coin by coin, in the daemon and in the watchdog |
| `Check`, `WatchdogRestarts` | `Watchdog.check` when triggered; its process dies and comes back |
| `StartGuard`, `GuardLowers`, `GuardEnforcesType`, `GuardCloses`, `GuardEnds` | `leverage_guard` with any `--max-leverage`, with `--enforce-type` or without |
| `GuardKilled`, `Crash`, `SetFlag`, `HeartbeatAges`, `EquityMoves` | the environment |

The venue is external: `market_close` is reduce-only against the live position and fills any
part of it, `Trade` is a plain order, `update_leverage` is refused when it would change the mode
of an open position. `flag` is armed or unreadable, which the code treats alike (K1). Of the
ledger only the failing write is kept (`RecordPending` passes the coin over); the flatten marks
its intents DONE whatever the answer, and `IntentLedger` has what that means. Alerts and the text
of the revocation steps are left out. `reach`, `grew` are read by properties only.
**`MCGuards`** gives TLC two coins; **`GuardsProofs`** holds the proofs.

**`Sizer`** is the arithmetic that `Cycle` reduces to signs: `snapshot` with its two pools,
`achieved_weights` and all of `sizer.plan`, with weights in 1/W of the equity, sizes in lots and
prices in dollars a lot. `equity`, `effective_weights`, `max_delta_reached`, `abs_drift_reached`,
`raw_target_sizes`, `frozen_live_notional`, `cap`, `target_sizes`, `SizerError`, `Legs` and `orders`
follow the steps of `plan`. A cycle is `Plan`, then `ExecuteClean` or `ExecutePartly`; between
cycles a price moves, a mark appears or disappears, others trade, or nothing happens (`PriceMoves`,
`MarkChanges`, `OthersTrade`, `NothingHappens`). The code divides floats; the model divides integers
exactly, so a size may differ by a lot where a quotient is whole, and properties leave room for
that. Cycles are modelled of a solvent account only (`equity > 0` in `Plan`): a restriction of the
model, as nothing in `plan` checks it. **`MCSizer`** gives TLC the
numbers, **`SizerProofs`** holds the proofs, and **`Sums`** the lemmas on sums over finite sets that
they rest on.

Operators named `..._KeyKept`, `..._EdgeOnly` and the like, under a comment that
starts with "Mutant", are plausible bugs. Nothing uses them; substituted for the
operator they precede they make one of the properties fail, which shows that the
property depends on that piece of code.

## What TLC checks

| Run | Configuration | Shows |
|---|---|---|
| `daemon` | `MCDaemon.cfg` | the type invariant, six safety invariants and the refinement of `DailyTrader` |
| `daemon_live` | `MCDaemonLive.cfg` | both kinds of window close; an armed kill flag ends with no perp position |
| `daemon_orphan` | `MCDaemonOrphan.cfg` | a counterexample, see Findings |
| `executor` | `MCExecutor.cfg` | two cycles of one perp coin: types, the refinement of `WriteAhead`, exposure, gating, honest reports |
| `executor_pair` | `MCExecutorPair.cfg` | a perp and a spot coin in one plan: the report is honest about both; a cycle ends |
| `nonce` | `MCNonce.cfg` | two processes on one file: numbers grow, are durable before use, and the lock keeps memories current |
| `cycle` | `MCCycle.cfg` | three days of a long and a short sleeve: replays, freezes, cooldowns, the baseline, the hold window |
| `cycle_frozen`, `cycle_deferred` | `MCCycleFrozen.cfg`, `MCCycleDeferred.cfg` | counterexamples, see Findings |
| `guards` | `MCGuards.cfg` | daemon, watchdog and `leverage_guard` on two coins, one of which the venue closes for nobody |
| `sizer` | `MCSizer.cfg` | four cycles of a perp and a spot coin with numbers: the cap, the drift, no double trade |
| `executor_cancel` | `MCExecutorCancel.cfg` | a counterexample, see Findings |

Safety properties: `OneTradingCyclePerDay` (F1), `RetryWindowIsNewest` (C1),
`WindowsExclude`, `AttemptsPaced` (a crash does not make a retry or re-check come
early), `ExhaustedNeverTrades`, `CrashDropWarned`. The last says exactly which of the
days that were marked and then lost to a crash the boot check warns of: those that a
process with re-check enabled finds on the day's own bar, between its fire time and
midnight, and whose re-check was not under way. A lost day passes in silence if the first
tick that may trade comes after midnight and before the next fire time (`expected_as_of` is
None), comes on a later bar, or runs with re-check disabled (`daemon.py:455-457`). What is
lost is recorded independently of that guard: `concluded` has the days whose `run_once` got
as far as its final save, `LostDay` is a marked day that is neither concluded nor recorded as
rebalanced, and `BootCheck` enters every lost day a new process meets in `boot_log` (kept
until the next tick), with the circumstances the property names, whether the code notices
it or not.

Of the executor: `AheadSpec` (MF-7, MF-6) and `DoneIsKnown` (F-4) across lost answers,
failed flushes, crashes and boots; `NoDoubleExposure` (peer-issue-2): what a leg has
traded on sending and what of it still rests is at most the planned size;
`CrossesOnlyFromDust` (H4): no order crosses zero, except out of a position
below the minimum notional; `CleanMeansAtTarget` (F-1): a report that makes `run_cycle` commit the
baseline means the account is at the target, up to the minimum notional and to
resting orders that filled behind the executor's back; `CycleEnds`.

Of the nonces: `NonceIncreases`, over all processes, crashes, failed writes, one lost file
at a time and a clock that reads anything; `IssuedIsDurable` and `MemoryIsCurrent` say
why; `ReanchoredAboveVenue` speaks of files newer than the account. It is a property of the seam
`reanchor` only: no program of the repository calls it, so no shipped path recovers that way.

Of the cycle: `AcceptedOnce` (S-2), through crashes and failed writes of the anti-replay file;
`FrozenUntouched`, for which the ratchet, the drift check and the exits must all agree;
`DarkShortUnwinds` (H2): a short sleeve dark twice running is sold, in the coins that no other
sleeve serves, and not frozen again; `NoReentry` (M3): a liquidated position is not opened again in
its direction before its cooldown ends, by a cycle whose snapshot shows it gone and as long as the
baseline wants it; `BaselineHonest` (F-1): the baseline differs from the account only in coins that others
flattened, that a dirty cycle had orders for, or that were frozen or blocked at the commit;
`HoldIsBounded` (N-3): positions are held without a signal at most for the window and the rest
of the day whose retries still advanced the clock.

Of the guards: `OnlyCyclesOpen`: while the daemon is not in a rebalance every position only
moves towards zero and never through it, however many processes close it at once from sizes
read earlier; `FilledIsClosed`: a coin a flatten reports as filled is flat, unless a rebalance
traded it after the flatten read its size; `ReopenIsBounded`: a watchdog flatten between the
legs of a rebalance may make a plain order open a position, but none larger than what the
rebalance had read or wanted; `GuardNeverRaises`: `leverage_guard` works off a plan and yet never
raises a leverage or changes a mode, because the lock keeps `boot` away; `OthersStillFlatten`:
with the flag left armed every closable coin ends flat for good, whatever the venue does with
the others, and through a crash.

Of the sizer: `CapHolds` (C1, MF-8): after a clean cycle the gross of everything priced, frozen
coins included, is within the cap, but for a minimum order a coin, and `plan` raises only over a
frozen book that is above the cap by itself; `StaysNearTarget` (F3): a cycle that traded nothing
or traded cleanly leaves no coin it could trade further from its target than twice the threshold or
what flooring and two minimum orders explain; `ReplanIsEmpty`: planning again after a clean cycle
sends nothing, so a retry or a re-fire cannot trade twice.

Bounds of the cycle. One long and one short sleeve over two coins, disjoint or on the same coin
(the conflict that `combine_sleeves` refuses): every pair of served, held and stale. The long
sleeve serves longs, the short one either side, so that books add up, cancel to a targeted
zero, and flip. Three days of
two ticks, from the middle of the first: a day has a second cycle after a deferral, a hold or
a dirty execution, sleeves leave their window of two ticks and the whole account its window of
one. One fault, the venue's and the guards' flattens included, anywhere: one liquidation with
its cooldown of a day, or one crash, or one failed save. Deadlock is not checked as the clock
stops. Two sleeves have names of their own and no pin is set for all; the singular form and
`GlobalPin` are covered by the theorems. No liveness is claimed of `Cycle` and no fairness assumed: `daemon_live` has that of the
windows.

Bounds of the nonces. Two processes, so that one signs between the other's lives; a clock
of three readings with a tolerance of one, so that a step back may be tolerated or refused;
numbers up to five, so that `last + 1` runs ahead of the clock; three faults, which allow a
failed mirror write, the loss of the primary and a crash in one behaviour. No fairness is
assumed: no liveness is claimed.

Bounds of the daemon. Three days of four ticks: the first day opens windows, the second
supersedes them and is long enough after the anchor for a de-risk, the third
supersedes what the second left. Windows of two ticks paced by one: an attempt,
a hold and the expiry all happen, and a window opened at the last tick is open at
midnight. Two faults, of any kind and anywhere: every crash that needs an earlier
failed save, and a crash during the recovery from a crash. Both values of
`retry.enabled` and `signal_recheck.enabled`, chosen again at each restart. The
liveness run has three-tick days and one fault. The clock stops at the end
of the last day, so the liveness properties speak of windows opened early enough
to be closed (`ClosingDays`).

Bounds of the executor. Sizes in -2..2 with a minimum notional of 2 (flips, dust on
either side, partial fills of every kind) or 1 (no dust); two attempts a leg; caps that
some plans breach; two cycles, so that what a cycle leaves behind (a resting order, a
PENDING intent, memory ahead of the file) meets the next; three faults. Two coins get
one cycle and two faults: what crosses coins is ids, gating, order and the report, all
within a cycle.

Bounds of the guards. Two coins: one a short of one or a long of two, so that it flips and fills
by halves, in the wrong mode or the right one; the other never closed by the venue, so that every
loop over coins meets one that fails. Leverages of one and two, so that a limit can be below, at
and above. One fault: a kill of any process, a failed read, write or setting, or an equity through
its floor; the heartbeat ages, the flag flips and processes start any number of times.

Bounds of the sizer. Weights of twentieths with a threshold and a safety buffer of two: targets
below, at and above the threshold's difference, a sum above the cap, a flip. Prices of two, three and
four with a minimum notional of three: every quotient that floors, legs too small to send on either
side of a flip. Three things happen between four cycles, the least that lets a coin lose its mark,
have it back and drift. Cycles are chained by the baseline and by what each left in the account;
`CHECK_DEADLOCK` is off as they end.

Fairness of the guards. `WF` of the daemon's work, of the guard's and of the watchdog's flatten:
sequential programs whose calls return or raise. `SF(Boot)`: a supervisor restarts the daemon until it
finds the lock free. `SF(FillsWhole(c))` for a coin that is not stuck: a close tried again on every
armed tick fills some time. `TickCycle` and `TickDerisk` need none.

Fairness of the executor. `WF(Progress)`: the executor is a sequential program whose
calls return or raise (the SDK's requests have timeouts); nothing is assumed of the
venue, of `Boot` or of `StartCycle`.

Fairness of the daemon. `WF(run_once)`: `run_forever` loops unconditionally and catches every
exception. `SF(Advance)`: time passes; strong because an `Advance` is possible
only between ticks. `WF(Restart)`: the deployment restarts a dead process
(`railway.json`, `restartPolicyType`). `WF(RotateKey)`: an operator eventually
rotates an expired key. `SF(TickKilled /\ ~held')`: a reduce-only close that is
tried on every armed tick does not fail for ever. Nothing is assumed of
`Disarm`; the window properties assume instead that the flag is not left
armed for good (`[]<>~armed`).

## What is proved

For every value of the constants that satisfies `SchedulerAssumption` and
`DaemonAssumption` (numbers are numbers, the fire time is inside the day, the
special values are not days), with any number of days and of faults:

- `TypeCorrect`: `Spec => []TypeOK`.
- `InductiveInvariant`: `Spec => []IInv`, and from it `AtMostOneTradingCycle`,
  `RetryWindowAlwaysNewest`, `WindowsAlwaysExclude`, `ExhaustedDaysNeverTrade`.
- `ImplementsDailyTrader`: `Spec => TraderSpec`.
- `HistoryCorrect`, and from it `AttemptsAlwaysPaced` (`AttemptsPaced`) and
  `CrashDropAlwaysWarned` (`CrashDropWarned`: which lost days are warned of, and which are not).

And for every value that satisfies `ExecutorAssumption`, with any number of coins,
cycles, attempts and faults:

- `ExecutorProofs!TypeCorrect`: `Spec => []TypeOK`; on the way, that every plan is
  well-formed (`PlanWellFormed`: one close leg and one other leg a coin, none below the
  minimum).
- `ExecutorProofs!InductiveInvariant`, and from it `ImplementsWriteAhead`
  (`AheadSpec`), `DoneAlwaysKnown` (`DoneIsKnown`), `NeverDoubleExposed`
  (`NoDoubleExposure`).
- `ExecutorPositions!PositionsInvariant`, and from it `CleanAlwaysAtTarget`
  (`CleanMeansAtTarget`) and `NeverCrosses` (`CrossesOnlyFromDust`).

And for every value that satisfies `SizerAssumption`, with any number of coins, any prices, weights,
buffers and thresholds, and any trades of others: `SizerProofs!TypeCorrect`, `CapAlwaysHolds`
(`CapHolds`), `AlwaysNearTarget` (`StaysNearTarget`), `ReplanAlwaysEmpty` (`ReplanIsEmpty`), which
are all the properties of the run `sizer`.

And for every value that satisfies `ProcessAssumption` and `BoundAssumption`, with any
number of processes and faults: `NonceProofs!TypeCorrect`, `InductiveInvariant`,
`NoncesIncrease`, `AlwaysDurable`, `MemoryAlwaysCurrent`, `ReanchorHolds`. The assumption
in the model itself is that at least one of the two files is there at any time after the first
number (`LoseFile`, `LoadOne`).

And for every value that satisfies `GuardsAssumption`, with any number of coins, positions and
faults: `GuardsProofs!TypeCorrect`, `ClosersOnlyClose` (`OnlyCyclesOpen`), `NeverRaises`
(`GuardNeverRaises`), `BoundHolds` (`ReopenIsBounded`), `FilledHolds` (`FilledIsClosed`).

And for every value that satisfies `CycleAssumption`, `SignalAssumption` and `SleevesAssumption`
(finitely many sleeves, ranked; numbers are numbers, `None` and `Dark` are neither; a sleeve named
`default` is the singular form's only sleeve), with or without a top-level pin, with any number
of sleeves, coins, days and faults, every property of `Cycle` that the run `cycle` checks:
`CycleProofs!TypeCorrect`, `NeverAcceptedTwice` (`AcceptedOnce`), `BaselineIsHonest`
(`BaselineHonest`), `FrozenNeverTraded` (`FrozenUntouched`), `DarkShortSold` (`DarkShortUnwinds`),
`HoldsEnd` (`HoldIsBounded`), `LiquidatedStaysOut` (`NoReentry`).

The daemon's properties are not inductive: that a due day has not traded follows from the
mark, and the mark may be given back, or differ between memory and file. `IInv`
says that (1) in both copies the mark covers every day traded or given up and is
behind the calendar (`MarkInv`); (2) an open retry window belongs to the marked,
traded day and excludes a re-check window (`WindowInv`); (3) between the mark
and the first order the two copies agree and the mark to give back still covers
everything traded before (`FireInv`); (4) a baseline that is in memory only is
the newest target or cash (`BaselineInv`). TLC was run on `IInv` before the
proof. The first part of `DaemonProofs` shows each rewrite of the state well-formed; the second
states what each rewrite does to the fields `IInv` reads, then has one lemma for
each part of `Next`, one case for each action.

The two properties that speak of the past need more, and rest on `IInv` (the third part). `PaceInv`:
in both copies an open window that may still start something is stamped no earlier than the last
attempt. A re-check window left on disk by a crash after its orders were sent is stamped earlier; it
can start nothing since the mark covers its day (`Paced`). `NoteInv`: a day with a residual and a day
given up have concluded, and a re-check window is never older than the mark, so that a lost day, found
on its own bar, has no window but its own. A rewrite of the state either only closes windows
(`Eases`, `Closes`), which keeps both, or has a case of its own.

Nor are the executor's. That a submission uses a new id needs to know which ids this
cycle has used: each is of a finished leg or of an earlier attempt of the current one
(`SentInv`, with `PlanShape`). From that, memory and file never disagree about a sent
order but for its DONE (`LedgerInv`). `NoDoubleExposure` needs that traded plus residual
is the planned size and that anything of the leg on the book is the order just
answered (`ExposureInv`); at the start of an open leg this rests on the close leg having
filled, and a filled close leg leaves nothing on the book (`CloseInv`, `AnswerInv`).
TLC was run on this `IInv` too.

The positions need a second invariant beside it (`PInv`), as what the ledger's needs says nothing of
sizes. `PlanParts`: the plan is exactly the legs from the positions it was made from to the targets,
none that is large enough is missing, and no close leg comes after another leg of its coin, which is
what the sort is for. `PosInv`: a coin none of whose legs has started is where it was; a leg that
filled, if no later leg of its coin has started, left its coin at `StartAt` plus its size; the leg
being worked on has moved its coin by `executed`, at most its size. `StartAt` is flat for an open
leg behind a close leg, which is true only since `SkipLeg` gates it on the close leg having filled.
`LocalInv`: the residual is positive and an exit is sent once, so `filled` cannot be the status of
an attempt that broke off. All of it is of coins that are not in `strays`: a resting order that
fills late moves its coin behind the executor's back. `CleanMeansAtTarget` is then a case split over
the legs a coin can have had (`AllFilledAtTarget`), and `CrossesOnlyFromDust` needs no more than
where an order starts and ends (`OrderOfLeg`, `NoCrossing`). TLC was run on the parts of `PInv`
before the proof.

Of the sizer the invariant is what `Plan` checked (`PlannedInv`: equity is positive and `SizerError`
is false) with the three properties. The proof has three layers. First one coin (`CoinArithmetic`):
flooring keeps the sign and loses less than a lot (`Floored`), and what the legs above the minimum
trade leaves the coin within the minimum order of its size, or of two if it was split (`Reached`).
Then sums over coins (`Sums`): the legs that fill are paid for, so that the equity before is the
equity after (`FillEquity`); scaled sizes take no more than the headroom (`ScaledGross`), so that
only frozen coins can make plan raise (`RaisedByFrozen`). Then the steps: what a clean execution
leaves (`CleanCap`, `CleanNear`, `CleanReplan`), and what a ratchet that did not fire already knew
(`HeldIsNear`). The products of variables that the SMT backend does not decide are named and bounded
by lemmas (`Monotone`, `AbsProduct`, `Quotient`) before anything is added up.

A fact about a sum holds for every finite set of coins. The library's induction theorems cannot be
instantiated here; `Sums` takes a minimal counterexample instead (`MinimalSubset`, from `WFMin` and
the well-foundedness of strict inclusion) and removes one index from it.

Of the nonces the invariant is: who is not down holds the lock (`LockAt`); each file is
lost or at least the last signed number and one is there (`FilesHold`); a loaded memory is
at least that number, and a number being persisted is above the memory, so the primary
may run ahead of it but never behind (`MemoryAt`).

Of the guards there are four invariants. `Locked`: the lock's holder is the process that is
running, so `boot` and `leverage_guard` exclude each other. `Planned`: until the guard has lowered it,
every coin of its plan still has the mode it was read in and a value above the limit, because only
`boot` could change them; without the lock this is false, and so is `GuardNeverRaises`. `Bounded`:
in a rebalance the position, what is left to trade, and the two together all lie within `reach`
(`InReach`); the middle one is what a close between two legs needs, as it may bring the position to zero. `Flattenings`: a coin that
has not grown since a flatten read it is no larger than what was read, which is what makes an
answer that reports the whole size mean flat. An order's effect is stated once for a coin that it
trades and once for the coins it does not (`kept`), so that the actions are short.

Each property of the cycle has an invariant of its own, and only types in common. A day that was
returned is in the anti-replay file, or behind it (`OnceInv`). The baseline is the account but for
`touched` inside a cycle too; the snapshot is the account but for `hit`, and what a clean execution
leaves is the target but for what was frozen, blocked or hit (`BaselineInv`). Between `Record` and the
orders nothing changes but the account (`PhaseSteps`), so what `Record` froze is what the orders
spare (`FrozenInv`). One dark cycle leaves a hold in a short sleeve's record unless it was outside its
window already, and both last until the second (`DarkRecorded`); with `OwnCoinsOnly`, that an
allocation has weights for its sleeve's coins only, this gives `DarkUnwanted`. Positions exist only after a saved `Record`, and
the clock of the last signal is ahead of the last served day by less than a day (`HoldInv`). The one
that needs most is `LiquidatedStaysOut`: `CoolInv` says of memory and of the file that a remembered
liquidation is armed, that is, cooling, or still a known position that the next snapshot will miss
(`Armed`); of the file only as long as it wants the position, since a crash may bring back an older
baseline. It needs that evidence never shown is in both copies, and that a cooldown that is
remembered has not expired (`NotExpired`).

Model-checked only: the liveness properties (`RetryWindowCloses`, `RecheckWindowCloses`,
`KillFlattens`, `CycleEnds`, `OthersStillFlatten`), which are out of the prover's reach: it has no
ENABLED and no fairness. Every invariant and action property and both refinements of the passing
runs are stated by a theorem. No module declares a recursive operator.

## Findings

`EveryCrashDropWarned` (run `daemon_orphan`). A no-signal hold opens a re-check
window and gives the day back. A re-check becomes due, the tick marks the day
again (`daemon.py:615`) and the process is killed in the cycle. On disk the day
is marked and its re-check window is open. After the reboot `should_fire` declines
the day, so the re-check gate behind it is not reached; the crash detection
excludes days with an open re-check window. The day is lost without a warning,
and the window stays in the file until the next day supersedes it. Comments at
`daemon.py:447-448` and `704-707` say otherwise. The property asks for a warning only where
the check can give one, on the day's own bar with re-check enabled, so that the other
silent cases are not what refutes it.

`NeverOverfills` (run `executor_cancel`). An order rests, fills before
`cancel_by_cloid` (`executor.py:953`) arrives, and the cancel answers with an error body
that nobody reads; the fill is not counted and the residual is sent again.

`FrozenForTheDay` (run `cycle_frozen`). A daily cycle freezes the coins of a dark sleeve and a
leg of another sleeve fails. The window keeps the target and not what was frozen
(`daemon.py:810`); the retry runs `run_cycle` with one synthetic sleeve, so nothing is frozen,
every held coin is planned, and the frozen one, absent from the target, is closed minutes
after the freeze. `sizer.py:601-603` and `sleeves.py:98` say that no order touches it.

`DeferredIsRetried` (run `cycle_deferred`). A source moves its anti-replay file as soon as it
has verified an allocation (`remote_signal.py:499`). When the rate budget is short the cycle
sends nothing and the day is given back to be tried on the next tick (`rebalance.py:109`,
`daemon.py:663-665`), but then the same `as_of` is refused as a replay whatever is served
(`remote_signal.py:789-794`). The day ends as a no-signal hold and is never traded. The same
holds for a day refused for its `model_rev` after verification.

Smaller observations, no property claims the contrary:

- The retry of a window advances `last_successful_signal_ts` although it fetched nothing, hence
  the extra day in `HoldIsBounded`.
- With `pinned_model_rev` set at the top level no retry ever trades: `_FrozenSource` serves the
  `model_rev` "retry" (`rebalance.py:1282`), which `_fetch_sleeve` compares with the pin
  (`rebalance.py:388-393`, `config.py:738-740`). Every attempt is a hold until the window expires,
  and the expiry then commits the target with its residual unsent.
- In a list of several sleeves one that is named `default`, or has no name, shares its record with the
  retries: a retry writes the combined target into its `last_weights`, and renews its
  `last_success_ts` and `consecutive_holds` (`rebalance.py:985-999`), so a dark `default` sleeve looks
  served, and its freeze would take in other sleeves' coins. The model excludes the case.
- A day lost to a crash is warned of on its own bar only, and only with re-check enabled; found before
  the fire time or later it is never mentioned (`daemon.py:455-457`).
- `consecutive_holds` counts cycles and not days: two re-checks of one day exhaust the patience
  with a short sleeve. When every sleeve is dark the second hold sells nothing, since
  `_handle_no_good_signal` knows only the account's window.
- A commit in a cycle that froze coins drops them from the baseline; `touched` has the set.
- A flatten by the kill switch, watchdog or leverage guard looks like a liquidation to the next
  cycle and arms a cooldown; the code says so (`rebalance.py:490-500`).
- `reanchor` cannot lower a number that a forward jump of the clock left in both files, so
  every process is refused until the clock gets there (`nonce.py:159-161`).
- The cancel of a resting order may raise. The leg ends, but only a boot sweeps the book: the
  next cycle of the same process plans from positions that do not show the order and sends over it.
- With a position below the minimum notional and a target beyond zero the sizer drops the close
  leg and keeps the open leg, sized from flat (`sizer.py:663`); there is no pair to gate and the
  order crosses zero. The case is the exception of `CrossesOnlyFromDust`.
- The flattens of `boot`, of `leverage_guard --enforce-type` and of the kill flag leave the baseline
  as it was, so the next cycle's ratchet sees no change of target; a coin whose weight is below twice
  the threshold stays closed until its target moves.
- `leverage_guard` calls itself independent of the daemon (`leverage_guard.py:3`), but `for_trading` refuses it while the
  daemon holds the nonce lock. `GuardNeverRaises` depends on exactly that.
- The answers of `update_leverage` and of the `market_close` of `boot` and `leverage_guard` are not
  parsed: a "lowered" or "flattened" in the log may not have happened.
- A partial reduction is a plain IOC, so a watchdog flatten just before it lets it open the
  opposite side; `ReopenIsBounded` says by how much.
- `kill_switch.py:308` gives the watchdog a "Shared intent ledger". A ledger rewrites its whole
  file from its own memory, so two processes on one file would lose each other's intents.
- `flatten_all` reads perp positions only; spot holdings stay (`rebalance.py:248`).
- A cap that scales the target by more than the drift tolerance (a buffer of twice the threshold)
  trips the drift backstop every cycle; `ReplanIsEmpty` shows that the orders are then none.
- One frozen book above the cap makes `plan` raise, which also blocks the exits of other sleeves.

## Not modelled

Examples, position health, alerts, audit, dry run, redaction and the scripts that only print keep
no state that is read back: an order or a baseline never depends on them. Secrets and keys are right
or wrong in `RemoteSignal` and `Nonce`. The configuration's switches and durations are the constants
of the modules, its parsing is not. The HTTP server of the health endpoint only serves the
heartbeat, which `Guards` has. Of the client, the queries are I/O and the SDK's signing is external.
Corrupt files of the state and of the ledger end the process before it does anything.

## Plan

1. `Daemon` and `Cycle` joined: the abstract cycle of `Daemon` as a refinement of `Cycle`.
2. Two processes on one intent ledger: what a shared file would need.
