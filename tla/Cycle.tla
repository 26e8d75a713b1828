------------------------------- MODULE Cycle -------------------------------
(***************************************************************************)
(* run_cycle of automation/runtime/rebalance.py, day after day: liquidated *)
(* positions are noticed, each sleeve fetches its signal, the sleeves make *)
(* one target, the target is planned, executed and committed.              *)
(*                                                                         *)
(* A cycle is cut where a kill makes a difference: at every save of the    *)
(* state file, at every write of an anti-replay file, and around the       *)
(* orders.  What the daemon does between cycles is reduced to when it may  *)
(* start one: once a day, again the same day after a hold or a deferral,   *)
(* and for the residual of a dirty cycle (module Daemon has the details).  *)
(*                                                                         *)
(* The account is the sign of its position in each coin.  Between and      *)
(* during cycles the venue may liquidate a position and the kill switch,   *)
(* the watchdog or the leverage guard may flatten it.                      *)
(***************************************************************************)
EXTENDS RemoteSignal

CONSTANTS
    Default,        \* the name retry_attempt gives its only sleeve
    Dark,           \* no allocation: rejected or unavailable
    Rank,           \* the order of the sleeves in the configuration
    Universes,      \* possible maps from sleeves to the coins they serve
    SleeveStale,    \* effective_staleness_days of each sleeve, in ticks
    MaxStale,       \* max_signal_staleness_days, in ticks
    CooldownDays,   \* liquidation_cooldown_days
    RetryEnabled,   \* retry.enabled
    RecheckEnabled, \* signal_recheck.enabled
    GlobalPin,      \* pinned_model_rev is set at the top level
    TicksPerDay,
    Signs,          \* bound: the weights each service serves
    FirstTick,      \* when the daemon is deployed
    LastTick,       \* bound: the clock stops here
    MaxFaults       \* bound: crashes, failed saves, flattened positions

\* A sleeve named Default is the one of the singular configuration: alone, long
\* only, with the account's staleness limit.  A list with an entry of that name
\* is excluded: a retry would write its target into that entry's record.
ASSUME CycleAssumption ==
    /\ TicksPerDay \in Nat \ {0} /\ LastTick \in Nat /\ MaxFaults \in Nat
    /\ FirstTick \in TicksPerDay .. LastTick
    /\ Signs \in [Sleeves -> SUBSET Sign]
    /\ MaxStale \in Nat /\ CooldownDays \in Nat
    /\ SleeveStale \in [Sleeves -> Nat]
    /\ Default \in Sleeves => /\ Sleeves = {Default} /\ Short = {}
                              /\ SleeveStale[Default] = MaxStale
    /\ Rank \in [Sleeves -> Nat]
    /\ \A s, t \in Sleeves : Rank[s] = Rank[t] => s = t
    /\ {RetryEnabled, RecheckEnabled, GlobalPin} \subseteq BOOLEAN
    /\ Universes \subseteq [Sleeves -> SUBSET Coins]
    /\ Dark \notin Book \cup {None}
    /\ AsOf = 0 .. (LastTick \div TicksPerDay)

VARIABLES
    now,        \* the clock, in ticks
    started,    \* a cycle has started in this tick: the daemon paces itself
    due,        \* today's cycle may start
    window,     \* the residual that retry_attempt drives, or None
    universe,   \* the coins each sleeve's payloads have weights for
    pc, mode,   \* where run_cycle is, and who called it
    snap,       \* the positions of the snapshot
    fetched,    \* what each sleeve served so far
    target,     \* ta.weights, the combined target
    frozen,     \* frozen_coins
    blocked,    \* cooldown_blocked
    mem, disk,  \* the State object and the state file
    pos,        \* the account
    faults,
    (***********************************************************************)
    (* History, read by the properties only.                               *)
    (***********************************************************************)
    accepted,   \* how often each source has returned a day, up to twice
    served_at,  \* when a sleeve was last served and recorded
    dark,       \* cycles in a row that found a short sleeve dark
    kept,       \* coins frozen by the daily cycle that opened the window
    lost,       \* liquidated since the last snapshot, with its direction
    squeezed,   \* the last liquidation a snapshot showed: direction and day
    hit,        \* flattened by others since the snapshot
    touched     \* not known to be at the baseline

local == <<pc, mode, snap, fetched, target, frozen, blocked>>
store == <<mem, disk>>
daemon == <<started, due, window>>
watched == <<accepted, served_at, dark, lost, squeezed, hit, touched>>
history == <<watched, kept>>
vars == <<now, daemon, universe, local, store, cursor, pos, faults, history>>

Day == now \div TicksPerDay
Time == 0 .. LastTick
OrNone(S) == S \cup {None}

Steps == {"idle", "first", "snapshot", "fetch", "plan", "execute", "commit",
          "derisk", "reset"}

\* One entry of State.sleeves.  Of last_weights only the keys are read, and
\* they are the sleeve's universe; last_as_of is for the audit.
Sleeve == [last_success_ts : Time, consecutive_holds : Nat]

State == [last_rebalanced_target    : OrNone(Book),
          last_successful_signal_ts : OrNone(Time),
          first_cycle_ts            : OrNone(Time),
          sleeves                   : [Sleeves -> OrNone(Sleeve)],
          liq_cooldowns             : [Coins -> OrNone(AsOf)],
          last_known_positions      : SUBSET Coins]

FreshState == [last_rebalanced_target    |-> None,
               last_successful_signal_ts |-> None,
               first_cycle_ts            |-> None,
               sleeves                   |-> [s \in Sleeves |-> None],
               liq_cooldowns             |-> [c \in Coins |-> None],
               last_known_positions      |-> {}]

TypeOK ==
    /\ now \in FirstTick .. LastTick /\ faults \in 0 .. MaxFaults
    /\ started \in BOOLEAN /\ due \in BOOLEAN
    /\ window \in OrNone([as_of : AsOf, target : Book])
    /\ universe \in Universes
    /\ pc \in Steps /\ mode \in {"daily", "retry"}
    /\ snap \in Book /\ target \in Book /\ pos \in Book
    /\ fetched \in [Sleeves \cup {Default} -> OrNone(Book \cup {Dark})]
    /\ frozen \subseteq Coins /\ blocked \subseteq Coins
    /\ mem \in State /\ disk \in State
    /\ CursorTypeOK
    /\ accepted \in [Sleeves -> [AsOf -> 0 .. 2]] /\ served_at \in OrNone(Time)
    /\ dark \in [Short -> 0 .. 2]
    /\ kept \subseteq Coins /\ hit \subseteq Coins /\ touched \subseteq Coins
    /\ lost \in Book
    /\ squeezed \in [Coins -> OrNone([dir : Sign, day : AsOf])]

Nothing == [s \in Sleeves \cup {Default} |-> None]

Init ==
    /\ now = FirstTick /\ started = FALSE /\ due = TRUE /\ window = None
    /\ universe \in Universes
    /\ pc = "idle" /\ mode = "daily"
    /\ snap = AllZero /\ fetched = Nothing /\ target = AllZero
    /\ frozen = {} /\ blocked = {}
    /\ mem = FreshState /\ disk = FreshState
    /\ CursorInit
    /\ pos = AllZero /\ faults = 0
    /\ accepted = [s \in Sleeves |-> [d \in AsOf |-> 0]] /\ served_at = None
    /\ dark = [s \in Short |-> 0]
    /\ kept = {} /\ lost = AllZero /\ squeezed = [c \in Coins |-> None]
    /\ hit = {} /\ touched = {}

-----------------------------------------------------------------------------
(* Saving (reporting/state.py) and the end of a cycle.                     *)

SaveOk(s) == mem' = s /\ disk' = s /\ UNCHANGED faults

Fault == faults < MaxFaults /\ faults' = faults + 1

\* save raises: memory has changed, the file has not.
SaveRaises(s) == Fault /\ mem' = s /\ UNCHANGED disk

Goto(p) ==
    /\ pc' = p
    /\ UNCHANGED <<mode, snap, fetched, target, frozen, blocked>>

\* run_cycle returns or raises: its locals are gone.
Leave ==
    /\ pc' = "idle" /\ mode' = "daily" /\ snap' = AllZero
    /\ fetched' = Nothing /\ target' = AllZero /\ frozen' = {} /\ blocked' = {}

\* The daemon gives the day back, or not.  A retry has no day to give back.
GiveBack(again) ==
    /\ due' = IF mode = "daily" THEN again ELSE due
    /\ UNCHANGED <<started, window>>

\* run_cycle raises; the day stays consumed.
Raise == Leave /\ GiveBack(FALSE)

-----------------------------------------------------------------------------
(* The start of a cycle.                                                   *)

StartDaily ==
    /\ pc = "idle" /\ due /\ ~started
    /\ pc' = "first" /\ mode' = "daily"
    \* A window of another day is superseded.
    /\ IF window # None /\ window.as_of # Day
       THEN window' = None /\ kept' = {} ELSE UNCHANGED <<window, kept>>
    /\ started' = TRUE
    /\ UNCHANGED <<now, due, universe, snap, fetched, target, frozen, blocked,
                   store, cursor, pos, faults, watched>>

StartRetry ==
    /\ pc = "idle" /\ window # None /\ window.as_of = Day /\ ~started
    /\ ~due
    /\ pc' = "first" /\ mode' = "retry"
    /\ started' = TRUE
    /\ UNCHANGED <<now, due, window, universe, snap, fetched, target, frozen,
                   blocked, store, cursor, pos, faults, history>>

\* Step 0: the anchor of a deployment that never had a signal.
FirstCycle ==
    LET s == [mem EXCEPT !.first_cycle_ts = now]
    IN  /\ pc = "first"
        /\ \/ /\ mem.first_cycle_ts # None
              /\ Goto("snapshot") /\ UNCHANGED <<daemon, store, faults>>
           \/ /\ mem.first_cycle_ts = None
              /\ \/ SaveOk(s) /\ Goto("snapshot") /\ UNCHANGED daemon
                 \/ SaveRaises(s) /\ Raise
        /\ UNCHANGED <<now, universe, cursor, pos, history>>

Baseline == IF mem.last_rebalanced_target = None THEN AllZero
            ELSE mem.last_rebalanced_target

\* History: a liquidation no longer counts when the baseline of b, a State
\* object, does not want the position it took.
Remembered(b) ==
    [c \in Coins |->
        IF /\ squeezed[c] # None
           /\ \/ b.last_rebalanced_target = None
              \/ b.last_rebalanced_target[c] # squeezed[c].dir
        THEN None ELSE squeezed[c]]

Held(p) == {c \in Coins : p[c] # 0}

\* Mutant: last_known_positions is overwritten first.
_detect_liquidations_KnownFirst ==
    {c \in Coins : /\ Baseline[c] # 0
                   /\ mem.liq_cooldowns[c] = None
                   /\ pos[c] = 0 /\ c \in Held(pos)}

\* Wanted by the baseline, held at the last snapshot, gone from this one.
_detect_liquidations ==
    {c \in Coins : /\ Baseline[c] # 0
                   /\ mem.liq_cooldowns[c] = None
                   /\ pos[c] = 0 /\ c \in mem.last_known_positions}

\* History: the liquidations this snapshot shows, unless already cooled.
Noticed ==
    [c \in Coins |->
        IF /\ lost[c] # 0 /\ Baseline[c] = lost[c]
           /\ mem.liq_cooldowns[c] = None
           /\ CooldownDays > 0
        THEN [dir |-> lost[c], day |-> Day]
        ELSE squeezed[c]]

\* Steps 1 and 1b: read the book, arm the cooldowns, remember the book.
Snapshot ==
    LET new == _detect_liquidations
        flagged == [mem EXCEPT !.liq_cooldowns =
                        [c \in Coins |-> IF c \in new THEN Day ELSE @[c]]]
        known == [flagged EXCEPT !.last_known_positions = Held(pos)]
    IN  /\ pc = "snapshot"
        /\ squeezed' = Noticed
        /\ \/ /\ mem' = known
              /\ disk' = IF new = {} THEN disk ELSE flagged
              /\ pc' = "fetch" /\ snap' = pos
              /\ lost' = AllZero /\ hit' = {}
              /\ UNCHANGED <<daemon, mode, fetched, target, frozen, blocked,
                             faults>>
           \/ /\ new # {}
              /\ SaveRaises(flagged) /\ Raise
              /\ UNCHANGED <<lost, hit>>
        /\ UNCHANGED <<now, universe, cursor, pos,
                       accepted, served_at, dark, kept, touched>>

\* The read of the book fails: the cycle cannot act blind.
SnapshotRaises ==
    /\ pc = "snapshot"
    /\ Fault /\ Raise
    /\ UNCHANGED <<now, universe, store, cursor, pos, history>>

-----------------------------------------------------------------------------
(* Each sleeve fetches.                                                    *)

\* External: what a signal service may answer.  It issues allocations for a
\* day more than once, serves old ones, and serves one with something wrong.
Issued(s) ==
    {[flaw |-> None, audience |-> s, issued_at |-> now,
      expires_at |-> now + 1, seq |-> now, as_of |-> d,
      schema_version |-> IF s \in Short THEN 2 ELSE 1,
      weights |-> b, pinned |-> TRUE] :
         d \in AsOf \cap {Day - 1, Day},
         b \in {w \in Book : \A c \in Coins :
                   w[c] \in IF c \in universe[s] THEN Signs[s] ELSE {0}}}

Spoilt(wire) ==
    {[wire EXCEPT !.flaw = f] : f \in Flaws}
        \cup {[wire EXCEPT !.audience = t] : t \in Sleeves}
        \cup {[wire EXCEPT !.schema_version = v] : v \in 1 .. 3}
        \cup {[wire EXCEPT !.issued_at = @ - MaxSkew - 1]}
        \cup {[wire EXCEPT !.expires_at = wire.issued_at + e] :
                  e \in {0, MaxValidity, MaxValidity + 1}}
        \cup {[wire EXCEPT !.pinned = FALSE]}

Answers(s) == Issued(s) \cup UNION {Spoilt(w) : w \in Issued(s)}

sleeves_list == IF mode = "retry" THEN {Default} ELSE Sleeves

Fetched(s, what) ==
    /\ fetched' = [fetched EXCEPT ![s] = what]
    /\ UNCHANGED <<pc, mode, snap, target, frozen, blocked>>

NextToFetch(s) ==
    /\ pc = "fetch" /\ mode = "daily"
    /\ fetched[s] = None
    /\ \A t \in Sleeves : Rank[t] < Rank[s] => fetched[t] # None

\* No answer, a check that fails, or an anti-replay file that cannot be
\* written: an exception, which _fetch_sleeve turns into a dark sleeve.
FetchRejected(s) ==
    /\ NextToFetch(s)
    /\ \/ UNCHANGED faults
       \/ Fault /\ \E wire \in Answers(s) : Verified(s, wire, Day, now)
    /\ Fetched(s, Dark)
    /\ UNCHANGED <<now, daemon, universe, store, cursor, pos, history>>

\* The source returns an allocation, so its day is gone from the cursor on;
\* _fetch_sleeve may then still refuse it for its model_rev.
_fetch_sleeve(s) ==
    /\ NextToFetch(s)
    /\ \E wire \in Answers(s) :
        /\ Verified(s, wire, Day, now)
        /\ _save_state_atomic(s, wire)
        /\ accepted' = [accepted EXCEPT ![s][wire.as_of] =
               IF @ = 2 THEN 2 ELSE @ + 1]
        /\ Fetched(s, IF wire.pinned THEN wire.weights ELSE Dark)
    /\ UNCHANGED <<now, daemon, universe, store, pos, faults,
                   served_at, dark, kept, lost, squeezed, hit, touched>>

\* retry_attempt: the frozen target is the only sleeve's allocation.  Its
\* model_rev is made up, so a pin for all sleeves refuses it like a stranger's.
FetchFrozen ==
    /\ pc = "fetch" /\ mode = "retry" /\ fetched[Default] = None
    /\ Fetched(Default, IF GlobalPin THEN Dark ELSE window.target)
    /\ UNCHANGED <<now, daemon, universe, store, cursor, pos, faults, history>>

-----------------------------------------------------------------------------
(* What becomes of the sleeves, when all have been asked.                  *)

AllFetched == pc = "fetch" /\ \A s \in sleeves_list : fetched[s] # None
Served(s) == fetched[s] # Dark
fresh_served == {s \in sleeves_list : Served(s)}

_within_staleness_window(s) ==
    LET rec == mem.sleeves[s]
        anchor == IF rec # None THEN rec.last_success_ts
                  ELSE IF mem.first_cycle_ts # None THEN mem.first_cycle_ts
                  ELSE now
    IN  now - anchor <= SleeveStale[s]

prior_holds(s) ==
    IF mem.sleeves[s] = None THEN 0 ELSE mem.sleeves[s].consecutive_holds

\* A served sleeve has neither holds nor a window to look at.
Outcome(s) ==
    resolve_outcome(Served(s), s \in Short,
                    IF Served(s) THEN 0 ELSE prior_holds(s),
                    ~Served(s) => _within_staleness_window(s))

\* The sleeves that freeze have a record: without one there are no coins.
HeldSleeves ==
    {s \in Sleeves \cap sleeves_list :
        Outcome(s).status = "hold" /\ mem.sleeves[s] # None}

\* The synthetic sleeve of a retry may bring any coin of the old target.
Conflict ==
    /\ mode = "daily"
    /\ frozen_coins(HeldSleeves, universe)
           \cap combined_coins(fresh_served, universe) # {}

\* History: cycles in a row that found a sleeve dark.
Darkened ==
    [s \in Short |->
        IF s \notin sleeves_list THEN dark[s]
        ELSE IF Served(s) THEN 0
        ELSE IF dark[s] = 2 THEN 2 ELSE dark[s] + 1]

\* consecutive_holds of the sleeves that have a record.
Recounted(recs) ==
    [s \in Sleeves |->
        IF s \in sleeves_list /\ ~Served(s) /\ recs[s] # None
        THEN [recs[s] EXCEPT !.consecutive_holds = Outcome(s).holds]
        ELSE recs[s]]

\* Mutant: a hold counts as a sign of life.
Anchor_OrHold ==
    IF mem.last_successful_signal_ts # None
        THEN now
    ELSE IF mem.first_cycle_ts # None THEN mem.first_cycle_ts
    ELSE now

Anchor ==
    IF mem.last_successful_signal_ts # None
        THEN mem.last_successful_signal_ts
    ELSE IF mem.first_cycle_ts # None THEN mem.first_cycle_ts
    ELSE now

\* No sleeve was served: the counters are saved, then the account is held
\* inside the window and sold outside it.
_handle_no_good_signal ==
    LET s == [mem EXCEPT !.sleeves = Recounted(@)]
    IN  /\ AllFetched /\ fresh_served = {}
        /\ dark' = Darkened
        /\ \/ /\ SaveOk(s)
              /\ \/ /\ now - Anchor <= MaxStale
                    /\ Leave /\ GiveBack(RecheckEnabled)
                 \/ /\ now - Anchor > MaxStale
                    /\ Goto("derisk") /\ UNCHANGED daemon
           \/ SaveRaises(s) /\ Raise
        /\ UNCHANGED <<now, universe, cursor, pos,
                       accepted, served_at, kept, lost, squeezed, hit,
                       touched>>

\* combine_sleeves refuses a coin both frozen and traded.
CombineRaises ==
    /\ AllFetched /\ fresh_served # {} /\ Conflict
    /\ Raise
    /\ UNCHANGED <<now, universe, store, cursor, pos, faults, history>>

\* Step 4: freshness and the records of the configured sleeves.
Record ==
    LET served == [s \in Sleeves |->
                      IF s \in fresh_served
                      THEN [last_success_ts |-> now, consecutive_holds |-> 0]
                      ELSE mem.sleeves[s]]
        s == [mem EXCEPT !.last_successful_signal_ts = now,
                         !.sleeves = Recounted(served)]
    IN  /\ AllFetched /\ fresh_served # {} /\ ~Conflict
        /\ dark' = Darkened
        /\ served_at' = IF mode = "daily" THEN now ELSE served_at
        /\ \/ /\ SaveOk(s)
              /\ pc' = "plan"
              /\ target' = combine_sleeves(fresh_served, fetched)
              /\ frozen' = frozen_coins(HeldSleeves, universe)
              /\ UNCHANGED <<daemon, mode, snap, fetched, blocked>>
           \/ SaveRaises(s) /\ Raise
        /\ UNCHANGED <<now, universe, cursor, pos,
                       accepted, kept, lost, squeezed, hit, touched>>

-----------------------------------------------------------------------------
(* The plan (_cooldown_blocked_set and the ratchet of execution/sizer.py). *)

Cooling == {c \in Coins : mem.liq_cooldowns[c] # None}
Expired == {c \in Cooling : Day - mem.liq_cooldowns[c] >= CooldownDays}

\* Coins in their cooldown that the target would enter in the direction of
\* the committed baseline.
_cooldown_blocked_set ==
    {c \in Cooling \ Expired : target[c] # 0 /\ target[c] = Baseline[c]}

\* The target without the blocked coins, as sizer.plan sees it.
effective_weights(b) == [c \in Coins |-> IF c \in b THEN 0 ELSE target[c]]

\* Mutant: frozen coins are planned like the others.
planned_coins_Frozen == Coins

\* Coins the plan may trade.  A blocked coin that is held is still sold.
planned_coins == Coins \ frozen

\* The ratchet: a target that differs from the baseline (max_delta), or a
\* position that differs from the target (the abs_drift backstop).
rebalance(b) ==
    \/ mem.last_rebalanced_target = None
    \/ \E c \in (Coins \ frozen) \ b :
          \/ effective_weights(b)[c] # Baseline[c]
          \/ effective_weights(b)[c] # snap[c]

Plan ==
    LET b == _cooldown_blocked_set
        pruned == [mem EXCEPT !.liq_cooldowns =
                      [c \in Coins |-> IF c \in Expired THEN None ELSE @[c]]]
    IN  /\ pc = "plan"
        /\ \/ /\ IF Expired = {} THEN UNCHANGED <<store, faults>>
                 ELSE SaveOk(pruned)
              /\ \/ /\ rebalance(b)
                    /\ pc' = "execute" /\ blocked' = b
                    /\ UNCHANGED <<daemon, mode, snap, fetched, target,
                                   frozen>>
                 \/ /\ ~rebalance(b)
                    /\ Leave /\ GiveBack(FALSE)
           \/ Expired # {} /\ SaveRaises(pruned) /\ Raise
        /\ UNCHANGED <<now, universe, cursor, pos, history>>

-----------------------------------------------------------------------------
(* Execution and commit.                                                   *)

Goal == effective_weights(blocked)
orders == {c \in planned_coins : Goal[c] # snap[c]}

\* The rate budget is short: nothing is sent, the day is given back.
ExecuteDefers ==
    /\ pc = "execute" /\ orders # {}
    /\ Leave /\ GiveBack(TRUE)
    /\ UNCHANGED <<now, universe, store, cursor, pos, faults, history>>

\* A cap is breached: nothing is sent, nothing is committed.
ExecuteAborts ==
    /\ pc = "execute" /\ orders # {}
    /\ Leave /\ GiveBack(FALSE)
    /\ UNCHANGED <<now, universe, store, cursor, pos, faults, history>>

ExecuteClean ==
    /\ pc = "execute"
    /\ pos' = [c \in Coins |-> IF c \in orders THEN Goal[c] ELSE pos[c]]
    /\ Goto("commit")
    /\ touched' = touched \cup orders
    /\ UNCHANGED <<now, daemon, universe, store, cursor, faults,
                   accepted, served_at, dark, kept, lost, squeezed, hit>>

\* Mutant: a dirty execution commits as well.
ExecuteDirty_Commits ==
    /\ pc = "execute" /\ orders # {}
    /\ \E done \in SUBSET orders :
          pos' = [c \in Coins |-> IF c \in done THEN Goal[c] ELSE pos[c]]
    /\ Goto("commit")
    /\ touched' = touched \cup orders
    /\ UNCHANGED <<now, daemon, universe, store, cursor, faults,
                   accepted, served_at, dark, kept, lost, squeezed, hit>>

\* Some legs fail, fill in part or wait for depth; a flip may stop after its
\* close.  The target is not committed and a window opens for the residual.
ExecuteDirty ==
    /\ pc = "execute" /\ orders # {}
    /\ \E done, closed \in SUBSET orders :
          /\ done \cap closed = {}
          /\ closed \subseteq {c \in orders : Goal[c] * snap[c] < 0}
          /\ pos' = [c \in Coins |-> IF c \in done THEN Goal[c]
                                     ELSE IF c \in closed THEN 0
                                     ELSE pos[c]]
    /\ touched' = touched \cup orders
    /\ Leave
    /\ IF mode = "daily" /\ RetryEnabled
       THEN window' = [as_of |-> Day, target |-> target] /\ kept' = frozen
       ELSE UNCHANGED <<window, kept>>
    /\ due' = IF mode = "daily" THEN FALSE ELSE due
    /\ UNCHANGED <<now, started, universe, store, cursor, faults,
                   accepted, served_at, dark, lost, squeezed, hit>>

\* Step 7.  A save that raises is logged: the report says not committed, so
\* a retry goes on.
Commit ==
    LET s == [mem EXCEPT !.last_rebalanced_target = target]
    IN  /\ pc = "commit"
        /\ SaveOk(s) \/ SaveRaises(s)
        /\ IF mode = "retry" /\ faults' = faults
           THEN window' = None /\ kept' = {} ELSE UNCHANGED <<window, kept>>
        /\ Leave
        /\ due' = IF mode = "daily" THEN FALSE ELSE due
        /\ touched' = frozen \cup blocked \cup hit
        /\ squeezed' = Remembered(s)
        /\ UNCHANGED <<now, started, universe, cursor, pos,
                       accepted, served_at, dark, lost, hit>>

\* _handle_no_good_signal past the window: flatten_all, coin by coin.
DeriskFlatten ==
    /\ pc = "derisk"
    /\ \E left \in SUBSET Held(pos) :
          /\ pos' = [c \in Coins |-> IF c \in left THEN pos[c] ELSE 0]
          /\ touched' = touched \cup Held(pos)
    /\ Goto("reset")
    /\ UNCHANGED <<now, daemon, universe, store, cursor, faults,
                   accepted, served_at, dark, kept, lost, squeezed, hit>>

\* The positions cannot be read: nothing is flattened, the cycle raises.
DeriskRaises ==
    /\ pc = "derisk"
    /\ Fault /\ Raise
    /\ UNCHANGED <<now, universe, store, cursor, pos, history>>

\* Then the baseline becomes all cash.
DeriskReset ==
    LET s == [mem EXCEPT !.last_rebalanced_target = AllZero]
    IN  /\ pc = "reset"
        /\ SaveOk(s) \/ SaveRaises(s)
        /\ Raise
        /\ touched' = Held(pos)
        /\ squeezed' = Remembered(s)
        /\ UNCHANGED <<now, universe, cursor, pos,
                       accepted, served_at, dark, kept, lost, hit>>

-----------------------------------------------------------------------------
(* Between cycles, and the environment.                                    *)

\* _best_effort_commit: a window that expires, or meets a new day, makes its
\* target the baseline.
ExpireWindow ==
    LET s == [mem EXCEPT !.last_rebalanced_target = window.target]
    IN  /\ pc = "idle" /\ window # None /\ ~started
        /\ SaveOk(s) \/ SaveRaises(s)
        /\ window' = None /\ kept' = {}
        /\ touched' = touched
               \cup {c \in Coins : window.target[c] # Baseline[c]}
        /\ squeezed' = Remembered(s)
        /\ UNCHANGED <<now, started, due, universe, local, cursor, pos,
                       accepted, served_at, dark, lost, hit>>

\* External: the venue takes a position away.  Between cycles the evidence
\* is there if memory and file have seen the position and wanted it.
Evidence(c) ==
    /\ pc = "idle"
    /\ \A s \in {mem, disk} :
          /\ c \in s.last_known_positions
          /\ s.liq_cooldowns[c] = None
          /\ s.last_rebalanced_target # None
          /\ s.last_rebalanced_target[c] = pos[c]

Liquidate(c) ==
    /\ pos[c] # 0 /\ Fault
    /\ pos' = [pos EXCEPT ![c] = 0]
    /\ lost' = IF Evidence(c) THEN [lost EXCEPT ![c] = pos[c]] ELSE lost
    /\ hit' = hit \cup {c} /\ touched' = touched \cup {c}
    /\ UNCHANGED <<now, daemon, universe, local, store, cursor,
                   accepted, served_at, dark, kept, squeezed>>

\* External: the kill switch, the watchdog or the leverage guard flattens;
\* none of them writes the state file.
Flatten ==
    /\ Held(pos) # {} /\ Fault
    /\ \E left \in SUBSET Held(pos) :
          /\ left # Held(pos)
          /\ pos' = [c \in Coins |-> IF c \in left THEN pos[c] ELSE 0]
          /\ hit' = hit \cup (Held(pos) \ left)
          /\ touched' = touched \cup (Held(pos) \ left)
    /\ UNCHANGED <<now, daemon, universe, local, store, cursor,
                   accepted, served_at, dark, kept, lost, squeezed>>

\* A kill and the restart: a cycle that was running has consumed its day.
Crash ==
    /\ Fault
    /\ mem' = disk
    /\ Leave
    /\ due' = IF pc # "idle" /\ mode = "daily" THEN FALSE ELSE due
    /\ dark' = [s \in Short |-> 0]
    /\ touched' = IF mem.last_rebalanced_target = disk.last_rebalanced_target
                  THEN touched ELSE Coins
    /\ squeezed' = Remembered(disk)
    /\ UNCHANGED <<now, started, window, universe, disk, cursor, pos,
                   accepted, served_at, kept, lost, hit>>

Tick ==
    /\ pc = "idle" /\ now < LastTick
    /\ now' = now + 1
    /\ due' = IF (now + 1) % TicksPerDay = 0 THEN TRUE ELSE due
    /\ started' = FALSE
    \* A liquidation older than its cooldown is forgotten.
    /\ squeezed' = [c \in Coins |->
           IF /\ squeezed[c] # None
              /\ (now + 1) \div TicksPerDay - squeezed[c].day >= CooldownDays
           THEN None ELSE squeezed[c]]
    /\ UNCHANGED <<window, universe, local, store, cursor, pos, faults,
                   accepted, served_at, dark, kept, lost, hit, touched>>

Next ==
    \/ StartDaily \/ StartRetry \/ FirstCycle \/ Snapshot \/ SnapshotRaises
    \/ \E s \in Sleeves : FetchRejected(s) \/ _fetch_sleeve(s)
    \/ FetchFrozen
    \/ _handle_no_good_signal \/ CombineRaises \/ Record \/ Plan
    \/ ExecuteDefers \/ ExecuteAborts \/ ExecuteClean \/ ExecuteDirty
    \/ Commit \/ DeriskFlatten \/ DeriskRaises \/ DeriskReset
    \/ ExpireWindow \/ Flatten \/ Crash \/ Tick
    \/ \E c \in Coins : Liquidate(c)

Spec == Init /\ [][Next]_vars

-----------------------------------------------------------------------------
(* Properties.                                                             *)

\* A source returns at most one allocation for a day, whatever is issued
\* again or replayed, and through crashes and failed writes (S-2).
AcceptedOnce == \A s \in Sleeves, d \in AsOf : accepted[s][d] <= 1

\* The orders of a daily cycle leave the coins of its dark sleeves alone
\* (freeze-notional).
FrozenUntouched ==
    [][(pc = "execute" /\ mode = "daily" /\ faults' = faults) =>
          \A s \in Sleeves :
             (fetched[s] = Dark /\ s \notin Short
                /\ mem.sleeves[s] # None
                /\ now - mem.sleeves[s].last_success_ts <= SleeveStale[s])
             => \A c \in universe[s] : pos'[c] = pos[c]]_vars

\* A short sleeve that is dark for the second cycle in a row is frozen no
\* more: when another sleeve is served, what it holds in coins of its own is
\* sold (H2).
DarkShortUnwinds ==
    (pc = "execute" /\ mode = "daily") =>
        \A s \in Short :
           (/\ dark[s] = 2
            /\ \A t \in Sleeves \ {s} : universe[s] \cap universe[t] = {})
           => \A c \in universe[s] : snap[c] # 0 => c \in orders /\ Goal[c] = 0

\* A position that was liquidated between two cycles is not opened again in
\* its direction during its cooldown, as long as the baseline wants it and a
\* cycle sees that it is gone, whatever saves fail and crashes undo (M3).
NoReentry ==
    [][(pc = "execute" /\ faults' = faults) =>
          \A c \in Coins :
             (/\ squeezed[c] # None
              /\ snap[c] = 0 /\ pos[c] = 0)
             => pos'[c] # squeezed[c].dir]_vars

\* Between cycles the baseline is what the account holds, except for coins
\* others have flattened, orders of a dirty cycle, and coins frozen or
\* blocked when it was committed (F-1).  Only such a coin is ever taken for
\* liquidated.
BaselineHonest ==
    pc = "idle" => \A c \in Coins \ touched : pos[c] = Baseline[c]

\* Positions are held without a signal for no longer than the window, and
\* the rest of the day of the last retry (N-3).
HoldIsBounded ==
    [][(AllFetched /\ fresh_served = {} /\ pc' = "idle" /\ faults' = faults
          /\ served_at # None /\ Held(pos) # {})
       => now - served_at <= MaxStale + TicksPerDay - 1]_vars

\* sizer.py:602 of a frozen coin: "The frozen position simply persists; its
\* sleeve will re-target it once its signal is fresh again."  So no cycle
\* trades it before its sleeve is asked again, the retries of the residual
\* included.
FrozenForTheDay ==
    [][(pc = "execute" /\ faults' = faults) =>
          \A c \in kept : pos'[c] = pos[c]]_vars

\* rebalance.py:109 of a deferred cycle: "the daemon must retry on the next
\* tick instead of consuming the day's as_of".  So when a day that was served
\* and deferred comes round again, some sleeve can be served again.
DeferredIsRetried ==
    (/\ pc = "fetch" /\ mode = "daily" /\ fetched = Nothing
     /\ served_at # None /\ served_at \div TicksPerDay = Day)
    => \E s \in Sleeves : \E wire \in Answers(s) : Verified(s, wire, Day, now)
=============================================================================
