------------------------------- MODULE Guards -------------------------------
(***************************************************************************)
(* Whoever may close positions outside a rebalance, at work on one account *)
(* with the daemon that trades it: the kill flag (daemon.run_once Step 0a  *)
(* with kill_switch.flatten_all), the watchdog process (Watchdog.check),   *)
(* the leverage step of daemon.boot, and the leverage_guard command.       *)
(*                                                                         *)
(* The watchdog signs with a key of its own and runs beside the daemon at  *)
(* any time.  The daemon and leverage_guard share a key; the lock that     *)
(* HLClient.for_trading takes on the nonce file lets one of them run.      *)
(*                                                                         *)
(* A rebalance is reduced to the legs it sends from the positions it read: *)
(* reduce-only closes (market_close) and plain orders (submit_ioc).  Its   *)
(* ids, ledger and answers are those of module Executor.                   *)
(***************************************************************************)
EXTENDS Integers, FiniteSets

CONSTANTS
    Coin,
    Sizes,              \* bound: the positions a rebalance may want of a coin
    Settings,           \* bound: the leverage settings a coin starts with
    MaxLev,             \* bound: leverage values are 1 .. MaxLev
    target_leverage,    \* cfg.target_leverage
    target_type,        \* "cross" or "isolated", from cfg.leverage_is_cross
    Stuck,              \* coins the venue closes for nobody
    MaxFaults           \* bound on kills, failing reads, writes and settings,
                        \* and moves of the equity past the floor

Modes == {"cross", "isolated"}
Setting == [type : Modes, value : 1 .. MaxLev]

GuardsAssumption ==
    /\ Sizes \in [Coin -> SUBSET Int]
    /\ Settings \in [Coin -> SUBSET Setting]
    /\ MaxLev \in Nat /\ MaxFaults \in Nat
    /\ target_leverage \in 1 .. MaxLev /\ target_type \in Modes
    /\ Stuck \subseteq Coin
    /\ "none" \notin Coin

ASSUME GuardsAssumption

VARIABLES
    (***********************************************************************)
    (* The venue and the host.                                             *)
    (***********************************************************************)
    pos,        \* signed position of each coin
    lev,        \* the leverage setting of each coin: [type, value]
    flag,       \* the kill flag file is there, or cannot be read
    lock,       \* who holds the lock on the nonce file
    stale,      \* the last heartbeat is older than liveness_deadline_s
    low,        \* current_equity < equity_floor
    (***********************************************************************)
    (* The processes.                                                      *)
    (***********************************************************************)
    pc,         \* where each process is
    at,         \* the coin each is in the middle of, or "none"
    (***********************************************************************)
    (* flatten_all in progress, in the daemon and in the watchdog.         *)
    (***********************************************************************)
    requested,  \* the positions read first; a coin already done has 0
    filled,     \* coins whose outcome is "filled"
    (***********************************************************************)
    (* The daemon's boot and rebalance.                                    *)
    (***********************************************************************)
    coins,      \* coins left in the leverage step of boot
    drifted,    \* those of them to flatten first
    closing,    \* size of the close leg still to be sent, 0 for none
    left,       \* signed size still to be traded by plain orders
    (***********************************************************************)
    (* leverage_guard.                                                     *)
    (***********************************************************************)
    limit,      \* --max-leverage
    to_lower,   \* [coin, type] of the plan not yet done
    mismatch,   \* coins of type_mismatch not yet closed
    (***********************************************************************)
    (* History, read by the properties only.                               *)
    (***********************************************************************)
    reach,      \* the larger of what the rebalance read and what it wants
    grew,       \* coins that grew since the flatten read positions
    faults      \* at most MaxFaults

venue   == <<pos, lev>>
host    == <<flag, lock, stale, low>>
flatten == <<requested, filled>>
boot    == <<coins, drifted>>
legs    == <<closing, left>>
guard   == <<limit, to_lower, mismatch>>
history == <<reach, grew>>
vars == <<venue, host, pc, at, flatten, boot, legs, guard, history, faults>>

Proc == {"daemon", "watchdog", "guard"}
Flattener == {"daemon", "watchdog"}
PCs == {"down", "boot", "idle", "cycle",             \* the daemon
        "watch",                                     \* the watchdog
        "off", "lower", "close",                     \* leverage_guard
        "flatten", "market_close"}                   \* in flatten_all

Abs(n) == IF n < 0 THEN -n ELSE n
Larger(m, n) == IF m > n THEN m ELSE n
Sign(n) == IF n < 0 THEN -1 ELSE IF n = 0 THEN 0 ELSE 1

Held == {c \in Coin : pos[c] # 0}
Flat == [c \in Coin |-> 0]
Targets == {w \in [Coin -> UNION {Sizes[c] \union {0} : c \in Coin}] :
                \A c \in Coin : w[c] \in Sizes[c] \union {0}}

TypeOK ==
    /\ pos \in [Coin -> Int] /\ lev \in [Coin -> Setting]
    /\ flag \in BOOLEAN
    /\ lock \in {"free", "daemon", "guard"}
    /\ stale \in BOOLEAN /\ low \in BOOLEAN
    /\ pc \in [Proc -> PCs] /\ at \in [Flattener -> Coin \union {"none"}]
    /\ requested \in [Flattener -> [Coin -> Int]]
    /\ filled \in [Flattener -> SUBSET Coin]
    /\ coins \subseteq Coin /\ drifted \subseteq Coin
    /\ closing \in [Coin -> Nat] /\ left \in [Coin -> Int]
    /\ limit \in 1 .. MaxLev
    /\ to_lower \subseteq [coin : Coin, type : Modes]
    /\ mismatch \subseteq Coin
    /\ reach \in [Coin -> Nat]
    /\ grew \in [Flattener -> SUBSET Coin]
    /\ faults \in 0 .. MaxFaults

Init ==
    /\ pos \in Targets
    /\ lev \in {l \in [Coin -> Setting] : \A c \in Coin : l[c] \in Settings[c]}
    /\ flag = FALSE /\ lock = "free" /\ stale = FALSE /\ low = FALSE
    /\ pc = [p \in Proc |-> CASE p = "daemon"   -> "down"
                              [] p = "watchdog" -> "watch"
                              [] p = "guard"    -> "off"]
    /\ at = [p \in Flattener |-> "none"]
    /\ requested = [p \in Flattener |-> Flat]
    /\ filled = [p \in Flattener |-> {}]
    /\ coins = {} /\ drifted = {}
    /\ closing = Flat /\ left = Flat
    /\ limit = target_leverage /\ to_lower = {} /\ mismatch = {}
    /\ reach = Flat
    /\ grew = [p \in Flattener |-> {}]
    /\ faults = 0

Fault == faults < MaxFaults /\ faults' = faults + 1

\* What a flatten kept in its variables when it has ended or been killed.
Forget(p) ==
    /\ requested' = [requested EXCEPT ![p] = Flat]
    /\ filled' = [filled EXCEPT ![p] = {}]
    /\ grew' = [grew EXCEPT ![p] = {}]

Goto(p, place) == pc' = [pc EXCEPT ![p] = place]
At(p, c) == at' = [at EXCEPT ![p] = c]

-----------------------------------------------------------------------------
(***************************************************************************)
(* The venue.                                                              *)
(***************************************************************************)

\* An order of signed size n that fills.
InFlatten == {"flatten", "market_close"}
Trade(c, n) ==
    /\ pos' = [pos EXCEPT ![c] = @ + n]
    /\ grew' = [p \in Flattener |->
                  IF pc[p] \in InFlatten /\ Abs(pos[c] + n) > Abs(pos[c])
                     THEN grew[p] \union {c}
                     ELSE grew[p]]

\* market_close: the SDK reads the live position and sends a reduce-only
\* order against it, so the venue fills some f of what is there when it lands.
Fillable(c) == IF c \in Stuck THEN {0} ELSE 0 .. Abs(pos[c])
market_close(c, f) == f \in Fillable(c) /\ Trade(c, -Sign(pos[c]) * f)

\* The venue refuses to change the mode of an open position; the call can
\* also fail, and then the setting stays.
update_leverage(c, s) ==
    \/ /\ IF pos[c] # 0 /\ lev[c].type # s.type
             THEN lev' = lev
             ELSE lev' = [lev EXCEPT ![c] = s]
       /\ UNCHANGED faults
    \/ Fault /\ lev' = lev

-----------------------------------------------------------------------------
(***************************************************************************)
(* flatten_all, in the daemon and in the watchdog.                         *)
(***************************************************************************)
Caller(p) == IF p = "daemon" THEN "idle" ELSE "watch"

\* Positions are read once; reading them may raise, and the caller goes on.
StartFlatten(p) ==
    \/ /\ requested' = [requested EXCEPT ![p] = pos]
       /\ Goto(p, "flatten")
       /\ UNCHANGED faults
    \/ Fault /\ UNCHANGED <<requested, pc>>

\* ledger.record_pending; when the file cannot be written the coin is passed
\* over.
RecordPending(p, c) ==
    /\ pc[p] = "flatten" /\ requested[p][c] # 0
    /\ \/ /\ At(p, c) /\ Goto(p, "market_close")
          /\ UNCHANGED <<requested, faults>>
       \/ /\ Fault
          /\ requested' = [requested EXCEPT ![p][c] = 0]
          /\ UNCHANGED <<pc, at>>
    /\ UNCHANGED <<venue, host, filled, boot, legs, guard, history>>

\* Mutant: an answer without an error is "filled".
Outcome_NoError(p, c, f) == {TRUE}

\* The outcome is "filled" only if the answer reports the size read at the
\* start; an answer that raises, rests or reports less is not.
Outcome(p, c, f) == IF f >= Abs(requested[p][c]) THEN BOOLEAN ELSE {FALSE}

\* Mutant: a plain order of the size read at the start.
Close_PlainIoc(p, c, f) ==
    f <= Abs(requested[p][c]) /\ Trade(c, -Sign(requested[p][c]) * f)

Close(p, c, f) == market_close(c, f)

\* Mutant: a close that does not fill ends the flatten.
MarketClose_Stops(p, c) ==
    /\ pc[p] = "market_close" /\ at[p] = c
    /\ \E f \in 0 .. Abs(pos[c]) :
         /\ Close(p, c, f)
         /\ requested' = IF f = 0 THEN [requested EXCEPT ![p] = Flat]
                                  ELSE [requested EXCEPT ![p][c] = 0]
         /\ \E ok \in Outcome(p, c, f) :
              filled' = IF ok THEN [filled EXCEPT ![p] = @ \union {c}]
                              ELSE filled
    /\ At(p, "none") /\ Goto(p, "flatten")
    /\ UNCHANGED <<lev, host, boot, legs, guard, reach, faults>>

\* One coin: its close, its outcome, and the intent marked done whatever the
\* outcome.  The next coin follows whatever has become of this one.
MarketClose(p, c) ==
    /\ pc[p] = "market_close" /\ at[p] = c
    /\ \E f \in 0 .. Larger(Abs(pos[c]), Abs(requested[p][c])) :
         /\ Close(p, c, f)
         /\ \E ok \in Outcome(p, c, f) :
              filled' = IF ok THEN [filled EXCEPT ![p] = @ \union {c}]
                              ELSE filled
    /\ requested' = [requested EXCEPT ![p][c] = 0]
    /\ At(p, "none") /\ Goto(p, "flatten")
    /\ UNCHANGED <<lev, host, boot, legs, guard, reach, faults>>

\* The positions are read again for an alert, and flatten_all returns.
EndFlatten(p) ==
    /\ pc[p] = "flatten" /\ requested[p] = Flat
    /\ Forget(p) /\ Goto(p, Caller(p))
    /\ UNCHANGED <<venue, host, at, boot, legs, guard, reach, faults>>

FlattenAll(p) ==
    \/ \E c \in Coin : RecordPending(p, c) \/ MarketClose(p, c)
    \/ EndFlatten(p)

-----------------------------------------------------------------------------
(***************************************************************************)
(* The daemon.                                                             *)
(***************************************************************************)

\* HLClient.for_trading takes the lock or the process does not start.  boot
\* then reads what is held; that read is not guarded and ends the process.
\* enforce_leverage_on_drift decides whether the coins held in the wrong mode
\* are flattened first or passed over; with set_leverage_on_boot off, or the
\* agent key expired, there is no leverage step.
WrongMode == {c \in Held : lev[c].type # target_type}
Boot ==
    /\ pc["daemon"] = "down" /\ lock = "free"
    /\ \/ /\ lock' = "daemon"
          /\ \/ coins' = Coin /\ drifted' = WrongMode
             \/ coins' = Coin \ WrongMode /\ drifted' = {}
             \/ coins' = {} /\ drifted' = {}
          /\ Goto("daemon", "boot")
          /\ UNCHANGED faults
       \/ Fault /\ UNCHANGED <<lock, coins, drifted, pc>>
    /\ UNCHANGED <<venue, flag, stale, low, at, flatten, legs, guard,
                   history>>

_flatten_for_leverage(c) ==
    /\ pc["daemon"] = "boot" /\ at["daemon"] = "none"
    /\ c \in coins \intersect drifted
    /\ \E f \in 0 .. Abs(pos[c]) : market_close(c, f)
    /\ drifted' = drifted \ {c}
    /\ At("daemon", c)
    /\ UNCHANGED <<lev, host, pc, flatten, coins, legs, guard, reach,
                   faults>>

BootSetsLeverage(c) ==
    /\ pc["daemon"] = "boot" /\ at["daemon"] \in {"none", c}
    /\ c \in coins \ drifted
    /\ update_leverage(c, [type |-> target_type, value |-> target_leverage])
    /\ coins' = coins \ {c}
    /\ At("daemon", "none")
    /\ UNCHANGED <<pos, host, pc, flatten, drifted, legs, guard,
                   history>>

EndBoot ==
    /\ pc["daemon"] = "boot" /\ coins = {}
    /\ Goto("daemon", "idle")
    /\ UNCHANGED <<venue, host, at, flatten, boot, legs, guard, history,
                   faults>>

\* A tick beats first; a flag that is armed or cannot be read flattens, on
\* every tick, and nothing else happens.
TickKilled ==
    /\ pc["daemon"] = "idle" /\ flag
    /\ stale' = FALSE
    /\ StartFlatten("daemon")
    /\ UNCHANGED <<venue, flag, lock, low, at, filled, boot,
                   legs, guard, history>>

\* A cycle whose signal has been dark too long flattens in place of trading.
TickDerisk ==
    /\ pc["daemon"] = "idle" /\ ~flag
    /\ stale' = FALSE
    /\ StartFlatten("daemon")
    /\ UNCHANGED <<venue, flag, lock, low, at, filled, boot,
                   legs, guard, history>>

TickIdle ==
    /\ pc["daemon"] = "idle" /\ ~flag
    /\ stale' = FALSE
    /\ UNCHANGED <<venue, flag, lock, low, pc, at, flatten, boot, legs, guard,
                   history, faults>>

\* The plan of a rebalance, from the positions it reads.  A coin that changes
\* sign gets a close leg and a leg that opens the whole target.
Flips(have, want) == have * want < 0

\* Mutant: the close leg keeps the sign of the position.
CloseLeg_Signed(have, want) ==
    IF want = 0 \/ Flips(have, want) THEN have ELSE 0

CloseLeg(have, want) ==
    IF want = 0 \/ Flips(have, want) THEN Abs(have) ELSE 0

\* Mutant: a coin that changes sign is traded in one order.
OpenLeg_Crossing(have, want) == IF want = 0 THEN 0 ELSE want - have

OpenLeg(have, want) ==
    IF want = 0 THEN 0 ELSE IF Flips(have, want) THEN want ELSE want - have

TickCycle ==
    /\ pc["daemon"] = "idle" /\ ~flag
    /\ stale' = FALSE
    /\ \E target \in Targets :
         /\ closing' = [c \in Coin |-> CloseLeg(pos[c], target[c])]
         /\ left' = [c \in Coin |-> OpenLeg(pos[c], target[c])]
         /\ reach' = [c \in Coin |-> Larger(Abs(pos[c]), Abs(target[c]))]
    /\ Goto("daemon", "cycle")
    /\ UNCHANGED <<venue, flag, lock, low, at, flatten, boot, guard, grew,
                   faults>>

\* A close leg is one reduce-only order; unless it reports the whole size the
\* leg that would open the other side is not sent.
CycleCloses(c) ==
    /\ pc["daemon"] = "cycle" /\ at["daemon"] = "none" /\ closing[c] # 0
    /\ \E f \in 0 .. Abs(pos[c]) :
         /\ market_close(c, f)
         /\ left' = IF f < closing[c] THEN [left EXCEPT ![c] = 0] ELSE left
    /\ closing' = [closing EXCEPT ![c] = 0]
    /\ UNCHANGED <<lev, host, pc, at, flatten, boot, guard, reach, faults>>

\* Any other leg is a plain order, sent again for what is left of it, until
\* it is filled or given up.
CycleTrades(c) ==
    /\ pc["daemon"] = "cycle" /\ at["daemon"] \in {"none", c}
    /\ closing[c] = 0 /\ left[c] # 0
    /\ \E f \in 0 .. Abs(left[c]) :
         /\ Trade(c, Sign(left[c]) * f)
         /\ \/ left' = [left EXCEPT ![c] = @ - Sign(@) * f]
            \/ left' = [left EXCEPT ![c] = 0]
    /\ At("daemon", IF left'[c] = 0 THEN "none" ELSE c)
    /\ UNCHANGED <<lev, host, pc, flatten, boot, closing, guard, reach,
                   faults>>

EndCycle ==
    /\ pc["daemon"] = "cycle" /\ closing = Flat /\ left = Flat
    /\ Goto("daemon", "idle") /\ reach' = Flat
    /\ UNCHANGED <<venue, host, at, flatten, boot, legs, guard, grew, faults>>

\* run_cycle raises and run_once goes on to the next tick.
CycleRaises ==
    /\ pc["daemon"] = "cycle" /\ Fault
    /\ Goto("daemon", "idle") /\ At("daemon", "none")
    /\ closing' = Flat /\ left' = Flat /\ reach' = Flat
    /\ UNCHANGED <<venue, host, flatten, boot, guard, grew>>

\* The memory of a killed process is gone and its lock is freed.
Crash ==
    /\ pc["daemon"] # "down" /\ Fault
    /\ Goto("daemon", "down") /\ At("daemon", "none")
    /\ lock' = "free"
    /\ Forget("daemon")
    /\ coins' = {} /\ drifted' = {}
    /\ closing' = Flat /\ left' = Flat /\ reach' = Flat
    /\ UNCHANGED <<venue, flag, stale, low, guard>>

DaemonWorks ==
    \/ FlattenAll("daemon")
    \/ EndBoot
    \/ \E c \in Coin : \/ _flatten_for_leverage(c)
                       \/ BootSetsLeverage(c)
                       \/ CycleCloses(c) \/ CycleTrades(c)
    \/ TickKilled \/ TickIdle \/ EndCycle

-----------------------------------------------------------------------------
(***************************************************************************)
(* The watchdog, leverage_guard, the operator, time and the market.        *)
(***************************************************************************)

\* Watchdog.check; one that is not triggered changes nothing.
Check ==
    /\ pc["watchdog"] = "watch" /\ (stale \/ low)
    /\ StartFlatten("watchdog")
    /\ UNCHANGED <<venue, host, at, filled, boot, legs, guard,
                   history>>

WatchdogRestarts ==
    /\ pc["watchdog"] # "watch" /\ Fault
    /\ Goto("watchdog", "watch") /\ At("watchdog", "none")
    /\ Forget("watchdog")
    /\ UNCHANGED <<venue, host, boot, legs, guard, reach>>

\* Mutant: the command does not take the lock.
GuardMayStart_Unlocked == TRUE

\* leverage_guard --max-leverage m; the plan is made from what is held.
GuardMayStart == lock = "free"

StartGuard ==
    /\ pc["guard"] = "off" /\ GuardMayStart
    /\ lock' = "guard"
    /\ \E m \in 1 .. MaxLev :
         /\ limit' = m
         /\ to_lower' = {[coin |-> c, type |-> lev[c].type] :
                            c \in {h \in Held : lev[h].value > m}}
    /\ mismatch' = WrongMode
    /\ Goto("guard", "lower")
    /\ UNCHANGED <<venue, flag, stale, low, at, flatten, boot, legs, history,
                   faults>>

\* Each value above the limit is lowered in the mode it was read in.
GuardLowers(x) ==
    /\ pc["guard"] = "lower" /\ x \in to_lower
    /\ update_leverage(x.coin, [type |-> x.type, value |-> limit])
    /\ to_lower' = to_lower \ {x}
    /\ UNCHANGED <<pos, host, pc, at, flatten, boot, legs, limit, mismatch,
                   history>>

\* --enforce-type closes the coins held in the wrong mode.
GuardEnforcesType ==
    /\ pc["guard"] = "lower" /\ to_lower = {}
    /\ Goto("guard", "close")
    /\ UNCHANGED <<venue, host, at, flatten, boot, legs, guard, history,
                   faults>>

GuardCloses(c) ==
    /\ pc["guard"] = "close" /\ c \in mismatch
    /\ \E f \in 0 .. Abs(pos[c]) : market_close(c, f)
    /\ mismatch' = mismatch \ {c}
    /\ UNCHANGED <<lev, host, pc, at, flatten, boot, legs, limit, to_lower,
                   reach, faults>>

\* The client is closed in a finally, which frees the lock.  Without
\* --enforce-type mismatches are only reported.
LeaveGuard ==
    /\ Goto("guard", "off")
    /\ lock' = "free"
    /\ limit' = target_leverage /\ to_lower' = {} /\ mismatch' = {}
    /\ UNCHANGED <<venue, flag, stale, low, at, flatten, boot, legs, history>>
GuardEnds ==
    /\ \/ pc["guard"] = "lower" /\ to_lower = {}
       \/ pc["guard"] = "close" /\ mismatch = {}
    /\ LeaveGuard /\ UNCHANGED faults
GuardKilled == pc["guard"] # "off" /\ Fault /\ LeaveGuard

GuardWorks ==
    \/ \E x \in to_lower : GuardLowers(x)
    \/ \E c \in Coin : GuardCloses(c)
    \/ GuardEnforcesType \/ GuardEnds

\* touch and rm of the flag, or a read of it that begins or ceases to fail.
SetFlag ==
    /\ flag' = ~flag
    /\ UNCHANGED <<venue, lock, stale, low, pc, at, flatten, boot, legs, guard,
                   history, faults>>

\* Between two ticks of a waiting daemon less than the deadline passes; a
\* process that is down, booting, trading or flattening does not beat.
HeartbeatAges ==
    /\ pc["daemon"] # "idle" /\ ~stale
    /\ stale' = TRUE
    /\ UNCHANGED <<venue, flag, lock, low, pc, at, flatten, boot, legs, guard,
                   history, faults>>

EquityMoves ==
    /\ Fault
    /\ low' = ~low
    /\ UNCHANGED <<venue, flag, lock, stale, pc, at, flatten, boot, legs,
                   guard, history>>

Next ==
    \/ Boot \/ DaemonWorks \/ TickDerisk \/ TickCycle \/ CycleRaises \/ Crash
    \/ Check \/ FlattenAll("watchdog") \/ WatchdogRestarts
    \/ StartGuard \/ GuardWorks \/ GuardKilled
    \/ SetFlag \/ HeartbeatAges \/ EquityMoves

\* The venue closes a coin for somebody who asks again and again.
FillsWhole(c) == \E p \in Flattener : MarketClose(p, c) /\ pos'[c] = 0

\* run_once, flatten_all and leverage_guard run their loops to the end; a
\* supervisor restarts the daemon, which finds the lock free some time.
Fairness ==
    /\ WF_vars(DaemonWorks) /\ WF_vars(GuardWorks)
    /\ SF_vars(Boot)
    /\ WF_vars(FlattenAll("watchdog"))
    /\ \A c \in Coin \ Stuck : SF_vars(FillsWhole(c))

Spec == Init /\ [][Next]_vars /\ Fairness
-----------------------------------------------------------------------------
(***************************************************************************)
(* Properties.                                                             *)
(***************************************************************************)

\* Whatever flattens, and however many flatten at once, a position only moves
\* towards zero and never through it, unless the daemon is in a rebalance:
\* "reduce-only, can NEVER flip" of flatten_all, boot and leverage_guard.
Reduced(old, new) ==
    (0 <= new /\ new <= old) \/ (old <= new /\ new <= 0)
OnlyCyclesOpen ==
    [][pc["daemon"] # "cycle" => \A c \in Coin : Reduced(pos[c], pos'[c])]_vars

\* A coin reported "filled" is closed, though its size was read before the
\* close was sent; only a rebalance running beside the watchdog undoes it.
FilledIsClosed ==
    \A p \in Flattener : \A c \in filled[p] : pos[c] = 0 \/ c \in grew[p]

\* However the flattens of the watchdog fall between the legs of a rebalance
\* that read its positions before them, no position comes out larger than the
\* larger of what the rebalance read and what it wants.
ReopenIsBounded ==
    pc["daemon"] = "cycle" => \A c \in Coin : Abs(pos[c]) <= reach[c]

\* leverage_guard never raises a leverage and never changes a mode, though it
\* acts on a plan and the daemon's boot sets both.
GuardNeverRaises ==
    [][pc["guard"] \in {"lower", "close"} =>
         \A c \in Coin : /\ lev'[c].type = lev[c].type
                         /\ lev'[c].value <= lev[c].value]_vars

\* Once the flag stays armed, every coin the venue closes ends flat and stays
\* flat, whatever becomes of the closes of the other coins.
StaysArmed == <>[]flag
StaysFlat(c) == <>[](pos[c] = 0)
OthersStillFlatten == StaysArmed => \A c \in Coin \ Stuck : StaysFlat(c)
=============================================================================
