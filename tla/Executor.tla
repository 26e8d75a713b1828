------------------------------ MODULE Executor ------------------------------
(***************************************************************************)
(* The execution of one size plan (automation/execution/executor.py) by    *)
(* one process, cycle after cycle, with the intent ledger it writes ahead  *)
(* of every order, the orders' life at the venue, and the crash recovery   *)
(* of a boot (ledger reconciliation and the sweep of resting orders).      *)
(*                                                                         *)
(* Sizes are whole units and every price is one, so sizes and notionals    *)
(* coincide.  A step ends where another party can see or stop the          *)
(* executor: at each ledger write, each submission, each answer.           *)
(***************************************************************************)
EXTENDS IntentLedger, Integers, Sequences, FiniteSets, Functions

CONSTANTS
    Coin,          \* perp coins and spot coins
    Spot,          \* the coins of spot_routing
    MaxSize,       \* bound: target sizes are in -MaxSize .. MaxSize
    MinSize,       \* MIN_NOTIONAL_USD of the sizer
    MaxAttempts,   \* max_attempts
    CapPerCoin, CapTotal, CapTurnover,    \* cfg.caps
    Gates,         \* values of "liquidity_safety > 0" at a (re)start
    MaxCycles,     \* bound on the cycles
    MaxFaults      \* bound on lost answers, anomalies, failed writes, crashes

\* make_cloid hashes these parts (and the strategy); the hash is injective.
ExecutorAssumption ==
    /\ Spot \subseteq Coin /\ IsFiniteSet(Coin)
    /\ MaxSize \in Nat /\ MinSize \in Nat \ {0} /\ MaxAttempts \in Nat \ {0}
    /\ CapPerCoin \in Nat /\ CapTotal \in Nat /\ CapTurnover \in Nat
    /\ Gates \subseteq BOOLEAN
    /\ MaxCycles \in Nat /\ MaxFaults \in Nat
    /\ Cloid = [ts : 1 .. MaxCycles, coin : Coin, seq : -1 .. MaxAttempts - 1]

ASSUME ExecutorAssumption

VARIABLES
    pc,           \* where execute is: see PCs
    now_ts,       \* the cycles begun so far; the current one's now_ts
    gate,         \* liquidity_safety > 0.0
    snap,         \* the positions the current plan was made from
    target,       \* target_sizes of the plan
    plan,         \* plan.orders
    results,      \* the statuses of the legs done, in plan order
    attempt_seq, residual, filled_total,    \* locals of _execute_ioc
    resp,         \* the venue's answer to the last submission
    report,       \* the cycle's outcome, by the kind run_cycle sees
    (***********************************************************************)
    (* The venue.                                                          *)
    (***********************************************************************)
    pos,          \* signed position (spot balance) of each coin
    book,         \* our orders resting there
    sent,         \* ids that have been submitted
    full,         \* ids whose order reached the status "filled"
    (***********************************************************************)
    (* History, read by the properties only.                               *)
    (***********************************************************************)
    executed,     \* what the current leg's submissions filled on sending
    restfilled,   \* what its resting orders filled later
    strays,       \* coins whose resting orders filled since snap was read
    answered,     \* ids whose answer the executor has seen
    faults        \* at most MaxFaults

plans   == <<now_ts, snap, target, plan>>
leg     == <<attempt_seq, residual, filled_total, resp>>
venue   == <<pos, book, sent, full>>
history == <<executed, restfilled, strays, answered>>
vars == <<ledger, pc, gate, plans, results, leg, report, venue, history, faults>>

PCs == {"down", "idle", "dispatch", "record", "submit", "answer", "cancel"}
LegStatus == {"filled", "partial", "error", "deferred"}
Reports == {"none", "no_rebalance", "aborted", "deferred", "raised",
            "clean", "dirty"}
Answers == {"none", "ok", "resting", "throttled", "rejected", "lost",
            "malformed"}

Abs(n) == IF n < 0 THEN -n ELSE n
Sign(n) == IF n < 0 THEN -1 ELSE 1
Least(m, n) == IF m < n THEN m ELSE n

Leg == [coin : Coin, target_size : Int, delta_size : Int, is_close_leg : BOOLEAN]
Order == [cloid : Cloid, size : Int, reduce_only : BOOLEAN]

make_cloid(c, seq) == [ts |-> now_ts, coin |-> c, seq |-> seq]

(***************************************************************************)
(* Planning (the tail of sizer.plan): a coin whose target is on the other  *)
(* side of zero gets a close leg and an open leg anchored at flat, any     *)
(* other a single leg; each leg below the minimum notional is dropped.     *)
(***************************************************************************)
Flips(c, t) == t * pos[c] < 0

LegsOf(c, t) ==
    IF Flips(c, t)
    THEN {[coin |-> c, target_size |-> 0, delta_size |-> -pos[c],
           is_close_leg |-> TRUE],
          [coin |-> c, target_size |-> t, delta_size |-> t,
           is_close_leg |-> FALSE]}
    ELSE {[coin |-> c, target_size |-> t, delta_size |-> t - pos[c],
           is_close_leg |-> FALSE]}

PlannedLegs(tgt) ==
    {l \in UNION {LegsOf(c, tgt[c]) : c \in Coin} : Abs(l.delta_size) >= MinSize}

PairKey(legs, l) ==
    CHOOSE k \in {Abs(o.delta_size) : o \in legs} :
        /\ \E o \in legs : o.coin = l.coin /\ Abs(o.delta_size) = k
        /\ \A o \in legs : o.coin = l.coin => Abs(o.delta_size) <= k

\* orders.sort(key = (pair_key, is_close_leg), reverse = True); coins with
\* equal keys come in any order, as the set they were collected in does.
Sorted(legs, s) ==
    \A i, j \in DOMAIN s : i < j =>
        \/ PairKey(legs, s[i]) > PairKey(legs, s[j])
        \/ /\ PairKey(legs, s[i]) = PairKey(legs, s[j])
           /\ s[j].is_close_leg => s[i].is_close_leg

Plans(tgt) ==
    LET legs == PlannedLegs(tgt)
    IN {s \in [1 .. Cardinality(legs) -> legs] :
            /\ \A i, j \in DOMAIN s : s[i] = s[j] => i = j
            /\ Sorted(legs, s)}

\* Spot holdings are never negative and neither are their targets.
Targets ==
    {t \in [Coin -> -MaxSize .. MaxSize] : \A c \in Spot : t[c] >= 0}

(***************************************************************************)
(* Pre-flight checks.                                                      *)
(***************************************************************************)
EndState(op) == IF op.is_close_leg THEN 0 ELSE Abs(op.target_size)

CapBreach(p) ==
    \/ \E i \in DOMAIN p : EndState(p[i]) > CapPerCoin
    \/ SumFunction([i \in DOMAIN p |-> EndState(p[i])]) > CapTotal
    \/ SumFunction([i \in DOMAIN p |-> Abs(p[i].delta_size)]) > CapTurnover

\* The rate budget is the venue's: it may fall short of the estimate of any
\* plan that has orders.
RateBudgetShort(p) == Len(p) > 0

(***************************************************************************)
(* The leg being dispatched, and what became of the one it depends on.     *)
(***************************************************************************)
op == plan[Len(results) + 1]
IsFullExit == op.target_size = 0

CloseLegs(c) == {i \in DOMAIN plan : plan[i].coin = c /\ plan[i].is_close_leg}
flip_close_coins == {c \in Coin : CloseLegs(c) # {}}

\* close_leg_status.get(coin) == "filled"
CloseLegFilled(c) ==
    \E i \in CloseLegs(c) : i \in DOMAIN results /\ results[i] = "filled"

\* Mutant: the open leg needs its close leg to have run, not to have filled.
Suppressed_Ran ==
    /\ ~op.is_close_leg
    /\ op.coin \in flip_close_coins
    /\ \A i \in CloseLegs(op.coin) : i \notin DOMAIN results

Suppressed ==
    /\ ~op.is_close_leg
    /\ op.coin \in flip_close_coins
    /\ ~CloseLegFilled(op.coin)

\* Mutant: the close leg of a flip starts at attempt 0, as its open leg does.
CurrentSeq_CloseAtZero == IF IsFullExit THEN 0 ELSE attempt_seq

CurrentSeq ==
    IF IsFullExit THEN (IF op.is_close_leg THEN -1 ELSE 0) ELSE attempt_seq
CurrentCloid == make_cloid(op.coin, CurrentSeq)

\* Mutant: a deferred leg does not make the cycle dirty.
Clean_DeferredToo ==
    \A i \in DOMAIN results : results[i] \notin {"error", "partial"}

Clean ==
    \A i \in DOMAIN results : results[i] \notin {"error", "partial", "deferred"}

Init ==
    /\ LedgerInit
    /\ pc = "idle"
    /\ now_ts = 0
    /\ gate \in Gates
    /\ snap = [c \in Coin |-> 0]
    /\ target = [c \in Coin |-> 0]
    /\ plan = <<>> /\ results = <<>>
    /\ attempt_seq = 0 /\ residual = 0 /\ filled_total = 0
    /\ resp = [kind |-> "none", size |-> 0]
    /\ report = "none"
    /\ pos \in Targets     \* the account need not start flat
    /\ book = {} /\ sent = {} /\ full = {}
    /\ executed = 0 /\ restfilled = 0
    /\ strays = {} /\ answered = {}
    /\ faults = 0

Fault == faults < MaxFaults /\ faults' = faults + 1

(***************************************************************************)
(* run_cycle around execute: Step 0 reconciles the ledger, the positions   *)
(* are read, the plan is made, and the pre-flight checks run.              *)
(***************************************************************************)

\* The chain resolver confirms an intent only if its order is "filled", and
\* takes a failing query for a no.
Confirmable == {c \in pending : c \in full}

Conclude(kind) ==
    /\ pc' = "idle"
    /\ report' = kind

Preflight ==
    \/ /\ Conclude("no_rebalance")
       /\ plan' = <<>>
    \/ /\ plan' \in Plans(target')
       /\ \/ CapBreach(plan') /\ Conclude("aborted")
          \/ /\ ~CapBreach(plan') /\ RateBudgetShort(plan')
             /\ Conclude("deferred")
          \/ /\ ~CapBreach(plan')
             /\ pc' = "dispatch" /\ report' = "none"

StartCycle ==
    /\ pc = "idle" /\ now_ts < MaxCycles
    /\ now_ts' = now_ts + 1
    /\ \E S \in SUBSET Confirmable : reconcile_pending(S)
    /\ snap' = pos
    /\ target' \in Targets
    /\ results' = <<>>
    /\ Preflight
    /\ executed' = 0 /\ restfilled' = 0 /\ strays' = {}
    /\ UNCHANGED <<gate, leg, venue, answered, faults>>

\* An exception leaves execute and run_cycle; the daemon logs it.
ReconcileRaises ==
    /\ pc = "idle" /\ now_ts < MaxCycles
    /\ now_ts' = now_ts + 1
    /\ \E S \in SUBSET Confirmable : reconcile_raises(S)
    /\ Conclude("raised")
    /\ Fault
    /\ UNCHANGED <<gate, snap, target, plan, results, leg, venue, history>>

Raise ==
    /\ Conclude("raised")
    /\ UNCHANGED <<gate, plans, results, leg>>

\* client.marks() fails at an armed gate.
MarksRaise ==
    /\ pc = "dispatch" /\ results = <<>> /\ gate
    /\ Raise /\ Fault
    /\ UNCHANGED <<ledger, venue, history>>

(***************************************************************************)
(* The dispatch loop over plan.orders.                                     *)
(***************************************************************************)
LegDone(status) ==
    /\ results' = Append(results, status)
    /\ pc' = "dispatch"

\* The paired close leg did not fully fill, or the book is too thin.
SkipLeg ==
    /\ pc = "dispatch" /\ Len(results) < Len(plan)
    /\ Suppressed \/ gate
    /\ LegDone("deferred")
    /\ UNCHANGED <<ledger, gate, plans, leg, report, venue, history, faults>>

BeginLeg ==
    /\ pc = "dispatch" /\ Len(results) < Len(plan)
    /\ ~Suppressed
    /\ attempt_seq' = 0 /\ residual' = Abs(op.delta_size) /\ filled_total' = 0
    /\ pc' = "record"
    /\ executed' = 0 /\ restfilled' = 0
    /\ UNCHANGED <<ledger, gate, plans, results, resp, report, venue, strays,
                   answered, faults>>

FinishCycle ==
    /\ pc = "dispatch" /\ Len(results) = Len(plan)
    /\ Conclude(IF Clean THEN "clean" ELSE "dirty")
    /\ UNCHANGED <<ledger, gate, plans, results, leg, venue, history, faults>>

\* The PENDING intent is durable before the order is sent.
Record ==
    /\ pc = "record"
    /\ record_pending(CurrentCloid, TRUE)
    /\ pc' = "submit"
    /\ UNCHANGED <<gate, plans, results, leg, report, venue, history, faults>>

RecordRaises ==
    /\ pc = "record"
    /\ record_pending(CurrentCloid, FALSE)
    /\ Raise /\ Fault
    /\ UNCHANGED <<venue, history>>

(***************************************************************************)
(* The submission: submit_ioc and submit_spot_ioc trade up to the          *)
(* residual; market_close is reduce-only and trades up to the whole        *)
(* position, whatever the plan thought it was; a spot exit is an ordinary  *)
(* sell of the planned size.                                               *)
(***************************************************************************)
ReduceOnly == IsFullExit /\ op.coin \notin Spot

OrderSize ==
    IF ReduceOnly THEN -pos[op.coin]
    ELSE Sign(op.delta_size) * residual

\* What the venue can fill of an order: a reduce-only order at most closes the
\* position, and a spot sale at most sells the holding.
Fillable(c, size, reduce_only) ==
    IF reduce_only \/ (c \in Spot /\ size < 0)
    THEN IF pos[c] * size < 0 THEN Least(Abs(size), Abs(pos[c])) ELSE 0
    ELSE Abs(size)

Fills == 0 .. Fillable(op.coin, OrderSize, ReduceOnly)

Trade(f) == pos' = [pos EXCEPT ![op.coin] = @ + Sign(OrderSize) * f]

Answer(kind, f) ==
    /\ resp' = [kind |-> kind, size |-> f]
    /\ sent' = sent \union {CurrentCloid}
    /\ full' = IF f > 0 /\ f = Abs(OrderSize)
               THEN full \union {CurrentCloid} ELSE full
    /\ Trade(f)
    /\ executed' = executed + f
    /\ pc' = "answer"
    /\ UNCHANGED <<ledger, gate, plans, results, attempt_seq, residual,
                   filled_total, report, restfilled, strays, answered>>

\* RateLimited or OrderRejected, from the call or from parse_order_response.
SubmitRefused ==
    /\ pc = "submit"
    /\ \E kind \in {"throttled", "rejected"} : Answer(kind, 0)
    /\ UNCHANGED <<book, faults>>

SubmitFilled ==
    /\ pc = "submit"
    /\ \E f \in Fills : Answer("ok", f)
    /\ UNCHANGED <<book, faults>>

\* Any other exception, whose order may or may not have landed; or an answer
\* parse_order_response cannot take apart.
SubmitLost ==
    /\ pc = "submit" /\ Fault
    /\ \E kind \in {"lost", "malformed"}, f \in Fills :
           Answer(kind, f)
    /\ UNCHANGED book

\* The anomaly: an immediate-or-cancel order rests.
SubmitRests ==
    /\ pc = "submit" /\ Fault
    /\ OrderSize # 0
    /\ \E kind \in {"resting", "lost"} : Answer(kind, 0)
    /\ book' = book \union {[cloid |-> CurrentCloid, size |-> OrderSize,
                             reduce_only |-> ReduceOnly]}

(***************************************************************************)
(* What the executor makes of the answer.                                  *)
(***************************************************************************)
EndStatus(r, f) ==
    IF r <= 0 THEN "filled" ELSE IF f > 0 THEN "partial" ELSE "error"

\* Mutant: an exit that traded anything is taken for filled.
ExitStatus_AnyFill == IF resp.size > 0 THEN "filled" ELSE "error"

\* Status of a single-shot exit, and of a leg whose attempts are over.
ExitStatus == EndStatus(Abs(op.delta_size) - resp.size, resp.size)
BrokenStatus ==
    IF IsFullExit THEN "error" ELSE EndStatus(residual, filled_total)

\* Mutant: one attempt too many.
NextAttempt_OneMore(f) ==
    /\ filled_total' = filled_total + f
    /\ residual' = residual - f
    /\ IF residual' > 0 /\ attempt_seq < MaxAttempts
       THEN /\ attempt_seq' = attempt_seq + 1
            /\ pc' = "record"
            /\ UNCHANGED results
       ELSE /\ LegDone(EndStatus(residual', filled_total'))
            /\ UNCHANGED attempt_seq

\* Mutant: an attempt that traded nothing is not counted.
NextAttempt_Uncounted(f) ==
    /\ filled_total' = filled_total + f
    /\ residual' = residual - f
    /\ IF residual' > 0 /\ attempt_seq + 1 < MaxAttempts
       THEN /\ attempt_seq' = attempt_seq + Least(f, 1)
            /\ pc' = "record"
            /\ UNCHANGED results
       ELSE /\ LegDone(EndStatus(residual', filled_total'))
            /\ UNCHANGED attempt_seq

\* The while loop of _execute_ioc after an attempt that traded f.
NextAttempt(f) ==
    /\ filled_total' = filled_total + f
    /\ residual' = residual - f
    /\ IF residual' > 0 /\ attempt_seq + 1 < MaxAttempts
       THEN /\ attempt_seq' = attempt_seq + 1
            /\ pc' = "record"
            /\ UNCHANGED results
       ELSE /\ LegDone(EndStatus(residual', filled_total'))
            /\ UNCHANGED attempt_seq

Settle ==
    /\ mark_done(CurrentCloid, TRUE)
    /\ answered' = answered \union {CurrentCloid}

Quiet == UNCHANGED <<gate, plans, resp, report, venue, executed, restfilled,
                     strays, faults>>

HandleRefused ==
    /\ pc = "answer" /\ resp.kind \in {"throttled", "rejected"}
    /\ Settle
    /\ LegDone(IF resp.kind = "throttled" THEN "error" ELSE BrokenStatus)
    /\ UNCHANGED <<attempt_seq, residual, filled_total>>
    /\ Quiet

\* Mutant: a submission that raised is taken for one that did not land.
HandleLost_Done ==
    /\ pc = "answer" /\ resp.kind = "lost"
    /\ mark_done(CurrentCloid, TRUE)
    /\ LegDone(BrokenStatus)
    /\ UNCHANGED <<attempt_seq, residual, filled_total, answered>>
    /\ Quiet

\* The order may have landed: its intent stays PENDING.
HandleLost ==
    /\ pc = "answer" /\ resp.kind = "lost"
    /\ LegDone(BrokenStatus)
    /\ UNCHANGED <<ledger, attempt_seq, residual, filled_total, answered>>
    /\ Quiet

HandleMalformed ==
    /\ pc = "answer" /\ resp.kind = "malformed"
    /\ Raise
    /\ UNCHANGED <<ledger, venue, history, faults>>

\* A full exit is a single shot and does not look for a resting order.
HandleExit ==
    /\ pc = "answer" /\ resp.kind \in {"ok", "resting"} /\ IsFullExit
    /\ Settle
    /\ LegDone(ExitStatus)
    /\ UNCHANGED <<attempt_seq, residual, filled_total>>
    /\ Quiet

HandleFilled ==
    /\ pc = "answer" /\ resp.kind = "ok" /\ ~IsFullExit
    /\ Settle
    /\ NextAttempt(resp.size)
    /\ Quiet

\* Mutant: the residual is sent again without canceling the resting order.
HandleResting_NoCancel ==
    /\ pc = "answer" /\ resp.kind = "resting" /\ ~IsFullExit
    /\ Settle
    /\ NextAttempt(resp.size)
    /\ Quiet

HandleResting ==
    /\ pc = "answer" /\ resp.kind = "resting" /\ ~IsFullExit
    /\ pc' = "cancel"
    /\ UNCHANGED <<ledger, results, attempt_seq, residual, filled_total, answered>>
    /\ Quiet

\* cancel_by_cloid returns: the order is off the book, canceled now or filled
\* before; the body of the answer, which would tell, is not read.
CancelReturns ==
    /\ pc = "cancel"
    /\ book' = {o \in book : o.cloid # CurrentCloid}
    /\ Settle
    /\ NextAttempt(resp.size)
    /\ UNCHANGED <<gate, plans, resp, report, pos, sent, full, executed,
                   restfilled, strays, faults>>

\* cancel_by_cloid raises, with the order still resting or not: the leg ends.
CancelRaises ==
    /\ pc = "cancel" /\ Fault
    /\ \/ UNCHANGED book
       \/ book' = {o \in book : o.cloid # CurrentCloid}
    /\ Settle
    /\ LegDone(BrokenStatus)
    /\ UNCHANGED <<gate, plans, leg, report, pos, sent, full, executed,
                   restfilled, strays>>

\* mark_done's flush raises: memory says DONE, the file PENDING.  At "cancel"
\* that is behind the cancel, which may have raised too.
MarkDoneRaises ==
    /\ \/ /\ pc = "answer"
          /\ \/ resp.kind \in {"throttled", "rejected", "ok"}
             \/ resp.kind = "resting" /\ IsFullExit
          /\ UNCHANGED book
       \/ /\ pc = "cancel"
          /\ \/ UNCHANGED book
             \/ book' = {o \in book : o.cloid # CurrentCloid}
    /\ mark_done(CurrentCloid, FALSE)
    /\ Raise /\ Fault
    /\ answered' = answered \union {CurrentCloid}
    /\ UNCHANGED <<pos, sent, full, executed, restfilled, strays>>

(***************************************************************************)
(* The venue fills a resting order, in part or whole; a crash; a boot.     *)
(***************************************************************************)
RestFills ==
    \E o \in book : \E f \in 1 .. Fillable(o.cloid.coin, o.size, o.reduce_only) :
        LET c == o.cloid.coin
            rest == o.size - Sign(o.size) * f
        IN /\ pos' = [pos EXCEPT ![c] = @ + Sign(o.size) * f]
           /\ book' = (book \ {o}) \union
                       (IF rest = 0 THEN {} ELSE {[o EXCEPT !.size = rest]})
           /\ full' = IF rest = 0 THEN full \union {o.cloid} ELSE full
           /\ strays' = strays \union {c}
           /\ restfilled' = IF pc \in {"answer", "cancel", "record", "submit"}
                               /\ o.cloid.ts = now_ts /\ c = op.coin
                            THEN restfilled + f ELSE restfilled
           /\ UNCHANGED <<ledger, pc, gate, plans, results, leg, report, sent,
                          executed, answered, faults>>

Crash ==
    /\ pc # "down" /\ Fault
    /\ pc' = "down"
    /\ LoadLedger
    /\ report' = "raised"
    /\ UNCHANGED <<file, gate, plans, results, leg, venue, history>>

\* IntentLedger(path), then boot: reconcile, and a best-effort cancel of
\* every order found resting.  Nothing it meets stops a boot.
Boot ==
    /\ pc = "down"
    /\ pc' = "idle"
    /\ gate' \in Gates
    /\ \E S \in SUBSET Confirmable :
           \/ reconcile_pending(S) /\ UNCHANGED faults
           \/ reconcile_raises(S) /\ Fault
    /\ book' \in SUBSET book
    /\ UNCHANGED <<plans, results, leg, report, pos, sent, full, history>>

Finished ==
    /\ pc = "idle" /\ now_ts = MaxCycles
    /\ UNCHANGED vars

Progress ==
    \/ MarksRaise \/ SkipLeg \/ BeginLeg \/ FinishCycle
    \/ Record \/ RecordRaises
    \/ SubmitRefused \/ SubmitFilled \/ SubmitLost \/ SubmitRests
    \/ HandleRefused \/ HandleLost \/ HandleMalformed \/ HandleExit
    \/ HandleFilled \/ HandleResting
    \/ CancelReturns \/ CancelRaises \/ MarkDoneRaises

Next ==
    \/ StartCycle \/ ReconcileRaises
    \/ Progress
    \/ RestFills \/ Crash \/ Boot \/ Finished

Spec == Init /\ [][Next]_vars

FairSpec == Spec /\ WF_vars(Progress)

(***************************************************************************)
(* Properties.                                                             *)
(***************************************************************************)
LegPCs == {"record", "submit", "answer", "cancel"}

TypeOK ==
    /\ LedgerTypeOK
    /\ pc \in PCs /\ report \in Reports
    /\ now_ts \in 0 .. MaxCycles
    /\ gate \in BOOLEAN
    /\ snap \in [Coin -> Int] /\ target \in [Coin -> Int] /\ pos \in [Coin -> Int]
    /\ plan \in Seq(Leg)
    /\ results \in Seq(LegStatus) /\ Len(results) <= Len(plan)
    /\ pc \in LegPCs => Len(results) < Len(plan)
    /\ pc \notin {"idle", "down"} => now_ts > 0
    /\ attempt_seq \in 0 .. MaxAttempts - 1
    /\ residual \in Int /\ filled_total \in Nat
    /\ resp \in [kind : Answers, size : Nat]
    /\ book \subseteq Order
    /\ sent \subseteq Cloid /\ full \subseteq Cloid /\ answered \subseteq Cloid
    /\ executed \in Nat /\ restfilled \in Nat
    /\ strays \subseteq Coin
    /\ faults \in 0 .. MaxFaults

\* The durable ledger runs ahead of the venue (MF-7, MF-6): an order is sent
\* at most once, only under an id that is PENDING in the file, and only a
\* sent order's intent becomes DONE; across lost answers, failed writes,
\* crashes and boots.
Ahead == INSTANCE WriteAhead WITH log <- file
AheadSpec == Ahead!Spec

\* An intent is DONE in the file only if the fate of its order was learned:
\* an answer came, or the chain shows the fill (F-4: "order MIGHT have landed").
DoneIsKnown ==
    \A c \in Cloid : file[c] = "DONE" => c \in answered \union full

\* While a leg is being worked on, what its orders filled on sending and what
\* of them still rests never exceed the planned size: no retry is sent on top
\* of an order of the leg that may still fill.
RestingOf(c) == {o \in book : o.cloid.coin = c /\ o.cloid.ts = now_ts}

NoDoubleExposure ==
    pc \in LegPCs /\ ~IsFullExit =>
        \A o \in RestingOf(op.coin) :
            executed + Abs(o.size) <= Abs(op.delta_size)

\* No order crosses zero (spec 7, H4), unless the coin's plan was made from a
\* position too small for a close leg, or one of its own resting orders has
\* filled since.
SendsAcrossZero ==
    /\ pc = "submit" /\ pc' = "answer"
    /\ pos[op.coin] * (pos[op.coin] + OrderSize) < 0

CrossesOnlyFromDust ==
    [][SendsAcrossZero =>
          \/ op.coin \in strays
          \/ 0 < Abs(snap[op.coin]) /\ Abs(snap[op.coin]) < MinSize]_vars

\* A clean report, on which run_cycle commits the target as the baseline,
\* means the account is at the target up to what the minimum notional drops.
WithinMinNotional(c) ==
    \/ Abs(pos[c] - target[c]) < MinSize
    \/ /\ pos[c] * target[c] < 0
       /\ Abs(pos[c]) < MinSize /\ Abs(target[c]) < MinSize

CleanMeansAtTarget ==
    pc = "idle" /\ report = "clean" =>
        \A c \in Coin \ strays : WithinMinNotional(c)

\* A cycle in progress ends, or the process is killed: the attempts of a leg
\* are bounded and no answer sends the executor back.
CycleEnds == pc \notin {"idle", "down"} ~> pc \in {"idle", "down"}

(***************************************************************************)
(* What the comments of the code say and the code does not do.             *)
(***************************************************************************)
\* executor.py: the anomaly's cancel comes before the residual retry "so the
\* retry cannot re-submit ON TOP of an already-resting order (which would
\* double the exposure)": a leg never trades more than planned.
NeverOverfills ==
    pc \in LegPCs /\ ~IsFullExit =>
        executed + restfilled <= Abs(op.delta_size)
=============================================================================
