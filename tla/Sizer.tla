------------------------------- MODULE Sizer -------------------------------
(***************************************************************************)
(* The arithmetic of a rebalance: reconciler.snapshot, achieved_weights    *)
(* and sizer.plan, and the account their orders lead to.  Cycle has the    *)
(* order of a cycle's steps with weights reduced to signs; here a weight,  *)
(* a price and a size are numbers and the steps of a cycle are one.        *)
(*                                                                         *)
(* Sizes are in lots of 10^-sz_decimals, prices in dollars a lot, weights, *)
(* threshold and safety_buffer in 1/W of the equity.  The code computes    *)
(* with floats; here every quotient is exact, so a size may differ by a    *)
(* lot from the code's where a quotient is whole.                          *)
(***************************************************************************)
EXTENDS Integers, FiniteSets, Functions

CONSTANTS
    Coins,
    Spot,               \* the coins of cfg.spot_routing
    W,
    threshold,          \* cfg.threshold_pct
    safety_buffer,      \* cfg.safety_buffer
    MIN_NOTIONAL_USD,
    None,               \* no baseline yet
    TargetWeights,      \* bound: the combined targets of a cycle
    Prices,             \* bound: the prices of a coin
    Sizes,              \* bound: what others may leave of a position
    StartCash,
    MaxMoves            \* bound on what happens between cycles

SizerAssumption ==
    /\ Spot \subseteq Coins /\ IsFiniteSet(Coins)
    /\ W \in Nat \ {0} /\ threshold \in 1 .. W /\ safety_buffer \in 0 .. W
    /\ MIN_NOTIONAL_USD \in Nat \ {0} /\ StartCash \in Nat \ {0}
    /\ TargetWeights \subseteq [Coins -> -W .. W]
    /\ Prices \in [Coins -> SUBSET (Nat \ {0})]
    /\ Sizes \in [Coins -> SUBSET Int]
    /\ \A c \in Spot : Sizes[c] \subseteq Nat
    /\ MaxMoves \in Nat

ASSUME SizerAssumption

VARIABLES
    pos,        \* signed lots held of each coin
    px,         \* the price of each coin
    marked,     \* the coins whose mark is in the snapshot
    cash,       \* accountValue and free USDC less the value of the positions
    prev,       \* state.last_rebalanced_target
    target,     \* the combined weights of the cycle in progress
    frozen,     \* the coins of its held sleeves
    blocked,    \* its cooldown_blocked
    stage,      \* how far it has come
    moves       \* at most MaxMoves

account == <<pos, px, marked, cash>>
inputs == <<target, frozen, blocked>>
vars == <<account, prev, inputs, stage, moves>>

Abs(n) == IF n < 0 THEN -n ELSE n
Larger(m, n) == IF m > n THEN m ELSE n
Sign(n) == IF n < 0 THEN -1 ELSE IF n = 0 THEN 0 ELSE 1
Total(f, S) == SumFunctionOnSet(f, S)

Nothing == [c \in Coins |-> 0]

-----------------------------------------------------------------------------
(***************************************************************************)
(* snapshot and achieved_weights.                                          *)
(***************************************************************************)

\* The venue values a perp whether or not its mark is read; a spot holding
\* without a mark counts for nothing.
Valued == Coins \ (Spot \ marked)
equity == cash + Total([c \in Coins |-> pos[c] * px[c]], Valued)

\* W * equity times the weight held of c.
achieved(c) == IF c \in marked THEN W * pos[c] * px[c] ELSE 0

-----------------------------------------------------------------------------
(***************************************************************************)
(* sizer.plan.                                                             *)
(***************************************************************************)

\* A cooling coin leaves the target before anything is computed.
effective_weights == [c \in Coins |-> IF c \in blocked THEN 0 ELSE target[c]]

\* The ratchet: all or nothing, over the coins neither frozen nor cooling.
\* The drift is that of every such coin, wanted or not (F3).
Compared == Coins \ (frozen \union blocked)
max_delta_reached ==
    \E c \in Compared : Abs(effective_weights[c] - prev[c]) >= threshold

\* Mutant: the drift of the coins of the two targets only.
DriftUnion_Targets ==
    {c \in Compared : effective_weights[c] # 0 \/ prev[c] # 0}

DriftUnion == Compared
abs_drift_reached ==
    \E c \in DriftUnion :
        Abs(effective_weights[c] * equity - achieved(c))
            >= 2 * threshold * equity
rebalance == prev = None \/ max_delta_reached \/ abs_drift_reached

\* A quotient floored towards zero, the direction kept (C2).
_floor_size_signed(n, d) == Sign(n) * (Abs(n) \div d)

\* Step 4: a coin without a mark is not sized.
Traded == marked \ frozen
raw_target_sizes ==
    [c \in Coins |->
        IF c \in Traded
           THEN _floor_size_signed(effective_weights[c] * equity, W * px[c])
           ELSE 0]

\* Mutant: the signed sum.
Gross_Signed(sizes, S) == Total([c \in S |-> sizes[c] * px[c]], S)

\* Step 5: magnitudes, never the signed sum (C1); a frozen coin consumes
\* margin and cannot be scaled.
Gross(sizes, S) == Total([c \in S |-> Abs(sizes[c]) * px[c]], S)

\* Mutant: every coin held counts as frozen.
frozen_live_notional_AllHeld == Gross(pos, marked)

frozen_live_notional == Gross(pos, frozen \intersect marked)
cap == equity * (W - safety_buffer)     \* times W

target_sizes ==
    LET raw == raw_target_sizes
        traded_gross == Gross(raw, Traded)
        headroom == Larger(cap - W * frozen_live_notional, 0)
    IN  IF W * (traded_gross + frozen_live_notional) > cap /\ traded_gross > 0
           THEN [c \in Coins |->
                    _floor_size_signed(raw[c] * headroom, W * traded_gross)]
           ELSE raw
post_gross == Gross(target_sizes, Traded) + frozen_live_notional
SizerError == W * post_gross > cap

\* Step 7: the legs of a coin.  One that changes sign is closed and opened.
Legs(c, size) ==
    IF size * pos[c] < 0
       THEN {[coin |-> c, delta |-> -pos[c], close |-> TRUE],
             [coin |-> c, delta |-> size, close |-> FALSE]}
       ELSE {[coin |-> c, delta |-> size - pos[c], close |-> FALSE]}

\* Every coin held or wanted, except the frozen ones and those no mark prices;
\* a leg below the minimum notional is not sent.
orders ==
    LET sizes == target_sizes
    IN  {leg \in UNION {Legs(c, sizes[c]) : c \in Traded} :
            Abs(leg.delta) * px[leg.coin] >= MIN_NOTIONAL_USD}

-----------------------------------------------------------------------------
(***************************************************************************)
(* The account, from cycle to cycle.                                       *)
(***************************************************************************)
Init ==
    /\ pos = Nothing /\ cash = StartCash
    /\ px \in {p \in [Coins -> UNION {Prices[c] : c \in Coins}] :
                  \A c \in Coins : p[c] \in Prices[c]}
    /\ marked = Coins
    /\ prev = None /\ target = Nothing /\ frozen = {} /\ blocked = {}
    /\ stage = "waiting" /\ moves = 0

\* A cycle reads the account and plans.  The coins of a held sleeve are not in
\* the target; a coin can cool only if the target wants it.  That the account
\* is solvent is a restriction of the model: the code does not check it.
Plan ==
    /\ stage = "waiting" /\ equity > 0
    /\ UNCHANGED <<account, prev, moves>>
    /\ target' \in TargetWeights
    /\ frozen' \in SUBSET {c \in Coins : target'[c] = 0}
    /\ blocked' \in SUBSET {c \in Coins : target'[c] # 0}
    /\ stage' = IF ~rebalance' THEN "held"
                ELSE IF SizerError' THEN "raised" ELSE "planned"

\* Legs fill at the mark.
Net(filled, c) ==
    LET legs == {leg \in filled : leg.coin = c}
    IN  Total([leg \in legs |-> leg.delta], legs)
Fill(filled) ==
    /\ pos' = [c \in Coins |-> pos[c] + Net(filled, c)]
    /\ cash' = cash - Total([c \in Coins |-> Net(filled, c) * px[c]], Coins)

\* A clean execution commits the target, the cooling coins included.
ExecuteClean ==
    /\ stage = "planned"
    /\ Fill(orders)
    /\ prev' = target /\ stage' = "clean"
    /\ UNCHANGED <<px, marked, inputs, moves>>

\* Some legs fail; no coin is opened across a close leg that did (H4).
ExecutePartly ==
    /\ stage = "planned"
    /\ \E sent \in SUBSET orders :
         /\ sent # orders
         /\ \A leg \in orders \ sent :
              leg.close => \A other \in sent : other.coin # leg.coin
         /\ Fill(sent)
    /\ stage' = "partly"
    /\ UNCHANGED <<px, marked, prev, inputs, moves>>

\* Until the next cycle one thing happens, or nothing.
Rest ==
    /\ stage # "planned" /\ stage' = "waiting"
    /\ moves < MaxMoves /\ moves' = moves + 1
    /\ target' = Nothing /\ frozen' = {} /\ blocked' = {}
    /\ UNCHANGED prev
NothingHappens == UNCHANGED account /\ Rest

PriceMoves ==
    /\ \E c \in Coins : \E p \in Prices[c] :
         p # px[c] /\ px' = [px EXCEPT ![c] = p]
    /\ UNCHANGED <<pos, marked, cash>> /\ Rest

MarkChanges ==
    /\ \E c \in Coins :
         marked' = IF c \in marked THEN marked \ {c} ELSE marked \union {c}
    /\ UNCHANGED <<pos, px, cash>> /\ Rest

\* A flatten, a liquidation or an order by hand.
OthersTrade ==
    /\ \E c \in Coins : \E n \in Sizes[c] :
         /\ n # pos[c]
         /\ pos' = [pos EXCEPT ![c] = n]
         /\ cash' = cash - (n - pos[c]) * px[c]
    /\ UNCHANGED <<px, marked>> /\ Rest

Next == Plan \/ ExecuteClean \/ ExecutePartly
        \/ NothingHappens \/ PriceMoves \/ MarkChanges \/ OthersTrade

Spec == Init /\ [][Next]_vars
-----------------------------------------------------------------------------
(***************************************************************************)
(* Properties.                                                             *)
(***************************************************************************)

\* After a clean cycle the gross of everything priced, frozen coins included,
\* is within the cap, but for less than a minimum order of each coin (MF-8);
\* and only a frozen book that is above the cap by itself makes plan raise.
Exposure(S) ==
    Total([c \in Coins |-> Abs(pos[c]) * px[c]], S \intersect marked)
CapHolds ==
    /\ stage = "clean" =>
         W * Exposure(Coins)
             <= cap + W * Cardinality(Coins) * (MIN_NOTIONAL_USD - 1)
    /\ stage = "raised" => W * Exposure(frozen) > cap

\* After a cycle that held or executed cleanly no coin it could trade is
\* further from its target than the drift the ratchet tolerates, or than what
\* flooring and the minimum order of two legs leave.  That holds of a coin
\* that nobody wants whatever the cap; of a wanted one unless the whole target
\* is above the cap.
FitsCap ==
    Total([c \in Coins |-> Abs(target[c])], Coins) * equity
        + W * Exposure(frozen)
        <= cap
StaysNearTarget ==
    stage \in {"held", "clean"} =>
        \A c \in marked \ (frozen \union blocked) :
            (stage = "held" \/ FitsCap \/ target[c] = 0) =>
                Abs(target[c] * equity - achieved(c))
                    < Larger(2 * threshold * equity,
                             W * (px[c] + 2 * MIN_NOTIONAL_USD))

\* After a clean cycle, on an account nobody has touched, a ratchet that fired
\* again would send nothing, whatever was floored, scaled, split into two legs
\* or too small: a retry of a cycle that was clean trades nothing twice.
ReplanIsEmpty == stage = "clean" => orders = {}
=============================================================================
