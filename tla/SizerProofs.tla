---------------------------- MODULE SizerProofs -----------------------------
(***************************************************************************)
(* The cap, the distance from the target and the empty replan, for every   *)
(* account, book of weights, price and bound: the products of sizes and    *)
(* prices coin by coin first, then their sums.                             *)
(***************************************************************************)
EXTENDS Sizer, Sums

Stages == {"waiting", "planned", "held", "raised", "clean", "partly"}

TypeOK ==
    /\ pos \in [Coins -> Int] /\ px \in [Coins -> Nat \ {0}]
    /\ marked \subseteq Coins /\ cash \in Int
    /\ prev \in [Coins -> -W .. W] \union {None}
    /\ target \in [Coins -> -W .. W]
    /\ frozen \subseteq Coins /\ blocked \subseteq Coins
    /\ stage \in Stages /\ moves \in 0 .. MaxMoves

\* What Plan has checked of the cycle in progress, until its orders are sent.
PlannedInv ==
    stage = "planned" =>
        /\ equity > 0 /\ ~SizerError
        /\ \A c \in frozen : target[c] = 0

IInv == TypeOK /\ PlannedInv /\ CapHolds /\ StaysNearTarget /\ ReplanIsEmpty

-----------------------------------------------------------------------------
(***************************************************************************)
(* Numbers.                                                                *)
(***************************************************************************)
LEMMA AbsFacts ==
  ASSUME NEW n \in Int
  PROVE  /\ Abs(n) \in Nat /\ Abs(-n) = Abs(n) /\ (Abs(n) = 0 <=> n = 0)
         /\ n <= Abs(n) /\ -n <= Abs(n)
         /\ n >= 0 => Abs(n) = n
         /\ n <= 0 => Abs(n) = -n
  BY DEF Abs

LEMMA Triangle ==
  ASSUME NEW m \in Int, NEW n \in Int
  PROVE  Abs(m + n) <= Abs(m) + Abs(n) /\ Abs(m - n) <= Abs(m) + Abs(n)
  BY DEF Abs

LEMMA AbsProduct ==
  ASSUME NEW m \in Int, NEW n \in Nat
  PROVE  Abs(m * n) = Abs(m) * n /\ m * n \in Int /\ Abs(m) * n \in Nat
  <1>1. CASE m >= 0
    <2>1. m * n >= 0
      BY <1>1
    <2>. QED
      BY <1>1, <2>1, AbsFacts
  <1>2. CASE m < 0
    <2>1. -m \in Nat /\ (-m) * n \in Nat /\ m * n = -((-m) * n)
      BY <1>2
    <2>. QED
      BY <1>2, <2>1, AbsFacts
  <1>. QED
    BY <1>1, <1>2

LEMMA Quotient ==
  ASSUME NEW n \in Nat, NEW d \in Nat \ {0}
  PROVE  /\ n \div d \in Nat
         /\ (n \div d) * d <= n /\ n < (n \div d) * d + d
  OBVIOUS

\* A size is floored towards zero: it keeps its sign, and less than one d is
\* lost.
LEMMA Floored ==
  ASSUME NEW n \in Int, NEW d \in Nat \ {0}
  PROVE  LET q == _floor_size_signed(n, d)
         IN  /\ q \in Int
             /\ Abs(q) * d <= Abs(n)
             /\ Abs(n - q * d) < d
             /\ n = 0 => q = 0
  <1>. DEFINE a == Abs(n)
              b == a \div d
  <1>1. a \in Nat /\ b \in Nat /\ b * d <= a /\ a < b * d + d /\ b * d \in Nat
    <2>1. a \in Nat
      BY AbsFacts
    <2>. HIDE DEF a
    <2>2. b \in Nat /\ b * d <= a /\ a < b * d + d
      BY <2>1, Quotient
    <2>. HIDE DEF b
    <2>. QED
      BY <2>1, <2>2
  <1>. HIDE DEF b
  <1>2. CASE n > 0
    <2>1. _floor_size_signed(n, d) = b /\ a = n
      BY <1>1, <1>2 DEF _floor_size_signed, Sign, Abs, b
    <2>2. Abs(b) = b /\ Abs(n - b * d) = n - b * d
      BY <1>1, <2>1, AbsFacts
    <2>. QED
      BY <1>1, <1>2, <2>1, <2>2
  <1>3. CASE n = 0
    <2>1. _floor_size_signed(n, d) = 0
      BY <1>1, <1>3 DEF _floor_size_signed, Sign, b
    <2>. QED
      BY <1>3, <2>1, AbsFacts
  <1>4. CASE n < 0
    <2>1. _floor_size_signed(n, d) = -b /\ a = -n
      BY <1>1, <1>4 DEF _floor_size_signed, Sign, Abs, b
    <2>2. Abs(-b) = b /\ (-b) * d = -(b * d) /\ Abs(n + b * d) = -(n + b * d)
      BY <1>1, <2>1, AbsFacts
    <2>. QED
      BY <1>1, <1>4, <2>1, <2>2
  <1>. QED
    BY <1>2, <1>3, <1>4

LEMMA Monotone ==
  ASSUME NEW m \in Int, NEW n \in Int, NEW k \in Nat
  PROVE  m <= n => m * k <= n * k
  OBVIOUS

\* The account of one coin after its legs: p held, s wanted, P its price, M
\* the minimum, n what the legs above the minimum trade.
LegSum(p, s, P, M) ==
    IF s * p < 0
       THEN (IF Abs(-p) * P >= M THEN -p ELSE 0)
            + (IF Abs(s) * P >= M THEN s ELSE 0)
       ELSE IF Abs(s - p) * P >= M THEN s - p ELSE 0

\* Where the coin is then: q held.
Reached(q, s, P, M) ==
    /\ Abs(q) * P <= Abs(s) * P + (M - 1)
    /\ Abs(q - s) * P <= 2 * (M - 1)
    /\ s * q < 0 => Abs(q) * P < M /\ Abs(s) * P < M
    /\ ~ (s * q < 0) => Abs(s - q) * P < M

LEMMA CoinArithmetic ==
  ASSUME NEW p \in Int, NEW s \in Int, NEW P \in Nat \ {0},
         NEW M \in Nat \ {0}, NEW n \in Int, n = LegSum(p, s, P, M)
  PROVE  Reached(p + n, s, P, M)
  <1>1. n = IF s * p < 0
               THEN (IF Abs(-p) * P >= M THEN -p ELSE 0)
                    + (IF Abs(s) * P >= M THEN s ELSE 0)
               ELSE IF Abs(s - p) * P >= M THEN s - p ELSE 0
    BY DEF LegSum
  <1>2. /\ Abs(p) \in Nat /\ Abs(s) \in Nat /\ Abs(s - p) \in Nat
        /\ Abs(-p) = Abs(p) /\ Abs(p - s) = Abs(s - p) /\ Abs(0) = 0
    BY AbsFacts DEF Abs
  <1>3. /\ Abs(p) * P \in Nat /\ Abs(s) * P \in Nat /\ Abs(s - p) * P \in Nat
        /\ Abs(0) * P = 0
    BY <1>2
  <1>4. CASE ~ (s * p < 0) /\ Abs(s - p) * P >= M
    <2>1. p + n = s
      BY <1>1, <1>4
    <2>2. s * s >= 0 /\ s - s = 0
      OBVIOUS
    <2>3. Reached(s, s, P, M)
      BY <1>3, <2>2 DEF Reached
    <2>. QED
      BY <2>1, <2>3, Zenon
  <1>5. CASE ~ (s * p < 0) /\ ~ (Abs(s - p) * P >= M)
    <2>1. p + n = p
      BY <1>1, <1>5
    <2>2. Abs(p) <= Abs(s) + Abs(p - s)
      BY DEF Abs
    <2>3. Abs(p) * P <= (Abs(s) + Abs(s - p)) * P
      BY <1>2, <2>2, Monotone
    <2>4. (Abs(s) + Abs(s - p)) * P = Abs(s) * P + Abs(s - p) * P
      BY <1>2
    <2>5. Abs(p) * P <= Abs(s) * P + (M - 1)
      BY <1>3, <1>5, <2>3, <2>4
    <2>6. Reached(p, s, P, M)
      BY SMTT(20), <1>2, <1>3, <1>5, <2>5 DEF Reached
    <2>. QED
      BY <2>1, <2>6, Zenon
  <1>6. CASE s * p < 0 /\ Abs(p) * P >= M /\ Abs(s) * P >= M
    <2>1. p + n = s
      BY <1>1, <1>2, <1>6
    <2>2. s * s >= 0 /\ s - s = 0
      OBVIOUS
    <2>3. Reached(s, s, P, M)
      BY <1>3, <2>2 DEF Reached
    <2>. QED
      BY <2>1, <2>3, Zenon
  <1>7. CASE s * p < 0 /\ Abs(p) * P >= M /\ ~ (Abs(s) * P >= M)
    <2>1. p + n = 0 /\ p + n - s = -s /\ s - (p + n) = s
      BY <1>1, <1>2, <1>7
    <2>2. Abs(-s) = Abs(s) /\ s * 0 = 0
      BY AbsFacts
    <2>. QED
      BY <1>3, <1>7, <2>1, <2>2 DEF Reached
  <1>8. CASE s * p < 0 /\ ~ (Abs(p) * P >= M) /\ Abs(s) * P >= M
    <2>1. p + n = p + s /\ p + n - s = p /\ s - (p + n) = -p
      BY <1>1, <1>2, <1>8
    <2>2. Abs(p) < Abs(s)
      BY <1>2, <1>3, <1>8, Monotone
    <2>3. (p > 0 /\ s < 0) \/ (p < 0 /\ s > 0)
      BY <1>1, <1>8
    <2>4. Abs(p + s) <= Abs(s) /\ Abs(p + s) \in Nat
      BY <2>2, <2>3 DEF Abs
    <2>5. Abs(p + s) * P <= Abs(s) * P /\ Abs(p + s) * P \in Nat
      BY <1>2, <2>4, Monotone
    <2>6. ~ (s * (p + s) < 0)
      <3>1. CASE p > 0 /\ s < 0
        BY <2>2, <3>1 DEF Abs
      <3>2. CASE p < 0 /\ s > 0
        BY <2>2, <3>2 DEF Abs
      <3>. QED
        BY <2>3, <3>1, <3>2
    <2>7. Abs(p + n) * P <= Abs(s) * P + (M - 1)
      BY <1>3, <2>1, <2>5
    <2>. QED
      BY <1>2, <1>3, <1>8, <2>1, <2>6, <2>7 DEF Reached
  <1>9. CASE s * p < 0 /\ ~ (Abs(p) * P >= M) /\ ~ (Abs(s) * P >= M)
    <2>1. p + n = p
      BY <1>1, <1>2, <1>9
    <2>2. Abs(p - s) <= Abs(p) + Abs(s)
      BY Triangle
    <2>3. Abs(p - s) * P <= (Abs(p) + Abs(s)) * P
      BY <1>2, <2>2, Monotone
    <2>4. (Abs(p) + Abs(s)) * P = Abs(p) * P + Abs(s) * P
      BY <1>2
    <2>. QED
      BY <1>2, <1>3, <1>9, <2>1, <2>3, <2>4 DEF Reached
  <1>. QED
    BY <1>2, <1>4, <1>5, <1>6, <1>7, <1>8, <1>9

-----------------------------------------------------------------------------
(***************************************************************************)
(* The values snapshot and plan compute with.                              *)
(***************************************************************************)
LEMMA Sets ==
  ASSUME TypeOK
  PROVE  /\ IsFiniteSet(Coins) /\ IsFiniteSet(Valued) /\ IsFiniteSet(Traded)
         /\ IsFiniteSet(marked)
         /\ Traded \subseteq marked /\ marked \subseteq Valued
         /\ Valued \subseteq Coins
  <1>1. IsFiniteSet(Coins)
    BY SizerAssumption DEF SizerAssumption
  <1>2. /\ Traded \subseteq marked /\ marked \subseteq Valued
        /\ Valued \subseteq Coins /\ Traded \subseteq Coins
    BY DEF TypeOK, Traded, Valued
  <1>. QED
    BY <1>1, <1>2, FS_Subset DEF TypeOK

LEMMA Bounds ==
  /\ W \in Nat \ {0} /\ threshold \in Nat \ {0} /\ threshold <= W
  /\ safety_buffer \in Nat /\ W - safety_buffer \in Nat
  /\ MIN_NOTIONAL_USD \in Nat \ {0}
  BY SizerAssumption DEF SizerAssumption

LEMMA EquityType ==
  ASSUME TypeOK
  PROVE  equity \in Int /\ cap \in Int
  <1>. DEFINE value == [c \in Coins |-> pos[c] * px[c]]
  <1>1. Ints(value, Valued)
    <2>1. \A c \in Valued : c \in Coins
      BY Sets
    <2>. QED
      BY <2>1 DEF Ints, TypeOK
  <1>. HIDE DEF value
  <1>2. SumFunctionOnSet(value, Valued) \in Int
    BY <1>1, Sets, SumFirst
  <1>3. cash \in Int
    BY DEF TypeOK
  <1>4. equity = cash + SumFunctionOnSet(value, Valued)
    BY DEF equity, Total, value
  <1>5. equity \in Int
    BY <1>2, <1>3, <1>4
  <1>. QED
    BY <1>5, Bounds DEF cap

LEMMA GrossNat ==
  ASSUME TypeOK, NEW sizes, NEW S, S \subseteq Coins,
         \A c \in S : sizes[c] \in Int
  PROVE  /\ Gross(sizes, S) \in Nat
         /\ IsFiniteSet(S)
         /\ \A c \in S : Abs(sizes[c]) * px[c] \in Nat
  <1>1. IsFiniteSet(S)
    BY Sets, FS_Subset
  <1>2. ASSUME NEW c \in S
        PROVE  Abs(sizes[c]) * px[c] \in Nat
    <2>1. Abs(sizes[c]) \in Nat /\ px[c] \in Nat
      BY AbsFacts DEF TypeOK
    <2>. QED
      BY <2>1
  <1>. DEFINE f == [c \in S |-> Abs(sizes[c]) * px[c]]
  <1>3. \A c \in S : f[c] \in Nat
    BY <1>2
  <1>. HIDE DEF f
  <1>4. SumFunctionOnSet(f, S) \in Nat
    BY <1>1, <1>3, SumNatural
  <1>. QED
    BY <1>1, <1>2, <1>4 DEF Gross, Total, f

LEMMA RawTypes ==
  ASSUME TypeOK
  PROVE  /\ effective_weights \in [Coins -> Int]
         /\ raw_target_sizes \in [Coins -> Int]
         /\ \A c \in Coins : W * px[c] \in Nat \ {0} /\ px[c] \in Nat \ {0}
  <1>1. effective_weights \in [Coins -> Int]
    BY Bounds DEF effective_weights, TypeOK
  <1>2. \A c \in Coins : W * px[c] \in Nat \ {0} /\ px[c] \in Nat \ {0}
    BY Bounds DEF TypeOK
  <1>3. ASSUME NEW c \in Coins
        PROVE  _floor_size_signed(effective_weights[c] * equity, W * px[c]) \in Int
    <2>1. effective_weights[c] * equity \in Int
      BY <1>1, EquityType
    <2>. QED
      BY <1>2, <2>1, Floored
  <1>. QED
    BY <1>1, <1>2, <1>3 DEF raw_target_sizes

LEMMA FrozenNat ==
  ASSUME TypeOK
  PROVE  frozen_live_notional \in Nat
  <1>1. frozen \intersect marked \subseteq Coins /\ \A c \in Coins : pos[c] \in Int
    BY DEF TypeOK
  <1>. QED
    BY <1>1, GrossNat DEF frozen_live_notional

\* The factor the sizes are scaled by.
Headroom == Larger(cap - W * frozen_live_notional, 0)
TradedGross == Gross(raw_target_sizes, Traded)
Scales == W * (TradedGross + frozen_live_notional) > cap /\ TradedGross > 0

LEMMA Scaling ==
  ASSUME TypeOK
  PROVE  /\ TradedGross \in Nat /\ Headroom \in Nat
         /\ Scales => W * TradedGross \in Nat \ {0}
         /\ target_sizes = IF Scales
               THEN [c \in Coins |-> _floor_size_signed(
                        raw_target_sizes[c] * Headroom, W * TradedGross)]
               ELSE raw_target_sizes
         /\ target_sizes \in [Coins -> Int]
  <1>1. TradedGross \in Nat
    <2>1. \A c \in Traded : raw_target_sizes[c] \in Int /\ c \in Coins
      BY Sets, RawTypes
    <2>. QED
      BY <2>1, Sets, GrossNat DEF TradedGross
  <1>2. Headroom \in Nat
    BY EquityType, FrozenNat, Bounds DEF Headroom, Larger
  <1>3. Scales => W * TradedGross \in Nat \ {0}
    BY <1>1, Bounds DEF Scales
  <1>4. target_sizes = IF Scales
               THEN [c \in Coins |-> _floor_size_signed(
                        raw_target_sizes[c] * Headroom, W * TradedGross)]
               ELSE raw_target_sizes
    BY DEF target_sizes, Scales, TradedGross, Headroom
  <1>5. ASSUME Scales, NEW c \in Coins
        PROVE  _floor_size_signed(raw_target_sizes[c] * Headroom,
                                  W * TradedGross) \in Int
    <2>1. raw_target_sizes[c] * Headroom \in Int
      BY <1>2, RawTypes
    <2>. QED
      BY <1>3, <1>5, <2>1, Floored
  <1>. QED
    BY <1>1, <1>2, <1>3, <1>4, <1>5, RawTypes

-----------------------------------------------------------------------------
(***************************************************************************)
(* The legs of a coin and what they trade together.                        *)
(***************************************************************************)
SentOf(c) == {leg \in orders : leg.coin = c}

CloseLeg(c) == [coin |-> c, delta |-> -pos[c], close |-> TRUE]
OpenLeg(c, size) == [coin |-> c, delta |-> size, close |-> FALSE]
OneLeg(c, size) == [coin |-> c, delta |-> size - pos[c], close |-> FALSE]
Enough(leg) == Abs(leg.delta) * px[leg.coin] >= MIN_NOTIONAL_USD

LEMMA LegsOfCoin ==
  ASSUME TypeOK, NEW c \in Coins
  PROVE  /\ c \notin Traded => SentOf(c) = {}
         /\ c \in Traded =>
               SentOf(c) = {leg \in Legs(c, target_sizes[c]) : Enough(leg)}
         /\ \A leg \in SentOf(c) : leg.delta \in Int
         /\ IsFiniteSet(SentOf(c))
  <1>. DEFINE size == target_sizes[c]
  <1>1. \A d \in Coins : \A leg \in Legs(d, target_sizes[d]) : leg.coin = d
    BY DEF Legs
  <1>2. Traded \subseteq Coins
    BY Sets
  <1>3. orders = {leg \in UNION {Legs(d, target_sizes[d]) : d \in Traded} :
                     Enough(leg)}
    BY DEF orders, Enough
  <1>4. ASSUME c \notin Traded
        PROVE  SentOf(c) = {}
    BY <1>1, <1>2, <1>3, <1>4 DEF SentOf
  <1>5. ASSUME c \in Traded
        PROVE  SentOf(c) = {leg \in Legs(c, size) : Enough(leg)}
    BY <1>1, <1>2, <1>3, <1>5 DEF SentOf
  <1>6. size \in Int /\ pos[c] \in Int
    BY Scaling DEF TypeOK
  <1>. HIDE DEF size
  <1>7. /\ Legs(c, size) \subseteq {CloseLeg(c), OpenLeg(c, size), OneLeg(c, size)}
        /\ CloseLeg(c).delta \in Int /\ OpenLeg(c, size).delta \in Int
        /\ OneLeg(c, size).delta \in Int
    BY <1>6 DEF Legs, CloseLeg, OpenLeg, OneLeg
  <1>8. IsFiniteSet({CloseLeg(c), OpenLeg(c, size), OneLeg(c, size)})
    <2>1. IsFiniteSet({CloseLeg(c)})
      BY FS_Singleton
    <2>2. IsFiniteSet({CloseLeg(c)} \union {OpenLeg(c, size)})
      BY <2>1, FS_AddElement
    <2>3. IsFiniteSet(({CloseLeg(c)} \union {OpenLeg(c, size)})
                      \union {OneLeg(c, size)})
      BY <2>2, FS_AddElement
    <2>4. {CloseLeg(c), OpenLeg(c, size), OneLeg(c, size)}
             = ({CloseLeg(c)} \union {OpenLeg(c, size)}) \union {OneLeg(c, size)}
      OBVIOUS
    <2>. QED
      BY <2>3, <2>4, Zenon
  <1>9. SentOf(c) \subseteq {CloseLeg(c), OpenLeg(c, size), OneLeg(c, size)}
    BY <1>4, <1>5, <1>7
  <1>10. IsFiniteSet(SentOf(c))
    BY <1>8, <1>9, FS_Subset
  <1>. QED
    BY <1>4, <1>5, <1>7, <1>9, <1>10 DEF size

\* Whatever part of the orders fills, a coin trades a whole number of lots, and
\* none unless it is one of the traded coins.
LEMMA NetTypes ==
  ASSUME TypeOK, NEW filled, filled \subseteq orders, NEW c \in Coins
  PROVE  /\ Net(filled, c) \in Int
         /\ c \notin Traded => Net(filled, c) = 0
  <1>. DEFINE legs == {leg \in filled : leg.coin = c}
              f == [leg \in legs |-> leg.delta]
  <1>1. legs \subseteq SentOf(c)
    BY DEF SentOf
  <1>2. IsFiniteSet(legs) /\ \A leg \in legs : leg.delta \in Int
    BY <1>1, LegsOfCoin, FS_Subset
  <1>3. Ints(f, legs)
    BY <1>2 DEF Ints
  <1>4. Net(filled, c) = SumFunctionOnSet(f, legs)
    BY DEF Net, Total
  <1>5. c \notin Traded => legs = {}
    BY <1>1, LegsOfCoin
  <1>. HIDE DEF legs, f
  <1>. QED
    BY <1>2, <1>3, <1>4, <1>5, SumFirst

LEMMA NetOfOrders ==
  ASSUME TypeOK, NEW c \in Traded
  PROVE  Net(orders, c) = LegSum(pos[c], target_sizes[c], px[c], MIN_NOTIONAL_USD)
  <1>. DEFINE p == pos[c]
              s == target_sizes[c]
              P == px[c]
              M == MIN_NOTIONAL_USD
              f == [leg \in SentOf(c) |-> leg.delta]
              a == CloseLeg(c)
              b == OpenLeg(c, s)
              o == OneLeg(c, s)
  <1>1. c \in Coins /\ p \in Int /\ s \in Int
    BY Sets, Scaling DEF TypeOK
  <1>2. Net(orders, c) = SumFunctionOnSet(f, SentOf(c))
    BY DEF Net, Total, SentOf
  <1>3. SentOf(c) = {leg \in Legs(c, s) : Enough(leg)}
    BY <1>1, LegsOfCoin
  <1>4. /\ a.delta = -p /\ b.delta = s /\ o.delta = s - p
        /\ Enough(a) <=> Abs(-p) * P >= M
        /\ Enough(b) <=> Abs(s) * P >= M
        /\ Enough(o) <=> Abs(s - p) * P >= M
        /\ a # b
    BY DEF CloseLeg, OpenLeg, OneLeg, Enough
  <1>5. Legs(c, s) = IF s * p < 0 THEN {a, b} ELSE {o}
    BY DEF Legs, CloseLeg, OpenLeg, OneLeg
  <1>6. \A leg \in SentOf(c) : f[leg] = leg.delta
    OBVIOUS
  <1>7. Ints(f, SentOf(c)) /\ IsFiniteSet(SentOf(c))
    BY <1>1, <1>6, LegsOfCoin DEF Ints
  <1>. HIDE DEF f, p, s, P, a, b, o
  <1>8. CASE ~ (s * p < 0)
    <2>1. SentOf(c) = IF Abs(s - p) * P >= M THEN {o} ELSE {}
      BY <1>3, <1>4, <1>5, <1>8
    <2>2. CASE Abs(s - p) * P >= M
      <3>1. SentOf(c) = {o} /\ f[o] = s - p
        BY <1>4, <1>6, <2>1, <2>2
      <3>2. SumFunctionOnSet(f, SentOf(c))
               = f[o] + SumFunctionOnSet(f, SentOf(c) \ {o})
        BY <1>7, <3>1, SumRemove
      <3>3. SentOf(c) \ {o} = {}
        BY <3>1
      <3>4. SumFunctionOnSet(f, SentOf(c) \ {o}) = 0
        <4>1. Ints(f, {}) /\ IsFiniteSet({})
          BY FS_EmptySet DEF Ints
        <4>. QED
          BY <3>3, <4>1, SumFirst
      <3>. QED
        BY <1>1, <1>2, <1>8, <2>2, <3>1, <3>2, <3>4 DEF p, s, P, LegSum
    <2>3. CASE ~ (Abs(s - p) * P >= M)
      <3>1. SumFunctionOnSet(f, SentOf(c)) = 0
        BY <1>7, <2>1, <2>3, SumFirst
      <3>. QED
        BY <1>2, <1>8, <2>3, <3>1 DEF p, s, P, LegSum
    <2>. QED
      BY <2>2, <2>3
  <1>9. CASE s * p < 0
    <2>1. SentOf(c) = (IF Abs(-p) * P >= M THEN {a} ELSE {})
                      \union (IF Abs(s) * P >= M THEN {b} ELSE {})
      BY <1>3, <1>4, <1>5, <1>9
    <2>. DEFINE g == [leg \in {a, b} |-> leg.delta]
    <2>2. /\ g[a] = -p /\ g[b] = s /\ g[a] \in Int /\ g[b] \in Int
      BY <1>1, <1>4
    <2>3. \A leg \in SentOf(c) : f[leg] = g[leg]
      BY <1>6, <2>1
    <2>. HIDE DEF g
    <2>4. SumFunctionOnSet(f, SentOf(c)) = SumFunctionOnSet(g, SentOf(c))
      BY <1>7, <2>3, SumSame
    <2>5. /\ SumFunctionOnSet(g, {}) = 0
          /\ SumFunctionOnSet(g, {a}) = -p
          /\ SumFunctionOnSet(g, {b}) = s
          /\ SumFunctionOnSet(g, {a, b}) = -p + s
      <3>1. /\ SumFunctionOnSet(g, {}) = 0
            /\ SumFunctionOnSet(g, {a}) = g[a]
            /\ SumFunctionOnSet(g, {a, b}) = g[a] + g[b]
        BY <1>4, <2>2, SumPair
      <3>2. SumFunctionOnSet(g, {b}) = g[b]
        BY <1>4, <2>2, SumPair
      <3>. QED
        BY <2>2, <3>1, <3>2
    <2>6. SumFunctionOnSet(g, SentOf(c)) =
             (IF Abs(-p) * P >= M THEN -p ELSE 0)
             + (IF Abs(s) * P >= M THEN s ELSE 0)
      <3>1. SentOf(c) = IF Abs(-p) * P >= M
                           THEN (IF Abs(s) * P >= M THEN {a, b} ELSE {a})
                           ELSE (IF Abs(s) * P >= M THEN {b} ELSE {})
        BY <2>1
      <3>2. CASE Abs(-p) * P >= M /\ Abs(s) * P >= M
        BY <1>1, <2>5, <3>1, <3>2
      <3>3. CASE Abs(-p) * P >= M /\ ~ (Abs(s) * P >= M)
        BY <1>1, <2>5, <3>1, <3>3
      <3>4. CASE ~ (Abs(-p) * P >= M) /\ Abs(s) * P >= M
        BY <1>1, <2>5, <3>1, <3>4
      <3>5. CASE ~ (Abs(-p) * P >= M) /\ ~ (Abs(s) * P >= M)
        BY <1>1, <2>5, <3>1, <3>5
      <3>. QED
        BY <3>2, <3>3, <3>4, <3>5
    <2>. QED
      BY <1>2, <1>9, <2>4, <2>6 DEF p, s, P, LegSum
  <1>. QED
    BY <1>8, <1>9

-----------------------------------------------------------------------------
(***************************************************************************)
(* Fills.                                                                  *)
(***************************************************************************)
LEMMA FillTypes ==
  ASSUME TypeOK, NEW filled, filled \subseteq orders, Fill(filled)
  PROVE  /\ pos' \in [Coins -> Int] /\ cash' \in Int
         /\ \A c \in Coins : pos'[c] = pos[c] + Net(filled, c)
         /\ \A c \in Coins \ Traded : pos'[c] = pos[c]
  <1>. DEFINE paid == [c \in Coins |-> Net(filled, c) * px[c]]
  <1>1. ASSUME NEW c \in Coins
        PROVE  /\ pos[c] + Net(filled, c) \in Int
               /\ Net(filled, c) * px[c] \in Int
               /\ c \notin Traded => pos[c] + Net(filled, c) = pos[c]
    <2>1. pos[c] \in Int /\ px[c] \in Int
      BY DEF TypeOK
    <2>. QED
      BY <2>1, NetTypes
  <1>2. Ints(paid, Coins)
    BY <1>1 DEF Ints
  <1>. HIDE DEF paid
  <1>3. SumFunctionOnSet(paid, Coins) \in Int
    BY <1>2, Sets, SumFirst
  <1>4. cash' = cash - SumFunctionOnSet(paid, Coins) /\ cash \in Int
    BY DEF Fill, Total, paid, TypeOK
  <1>. QED
    BY <1>1, <1>3, <1>4 DEF Fill

\* What is bought is paid for: fills at the mark leave the equity alone.
LEMMA FillEquity ==
  ASSUME TypeOK, NEW filled, filled \subseteq orders, Fill(filled),
         UNCHANGED <<px, marked>>
  PROVE  equity' = equity
  <1>. DEFINE value == [c \in Coins |-> pos[c] * px[c]]
              after == [c \in Coins |-> pos'[c] * px[c]]
              paid == [c \in Coins |-> Net(filled, c) * px[c]]
  <1>1. ASSUME NEW c \in Coins
        PROVE  /\ value[c] \in Int /\ paid[c] \in Int
               /\ after[c] = 1 * value[c] + 1 * paid[c]
               /\ c \notin Traded => paid[c] = 0
    <2>1. pos[c] \in Int /\ px[c] \in Int /\ Net(filled, c) \in Int
      BY NetTypes DEF TypeOK
    <2>2. pos'[c] = pos[c] + Net(filled, c)
      BY FillTypes
    <2>3. c \notin Traded => Net(filled, c) = 0
      BY NetTypes
    <2>4. (pos[c] + Net(filled, c)) * px[c]
             = pos[c] * px[c] + Net(filled, c) * px[c]
      BY <2>1
    <2>. QED
      BY <2>1, <2>2, <2>3, <2>4
  <1>2. /\ equity = cash + SumFunctionOnSet(value, Valued)
        /\ cash' = cash - SumFunctionOnSet(paid, Coins)
    BY DEF equity, Total, Fill
  <1>3. equity' = cash' + SumFunctionOnSet(after, Valued)
    <2>1. Valued' = Valued
      BY DEF Valued
    <2>2. equity' = cash' + SumFunctionOnSet([c \in Coins |-> pos'[c] * px'[c]],
                                             Valued')
      BY DEF equity, Total
    <2>. QED
      BY <2>1, <2>2
  <1>. HIDE DEF value, after, paid
  <1>4. /\ IsFiniteSet(Coins) /\ IsFiniteSet(Valued)
        /\ Valued \in SUBSET Coins /\ Traded \subseteq Valued
    BY Sets
  <1>5. Ints(value, Valued) /\ Ints(paid, Valued) /\ Ints(paid, Coins)
    BY <1>1, <1>4 DEF Ints
  <1>6. SumFunctionOnSet(after, Valued)
           = 1 * SumFunctionOnSet(value, Valued) + 1 * SumFunctionOnSet(paid, Valued)
    <2>1. \A c \in Valued : after[c] = 1 * value[c] + 1 * paid[c]
      BY <1>1, <1>4
    <2>. QED
      BY <1>4, <1>5, <2>1, SumLinear
  <1>7. SumFunctionOnSet(paid, Coins) = SumFunctionOnSet(paid, Valued)
    <2>1. \A c \in Coins \ Valued : paid[c] = 0
      BY <1>1, <1>4
    <2>. QED
      BY <1>4, <1>5, <2>1, SumNonzero
  <1>8. /\ SumFunctionOnSet(value, Valued) \in Int
        /\ SumFunctionOnSet(paid, Valued) \in Int /\ cash \in Int
    BY <1>4, <1>5, SumFirst DEF TypeOK
  <1>. QED
    BY <1>2, <1>3, <1>6, <1>7, <1>8

\* A coin after its legs, all of them filled.
LEMMA CoinAfter ==
  ASSUME TypeOK, Fill(orders), NEW c \in Traded
  PROVE  Reached(pos'[c], target_sizes[c], px[c], MIN_NOTIONAL_USD)
  <1>1. /\ c \in Coins /\ pos[c] \in Int /\ target_sizes[c] \in Int
        /\ px[c] \in Nat \ {0} /\ Net(orders, c) \in Int
        /\ MIN_NOTIONAL_USD \in Nat \ {0}
    BY Sets, Scaling, Bounds, NetTypes DEF TypeOK
  <1>2. Net(orders, c)
           = LegSum(pos[c], target_sizes[c], px[c], MIN_NOTIONAL_USD)
    BY NetOfOrders
  <1>3. Reached(pos[c] + Net(orders, c), target_sizes[c], px[c], MIN_NOTIONAL_USD)
    BY <1>1, <1>2, CoinArithmetic
  <1>4. pos'[c] = pos[c] + Net(orders, c)
    BY <1>1, FillTypes
  <1>. QED
    BY <1>3, <1>4, Zenon

-----------------------------------------------------------------------------
(***************************************************************************)
(* What plan has checked when it does not raise, and the ratchet when it   *)
(* does not fire.                                                          *)
(***************************************************************************)
LEMMA Cancel ==
  ASSUME NEW a \in Nat \ {0}, NEW b \in Int, NEW e \in Int, a * b <= a * e
  PROVE  b <= e
  <1>1. SUFFICES ASSUME b >= e + 1
                 PROVE  FALSE
    OBVIOUS
  <1>2. (e + 1) * a <= b * a
    BY <1>1, Monotone
  <1>3. (e + 1) * a = a * e + a /\ b * a = a * b /\ a * e \in Int
    OBVIOUS
  <1>. QED
    BY <1>2, <1>3

LEMMA FrozenExposure ==
  ASSUME TypeOK
  PROVE  Exposure(frozen) = frozen_live_notional
  <1>. DEFINE f == [c \in Coins |-> Abs(pos[c]) * px[c]]
              g == [c \in frozen \intersect marked |-> Abs(pos[c]) * px[c]]
              S == frozen \intersect marked
  <1>1. S \subseteq Coins /\ \A c \in S : pos[c] \in Int
    BY DEF TypeOK
  <1>2. IsFiniteSet(S) /\ \A c \in S : Abs(pos[c]) * px[c] \in Nat
    BY <1>1, GrossNat
  <1>3. Ints(f, S) /\ \A c \in S : f[c] = g[c]
    BY <1>1, <1>2 DEF Ints
  <1>4. /\ Exposure(frozen) = SumFunctionOnSet(f, S)
        /\ frozen_live_notional = SumFunctionOnSet(g, S)
    BY DEF Exposure, frozen_live_notional, Gross, Total
  <1>. HIDE DEF f, g, S
  <1>. QED
    BY <1>2, <1>3, <1>4, SumSame

\* Scaled sizes take no more than the headroom: the floors only lose.
LEMMA ScaledGross ==
  ASSUME TypeOK, Scales
  PROVE  W * Gross(target_sizes, Traded) <= Headroom
  <1>. DEFINE raw == [c \in Traded |-> Abs(raw_target_sizes[c]) * px[c]]
              scaled == [c \in Traded |-> Abs(target_sizes[c]) * px[c]]
              d == W * TradedGross
  <1>1. /\ d \in Nat \ {0} /\ Headroom \in Nat /\ TradedGross \in Nat \ {0}
        /\ TradedGross = SumFunctionOnSet(raw, Traded)
    BY Scaling DEF TradedGross, Gross, Total, Scales
  <1>2. Gross(target_sizes, Traded) = SumFunctionOnSet(scaled, Traded)
    BY DEF Gross, Total
  <1>3. ASSUME NEW c \in Traded
        PROVE  /\ raw[c] \in Nat /\ scaled[c] \in Nat
               /\ d * scaled[c] <= Headroom * raw[c]
    <2>1. /\ c \in Coins /\ raw_target_sizes[c] \in Int /\ px[c] \in Nat
          /\ target_sizes[c] = _floor_size_signed(
                                  raw_target_sizes[c] * Headroom, d)
          /\ target_sizes[c] \in Int
      BY Sets, Scaling, RawTypes DEF TypeOK
    <2>. DEFINE r == raw_target_sizes[c]
                q == target_sizes[c]
                p == px[c]
    <2>2. r * Headroom \in Int /\ Abs(r * Headroom) = Abs(r) * Headroom
      BY <1>1, <2>1, AbsProduct
    <2>3. Abs(q) * d <= Abs(r * Headroom)
      BY <1>1, <2>1, <2>2, Floored
    <2>4. Abs(q) \in Nat /\ Abs(r) \in Nat
      BY <2>1, AbsFacts
    <2>. HIDE DEF r, q, p, d
    <2>5. (Abs(q) * d) * p <= (Abs(r) * Headroom) * p
      BY <1>1, <2>1, <2>2, <2>3, <2>4, Monotone DEF p
    <2>6. /\ (Abs(q) * d) * p = d * (Abs(q) * p)
          /\ (Abs(r) * Headroom) * p = Headroom * (Abs(r) * p)
          /\ Abs(q) * p \in Nat /\ Abs(r) * p \in Nat
      BY <1>1, <2>1, <2>4 DEF p
    <2>. QED
      BY <2>5, <2>6 DEF r, q, p
  <1>4. IsFiniteSet(Traded) /\ Ints(raw, Traded) /\ Ints(scaled, Traded)
    BY <1>3, Sets DEF Ints
  <1>. DEFINE lhs == [c \in Traded |-> d * scaled[c]]
              rhs == [c \in Traded |-> Headroom * raw[c]]
  <1>5. /\ \A c \in Traded : lhs[c] = d * scaled[c]
        /\ \A c \in Traded : rhs[c] = Headroom * raw[c]
        /\ d \in Int /\ Headroom \in Int
    BY <1>1
  <1>. HIDE DEF raw, scaled, d, lhs, rhs
  <1>6. SumFunctionOnSet(lhs, Traded) = d * SumFunctionOnSet(scaled, Traded)
    BY <1>4, <1>5, SumTimes
  <1>7. SumFunctionOnSet(rhs, Traded) = Headroom * SumFunctionOnSet(raw, Traded)
    BY <1>4, <1>5, SumTimes
  <1>8. SumFunctionOnSet(lhs, Traded) <= SumFunctionOnSet(rhs, Traded)
    <2>1. \A c \in Traded : lhs[c] \in Int /\ rhs[c] \in Int /\ lhs[c] <= rhs[c]
      BY <1>1, <1>3, <1>5
    <2>. QED
      BY <1>4, <2>1, SumMonotone DEF Ints
  <1>. DEFINE G == SumFunctionOnSet(scaled, Traded)
              T == TradedGross
  <1>9. G \in Int
    BY <1>4, SumFirst
  <1>. HIDE DEF G
  <1>10. d * G <= Headroom * T
    BY <1>1, <1>6, <1>7, <1>8 DEF G
  <1>11. d * G = T * (W * G) /\ Headroom * T = T * Headroom /\ W * G \in Int
    BY <1>1, <1>9, Bounds DEF d
  <1>. HIDE DEF T
  <1>12. W * G <= Headroom
    BY <1>1, <1>10, <1>11, Cancel DEF T
  <1>. QED
    BY <1>2, <1>12 DEF G

LEMMA RaisedByFrozen ==
  ASSUME TypeOK, SizerError
  PROVE  W * Exposure(frozen) > cap
  <1>. DEFINE F == frozen_live_notional
              T == TradedGross
              G == Gross(target_sizes, Traded)
  <1>1. /\ F \in Nat /\ T \in Nat /\ G \in Nat /\ cap \in Int
        /\ W \in Nat \ {0} /\ F = Exposure(frozen)
    <2>1. \A c \in Traded : target_sizes[c] \in Int /\ c \in Coins
      BY Sets, Scaling
    <2>. QED
      BY <2>1, Sets, FrozenNat, Scaling, GrossNat, EquityType, FrozenExposure,
         Bounds
  <1>2. W * (G + F) > cap
    BY DEF SizerError, post_gross
  <1>3. SUFFICES ASSUME ~ (W * F > cap)
                 PROVE  FALSE
    BY <1>1
  <1>4. CASE Scales
    <2>1. W * G <= Headroom
      BY <1>4, ScaledGross
    <2>2. W * F \in Int /\ Headroom = cap - W * F
      BY <1>1, <1>3 DEF Headroom, Larger
    <2>. HIDE DEF F, G
    <2>3. W * (G + F) = W * G + W * F /\ W * G \in Int
      BY <1>1
    <2>. QED
      BY <1>1, <1>2, <2>1, <2>2, <2>3
  <1>5. CASE ~ Scales
    <2>1. G = T
      BY <1>5, Scaling DEF TradedGross
    <2>2. W * (T + F) <= cap \/ T = 0
      BY <1>1, <1>5 DEF Scales
    <2>. HIDE DEF F, G, T
    <2>. QED
      BY <1>1, <1>2, <1>3, <2>1, <2>2
  <1>. QED
    BY <1>4, <1>5

\* The distance of a coin from its target that StaysNearTarget allows.
Near(c) ==
    Abs(target[c] * equity - achieved(c))
        < Larger(2 * threshold * equity, W * (px[c] + 2 * MIN_NOTIONAL_USD))

LEMMA HeldIsNear ==
  ASSUME TypeOK, ~rebalance, NEW c \in marked \ (frozen \union blocked)
  PROVE  Near(c)
  <1>1. c \in Compared /\ c \in DriftUnion /\ effective_weights[c] = target[c]
    BY DEF Compared, DriftUnion, effective_weights, TypeOK
  <1>2. ~ (Abs(effective_weights[c] * equity - achieved(c))
              >= 2 * threshold * equity)
    BY <1>1 DEF rebalance, abs_drift_reached
  <1>3. /\ effective_weights[c] * equity - achieved(c) \in Int
        /\ 2 * threshold * equity \in Int
        /\ W * (px[c] + 2 * MIN_NOTIONAL_USD) \in Int
    <2>1. /\ target[c] \in Int /\ pos[c] \in Int /\ px[c] \in Int
          /\ equity \in Int /\ W \in Int /\ MIN_NOTIONAL_USD \in Int
          /\ threshold \in Int
      BY Bounds, EquityType DEF TypeOK
    <2>2. achieved(c) \in Int
      BY <2>1 DEF achieved
    <2>3. target[c] * equity \in Int /\ W * (px[c] + 2 * MIN_NOTIONAL_USD) \in Int
          /\ 2 * threshold * equity \in Int
      BY <2>1
    <2>. QED
      BY <1>1, <2>2, <2>3
  <1>4. Abs(effective_weights[c] * equity - achieved(c)) \in Int
    BY <1>3, AbsFacts
  <1>. QED
    BY <1>1, <1>2, <1>3, <1>4 DEF Near, Larger

\* What Plan finds, in the state it leads to.
PlanChecked ==
    /\ SizerError => W * Exposure(frozen) > cap
    /\ ~rebalance => \A c \in marked \ (frozen \union blocked) : Near(c)

LEMMA PlanChecks ==
  TypeOK => PlanChecked
  BY RaisedByFrozen, HeldIsNear DEF PlanChecked

-----------------------------------------------------------------------------
(***************************************************************************)
(* A clean execution.                                                      *)
(***************************************************************************)

\* Everything plan computes with, but for the positions of the traded coins,
\* is what it was.
LEMMA CleanKeeps ==
  ASSUME TypeOK, Fill(orders), UNCHANGED <<px, marked, inputs>>
  PROVE  /\ equity' = equity /\ cap' = cap /\ Traded' = Traded
         /\ effective_weights' = effective_weights
         /\ raw_target_sizes' = raw_target_sizes
         /\ frozen_live_notional' = frozen_live_notional
         /\ Exposure(frozen)' = Exposure(frozen)
         /\ target_sizes' = target_sizes
  <1>1. equity' = equity
    BY FillEquity
  <1>2. cap' = cap
    BY <1>1 DEF cap
  <1>3. /\ px' = px /\ marked' = marked /\ target' = target /\ frozen' = frozen
        /\ blocked' = blocked
    BY DEF inputs
  <1>4. Traded' = Traded
    BY <1>3 DEF Traded
  <1>5. effective_weights' = effective_weights
    BY <1>3 DEF effective_weights
  <1>6. raw_target_sizes' = raw_target_sizes
    BY <1>1, <1>3, <1>4, <1>5 DEF raw_target_sizes
  <1>. DEFINE S == frozen \intersect marked
  <1>7. \A c \in S : pos'[c] = pos[c]
    BY FillTypes DEF Traded, TypeOK
  <1>8. frozen_live_notional' = frozen_live_notional
    <2>1. [c \in S |-> Abs(pos'[c]) * px[c]] = [c \in S |-> Abs(pos[c]) * px[c]]
      BY <1>7
    <2>2. frozen_live_notional'
             = Total([c \in S |-> Abs(pos'[c]) * px[c]], S)
      BY <1>3 DEF frozen_live_notional, Gross, Total
    <2>. QED
      BY <2>1, <2>2 DEF frozen_live_notional, Gross
  <1>9. Exposure(frozen)' = Exposure(frozen)
    <2>. DEFINE f == [c \in Coins |-> Abs(pos[c]) * px[c]]
                g == [c \in Coins |-> Abs(pos'[c]) * px[c]]
    <2>1. S \subseteq Coins /\ \A c \in S : pos[c] \in Int
      BY DEF TypeOK
    <2>. HIDE DEF S
    <2>2. IsFiniteSet(S) /\ \A c \in S : Abs(pos[c]) * px[c] \in Nat
      BY <2>1, GrossNat
    <2>3. Ints(f, S) /\ \A c \in S : f[c] = g[c]
      BY <1>7, <2>1, <2>2 DEF Ints
    <2>4. /\ Exposure(frozen) = SumFunctionOnSet(f, S)
          /\ Exposure(frozen)' = SumFunctionOnSet(g, S)
      BY <1>3 DEF Exposure, Total, S
    <2>. HIDE DEF f, g
    <2>. QED
      BY <2>2, <2>3, <2>4, SumSame
  <1>10. Gross(raw_target_sizes, Traded)' = Gross(raw_target_sizes, Traded)
    BY <1>3, <1>4, <1>6 DEF Gross
  <1>11. target_sizes' = target_sizes
    BY <1>2, <1>4, <1>6, <1>8, <1>10 DEF target_sizes
  <1>. QED
    BY <1>1, <1>2, <1>4, <1>5, <1>6, <1>8, <1>9, <1>11

\* The sizes fit the cap, and the coins end within a minimum order of them.
LEMMA CleanCap ==
  ASSUME TypeOK, ~SizerError, Fill(orders), UNCHANGED <<px, marked, inputs>>
  PROVE  (W * Exposure(Coins)
             <= cap + W * Cardinality(Coins) * (MIN_NOTIONAL_USD - 1))'
  <1>. DEFINE M == MIN_NOTIONAL_USD
              rest == frozen \intersect marked
              after == [c \in Coins |-> Abs(pos'[c]) * px[c]]
              sized == [c \in Traded |-> Abs(target_sizes[c]) * px[c]]
              small == [c \in Traded |-> M - 1]
              held == [c \in rest |-> Abs(pos[c]) * px[c]]
              bound == [c \in Traded |-> 1 * sized[c] + 1 * small[c]]
  <1>1. /\ cap' = cap /\ px' = px /\ marked' = marked
        /\ IsFiniteSet(Coins) /\ IsFiniteSet(Traded) /\ IsFiniteSet(marked)
        /\ Traded \subseteq marked /\ Traded \subseteq Coins
        /\ marked \in SUBSET Coins
        /\ rest \subseteq Coins /\ marked \ Traded = rest
        /\ M \in Nat \ {0} /\ M - 1 \in Int /\ W \in Nat \ {0}
    BY CleanKeeps, Sets, Bounds DEF TypeOK, Traded
  <1>2. Exposure(Coins)' = SumFunctionOnSet(after, marked)
    <2>1. Coins \intersect marked = marked
      BY <1>1
    <2>2. Exposure(Coins)' = SumFunctionOnSet(after, Coins \intersect marked)
      BY <1>1 DEF Exposure, Total
    <2>. QED
      BY <2>1, <2>2
  <1>3. ASSUME NEW c \in Coins
        PROVE  after[c] \in Nat /\ after[c] = Abs(pos'[c]) * px[c]
    <2>1. Abs(pos'[c]) \in Nat /\ px[c] \in Nat
      BY FillTypes, AbsFacts DEF TypeOK
    <2>. QED
      BY <2>1
  <1>4. ASSUME NEW c \in Traded
        PROVE  /\ sized[c] \in Nat /\ small[c] = M - 1
               /\ sized[c] = Abs(target_sizes[c]) * px[c]
               /\ bound[c] = 1 * sized[c] + 1 * small[c]
               /\ bound[c] \in Int
               /\ after[c] <= bound[c]
    <2>1. c \in Coins /\ target_sizes[c] \in Int /\ px[c] \in Nat
      BY <1>1, Scaling DEF TypeOK
    <2>2. Abs(target_sizes[c]) \in Nat
      BY <2>1, AbsFacts
    <2>3. sized[c] \in Nat /\ sized[c] = Abs(target_sizes[c]) * px[c]
      BY <2>1, <2>2
    <2>4. Abs(pos'[c]) * px[c] <= Abs(target_sizes[c]) * px[c] + (M - 1)
      BY CoinAfter DEF Reached
    <2>5. after[c] = Abs(pos'[c]) * px[c]
      BY <1>3, <2>1
    <2>. HIDE DEF after, sized
    <2>6. bound[c] = sized[c] + (M - 1) /\ bound[c] \in Int
      BY <1>1, <2>3
    <2>. QED
      BY <1>1, <2>3, <2>4, <2>5, <2>6
  <1>5. ASSUME NEW c \in rest
        PROVE  held[c] = after[c]
    <2>1. c \in Coins \ Traded
      BY <1>1 DEF Traded
    <2>. QED
      BY <2>1, FillTypes
  <1>6. Gross(target_sizes, Traded) = SumFunctionOnSet(sized, Traded)
    BY DEF Gross, Total
  <1>7. frozen_live_notional = SumFunctionOnSet(held, rest)
    BY DEF frozen_live_notional, Gross, Total
  <1>. HIDE DEF after, sized, small, held, bound, rest
  <1>8. /\ Ints(after, marked) /\ Ints(after, Traded) /\ Ints(after, rest)
        /\ Ints(sized, Traded) /\ Ints(small, Traded) /\ Ints(bound, Traded)
        /\ IsFiniteSet(rest)
    BY <1>1, <1>3, <1>4, FS_Subset DEF Ints
  <1>9. SumFunctionOnSet(after, marked)
           = SumFunctionOnSet(after, Traded) + SumFunctionOnSet(after, rest)
    BY <1>1, <1>8, SumSplit
  <1>10. SumFunctionOnSet(after, rest) = frozen_live_notional
    BY <1>5, <1>7, <1>8, SumSame
  <1>11. SumFunctionOnSet(after, Traded) <= SumFunctionOnSet(bound, Traded)
    BY <1>1, <1>4, <1>8, SumMonotone
  <1>12. SumFunctionOnSet(bound, Traded)
            = 1 * SumFunctionOnSet(sized, Traded)
              + 1 * SumFunctionOnSet(small, Traded)
    <2>1. \A c \in Traded : bound[c] = 1 * sized[c] + 1 * small[c]
      BY <1>4
    <2>. QED
      BY <1>1, <1>8, <2>1, SumLinear
  <1>13. SumFunctionOnSet(small, Traded) = (M - 1) * Cardinality(Traded)
    BY <1>1, <1>4, SumConstant
  <1>14. Cardinality(Traded) \in Nat /\ Cardinality(Coins) \in Nat
         /\ Cardinality(Traded) <= Cardinality(Coins)
    BY <1>1, FS_Subset, FS_CardinalityType
  <1>. DEFINE E == SumFunctionOnSet(after, marked)
              A == SumFunctionOnSet(after, Traded)
              G == SumFunctionOnSet(sized, Traded)
              F == frozen_live_notional
              B == SumFunctionOnSet(bound, Traded)
              s == SumFunctionOnSet(small, Traded)
              T == Cardinality(Traded)
              C == Cardinality(Coins)
  <1>15. A \in Int /\ G \in Int /\ B \in Int /\ F \in Int /\ cap \in Int
    <2>1. A \in Int
      BY <1>1, <1>8, SumFirst
    <2>2. G \in Int
      BY <1>1, <1>8, SumFirst
    <2>3. B \in Int
      BY <1>1, <1>8, SumFirst
    <2>. QED
      BY <2>1, <2>2, <2>3, FrozenNat, EquityType
  <1>16. ~ (W * (G + F) > cap)
    BY <1>6 DEF SizerError, post_gross
  <1>17. E = A + F /\ A <= B /\ B = 1 * G + 1 * s /\ s = (M - 1) * T
    BY <1>9, <1>10, <1>11, <1>12, <1>13
  <1>18. T \in Nat /\ C \in Nat /\ T <= C
    BY <1>14
  <1>. HIDE DEF E, A, G, F, B, s, T, C, M
  <1>19. (M - 1) * T <= C * (M - 1) /\ (M - 1) * T \in Int /\ C * (M - 1) \in Int
    BY <1>1, <1>18, Monotone
  <1>20. E <= (G + F) + C * (M - 1) /\ E \in Int
    BY <1>15, <1>17, <1>19
  <1>21. E * W <= ((G + F) + C * (M - 1)) * W
    BY <1>1, <1>15, <1>19, <1>20, Monotone
  <1>22. /\ ((G + F) + C * (M - 1)) * W = W * (G + F) + W * C * (M - 1)
         /\ E * W = W * E
         /\ W * (G + F) \in Int /\ W * C * (M - 1) \in Int
    BY <1>1, <1>15, <1>18, <1>20
  <1>23. W * E <= cap + W * C * (M - 1)
    <2>. DEFINE X == W * (G + F)
                Y == W * C * (M - 1)
                Z == W * E
    <2>1. X \in Int /\ Y \in Int /\ Z \in Int /\ ~ (X > cap)
      BY <1>1, <1>16, <1>20, <1>22
    <2>2. Z <= X + Y
      BY <1>21, <1>22
    <2>. HIDE DEF X, Y, Z
    <2>3. Z <= cap + Y
      BY <1>15, <2>1, <2>2
    <2>. QED
      BY <2>3 DEF Y, Z
  <1>. QED
    BY <1>1, <1>2, <1>23 DEF E, C, M

\* A target within the cap is not scaled: the floors only lose, and the traded
\* coins are some of the coins.
LEMMA FitsIsNotScaled ==
  ASSUME TypeOK, equity > 0, FitsCap
  PROVE  ~ Scales
  <1>. DEFINE raw == [c \in Traded |-> Abs(raw_target_sizes[c]) * px[c]]
              wide == [c \in Traded |-> W * raw[c]]
              weight == [c \in Coins |-> Abs(target[c])]
              dollars == [c \in Coins |-> equity * weight[c]]
              E == equity
  <1>1. /\ IsFiniteSet(Coins) /\ IsFiniteSet(Traded) /\ Traded \in SUBSET Coins
        /\ E \in Nat /\ W \in Nat
    BY Sets, EquityType, Bounds
  <1>2. ASSUME NEW c \in Coins
        PROVE  /\ weight[c] \in Nat /\ weight[c] = Abs(target[c])
               /\ dollars[c] = E * weight[c] /\ dollars[c] \in Nat
    <2>1. Abs(target[c]) \in Nat
      BY AbsFacts, Bounds DEF TypeOK
    <2>2. weight[c] = Abs(target[c])
      OBVIOUS
    <2>. HIDE DEF weight
    <2>. QED
      BY <1>1, <2>1, <2>2
  <1>3. ASSUME NEW c \in Traded
        PROVE  /\ raw[c] \in Int /\ wide[c] = W * raw[c] /\ wide[c] \in Int
               /\ wide[c] <= dollars[c]
    <2>. DEFINE x == effective_weights[c]
                r == raw_target_sizes[c]
                p == px[c]
    <2>1. /\ c \in Coins /\ x \in Int /\ r \in Int /\ p \in Nat
          /\ W * p \in Nat \ {0}
          /\ r = _floor_size_signed(x * E, W * p)
      BY <1>1, RawTypes DEF raw_target_sizes
    <2>2. Abs(x) <= Abs(target[c]) /\ Abs(x) \in Nat /\ Abs(target[c]) \in Nat
      <3>1. target[c] \in Int
        BY <2>1, Bounds DEF TypeOK
      <3>2. x = target[c] \/ x = 0
        BY <2>1 DEF effective_weights
      <3>. QED
        BY <3>1, <3>2, AbsFacts
    <2>3. raw[c] = Abs(r) * p /\ wide[c] = W * raw[c]
      OBVIOUS
    <2>4. dollars[c] = E * Abs(target[c])
      BY <1>2, <2>1
    <2>. HIDE DEF x, r, p, E, raw, wide, dollars
    <2>5. x * E \in Int /\ Abs(x * E) = Abs(x) * E
      BY <1>1, <2>1, AbsProduct
    <2>6. Abs(r) * (W * p) <= Abs(x) * E /\ Abs(r) \in Nat
      BY <2>1, <2>5, Floored, AbsFacts
    <2>7. Abs(x) * E <= Abs(target[c]) * E
      BY <1>1, <2>2, Monotone
    <2>8. /\ Abs(r) * (W * p) = W * raw[c] /\ raw[c] \in Int /\ W * raw[c] \in Int
          /\ Abs(target[c]) * E = E * Abs(target[c]) /\ Abs(x) * E \in Int
          /\ E * Abs(target[c]) \in Int
      BY <1>1, <2>1, <2>2, <2>3, <2>6
    <2>. QED
      BY <2>3, <2>4, <2>6, <2>7, <2>8
  <1>4. /\ TradedGross = SumFunctionOnSet(raw, Traded)
        /\ Total([c \in Coins |-> Abs(target[c])], Coins)
              = SumFunctionOnSet(weight, Coins)
    BY DEF TradedGross, Gross, Total
  <1>. HIDE DEF raw, wide, weight, dollars, E
  <1>5. /\ Ints(raw, Traded) /\ Ints(wide, Traded) /\ Ints(dollars, Traded)
        /\ Ints(weight, Coins)
    BY <1>1, <1>2, <1>3 DEF Ints
  <1>6. SumFunctionOnSet(wide, Traded) = W * SumFunctionOnSet(raw, Traded)
    <2>1. \A c \in Traded : wide[c] = W * raw[c]
      BY <1>3
    <2>2. W \in Int
      BY <1>1
    <2>. QED
      BY <1>1, <1>5, <2>1, <2>2, SumTimes
  <1>7. SumFunctionOnSet(dollars, Coins) = E * SumFunctionOnSet(weight, Coins)
    <2>1. \A c \in Coins : dollars[c] = E * weight[c]
      BY <1>2
    <2>2. E \in Int
      BY <1>1
    <2>. QED
      BY <1>1, <1>5, <2>1, <2>2, SumTimes
  <1>8. SumFunctionOnSet(wide, Traded) <= SumFunctionOnSet(dollars, Traded)
    <2>1. \A c \in Traded : wide[c] <= dollars[c]
      BY <1>3
    <2>. QED
      BY <1>1, <1>5, <2>1, SumMonotone
  <1>9. SumFunctionOnSet(dollars, Traded) <= SumFunctionOnSet(dollars, Coins)
    <2>1. \A c \in Coins : dollars[c] \in Nat
      BY <1>2
    <2>. QED
      BY <1>1, <2>1, SumPart
  <1>10. SumFunctionOnSet(dollars, Traded) \in Int
    BY <1>1, <1>5, SumFirst
  <1>11. SumFunctionOnSet(weight, Coins) \in Int
    BY <1>1, <1>5, SumFirst
  <1>. DEFINE V == SumFunctionOnSet(weight, Coins)
              F == frozen_live_notional
              T == TradedGross
  <1>12. V * E + W * F <= cap
    BY <1>4, FrozenExposure DEF FitsCap, E
  <1>13. /\ V \in Int /\ F \in Int /\ T \in Int /\ cap \in Int
         /\ V * E \in Int /\ W * F \in Int /\ W * T \in Int
         /\ E * V = V * E /\ W * (T + F) = W * T + W * F
    <2>1. V \in Int /\ F \in Int /\ T \in Int /\ cap \in Int
      BY <1>11, FrozenNat, Scaling, EquityType
    <2>. HIDE DEF V, F, T
    <2>. QED
      BY <1>1, <2>1
  <1>14. W * T <= E * V
    BY <1>4, <1>6, <1>7, <1>8, <1>9, <1>10, <1>13
  <1>. HIDE DEF V, F, T
  <1>15. ~ (W * (T + F) > cap)
    <2>. DEFINE X == W * T
                Y == W * F
                Z == V * E
    <2>1. /\ X \in Int /\ Y \in Int /\ Z \in Int /\ X <= Z /\ Z + Y <= cap
          /\ W * (T + F) = X + Y
      BY <1>12, <1>13, <1>14
    <2>. HIDE DEF X, Y, Z
    <2>. QED
      BY <1>13, <2>1
  <1>. QED
    BY <1>15 DEF Scales, T, F

LEMMA CleanNear ==
  ASSUME TypeOK, equity > 0, Fill(orders), UNCHANGED <<px, marked, inputs>>,
         NEW c \in marked \ (frozen \union blocked),
         FitsCap \/ target[c] = 0
  PROVE  Near(c)'
  <1>. DEFINE t == target[c]
              E == equity
              p == px[c]
              s == target_sizes[c]
              q == pos'[c]
              M == MIN_NOTIONAL_USD
  <1>1. c \in Traded /\ c \in Coins /\ effective_weights[c] = t
    BY Sets DEF Traded, effective_weights, TypeOK
  <1>2. /\ t \in Int /\ E \in Nat \ {0} /\ p \in Nat \ {0} /\ s \in Int /\ q \in Int
        /\ W \in Nat \ {0} /\ M \in Nat \ {0} /\ W * p \in Nat \ {0} /\ t * E \in Int
        /\ threshold \in Int
    <2>1. /\ t \in Int /\ E \in Nat \ {0} /\ p \in Nat \ {0} /\ s \in Int
          /\ q \in Int /\ W \in Nat \ {0} /\ M \in Nat \ {0} /\ threshold \in Int
      BY <1>1, Bounds, EquityType, Scaling, FillTypes DEF TypeOK
    <2>. HIDE DEF t, E, p, s, q, M
    <2>. QED
      BY <2>1
  <1>3. raw_target_sizes[c] = _floor_size_signed(t * E, W * p)
    BY <1>1 DEF raw_target_sizes
  <1>4. s = raw_target_sizes[c]
    <2>1. CASE ~ Scales
      BY <2>1, Scaling
    <2>2. CASE Scales
      <3>1. t = 0
        BY <2>2, FitsIsNotScaled
      <3>2. t * E = 0
        BY <1>2, <3>1
      <3>3. raw_target_sizes[c] = 0
        BY <1>2, <1>3, <3>2, Floored
      <3>4. W * TradedGross \in Nat \ {0} /\ Headroom \in Nat
        BY <2>2, Scaling
      <3>5. raw_target_sizes[c] * Headroom = 0
        BY <3>3, <3>4
      <3>6. s = _floor_size_signed(raw_target_sizes[c] * Headroom, W * TradedGross)
        BY <1>1, <2>2, Scaling
      <3>7. s = 0
        <4>. DEFINE n == raw_target_sizes[c] * Headroom
                    d == W * TradedGross
        <4>1. n \in Int /\ n = 0 /\ d \in Nat \ {0} /\ s = _floor_size_signed(n, d)
          BY <3>4, <3>5, <3>6
        <4>. HIDE DEF n, d, s
        <4>. QED
          BY <4>1, Floored
      <3>. QED
        BY <3>3, <3>7
    <2>. QED
      BY <2>1, <2>2
  <1>5. Abs(q - s) * p <= 2 * (M - 1)
    BY <1>1, CoinAfter DEF Reached
  <1>6. /\ equity' = E /\ target'[c] = t /\ px'[c] = p
        /\ achieved(c)' = W * q * p
    <2>1. target' = target /\ px' = px /\ marked' = marked /\ c \in marked
      BY DEF inputs
    <2>. QED
      BY <2>1, CleanKeeps DEF achieved
  <1>. DEFINE a == t * E - s * (W * p)
              b == (q - s) * (W * p)
  <1>. HIDE DEF t, E, p, s, q, M
  <1>7. Abs(a) < W * p
    BY <1>2, <1>3, <1>4, Floored
  <1>8. a \in Int /\ b \in Int /\ q - s \in Int
    BY <1>2
  <1>9. Abs(b) = Abs(q - s) * (W * p) /\ Abs(q - s) \in Nat
    BY <1>2, <1>8, AbsProduct, AbsFacts
  <1>10. Abs(b) <= 2 * W * (M - 1)
    <2>. DEFINE y == Abs(q - s) * p
    <2>1. y \in Int /\ 2 * (M - 1) \in Int /\ y <= 2 * (M - 1)
      BY <1>2, <1>5, <1>9
    <2>2. Abs(b) = y * W
      BY <1>2, <1>9
    <2>. HIDE DEF y
    <2>3. y * W <= (2 * (M - 1)) * W
      BY <1>2, <2>1, Monotone
    <2>4. (2 * (M - 1)) * W = 2 * W * (M - 1)
      BY <1>2
    <2>. QED
      BY <2>2, <2>3, <2>4
  <1>11. t * E - W * q * p = a - b
    <2>1. /\ W * q * p = q * (W * p)
          /\ (q - s) * (W * p) = q * (W * p) - s * (W * p)
          /\ q * (W * p) \in Int /\ s * (W * p) \in Int
      BY <1>2
    <2>. QED
      BY <1>2, <2>1
  <1>. HIDE DEF a, b
  <1>12. Abs(a - b) <= Abs(a) + Abs(b) /\ Abs(a) \in Nat /\ Abs(b) \in Nat
         /\ Abs(a - b) \in Nat
    <2>1. Abs(a - b) <= Abs(a) + Abs(b)
      BY <1>8, Triangle
    <2>2. a - b \in Int
      BY <1>8
    <2>. QED
      BY <1>8, <2>1, <2>2, AbsFacts
  <1>13. W * (p + 2 * M) = W * p + 2 * W * (M - 1) + 2 * W /\ 2 * W * (M - 1) \in Int
    BY <1>2
  <1>14. Abs(a - b) < W * (p + 2 * M)
    BY <1>2, <1>7, <1>10, <1>12, <1>13
  <1>15. W * (p + 2 * M) \in Int /\ 2 * threshold * E \in Int
    BY <1>2
  <1>16. Abs(a - b) < Larger(2 * threshold * E, W * (p + 2 * M))
    BY <1>12, <1>14, <1>15 DEF Larger
  <1>17. Near(c)' <=> Abs(t * E - W * q * p)
                        < Larger(2 * threshold * E, W * (p + 2 * M))
    BY <1>6 DEF Near, M, Abs, Larger
  <1>. QED
    BY <1>11, <1>16, <1>17

\* No leg is left that is not too small to send.
LEMMA CleanReplan ==
  ASSUME TypeOK, Fill(orders), UNCHANGED <<px, marked, inputs>>
  PROVE  orders' = {}
  <1>1. Traded' = Traded /\ target_sizes' = target_sizes /\ px' = px
    BY CleanKeeps
  <1>2. orders' = {leg \in UNION {Legs(c, target_sizes[c])' : c \in Traded} :
                      Abs(leg.delta) * px[leg.coin] >= MIN_NOTIONAL_USD}
    BY <1>1 DEF orders, Legs, Abs
  <1>3. ASSUME NEW c \in Traded, NEW leg \in Legs(c, target_sizes[c])'
        PROVE  ~ (Abs(leg.delta) * px[leg.coin] >= MIN_NOTIONAL_USD)
    <2>. DEFINE s == target_sizes[c]
                q == pos'[c]
                p == px[c]
                M == MIN_NOTIONAL_USD
    <2>1. /\ s \in Int /\ q \in Int /\ p \in Nat /\ M \in Nat
          /\ Reached(q, s, p, M)
      BY Sets, Scaling, FillTypes, Bounds, CoinAfter DEF TypeOK
    <2>2. leg \in IF s * q < 0
                     THEN {[coin |-> c, delta |-> -q, close |-> TRUE],
                           [coin |-> c, delta |-> s, close |-> FALSE]}
                     ELSE {[coin |-> c, delta |-> s - q, close |-> FALSE]}
      BY <1>1 DEF Legs
    <2>3. leg.coin = c
      BY <2>2
    <2>. HIDE DEF s, q, M
    <2>4. Abs(-q) = Abs(q) /\ Abs(q) * p \in Int /\ Abs(s) * p \in Int
          /\ Abs(s - q) * p \in Int
      <3>1. Abs(-q) = Abs(q) /\ Abs(q) \in Nat /\ Abs(s) \in Nat
            /\ Abs(s - q) \in Nat
        BY <2>1, AbsFacts
      <3>. QED
        BY <2>1, <3>1
    <2>5. CASE s * q < 0
      <3>1. leg.delta = -q \/ leg.delta = s
        BY <2>2, <2>5
      <3>2. Abs(q) * p < M /\ Abs(s) * p < M
        BY <2>1, <2>5 DEF Reached
      <3>. QED
        BY <2>1, <2>3, <2>4, <3>1, <3>2 DEF M
    <2>6. CASE ~ (s * q < 0)
      <3>1. leg.delta = s - q
        BY <2>2, <2>6
      <3>2. Abs(s - q) * p < M
        BY <2>1, <2>6 DEF Reached
      <3>. QED
        BY <2>1, <2>3, <2>4, <3>1, <3>2 DEF M
    <2>. QED
      BY <2>5, <2>6
  <1>. QED
    BY <1>2, <1>3

-----------------------------------------------------------------------------
(***************************************************************************)
(* Types.                                                                  *)
(***************************************************************************)
LEMMA InitTypes ==
  Init => TypeOK /\ PlannedInv /\ CapHolds /\ StaysNearTarget /\ ReplanIsEmpty
  <1>. SUFFICES ASSUME Init
                PROVE  /\ TypeOK /\ PlannedInv /\ CapHolds /\ StaysNearTarget
                       /\ ReplanIsEmpty
    OBVIOUS
  <1>1. px \in [Coins -> Nat \ {0}]
    BY SizerAssumption DEF Init, SizerAssumption
  <1>2. Nothing \in [Coins -> Int] /\ Nothing \in [Coins -> -W .. W]
    BY Bounds DEF Nothing
  <1>3. TypeOK
    BY <1>1, <1>2, SizerAssumption DEF Init, TypeOK, Stages, SizerAssumption
  <1>4. stage = "waiting"
    BY DEF Init
  <1>. QED
    BY <1>3, <1>4 DEF PlannedInv, CapHolds, StaysNearTarget, ReplanIsEmpty

LEMMA RestTypes ==
  ASSUME TypeOK, Rest
  PROVE  /\ target' \in [Coins -> -W .. W] /\ prev' = prev
         /\ frozen' \subseteq Coins /\ blocked' \subseteq Coins
         /\ stage' = "waiting" /\ moves' \in 0 .. MaxMoves
  <1>1. Nothing \in [Coins -> -W .. W]
    BY Bounds DEF Nothing
  <1>. QED
    BY <1>1, SizerAssumption DEF Rest, TypeOK, SizerAssumption

LEMMA TypeStep ==
  TypeOK /\ [Next]_vars => TypeOK'
  <1>. SUFFICES ASSUME TypeOK, [Next]_vars
                PROVE  TypeOK'
    OBVIOUS
  <1>1. CASE Plan
    <2>1. target' \in [Coins -> -W .. W]
      BY <1>1, SizerAssumption DEF Plan, SizerAssumption
    <2>2. stage' \in Stages
      BY <1>1 DEF Plan, Stages
    <2>. QED
      BY <1>1, <2>1, <2>2 DEF Plan, TypeOK, account
  <1>2. CASE ExecuteClean
    <2>1. Fill(orders)
      BY <1>2 DEF ExecuteClean
    <2>2. pos' \in [Coins -> Int] /\ cash' \in Int
      BY <2>1, FillTypes
    <2>. QED
      BY <1>2, <2>2 DEF ExecuteClean, TypeOK, inputs, Stages
  <1>3. CASE ExecutePartly
    <2>1. PICK sent \in SUBSET orders : Fill(sent)
      BY <1>3 DEF ExecutePartly
    <2>2. pos' \in [Coins -> Int] /\ cash' \in Int
      BY <2>1, FillTypes
    <2>. QED
      BY <1>3, <2>2 DEF ExecutePartly, TypeOK, inputs, Stages
  <1>4. CASE NothingHappens
    BY <1>4, RestTypes DEF NothingHappens, TypeOK, account, Stages
  <1>5. CASE PriceMoves
    <2>1. px' \in [Coins -> Nat \ {0}]
      BY <1>5, SizerAssumption DEF PriceMoves, TypeOK, SizerAssumption
    <2>. QED
      BY <1>5, <2>1, RestTypes DEF PriceMoves, TypeOK, Stages
  <1>6. CASE MarkChanges
    BY <1>6, RestTypes DEF MarkChanges, TypeOK, Stages
  <1>7. CASE OthersTrade
    <2>1. PICK c \in Coins : \E n \in Sizes[c] :
            /\ pos' = [pos EXCEPT ![c] = n]
            /\ cash' = cash - (n - pos[c]) * px[c]
      BY <1>7 DEF OthersTrade
    <2>2. PICK n \in Sizes[c] :
            /\ pos' = [pos EXCEPT ![c] = n]
            /\ cash' = cash - (n - pos[c]) * px[c]
      BY <2>1
    <2>3. n \in Int /\ pos[c] \in Int /\ px[c] \in Int
      BY SizerAssumption DEF TypeOK, SizerAssumption
    <2>4. (n - pos[c]) * px[c] \in Int
      BY <2>3
    <2>5. pos' \in [Coins -> Int] /\ cash' \in Int
      BY <2>2, <2>3, <2>4 DEF TypeOK
    <2>. QED
      BY <1>7, <2>5, RestTypes DEF OthersTrade, TypeOK, Stages
  <1>8. CASE UNCHANGED vars
    BY <1>8 DEF vars, account, inputs, TypeOK
  <1>. QED
    BY <1>1, <1>2, <1>3, <1>4, <1>5, <1>6, <1>7, <1>8 DEF Next

-----------------------------------------------------------------------------
(***************************************************************************)
(* The steps.                                                              *)
(***************************************************************************)
LEMMA SameAccount ==
  ASSUME UNCHANGED <<account, inputs>>
  PROVE  /\ equity' = equity /\ cap' = cap
         /\ Exposure(Coins)' = Exposure(Coins)
         /\ Exposure(frozen)' = Exposure(frozen)
         /\ FitsCap' = FitsCap /\ SizerError' = SizerError
         /\ orders' = orders
         /\ \A c \in Coins : Near(c)' = Near(c)
  <1>1. /\ pos' = pos /\ px' = px /\ marked' = marked /\ cash' = cash
        /\ target' = target /\ frozen' = frozen /\ blocked' = blocked
    BY DEF account, inputs
  <1>2. equity' = equity /\ Traded' = Traded
    BY <1>1 DEF equity, Valued, Traded
  <1>3. cap' = cap
    BY <1>2 DEF cap
  <1>4. /\ Exposure(Coins)' = Exposure(Coins)
        /\ Exposure(frozen)' = Exposure(frozen)
    BY <1>1 DEF Exposure
  <1>5. FitsCap' = FitsCap
    BY <1>1, <1>2, <1>3, <1>4 DEF FitsCap
  <1>6. effective_weights' = effective_weights
    BY <1>1 DEF effective_weights
  <1>7. raw_target_sizes' = raw_target_sizes
    BY <1>1, <1>2, <1>6 DEF raw_target_sizes
  <1>8. frozen_live_notional' = frozen_live_notional
    BY <1>1 DEF frozen_live_notional, Gross
  <1>9. Gross(raw_target_sizes, Traded)' = Gross(raw_target_sizes, Traded)
    BY <1>1, <1>2, <1>7 DEF Gross
  <1>10. target_sizes' = target_sizes
    BY <1>2, <1>3, <1>7, <1>8, <1>9 DEF target_sizes
  <1>11. Gross(target_sizes, Traded)' = Gross(target_sizes, Traded)
    BY <1>1, <1>2, <1>10 DEF Gross
  <1>12. SizerError' = SizerError
    BY <1>3, <1>8, <1>11 DEF SizerError, post_gross
  <1>13. orders' = orders
    BY <1>1, <1>2, <1>10 DEF orders, Legs
  <1>14. \A c \in Coins : Near(c)' = Near(c)
    BY <1>1, <1>2 DEF Near, achieved
  <1>. QED
    BY <1>2, <1>3, <1>4, <1>5, <1>12, <1>13, <1>14

LEMMA NearTarget ==
  StaysNearTarget <=>
    (stage \in {"held", "clean"} =>
        \A c \in marked \ (frozen \union blocked) :
            (stage = "held" \/ FitsCap \/ target[c] = 0) => Near(c))
  BY DEF StaysNearTarget, Near

LEMMA PlanStep ==
  ASSUME IInv, Plan, PlanChecked'
  PROVE  PlannedInv' /\ CapHolds' /\ StaysNearTarget' /\ ReplanIsEmpty'
  <1>1. /\ equity > 0 /\ UNCHANGED account
        /\ frozen' \in SUBSET {c \in Coins : target'[c] = 0}
        /\ stage' = IF ~rebalance' THEN "held"
                    ELSE IF SizerError' THEN "raised" ELSE "planned"
    BY DEF Plan
  <1>2. equity' > 0
    <2>1. equity' = equity
      BY <1>1 DEF account, equity, Valued
    <2>. QED
      BY <1>1, <2>1
  <1>3. PlannedInv'
    BY <1>1, <1>2 DEF PlannedInv
  <1>4. CapHolds'
    BY <1>1 DEF CapHolds, PlanChecked
  <1>5. (stage \in {"held", "clean"} =>
            \A c \in marked \ (frozen \union blocked) :
                (stage = "held" \/ FitsCap \/ target[c] = 0) => Near(c))'
    BY <1>1 DEF PlanChecked
  <1>6. StaysNearTarget'
    BY <1>5, NearTarget, PTL
  <1>7. ReplanIsEmpty'
    BY <1>1 DEF ReplanIsEmpty
  <1>. QED
    BY <1>3, <1>4, <1>6, <1>7

LEMMA CleanStep ==
  ASSUME IInv, ExecuteClean
  PROVE  PlannedInv' /\ CapHolds' /\ StaysNearTarget' /\ ReplanIsEmpty'
  <1>1. /\ TypeOK /\ stage = "planned" /\ stage' = "clean" /\ Fill(orders)
        /\ UNCHANGED <<px, marked, inputs>>
    BY DEF ExecuteClean, IInv
  <1>2. equity > 0 /\ ~SizerError
    BY <1>1 DEF IInv, PlannedInv
  <1>3. PlannedInv'
    BY <1>1 DEF PlannedInv
  <1>4. CapHolds'
    <2>1. (W * Exposure(Coins)
              <= cap + W * Cardinality(Coins) * (MIN_NOTIONAL_USD - 1))'
      BY <1>1, <1>2, CleanCap
    <2>. QED
      BY <1>1, <2>1 DEF CapHolds
  <1>5. FitsCap' = FitsCap
    <2>1. /\ target' = target /\ equity' = equity /\ cap' = cap
          /\ Exposure(frozen)' = Exposure(frozen)
      BY <1>1, CleanKeeps DEF inputs
    <2>. QED
      BY <2>1 DEF FitsCap
  <1>6. \A c \in marked \ (frozen \union blocked) :
           FitsCap \/ target[c] = 0 => Near(c)'
    BY <1>1, <1>2, CleanNear
  <1>7. (stage \in {"held", "clean"} =>
            \A c \in marked \ (frozen \union blocked) :
                (stage = "held" \/ FitsCap \/ target[c] = 0) => Near(c))'
    BY <1>1, <1>5, <1>6 DEF inputs
  <1>8. StaysNearTarget'
    BY <1>7, NearTarget, PTL
  <1>9. ReplanIsEmpty'
    BY <1>1, CleanReplan DEF ReplanIsEmpty
  <1>. QED
    BY <1>3, <1>4, <1>8, <1>9

LEMMA StutterStep ==
  ASSUME IInv, UNCHANGED vars
  PROVE  PlannedInv' /\ CapHolds' /\ StaysNearTarget' /\ ReplanIsEmpty'
  <1>1. UNCHANGED <<account, inputs>> /\ stage' = stage
    BY DEF vars
  <1>2. /\ equity' = equity /\ cap' = cap
        /\ Exposure(Coins)' = Exposure(Coins)
        /\ Exposure(frozen)' = Exposure(frozen)
        /\ FitsCap' = FitsCap /\ SizerError' = SizerError
        /\ orders' = orders
        /\ \A c \in Coins : Near(c)' = Near(c)
    BY <1>1, SameAccount
  <1>3. PlannedInv' /\ CapHolds' /\ ReplanIsEmpty'
    BY <1>1, <1>2
       DEF IInv, PlannedInv, CapHolds, ReplanIsEmpty, inputs
  <1>4. (stage \in {"held", "clean"} =>
            \A c \in marked \ (frozen \union blocked) :
                (stage = "held" \/ FitsCap \/ target[c] = 0) => Near(c))'
    <2>1. marked \subseteq Coins /\ StaysNearTarget
      BY DEF IInv, TypeOK
    <2>2. stage \in {"held", "clean"} =>
            \A c \in marked \ (frozen \union blocked) :
                (stage = "held" \/ FitsCap \/ target[c] = 0) => Near(c)
      BY <2>1, NearTarget
    <2>. QED
      BY <1>1, <1>2, <2>1, <2>2 DEF account, inputs
  <1>5. StaysNearTarget'
    BY <1>4, NearTarget, PTL
  <1>. QED
    BY <1>3, <1>5

LEMMA Step ==
  IInv /\ TypeOK' /\ PlanChecked' /\ [Next]_vars => IInv'
  <1>. SUFFICES ASSUME IInv, TypeOK', PlanChecked', [Next]_vars
                PROVE  PlannedInv' /\ CapHolds' /\ StaysNearTarget' /\ ReplanIsEmpty'
    BY DEF IInv
  <1>1. CASE Plan
    BY <1>1, PlanStep
  <1>2. CASE ExecuteClean
    BY <1>2, CleanStep
  <1>3. CASE stage' \in {"partly", "waiting"}
    BY <1>3 DEF PlannedInv, CapHolds, StaysNearTarget, ReplanIsEmpty
  <1>4. CASE UNCHANGED vars
    BY <1>4, StutterStep
  <1>. QED
    BY <1>1, <1>2, <1>3, <1>4
       DEF Next, ExecutePartly, NothingHappens, PriceMoves, MarkChanges,
           OthersTrade, Rest

-----------------------------------------------------------------------------
(***************************************************************************)
(* Theorems.                                                               *)
(***************************************************************************)

\* Positions, prices, weights and the sets of coins stay what they are, every
\* price positive (reconciler.snapshot).
THEOREM TypeCorrect == Spec => []TypeOK
  BY InitTypes, TypeStep, PTL DEF Spec

LEMMA Invariance == Spec => []IInv
  <1>1. Init => IInv
    BY InitTypes DEF IInv
  <1>2. Spec => []PlanChecked
    BY TypeCorrect, PlanChecks, PTL
  <1>. QED
    BY <1>1, <1>2, TypeCorrect, Step, PTL DEF Spec

\* sizer.plan keeps what it sends within the cap, and raises only when the
\* frozen coins break it by themselves.
THEOREM CapAlwaysHolds == Spec => []CapHolds
  <1>1. IInv => CapHolds
    BY DEF IInv
  <1>. QED
    BY <1>1, Invariance, PTL

\* The ratchet and the legs leave no coin far from its target.
THEOREM AlwaysNearTarget == Spec => []StaysNearTarget
  <1>1. IInv => StaysNearTarget
    BY DEF IInv
  <1>. QED
    BY <1>1, Invariance, PTL

\* A second plan over an account a clean cycle left has no order.
THEOREM ReplanAlwaysEmpty == Spec => []ReplanIsEmpty
  <1>1. IInv => ReplanIsEmpty
    BY DEF IInv
  <1>. QED
    BY <1>1, Invariance, PTL
=============================================================================
