-------------------------- MODULE ExecutorPositions --------------------------
(***************************************************************************)
(* Where the positions are while a plan is executed: no order crosses      *)
(* zero, and a clean report means the account is at the target, for every  *)
(* value of the constants.                                                 *)
(***************************************************************************)
EXTENDS ExecutorProofs

(***************************************************************************)
(* The plan, in terms of the positions it was made from.                   *)
(***************************************************************************)
SnapFlips(c) == target[c] * snap[c] < 0

PlannedClose(c) ==
    [coin |-> c, target_size |-> 0, delta_size |-> -snap[c],
     is_close_leg |-> TRUE]
PlannedMain(c) ==
    [coin |-> c, target_size |-> target[c],
     delta_size |-> IF SnapFlips(c) THEN target[c] ELSE target[c] - snap[c],
     is_close_leg |-> FALSE]

\* Every leg is one of its coin's, none that is large enough is missing, and a
\* close leg comes before the leg that opens the coin again.
PlanParts ==
    /\ \A i \in DOMAIN plan :
         IF plan[i].is_close_leg
            THEN /\ plan[i] = PlannedClose(plan[i].coin)
                 /\ SnapFlips(plan[i].coin)
            ELSE plan[i] = PlannedMain(plan[i].coin)
    /\ \A c \in Coin :
         /\ SnapFlips(c) /\ Abs(snap[c]) >= MinSize =>
              \E i \in DOMAIN plan : plan[i] = PlannedClose(c)
         /\ Abs(PlannedMain(c).delta_size) >= MinSize =>
              \E i \in DOMAIN plan : plan[i] = PlannedMain(c)
    /\ \A i, j \in DOMAIN plan :
         i < j /\ plan[i].coin = plan[j].coin => ~plan[j].is_close_leg

PlanInv == InCycle => PlanParts

(***************************************************************************)
(* The legs a coin has had so far, and where they took it.                 *)
(***************************************************************************)
Started(i) ==
    i <= Len(results) \/ (pc \in LegPCs /\ i = Len(results) + 1)
Newest(i) ==
    \A j \in DOMAIN plan : plan[j].coin = plan[i].coin /\ Started(j) => j <= i

\* An open leg behind a close leg starts from flat.
StartAt(l) ==
    IF ~l.is_close_leg /\ CloseLegs(l.coin) # {} THEN 0 ELSE snap[l.coin]

Untouched(c) ==
    (\A i \in DOMAIN plan : plan[i].coin = c => ~Started(i)) => pos[c] = snap[c]

AfterLeg(i) ==
    results[i] = "filled" /\ Newest(i) =>
        pos[plan[i].coin] = StartAt(plan[i]) + plan[i].delta_size

DuringLeg ==
    pc \in LegPCs /\ op.coin \notin strays =>
        /\ pos[op.coin] = StartAt(op) + Sign(op.delta_size) * executed
        /\ executed <= Abs(op.delta_size)

PosInv ==
    InCycle =>
        /\ \A c \in Coin \ strays : Untouched(c)
        /\ \A i \in DOMAIN results : plan[i].coin \notin strays => AfterLeg(i)
        /\ DuringLeg

\* The locals of a leg; an exit is a single shot.
LocalInv ==
    pc \in LegPCs =>
        /\ residual > 0
        /\ IsFullExit =>
             /\ residual = Abs(op.delta_size)
             /\ pc \in {"record", "submit"} => executed = 0
             /\ pc = "answer" => executed = resp.size

\* A clean report is of the last cycle, and of a process that is up.
ReportInv ==
    /\ InCycle => report = "none"
    /\ pc = "down" => report = "raised"

PInv == PlanInv /\ PosInv /\ LocalInv /\ ReportInv /\ CleanMeansAtTarget

-----------------------------------------------------------------------------
(***************************************************************************)
(* Planning.                                                               *)
(***************************************************************************)

\* The key a coin's legs are sorted by is the size of one of them.
LEMMA KeyOfCoin ==
  ASSUME NEW tgt \in Targets, pos \in [Coin -> Int], NEW l \in PlannedLegs(tgt)
  PROVE  PairKey(PlannedLegs(tgt), l) \in Int
  <1>. DEFINE legs == PlannedLegs(tgt)
              a == CloseLeg(l.coin)
              b == MainLeg(l.coin, tgt[l.coin])
              mine == {o \in legs : o.coin = l.coin}
              Key(k) == /\ \E o \in legs : o.coin = l.coin /\ Abs(o.delta_size) = k
                        /\ \A o \in legs : o.coin = l.coin => Abs(o.delta_size) <= k
  <1>1. /\ l \in mine /\ mine \subseteq {a, b}
        /\ \A o \in mine : Abs(o.delta_size) \in Int
    <2>1. \A o \in legs : o \in Leg /\ o \in {CloseLeg(o.coin), MainLeg(o.coin, tgt[o.coin])}
      BY PlannedLegsFinite
    <2>2. \A o \in legs : Abs(o.delta_size) \in Int
      BY <2>1, AbsType DEF Leg
    <2>3. l \in mine
      OBVIOUS
    <2>. HIDE DEF legs
    <2>4. \A o \in mine : o \in {a, b}
      BY <2>1
    <2>. QED
      BY <2>2, <2>3, <2>4
  <1>2. \E o \in mine : \A m \in mine : Abs(m.delta_size) <= Abs(o.delta_size)
    <2>1. CASE a \in mine /\ b \in mine
      <3>1. Abs(a.delta_size) \in Int /\ Abs(b.delta_size) \in Int
        BY <1>1, <2>1
      <3>2. CASE Abs(a.delta_size) <= Abs(b.delta_size)
        BY <1>1, <2>1, <3>1, <3>2
      <3>3. CASE Abs(b.delta_size) <= Abs(a.delta_size)
        BY <1>1, <2>1, <3>1, <3>3
      <3>. HIDE DEF a, b
      <3>. QED
        BY <3>1, <3>2, <3>3
    <2>2. CASE a \notin mine \/ b \notin mine
      <3>1. mine = {l}
        BY <1>1, <2>2
      <3>2. Abs(l.delta_size) <= Abs(l.delta_size)
        BY <1>1
      <3>. QED
        BY <3>1, <3>2
    <2>. QED
      BY <2>1, <2>2
  <1>3. PICK o \in mine : \A m \in mine : Abs(m.delta_size) <= Abs(o.delta_size)
    BY <1>2
  <1>4. Abs(o.delta_size) \in {Abs(m.delta_size) : m \in legs}
        /\ Key(Abs(o.delta_size))
    BY <1>3
  <1>5. \E k \in {Abs(m.delta_size) : m \in legs} : Key(k)
    BY <1>4
  <1>6. PairKey(legs, l) = CHOOSE k \in {Abs(m.delta_size) : m \in legs} : Key(k)
    BY DEF PairKey
  <1>7. Key(PairKey(legs, l))
    <2>. HIDE DEF Key
    <2>. QED
      BY <1>5, <1>6
  <1>8. PICK m \in legs : m.coin = l.coin /\ Abs(m.delta_size) = PairKey(legs, l)
    BY <1>7
  <1>. QED
    BY <1>1, <1>8

\* A plan, in terms of the positions it is made from.
LEMMA PlanOfPositions ==
  ASSUME NEW tgt \in Targets, pos \in [Coin -> Int], NEW p \in Plans(tgt)
  PROVE  /\ \A i \in DOMAIN p :
              IF p[i].is_close_leg
                 THEN p[i] = CloseLeg(p[i].coin) /\ Flips(p[i].coin, tgt[p[i].coin])
                 ELSE p[i] = MainLeg(p[i].coin, tgt[p[i].coin])
         /\ \A c \in Coin :
              /\ Flips(c, tgt[c]) /\ Abs(pos[c]) >= MinSize =>
                   \E i \in DOMAIN p : p[i] = CloseLeg(c)
              /\ Abs(MainLeg(c, tgt[c]).delta_size) >= MinSize =>
                   \E i \in DOMAIN p : p[i] = MainLeg(c, tgt[c])
         /\ \A i, j \in DOMAIN p :
              i < j /\ p[i].coin = p[j].coin => ~p[j].is_close_leg
  <1>. DEFINE legs == PlannedLegs(tgt)
              n == Cardinality(legs)
  <1>1. /\ IsFiniteSet(legs) /\ legs \subseteq Leg /\ n \in Nat
    BY PlannedLegsFinite, FS_CardinalityType
  <1>2. /\ p \in [1 .. n -> legs] /\ \A i, j \in DOMAIN p : p[i] = p[j] => i = j
        /\ Sorted(legs, p)
    BY DEF Plans
  <1>3. \A l \in legs : \E i \in DOMAIN p : p[i] = l
    <2>. HIDE DEF legs
    <2>1. p \in Injection(1 .. n, legs)
      BY <1>2 DEF Injection, IsInjective
    <2>2. IsFiniteSet(1 .. n) /\ Cardinality(1 .. n) = n
      BY <1>1, FS_Interval
    <2>. DEFINE S == 1 .. n
    <2>3. /\ Cardinality(S) = Cardinality(legs) /\ p \in Injection(S, legs)
          /\ IsFiniteSet(legs)
      BY <1>1, <2>1, <2>2
    <2>. HIDE DEF S
    <2>4. p \in Surjection(S, legs)
      BY <2>3, FS_Injection
    <2>. QED
      BY <1>2, <2>4 DEF Surjection, S
  <1>4. ASSUME NEW l \in legs
        PROVE  IF l.is_close_leg
                  THEN l = CloseLeg(l.coin) /\ Flips(l.coin, tgt[l.coin])
                  ELSE l = MainLeg(l.coin, tgt[l.coin])
    <2>1. PICK c \in Coin : l \in LegsOf(c, tgt[c])
      BY DEF PlannedLegs
    <2>2. l.coin = c
      BY <2>1 DEF LegsOf
    <2>. QED
      BY <2>1, <2>2 DEF LegsOf, CloseLeg, MainLeg
  <1>5. ASSUME NEW c \in Coin
        PROVE  /\ Flips(c, tgt[c]) /\ Abs(pos[c]) >= MinSize => CloseLeg(c) \in legs
               /\ Abs(MainLeg(c, tgt[c]).delta_size) >= MinSize =>
                      MainLeg(c, tgt[c]) \in legs
    <2>1. /\ Flips(c, tgt[c]) => CloseLeg(c) \in LegsOf(c, tgt[c])
          /\ MainLeg(c, tgt[c]) \in LegsOf(c, tgt[c])
      BY DEF LegsOf, CloseLeg, MainLeg
    <2>2. pos[c] \in Int /\ Abs(CloseLeg(c).delta_size) = Abs(pos[c])
      BY DEF CloseLeg, Abs
    <2>. QED
      BY <2>1, <2>2 DEF PlannedLegs
  <1>6. ASSUME NEW i \in DOMAIN p, NEW j \in DOMAIN p,
               i < j, p[i].coin = p[j].coin
        PROVE  ~p[j].is_close_leg
    <2>1. p[i] \in legs /\ p[j] \in legs
      BY <1>2
    <2>2. PairKey(legs, p[i]) = PairKey(legs, p[j])
      BY <1>6 DEF PairKey
    <2>3. PairKey(legs, p[i]) \in Int
      BY <2>1, KeyOfCoin
    <2>4. p[j].is_close_leg => p[i].is_close_leg
      <3>. HIDE DEF legs
      <3>1. \/ PairKey(legs, p[i]) > PairKey(legs, p[j])
            \/ p[j].is_close_leg => p[i].is_close_leg
        BY <1>2, <1>6 DEF Sorted
      <3>. QED
        BY <2>2, <2>3, <3>1
    <2>5. ASSUME p[j].is_close_leg
          PROVE  p[i] = p[j]
      BY <1>4, <1>6, <2>1, <2>4, <2>5
    <2>. QED
      BY <1>2, <1>6, <2>5
  <1>. HIDE DEF legs
  <1>7. \A i \in DOMAIN p : p[i] \in legs
    BY <1>2
  <1>. QED
    BY <1>3, <1>4, <1>5, <1>6, <1>7

LEMMA StartCyclePos ==
  ASSUME IInv, StartCycle
  PROVE  PInv'
  <1>1. /\ target' \in Targets /\ snap' = pos /\ results' = <<>> /\ pos' = pos
        /\ pos \in [Coin -> Int]
    BY DEF StartCycle, venue, IInv, TypeOK
  <1>2. \/ pc' = "idle" /\ report' \in {"no_rebalance", "aborted", "deferred"}
        \/ /\ pc' = "dispatch" /\ report' = "none"
           /\ plan' \in Plans(target')
    BY DEF StartCycle, Preflight, Conclude
  <1>3. ReportInv' /\ CleanMeansAtTarget' /\ LocalInv'
    BY <1>2 DEF ReportInv, CleanMeansAtTarget, LocalInv, InCycle, LegPCs
  <1>4. PlanInv'
    <2>1. SUFFICES ASSUME plan' \in Plans(target')
                   PROVE  PlanParts'
      BY <1>2 DEF PlanInv, InCycle
    <2>2. /\ \A i \in DOMAIN plan' :
               IF plan'[i].is_close_leg
                  THEN /\ plan'[i] = CloseLeg(plan'[i].coin)
                       /\ Flips(plan'[i].coin, target'[plan'[i].coin])
                  ELSE plan'[i] = MainLeg(plan'[i].coin, target'[plan'[i].coin])
          /\ \A c \in Coin :
               /\ Flips(c, target'[c]) /\ Abs(pos[c]) >= MinSize =>
                    \E i \in DOMAIN plan' : plan'[i] = CloseLeg(c)
               /\ Abs(MainLeg(c, target'[c]).delta_size) >= MinSize =>
                    \E i \in DOMAIN plan' : plan'[i] = MainLeg(c, target'[c])
          /\ \A i, j \in DOMAIN plan' :
               i < j /\ plan'[i].coin = plan'[j].coin => ~plan'[j].is_close_leg
      BY <1>1, <2>1, PlanOfPositions
    <2>3. (\A i \in DOMAIN plan :
              IF plan[i].is_close_leg
                 THEN /\ plan[i] = PlannedClose(plan[i].coin)
                      /\ SnapFlips(plan[i].coin)
                 ELSE plan[i] = PlannedMain(plan[i].coin))'
      BY <1>1, <2>2
         DEF Flips, SnapFlips, CloseLeg, PlannedClose, MainLeg, PlannedMain
    <2>4. (\A c \in Coin :
              /\ SnapFlips(c) /\ Abs(snap[c]) >= MinSize =>
                   \E i \in DOMAIN plan : plan[i] = PlannedClose(c)
              /\ Abs(PlannedMain(c).delta_size) >= MinSize =>
                   \E i \in DOMAIN plan : plan[i] = PlannedMain(c))'
      BY <1>1, <2>2
         DEF Flips, SnapFlips, CloseLeg, PlannedClose, MainLeg, PlannedMain, Abs
    <2>. QED
      BY <2>2, <2>3, <2>4 DEF PlanParts
  <1>5. PosInv'
    BY <1>1, <1>2 DEF PosInv, InCycle, Untouched, AfterLeg, DuringLeg, LegPCs
  <1>. QED
    BY <1>3, <1>4, <1>5 DEF PInv

\* Leaving a cycle, but not by its end, forbids a clean report.
LEMMA LeavesPos ==
  ASSUME PInv,
         \/ ReconcileRaises \/ MarksRaise \/ RecordRaises \/ HandleMalformed
         \/ MarkDoneRaises \/ Crash \/ Boot
  PROVE  PInv'
  <1>1. pc' \in {"idle", "down"} /\ report' = "raised"
    BY DEF ReconcileRaises, MarksRaise, RecordRaises, HandleMalformed,
           MarkDoneRaises, Crash, Boot, Raise, Conclude, PInv, ReportInv
  <1>. QED
    BY <1>1
       DEF PInv, PlanInv, PosInv, LocalInv, ReportInv, CleanMeansAtTarget,
           InCycle, LegPCs

-----------------------------------------------------------------------------
(***************************************************************************)
(* The legs of a coin.                                                     *)
(***************************************************************************)
\* The leg at hand has not started before it is begun, and is then the newest.
LEMMA LegFacts ==
  ASSUME IInv, PInv, InCycle, Len(results) < Len(plan)
  PROVE  LET k == Len(results) + 1
         IN  /\ k \in DOMAIN plan /\ op = plan[k] /\ op \in Leg
             /\ op.coin \in Coin /\ Abs(op.delta_size) > 0
             /\ snap[op.coin] \in Int /\ target[op.coin] \in Int
             /\ pos[op.coin] \in Int /\ op.delta_size \in Int
             /\ op = IF op.is_close_leg THEN PlannedClose(op.coin)
                                        ELSE PlannedMain(op.coin)
             /\ op.is_close_leg => SnapFlips(op.coin)
             /\ DOMAIN plan \subseteq Nat
             /\ DOMAIN results = 1 .. Len(results) /\ Len(results) \in Nat
  <1>1. /\ Len(results) + 1 \in DOMAIN plan /\ op = plan[Len(results) + 1]
        /\ DOMAIN plan \subseteq Nat
        /\ DOMAIN results = 1 .. Len(results) /\ Len(results) \in Nat
    BY DEF op, IInv, TypeOK
  <1>2. op \in Leg
    BY <1>1 DEF IInv, TypeOK
  <1>3. Abs(op.delta_size) >= MinSize
    BY <1>1 DEF IInv, PlanShape
  <1>4. Abs(op.delta_size) > 0
    <2>1. Abs(op.delta_size) \in Int
      BY <1>2, AbsType DEF Leg
    <2>. QED
      BY <1>3, <2>1, ExecutorAssumption DEF ExecutorAssumption
  <1>5. /\ op.coin \in Coin /\ op.delta_size \in Int
        /\ snap[op.coin] \in Int /\ target[op.coin] \in Int /\ pos[op.coin] \in Int
    BY <1>2 DEF Leg, IInv, TypeOK
  <1>6. IF op.is_close_leg
           THEN op = PlannedClose(op.coin) /\ SnapFlips(op.coin)
           ELSE op = PlannedMain(op.coin)
    BY <1>1 DEF PInv, PlanInv, PlanParts
  <1>. QED
    BY <1>1, <1>2, <1>4, <1>5, <1>6

LEMMA BeginPos ==
  ASSUME IInv, PInv, BeginLeg
  PROVE  PosInv'
  <1>. DEFINE k == Len(results) + 1
              c == op.coin
  <1>1. /\ pc = "dispatch" /\ InCycle /\ Len(results) < Len(plan) /\ ~Suppressed
        /\ pc' = "record" /\ executed' = 0
        /\ UNCHANGED <<plan, snap, target, results, pos, strays>>
    BY DEF BeginLeg, InCycle, plans, venue
  <1>2. /\ k \in DOMAIN plan /\ op = plan[k] /\ op \in Leg /\ c \in Coin
        /\ snap[c] \in Int /\ op.delta_size \in Int
        /\ op = IF op.is_close_leg THEN PlannedClose(c) ELSE PlannedMain(c)
        /\ DOMAIN plan \subseteq Nat /\ Abs(op.delta_size) > 0
        /\ DOMAIN results = 1 .. Len(results) /\ Len(results) \in Nat
    BY <1>1, LegFacts
  <1>3. \A i \in DOMAIN plan : /\ Started(i) <=> i <= Len(results)
                              /\ Started(i)' <=> i <= Len(results) \/ i = k
    BY <1>1 DEF Started, LegPCs
  <1>4. op' = op /\ StartAt(op)' = StartAt(op)
    <2>1. op' = op
      BY <1>1 DEF op
    <2>. QED
      BY <1>1, <2>1 DEF StartAt, CloseLegs
  <1>5. \A d \in Coin \ strays : Untouched(d)'
    BY <1>1 DEF PInv, PosInv, Untouched, Started, LegPCs
  <1>6. \A i \in DOMAIN results : plan[i].coin \notin strays => AfterLeg(i)'
    BY <1>1 DEF PInv, PosInv, AfterLeg, Newest, StartAt, CloseLegs, Started, LegPCs
  <1>7. \A j \in DOMAIN plan : plan[j].is_close_leg \in BOOLEAN
    <2>1. \A j \in DOMAIN plan : plan[j] \in Leg
      BY DEF IInv, TypeOK
    <2>. QED
      BY <2>1 DEF Leg
  <1>8. ASSUME c \notin strays
        PROVE  pos[c] = StartAt(op)
    <2>1. CASE \A i \in DOMAIN plan : plan[i].coin = c => ~Started(i)
      <3>1. pos[c] = snap[c]
        BY <1>1, <1>2, <1>8, <2>1 DEF PInv, PosInv, Untouched
      <3>2. op.is_close_leg \/ CloseLegs(c) = {}
        <4>1. SUFFICES ASSUME ~op.is_close_leg, CloseLegs(c) # {}
                       PROVE  FALSE
          OBVIOUS
        <4>2. CloseLegFilled(c)
          BY <1>1, <1>2, <4>1 DEF Suppressed, flip_close_coins
        <4>3. PICK i \in CloseLegs(c) : i \in DOMAIN results
          BY <4>2 DEF CloseLegFilled
        <4>. QED
          BY <1>2, <1>3, <2>1, <4>3 DEF CloseLegs
      <3>. QED
        BY <3>1, <3>2 DEF StartAt
    <2>2. CASE \E i \in DOMAIN plan : plan[i].coin = c /\ Started(i)
      <3>1. PICK i \in DOMAIN plan : plan[i].coin = c /\ i <= Len(results)
        BY <1>1, <2>2 DEF Started, LegPCs
      <3>2. i < k /\ i # k
        BY <1>2, <3>1
      <3>3. ~op.is_close_leg
        BY <1>1, <1>2, <3>1, <3>2 DEF PInv, PlanInv, PlanParts
      <3>4. \A j \in DOMAIN plan : plan[j].coin = c /\ j <= Len(results) =>
               plan[j].is_close_leg /\ j \in CloseLegs(c)
        <4>1. ASSUME NEW j \in DOMAIN plan, plan[j].coin = c, j <= Len(results)
              PROVE  plan[j].is_close_leg
          <5>1. j # k
            BY <1>2, <4>1
          <5>. QED
            BY <1>2, <1>7, <3>3, <4>1, <5>1 DEF IInv, PlanShape
        <4>. QED
          BY <4>1 DEF CloseLegs
      <3>5. CloseLegFilled(c)
        BY <1>1, <1>2, <3>1, <3>3, <3>4 DEF Suppressed, flip_close_coins
      <3>6. PICK m \in CloseLegs(c) : m \in DOMAIN results /\ results[m] = "filled"
        BY <3>5 DEF CloseLegFilled
      <3>7. /\ m \in DOMAIN plan /\ plan[m].coin = c /\ plan[m].is_close_leg
        BY <3>6 DEF CloseLegs
      <3>8. Newest(m)
        <4>1. ASSUME NEW j \in DOMAIN plan, plan[j].coin = c, Started(j)
              PROVE  j = m
          <5>1. plan[j].is_close_leg
            BY <1>1, <3>4, <4>1 DEF Started, LegPCs
          <5>. QED
            BY <1>7, <3>7, <4>1, <5>1 DEF IInv, PlanShape
        <4>. QED
          BY <1>2, <3>7, <4>1 DEF Newest
      <3>9. pos[c] = StartAt(plan[m]) + plan[m].delta_size
        BY <1>1, <1>8, <3>6, <3>7, <3>8 DEF PInv, PosInv, AfterLeg
      <3>10. plan[m] = PlannedClose(c)
        BY <1>1, <3>7 DEF PInv, PlanInv, PlanParts
      <3>11. StartAt(plan[m]) = snap[c] /\ plan[m].delta_size = -snap[c]
        BY <3>7, <3>10 DEF StartAt, PlannedClose
      <3>12. StartAt(op) = 0
        BY <3>3, <3>6 DEF StartAt
      <3>. QED
        BY <1>2, <3>9, <3>11, <3>12
    <2>. QED
      BY <2>1, <2>2
  <1>9. DuringLeg'
    <2>1. StartAt(op) \in Int
      BY <1>2 DEF StartAt
    <2>2. Sign(op.delta_size) \in Int /\ Abs(op.delta_size) \in Nat
      BY <1>2, AbsType
    <2>3. Sign(op.delta_size) * 0 = 0 /\ StartAt(op) + 0 = StartAt(op)
      BY <2>1, <2>2
    <2>. QED
      BY <1>1, <1>4, <1>8, <2>1, <2>2, <2>3 DEF DuringLeg, Sign, Abs
  <1>. QED
    BY <1>1, <1>5, <1>6, <1>9 DEF PosInv

LEMMA SignAbs ==
  ASSUME NEW n \in Int
  PROVE  Sign(n) * Abs(n) = n
  BY SMT DEF Abs, Sign

\* A leg ends: one that filled has traded what it was planned to.
LEMMA LegEndsPos ==
  ASSUME IInv, PInv, InCycle, Len(results) < Len(plan),
         NEW s \in LegStatus, LegDone(s),
         UNCHANGED <<plan, snap, target, pos, strays>>,
         s = "filled" => /\ pc \in LegPCs
                         /\ op.coin \notin strays => executed = Abs(op.delta_size)
  PROVE  PosInv'
  <1>1. PICK k \in Nat : k = Len(results) + 1
    BY DEF IInv, TypeOK
  <1>2. /\ k \in DOMAIN plan /\ op = plan[k] /\ op.coin \in Coin
        /\ op.delta_size \in Int /\ DOMAIN plan \subseteq Nat
        /\ DOMAIN results = 1 .. Len(results) /\ Len(results) \in Nat
    BY <1>1, LegFacts
  <1>3. /\ pc' = "dispatch" /\ Len(results') = k /\ DOMAIN results' = 1 .. k
        /\ results'[k] = s
        /\ \A i \in DOMAIN results : results'[i] = results[i] /\ i \in DOMAIN plan
    BY <1>1, <1>2 DEF LegDone, IInv, TypeOK
  <1>4. \A c \in Coin \ strays : Untouched(c)'
    BY <1>1, <1>2, <1>3 DEF PInv, PosInv, Untouched, Started, LegPCs
  <1>5. \A i \in DOMAIN plan : Newest(i)' => Newest(i)
    BY <1>1, <1>2, <1>3 DEF Newest, Started, LegPCs
  <1>6. \A l : StartAt(l)' = StartAt(l)
    BY DEF StartAt, CloseLegs
  <1>7. ASSUME NEW i \in DOMAIN results, plan[i].coin \notin strays
        PROVE  AfterLeg(i)'
    BY <1>3, <1>5, <1>6, <1>7 DEF PInv, PosInv, AfterLeg
  <1>8. ASSUME op.coin \notin strays
        PROVE  AfterLeg(k)'
    <2>1. SUFFICES ASSUME s = "filled"
                   PROVE  pos[op.coin] = StartAt(op) + op.delta_size
      BY <1>2, <1>3, <1>6 DEF AfterLeg
    <2>2. /\ pos[op.coin] = StartAt(op) + Sign(op.delta_size) * executed
          /\ executed = Abs(op.delta_size)
      BY <1>8, <2>1 DEF PInv, PosInv, DuringLeg
    <2>. QED
      BY <1>2, <2>2, SignAbs
  <1>9. \A i \in DOMAIN results' : plan[i].coin \notin strays => AfterLeg(i)'
    <2>1. \A i \in DOMAIN results' : i \in DOMAIN results \/ i = k
      BY <1>1, <1>2, <1>3
    <2>. QED
      BY <1>2, <1>7, <1>8, <2>1
  <1>10. DuringLeg'
    BY <1>3 DEF DuringLeg, LegPCs
  <1>. QED
    BY <1>4, <1>9, <1>10 DEF PosInv

\* A step within a leg that trades nothing.
LEMMA SameLegPos ==
  ASSUME IInv, PInv, pc \in LegPCs, pc' \in LegPCs,
         UNCHANGED <<plan, snap, target, pos, strays, results, executed>>
  PROVE  PosInv'
  <1>1. InCycle /\ op' = op
    BY DEF InCycle, LegPCs, op
  <1>2. \A i \in DOMAIN plan : Started(i)' <=> Started(i)
    BY DEF Started
  <1>3. \A c \in Coin \ strays : Untouched(c)'
    BY <1>1, <1>2 DEF PInv, PosInv, Untouched
  <1>4. \A l : StartAt(l)' = StartAt(l)
    BY DEF StartAt, CloseLegs
  <1>5. \A i \in DOMAIN plan : Newest(i)' => Newest(i)
    BY <1>2 DEF Newest
  <1>6. ASSUME NEW i \in DOMAIN results, plan[i].coin \notin strays
        PROVE  AfterLeg(i)'
    <2>1. i \in DOMAIN plan
      BY DEF IInv, TypeOK
    <2>. QED
      BY <1>1, <1>4, <1>5, <1>6, <2>1 DEF PInv, PosInv, AfterLeg
  <1>7. DuringLeg'
    BY <1>1, <1>4 DEF PInv, PosInv, DuringLeg
  <1>. QED
    BY <1>3, <1>6, <1>7 DEF PosInv

\* Within a cycle the plan and the report stand.
LEMMA StaysInCycle ==
  ASSUME PInv, InCycle, InCycle', UNCHANGED <<plan, snap, target, report>>
  PROVE  PlanInv' /\ ReportInv' /\ CleanMeansAtTarget'
  <1>1. PlanInv'
    BY DEF PInv, PlanInv, PlanParts, SnapFlips, PlannedClose, PlannedMain, InCycle
  <1>2. ReportInv' /\ CleanMeansAtTarget'
    BY DEF PInv, ReportInv, CleanMeansAtTarget, InCycle
  <1>. QED
    BY <1>1, <1>2

LEMMA LegEndsAll ==
  ASSUME IInv, PInv, InCycle, Len(results) < Len(plan),
         NEW s \in LegStatus, LegDone(s),
         UNCHANGED <<plan, snap, target, pos, strays, report>>,
         s = "filled" => /\ pc \in LegPCs
                         /\ op.coin \notin strays => executed = Abs(op.delta_size)
  PROVE  PInv'
  <1>1. pc' = "dispatch"
    BY DEF LegDone
  <1>2. LocalInv' /\ InCycle'
    BY <1>1 DEF LocalInv, LegPCs, InCycle
  <1>. QED
    BY <1>2, LegEndsPos, StaysInCycle DEF PInv

LEMMA SameLegAll ==
  ASSUME IInv, PInv, pc \in LegPCs, pc' \in LegPCs, LocalInv',
         UNCHANGED <<plan, snap, target, pos, strays, report, results, executed>>
  PROVE  PInv'
  <1>1. InCycle /\ InCycle'
    BY DEF LegPCs, InCycle
  <1>. QED
    BY <1>1, SameLegPos, StaysInCycle DEF PInv

LEMMA DispatchPos ==
  ASSUME IInv, PInv, SkipLeg \/ BeginLeg \/ Record
  PROVE  PInv'
  <1>1. CASE SkipLeg
    <2>1. /\ InCycle /\ Len(results) < Len(plan) /\ LegDone("deferred")
          /\ UNCHANGED <<plan, snap, target, pos, strays, report>>
      BY <1>1 DEF SkipLeg, InCycle, plans, venue, history
    <2>. QED
      BY <2>1, LegEndsAll DEF LegStatus
  <1>2. CASE BeginLeg
    <2>1. /\ InCycle /\ InCycle' /\ pc' = "record" /\ Len(results) < Len(plan)
          /\ residual' = Abs(op.delta_size) /\ executed' = 0
          /\ UNCHANGED <<plan, snap, target, report, results>>
      BY <1>2 DEF BeginLeg, InCycle, plans
    <2>2. LocalInv'
      BY <2>1, SameOp, LegFacts DEF LocalInv
    <2>. QED
      BY <1>2, <2>1, <2>2, BeginPos, StaysInCycle DEF PInv
  <1>3. CASE Record
    <2>1. /\ pc = "record" /\ pc' = "submit" /\ pc \in LegPCs /\ pc' \in LegPCs
          /\ UNCHANGED <<plan, snap, target, pos, strays, report, results,
                         executed, residual>>
      BY <1>3 DEF Record, LegPCs, plans, venue, history, leg
    <2>2. LocalInv'
      BY <2>1, SameOp DEF PInv, LocalInv
    <2>. QED
      BY <2>1, <2>2, SameLegAll
  <1>. QED
    BY <1>1, <1>2, <1>3

\* What the executor makes of an answer: a leg it calls filled has traded its
\* whole size.
LEMMA HandlePos ==
  ASSUME IInv, PInv,
         \/ HandleRefused \/ HandleLost \/ HandleExit \/ HandleFilled
         \/ HandleResting \/ CancelReturns \/ CancelRaises
  PROVE  PInv'
  <1>1. /\ pc \in {"answer", "cancel"} /\ pc \in LegPCs /\ InCycle
        /\ Len(results) < Len(plan)
        /\ UNCHANGED <<plan, snap, target, pos, strays, report, executed, resp>>
    BY DEF HandleRefused, HandleLost, HandleExit, HandleFilled, HandleResting,
           CancelReturns, CancelRaises, Quiet, plans, venue, leg, LegPCs, InCycle,
           IInv, TypeOK
  <1>2. /\ residual > 0 /\ residual \in Int /\ resp.size \in Nat
        /\ executed \in Nat /\ filled_total \in Nat /\ Abs(op.delta_size) \in Nat
    BY <1>1, LegFacts, AbsType DEF PInv, LocalInv, IInv, TypeOK
  <1>3. op.coin \notin strays => executed <= Abs(op.delta_size)
    BY <1>1 DEF PInv, PosInv, DuringLeg
  <1>4. CASE HandleRefused \/ HandleLost \/ CancelRaises
    <2>1. PICK s \in LegStatus : LegDone(s) /\ (s = "error" \/ s = BrokenStatus)
      BY <1>4, EndStatusType
         DEF HandleRefused, HandleLost, CancelRaises, LegStatus, BrokenStatus
    <2>2. s # "filled"
      BY <1>2, <2>1 DEF BrokenStatus, EndStatus
    <2>. QED
      BY <1>1, <2>1, <2>2, LegEndsAll
  <1>5. CASE HandleExit
    <2>1. /\ LegDone(ExitStatus) /\ ExitStatus \in LegStatus
          /\ pc = "answer" /\ IsFullExit
      BY <1>5, EndStatusType DEF HandleExit, ExitStatus
    <2>2. executed = resp.size
      BY <1>1, <2>1 DEF PInv, LocalInv
    <2>3. ExitStatus = "filled" => Abs(op.delta_size) <= resp.size
      BY <1>2 DEF ExitStatus, EndStatus
    <2>4. ExitStatus = "filled" /\ op.coin \notin strays =>
             executed = Abs(op.delta_size)
      BY <1>2, <1>3, <2>2, <2>3
    <2>. QED
      BY <1>1, <2>1, <2>4, LegEndsAll
  <1>6. CASE HandleFilled \/ CancelReturns
    <2>1. NextAttempt(resp.size) /\ ~IsFullExit
      BY <1>6 DEF HandleFilled, CancelReturns, IInv, AnswerInv
    <2>2. /\ filled_total + residual = Abs(op.delta_size)
          /\ executed = filled_total + resp.size
      BY <1>1, <2>1 DEF IInv, ExposureInv
    <2>3. /\ filled_total' = filled_total + resp.size
          /\ residual' = residual - resp.size
      BY <2>1 DEF NextAttempt
    <2>4. CASE residual' > 0 /\ attempt_seq + 1 < MaxAttempts
      <3>1. pc' = "record" /\ UNCHANGED results
        BY <2>1, <2>4 DEF NextAttempt
      <3>2. LocalInv'
        BY <1>1, <2>1, <2>4, <3>1, SameOp DEF LocalInv
      <3>. QED
        BY <1>1, <3>1, <3>2, SameLegAll DEF LegPCs
    <2>5. CASE ~(residual' > 0 /\ attempt_seq + 1 < MaxAttempts)
      <3>1. LegDone(EndStatus(residual', filled_total'))
        BY <2>1, <2>5 DEF NextAttempt
      <3>2. PICK s \in LegStatus : LegDone(s) /\ s = EndStatus(residual', filled_total')
        BY <3>1, EndStatusType
      <3>3. s = "filled" => residual' <= 0
        BY <3>2 DEF EndStatus
      <3>4. s = "filled" /\ op.coin \notin strays => executed = Abs(op.delta_size)
        BY <1>2, <1>3, <2>2, <2>3, <3>3
      <3>. QED
        BY <1>1, <3>2, <3>4, LegEndsAll
    <2>. QED
      BY <2>4, <2>5
  <1>7. CASE HandleResting
    <2>1. /\ pc' = "cancel" /\ ~IsFullExit /\ UNCHANGED <<results, residual>>
      BY <1>7 DEF HandleResting
    <2>2. LocalInv'
      BY <1>1, <1>2, <2>1, SameOp DEF LocalInv
    <2>. QED
      BY <1>1, <2>1, <2>2, SameLegAll DEF LegPCs
  <1>. QED
    BY <1>4, <1>5, <1>6, <1>7

-----------------------------------------------------------------------------
(***************************************************************************)
(* Orders.                                                                 *)
(***************************************************************************)
LEMMA FillableAtMost ==
  ASSUME NEW c \in Coin, NEW n \in Int, NEW r \in BOOLEAN, pos[c] \in Int
  PROVE  Fillable(c, n, r) \in Nat /\ Fillable(c, n, r) <= Abs(n)
  <1>1. Abs(n) \in Nat /\ Abs(pos[c]) \in Nat
    BY AbsType
  <1>. QED
    BY <1>1 DEF Fillable, Least

\* An exit starts where the plan was made, and takes the whole of it.
LEMMA ExitFromSnap ==
  ASSUME IInv, PInv, InCycle, Len(results) < Len(plan), IsFullExit
  PROVE  StartAt(op) = snap[op.coin] /\ op.delta_size = -snap[op.coin]
  <1>1. /\ snap[op.coin] \in Int /\ target[op.coin] \in Int
        /\ op.is_close_leg \in BOOLEAN
        /\ op = IF op.is_close_leg THEN PlannedClose(op.coin)
                                   ELSE PlannedMain(op.coin)
    BY LegFacts DEF Leg
  <1>2. CASE op.is_close_leg
    BY <1>1, <1>2 DEF StartAt, PlannedClose
  <1>3. CASE ~op.is_close_leg
    <2>1. target[op.coin] = 0
      BY <1>1, <1>3 DEF PlannedMain, IsFullExit
    <2>2. ~SnapFlips(op.coin)
      BY <1>1, <2>1 DEF SnapFlips
    <2>3. CloseLegs(op.coin) = {}
      BY <2>2 DEF CloseLegs, PInv, PlanInv, PlanParts
    <2>4. op.delta_size = target[op.coin] - snap[op.coin]
      BY <1>1, <1>3, <2>2 DEF PlannedMain
    <2>. QED
      BY <1>1, <1>3, <2>1, <2>3, <2>4 DEF StartAt
  <1>. QED
    BY <1>1, <1>2, <1>3

\* An order goes the way of its leg, for what the leg still wants.
LEMMA OrderOfLeg ==
  ASSUME IInv, PInv, pc = "submit", op.coin \notin strays
  PROVE  /\ OrderSize \in Int /\ Sign(OrderSize) = Sign(op.delta_size)
         /\ executed + Abs(OrderSize) = Abs(op.delta_size)
         /\ pos[op.coin] = StartAt(op) + Sign(op.delta_size) * executed
         /\ IsFullExit => pos[op.coin] + OrderSize = 0
  <1>. DEFINE d == op.delta_size
  <1>1. /\ pc \in LegPCs /\ InCycle /\ Len(results) < Len(plan)
        /\ d \in Int /\ Abs(d) \in Nat /\ Abs(d) > 0 /\ pos[op.coin] \in Int
        /\ snap[op.coin] \in Int
    <2>1. pc \in LegPCs /\ InCycle /\ Len(results) < Len(plan)
      BY DEF LegPCs, InCycle, IInv, TypeOK
    <2>. QED
      BY <2>1, LegFacts, AbsType
  <1>2. /\ pos[op.coin] = StartAt(op) + Sign(d) * executed
        /\ executed \in Nat /\ residual \in Int /\ residual > 0
    BY <1>1 DEF PInv, PosInv, DuringLeg, LocalInv, IInv, TypeOK
  <1>3. CASE IsFullExit
    <2>1. executed = 0 /\ residual = Abs(d)
      BY <1>1, <1>3 DEF PInv, LocalInv
    <2>2. StartAt(op) = snap[op.coin] /\ d = -snap[op.coin]
      BY <1>1, <1>3, ExitFromSnap
    <2>3. Sign(d) * executed = 0
      BY <1>1, <2>1 DEF Sign
    <2>4. pos[op.coin] = -d
      BY <1>1, <1>2, <2>2, <2>3
    <2>5. OrderSize = d
      BY <1>1, <2>1, <2>4, SignAbs DEF OrderSize
    <2>. QED
      BY <1>1, <1>2, <2>1, <2>4, <2>5
  <1>4. CASE ~IsFullExit
    <2>1. filled_total + residual = Abs(d) /\ executed = filled_total
      BY <1>1, <1>4 DEF IInv, ExposureInv
    <2>2. OrderSize = Sign(d) * residual
      BY <1>4 DEF OrderSize, ReduceOnly
    <2>3. OrderSize = IF d < 0 THEN -residual ELSE residual
      BY <1>1, <1>2, <2>2 DEF Sign
    <2>4. OrderSize \in Int /\ Sign(OrderSize) = Sign(d) /\ Abs(OrderSize) = residual
      BY <1>1, <1>2, <2>3 DEF Sign, Abs
    <2>. QED
      BY <1>1, <1>2, <1>4, <2>1, <2>4
  <1>. QED
    BY <1>3, <1>4

\* A submission moves the leg's coin by what it fills, and no other.
LEMMA SubmitPos ==
  ASSUME IInv, PInv, SubmitRefused \/ SubmitFilled \/ SubmitLost \/ SubmitRests
  PROVE  PInv'
  <1>1. pc = "submit" /\ \E kind \in Answers : \E f \in Fills : Answer(kind, f)
    BY SubmitCases
  <1>2. PICK kind \in Answers : \E f \in Fills : Answer(kind, f)
    BY <1>1
  <1>3. PICK f \in Fills : Answer(kind, f)
    BY <1>2
  <1>4. /\ pc \in LegPCs /\ pc' = "answer" /\ InCycle /\ InCycle'
        /\ Len(results) < Len(plan)
    BY <1>1, <1>3 DEF Answer, LegPCs, InCycle, IInv, TypeOK
  <1>5. /\ executed' = executed + f /\ resp'.size = f
        /\ pos' = [pos EXCEPT ![op.coin] = @ + Sign(OrderSize) * f]
        /\ UNCHANGED <<plan, snap, target, results, residual, report, strays>>
    BY <1>3 DEF Answer, Trade, plans
  <1>6. /\ op' = op /\ op.coin \in Coin /\ op.delta_size \in Int
        /\ pos \in [Coin -> Int] /\ executed \in Nat
        /\ DOMAIN plan \subseteq Nat /\ op = plan[Len(results) + 1]
        /\ Len(results) \in Nat /\ DOMAIN results = 1 .. Len(results)
        /\ Len(results) + 1 \in DOMAIN plan
    BY <1>4, <1>5, SameOp, LegFacts DEF IInv, TypeOK
  <1>7. f \in Nat /\ (OrderSize \in Int => f <= Abs(OrderSize))
    <2>1. /\ OrderSize \in Int /\ ReduceOnly \in BOOLEAN
      BY <1>4, CurrentTypes DEF IInv
    <2>2. pos[op.coin] \in Int
      BY <1>6
    <2>3. /\ Fillable(op.coin, OrderSize, ReduceOnly) \in Nat
          /\ Fillable(op.coin, OrderSize, ReduceOnly) <= Abs(OrderSize)
      BY <1>6, <2>1, <2>2, FillableAtMost
    <2>4. Abs(OrderSize) \in Nat
      BY <2>1, AbsType
    <2>. QED
      BY <2>3, <2>4 DEF Fills
  <1>8. LocalInv'
    BY <1>1, <1>4, <1>5, <1>6, <1>7, SameOp DEF PInv, LocalInv
  <1>9. \A c \in Coin \ strays : Untouched(c)'
    <2>1. ASSUME NEW c \in Coin \ strays, c # op.coin
          PROVE  Untouched(c)'
      <3>1. Untouched(c) /\ pos'[c] = pos[c]
        BY <1>4, <1>5, <1>6, <2>1 DEF PInv, PosInv
      <3>. QED
        BY <1>4, <1>5, <3>1 DEF Untouched, Started, LegPCs
    <2>2. ASSUME NEW c \in Coin \ strays, c = op.coin
          PROVE  Untouched(c)'
      BY <1>4, <1>5, <1>6, <2>2 DEF Untouched, Started, LegPCs
    <2>. QED
      BY <2>1, <2>2
  <1>10. \A l : StartAt(l)' = StartAt(l)
    BY <1>5 DEF StartAt, CloseLegs
  <1>11. ASSUME NEW i \in DOMAIN results, plan[i].coin \notin strays
         PROVE  AfterLeg(i)'
    <2>1. i \in DOMAIN plan /\ plan[i] \in Leg /\ i < Len(results) + 1
      BY <1>6 DEF IInv, TypeOK
    <2>2. CASE plan[i].coin = op.coin
      <3>1. PICK k \in DOMAIN plan : k = Len(results) + 1
        BY <1>6
      <3>2. Started(k)' /\ plan[k].coin = plan[i].coin /\ ~(k <= i)
        BY <1>4, <1>5, <1>6, <2>1, <2>2, <3>1 DEF Started, LegPCs
      <3>3. ~Newest(i)'
        BY <1>5, <3>2 DEF Newest
      <3>. QED
        BY <3>3 DEF AfterLeg
    <2>3. CASE plan[i].coin # op.coin
      <3>1. pos'[plan[i].coin] = pos[plan[i].coin]
        BY <1>5, <1>6, <2>1, <2>3 DEF Leg
      <3>2. Newest(i)' => Newest(i)
        BY <1>4, <1>5 DEF Newest, Started, LegPCs
      <3>. QED
        BY <1>4, <1>5, <1>10, <1>11, <3>1, <3>2 DEF PInv, PosInv, AfterLeg
    <2>. QED
      BY <2>2, <2>3
  <1>12. DuringLeg'
    <2>1. SUFFICES ASSUME op.coin \notin strays
                   PROVE  /\ pos'[op.coin] = StartAt(op)
                                               + Sign(op.delta_size) * executed'
                          /\ executed' <= Abs(op.delta_size)
      BY <1>5, <1>6, <1>10 DEF DuringLeg
    <2>2. /\ OrderSize \in Int /\ Sign(OrderSize) = Sign(op.delta_size)
          /\ executed + Abs(OrderSize) = Abs(op.delta_size)
          /\ pos[op.coin] = StartAt(op) + Sign(op.delta_size) * executed
      BY <1>1, <2>1, OrderOfLeg
    <2>3. Abs(OrderSize) \in Nat /\ Abs(op.delta_size) \in Nat /\ Sign(op.delta_size) \in Int
      BY <1>6, <2>2, AbsType
    <2>4. pos'[op.coin] = pos[op.coin] + Sign(op.delta_size) * f
      BY <1>5, <1>6, <2>2
    <2>5. StartAt(op) \in Int
      BY <1>4, <1>6, LegFacts DEF StartAt
    <2>6. Sign(op.delta_size) * (executed + f)
            = Sign(op.delta_size) * executed + Sign(op.delta_size) * f
      BY <1>6, <1>7 DEF Sign
    <2>7. pos'[op.coin] = StartAt(op) + Sign(op.delta_size) * executed'
      <3>1. /\ Sign(op.delta_size) * executed \in Int
            /\ Sign(op.delta_size) * f \in Int
        BY <1>6, <1>7, <2>3
      <3>. QED
        BY <1>5, <2>2, <2>4, <2>5, <2>6, <3>1
    <2>8. executed' <= Abs(op.delta_size)
      BY <1>5, <1>6, <1>7, <2>2, <2>3
    <2>. QED
      BY <2>7, <2>8
  <1>13. PosInv'
    BY <1>5, <1>9, <1>11, <1>12 DEF PosInv
  <1>. QED
    BY <1>4, <1>5, <1>8, <1>13, StaysInCycle DEF PInv

\* A resting order that fills makes its coin a stray.
LEMMA RestFillsPos ==
  ASSUME IInv, PInv, RestFills
  PROVE  PInv'
  <1>1. \E o \in book : \E x \in Int :
            /\ pos' = [pos EXCEPT ![o.cloid.coin] = x]
            /\ strays' = strays \union {o.cloid.coin}
    <2>1. PICK o \in book :
            \E f \in 1 .. Fillable(o.cloid.coin, o.size, o.reduce_only) :
                /\ pos' = [pos EXCEPT ![o.cloid.coin] = @ + Sign(o.size) * f]
                /\ strays' = strays \union {o.cloid.coin}
      BY DEF RestFills
    <2>2. /\ o.cloid.coin \in Coin /\ o.size \in Int
          /\ Fillable(o.cloid.coin, o.size, o.reduce_only) \in Nat
      BY FillableType DEF IInv
    <2>3. PICK f \in 1 .. Fillable(o.cloid.coin, o.size, o.reduce_only) :
                /\ pos' = [pos EXCEPT ![o.cloid.coin] = @ + Sign(o.size) * f]
                /\ strays' = strays \union {o.cloid.coin}
      BY <2>1
    <2>4. pos[o.cloid.coin] \in Int
      BY <2>2 DEF IInv, TypeOK
    <2>5. pos[o.cloid.coin] + Sign(o.size) * f \in Int
      BY <2>2, <2>4, AbsType
    <2>. QED
      BY <2>3, <2>5
  <1>2. /\ UNCHANGED <<pc, plan, snap, target, results, report, residual, resp,
                       executed>>
    BY DEF RestFills, plans, leg
  <1>3. PICK o \in book : \E x \in Int :
            /\ pos' = [pos EXCEPT ![o.cloid.coin] = x]
            /\ strays' = strays \union {o.cloid.coin}
    BY <1>1
  <1>4. \A c \in Coin : c \notin strays' => c \notin strays /\ pos'[c] = pos[c]
    BY <1>3 DEF IInv, TypeOK
  <1>5. \A l : StartAt(l)' = StartAt(l)
    BY <1>2 DEF StartAt, CloseLegs
  <1>6. op' = op
    BY <1>2 DEF op
  <1>7. PlanInv' /\ ReportInv' /\ LocalInv'
    <2>1. PlanInv'
      BY <1>2 DEF PInv, PlanInv, PlanParts, SnapFlips, PlannedClose, PlannedMain, InCycle
    <2>2. ReportInv'
      BY <1>2 DEF PInv, ReportInv, InCycle
    <2>3. LocalInv'
      BY <1>2, <1>6 DEF PInv, LocalInv, IsFullExit
    <2>. QED
      BY <2>1, <2>2, <2>3
  <1>8. CleanMeansAtTarget'
    BY <1>2, <1>4 DEF PInv, CleanMeansAtTarget, WithinMinNotional
  <1>9. ASSUME InCycle
        PROVE  PosInv'
    <2>1. \A c \in Coin : c \notin strays' => Untouched(c)'
      BY <1>2, <1>4, <1>9 DEF PInv, PosInv, Untouched, Started
    <2>2. ASSUME NEW i \in DOMAIN results, plan[i].coin \notin strays'
          PROVE  AfterLeg(i)'
      <3>1. plan[i].coin \in Coin
        <4>1. plan[i] \in Leg
          BY DEF IInv, TypeOK
        <4>. QED
          BY <4>1 DEF Leg
      <3>2. /\ plan[i].coin \notin strays
            /\ pos'[plan[i].coin] = pos[plan[i].coin]
        BY <1>4, <2>2, <3>1
      <3>3. Newest(i)' => Newest(i)
        BY <1>2 DEF Newest, Started
      <3>. QED
        BY <1>2, <1>5, <1>9, <2>2, <3>2, <3>3 DEF PInv, PosInv, AfterLeg
    <2>3. DuringLeg'
      <3>1. SUFFICES ASSUME pc \in LegPCs, op.coin \notin strays'
                     PROVE  /\ pos'[op.coin] = StartAt(op) + Sign(op.delta_size) * executed
                            /\ executed <= Abs(op.delta_size)
        BY <1>2, <1>5, <1>6 DEF DuringLeg
      <3>2. op.coin \in Coin
        BY <3>1, CurrentTypes DEF IInv, Leg
      <3>. QED
        BY <1>4, <1>9, <3>1, <3>2 DEF PInv, PosInv, DuringLeg
    <2>. QED
      BY <1>2, <2>1, <2>2, <2>3 DEF PosInv
  <1>10. PosInv'
    BY <1>2, <1>9 DEF PosInv, InCycle
  <1>. QED
    BY <1>7, <1>8, <1>10 DEF PInv

\* All legs of a plan filled: a coin that was not moved otherwise is at its
\* target, up to what the minimum notional dropped.
LEMMA AllFilledAtTarget ==
  ASSUME IInv, PInv, pc = "dispatch", Len(results) = Len(plan), Clean,
         NEW c \in Coin, c \notin strays
  PROVE  WithinMinNotional(c)
  <1>1. InCycle /\ DOMAIN results = DOMAIN plan /\ DOMAIN plan \subseteq Nat
        /\ \A i \in DOMAIN plan : i <= Len(results)
    BY DEF InCycle, IInv, TypeOK
  <1>2. \A i \in DOMAIN plan : /\ Started(i) /\ results[i] = "filled"
                              /\ plan[i] \in Leg
    <2>1. \A i \in DOMAIN plan : results[i] \in LegStatus /\ plan[i] \in Leg
      BY <1>1 DEF IInv, TypeOK
    <2>. QED
      BY <1>1, <2>1 DEF Clean, LegStatus, Started
  <1>3. /\ snap[c] \in Int /\ target[c] \in Int /\ pos[c] \in Int
        /\ MinSize \in Nat /\ MinSize > 0
    BY ExecutorAssumption DEF IInv, TypeOK, ExecutorAssumption
  <1>4. PlanParts
    BY <1>1 DEF PInv, PlanInv
  <1>5. ASSUME NEW i \in DOMAIN plan, plan[i].coin = c,
               \A j \in DOMAIN plan : plan[j].coin = c => j <= i
        PROVE  pos[c] = StartAt(plan[i]) + plan[i].delta_size
    <2>1. Newest(i)
      BY <1>5 DEF Newest
    <2>. QED
      BY <1>1, <1>2, <1>5, <2>1 DEF PInv, PosInv, AfterLeg
  <1>6. CASE \E m \in DOMAIN plan : plan[m].coin = c /\ ~plan[m].is_close_leg
    <2>1. PICK m \in DOMAIN plan : plan[m].coin = c /\ ~plan[m].is_close_leg
      BY <1>6
    <2>2. ASSUME NEW j \in DOMAIN plan, plan[j].coin = c
          PROVE  j <= m
      <3>1. SUFFICES ASSUME m < j
                     PROVE  FALSE
        BY <1>1
      <3>2. ~plan[j].is_close_leg
        BY <1>4, <2>1, <2>2, <3>1 DEF PlanParts
      <3>3. plan[j].is_close_leg = plan[m].is_close_leg
        BY <1>2, <2>1, <3>2 DEF Leg
      <3>4. j = m
        BY <2>1, <2>2, <3>3 DEF IInv, PlanShape
      <3>. QED
        BY <1>1, <3>1, <3>4
    <2>3. pos[c] = StartAt(plan[m]) + plan[m].delta_size
      BY <1>5, <2>1, <2>2
    <2>4. plan[m] = PlannedMain(c)
      BY <1>4, <2>1 DEF PlanParts
    <2>5. CASE CloseLegs(c) # {}
      <3>1. StartAt(plan[m]) = 0
        BY <2>1, <2>5 DEF StartAt
      <3>2. SnapFlips(c)
        BY <1>4, <2>5 DEF CloseLegs, PlanParts
      <3>3. pos[c] = target[c]
        BY <1>3, <2>3, <2>4, <3>1, <3>2 DEF PlannedMain
      <3>. QED
        BY <1>3, <3>3 DEF WithinMinNotional, Abs
    <2>6. CASE CloseLegs(c) = {}
      <3>1. StartAt(plan[m]) = snap[c]
        BY <2>1, <2>6 DEF StartAt
      <3>2. CASE SnapFlips(c)
        <4>1. ~(Abs(snap[c]) >= MinSize)
          <5>1. SUFFICES ASSUME \E i \in DOMAIN plan : plan[i] = PlannedClose(c)
                         PROVE  FALSE
            BY <1>4, <3>2 DEF PlanParts
          <5>. QED
            BY <2>6, <5>1 DEF CloseLegs, PlannedClose
        <4>2. pos[c] = snap[c] + target[c]
          BY <2>3, <2>4, <3>1, <3>2 DEF PlannedMain
        <4>. QED
          BY <1>3, <4>1, <4>2 DEF WithinMinNotional, Abs
      <3>3. CASE ~SnapFlips(c)
        <4>1. pos[c] = target[c]
          BY <1>3, <2>3, <2>4, <3>1, <3>3 DEF PlannedMain
        <4>. QED
          BY <1>3, <4>1 DEF WithinMinNotional, Abs
      <3>. QED
        BY <3>2, <3>3
    <2>. QED
      BY <2>5, <2>6
  <1>7. CASE ~\E m \in DOMAIN plan : plan[m].coin = c /\ ~plan[m].is_close_leg
    <2>1. ~(Abs(PlannedMain(c).delta_size) >= MinSize)
      BY <1>4, <1>7 DEF PlanParts, PlannedMain
    <2>2. CASE CloseLegs(c) # {}
      <3>1. PICK i \in DOMAIN plan : plan[i].coin = c /\ plan[i].is_close_leg
        BY <2>2 DEF CloseLegs
      <3>2. ASSUME NEW j \in DOMAIN plan, plan[j].coin = c
            PROVE  j <= i
        <4>1. plan[j].is_close_leg = plan[i].is_close_leg
          BY <1>2, <1>7, <3>1, <3>2 DEF Leg
        <4>2. j = i
          BY <3>1, <3>2, <4>1 DEF IInv, PlanShape
        <4>. QED
          BY <1>1, <4>2
      <3>3. pos[c] = StartAt(plan[i]) + plan[i].delta_size
        BY <1>5, <3>1, <3>2
      <3>4. plan[i] = PlannedClose(c) /\ SnapFlips(c)
        BY <1>4, <3>1 DEF PlanParts
      <3>5. pos[c] = 0
        BY <1>3, <3>1, <3>3, <3>4 DEF StartAt, PlannedClose
      <3>6. ~(Abs(target[c]) >= MinSize)
        BY <2>1, <3>4 DEF PlannedMain
      <3>. QED
        BY <1>3, <3>5, <3>6 DEF WithinMinNotional, Abs
    <2>3. CASE CloseLegs(c) = {}
      <3>1. \A i \in DOMAIN plan : plan[i].coin # c
        BY <1>7, <2>3 DEF CloseLegs
      <3>2. pos[c] = snap[c]
        BY <1>1, <3>1 DEF PInv, PosInv, Untouched
      <3>3. CASE SnapFlips(c)
        <4>1. ~(Abs(snap[c]) >= MinSize)
          BY <1>4, <3>1, <3>3 DEF PlanParts, PlannedClose
        <4>2. ~(Abs(target[c]) >= MinSize)
          BY <2>1, <3>3 DEF PlannedMain
        <4>3. pos[c] * target[c] < 0
          BY <1>3, <3>2, <3>3 DEF SnapFlips
        <4>4. Abs(pos[c]) < MinSize /\ Abs(target[c]) < MinSize
          BY <1>3, <3>2, <4>1, <4>2 DEF Abs
        <4>. QED
          BY <4>3, <4>4 DEF WithinMinNotional
      <3>4. CASE ~SnapFlips(c)
        <4>1. ~(Abs(target[c] - snap[c]) >= MinSize)
          BY <2>1, <3>4 DEF PlannedMain
        <4>. QED
          BY <1>3, <3>2, <4>1 DEF WithinMinNotional, Abs
      <3>. QED
        BY <3>3, <3>4
    <2>. QED
      BY <2>2, <2>3
  <1>. QED
    BY <1>6, <1>7

LEMMA FinishPos ==
  ASSUME IInv, PInv, FinishCycle
  PROVE  PInv'
  <1>1. /\ pc = "dispatch" /\ Len(results) = Len(plan) /\ pc' = "idle"
        /\ report' = (IF Clean THEN "clean" ELSE "dirty")
        /\ UNCHANGED <<pos, target, strays>>
    BY DEF FinishCycle, Conclude, plans, venue, history
  <1>2. PlanInv' /\ PosInv' /\ LocalInv' /\ ReportInv'
    BY <1>1 DEF PlanInv, PosInv, LocalInv, ReportInv, InCycle, LegPCs
  <1>3. ASSUME report' = "clean", NEW c \in Coin \ strays
        PROVE  WithinMinNotional(c)'
    <2>1. Clean
      BY <1>1, <1>3
    <2>2. WithinMinNotional(c)
      BY <1>1, <1>3, <2>1, AllFilledAtTarget
    <2>. QED
      BY <1>1, <2>2 DEF WithinMinNotional
  <1>4. CleanMeansAtTarget'
    BY <1>1, <1>3 DEF CleanMeansAtTarget
  <1>. QED
    BY <1>2, <1>4 DEF PInv

-----------------------------------------------------------------------------
(***************************************************************************)
(* The theorems.                                                           *)
(***************************************************************************)
LEMMA InitPos == Init => PInv
  BY DEF Init, PInv, PlanInv, PosInv, LocalInv, ReportInv, CleanMeansAtTarget,
         InCycle, LegPCs

LEMMA NextPos == IInv /\ PInv /\ [Next]_vars => PInv'
  <1>. SUFFICES ASSUME IInv, PInv, [Next]_vars
                PROVE  PInv'
    OBVIOUS
  <1>1. CASE StartCycle
    BY <1>1, StartCyclePos
  <1>2. CASE \/ ReconcileRaises \/ MarksRaise \/ RecordRaises \/ HandleMalformed
             \/ MarkDoneRaises \/ Crash \/ Boot
    BY <1>2, LeavesPos
  <1>3. CASE SkipLeg \/ BeginLeg \/ Record
    BY <1>3, DispatchPos
  <1>4. CASE FinishCycle
    BY <1>4, FinishPos
  <1>5. CASE SubmitRefused \/ SubmitFilled \/ SubmitLost \/ SubmitRests
    BY <1>5, SubmitPos
  <1>6. CASE \/ HandleRefused \/ HandleLost \/ HandleExit \/ HandleFilled
             \/ HandleResting \/ CancelReturns \/ CancelRaises
    BY <1>6, HandlePos
  <1>7. CASE RestFills
    BY <1>7, RestFillsPos
  <1>8. CASE Finished \/ UNCHANGED vars
    <2>1. UNCHANGED <<pc, plan, snap, target, results, report, residual, resp,
                      executed, pos, strays>>
      BY <1>8 DEF Finished, vars, plans, leg, venue, history
    <2>2. PlanInv'
      BY <2>1 DEF PInv, PlanInv, PlanParts, SnapFlips, PlannedClose, PlannedMain,
                  InCycle
    <2>3. PosInv'
      BY <2>1 DEF PInv, PosInv, Untouched, AfterLeg, DuringLeg, Newest, Started,
                  StartAt, CloseLegs, op, InCycle
    <2>4. LocalInv' /\ ReportInv'
      BY <2>1 DEF PInv, LocalInv, ReportInv, op, IsFullExit, InCycle
    <2>5. CleanMeansAtTarget'
      BY <2>1 DEF PInv, CleanMeansAtTarget, WithinMinNotional
    <2>. QED
      BY <2>2, <2>3, <2>4, <2>5 DEF PInv
  <1>. QED
    BY <1>1, <1>2, <1>3, <1>4, <1>5, <1>6, <1>7, <1>8 DEF Next, Progress

\* Every behaviour keeps the plan, the positions and the leg's locals together.
THEOREM PositionsInvariant == Spec => []PInv
  <1>1. IInv /\ PInv /\ [Next]_vars => PInv'
    BY NextPos
  <1>. QED
    BY InitPos, <1>1, InductiveInvariant, PTL DEF Spec

\* A clean report, on which run_cycle commits the target as the baseline, means
\* every coin is at its target up to what the minimum notional drops, unless
\* one of its resting orders has filled since the positions were read.
THEOREM CleanAlwaysAtTarget == Spec => []CleanMeansAtTarget
  <1>1. PInv => CleanMeansAtTarget
    BY DEF PInv
  <1>. QED
    BY <1>1, PositionsInvariant, PTL

LEMMA AbsBySign ==
  ASSUME NEW n \in Int
  PROVE  /\ Sign(n) = 1 => Abs(n) = n
         /\ Sign(n) = -1 => Abs(n) = -n
  BY SMT DEF Abs, Sign

\* Between two sizes on one side of zero there is none on the other.
LEMMA Between ==
  ASSUME NEW s \in Int, NEW t \in Int, NEW e \in Nat, NEW n \in Nat, NEW p \in Int,
         ~((t < 0 /\ s > 0) \/ (t > 0 /\ s < 0)),
         e + n = Abs(t - s),
         IF t - s < 0 THEN p = s - e ELSE p = s + e
  PROVE  ~((p < 0 /\ t > 0) \/ (p > 0 /\ t < 0))
  BY SMT DEF Abs

LEMMA Product ==
  ASSUME NEW m \in Int, NEW n \in Int
  PROVE  m * n < 0 <=> (m < 0 /\ n > 0) \/ (m > 0 /\ n < 0)
  BY SMT

\* An order of a coin that nothing else moved ends where its leg ends.
LEMMA NoCrossing ==
  ASSUME IInv, PInv, pc = "submit", op.coin \notin strays,
         pos[op.coin] * (pos[op.coin] + OrderSize) < 0
  PROVE  0 < Abs(snap[op.coin]) /\ Abs(snap[op.coin]) < MinSize
  <1>. DEFINE c == op.coin
              d == op.delta_size
  <1>1. pc \in LegPCs /\ InCycle /\ Len(results) < Len(plan)
    BY DEF LegPCs, InCycle, IInv, TypeOK
  <1>2. /\ op.coin \in Coin /\ d \in Int /\ pos[c] \in Int
        /\ snap[c] \in Int /\ target[c] \in Int /\ Abs(d) > 0
        /\ op = IF op.is_close_leg THEN PlannedClose(c) ELSE PlannedMain(c)
    BY <1>1, LegFacts
  <1>3. /\ OrderSize \in Int /\ Sign(OrderSize) = Sign(d)
        /\ executed + Abs(OrderSize) = Abs(d)
        /\ pos[c] = StartAt(op) + Sign(d) * executed
        /\ IsFullExit => pos[c] + OrderSize = 0
    BY OrderOfLeg
  <1>4. executed \in Nat
    BY DEF IInv, TypeOK
  <1>5. ~IsFullExit
    <2>1. SUFFICES ASSUME pos[c] + OrderSize = 0
                   PROVE  FALSE
      BY <1>3
    <2>. QED
      BY <1>2, <2>1
  <1>6. ~op.is_close_leg /\ op = PlannedMain(c) /\ target[c] # 0
    <2>1. op.is_close_leg => IsFullExit
      BY <1>2 DEF PlannedClose, IsFullExit
    <2>2. op = PlannedMain(c)
      BY <1>2, <1>5, <2>1
    <2>. QED
      BY <1>5, <2>1, <2>2 DEF PlannedMain, IsFullExit
  <1>7. \/ (pos[c] < 0 /\ pos[c] + OrderSize > 0)
        \/ (pos[c] > 0 /\ pos[c] + OrderSize < 0)
    <2>1. pos[c] \in Int /\ pos[c] + OrderSize \in Int
      BY <1>2, <1>3
    <2>. QED
      BY <2>1, Product
  <1>8. /\ d < 0 => /\ pos[c] = StartAt(op) - executed
                    /\ pos[c] + OrderSize = StartAt(op) + d
        /\ ~(d < 0) => /\ pos[c] = StartAt(op) + executed
                       /\ pos[c] + OrderSize = StartAt(op) + d
    <2>1. StartAt(op) \in Int
      BY <1>2 DEF StartAt
    <2>2. /\ Sign(OrderSize) = 1 => Abs(OrderSize) = OrderSize
          /\ Sign(OrderSize) = -1 => Abs(OrderSize) = -OrderSize
      BY <1>3, AbsBySign
    <2>3. CASE d < 0
      <3>1. Sign(d) = -1 /\ Abs(d) = -d
        BY <2>3 DEF Sign, Abs
      <3>2. Abs(OrderSize) = -OrderSize
        BY <1>3, <2>2, <3>1
      <3>3. Sign(d) * executed = -executed
        BY <1>4, <3>1
      <3>. QED
        BY <1>2, <1>3, <1>4, <2>1, <2>3, <3>1, <3>2, <3>3
    <2>4. CASE ~(d < 0)
      <3>1. Sign(d) = 1 /\ Abs(d) = d
        BY <2>4 DEF Sign, Abs
      <3>2. Abs(OrderSize) = OrderSize
        BY <1>3, <2>2, <3>1
      <3>3. Sign(d) * executed = executed
        BY <1>4, <3>1
      <3>. QED
        BY <1>2, <1>3, <1>4, <2>1, <2>4, <3>1, <3>2, <3>3
    <2>. QED
      BY <2>3, <2>4
  <1>9. CASE CloseLegs(c) # {}
    <2>1. StartAt(op) = 0
      BY <1>6, <1>9 DEF StartAt
    <2>. QED
      BY <1>2, <1>3, <1>4, <1>7, <1>8, <2>1
  <1>10. CASE CloseLegs(c) = {}
    <2>1. StartAt(op) = snap[c]
      BY <1>6, <1>10 DEF StartAt
    <2>2. CASE SnapFlips(c)
      <3>1. ~(Abs(snap[c]) >= MinSize)
        <4>1. SUFFICES ASSUME \E i \in DOMAIN plan : plan[i] = PlannedClose(c)
                       PROVE  FALSE
          BY <1>1, <1>2, <2>2 DEF PInv, PlanInv, PlanParts
        <4>. QED
          BY <1>10, <4>1 DEF CloseLegs, PlannedClose
      <3>2. snap[c] # 0
        BY <1>2, <2>2 DEF SnapFlips
      <3>3. Abs(snap[c]) \in Nat /\ Abs(snap[c]) # 0
        BY <1>2, <3>2, AbsType
      <3>4. MinSize \in Nat
        BY ExecutorAssumption DEF ExecutorAssumption
      <3>. QED
        BY <3>1, <3>3, <3>4
    <2>3. CASE ~SnapFlips(c)
      <3>1. d = target[c] - snap[c]
        BY <1>6, <2>3 DEF PlannedMain
      <3>2. ~((target[c] < 0 /\ snap[c] > 0) \/ (target[c] > 0 /\ snap[c] < 0))
        BY <1>2, <2>3, Product DEF SnapFlips
      <3>3. Abs(OrderSize) \in Nat
        BY <1>3, AbsType
      <3>4. /\ executed + Abs(OrderSize) = Abs(target[c] - snap[c])
            /\ IF target[c] - snap[c] < 0 THEN pos[c] = snap[c] - executed
                                          ELSE pos[c] = snap[c] + executed
        BY <1>3, <1>8, <2>1, <3>1
      <3>5. ~((pos[c] < 0 /\ target[c] > 0) \/ (pos[c] > 0 /\ target[c] < 0))
        <4>1. snap[c] \in Int /\ target[c] \in Int /\ pos[c] \in Int
          BY <1>2
        <4>. HIDE DEF c
        <4>. QED
          BY <1>4, <3>2, <3>3, <3>4, <4>1, Between
      <3>6. pos[c] + OrderSize = target[c]
        BY <1>2, <1>8, <2>1, <3>1
      <3>. QED
        BY <1>7, <3>5, <3>6
    <2>. QED
      BY <2>2, <2>3
  <1>. QED
    BY <1>9, <1>10

\* No order crosses zero (spec 7, H4), unless the coin's plan was made from a
\* position too small for a close leg, or one of its own resting orders has
\* filled since.
THEOREM NeverCrosses == Spec => CrossesOnlyFromDust
  <1>. DEFINE Dust == 0 < Abs(snap[op.coin]) /\ Abs(snap[op.coin]) < MinSize
  <1>1. IInv /\ PInv /\ [Next]_vars =>
            [SendsAcrossZero => op.coin \in strays \/ Dust]_vars
    BY NoCrossing DEF SendsAcrossZero
  <1>. QED
    BY <1>1, InductiveInvariant, PositionsInvariant, PTL DEF Spec, CrossesOnlyFromDust
=============================================================================
