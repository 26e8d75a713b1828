---------------------------- MODULE GuardsProofs ----------------------------
(***************************************************************************)
(* Guards is well-formed, and its safety properties hold, for every set of *)
(* coins, every size and leverage, and any number of faults.               *)
(***************************************************************************)
EXTENDS Guards, TLAPS

-----------------------------------------------------------------------------
(***************************************************************************)
(* Numbers.                                                                *)
(***************************************************************************)
LEMMA AbsType ==
  ASSUME NEW n \in Int
  PROVE  Abs(n) \in Nat /\ Sign(n) \in Int
  BY DEF Abs, Sign

LEMMA LargerType ==
  ASSUME NEW m \in Nat, NEW n \in Nat
  PROVE  Larger(m, n) \in Nat /\ m <= Larger(m, n) /\ n <= Larger(m, n)
  BY DEF Larger

\* A part of a size, with the sign of the size.
LEMMA PartOf ==
  ASSUME NEW n \in Int, NEW f \in 0 .. Abs(n)
  PROVE  /\ f \in Nat /\ Sign(n) * f \in Int
         /\ Reduced(n, Sign(n) * f)
         /\ f >= Abs(n) => Sign(n) * f = n
  <1>1. CASE n < 0
    <2>1. Sign(n) = -1 /\ f \in 0 .. -n /\ Abs(n) = -n
      BY <1>1 DEF Sign, Abs
    <2>2. Sign(n) * f = -f
      BY <2>1
    <2>. QED
      BY <1>1, <2>1, <2>2 DEF Reduced
  <1>2. CASE n = 0
    <2>1. Sign(n) = 0 /\ f = 0
      BY <1>2 DEF Sign, Abs
    <2>2. Sign(n) * f = 0
      BY <2>1
    <2>. QED
      BY <1>2, <2>1, <2>2 DEF Reduced
  <1>3. CASE n > 0
    <2>1. Sign(n) = 1 /\ f \in 0 .. n /\ Abs(n) = n
      BY <1>3 DEF Sign, Abs
    <2>2. Sign(n) * f = f
      BY <2>1
    <2>. QED
      BY <1>3, <2>1, <2>2 DEF Reduced
  <1>. QED
    BY <1>1, <1>2, <1>3

\* A reduce-only fill moves a position towards zero.
LEMMA CloseReduces ==
  ASSUME NEW n \in Int, NEW f \in 0 .. Abs(n)
  PROVE  /\ n + (-Sign(n) * f) \in Int
         /\ Reduced(n, n + (-Sign(n) * f))
         /\ f >= Abs(n) => n + (-Sign(n) * f) = 0
  <1>. DEFINE part == Sign(n) * f
  <1>1. /\ part \in Int /\ Reduced(n, part)
        /\ f >= Abs(n) => part = n
    BY PartOf
  <1>2. -Sign(n) * f = -part
    <2>1. Sign(n) \in {-1, 0, 1} /\ f \in Int
      BY PartOf DEF Sign
    <2>. QED
      BY <2>1
  <1>. HIDE DEF part
  <1>. QED
    BY <1>1, <1>2 DEF Reduced

LEMMA ReducedAbs ==
  ASSUME NEW m \in Int, NEW n \in Int, Reduced(m, n)
  PROVE  Abs(n) <= Abs(m) /\ (m = 0 => n = 0)
  BY DEF Reduced, Abs

LEMMA LegsType ==
  ASSUME NEW have \in Int, NEW want \in Int
  PROVE  /\ CloseLeg(have, want) \in Nat
         /\ OpenLeg(have, want) \in Int
         /\ Larger(Abs(have), Abs(want)) \in Nat
  <1>1. Abs(have) \in Nat /\ Abs(want) \in Nat
    BY AbsType
  <1>2. CloseLeg(have, want) \in Nat
    BY <1>1 DEF CloseLeg
  <1>3. OpenLeg(have, want) \in Int
    BY DEF OpenLeg
  <1>. QED
    BY <1>1, <1>2, <1>3, LargerType

-----------------------------------------------------------------------------
(***************************************************************************)
(* Types.                                                                  *)
(***************************************************************************)

\* What a reduce-only order does to the positions.
LEMMA MarketCloseReduces ==
  ASSUME TypeOK, NEW c \in Coin, NEW f, market_close(c, f)
  PROVE  /\ pos' \in [Coin -> Int] /\ grew' = grew
         /\ \A d \in Coin : Reduced(pos[d], pos'[d])
         /\ \A d \in Coin : d # c => pos'[d] = pos[d]
         /\ f \in Nat /\ (f >= Abs(pos[c]) => pos'[c] = 0)
  <1>. DEFINE n == -Sign(pos[c]) * f
  <1>1. pos[c] \in Int /\ pos \in [Coin -> Int]
    BY DEF TypeOK
  <1>2. Abs(pos[c]) \in Nat
    BY <1>1, AbsType
  <1>3. f \in 0 .. Abs(pos[c])
    BY <1>2 DEF market_close, Fillable
  <1>4. /\ pos[c] + n \in Int
        /\ Reduced(pos[c], pos[c] + n)
        /\ f >= Abs(pos[c]) => pos[c] + n = 0
    BY <1>1, <1>3, CloseReduces
  <1>5. Trade(c, n)
    BY DEF market_close
  <1>. HIDE DEF n
  <1>6. pos' = [pos EXCEPT ![c] = pos[c] + n]
    BY <1>5, <1>1 DEF Trade
  <1>7. \A d \in Coin : pos[d] \in Int /\ Reduced(pos[d], pos[d])
    BY <1>1 DEF Reduced, Abs
  <1>8. ~(Abs(pos[c] + n) > Abs(pos[c]))
    <2>1. Abs(pos[c] + n) \in Nat /\ Abs(pos[c] + n) <= Abs(pos[c])
      BY <1>1, <1>4, ReducedAbs, AbsType
    <2>. QED
      BY <2>1, <1>2
  <1>9. /\ grew' = [p \in Flattener |-> grew[p]]
        /\ grew \in [Flattener -> SUBSET Coin]
    BY <1>5, <1>8 DEF Trade, TypeOK
  <1>10. grew' = grew
    BY <1>9
  <1>. QED
    BY <1>1, <1>3, <1>4, <1>6, <1>7, <1>10

LEMMA TradeType ==
  ASSUME TypeOK, NEW c \in Coin, NEW n \in Int, Trade(c, n)
  PROVE  pos' \in [Coin -> Int] /\ grew' \in [Flattener -> SUBSET Coin]
  BY DEF TypeOK, Trade

LEMMA FaultType ==
  ASSUME TypeOK, Fault
  PROVE  faults' \in 0 .. MaxFaults
  BY GuardsAssumption DEF TypeOK, Fault, GuardsAssumption

LEMMA LeverageType ==
  ASSUME TypeOK, NEW c \in Coin, NEW s \in Setting, update_leverage(c, s)
  PROVE  lev' \in [Coin -> Setting] /\ faults' \in 0 .. MaxFaults
  <1>1. lev' \in [Coin -> Setting]
    BY DEF TypeOK, update_leverage
  <1>2. faults' \in 0 .. MaxFaults
    BY FaultType DEF update_leverage, TypeOK
  <1>. QED
    BY <1>1, <1>2

LEMMA FlatType ==
  /\ Flat \in [Coin -> Nat] /\ Flat \in [Coin -> Int]
  /\ \A c \in Coin : Flat[c] = 0
  BY DEF Flat

LEMMA ForgetType ==
  ASSUME TypeOK, NEW p \in Flattener, Forget(p)
  PROVE  /\ requested' \in [Flattener -> [Coin -> Int]]
         /\ filled' \in [Flattener -> SUBSET Coin]
         /\ grew' \in [Flattener -> SUBSET Coin]
  BY FlatType DEF TypeOK, Forget

LEMMA PcType ==
  ASSUME TypeOK, NEW p \in Proc, NEW place \in PCs, Goto(p, place)
  PROVE  pc' \in [Proc -> PCs]
  BY DEF TypeOK, Goto

LEMMA AtType ==
  ASSUME TypeOK, NEW p \in Flattener, NEW c \in Coin \union {"none"}, At(p, c)
  PROVE  at' \in [Flattener -> Coin \union {"none"}]
  BY DEF TypeOK, At

LEMMA TypeInit == Init => TypeOK
  <1>. SUFFICES ASSUME Init PROVE TypeOK
    OBVIOUS
  <1>1. pos \in [Coin -> Int]
    BY GuardsAssumption DEF Init, Targets, GuardsAssumption
  <1>2. lev \in [Coin -> Setting]
    BY DEF Init
  <1>3. pc \in [Proc -> PCs]
    BY DEF Init, Proc, PCs
  <1>4. limit \in 1 .. MaxLev /\ faults \in 0 .. MaxFaults
    BY GuardsAssumption DEF Init, GuardsAssumption
  <1>. QED
    BY <1>1, <1>2, <1>3, <1>4, FlatType DEF Init, TypeOK, Flattener

LEMMA TypeNext ==
  ASSUME TypeOK, [Next]_vars
  PROVE  TypeOK'
  <1>. USE DEF venue, host, flatten, boot, legs, guard, history
  <1>0. "daemon" \in Proc /\ "watchdog" \in Proc /\ "guard" \in Proc
        /\ "daemon" \in Flattener /\ "watchdog" \in Flattener
        /\ Flattener \subseteq Proc
    BY DEF Proc, Flattener
  <1>1. ASSUME NEW p \in Flattener, NEW c \in Coin, RecordPending(p, c)
        PROVE  TypeOK'
    <2>1. requested' \in [Flattener -> [Coin -> Int]]
      BY SMTT(20), <1>1 DEF RecordPending, TypeOK
    <2>2. pc' \in [Proc -> PCs] /\ at' \in [Flattener -> Coin \union {"none"}]
      BY <1>1, <1>0, PcType, AtType DEF RecordPending, TypeOK, PCs
    <2>3. faults' \in 0 .. MaxFaults
      BY <1>1, FaultType DEF RecordPending, TypeOK
    <2>. QED
      BY <1>1, <2>1, <2>2, <2>3 DEF RecordPending, TypeOK
  <1>2. ASSUME NEW p \in Flattener, NEW c \in Coin, MarketClose(p, c)
        PROVE  TypeOK'
    <2>1. PICK f : market_close(c, f)
      BY <1>2 DEF MarketClose, Close
    <2>2. pos' \in [Coin -> Int] /\ grew' = grew
      BY <2>1, MarketCloseReduces
    <2>3. pc' \in [Proc -> PCs] /\ at' \in [Flattener -> Coin \union {"none"}]
      BY <1>2, <1>0, PcType, AtType DEF MarketClose, PCs
    <2>4. requested' \in [Flattener -> [Coin -> Int]]
      BY <1>2 DEF MarketClose, TypeOK
    <2>5. filled' \in [Flattener -> SUBSET Coin]
      BY <1>2 DEF MarketClose, TypeOK
    <2>. QED
      BY <1>2, <2>2, <2>3, <2>4, <2>5 DEF MarketClose, TypeOK
  <1>3. ASSUME NEW p \in Flattener, EndFlatten(p)
        PROVE  TypeOK'
    <2>1. pc' \in [Proc -> PCs]
      BY <1>3, <1>0, PcType DEF EndFlatten, Caller, PCs
    <2>. QED
      BY <1>3, <2>1, ForgetType DEF EndFlatten, TypeOK
  <1>4. ASSUME Boot PROVE TypeOK'
    <2>1. pc' \in [Proc -> PCs]
      BY <1>4, <1>0, PcType DEF Boot, PCs, TypeOK
    <2>2. faults' \in 0 .. MaxFaults
      BY <1>4, FaultType DEF Boot, TypeOK
    <2>3. /\ coins' \subseteq Coin /\ drifted' \subseteq Coin
          /\ lock' \in {"free", "daemon", "guard"}
      BY <1>4 DEF Boot, TypeOK, WrongMode, Held
    <2>. QED
      BY <1>4, <2>1, <2>2, <2>3 DEF Boot, TypeOK
  <1>5. ASSUME NEW c \in Coin, _flatten_for_leverage(c) PROVE TypeOK'
    <2>1. PICK f : market_close(c, f)
      BY <1>5 DEF _flatten_for_leverage
    <2>2. pos' \in [Coin -> Int] /\ grew' = grew
      BY <2>1, MarketCloseReduces
    <2>3. at' \in [Flattener -> Coin \union {"none"}]
      BY <1>5, <1>0, AtType DEF _flatten_for_leverage
    <2>. QED
      BY <1>5, <2>2, <2>3 DEF _flatten_for_leverage, TypeOK
  <1>6. ASSUME NEW c \in Coin, BootSetsLeverage(c) PROVE TypeOK'
    <2>1. [type |-> target_type, value |-> target_leverage] \in Setting
      BY GuardsAssumption DEF GuardsAssumption, Setting
    <2>2. lev' \in [Coin -> Setting] /\ faults' \in 0 .. MaxFaults
      BY <1>6, <2>1, LeverageType DEF BootSetsLeverage
    <2>3. at' \in [Flattener -> Coin \union {"none"}]
      BY <1>6, <1>0, AtType DEF BootSetsLeverage
    <2>. QED
      BY <1>6, <2>2, <2>3 DEF BootSetsLeverage, TypeOK
  <1>7. ASSUME EndBoot PROVE TypeOK'
    <2>1. pc' \in [Proc -> PCs]
      BY <1>7, <1>0, PcType DEF EndBoot, PCs
    <2>. QED
      BY <1>7, <2>1 DEF EndBoot, TypeOK
  <1>8. ASSUME NEW p \in Flattener, StartFlatten(p),
               UNCHANGED <<pos, lev, flag, lock, low, at, filled, boot, legs,
                           guard, history>>,
               stale' \in BOOLEAN
        PROVE  TypeOK'
    <2>1. pc' \in [Proc -> PCs]
      BY <1>8, <1>0, PcType DEF StartFlatten, PCs, TypeOK
    <2>2. requested' \in [Flattener -> [Coin -> Int]]
      BY <1>8 DEF StartFlatten, TypeOK
    <2>3. faults' \in 0 .. MaxFaults
      BY <1>8, FaultType DEF StartFlatten, TypeOK
    <2>. QED
      BY <1>8, <2>1, <2>2, <2>3 DEF TypeOK
  <1>9. ASSUME TickKilled \/ TickDerisk PROVE TypeOK'
    BY <1>9, <1>8, <1>0 DEF TickKilled, TickDerisk
  <1>10. ASSUME TickIdle PROVE TypeOK'
    BY <1>10 DEF TickIdle, TypeOK
  <1>11. ASSUME TickCycle PROVE TypeOK'
    <2>1. PICK target \in Targets :
             /\ closing' = [c \in Coin |-> CloseLeg(pos[c], target[c])]
             /\ left' = [c \in Coin |-> OpenLeg(pos[c], target[c])]
             /\ reach' = [c \in Coin |-> Larger(Abs(pos[c]), Abs(target[c]))]
      BY <1>11 DEF TickCycle
    <2>2. \A c \in Coin : pos[c] \in Int /\ target[c] \in Int
      BY GuardsAssumption DEF Targets, GuardsAssumption, TypeOK
    <2>3. \A c \in Coin : /\ CloseLeg(pos[c], target[c]) \in Nat
                          /\ OpenLeg(pos[c], target[c]) \in Int
                          /\ Larger(Abs(pos[c]), Abs(target[c])) \in Nat
      BY <2>2, LegsType
    <2>4. pc' \in [Proc -> PCs]
      BY <1>11, <1>0, PcType DEF TickCycle, PCs
    <2>5. /\ closing' \in [Coin -> Nat] /\ left' \in [Coin -> Int]
          /\ reach' \in [Coin -> Nat]
      BY <2>1, <2>3
    <2>. QED
      BY <1>11, <2>4, <2>5 DEF TickCycle, TypeOK
  <1>12. ASSUME NEW c \in Coin, CycleCloses(c) PROVE TypeOK'
    <2>1. PICK f : market_close(c, f)
      BY <1>12 DEF CycleCloses
    <2>2. pos' \in [Coin -> Int] /\ grew' = grew
      BY <2>1, MarketCloseReduces
    <2>3. left' \in [Coin -> Int] /\ closing' \in [Coin -> Nat]
      BY <1>12 DEF CycleCloses, TypeOK
    <2>. QED
      BY <1>12, <2>2, <2>3 DEF CycleCloses, TypeOK
  <1>13. ASSUME NEW c \in Coin, CycleTrades(c) PROVE TypeOK'
    <2>1. left[c] \in Int /\ Sign(left[c]) \in Int /\ Abs(left[c]) \in Nat
      BY AbsType DEF TypeOK
    <2>2. PICK f \in 0 .. Abs(left[c]) :
             /\ Trade(c, Sign(left[c]) * f)
             /\ \/ left' = [left EXCEPT ![c] = left[c] - Sign(left[c]) * f]
                \/ left' = [left EXCEPT ![c] = 0]
      BY <1>13 DEF CycleTrades, TypeOK
    <2>3. Sign(left[c]) * f \in Int
      BY <2>1, <2>2
    <2>4. pos' \in [Coin -> Int] /\ grew' \in [Flattener -> SUBSET Coin]
      BY <2>2, <2>3, TradeType
    <2>5. left[c] - Sign(left[c]) * f \in Int
      BY <2>1, <2>3
    <2>6. left' \in [Coin -> Int]
      BY <2>2, <2>5 DEF TypeOK
    <2>7. at' \in [Flattener -> Coin \union {"none"}]
      BY <1>13, <1>0, AtType DEF CycleTrades
    <2>. QED
      BY <1>13, <2>4, <2>6, <2>7 DEF CycleTrades, TypeOK
  <1>14. ASSUME EndCycle PROVE TypeOK'
    <2>1. pc' \in [Proc -> PCs]
      BY <1>14, <1>0, PcType DEF EndCycle, PCs
    <2>. QED
      BY <1>14, <2>1, FlatType DEF EndCycle, TypeOK
  <1>15. ASSUME CycleRaises PROVE TypeOK'
    <2>1. pc' \in [Proc -> PCs] /\ at' \in [Flattener -> Coin \union {"none"}]
      BY <1>15, <1>0, PcType, AtType DEF CycleRaises, PCs
    <2>2. faults' \in 0 .. MaxFaults
      BY <1>15, FaultType DEF CycleRaises
    <2>. QED
      BY <1>15, <2>1, <2>2, FlatType DEF CycleRaises, TypeOK
  <1>16. ASSUME Crash PROVE TypeOK'
    <2>1. pc' \in [Proc -> PCs] /\ at' \in [Flattener -> Coin \union {"none"}]
      BY <1>16, <1>0, PcType, AtType DEF Crash, PCs
    <2>2. faults' \in 0 .. MaxFaults
      BY <1>16, FaultType DEF Crash
    <2>3. /\ requested' \in [Flattener -> [Coin -> Int]]
          /\ filled' \in [Flattener -> SUBSET Coin]
          /\ grew' \in [Flattener -> SUBSET Coin]
      BY <1>16, <1>0, ForgetType DEF Crash
    <2>. QED
      BY <1>16, <2>1, <2>2, <2>3, FlatType DEF Crash, TypeOK
  <1>17. ASSUME Check PROVE TypeOK'
    <2>1. stale' \in BOOLEAN
      BY <1>17 DEF Check, TypeOK
    <2>. QED
      BY <1>17, <2>1, <1>8, <1>0 DEF Check
  <1>18. ASSUME WatchdogRestarts PROVE TypeOK'
    <2>1. pc' \in [Proc -> PCs] /\ at' \in [Flattener -> Coin \union {"none"}]
      BY <1>18, <1>0, PcType, AtType DEF WatchdogRestarts, PCs
    <2>2. faults' \in 0 .. MaxFaults
      BY <1>18, FaultType DEF WatchdogRestarts
    <2>3. /\ requested' \in [Flattener -> [Coin -> Int]]
          /\ filled' \in [Flattener -> SUBSET Coin]
          /\ grew' \in [Flattener -> SUBSET Coin]
      BY <1>18, <1>0, ForgetType DEF WatchdogRestarts
    <2>. QED
      BY <1>18, <2>1, <2>2, <2>3 DEF WatchdogRestarts, TypeOK
  <1>19. ASSUME StartGuard PROVE TypeOK'
    <2>1. pc' \in [Proc -> PCs]
      BY <1>19, <1>0, PcType DEF StartGuard, PCs
    <2>2. limit' \in 1 .. MaxLev /\ lock' \in {"free", "daemon", "guard"}
      BY <1>19 DEF StartGuard
    <2>3. \A c \in Coin : lev[c].type \in Modes
      BY DEF TypeOK, Setting
    <2>4. to_lower' \subseteq [coin : Coin, type : Modes]
      BY <1>19, <2>3 DEF StartGuard, Held
    <2>5. mismatch' \subseteq Coin
      BY <1>19 DEF StartGuard, WrongMode, Held
    <2>. QED
      BY <1>19, <2>1, <2>2, <2>4, <2>5 DEF StartGuard, TypeOK
  <1>20. ASSUME NEW x \in to_lower, GuardLowers(x) PROVE TypeOK'
    <2>1. x \in [coin : Coin, type : Modes] /\ limit \in 1 .. MaxLev
      BY DEF TypeOK
    <2>2. x.coin \in Coin /\ [type |-> x.type, value |-> limit] \in Setting
      BY <2>1 DEF Setting
    <2>3. lev' \in [Coin -> Setting] /\ faults' \in 0 .. MaxFaults
      BY <1>20, <2>2, LeverageType DEF GuardLowers
    <2>4. to_lower' \subseteq to_lower
      BY <1>20 DEF GuardLowers
    <2>. QED
      BY <1>20, <2>3, <2>4 DEF GuardLowers, TypeOK
  <1>21. ASSUME GuardEnforcesType PROVE TypeOK'
    <2>1. pc' \in [Proc -> PCs]
      BY <1>21, <1>0, PcType DEF GuardEnforcesType, PCs
    <2>. QED
      BY <1>21, <2>1 DEF GuardEnforcesType, TypeOK
  <1>22. ASSUME NEW c \in Coin, GuardCloses(c) PROVE TypeOK'
    <2>1. PICK f : market_close(c, f)
      BY <1>22 DEF GuardCloses
    <2>2. pos' \in [Coin -> Int] /\ grew' = grew
      BY <2>1, MarketCloseReduces
    <2>. QED
      BY <1>22, <2>2 DEF GuardCloses, TypeOK
  <1>23. ASSUME LeaveGuard, faults' \in 0 .. MaxFaults PROVE TypeOK'
    <2>1. pc' \in [Proc -> PCs]
      BY <1>23, <1>0, PcType DEF LeaveGuard, PCs
    <2>. QED
      BY <1>23, <2>1, GuardsAssumption DEF LeaveGuard, TypeOK, GuardsAssumption
  <1>24. ASSUME GuardEnds \/ GuardKilled PROVE TypeOK'
    <2>1. LeaveGuard /\ faults' \in 0 .. MaxFaults
      BY <1>24, FaultType DEF GuardEnds, GuardKilled, TypeOK
    <2>. QED
      BY <2>1, <1>23
  <1>25. ASSUME SetFlag \/ HeartbeatAges \/ EquityMoves PROVE TypeOK'
    <2>1. faults' \in 0 .. MaxFaults
      BY <1>25, FaultType DEF SetFlag, HeartbeatAges, EquityMoves, TypeOK
    <2>. QED
      BY <1>25, <2>1 DEF SetFlag, HeartbeatAges, EquityMoves, TypeOK
  <1>26. CASE UNCHANGED vars
    BY <1>26 DEF vars, TypeOK
  <1>. QED
    BY <1>0, <1>1, <1>2, <1>3, <1>4, <1>5, <1>6, <1>7, <1>9, <1>10, <1>11,
       <1>12, <1>13, <1>14, <1>15, <1>16, <1>17, <1>18, <1>19, <1>20, <1>21,
       <1>22, <1>24, <1>25, <1>26
       DEF Next, DaemonWorks, GuardWorks, FlattenAll

\* The processes, the venue and the history stay well-formed in every
\* behaviour.
THEOREM TypeCorrect == Spec => []TypeOK
  <1>1. TypeOK /\ [Next]_vars => TypeOK'
    BY TypeNext
  <1>. QED
    BY TypeInit, <1>1, PTL DEF Spec

-----------------------------------------------------------------------------
(***************************************************************************)
(* Positions.                                                              *)
(***************************************************************************)

\* A step other than a plain order of a rebalance closes or leaves alone.
LEMMA Closes ==
  ASSUME TypeOK, [Next]_vars, ~ \E c \in Coin : CycleTrades(c)
  PROVE  \A c \in Coin : Reduced(pos[c], pos'[c])
  <1>. USE DEF venue
  <1>1. ASSUME NEW c \in Coin, NEW f, market_close(c, f)
        PROVE  \A d \in Coin : Reduced(pos[d], pos'[d])
    BY <1>1, MarketCloseReduces
  <1>2. ASSUME UNCHANGED pos PROVE \A c \in Coin : Reduced(pos[c], pos'[c])
    BY <1>2 DEF TypeOK, Reduced
  <1>3. ASSUME NEW p \in Flattener, FlattenAll(p)
        PROVE  \A c \in Coin : Reduced(pos[c], pos'[c])
    BY <1>3, <1>1, <1>2
       DEF FlattenAll, RecordPending, MarketClose, EndFlatten, Close
  <1>4. ASSUME DaemonWorks PROVE \A c \in Coin : Reduced(pos[c], pos'[c])
    <2>1. ASSUME NEW c \in Coin,
                 _flatten_for_leverage(c) \/ CycleCloses(c)
          PROVE  \A d \in Coin : Reduced(pos[d], pos'[d])
      BY <2>1, <1>1 DEF _flatten_for_leverage, CycleCloses
    <2>2. ASSUME NEW c \in Coin, BootSetsLeverage(c)
          PROVE  UNCHANGED pos
      BY <2>2 DEF BootSetsLeverage
    <2>3. ASSUME EndBoot \/ TickKilled \/ TickIdle \/ EndCycle
          PROVE  UNCHANGED pos
      BY <2>3 DEF EndBoot, TickKilled, TickIdle, EndCycle
    <2>. QED
      BY <1>4, <1>2, <1>3, <2>1, <2>2, <2>3 DEF DaemonWorks, Flattener
  <1>5. ASSUME GuardWorks PROVE \A c \in Coin : Reduced(pos[c], pos'[c])
    <2>1. ASSUME NEW c \in Coin, GuardCloses(c)
          PROVE  \A d \in Coin : Reduced(pos[d], pos'[d])
      BY <2>1, <1>1 DEF GuardCloses
    <2>2. ASSUME NEW x \in to_lower, GuardLowers(x) PROVE UNCHANGED pos
      BY <2>2 DEF GuardLowers
    <2>3. ASSUME GuardEnforcesType \/ GuardEnds PROVE UNCHANGED pos
      BY <2>3 DEF GuardEnforcesType, GuardEnds, LeaveGuard
    <2>. QED
      BY <1>5, <1>2, <2>1, <2>2, <2>3 DEF GuardWorks
  <1>6. ASSUME \/ Boot \/ TickCycle \/ CycleRaises \/ Crash \/ Check
               \/ TickDerisk \/ WatchdogRestarts \/ StartGuard \/ GuardKilled
               \/ SetFlag \/ HeartbeatAges \/ EquityMoves \/ UNCHANGED vars
        PROVE  UNCHANGED pos
    BY <1>6 DEF Boot, TickCycle, CycleRaises, Crash, Check, TickDerisk,
                WatchdogRestarts, StartGuard, GuardKilled, LeaveGuard,
                SetFlag, HeartbeatAges, EquityMoves, vars
  <1>. QED
    BY <1>2, <1>3, <1>4, <1>5, <1>6 DEF Next, Flattener

\* Nothing but a rebalance enlarges a position or takes it through zero.
THEOREM ClosersOnlyClose == Spec => OnlyCyclesOpen
  <1>1. ASSUME TypeOK, [Next]_vars, pc["daemon"] # "cycle"
        PROVE  \A c \in Coin : Reduced(pos[c], pos'[c])
    <2>1. ~ \E c \in Coin : CycleTrades(c)
      BY <1>1 DEF CycleTrades
    <2>. QED
      BY <1>1, <2>1, Closes
  <1>2. TypeOK /\ [Next]_vars =>
          [pc["daemon"] # "cycle" =>
             \A c \in Coin : Reduced(pos[c], pos'[c])]_vars
    BY <1>1
  <1>. QED
    BY <1>2, TypeCorrect, PTL DEF Spec, OnlyCyclesOpen

-----------------------------------------------------------------------------
(***************************************************************************)
(* The lock: the daemon and leverage_guard never run at once.              *)
(***************************************************************************)
DaemonPlaces == {"down", "boot", "idle", "cycle", "flatten", "market_close"}
Locked ==
  /\ pc["daemon"] \in DaemonPlaces
  /\ pc["guard"] \in {"off", "lower", "close"}
  /\ pc["daemon"] # "down" => lock = "daemon"
  /\ pc["guard"] # "off" => lock = "guard"

\* leverage_guard plans from the settings there are, and nobody changes a mode
\* or lowers a value before it does.
Planned ==
  /\ pc["guard"] = "off" => to_lower = {}
  /\ \A x \in to_lower : /\ lev[x.coin].type = x.type
                         /\ limit < lev[x.coin].value
Guarded == Locked /\ Planned

LEMMA GuardedInit == Init => Guarded
  BY DEF Init, Guarded, Locked, Planned, Proc, DaemonPlaces

LEMMA LockedNext ==
  ASSUME TypeOK, Locked, [Next]_vars
  PROVE  Locked'
  <1>. USE DEF host
  <1>0. pc \in [Proc -> PCs] /\ "daemon" \in Proc /\ "guard" \in Proc
        /\ "watchdog" \in Proc
    BY DEF TypeOK, Proc
  <1>1. ASSUME NEW p \in Flattener, FlattenAll(p) PROVE Locked'
    <2>1. p \in {"daemon", "watchdog"} /\ p \in Proc
      BY DEF Flattener, Proc
    <2>2. UNCHANGED lock
      BY <1>1 DEF FlattenAll, RecordPending, MarketClose, EndFlatten
    <2>3. \E place \in InFlatten \union {Caller(p)} :
             pc' = [pc EXCEPT ![p] = place] /\ pc[p] \in InFlatten
      BY <1>1 DEF FlattenAll, RecordPending, MarketClose, EndFlatten, Goto,
                  InFlatten, TypeOK
    <2>. QED
      BY <1>0, <2>1, <2>2, <2>3
         DEF Locked, DaemonPlaces, InFlatten, Caller
  <1>2. ASSUME NEW p \in Flattener, StartFlatten(p), UNCHANGED lock,
               p = "daemon" => pc["daemon"] = "idle"
        PROVE  Locked'
    <2>1. p \in {"daemon", "watchdog"} /\ p \in Proc
      BY DEF Flattener, Proc
    <2>. QED
      BY <1>0, <1>2, <2>1 DEF StartFlatten, Goto, Locked, DaemonPlaces
  <1>3. ASSUME Boot PROVE Locked'
    BY <1>0, <1>3 DEF Boot, Goto, Locked, DaemonPlaces
  <1>4. ASSUME NEW c \in Coin, _flatten_for_leverage(c) PROVE Locked'
    BY <1>4 DEF _flatten_for_leverage, Locked
  <1>5. ASSUME NEW c \in Coin, BootSetsLeverage(c) PROVE Locked'
    BY <1>5 DEF BootSetsLeverage, Locked
  <1>6. ASSUME NEW c \in Coin, CycleCloses(c) PROVE Locked'
    BY <1>6 DEF CycleCloses, Locked
  <1>7. ASSUME NEW c \in Coin, CycleTrades(c) PROVE Locked'
    BY <1>7 DEF CycleTrades, Locked
  <1>8. ASSUME TickKilled \/ TickDerisk PROVE Locked'
    BY <1>8, <1>2 DEF TickKilled, TickDerisk, Flattener
  <1>9. ASSUME EndBoot \/ TickCycle \/ EndCycle PROVE Locked'
    BY <1>0, <1>9 DEF EndBoot, TickCycle, EndCycle, Goto, Locked,
                      DaemonPlaces
  <1>10. ASSUME CycleRaises \/ Crash PROVE Locked'
    BY <1>0, <1>10 DEF CycleRaises, Crash, Goto, Locked, DaemonPlaces
  <1>11. ASSUME Check PROVE Locked'
    BY <1>11, <1>2 DEF Check, Flattener
  <1>12. ASSUME WatchdogRestarts PROVE Locked'
    BY <1>0, <1>12 DEF WatchdogRestarts, Goto, Locked
  <1>13. ASSUME StartGuard PROVE Locked'
    BY <1>0, <1>13 DEF StartGuard, GuardMayStart, Goto, Locked
  <1>14. ASSUME NEW x \in to_lower, GuardLowers(x) PROVE Locked'
    BY <1>14 DEF GuardLowers, Locked
  <1>15. ASSUME NEW c \in Coin, GuardCloses(c) PROVE Locked'
    BY <1>15 DEF GuardCloses, Locked
  <1>16. ASSUME GuardEnforcesType PROVE Locked'
    BY <1>0, <1>16 DEF GuardEnforcesType, Goto, Locked
  <1>17. ASSUME GuardEnds \/ GuardKilled PROVE Locked'
    <2>1. pc["guard"] # "off" /\ LeaveGuard
      BY <1>17 DEF GuardEnds, GuardKilled
    <2>. QED
      BY <1>0, <2>1 DEF LeaveGuard, Goto, Locked
  <1>18. ASSUME \/ TickIdle \/ SetFlag \/ HeartbeatAges \/ EquityMoves
                \/ UNCHANGED vars
         PROVE  Locked'
    BY <1>18 DEF TickIdle, SetFlag, HeartbeatAges, EquityMoves, vars, Locked
  <1>. QED
    BY <1>1, <1>3, <1>4, <1>5, <1>6, <1>7, <1>8, <1>9, <1>10, <1>11, <1>12,
       <1>13, <1>14, <1>15, <1>16, <1>17, <1>18
       DEF Next, DaemonWorks, GuardWorks, Flattener

LEMMA PlannedNext ==
  ASSUME TypeOK, Locked, Planned, [Next]_vars
  PROVE  Planned'
  <1>. USE DEF venue, guard
  <1>0. pc \in [Proc -> PCs] /\ "daemon" \in Proc /\ "guard" \in Proc
        /\ "watchdog" \in Proc
    BY DEF TypeOK, Proc
  <1>1. ASSUME UNCHANGED <<lev, limit, to_lower>>,
               pc'["guard"] = "off" => pc["guard"] = "off"
        PROVE  Planned'
    BY <1>1 DEF Planned
  <1>2. ASSUME NEW p \in {"daemon", "watchdog"}, NEW place, Goto(p, place)
        PROVE  pc'["guard"] = pc["guard"]
    BY <1>0, <1>2 DEF Goto
  <1>3. ASSUME NEW p \in Flattener, FlattenAll(p) PROVE Planned'
    <2>1. p \in {"daemon", "watchdog"}
      BY DEF Flattener
    <2>2. UNCHANGED <<lev, limit, to_lower>> /\ pc'["guard"] = pc["guard"]
      BY <1>2, <1>3, <2>1
         DEF FlattenAll, RecordPending, MarketClose, EndFlatten
    <2>. QED
      BY <2>2, <1>1
  <1>4. ASSUME NEW p \in Flattener, StartFlatten(p),
               UNCHANGED <<lev, limit, to_lower>>
        PROVE  Planned'
    <2>1. p \in {"daemon", "watchdog"}
      BY DEF Flattener
    <2>2. pc'["guard"] = pc["guard"]
      BY <1>2, <1>4, <2>1 DEF StartFlatten
    <2>. QED
      BY <2>2, <1>1, <1>4
  <1>5. ASSUME NEW c \in Coin, BootSetsLeverage(c) PROVE Planned'
    <2>1. pc["guard"] = "off" /\ UNCHANGED <<pc, to_lower>>
      BY <1>5 DEF BootSetsLeverage, Locked
    <2>. QED
      BY <2>1 DEF Planned
  <1>6. ASSUME NEW c \in Coin,
               \/ _flatten_for_leverage(c) \/ CycleCloses(c)
               \/ CycleTrades(c) \/ GuardCloses(c)
        PROVE  Planned'
    <2>1. UNCHANGED <<lev, limit, to_lower, pc>>
      BY <1>6 DEF _flatten_for_leverage, CycleCloses, CycleTrades, GuardCloses
    <2>. QED
      BY <2>1, <1>1
  <1>7. ASSUME TickKilled \/ TickDerisk \/ Check PROVE Planned'
    BY <1>4, <1>7 DEF TickKilled, TickDerisk, Check, Flattener
  <1>8. ASSUME \/ Boot \/ EndBoot \/ TickCycle \/ EndCycle \/ CycleRaises
               \/ Crash \/ WatchdogRestarts
        PROVE  Planned'
    <2>1. UNCHANGED <<lev, limit, to_lower>> /\ pc'["guard"] = pc["guard"]
      BY <1>2, <1>8 DEF Boot, EndBoot, TickCycle, EndCycle, CycleRaises,
                        Crash, WatchdogRestarts
    <2>. QED
      BY <2>1, <1>1
  <1>9. ASSUME \/ TickIdle \/ SetFlag \/ HeartbeatAges \/ EquityMoves
               \/ UNCHANGED vars
        PROVE  Planned'
    BY <1>1, <1>9 DEF TickIdle, SetFlag, HeartbeatAges, EquityMoves, vars
  <1>10. ASSUME StartGuard PROVE Planned'
    <2>1. /\ pc'["guard"] = "lower" /\ lev' = lev
          /\ to_lower' = {[coin |-> c, type |-> lev[c].type] :
                            c \in {h \in Held : lev[h].value > limit'}}
      BY <1>0, <1>10 DEF StartGuard, Goto
    <2>2. limit' \in Int /\ \A c \in Coin : lev[c].value \in Int
      BY <1>10, GuardsAssumption
         DEF StartGuard, TypeOK, Setting, GuardsAssumption
    <2>. QED
      BY <2>1, <2>2 DEF Planned, Held
  <1>11. ASSUME NEW x \in to_lower, GuardLowers(x) PROVE Planned'
    <2>1. /\ to_lower' = to_lower \ {x} /\ UNCHANGED <<pc, limit>>
          /\ \/ lev' = lev
             \/ lev' = [lev EXCEPT ![x.coin] =
                           [type |-> x.type, value |-> limit]]
      BY <1>11 DEF GuardLowers, update_leverage
    <2>2. ASSUME NEW y \in to_lower' PROVE lev'[y.coin] = lev[y.coin]
      <3>1. /\ x \in [coin : Coin, type : Modes]
            /\ y \in [coin : Coin, type : Modes] /\ y \in to_lower /\ x # y
            /\ lev \in [Coin -> Setting]
        BY <2>1 DEF TypeOK
      <3>2. y.coin # x.coin
        <4>1. SUFFICES ASSUME y.coin = x.coin PROVE FALSE
          OBVIOUS
        <4>2. y.type = x.type
          BY <3>1, <4>1 DEF Planned
        <4>3. y = x
          BY <3>1, <4>1, <4>2
        <4>. QED
          BY <3>1, <4>3
      <3>. QED
        BY <2>1, <3>1, <3>2
    <2>3. \A y \in to_lower' : y \in to_lower
      BY <2>1
    <2>4. to_lower = {} => to_lower' = {}
      BY <2>1
    <2>. QED
      BY <2>1, <2>2, <2>3, <2>4 DEF Planned
  <1>12. ASSUME GuardEnforcesType PROVE Planned'
    <2>1. to_lower' = {}
      BY <1>12 DEF GuardEnforcesType
    <2>. QED
      BY <2>1 DEF Planned
  <1>13. ASSUME GuardEnds \/ GuardKilled PROVE Planned'
    <2>1. to_lower' = {}
      BY <1>13 DEF GuardEnds, GuardKilled, LeaveGuard
    <2>. QED
      BY <2>1 DEF Planned
  <1>. QED
    BY <1>3, <1>5, <1>6, <1>7, <1>8, <1>9, <1>10, <1>11, <1>12, <1>13
       DEF Next, DaemonWorks, GuardWorks, Flattener

LEMMA GuardedCorrect == Spec => []Guarded
  <1>1. TypeOK /\ Guarded /\ [Next]_vars => Guarded'
    BY LockedNext, PlannedNext DEF Guarded
  <1>. QED
    BY GuardedInit, TypeCorrect, <1>1, PTL DEF Spec

\* While leverage_guard runs nobody else sets a leverage, so what it planned
\* from is what it lowers.
THEOREM NeverRaises == Spec => GuardNeverRaises
  <1>. DEFINE Lowers == \A c \in Coin : /\ lev'[c].type = lev[c].type
                                        /\ lev'[c].value <= lev[c].value
  <1>. USE DEF venue
  <1>0. ASSUME TypeOK, UNCHANGED lev PROVE Lowers
    <2>1. \A c \in Coin : lev[c].value \in Int
      BY <1>0, GuardsAssumption DEF TypeOK, Setting, GuardsAssumption
    <2>. QED
      BY <1>0, <2>1
  <1>1. ASSUME TypeOK, Guarded, [Next]_vars, pc["guard"] \in {"lower", "close"}
        PROVE  Lowers
    <2>1. CASE \E x \in to_lower : GuardLowers(x)
      <3>1. PICK x \in to_lower : GuardLowers(x)
        BY <2>1
      <3>2. \/ lev' = lev
            \/ lev' = [lev EXCEPT ![x.coin] =
                          [type |-> x.type, value |-> limit]]
        BY <3>1 DEF GuardLowers, update_leverage
      <3>3. lev[x.coin].type = x.type /\ limit < lev[x.coin].value
        BY <1>1 DEF Guarded, Planned
      <3>4. limit \in Int /\ \A c \in Coin : lev[c].value \in Int
        BY <1>1, GuardsAssumption DEF TypeOK, Setting, GuardsAssumption
      <3>5. lev \in [Coin -> Setting]
        BY <1>1 DEF TypeOK
      <3>. QED
        BY <1>0, <1>1, <3>2, <3>3, <3>4, <3>5
    <2>2. ASSUME NEW c \in Coin, BootSetsLeverage(c) PROVE FALSE
      BY <1>1, <2>2 DEF Guarded, Locked, BootSetsLeverage
    <2>3. ASSUME NEW p \in Flattener, FlattenAll(p) PROVE UNCHANGED lev
      BY <2>3 DEF FlattenAll, RecordPending, MarketClose, EndFlatten
    <2>4. ASSUME NEW c \in Coin,
                 \/ _flatten_for_leverage(c) \/ CycleCloses(c)
                 \/ CycleTrades(c) \/ GuardCloses(c)
          PROVE  UNCHANGED lev
      BY <2>4 DEF _flatten_for_leverage, CycleCloses, CycleTrades, GuardCloses
    <2>5. ASSUME \/ TickKilled \/ TickIdle \/ Check \/ Boot \/ EndBoot
                 \/ TickDerisk \/ TickCycle \/ EndCycle \/ CycleRaises \/ Crash
                 \/ WatchdogRestarts \/ StartGuard \/ GuardEnforcesType
                 \/ GuardEnds \/ GuardKilled \/ SetFlag \/ HeartbeatAges
                 \/ EquityMoves \/ UNCHANGED vars
          PROVE  UNCHANGED lev
      BY <2>5 DEF TickKilled, TickDerisk, TickIdle, Check, Boot, EndBoot,
                  TickCycle, EndCycle, CycleRaises, Crash, WatchdogRestarts,
                  StartGuard, GuardEnforcesType, GuardEnds, GuardKilled, LeaveGuard,
                  SetFlag, HeartbeatAges, EquityMoves, vars
    <2>6. CASE ~ \E x \in to_lower : GuardLowers(x)
      <3>1. UNCHANGED lev
        BY <1>1, <2>2, <2>3, <2>4, <2>5, <2>6
           DEF Next, DaemonWorks, GuardWorks, Flattener
      <3>. QED
        BY <1>0, <1>1, <3>1
    <2>. QED
      BY <2>1, <2>6
  <1>2. TypeOK /\ Guarded /\ [Next]_vars =>
          [pc["guard"] \in {"lower", "close"} => Lowers]_vars
    BY <1>1
  <1>. HIDE DEF Lowers
  <1>3. Spec => [][pc["guard"] \in {"lower", "close"} => Lowers]_vars
    BY <1>2, TypeCorrect, GuardedCorrect, PTL DEF Spec
  <1>. QED
    BY <1>3 DEF Lowers, GuardNeverRaises

-----------------------------------------------------------------------------
(***************************************************************************)
(* A rebalance beside the watchdog: what is still to be traded takes no    *)
(* position past its reach, from wherever a flatten has brought it.        *)
(***************************************************************************)
Within(n, r) == -r <= n /\ n <= r
InReach(c) == /\ Within(pos[c], reach[c]) /\ Within(left[c], reach[c])
              /\ Within(pos[c] + left[c], reach[c])
Bounded == pc["daemon"] = "cycle" => \A c \in Coin : InReach(c)

\* The legs of a plan stay between what is held and what is wanted.
LEMMA LegsInReach ==
  ASSUME NEW have \in Int, NEW want \in Int, NEW r \in Nat,
         r = Larger(Abs(have), Abs(want))
  PROVE  /\ Within(have, r) /\ Within(OpenLeg(have, want), r)
         /\ Within(have + OpenLeg(have, want), r)
  <1>1. Within(have, r) /\ Within(want, r)
    BY DEF Within, Larger, Abs
  <1>2. CASE want = 0
    BY <1>1, <1>2 DEF OpenLeg, Within
  <1>3. CASE want # 0 /\ Flips(have, want)
    <2>1. \/ have < 0 /\ want > 0
          \/ have > 0 /\ want < 0
      <3>1. CASE have >= 0 /\ want > 0
        <4>1. have * want >= 0
          BY <3>1
        <4>. QED
          BY <1>3, <4>1 DEF Flips
      <3>2. CASE have <= 0 /\ want < 0
        <4>1. have * want >= 0
          BY <3>2
        <4>. QED
          BY <1>3, <4>1 DEF Flips
      <3>3. CASE have = 0
        <4>1. have * want = 0
          BY <3>3
        <4>. QED
          BY <1>3, <4>1 DEF Flips
      <3>. QED
        BY <1>3, <3>1, <3>2, <3>3
    <2>2. OpenLeg(have, want) = want
      BY <1>3 DEF OpenLeg
    <2>. QED
      BY <1>1, <2>1, <2>2 DEF Within
  <1>4. CASE want # 0 /\ ~Flips(have, want)
    <2>1. ~(have < 0 /\ want > 0) /\ ~(have > 0 /\ want < 0)
      <3>1. have < 0 /\ want > 0 => have * want < 0
        OBVIOUS
      <3>2. have > 0 /\ want < 0 => have * want < 0
        OBVIOUS
      <3>. QED
        BY <1>4, <3>1, <3>2 DEF Flips
    <2>2. OpenLeg(have, want) = want - have
      BY <1>4 DEF OpenLeg
    <2>. QED
      BY <1>1, <2>1, <2>2 DEF Within
  <1>. QED
    BY <1>2, <1>3, <1>4

\* Any close of a coin leaves it in reach: the position lies between zero and
\* where it was, so what is left ends between itself and where it ended.
LEMMA CloseInReach ==
  ASSUME NEW n \in Int, NEW m \in Int, NEW k \in Int, NEW r \in Nat,
         Reduced(n, m), Within(n, r), Within(k, r), Within(n + k, r)
  PROVE  Within(m, r) /\ Within(m + k, r)
  BY DEF Reduced, Within

LEMMA BoundedNext ==
  ASSUME TypeOK, TypeOK', Locked, Bounded, [Next]_vars
  PROVE  Bounded'
  <1>. USE DEF venue, legs, history
  <1>0. /\ pc \in [Proc -> PCs] /\ "daemon" \in Proc /\ "guard" \in Proc
        /\ "watchdog" \in Proc
        /\ \A c \in Coin : /\ pos[c] \in Int /\ left[c] \in Int
                           /\ reach[c] \in Nat
                           /\ pos'[c] \in Int /\ left'[c] \in Int
                           /\ reach'[c] \in Nat
    BY DEF TypeOK, Proc
  <1>1. ASSUME pc["daemon"] = "cycle", reach' = reach,
               \A c \in Coin : Reduced(pos[c], pos'[c]),
               \A c \in Coin : left'[c] \in {left[c], 0}
        PROVE  Bounded'
    <2>1. ASSUME NEW c \in Coin PROVE InReach(c)'
      <3>1. Within(pos'[c], reach[c]) /\ Within(pos'[c] + left[c], reach[c])
        BY <1>0, <1>1, CloseInReach DEF Bounded, InReach
      <3>2. Within(left[c], reach[c])
        BY <1>1 DEF Bounded, InReach
      <3>3. CASE left'[c] = left[c]
        BY <1>1, <3>1, <3>2, <3>3 DEF InReach
      <3>4. CASE left'[c] = 0
        <4>1. Within(0, reach[c]) /\ pos'[c] + 0 = pos'[c]
          BY <1>0 DEF Within
        <4>. QED
          BY <1>1, <3>1, <3>4, <4>1 DEF InReach
      <3>. QED
        BY <1>1, <3>3, <3>4
    <2>. QED
      BY <2>1 DEF Bounded
  <1>2. ASSUME NEW c \in Coin, CycleTrades(c) PROVE Bounded'
    <2>. DEFINE k == left[c]
    <2>1. PICK f \in 0 .. Abs(k) :
             /\ Trade(c, Sign(k) * f)
             /\ \/ left' = [left EXCEPT ![c] = k - Sign(k) * f]
                \/ left' = [left EXCEPT ![c] = 0]
      BY <1>2 DEF CycleTrades, TypeOK
    <2>. DEFINE part == Sign(k) * f
    <2>2. part \in Int /\ Reduced(k, part)
      BY <1>0, PartOf
    <2>3. /\ pos' = [pos EXCEPT ![c] = pos[c] + part]
          /\ \/ left' = [left EXCEPT ![c] = k - part]
             \/ left' = [left EXCEPT ![c] = 0]
      BY <2>1 DEF Trade, TypeOK
    <2>. HIDE DEF part
    <2>4. /\ reach' = reach
          /\ \A d \in Coin \ {c} : pos'[d] = pos[d] /\ left'[d] = left[d]
      BY <1>2, <2>3 DEF CycleTrades, TypeOK
    <2>5. \A d \in Coin : InReach(d)
      BY <1>2 DEF CycleTrades, Bounded
    <2>6. pos'[c] = pos[c] + part /\ left'[c] \in {k - part, 0}
      BY <2>3 DEF TypeOK
    <2>7. InReach(c)'
      BY <1>0, <2>2, <2>4, <2>5, <2>6 DEF InReach, Within, Reduced
    <2>8. \A d \in Coin \ {c} : InReach(d)'
      BY <2>4, <2>5 DEF InReach
    <2>. QED
      BY <2>7, <2>8 DEF Bounded
  <1>3. ASSUME TickCycle PROVE Bounded'
    <2>1. PICK target \in Targets :
             /\ left' = [c \in Coin |-> OpenLeg(pos[c], target[c])]
             /\ reach' = [c \in Coin |-> Larger(Abs(pos[c]), Abs(target[c]))]
      BY <1>3 DEF TickCycle
    <2>2. \A c \in Coin : target[c] \in Int
      BY GuardsAssumption DEF Targets, GuardsAssumption
    <2>3. pos' = pos
      BY <1>3 DEF TickCycle
    <2>4. ASSUME NEW c \in Coin PROVE InReach(c)'
      <3>1. /\ reach'[c] = Larger(Abs(pos[c]), Abs(target[c]))
            /\ left'[c] = OpenLeg(pos[c], target[c])
        BY <2>1
      <3>. QED
        BY <1>0, <2>2, <2>3, <3>1, LegsInReach DEF InReach
    <2>. QED
      BY <2>4 DEF Bounded
  <1>4. ASSUME pc'["daemon"] # "cycle" PROVE Bounded'
    BY <1>4 DEF Bounded
  <1>5. ASSUME NEW p \in {"watchdog", "guard"}, NEW place, Goto(p, place)
        PROVE  pc'["daemon"] = pc["daemon"]
    BY <1>0, <1>5 DEF Goto
  <1>6. ASSUME pc'["daemon"] = "cycle", ~TickCycle,
               ~ \E c \in Coin : CycleTrades(c)
        PROVE  /\ pc["daemon"] = "cycle" /\ reach' = reach
               /\ \A c \in Coin : left'[c] \in {left[c], 0}
    <2>1. ASSUME NEW c \in Coin, CycleCloses(c)
          PROVE  /\ pc["daemon"] = "cycle" /\ reach' = reach
                 /\ \A d \in Coin : left'[d] \in {left[d], 0}
      BY <2>1 DEF CycleCloses, TypeOK
    <2>. DEFINE Same == /\ pc'["daemon"] = pc["daemon"]
                        /\ UNCHANGED <<left, reach>>
    <2>2. ASSUME FlattenAll("watchdog") PROVE Same
      BY <1>5, <2>2
         DEF FlattenAll, RecordPending, MarketClose, EndFlatten
    <2>3. ASSUME NEW c \in Coin,
                 \/ _flatten_for_leverage(c) \/ BootSetsLeverage(c)
                 \/ GuardCloses(c)
          PROVE  Same
      BY <2>3 DEF _flatten_for_leverage, BootSetsLeverage, GuardCloses
    <2>4. ASSUME NEW x \in to_lower, GuardLowers(x) PROVE Same
      BY <2>4 DEF GuardLowers
    <2>5. ASSUME Check \/ WatchdogRestarts PROVE Same
      BY <1>5, <2>5 DEF Check, StartFlatten, WatchdogRestarts
    <2>6. ASSUME \/ StartGuard \/ GuardEnforcesType \/ GuardEnds
                 \/ GuardKilled
          PROVE  Same
      BY <1>5, <2>6 DEF StartGuard, GuardEnforcesType, GuardEnds,
                        GuardKilled, LeaveGuard
    <2>7. ASSUME \/ TickIdle \/ SetFlag \/ HeartbeatAges \/ EquityMoves
                 \/ UNCHANGED vars
          PROVE  Same
      BY <2>7 DEF TickIdle, SetFlag, HeartbeatAges, EquityMoves, vars
    <2>8. ASSUME FlattenAll("daemon") PROVE FALSE
      <3>1. \/ \E place \in InFlatten \union {"idle"} :
                  Goto("daemon", place)
            \/ pc' = pc /\ pc["daemon"] = "flatten"
        BY <2>8 DEF FlattenAll, RecordPending, MarketClose, EndFlatten,
                    Caller, InFlatten
      <3>. QED
        BY <1>0, <1>6, <3>1 DEF Goto, InFlatten
    <2>9. ASSUME TickKilled \/ TickDerisk PROVE FALSE
      BY <1>0, <1>6, <2>9 DEF TickKilled, TickDerisk, StartFlatten, Goto
    <2>10. ASSUME Boot PROVE FALSE
      BY <1>0, <1>6, <2>10 DEF Boot, Goto
    <2>11. ASSUME EndBoot \/ EndCycle \/ CycleRaises \/ Crash PROVE FALSE
      BY <1>0, <1>6, <2>11 DEF EndBoot, EndCycle, CycleRaises, Crash, Goto
    <2>12. Same => /\ pc["daemon"] = "cycle" /\ reach' = reach
                   /\ \A c \in Coin : left'[c] \in {left[c], 0}
      BY <1>6
    <2>. HIDE DEF Same
    <2>. QED
      BY <1>6, <2>1, <2>2, <2>3, <2>4, <2>5, <2>6, <2>7, <2>8, <2>9, <2>10,
         <2>11, <2>12
         DEF Next, DaemonWorks, GuardWorks
  <1>7. CASE ~ \E c \in Coin : CycleTrades(c)
    BY <1>1, <1>3, <1>4, <1>6, <1>7, Closes
  <1>. QED
    BY <1>2, <1>7

\* The larger of what a rebalance read and what it wants bounds every position
\* for as long as it runs, whatever the watchdog does meanwhile.
THEOREM BoundHolds == Spec => []ReopenIsBounded
  <1>1. Init => Bounded
    BY DEF Init, Bounded, Proc
  <1>2. TypeOK /\ Guarded /\ Bounded /\ [Next]_vars => Bounded'
    BY TypeNext, BoundedNext DEF Guarded
  <1>3. TypeOK /\ Bounded => ReopenIsBounded
    <2>1. ASSUME TypeOK, Bounded, pc["daemon"] = "cycle", NEW c \in Coin
          PROVE  Abs(pos[c]) <= reach[c]
      BY <2>1 DEF TypeOK, Bounded, InReach, Within, Abs
    <2>. QED
      BY <2>1 DEF ReopenIsBounded
  <1>. QED
    BY <1>1, <1>2, <1>3, TypeCorrect, GuardedCorrect, PTL DEF Spec

-----------------------------------------------------------------------------
(***************************************************************************)
(* A flatten: what it read bounds what is there, unless the coin grew.     *)
(***************************************************************************)
Flattening(p) ==
  /\ pc[p] \notin InFlatten => requested[p] = Flat /\ filled[p] = {}
  /\ pc[p] = "market_close" => requested[p][at[p]] # 0
  /\ \A c \in Coin :
       /\ requested[p][c] # 0 =>
            c \in grew[p] \/ Abs(pos[c]) <= Abs(requested[p][c])
       /\ c \in filled[p] => pos[c] = 0 \/ c \in grew[p]
Flattenings == \A p \in Flattener : Flattening(p)

\* A step that does not touch a flatten keeps what holds of it, when every
\* coin that it enlarges is noted.
LEMMA FlattenKept ==
  ASSUME TypeOK, TypeOK', NEW p \in Flattener, Flattening(p),
         \/ pc'[p] = pc[p] /\ (pc[p] = "market_close" => at'[p] = at[p])
         \/ pc[p] \notin InFlatten /\ pc'[p] \notin InFlatten,
         requested'[p] = requested[p], filled'[p] = filled[p],
         grew[p] \subseteq grew'[p],
         pc[p] \in InFlatten =>
           \A c \in Coin : c \in grew'[p] \/ Abs(pos'[c]) <= Abs(pos[c])
  PROVE  Flattening(p)'
  <1>1. \A c \in Coin : /\ pos[c] \in Int /\ pos'[c] \in Int
                        /\ requested[p][c] \in Int
                        /\ Abs(pos[c]) \in Nat /\ Abs(pos'[c]) \in Nat
                        /\ Abs(requested[p][c]) \in Nat
    BY AbsType DEF TypeOK
  <1>2. pc'[p] \notin InFlatten => requested'[p] = Flat /\ filled'[p] = {}
    BY DEF Flattening
  <1>3. pc'[p] = "market_close" => requested'[p][at'[p]] # 0
    BY DEF Flattening, InFlatten
  <1>4. pc[p] \notin InFlatten =>
          \A c \in Coin : requested'[p][c] = 0 /\ c \notin filled'[p]
    BY FlatType DEF Flattening
  <1>5. ASSUME NEW c \in Coin, pc[p] \in InFlatten
        PROVE  /\ requested'[p][c] # 0 =>
                    \/ c \in grew'[p]
                    \/ Abs(pos'[c]) <= Abs(requested'[p][c])
               /\ c \in filled'[p] => pos'[c] = 0 \/ c \in grew'[p]
    <2>1. CASE c \in grew'[p]
      BY <2>1
    <2>2. CASE c \notin grew'[p]
      <3>1. Abs(pos'[c]) <= Abs(pos[c]) /\ c \notin grew[p]
        BY <1>5, <2>2
      <3>2. pos[c] = 0 => pos'[c] = 0
        BY <1>1, <3>1 DEF Abs
      <3>3. /\ requested[p][c] # 0 => Abs(pos[c]) <= Abs(requested[p][c])
            /\ c \in filled[p] => pos[c] = 0
        BY <3>1 DEF Flattening
      <3>. QED
        BY <1>1, <3>1, <3>2, <3>3
    <2>. QED
      BY <2>1, <2>2
  <1>. QED
    BY <1>2, <1>3, <1>4, <1>5 DEF Flattening

LEMMA FlatteningNext ==
  ASSUME TypeOK, TypeOK', Flattenings, [Next]_vars, NEW p \in Flattener
  PROVE  Flattening(p)'
  <1>. USE DEF venue, host, flatten, boot, legs, guard, history
  <1>0. /\ Flattening(p) /\ p \in Proc
        /\ pc \in [Proc -> PCs] /\ at \in [Flattener -> Coin \union {"none"}]
        /\ requested \in [Flattener -> [Coin -> Int]]
        /\ filled \in [Flattener -> SUBSET Coin]
        /\ grew \in [Flattener -> SUBSET Coin]
        /\ Flattener = {"daemon", "watchdog"}
        /\ Proc = {"daemon", "watchdog", "guard"}
    BY DEF TypeOK, Flattenings, Flattener, Proc
  <1>1. CASE \E c \in Coin : CycleTrades(c)
    <2>1. PICK c \in Coin : CycleTrades(c)
      BY <1>1
    <2>2. PICK n : Trade(c, n)
      BY <2>1 DEF CycleTrades
    <2>3. /\ pc' = pc /\ pc["daemon"] = "cycle"
          /\ UNCHANGED <<requested, filled>>
          /\ at'["watchdog"] = at["watchdog"]
      BY <1>0, <2>1 DEF CycleTrades, At
    <2>4. pos' = [pos EXCEPT ![c] = pos[c] + n]
      BY <2>2 DEF Trade, TypeOK
    <2>5. grew'[p] = IF pc[p] \in InFlatten /\ Abs(pos[c] + n) > Abs(pos[c])
                        THEN grew[p] \union {c} ELSE grew[p]
      BY <2>2 DEF Trade
    <2>6. ASSUME pc[p] \in InFlatten, NEW d \in Coin
          PROVE  d \in grew'[p] \/ Abs(pos'[d]) <= Abs(pos[d])
      <3>1. pos[d] \in Int /\ pos'[d] \in Int
        BY DEF TypeOK
      <3>2. Abs(pos[d]) \in Nat /\ Abs(pos'[d]) \in Nat
        BY <3>1, AbsType
      <3>3. CASE d # c
        BY <2>4, <3>2, <3>3 DEF TypeOK
      <3>4. CASE d = c
        <4>1. pos'[d] = pos[c] + n
          BY <2>4, <3>4 DEF TypeOK
        <4>. QED
          BY <2>5, <2>6, <3>2, <3>4, <4>1
      <3>. QED
        BY <3>3, <3>4
    <2>7. pc[p] = "market_close" => at'[p] = at[p]
      BY <1>0, <2>3
    <2>8. grew[p] \subseteq grew'[p]
      BY <2>5
    <2>. QED
      BY <1>0, <2>3, <2>6, <2>7, <2>8, FlattenKept
  <1>2. ASSUME ~ \E c \in Coin : CycleTrades(c),
               \/ pc'[p] = pc[p] /\ (pc[p] = "market_close" => at'[p] = at[p])
               \/ pc[p] \notin InFlatten /\ pc'[p] \notin InFlatten,
               requested'[p] = requested[p], filled'[p] = filled[p],
               grew'[p] = grew[p]
        PROVE  Flattening(p)'
    <2>1. \A c \in Coin : Reduced(pos[c], pos'[c])
      BY <1>2, Closes
    <2>2. \A c \in Coin : pos[c] \in Int /\ pos'[c] \in Int
      BY DEF TypeOK
    <2>3. \A c \in Coin : Abs(pos'[c]) <= Abs(pos[c])
      BY <2>1, <2>2, ReducedAbs
    <2>. QED
      BY <1>0, <1>2, <2>3, FlattenKept
  <1>3. ASSUME NEW q \in Flattener, q # p, FlattenAll(q)
        PROVE  /\ pc'[p] = pc[p] /\ at'[p] = at[p]
               /\ requested'[p] = requested[p] /\ filled'[p] = filled[p]
               /\ grew'[p] = grew[p]
    <2>1. ASSUME NEW c \in Coin, MarketClose(q, c)
          PROVE  grew' = grew
      BY <2>1, MarketCloseReduces DEF MarketClose, Close
    <2>2. ASSUME NEW c \in Coin, MarketClose(q, c) PROVE filled'[p] = filled[p]
      BY <1>0, <1>3, <2>2 DEF MarketClose
    <2>. QED
      BY <1>0, <1>3, <2>1, <2>2
         DEF FlattenAll, RecordPending, MarketClose, EndFlatten, Forget, Goto,
             At
  <1>4. ASSUME NEW c \in Coin, RecordPending(p, c) PROVE Flattening(p)'
    <2>1. UNCHANGED <<pos, filled, grew>> /\ pc[p] = "flatten"
      BY <1>4 DEF RecordPending
    <2>2. CASE /\ At(p, c) /\ Goto(p, "market_close")
               /\ UNCHANGED requested
      <3>1. at'[p] = c /\ pc'[p] = "market_close" /\ requested[p][c] # 0
        BY <1>0, <1>4, <2>2 DEF At, Goto, RecordPending
      <3>. QED
        BY <1>0, <2>1, <2>2, <3>1 DEF Flattening, InFlatten
    <2>3. CASE /\ requested' = [requested EXCEPT ![p][c] = 0]
               /\ UNCHANGED <<pc, at>>
      <3>1. \A d \in Coin : requested'[p][d] \in {requested[p][d], 0}
        BY <1>0, <2>3
      <3>2. pc'[p] = "flatten"
        BY <2>1, <2>3
      <3>. QED
        BY <1>0, <2>1, <3>1, <3>2 DEF Flattening, InFlatten
    <2>. QED
      BY <1>4, <2>2, <2>3 DEF RecordPending
  <1>5. ASSUME NEW c \in Coin, MarketClose(p, c) PROVE Flattening(p)'
    <2>1. PICK f \in 0 .. Larger(Abs(pos[c]), Abs(requested[p][c])) :
             /\ market_close(c, f)
             /\ \E ok \in Outcome(p, c, f) :
                  filled' = IF ok THEN [filled EXCEPT ![p] = @ \union {c}]
                                  ELSE filled
      BY <1>5 DEF MarketClose, Close
    <2>2. /\ grew' = grew /\ f \in Nat
          /\ \A d \in Coin : Reduced(pos[d], pos'[d])
          /\ f >= Abs(pos[c]) => pos'[c] = 0
      BY <2>1, MarketCloseReduces
    <2>3. \A d \in Coin : /\ pos[d] \in Int /\ pos'[d] \in Int
                          /\ requested[p][d] \in Int
                          /\ Abs(pos[d]) \in Nat /\ Abs(pos'[d]) \in Nat
                          /\ Abs(requested[p][d]) \in Nat
      BY AbsType DEF TypeOK
    <2>4. \A d \in Coin : /\ Abs(pos'[d]) <= Abs(pos[d])
                          /\ pos[d] = 0 => pos'[d] = 0
      BY <2>2, <2>3, ReducedAbs
    <2>5. pc'[p] = "flatten" /\ requested[p][c] # 0
      BY <1>0, <1>5 DEF MarketClose, Goto, Flattening
    <2>6. \A d \in Coin : requested'[p][d] \in {requested[p][d], 0}
      BY <1>0, <1>5 DEF MarketClose
    <2>7. ASSUME c \in filled'[p], c \notin grew[p] PROVE pos'[c] = 0
      <3>1. CASE c \in filled[p]
        BY <1>0, <2>4, <2>7, <3>1 DEF Flattening
      <3>2. CASE c \notin filled[p]
        <4>1. f >= Abs(requested[p][c])
          BY <1>0, <2>1, <2>7, <3>2 DEF Outcome
        <4>2. Abs(pos[c]) <= Abs(requested[p][c])
          BY <1>0, <2>5, <2>7 DEF Flattening
        <4>. QED
          BY <2>2, <2>3, <4>1, <4>2
      <3>. QED
        BY <3>1, <3>2
    <2>8. \A d \in Coin \ {c} : d \in filled'[p] => d \in filled[p]
      BY <1>0, <2>1
    <2>9. ASSUME NEW d \in Coin
          PROVE  /\ requested'[p][d] # 0 =>
                      \/ d \in grew'[p]
                      \/ Abs(pos'[d]) <= Abs(requested'[p][d])
                 /\ d \in filled'[p] => pos'[d] = 0 \/ d \in grew'[p]
      <3>1. requested'[p][d] # 0 =>
              \/ d \in grew'[p]
              \/ Abs(pos'[d]) <= Abs(requested'[p][d])
        <4>1. SUFFICES ASSUME requested'[p][d] # 0, d \notin grew'[p]
                       PROVE  Abs(pos'[d]) <= Abs(requested'[p][d])
          OBVIOUS
        <4>2. requested'[p][d] = requested[p][d]
          BY <2>6, <4>1
        <4>3. Abs(pos[d]) <= Abs(requested[p][d])
          BY <1>0, <2>2, <4>1, <4>2 DEF Flattening
        <4>. QED
          BY <2>3, <2>4, <4>2, <4>3
      <3>2. d \in filled'[p] => pos'[d] = 0 \/ d \in grew'[p]
        <4>1. CASE d = c
          BY <2>2, <2>7, <4>1
        <4>2. CASE d # c
          BY <1>0, <2>2, <2>4, <2>8, <4>2 DEF Flattening
        <4>. QED
          BY <4>1, <4>2
      <3>. QED
        BY <3>1, <3>2
    <2>. QED
      BY <2>5, <2>9 DEF Flattening, InFlatten
  <1>6. ASSUME Forget(p), pc'[p] \notin InFlatten PROVE Flattening(p)'
    <2>1. requested'[p] = Flat /\ filled'[p] = {}
      BY <1>0, <1>6 DEF Forget
    <2>. QED
      BY <1>6, <2>1, FlatType DEF Flattening, InFlatten
  <1>7. ASSUME StartFlatten(p), UNCHANGED <<pos, filled, grew, at>>,
               pc[p] \notin InFlatten
        PROVE  Flattening(p)'
    <2>1. filled'[p] = {}
      BY <1>0, <1>7 DEF Flattening
    <2>2. CASE requested' = [requested EXCEPT ![p] = pos]
               /\ Goto(p, "flatten")
      <3>1. requested'[p] = pos /\ pos' = pos /\ pc'[p] = "flatten"
        BY <1>0, <1>7, <2>2 DEF Goto
      <3>2. \A c \in Coin : Abs(pos[c]) \in Nat
        BY AbsType DEF TypeOK
      <3>. QED
        BY <2>1, <3>1, <3>2 DEF Flattening, InFlatten
    <2>3. CASE UNCHANGED <<requested, pc>>
      BY <1>0, <1>7, <2>3 DEF Flattening, InFlatten
    <2>. QED
      BY <1>7, <2>2, <2>3 DEF StartFlatten
  <1>8. ASSUME ~ \E c \in Coin : CycleTrades(c) PROVE Flattening(p)'
    <2>. DEFINE Kept == /\ \/ /\ pc'[p] = pc[p]
                              /\ pc[p] = "market_close" => at'[p] = at[p]
                           \/ pc[p] \notin InFlatten /\ pc'[p] \notin InFlatten
                        /\ requested'[p] = requested[p]
                        /\ filled'[p] = filled[p] /\ grew'[p] = grew[p]
    <2>1. Kept => Flattening(p)'
      BY <1>2, <1>8
    <2>2. ASSUME NEW q \in Flattener, FlattenAll(q) PROVE Flattening(p)'
      <3>1. CASE q # p
        BY <1>3, <2>1, <2>2, <3>1
      <3>2. ASSUME q = p, EndFlatten(p) PROVE Flattening(p)'
        <4>1. Forget(p) /\ pc'[p] = Caller(p)
          BY <1>0, <3>2 DEF EndFlatten, Goto
        <4>2. Caller(p) \notin InFlatten
          BY DEF Caller, InFlatten
        <4>. QED
          BY <1>6, <4>1, <4>2
      <3>3. CASE q = p
        BY <1>4, <1>5, <2>2, <3>2, <3>3 DEF FlattenAll
      <3>. QED
        BY <3>1, <3>3
    <2>3. ASSUME NEW q \in Flattener, StartFlatten(q),
                 UNCHANGED <<pos, filled, grew, at>>, pc[q] \notin InFlatten
          PROVE  Flattening(p)'
      <3>1. CASE q = p
        BY <1>7, <2>3, <3>1
      <3>2. CASE q # p
        BY <1>0, <2>1, <2>3, <3>2 DEF StartFlatten, Goto
      <3>. QED
        BY <3>1, <3>2
    <2>4. ASSUME TickKilled \/ TickDerisk \/ Check PROVE Flattening(p)'
      BY <1>0, <2>3, <2>4 DEF TickKilled, TickDerisk, Check, InFlatten
    <2>5. ASSUME NEW c \in Coin,
                 \/ _flatten_for_leverage(c) \/ CycleCloses(c)
                 \/ BootSetsLeverage(c) \/ GuardCloses(c)
          PROVE  Kept
      <3>1. UNCHANGED <<pc, requested, filled>>
        BY <2>5 DEF _flatten_for_leverage, CycleCloses, BootSetsLeverage,
                    GuardCloses
      <3>2. grew' = grew
        BY <2>5, MarketCloseReduces DEF _flatten_for_leverage, CycleCloses,
                                        BootSetsLeverage, GuardCloses
      <3>3. \/ at' = at
            \/ /\ pc["daemon"] \notin InFlatten
               /\ at'["watchdog"] = at["watchdog"]
        BY <1>0, <2>5 DEF _flatten_for_leverage, CycleCloses,
                          BootSetsLeverage, GuardCloses, At, InFlatten
      <3>. QED
        BY <1>0, <3>1, <3>2, <3>3 DEF InFlatten
    <2>6. ASSUME NEW x \in to_lower, GuardLowers(x) PROVE Kept
      BY <2>6 DEF GuardLowers
    <2>7. ASSUME \/ TickIdle \/ SetFlag \/ HeartbeatAges \/ EquityMoves
                 \/ UNCHANGED vars
          PROVE  Kept
      BY <2>7 DEF TickIdle, SetFlag, HeartbeatAges, EquityMoves, vars
    <2>8. ASSUME \/ StartGuard \/ GuardEnforcesType \/ GuardEnds
                 \/ GuardKilled
          PROVE  Kept
      <3>1. UNCHANGED <<at, requested, filled, grew>>
        BY <2>8 DEF StartGuard, GuardEnforcesType, GuardEnds, GuardKilled,
                    LeaveGuard
      <3>2. pc'[p] = pc[p]
        BY <1>0, <2>8 DEF StartGuard, GuardEnforcesType, GuardEnds,
                          GuardKilled, LeaveGuard, Goto
      <3>. QED
        BY <3>1, <3>2
    <2>9. ASSUME Boot \/ EndBoot \/ TickCycle \/ EndCycle \/ CycleRaises
          PROVE  Kept
      <3>1. UNCHANGED <<requested, filled, grew>>
            /\ at'["watchdog"] = at["watchdog"]
        BY <1>0, <2>9 DEF Boot, EndBoot, TickCycle, EndCycle, CycleRaises, At
      <3>2. /\ pc["daemon"] \notin InFlatten /\ pc'["daemon"] \notin InFlatten
            /\ pc'["watchdog"] = pc["watchdog"]
        BY <1>0, <2>9 DEF Boot, EndBoot, TickCycle, EndCycle, CycleRaises,
                          Goto, InFlatten
      <3>. QED
        BY <1>0, <3>1, <3>2
    <2>10. ASSUME Crash PROVE Flattening(p)'
      <3>1. /\ pc'["daemon"] = "down" /\ pc'["watchdog"] = pc["watchdog"]
            /\ at'["watchdog"] = at["watchdog"] /\ Forget("daemon")
        BY <1>0, <2>10 DEF Crash, Goto, At
      <3>2. CASE p = "daemon"
        BY <1>6, <3>1, <3>2 DEF InFlatten
      <3>3. CASE p = "watchdog"
        BY <1>0, <2>1, <3>1, <3>3 DEF Forget
      <3>. QED
        BY <1>0, <3>2, <3>3
    <2>11. ASSUME WatchdogRestarts PROVE Flattening(p)'
      <3>1. /\ pc'["watchdog"] = "watch" /\ pc'["daemon"] = pc["daemon"]
            /\ at'["daemon"] = at["daemon"] /\ Forget("watchdog")
        BY <1>0, <2>11 DEF WatchdogRestarts, Goto, At
      <3>2. CASE p = "watchdog"
        BY <1>6, <3>1, <3>2 DEF InFlatten
      <3>3. CASE p = "daemon"
        BY <1>0, <2>1, <3>1, <3>3 DEF Forget
      <3>. QED
        BY <1>0, <3>2, <3>3
    <2>. HIDE DEF Kept
    <2>. QED
      BY <1>8, <2>1, <2>2, <2>4, <2>5, <2>6, <2>7, <2>8, <2>9, <2>10, <2>11
         DEF Next, DaemonWorks, GuardWorks, Flattener
  <1>. QED
    BY <1>1, <1>8

\* A coin that a flatten reports filled is flat, though the report compares
\* with a size read before the close was sent.
THEOREM FilledHolds == Spec => []FilledIsClosed
  <1>1. Init => Flattenings
    <2>1. ASSUME Init, NEW p \in Flattener
          PROVE  /\ pc[p] \in {"down", "watch"}
                 /\ requested[p] = Flat /\ filled[p] = {}
      BY <2>1 DEF Init, Flattener, Proc
    <2>. QED
      BY <2>1, FlatType DEF Flattenings, Flattening, InFlatten
  <1>2. TypeOK /\ Flattenings /\ [Next]_vars => Flattenings'
    BY TypeNext, FlatteningNext DEF Flattenings
  <1>3. TypeOK /\ Flattenings => FilledIsClosed
    BY DEF TypeOK, Flattenings, Flattening, FilledIsClosed
  <1>. QED
    BY <1>1, <1>2, <1>3, TypeCorrect, PTL DEF Spec
=============================================================================
