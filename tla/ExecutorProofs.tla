--------------------------- MODULE ExecutorProofs ---------------------------
(***************************************************************************)
(* Plans and the executor's state are well-formed; the ledger runs ahead   *)
(* of the venue, what is DONE is known, and a leg never has more at the    *)
(* venue than it was planned to trade: for every value of the constants,   *)
(* with any number of cycles, coins and faults.                            *)
(***************************************************************************)
EXTENDS Executor, FiniteSetTheorems, TLAPS

\* What the sizer hands over: at most one close leg and one other leg a coin,
\* the close leg's target is flat, and no leg is below the minimum.
PlanShape(p) ==
    /\ \A i, j \in DOMAIN p :
           p[i].coin = p[j].coin /\ p[i].is_close_leg = p[j].is_close_leg => i = j
    /\ \A i \in DOMAIN p :
           /\ p[i].is_close_leg => p[i].target_size = 0
           /\ Abs(p[i].delta_size) >= MinSize

-----------------------------------------------------------------------------
LEMMA AbsType ==
  ASSUME NEW n \in Int
  PROVE  Abs(n) \in Nat /\ Sign(n) \in Int /\ (Abs(n) = 0 <=> n = 0)
  BY SMT DEF Abs, Sign

\* The two legs a coin can have.
CloseLeg(c) == [coin |-> c, target_size |-> 0, delta_size |-> -pos[c],
                is_close_leg |-> TRUE]
MainLeg(c, t) == [coin |-> c, target_size |-> t,
                  delta_size |-> IF Flips(c, t) THEN t ELSE t - pos[c],
                  is_close_leg |-> FALSE]

LEMMA LegsAreTwo ==
  ASSUME NEW c \in Coin, NEW t \in Int, pos \in [Coin -> Int]
  PROVE  /\ LegsOf(c, t) \subseteq {CloseLeg(c), MainLeg(c, t)}
         /\ CloseLeg(c) \in Leg /\ MainLeg(c, t) \in Leg
  <1>1. pos[c] \in Int
    OBVIOUS
  <1>2. CloseLeg(c) \in Leg /\ MainLeg(c, t) \in Leg
    BY <1>1 DEF CloseLeg, MainLeg, Leg
  <1>3. LegsOf(c, t) \subseteq {CloseLeg(c), MainLeg(c, t)}
    BY DEF LegsOf, CloseLeg, MainLeg
  <1>. QED
    BY <1>2, <1>3

LEMMA PlannedLegsFinite ==
  ASSUME NEW tgt \in Targets, pos \in [Coin -> Int]
  PROVE  /\ IsFiniteSet(PlannedLegs(tgt))
         /\ PlannedLegs(tgt) \subseteq Leg
         /\ \A l \in PlannedLegs(tgt) :
                /\ l \in {CloseLeg(l.coin), MainLeg(l.coin, tgt[l.coin])}
                /\ Abs(l.delta_size) >= MinSize
  <1>. DEFINE U == {LegsOf(c, tgt[c]) : c \in Coin}
  <1>1. \A c \in Coin : tgt[c] \in Int
    BY ExecutorAssumption DEF Targets, ExecutorAssumption
  <1>2. \A c \in Coin : IsFiniteSet({CloseLeg(c), MainLeg(c, tgt[c])})
    <2>. TAKE c \in Coin
    <2>1. IsFiniteSet({CloseLeg(c)})
      BY FS_Singleton
    <2>2. {CloseLeg(c), MainLeg(c, tgt[c])} = {CloseLeg(c)} \cup {MainLeg(c, tgt[c])}
      OBVIOUS
    <2>. QED
      BY <2>1, <2>2, FS_AddElement
  <1>3. \A c \in Coin : LegsOf(c, tgt[c]) \in SUBSET {CloseLeg(c), MainLeg(c, tgt[c])}
    BY <1>1, LegsAreTwo
  <1>4. \A T \in U : IsFiniteSet(T)
    <2>1. ASSUME NEW c \in Coin
          PROVE  IsFiniteSet(LegsOf(c, tgt[c]))
      BY <1>2, <1>3, FS_Subset
    <2>. QED
      BY <2>1
  <1>5. IsFiniteSet(U)
    <2>. DEFINE f == [c \in Coin |-> LegsOf(c, tgt[c])]
    <2>1. f \in Surjection(Coin, U)
      BY DEF Surjection
    <2>. HIDE DEF f, U
    <2>. QED
      BY <2>1, FS_Surjection, ExecutorAssumption DEF ExecutorAssumption
  <1>6. IsFiniteSet(UNION U)
    BY <1>4, <1>5, FS_UNION
  <1>7. PlannedLegs(tgt) \in SUBSET (UNION U)
    BY DEF PlannedLegs
  <1>8. IsFiniteSet(PlannedLegs(tgt))
    <2>. HIDE DEF U
    <2>. QED
      BY <1>6, <1>7, FS_Subset
  <1>9. ASSUME NEW l \in PlannedLegs(tgt)
        PROVE  /\ l \in Leg
               /\ l \in {CloseLeg(l.coin), MainLeg(l.coin, tgt[l.coin])}
               /\ Abs(l.delta_size) >= MinSize
    <2>1. PICK c \in Coin : l \in LegsOf(c, tgt[c])
      BY DEF PlannedLegs
    <2>2. l \in {CloseLeg(c), MainLeg(c, tgt[c])} /\ l \in Leg
      BY <1>1, <2>1, LegsAreTwo
    <2>3. l.coin = c
      BY <2>2 DEF CloseLeg, MainLeg
    <2>. QED
      BY <2>2, <2>3 DEF PlannedLegs
  <1>. QED
    BY <1>8, <1>9

\* Every plan the sizer can hand over is well-formed.
LEMMA PlanWellFormed ==
  ASSUME NEW tgt \in Targets, pos \in [Coin -> Int], NEW p \in Plans(tgt)
  PROVE  p \in Seq(Leg) /\ PlanShape(p)
  <1>. DEFINE legs == PlannedLegs(tgt)
  <1>1. /\ IsFiniteSet(legs) /\ legs \subseteq Leg
        /\ \A l \in legs : /\ l \in {CloseLeg(l.coin), MainLeg(l.coin, tgt[l.coin])}
                           /\ Abs(l.delta_size) >= MinSize
    BY PlannedLegsFinite
  <1>2. Cardinality(legs) \in Nat
    BY <1>1, FS_CardinalityType
  <1>3. /\ p \in [1 .. Cardinality(legs) -> legs]
        /\ \A i, j \in DOMAIN p : p[i] = p[j] => i = j
    BY DEF Plans
  <1>. HIDE DEF legs
  <1>4. p \in Seq(Leg)
    BY <1>1, <1>2, <1>3
  <1>5. \A i \in DOMAIN p : p[i] \in legs
    BY <1>3
  <1>6. ASSUME NEW i \in DOMAIN p, NEW j \in DOMAIN p,
               p[i].coin = p[j].coin, p[i].is_close_leg = p[j].is_close_leg
        PROVE  i = j
    <2>1. /\ p[i] \in {CloseLeg(p[i].coin), MainLeg(p[i].coin, tgt[p[i].coin])}
          /\ p[j] \in {CloseLeg(p[i].coin), MainLeg(p[i].coin, tgt[p[i].coin])}
      BY <1>1, <1>5, <1>6
    <2>2. p[i] = p[j]
      BY <1>6, <2>1 DEF CloseLeg, MainLeg
    <2>. QED
      BY <1>3, <2>2
  <1>7. ASSUME NEW i \in DOMAIN p
        PROVE  /\ p[i].is_close_leg => p[i].target_size = 0
               /\ Abs(p[i].delta_size) >= MinSize
    BY <1>1, <1>5 DEF CloseLeg, MainLeg
  <1>. QED
    BY <1>4, <1>6, <1>7 DEF PlanShape

-----------------------------------------------------------------------------
\* The leg at hand, its id and the size of its order.
LEMMA CurrentTypes ==
  ASSUME TypeOK, pc \in LegPCs
  PROVE  /\ op \in Leg /\ CurrentSeq \in -1 .. MaxAttempts - 1
         /\ CurrentCloid \in Cloid
         /\ OrderSize \in Int /\ ReduceOnly \in BOOLEAN
         /\ Fillable(op.coin, OrderSize, ReduceOnly) \in Nat
         /\ Fills \subseteq Nat
         /\ Sign(OrderSize) \in Int
  <1>1. op \in Leg
    BY DEF TypeOK, op, LegPCs
  <1>2. CurrentSeq \in -1 .. MaxAttempts - 1
    BY <1>1, ExecutorAssumption
       DEF TypeOK, CurrentSeq, IsFullExit, Leg, ExecutorAssumption
  <1>3. CurrentCloid \in Cloid
    <2>1. now_ts \in 1 .. MaxCycles
      BY ExecutorAssumption DEF TypeOK, LegPCs, ExecutorAssumption
    <2>2. op.coin \in Coin
      BY <1>1 DEF Leg
    <2>. QED
      BY <1>2, <2>1, <2>2, ExecutorAssumption
         DEF CurrentCloid, make_cloid, ExecutorAssumption
  <1>4. OrderSize \in Int
    <2>1. pos[op.coin] \in Int /\ residual \in Int /\ op.delta_size \in Int
      BY <1>1 DEF TypeOK, Leg
    <2>. QED
      BY <2>1, SMT DEF OrderSize, Sign
  <1>5. ReduceOnly \in BOOLEAN
    BY DEF ReduceOnly
  <1>6. Fillable(op.coin, OrderSize, ReduceOnly) \in Nat
    <2>1. pos[op.coin] \in Int
      BY <1>1 DEF TypeOK, Leg
    <2>2. Abs(OrderSize) \in Nat /\ Abs(pos[op.coin]) \in Nat
      BY <1>4, <2>1, AbsType
    <2>. QED
      BY <2>2 DEF Fillable, Least
  <1>7. Fills \subseteq Nat
    BY <1>6 DEF Fills
  <1>8. Sign(OrderSize) \in Int
    BY <1>4, AbsType
  <1>. QED
    BY <1>1, <1>2, <1>3, <1>4, <1>5, <1>6, <1>7, <1>8

\* Ledger operations keep the ledger a map to statuses.
LEMMA LedgerTypes ==
  ASSUME LedgerTypeOK
  PROVE  /\ \A c \in Cloid, ok \in BOOLEAN :
                record_pending(c, ok) \/ mark_done(c, ok) => LedgerTypeOK'
         /\ \A S : reconcile_pending(S) \/ reconcile_raises(S) => LedgerTypeOK'
         /\ LoadLedger /\ UNCHANGED file => LedgerTypeOK'
         /\ UNCHANGED ledger => LedgerTypeOK'
  BY DEF LedgerTypeOK, Status, record_pending, mark_done, _flush,
         reconcile_pending, reconcile_raises, Resolved, LoadLedger, ledger

LEMMA EndStatusType ==
  \A r, f : EndStatus(r, f) \in LegStatus
  BY DEF EndStatus, LegStatus

\* A leg that is done adds its status.
LEMMA LegDoneTypes ==
  ASSUME TypeOK, Len(results) < Len(plan), NEW s \in LegStatus, LegDone(s),
         UNCHANGED plan
  PROVE  /\ results' \in Seq(LegStatus) /\ Len(results') <= Len(plan')
         /\ pc' = "dispatch" /\ Len(results') = Len(results) + 1
  BY DEF TypeOK, LegDone

LEMMA InitTypes == Init => TypeOK
  BY ExecutorAssumption
     DEF Init, TypeOK, LedgerTypeOK, LedgerInit, Status, PCs, Reports, LegPCs,
         Answers, Order, Targets, ExecutorAssumption

LEMMA NextAttemptTypes ==
  ASSUME TypeOK, pc \in LegPCs, NEW f \in Nat, NextAttempt(f), UNCHANGED plan
  PROVE  /\ results' \in Seq(LegStatus) /\ Len(results') <= Len(plan')
         /\ pc' \in {"record", "dispatch"}
         /\ pc' = "record" => Len(results') < Len(plan')
         /\ attempt_seq' \in 0 .. MaxAttempts - 1
         /\ residual' \in Int /\ filled_total' \in Nat
  <1>1. /\ residual' \in Int /\ filled_total' \in Nat
        /\ Len(results) < Len(plan)
    BY DEF NextAttempt, TypeOK
  <1>2. CASE residual' > 0 /\ attempt_seq + 1 < MaxAttempts
    BY <1>1, <1>2, ExecutorAssumption
       DEF NextAttempt, TypeOK, ExecutorAssumption
  <1>3. CASE ~(residual' > 0 /\ attempt_seq + 1 < MaxAttempts)
    <2>1. LegDone(EndStatus(residual', filled_total')) /\ UNCHANGED attempt_seq
      BY <1>3 DEF NextAttempt
    <2>. QED
      BY <1>1, <2>1, EndStatusType, LegDoneTypes DEF TypeOK
  <1>. QED
    BY <1>2, <1>3

-----------------------------------------------------------------------------
(***************************************************************************)
(* The steps, by the part of the state they touch.                         *)
(***************************************************************************)
VenueTypes ==
    /\ pos \in [Coin -> Int]
    /\ book \subseteq Order
    /\ sent \subseteq Cloid /\ full \subseteq Cloid

HistoryTypes ==
    /\ executed \in Nat /\ restfilled \in Nat
    /\ strays \subseteq Coin /\ answered \subseteq Cloid

PlanTypes ==
    /\ now_ts \in 0 .. MaxCycles
    /\ snap \in [Coin -> Int] /\ target \in [Coin -> Int]
    /\ plan \in Seq(Leg)

LegTypes ==
    /\ attempt_seq \in 0 .. MaxAttempts - 1
    /\ residual \in Int /\ filled_total \in Nat
    /\ resp \in [kind : Answers, size : Nat]

ControlTypes ==
    /\ pc \in PCs /\ report \in Reports /\ gate \in BOOLEAN
    /\ results \in Seq(LegStatus) /\ Len(results) <= Len(plan)
    /\ pc \in LegPCs => Len(results) < Len(plan)
    /\ pc \notin {"idle", "down"} => now_ts > 0
    /\ faults \in 0 .. MaxFaults

LEMMA TypeParts ==
    /\ LedgerTypeOK' /\ VenueTypes' /\ HistoryTypes'
    /\ PlanTypes' /\ LegTypes' /\ ControlTypes'
    => TypeOK'
  BY DEF TypeOK, VenueTypes, HistoryTypes, PlanTypes, LegTypes, ControlTypes

LEMMA FaultTypes ==
    TypeOK /\ (Fault \/ UNCHANGED faults) => faults' \in 0 .. MaxFaults
  BY ExecutorAssumption DEF TypeOK, Fault, ExecutorAssumption

LEMMA StartCycleTypes ==
  ASSUME TypeOK, StartCycle
  PROVE  TypeOK'
  <1>1. LedgerTypeOK'
    BY LedgerTypes DEF StartCycle, TypeOK
  <1>2. target' \in Targets /\ pos \in [Coin -> Int]
    BY DEF StartCycle, TypeOK
  <1>3. target' \in [Coin -> Int] /\ snap' \in [Coin -> Int]
    BY <1>2, ExecutorAssumption DEF Targets, StartCycle, ExecutorAssumption
  <1>4. plan' \in Seq(Leg)
    <2>1. CASE plan' = <<>>
      BY <2>1
    <2>2. CASE plan' \in Plans(target')
      BY <1>2, <2>2, PlanWellFormed
    <2>. QED
      BY <2>1, <2>2 DEF StartCycle, Preflight
  <1>5. now_ts' \in 0 .. MaxCycles /\ now_ts' > 0
    BY ExecutorAssumption DEF StartCycle, TypeOK, ExecutorAssumption
  <1>6. PlanTypes'
    BY <1>3, <1>4, <1>5 DEF PlanTypes
  <1>7. VenueTypes' /\ LegTypes'
    BY DEF StartCycle, TypeOK, VenueTypes, LegTypes, venue, leg
  <1>8. HistoryTypes'
    BY DEF StartCycle, TypeOK, HistoryTypes
  <1>9. ControlTypes'
    <2>1. /\ pc' \in {"idle", "dispatch"} /\ report' \in Reports
      BY DEF StartCycle, Preflight, Conclude, Reports
    <2>2. results' = <<>> /\ gate' = gate /\ faults' = faults
      BY DEF StartCycle
    <2>. QED
      BY <1>4, <1>5, <2>1, <2>2 DEF ControlTypes, TypeOK, PCs, LegPCs
  <1>. QED
    BY <1>1, <1>6, <1>7, <1>8, <1>9, TypeParts

\* Leaving with an exception.
LEMMA RaiseTypes ==
  ASSUME TypeOK, Raise, Fault \/ UNCHANGED faults
  PROVE  PlanTypes' /\ LegTypes' /\ ControlTypes'
  BY FaultTypes
     DEF TypeOK, Raise, Conclude, PlanTypes, LegTypes, ControlTypes, plans,
         leg, PCs, Reports, LegPCs

LEMMA ReconcileRaisesTypes ==
  ASSUME TypeOK, ReconcileRaises
  PROVE  TypeOK'
  <1>1. LedgerTypeOK'
    BY LedgerTypes DEF ReconcileRaises, TypeOK
  <1>2. VenueTypes' /\ LegTypes' /\ HistoryTypes'
    BY DEF ReconcileRaises, TypeOK, VenueTypes, LegTypes, HistoryTypes,
           venue, leg, history
  <1>3. PlanTypes'
    BY ExecutorAssumption
       DEF ReconcileRaises, TypeOK, PlanTypes, ExecutorAssumption
  <1>4. ControlTypes'
    BY FaultTypes
       DEF ReconcileRaises, Conclude, TypeOK, ControlTypes, PCs, Reports, LegPCs
  <1>. QED
    BY <1>1, <1>2, <1>3, <1>4, TypeParts

LEMMA DispatchTypes ==
  ASSUME TypeOK, MarksRaise \/ SkipLeg \/ BeginLeg \/ FinishCycle
  PROVE  TypeOK'
  <1>1. LedgerTypeOK' /\ VenueTypes' /\ PlanTypes'
    BY LedgerTypes
       DEF MarksRaise, SkipLeg, BeginLeg, FinishCycle, Raise, TypeOK,
           VenueTypes, PlanTypes, venue, plans
  <1>2. HistoryTypes'
    BY DEF MarksRaise, SkipLeg, BeginLeg, FinishCycle, TypeOK, HistoryTypes, history
  <1>3. CASE MarksRaise
    BY <1>1, <1>2, <1>3, RaiseTypes, TypeParts DEF MarksRaise
  <1>4. CASE SkipLeg
    <2>1. "deferred" \in LegStatus
      BY DEF LegStatus
    <2>2. /\ results' \in Seq(LegStatus) /\ Len(results') <= Len(plan')
          /\ pc' = "dispatch"
      BY <1>4, <2>1, LegDoneTypes DEF SkipLeg, plans
    <2>3. ControlTypes'
      BY <1>4, <2>2 DEF SkipLeg, TypeOK, ControlTypes, plans, PCs, LegPCs
    <2>4. LegTypes'
      BY <1>4 DEF SkipLeg, TypeOK, LegTypes, leg
    <2>. QED
      BY <1>1, <1>2, <2>3, <2>4, TypeParts
  <1>5. CASE BeginLeg
    <2>1. op \in Leg
      BY <1>5 DEF BeginLeg, op, TypeOK
    <2>2. Abs(op.delta_size) \in Int
      BY <2>1, AbsType DEF Leg
    <2>3. LegTypes'
      BY <1>5, <2>2, ExecutorAssumption
         DEF BeginLeg, TypeOK, LegTypes, ExecutorAssumption
    <2>4. ControlTypes'
      BY <1>5 DEF BeginLeg, TypeOK, ControlTypes, plans, PCs, LegPCs
    <2>. QED
      BY <1>1, <1>2, <2>3, <2>4, TypeParts
  <1>6. CASE FinishCycle
    <2>1. LegTypes'
      BY <1>6 DEF FinishCycle, TypeOK, LegTypes, leg
    <2>2. report' \in Reports /\ pc' = "idle"
      BY <1>6 DEF FinishCycle, Conclude, Reports
    <2>3. ControlTypes'
      BY <1>6, <2>2 DEF FinishCycle, TypeOK, ControlTypes, plans, PCs, LegPCs
    <2>. QED
      BY <1>1, <1>2, <2>1, <2>3, TypeParts
  <1>. QED
    BY <1>3, <1>4, <1>5, <1>6

LEMMA RecordTypes ==
  ASSUME TypeOK, Record \/ RecordRaises
  PROVE  TypeOK'
  <1>1. pc \in LegPCs
    BY DEF Record, RecordRaises, LegPCs
  <1>2. CurrentCloid \in Cloid
    BY <1>1, CurrentTypes
  <1>3. LedgerTypeOK'
    BY <1>2, LedgerTypes DEF Record, RecordRaises, TypeOK
  <1>4. VenueTypes' /\ HistoryTypes'
    BY DEF Record, RecordRaises, TypeOK, VenueTypes, HistoryTypes, venue, history
  <1>5. CASE Record
    <2>1. PlanTypes' /\ LegTypes'
      BY <1>5 DEF Record, TypeOK, PlanTypes, LegTypes, plans, leg
    <2>2. ControlTypes'
      BY <1>5 DEF Record, TypeOK, ControlTypes, plans, PCs, LegPCs
    <2>. QED
      BY <1>3, <1>4, <2>1, <2>2, TypeParts
  <1>6. CASE RecordRaises
    BY <1>3, <1>4, <1>6, RaiseTypes, TypeParts DEF RecordRaises
  <1>. QED
    BY <1>5, <1>6

\* What an answer changes, for any kind and fill.
LEMMA AnswerTypes ==
  ASSUME TypeOK, pc = "submit", NEW kind \in Answers, NEW f \in Nat,
         Answer(kind, f)
  PROVE  /\ LedgerTypeOK' /\ PlanTypes' /\ LegTypes' /\ HistoryTypes'
         /\ pos' \in [Coin -> Int] /\ sent' \subseteq Cloid /\ full' \subseteq Cloid
         /\ faults' \in 0 .. MaxFaults => ControlTypes'
  <1>1. pc \in LegPCs
    BY DEF LegPCs
  <1>2. /\ op \in Leg /\ CurrentCloid \in Cloid /\ Sign(OrderSize) \in Int
    BY <1>1, CurrentTypes
  <1>3. LedgerTypeOK' /\ PlanTypes'
    BY LedgerTypes DEF Answer, TypeOK, PlanTypes, plans
  <1>4. LegTypes'
    BY DEF Answer, TypeOK, LegTypes
  <1>5. HistoryTypes'
    BY DEF Answer, TypeOK, HistoryTypes
  <1>6. sent' \subseteq Cloid /\ full' \subseteq Cloid
    BY <1>2 DEF Answer, TypeOK
  <1>7. pos' \in [Coin -> Int]
    <2>1. \A c \in Coin : pos[c] + Sign(OrderSize) * f \in Int
      BY <1>2 DEF TypeOK
    <2>. QED
      BY <2>1 DEF Answer, Trade, TypeOK
  <1>8. ASSUME faults' \in 0 .. MaxFaults
        PROVE  ControlTypes'
    BY <1>8 DEF Answer, TypeOK, ControlTypes, plans, PCs, LegPCs
  <1>. QED
    BY <1>3, <1>4, <1>5, <1>6, <1>7, <1>8

LEMMA SubmitTypes ==
  ASSUME TypeOK, SubmitRefused \/ SubmitFilled \/ SubmitLost \/ SubmitRests
  PROVE  TypeOK'
  <1>1. pc = "submit" /\ faults' \in 0 .. MaxFaults
    BY FaultTypes DEF SubmitRefused, SubmitFilled, SubmitLost, SubmitRests
  <1>2. PICK kind \in Answers, f \in Nat : Answer(kind, f)
    <2>1. Fills \subseteq Nat
      BY <1>1, CurrentTypes DEF LegPCs
    <2>. QED
      BY <2>1 DEF SubmitRefused, SubmitFilled, SubmitLost, SubmitRests, Answers
  <1>3. book' \subseteq Order
    <2>1. book \subseteq Order
      BY DEF TypeOK
    <2>2. [cloid |-> CurrentCloid, size |-> OrderSize,
           reduce_only |-> ReduceOnly] \in Order
      BY <1>1, CurrentTypes DEF LegPCs, Order
    <2>. QED
      BY <2>1, <2>2 DEF SubmitRefused, SubmitFilled, SubmitLost, SubmitRests
  <1>. QED
    BY <1>1, <1>2, <1>3, AnswerTypes, TypeParts DEF VenueTypes

\* Steps that settle or give up an attempt, with the locals they leave alone.
LEMMA HandleLegTypes ==
  ASSUME TypeOK, pc \in {"answer", "cancel"}, UNCHANGED <<gate, plans, report, resp>>,
         faults' \in 0 .. MaxFaults,
         \/ /\ \E s \in LegStatus : LegDone(s)
            /\ UNCHANGED <<attempt_seq, residual, filled_total>>
         \/ NextAttempt(resp.size)
  PROVE  PlanTypes' /\ LegTypes' /\ ControlTypes'
  <1>1. pc \in LegPCs /\ Len(results) < Len(plan) /\ UNCHANGED plan
        /\ resp.size \in Nat /\ now_ts > 0
    BY DEF LegPCs, TypeOK, plans
  <1>2. PlanTypes'
    BY DEF TypeOK, PlanTypes, plans
  <1>3. /\ results' \in Seq(LegStatus) /\ Len(results') <= Len(plan')
        /\ pc' \in {"record", "dispatch"}
        /\ pc' = "record" => Len(results') < Len(plan')
        /\ attempt_seq' \in 0 .. MaxAttempts - 1
        /\ residual' \in Int /\ filled_total' \in Nat
    <2>1. CASE NextAttempt(resp.size)
      BY <1>1, <2>1, NextAttemptTypes
    <2>2. CASE /\ \E s \in LegStatus : LegDone(s)
               /\ UNCHANGED <<attempt_seq, residual, filled_total>>
      BY <1>1, <2>2, LegDoneTypes DEF TypeOK
    <2>. QED
      BY <2>1, <2>2
  <1>4. LegTypes'
    BY <1>3 DEF TypeOK, LegTypes
  <1>5. ControlTypes'
    BY <1>1, <1>3 DEF TypeOK, ControlTypes, plans, PCs, LegPCs
  <1>. QED
    BY <1>2, <1>4, <1>5

LEMMA HandleTypes ==
  ASSUME TypeOK,
         \/ HandleRefused \/ HandleLost \/ HandleMalformed \/ HandleExit
         \/ HandleFilled \/ HandleResting \/ CancelReturns \/ CancelRaises
         \/ MarkDoneRaises
  PROVE  TypeOK'
  <1>1. pc \in {"answer", "cancel"} /\ pc \in LegPCs
    BY DEF HandleRefused, HandleLost, HandleMalformed, HandleExit, HandleFilled,
           HandleResting, CancelReturns, CancelRaises, MarkDoneRaises, LegPCs
  <1>2. CurrentCloid \in Cloid
    BY <1>1, CurrentTypes
  <1>3. LedgerTypeOK'
    BY <1>2, LedgerTypes
       DEF TypeOK, HandleRefused, HandleLost, HandleMalformed, HandleExit,
           HandleFilled, HandleResting, CancelReturns, CancelRaises,
           MarkDoneRaises, Settle
  <1>4. HistoryTypes'
    BY <1>2
       DEF TypeOK, HistoryTypes, HandleRefused, HandleLost, HandleMalformed,
           HandleExit, HandleFilled, HandleResting, CancelReturns, CancelRaises,
           MarkDoneRaises, Settle, Quiet, history
  <1>5. VenueTypes'
    BY DEF TypeOK, VenueTypes, HandleRefused, HandleLost, HandleMalformed,
           HandleExit, HandleFilled, HandleResting, CancelReturns, CancelRaises,
           MarkDoneRaises, Quiet, venue
  <1>6. faults' \in 0 .. MaxFaults
    BY FaultTypes
       DEF HandleRefused, HandleLost, HandleMalformed, HandleExit, HandleFilled,
           HandleResting, CancelReturns, CancelRaises, MarkDoneRaises, Quiet
  <1>7. /\ "error" \in LegStatus /\ BrokenStatus \in LegStatus
        /\ ExitStatus \in LegStatus
    BY EndStatusType DEF LegStatus, BrokenStatus, ExitStatus
  <1>8. CASE HandleRefused \/ HandleLost \/ HandleExit
    <2>1. /\ \E s \in LegStatus : LegDone(s)
          /\ UNCHANGED <<attempt_seq, residual, filled_total>>
          /\ UNCHANGED <<gate, plans, report, resp>>
      BY <1>7, <1>8 DEF HandleRefused, HandleLost, HandleExit, Quiet
    <2>2. PlanTypes' /\ LegTypes' /\ ControlTypes'
      BY <1>1, <1>6, <2>1, HandleLegTypes
    <2>. QED
      BY <1>3, <1>4, <1>5, <2>2, TypeParts
  <1>9. CASE HandleFilled \/ CancelReturns
    <2>1. NextAttempt(resp.size) /\ UNCHANGED <<gate, plans, report, resp>>
      BY <1>9 DEF HandleFilled, CancelReturns, Quiet
    <2>2. PlanTypes' /\ LegTypes' /\ ControlTypes'
      BY <1>1, <1>6, <2>1, HandleLegTypes
    <2>. QED
      BY <1>3, <1>4, <1>5, <2>2, TypeParts
  <1>10. CASE CancelRaises
    <2>1. /\ \E s \in LegStatus : LegDone(s)
          /\ UNCHANGED <<attempt_seq, residual, filled_total>>
          /\ UNCHANGED <<gate, plans, report, resp>>
      BY <1>7, <1>10 DEF CancelRaises, leg
    <2>2. PlanTypes' /\ LegTypes' /\ ControlTypes'
      BY <1>1, <1>6, <2>1, HandleLegTypes
    <2>. QED
      BY <1>3, <1>4, <1>5, <2>2, TypeParts
  <1>11. CASE HandleMalformed \/ MarkDoneRaises
    <2>1. Raise /\ (Fault \/ UNCHANGED faults)
      BY <1>11 DEF HandleMalformed, MarkDoneRaises
    <2>. QED
      BY <1>3, <1>4, <1>5, <2>1, RaiseTypes, TypeParts
  <1>12. CASE HandleResting
    <2>1. PlanTypes' /\ LegTypes' /\ ControlTypes'
      BY <1>12
         DEF HandleResting, Quiet, TypeOK, PlanTypes, LegTypes, ControlTypes,
             plans, PCs, LegPCs
    <2>. QED
      BY <1>3, <1>4, <1>5, <2>1, TypeParts
  <1>. QED
    BY <1>8, <1>9, <1>10, <1>11, <1>12

\* What the venue can fill of a resting order.
LEMMA FillableType ==
  ASSUME TypeOK, NEW o \in book
  PROVE  /\ o.cloid \in Cloid /\ o.cloid.coin \in Coin /\ o.size \in Int
         /\ Fillable(o.cloid.coin, o.size, o.reduce_only) \in Nat
  <1>1. o.cloid \in Cloid /\ o.size \in Int
    BY DEF TypeOK, Order
  <1>2. o.cloid.coin \in Coin
    BY <1>1, ExecutorAssumption DEF ExecutorAssumption
  <1>3. pos[o.cloid.coin] \in Int
    BY <1>2 DEF TypeOK
  <1>4. Abs(o.size) \in Nat /\ Abs(pos[o.cloid.coin]) \in Nat
    BY <1>1, <1>3, AbsType
  <1>. QED
    BY <1>1, <1>2, <1>4 DEF Fillable, Least

LEMMA RestFillsTypes ==
  ASSUME TypeOK, RestFills
  PROVE  TypeOK'
  <1>1. PICK o \in book :
          \E f \in 1 .. Fillable(o.cloid.coin, o.size, o.reduce_only) :
            LET c == o.cloid.coin
                rest == o.size - Sign(o.size) * f
            IN /\ pos' = [pos EXCEPT ![c] = @ + Sign(o.size) * f]
               /\ book' = (book \ {o}) \union
                           (IF rest = 0 THEN {} ELSE {[o EXCEPT !.size = rest]})
               /\ full' = IF rest = 0 THEN full \union {o.cloid} ELSE full
               /\ strays' = strays \union {c}
               /\ restfilled' \in {restfilled, restfilled + f}
               /\ UNCHANGED <<ledger, pc, gate, plans, results, leg, report, sent,
                              executed, answered, faults>>
    BY DEF RestFills
  <1>2. /\ o.cloid \in Cloid /\ o.cloid.coin \in Coin /\ o.size \in Int
        /\ Fillable(o.cloid.coin, o.size, o.reduce_only) \in Nat
        /\ Sign(o.size) \in Int
    BY FillableType, AbsType
  <1>. DEFINE top == Fillable(o.cloid.coin, o.size, o.reduce_only)
  <1>3. PICK f \in 1 .. top :
          LET c == o.cloid.coin
              rest == o.size - Sign(o.size) * f
          IN /\ pos' = [pos EXCEPT ![c] = @ + Sign(o.size) * f]
             /\ book' = (book \ {o}) \union
                         (IF rest = 0 THEN {} ELSE {[o EXCEPT !.size = rest]})
             /\ full' = IF rest = 0 THEN full \union {o.cloid} ELSE full
             /\ strays' = strays \union {c}
             /\ restfilled' \in {restfilled, restfilled + f}
             /\ UNCHANGED <<ledger, pc, gate, plans, results, leg, report, sent,
                            executed, answered, faults>>
    BY <1>1
  <1>. f \in Nat
    <2>. top \in Nat
      BY <1>2
    <2>. HIDE DEF top
    <2>. QED
      OBVIOUS
  <1>. DEFINE rest == o.size - Sign(o.size) * f
  <1>4. rest \in Int /\ Sign(o.size) * f \in Int
    BY <1>2
  <1>5. [o EXCEPT !.size = rest] \in Order
    <2>1. o \in Order
      BY DEF TypeOK
    <2>. HIDE DEF rest
    <2>. QED
      BY <1>4, <2>1 DEF Order
  <1>6. book' \subseteq Order
    BY <1>3, <1>5 DEF TypeOK
  <1>7. pos' \in [Coin -> Int]
    <2>1. \A c \in Coin : pos[c] + Sign(o.size) * f \in Int
      BY <1>4 DEF TypeOK
    <2>. QED
      BY <1>3, <2>1 DEF TypeOK
  <1>8. VenueTypes'
    BY <1>2, <1>3, <1>6, <1>7 DEF TypeOK, VenueTypes
  <1>9. HistoryTypes'
    <2>1. restfilled' \in Nat
      <3>1. restfilled + f \in Nat /\ restfilled \in Nat
        BY DEF TypeOK
      <3>. QED
        BY <1>3, <3>1
    <2>2. strays' \subseteq Coin
      BY <1>2, <1>3, Zenon DEF TypeOK
    <2>3. UNCHANGED <<executed, answered>>
      BY <1>3
    <2>. QED
      BY <2>1, <2>2, <2>3 DEF TypeOK, HistoryTypes
  <1>10. LedgerTypeOK'
    BY <1>3, LedgerTypes DEF TypeOK
  <1>11. PlanTypes' /\ LegTypes' /\ ControlTypes'
    BY <1>3 DEF TypeOK, PlanTypes, LegTypes, ControlTypes, plans, leg
  <1>. QED
    BY <1>8, <1>9, <1>10, <1>11, TypeParts

LEMMA CrashTypes ==
  ASSUME TypeOK, Crash
  PROVE  TypeOK'
  <1>1. LedgerTypeOK'
    BY LedgerTypes DEF Crash, TypeOK
  <1>2. VenueTypes' /\ HistoryTypes' /\ PlanTypes' /\ LegTypes'
    BY DEF Crash, TypeOK, VenueTypes, HistoryTypes, PlanTypes, LegTypes, venue,
           history, plans, leg
  <1>3. ControlTypes'
    BY FaultTypes DEF Crash, TypeOK, ControlTypes, plans, PCs, Reports, LegPCs
  <1>. QED
    BY <1>1, <1>2, <1>3, TypeParts

LEMMA BootTypes ==
  ASSUME TypeOK, Boot
  PROVE  TypeOK'
  <1>1. LedgerTypeOK'
    BY LedgerTypes DEF Boot, TypeOK
  <1>2. VenueTypes' /\ HistoryTypes' /\ PlanTypes' /\ LegTypes'
    BY DEF Boot, TypeOK, VenueTypes, HistoryTypes, PlanTypes, LegTypes,
           history, plans, leg
  <1>3. ControlTypes'
    BY ExecutorAssumption, FaultTypes
       DEF Boot, TypeOK, ControlTypes, plans, PCs, LegPCs, ExecutorAssumption
  <1>. QED
    BY <1>1, <1>2, <1>3, TypeParts

LEMMA NextTypes == TypeOK /\ [Next]_vars => TypeOK'
  <1>. SUFFICES ASSUME TypeOK, [Next]_vars PROVE TypeOK'
    OBVIOUS
  <1>1. CASE UNCHANGED vars
    BY <1>1
       DEF vars, TypeOK, LedgerTypeOK, ledger, plans, leg, venue, history, LegPCs
  <1>2. CASE StartCycle \/ ReconcileRaises
    BY <1>2, StartCycleTypes, ReconcileRaisesTypes
  <1>3. CASE Progress
    BY <1>3, DispatchTypes, RecordTypes, SubmitTypes, HandleTypes DEF Progress
  <1>4. CASE RestFills \/ Crash \/ Boot
    BY <1>4, RestFillsTypes, CrashTypes, BootTypes
  <1>5. CASE Finished
    BY <1>1, <1>5 DEF Finished
  <1>. QED
    BY <1>1, <1>2, <1>3, <1>4, <1>5 DEF Next

\* The executor's state is well-formed in every behaviour.
THEOREM TypeCorrect == Spec => []TypeOK
  BY InitTypes, NextTypes, PTL DEF Spec

\* Memory and file never disagree about an order that was sent, but for its
\* DONE, which may be in memory only.
LedgerAt(c) ==
    /\ file[c] = "DONE" => intents[c] = "DONE"
    /\ file[c] = "PENDING" => intents[c] # "ABSENT"
    /\ intents[c] = "DONE" => c \in sent /\ c \in answered \union full
    /\ c \in sent => file[c] # "ABSENT"

LedgerInv == \A c \in Cloid : LedgerAt(c)

VenueInv ==
    /\ full \subseteq sent
    /\ \A o \in book : o.cloid \in sent
    /\ pc = "submit" => file[CurrentCloid] = "PENDING"
    /\ pc \in {"answer", "cancel"} => CurrentCloid \in sent

\* Leg i accounts for the id c of the current cycle: it is done, or it is the
\* leg being worked on and c is of an attempt already sent.
Accounts(i, c) ==
    /\ plan[i].coin = c.coin
    /\ plan[i].is_close_leg <=> c.seq = -1
    /\ \/ i <= Len(results)
       \/ /\ pc \in LegPCs /\ i = Len(results) + 1
          /\ \/ c.seq < CurrentSeq
             \/ pc \in {"answer", "cancel"} /\ c.seq = CurrentSeq

InCycle == pc \notin {"idle", "down"}

SentInv ==
    \A c \in sent :
        /\ c.ts <= now_ts
        /\ InCycle /\ c.ts = now_ts => \E i \in DOMAIN plan : Accounts(i, c)

\* A close leg that filled left nothing on the book.
CloseInv ==
    InCycle =>
        \A i \in DOMAIN results : plan[i].is_close_leg /\ results[i] = "filled" =>
            \A o \in book : o.cloid.ts = now_ts /\ o.cloid.coin = plan[i].coin =>
                o.cloid.seq # -1

\* Only an answer that says so, or no answer, leaves the order on the book.
AnswerInv ==
    /\ pc = "answer" =>
           \/ resp.kind \in {"resting", "lost"}
           \/ \A o \in book : o.cloid # CurrentCloid
    /\ pc \in {"answer", "cancel"} /\ resp.kind = "resting" => resp.size = 0
    /\ pc = "cancel" => ~IsFullExit

\* What an ordinary leg has traded, has on the book and still wants add up.
ExposureInv ==
    pc \in LegPCs /\ ~IsFullExit =>
        /\ filled_total + residual = Abs(op.delta_size)
        /\ pc \in {"record", "submit"} => residual > 0 /\ executed = filled_total
        /\ pc \in {"answer", "cancel"} =>
               /\ resp.size <= residual
               /\ executed = filled_total + resp.size
        /\ \A o \in RestingOf(op.coin) :
               /\ pc \in {"answer", "cancel"} /\ resp.size = 0
               /\ o.cloid = CurrentCloid
               /\ Abs(o.size) <= residual

IInv ==
    /\ TypeOK
    /\ PlanShape(plan)
    /\ LedgerInv
    /\ VenueInv
    /\ SentInv
    /\ CloseInv
    /\ AnswerInv
    /\ ExposureInv

-----------------------------------------------------------------------------
(***************************************************************************)
(* The ledger operations, whoever calls them.                              *)
(***************************************************************************)
FileStep ==
    \A c \in Cloid : file'[c] = file[c] \/ Ahead!Adds(c) \/ Ahead!Settles(c)

LEMMA SameLedger ==
  ASSUME LedgerInv, UNCHANGED ledger, sent \subseteq sent', answered \subseteq answered',
         full \subseteq full', \A c \in sent' \cap Cloid : file[c] # "ABSENT"
  PROVE  LedgerInv' /\ FileStep
  BY DEF LedgerInv, LedgerAt, FileStep, ledger

LEMMA RecordLedger ==
  ASSUME TypeOK, LedgerInv, NEW c \in Cloid, c \notin sent, NEW ok \in BOOLEAN,
         record_pending(c, ok), UNCHANGED <<sent, answered, full>>
  PROVE  LedgerInv' /\ FileStep /\ (ok => file'[c] = "PENDING")
  <1>. intents \in [Cloid -> Status] /\ file \in [Cloid -> Status]
    BY DEF TypeOK, LedgerTypeOK
  <1>1. \A d \in Cloid : /\ intents'[d] = IF d = c THEN "PENDING" ELSE intents[d]
                        /\ file'[d] = IF ok THEN intents'[d] ELSE file[d]
    BY DEF record_pending, _flush
  <1>2. file[c] # "DONE" /\ intents[c] # "DONE"
    BY DEF LedgerInv, LedgerAt
  <1>3. LedgerInv'
    <2>. SUFFICES ASSUME NEW d \in Cloid
                  PROVE  LedgerAt(d)'
      BY DEF LedgerInv
    <2>1. LedgerAt(d)
      BY DEF LedgerInv
    <2>. QED
      BY <1>1, <1>2, <2>1 DEF LedgerAt, Status
  <1>4. FileStep
    BY <1>1, <1>2 DEF LedgerInv, LedgerAt, FileStep, Ahead!Adds, Ahead!Settles, Status
  <1>. QED
    BY <1>1, <1>3, <1>4

LEMMA SettleLedger ==
  ASSUME TypeOK, LedgerInv, NEW c \in Cloid, c \in sent, NEW ok \in BOOLEAN,
         mark_done(c, ok), answered' = answered \union {c}, UNCHANGED <<sent, full>>
  PROVE  LedgerInv' /\ FileStep
  <1>. intents \in [Cloid -> Status] /\ file \in [Cloid -> Status]
    BY DEF TypeOK, LedgerTypeOK
  <1>1. \A d \in Cloid : /\ intents'[d] = IF d = c THEN "DONE" ELSE intents[d]
                        /\ file'[d] = IF ok THEN intents'[d] ELSE file[d]
    BY DEF mark_done, _flush
  <1>2. LedgerInv'
    <2>. SUFFICES ASSUME NEW d \in Cloid
                  PROVE  LedgerAt(d)'
      BY DEF LedgerInv
    <2>1. LedgerAt(d)
      BY DEF LedgerInv
    <2>. QED
      BY <1>1, <2>1 DEF LedgerAt, Status
  <1>3. FileStep
    BY <1>1 DEF LedgerInv, LedgerAt, FileStep, Ahead!Adds, Ahead!Settles, Status
  <1>. QED
    BY <1>2, <1>3

LEMMA ReconcileLedger ==
  ASSUME TypeOK, LedgerInv, full \subseteq sent, NEW S \in SUBSET Confirmable,
         reconcile_pending(S) \/ reconcile_raises(S),
         UNCHANGED <<sent, answered, full>>
  PROVE  LedgerInv' /\ FileStep
  <1>. intents \in [Cloid -> Status] /\ file \in [Cloid -> Status]
    BY DEF TypeOK, LedgerTypeOK
  <1>1. S \subseteq full /\ S \subseteq sent
    BY DEF Confirmable
  <1>2. \A d \in Cloid : intents'[d] = IF d \in S THEN "DONE" ELSE intents[d]
    BY DEF reconcile_pending, reconcile_raises, Resolved
  <1>3. PICK T \in SUBSET S :
          \/ \A d \in Cloid : file'[d] = file[d]
          \/ \A d \in Cloid : file'[d] = IF d \in T THEN "DONE" ELSE intents[d]
    <2>1. CASE reconcile_pending(S)
      BY <1>2, <2>1 DEF reconcile_pending
    <2>2. CASE reconcile_raises(S)
      <3>1. PICK c \in S :
              file' = IF S = {c} THEN file ELSE Resolved(intents, S \ {c})
        BY <2>2 DEF reconcile_raises
      <3>. QED
        BY <3>1 DEF Resolved
    <2>. QED
      BY <2>1, <2>2
  <1>4. LedgerInv'
    <2>. SUFFICES ASSUME NEW d \in Cloid
                  PROVE  LedgerAt(d)'
      BY DEF LedgerInv
    <2>1. LedgerAt(d)
      BY DEF LedgerInv
    <2>. QED
      BY <1>1, <1>2, <1>3, <2>1 DEF LedgerAt, Status
  <1>5. FileStep
    BY <1>1, <1>2, <1>3 DEF LedgerInv, LedgerAt, FileStep, Ahead!Adds, Ahead!Settles, Status
  <1>. QED
    BY <1>4, <1>5

LEMMA LoadedLedger ==
  ASSUME TypeOK, LedgerInv, LoadLedger, UNCHANGED <<file, sent, answered, full>>
  PROVE  LedgerInv' /\ FileStep
  BY DEF LedgerInv, LedgerAt, FileStep, LoadLedger, TypeOK, LedgerTypeOK

-----------------------------------------------------------------------------
(***************************************************************************)
(* Ids.                                                                    *)
(***************************************************************************)
LEMMA SameOp ==
  ASSUME UNCHANGED <<plan, results>>
  PROVE  /\ op' = op /\ IsFullExit' = IsFullExit
         /\ UNCHANGED attempt_seq => CurrentSeq' = CurrentSeq
         /\ UNCHANGED <<attempt_seq, now_ts>> => CurrentCloid' = CurrentCloid
  BY DEF op, IsFullExit, CurrentSeq, CurrentCloid, make_cloid

\* The leg being worked on: its place in the plan, and the parts of its id.
LEMMA CurrentFacts ==
  ASSUME TypeOK, PlanShape(plan), pc \in LegPCs
  PROVE  /\ Len(results) + 1 \in DOMAIN plan /\ op = plan[Len(results) + 1]
         /\ CurrentCloid \in Cloid /\ op \in Leg
         /\ CurrentCloid.ts = now_ts /\ CurrentCloid.coin = op.coin
         /\ CurrentCloid.seq = CurrentSeq
         /\ CurrentSeq = -1 <=> op.is_close_leg
         /\ op.is_close_leg => IsFullExit
         /\ Abs(op.delta_size) > 0
  <1>1. /\ Len(results) + 1 \in DOMAIN plan /\ op = plan[Len(results) + 1]
    BY DEF TypeOK, op
  <1>2. CurrentCloid \in Cloid /\ op \in Leg /\ CurrentSeq \in Int
    BY CurrentTypes
  <1>3. op.is_close_leg => op.target_size = 0
    BY <1>1 DEF PlanShape
  <1>4. CurrentSeq = -1 <=> op.is_close_leg
    BY <1>3 DEF CurrentSeq, IsFullExit, TypeOK
  <1>5. Abs(op.delta_size) > 0
    <2>1. Abs(op.delta_size) >= MinSize
      BY <1>1 DEF PlanShape
    <2>2. Abs(op.delta_size) \in Int
      BY <1>2, AbsType DEF Leg
    <2>. QED
      BY <2>1, <2>2, ExecutorAssumption DEF ExecutorAssumption
  <1>. QED
    BY <1>1, <1>2, <1>3, <1>4, <1>5 DEF CurrentCloid, make_cloid, IsFullExit

\* An order about to be recorded or sent has an id never used before.
LEMMA FreshCloid ==
  ASSUME TypeOK, PlanShape(plan), SentInv, pc \in {"record", "submit"}
  PROVE  CurrentCloid \notin sent
  <1>1. SUFFICES ASSUME CurrentCloid \in sent
                 PROVE  FALSE
    OBVIOUS
  <1>2. pc \in LegPCs /\ InCycle
    BY DEF LegPCs, InCycle
  <1>3. PICK i \in DOMAIN plan : Accounts(i, CurrentCloid)
    BY <1>1, <1>2, CurrentFacts DEF SentInv
  <1>4. plan[i].coin = op.coin /\ plan[i].is_close_leg = op.is_close_leg
    <2>1. plan[i] \in Leg
      BY DEF TypeOK
    <2>. QED
      BY <1>2, <1>3, <2>1, CurrentFacts DEF Accounts, Leg
  <1>5. i = Len(results) + 1
    BY <1>2, <1>4, CurrentFacts DEF PlanShape
  <1>6. CurrentSeq \in Int /\ CurrentCloid.seq = CurrentSeq
    BY <1>2, CurrentTypes, CurrentFacts
  <1>. QED
    BY <1>3, <1>5, <1>6 DEF Accounts, TypeOK

-----------------------------------------------------------------------------
(***************************************************************************)
(* The invariant's parts over the kinds of step that change what they read.*)
(***************************************************************************)
\* Outside a cycle only the ledger and the venue say anything.
LEMMA OutOfCycle ==
  ASSUME TypeOK, SentInv, pc' \in {"idle", "down"}, now_ts' \in Int,
         now_ts <= now_ts', UNCHANGED sent
  PROVE  SentInv' /\ CloseInv' /\ AnswerInv' /\ ExposureInv'
  <1>1. \A c \in sent : c.ts \in Int
    BY ExecutorAssumption DEF TypeOK, ExecutorAssumption
  <1>2. SentInv'
    BY <1>1 DEF SentInv, InCycle, TypeOK
  <1>. QED
    BY <1>2 DEF CloseInv, AnswerInv, ExposureInv, InCycle, LegPCs

\* The leg being worked on, or skipped, is done.
LegEnds == pc' = "dispatch" /\ \E s \in LegStatus : LegDone(s)

LEMMA LegEndsSent ==
  ASSUME TypeOK, PlanShape(plan), SentInv, LegEnds, Len(results) < Len(plan),
         InCycle, UNCHANGED <<plan, now_ts, sent>>
  PROVE  SentInv'
  <1>1. Len(results') = Len(results) + 1 /\ Len(results) \in Nat
    BY LegDoneTypes DEF LegEnds, TypeOK
  <1>2. ASSUME NEW c \in sent, c.ts = now_ts
        PROVE  \E i \in DOMAIN plan : Accounts(i, c)'
    <2>1. PICK i \in DOMAIN plan : Accounts(i, c)
      BY <1>2 DEF SentInv
    <2>2. i <= Len(results')
      BY <1>1, <2>1 DEF Accounts, TypeOK
    <2>3. Accounts(i, c)'
      BY <2>1, <2>2 DEF Accounts
    <2>. QED
      BY <2>3
  <1>. QED
    BY <1>2 DEF SentInv

\* A step that keeps the leg and does not go back on its ids.
LEMMA SameLegSent ==
  ASSUME TypeOK, PlanShape(plan), SentInv, InCycle,
         UNCHANGED <<plan, results, now_ts>>,
         \/ pc = "dispatch" /\ UNCHANGED sent
         \/ /\ pc \in LegPCs /\ pc' \in LegPCs
            /\ CurrentSeq' \in Int
            /\ \/ /\ CurrentSeq <= CurrentSeq' /\ UNCHANGED sent
                  /\ pc \in {"answer", "cancel"} =>
                         pc' \in {"answer", "cancel"} \/ CurrentSeq < CurrentSeq'
               \/ /\ CurrentSeq' = CurrentSeq /\ pc' = "answer"
                  /\ sent' = sent \union {CurrentCloid}
  PROVE  SentInv'
  <1>1. \A c \in sent : c.ts \in Int /\ c.seq \in Int
    BY ExecutorAssumption DEF TypeOK, ExecutorAssumption
  <1>2. ASSUME NEW c \in sent, c.ts = now_ts
        PROVE  \E i \in DOMAIN plan : Accounts(i, c)'
    <2>1. PICK i \in DOMAIN plan : Accounts(i, c)
      BY <1>2 DEF SentInv
    <2>2. CASE i <= Len(results)
      BY <2>1, <2>2 DEF Accounts
    <2>3. CASE ~(i <= Len(results))
      <3>1. pc \in LegPCs /\ i = Len(results) + 1 /\ c.seq <= CurrentSeq
            /\ (pc \notin {"answer", "cancel"} => c.seq < CurrentSeq)
        BY <1>1, <2>1, <2>3, CurrentTypes DEF Accounts
      <3>2. pc' \in LegPCs /\ CurrentSeq' \in Int /\ CurrentSeq \in Int
        BY <3>1, CurrentTypes DEF LegPCs
      <3>3. c.seq < CurrentSeq' \/ (pc' \in {"answer", "cancel"} /\ c.seq = CurrentSeq')
        BY <1>1, <3>1, <3>2 DEF LegPCs
      <3>. QED
        BY <2>1, <3>1, <3>2, <3>3 DEF Accounts
    <2>. QED
      BY <2>2, <2>3
  <1>3. ASSUME pc \in LegPCs, pc' = "answer", CurrentSeq' = CurrentSeq,
               NEW c, c = CurrentCloid
        PROVE  c.ts = now_ts /\ \E i \in DOMAIN plan : Accounts(i, c)'
    <2>1. PICK k \in DOMAIN plan : k = Len(results) + 1 /\ plan[k] = op
      BY <1>3, CurrentFacts
    <2>2. /\ c.ts = now_ts /\ c.coin = op.coin /\ c.seq = CurrentSeq
          /\ op.is_close_leg <=> c.seq = -1
      BY <1>3, CurrentFacts
    <2>3. Accounts(k, c)'
      BY <1>3, <2>1, <2>2 DEF Accounts, LegPCs
    <2>. QED
      BY <2>1, <2>2, <2>3
  <1>4. ASSUME NEW c \in sent'
        PROVE  /\ c.ts <= now_ts'
               /\ c.ts = now_ts' => \E i \in DOMAIN plan' : Accounts(i, c)'
    <2>1. CASE c \in sent
      BY <1>2, <2>1 DEF SentInv
    <2>2. CASE c \notin sent
      <3>1. c = CurrentCloid /\ pc \in LegPCs /\ pc' = "answer"
            /\ CurrentSeq' = CurrentSeq
        BY <1>4, <2>2
      <3>2. c.ts <= now_ts'
        BY <1>3, <3>1, ExecutorAssumption DEF TypeOK, ExecutorAssumption
      <3>3. \E i \in DOMAIN plan' : Accounts(i, c)'
        BY <1>3, <3>1
      <3>. QED
        BY <3>2, <3>3
    <2>. QED
      BY <2>1, <2>2
  <1>. QED
    BY <1>4 DEF SentInv

\* Nothing new on the book.
BookKept == \A o \in book' : \E b \in book : o.cloid = b.cloid

LEMMA SameLegClose ==
  ASSUME TypeOK, CloseInv, InCycle, BookKept, UNCHANGED <<plan, results, now_ts>>
  PROVE  CloseInv'
  BY DEF CloseInv, BookKept

LEMMA LegEndsClose ==
  ASSUME TypeOK, PlanShape(plan), CloseInv, InCycle, BookKept,
         Len(results) < Len(plan),
         NEW s \in LegStatus, LegDone(s), UNCHANGED <<plan, now_ts>>,
         op.is_close_leg /\ s = "filled" =>
             \A o \in book : ~(/\ o.cloid.ts = now_ts /\ o.cloid.coin = op.coin
                               /\ o.cloid.seq = -1)
  PROVE  CloseInv'
  <1>1. /\ DOMAIN results' = DOMAIN results \union {Len(results) + 1}
        /\ \A i \in DOMAIN results : results'[i] = results[i]
        /\ results'[Len(results) + 1] = s
    BY DEF LegDone, TypeOK
  <1>2. op = plan[Len(results) + 1]
    BY DEF op
  <1>3. ASSUME NEW i \in DOMAIN results', plan[i].is_close_leg, results'[i] = "filled",
               NEW o \in book', o.cloid.ts = now_ts, o.cloid.coin = plan[i].coin
        PROVE  o.cloid.seq # -1
    <2>1. PICK b \in book : o.cloid = b.cloid
      BY DEF BookKept
    <2>2. CASE i \in DOMAIN results
      BY <1>1, <1>3, <2>1, <2>2 DEF CloseInv
    <2>3. CASE i = Len(results) + 1
      BY <1>1, <1>2, <1>3, <2>1, <2>3
    <2>. QED
      BY <1>1, <2>2, <2>3
  <1>. QED
    BY <1>3 DEF CloseInv

\* What is sent is not what a close leg that filled had sent.
LEMMA RestsClose ==
  ASSUME TypeOK, PlanShape(plan), CloseInv, pc \in LegPCs,
         UNCHANGED <<plan, results, now_ts>>,
         \A o \in book' : o \in book \/ o.cloid = CurrentCloid
  PROVE  CloseInv'
  <1>1. InCycle
    BY DEF InCycle, LegPCs
  <1>2. ASSUME NEW i \in DOMAIN results, plan[i].is_close_leg, results[i] = "filled",
               NEW o \in book', o.cloid.ts = now_ts, o.cloid.coin = plan[i].coin,
               o.cloid.seq = -1
        PROVE  FALSE
    <2>1. CASE o \in book
      BY <1>1, <1>2, <2>1 DEF CloseInv
    <2>2. CASE o.cloid = CurrentCloid
      <3>1. op.is_close_leg /\ op.coin = plan[i].coin
        BY <1>2, <2>2, CurrentFacts
      <3>2. i \in DOMAIN plan /\ i < Len(results) + 1
        BY DEF TypeOK
      <3>3. plan[i].is_close_leg = op.is_close_leg
        <4>1. plan[i] \in Leg /\ op \in Leg
          BY <3>2, CurrentFacts DEF TypeOK
        <4>. QED
          BY <1>2, <3>1, <4>1 DEF Leg
      <3>4. i = Len(results) + 1
        BY <3>1, <3>2, <3>3, CurrentFacts DEF PlanShape
      <3>. QED
        BY <3>2, <3>4
    <2>. QED
      BY <2>1, <2>2
  <1>. QED
    BY <1>2 DEF CloseInv

\* An open leg starts with none of its coin's orders of this cycle resting.
LEMMA OpenLegStartsClear ==
  ASSUME TypeOK, PlanShape(plan), VenueInv, SentInv, CloseInv, pc = "dispatch",
         Len(results) < Len(plan), ~Suppressed, ~op.is_close_leg
  PROVE  RestingOf(op.coin) = {}
  <1>1. SUFFICES ASSUME NEW o \in book, o.cloid.coin = op.coin, o.cloid.ts = now_ts
                 PROVE  FALSE
    BY DEF RestingOf
  <1>2. /\ Len(results) + 1 \in DOMAIN plan /\ op = plan[Len(results) + 1]
        /\ Len(results) \in Nat
    BY DEF TypeOK, op
  <1>3. InCycle
    BY DEF InCycle
  <1>4. PICK i \in DOMAIN plan : Accounts(i, o.cloid)
    BY <1>1, <1>3 DEF VenueInv, SentInv
  <1>5. i <= Len(results) /\ plan[i].coin = op.coin
    BY <1>1, <1>4 DEF Accounts, LegPCs
  <1>6. plan[i].is_close_leg
    <2>1. plan[i] \in Leg /\ op \in Leg
      BY <1>2 DEF TypeOK
    <2>2. i # Len(results) + 1
      BY <1>2, <1>5 DEF TypeOK
    <2>. QED
      BY <1>2, <1>5, <2>1, <2>2 DEF PlanShape, Leg
  <1>7. i \in CloseLegs(op.coin) /\ op.coin \in Coin
    <2>1. op \in Leg
      BY <1>2 DEF TypeOK
    <2>. QED
      BY <1>5, <1>6, <2>1 DEF CloseLegs, Leg
  <1>8. op.coin \in flip_close_coins
    BY <1>7 DEF flip_close_coins
  <1>9. PICK j \in CloseLegs(op.coin) : j \in DOMAIN results /\ results[j] = "filled"
    BY <1>8 DEF Suppressed, CloseLegFilled
  <1>10. o.cloid.seq # -1
    BY <1>1, <1>3, <1>9 DEF CloseInv, CloseLegs
  <1>. QED
    BY <1>4, <1>6, <1>10 DEF Accounts

-----------------------------------------------------------------------------
(***************************************************************************)
(* The steps.                                                              *)
(***************************************************************************)
Rests == VenueInv /\ SentInv /\ CloseInv /\ AnswerInv /\ ExposureInv

\* Steps that leave a cycle, or happen between two, and the start of one.
Leaves ==
    \/ ReconcileRaises \/ MarksRaise \/ FinishCycle \/ RecordRaises
    \/ HandleMalformed \/ MarkDoneRaises \/ Crash \/ Boot

LEMMA LeavesInv ==
  ASSUME IInv, Leaves
  PROVE  LedgerInv' /\ FileStep /\ Rests' /\ UNCHANGED sent
  <1>1. /\ pc' \in {"idle", "down"} /\ UNCHANGED <<sent, full>>
        /\ BookKept
        /\ now_ts' \in Int /\ now_ts <= now_ts'
    <2>1. now_ts \in Int
      BY ExecutorAssumption DEF IInv, TypeOK, ExecutorAssumption
    <2>2. pc' \in {"idle", "down"} /\ UNCHANGED <<sent, full>>
      BY DEF Leaves, ReconcileRaises, MarksRaise, FinishCycle, RecordRaises,
             HandleMalformed, MarkDoneRaises, Crash, Boot, Raise, Conclude, venue
    <2>3. book' \subseteq book
      BY DEF Leaves, ReconcileRaises, MarksRaise, FinishCycle, RecordRaises,
             HandleMalformed, MarkDoneRaises, Crash, Boot, Raise, Conclude, venue
    <2>4. now_ts' \in {now_ts, now_ts + 1}
      BY DEF Leaves, ReconcileRaises, MarksRaise, FinishCycle, RecordRaises,
             HandleMalformed, MarkDoneRaises, Crash, Boot, Raise, Conclude, plans
    <2>5. BookKept
      BY <2>3 DEF BookKept
    <2>. QED
      BY <2>1, <2>2, <2>4, <2>5
  <1>2. VenueInv'
    BY <1>1 DEF IInv, VenueInv, BookKept
  <1>3. SentInv' /\ CloseInv' /\ AnswerInv' /\ ExposureInv'
    BY <1>1, OutOfCycle DEF IInv
  <1>4. LedgerInv' /\ FileStep
    <2>1. CASE MarksRaise \/ FinishCycle \/ HandleMalformed
      <3>1. UNCHANGED ledger /\ UNCHANGED answered
        BY <2>1 DEF MarksRaise, FinishCycle, HandleMalformed, history
      <3>2. \A c \in sent' \cap Cloid : file[c] # "ABSENT"
        BY <1>1 DEF IInv, LedgerInv, LedgerAt
      <3>. QED
        BY <1>1, <3>1, <3>2, SameLedger DEF IInv
    <2>2. CASE ReconcileRaises
      <3>1. PICK S \in SUBSET Confirmable : reconcile_raises(S)
        BY <2>2 DEF ReconcileRaises
      <3>2. UNCHANGED answered
        BY <2>2 DEF ReconcileRaises, history
      <3>. QED
        BY <1>1, <3>1, <3>2, ReconcileLedger DEF IInv, VenueInv
    <2>3. CASE RecordRaises
      <3>1. CurrentCloid \in Cloid /\ CurrentCloid \notin sent
        BY <2>3, CurrentTypes, FreshCloid DEF RecordRaises, IInv, LegPCs
      <3>2. UNCHANGED answered /\ record_pending(CurrentCloid, FALSE)
        BY <2>3 DEF RecordRaises, history
      <3>. QED
        BY <1>1, <3>1, <3>2, RecordLedger DEF IInv
    <2>4. CASE MarkDoneRaises
      <3>1. pc \in {"answer", "cancel"} /\ mark_done(CurrentCloid, FALSE)
            /\ answered' = answered \union {CurrentCloid}
        BY <2>4 DEF MarkDoneRaises
      <3>2. CurrentCloid \in Cloid /\ CurrentCloid \in sent
        BY <3>1, CurrentTypes DEF IInv, VenueInv, LegPCs
      <3>. QED
        BY <1>1, <3>1, <3>2, SettleLedger DEF IInv
    <2>5. CASE Crash
      BY <1>1, <2>5, LoadedLedger DEF Crash, IInv, history
    <2>6. CASE Boot
      <3>1. PICK S \in SUBSET Confirmable : reconcile_pending(S) \/ reconcile_raises(S)
        BY <2>6 DEF Boot
      <3>2. UNCHANGED answered
        BY <2>6 DEF Boot, history
      <3>. QED
        BY <1>1, <3>1, <3>2, ReconcileLedger DEF IInv, VenueInv
    <2>. QED
      BY <2>1, <2>2, <2>3, <2>4, <2>5, <2>6 DEF Leaves
  <1>. QED
    BY <1>1, <1>2, <1>3, <1>4 DEF Rests

LEMMA StartCycleInv ==
  ASSUME IInv, StartCycle
  PROVE  LedgerInv' /\ FileStep /\ Rests' /\ PlanShape(plan') /\ UNCHANGED sent
  <1>1. /\ UNCHANGED <<sent, full, book, answered>> /\ now_ts' = now_ts + 1
        /\ now_ts \in Int /\ results' = <<>>
        /\ pc' \in {"idle", "dispatch"}
    BY ExecutorAssumption
       DEF StartCycle, Preflight, Conclude, venue, IInv, TypeOK, ExecutorAssumption
  <1>2. LedgerInv' /\ FileStep
    <2>1. PICK S \in SUBSET Confirmable : reconcile_pending(S)
      BY DEF StartCycle
    <2>. QED
      BY <1>1, <2>1, ReconcileLedger DEF IInv, VenueInv
  <1>3. PlanShape(plan')
    <2>1. CASE plan' = <<>>
      BY <2>1 DEF PlanShape
    <2>2. CASE plan' \in Plans(target')
      <3>1. plan' \in Plans(target')
        BY <2>2
      <3>2. target' \in Targets /\ pos \in [Coin -> Int]
        BY DEF StartCycle, IInv, TypeOK
      <3>. QED
        BY <3>1, <3>2, PlanWellFormed
    <2>. QED
      BY <2>1, <2>2 DEF StartCycle, Preflight
  <1>4. SentInv'
    <2>1. \A c \in sent : c.ts \in Int
      BY ExecutorAssumption DEF IInv, TypeOK, ExecutorAssumption
    <2>2. ASSUME NEW c \in sent
          PROVE  c.ts <= now_ts' /\ c.ts # now_ts'
      BY <1>1, <2>1 DEF IInv, SentInv
    <2>. QED
      BY <1>1, <2>2 DEF SentInv
  <1>5. VenueInv' /\ CloseInv' /\ AnswerInv' /\ ExposureInv'
    BY <1>1 DEF IInv, VenueInv, CloseInv, AnswerInv, ExposureInv, LegPCs
  <1>. QED
    BY <1>1, <1>2, <1>3, <1>4, <1>5 DEF Rests

\* A step that does nothing to ids or the venue.
LEMMA QuietVenue ==
  ASSUME IInv, UNCHANGED <<ledger, sent, full, answered>>
  PROVE  LedgerInv' /\ FileStep
  <1>1. \A c \in sent' \cap Cloid : file[c] # "ABSENT"
    BY DEF IInv, LedgerInv, LedgerAt
  <1>. QED
    BY <1>1, SameLedger DEF IInv

LEMMA DispatchInv ==
  ASSUME IInv, SkipLeg \/ BeginLeg
  PROVE  LedgerInv' /\ FileStep /\ Rests' /\ UNCHANGED <<plan, sent>>
  <1>1. /\ UNCHANGED <<ledger, plan, now_ts, book, sent, full, answered>>
        /\ pc = "dispatch" /\ InCycle /\ Len(results) < Len(plan)
    BY DEF SkipLeg, BeginLeg, plans, venue, history, InCycle
  <1>2. LedgerInv' /\ FileStep
    BY <1>1, QuietVenue
  <1>3. BookKept
    BY <1>1 DEF BookKept
  <1>4. CASE SkipLeg
    <2>1. pc' = "dispatch" /\ LegDone("deferred") /\ "deferred" \in LegStatus
      BY <1>4 DEF SkipLeg, LegDone, LegStatus
    <2>2. SentInv'
      BY <1>1, <2>1, LegEndsSent DEF LegEnds, IInv
    <2>3. CloseInv'
      BY <1>1, <1>3, <2>1, LegEndsClose DEF IInv
    <2>4. VenueInv' /\ AnswerInv' /\ ExposureInv'
      BY <1>1, <2>1 DEF IInv, VenueInv, AnswerInv, ExposureInv, LegPCs
    <2>. QED
      BY <1>1, <1>2, <2>2, <2>3, <2>4 DEF Rests
  <1>5. CASE BeginLeg
    <2>1. /\ pc' = "record" /\ UNCHANGED results
          /\ attempt_seq' = 0 /\ residual' = Abs(op.delta_size)
          /\ filled_total' = 0 /\ executed' = 0 /\ ~Suppressed
      BY <1>5 DEF BeginLeg
    <2>2. SentInv'
      BY <1>1, <2>1, SameLegSent DEF IInv
    <2>3. CloseInv'
      BY <1>1, <1>3, <2>1, SameLegClose DEF IInv
    <2>4. VenueInv' /\ AnswerInv'
      BY <1>1, <2>1 DEF IInv, VenueInv, AnswerInv
    <2>5. ExposureInv'
      <3>1. SUFFICES ASSUME ~IsFullExit'
                     PROVE  /\ filled_total' + residual' = Abs(op.delta_size)
                            /\ residual' > 0 /\ RestingOf(op.coin) = {}
        BY <1>1, <2>1, SameOp DEF ExposureInv, RestingOf
      <3>2. ~op.is_close_leg /\ Abs(op.delta_size) > 0 /\ Abs(op.delta_size) \in Nat
        <4>1. /\ Len(results) + 1 \in DOMAIN plan /\ op = plan[Len(results) + 1]
              /\ op \in Leg
          BY <1>1 DEF IInv, TypeOK, op
        <4>2. Abs(op.delta_size) \in Nat
          BY <4>1, AbsType DEF Leg
        <4>3. Abs(op.delta_size) >= MinSize
          BY <4>1 DEF IInv, PlanShape
        <4>4. ~op.is_close_leg
          BY <1>1, <2>1, <3>1, <4>1, SameOp DEF IInv, PlanShape, IsFullExit
        <4>. QED
          BY <4>2, <4>3, <4>4, ExecutorAssumption DEF ExecutorAssumption
      <3>3. RestingOf(op.coin) = {}
        BY <1>1, <2>1, <3>2, OpenLegStartsClear DEF IInv
      <3>. QED
        BY <2>1, <3>2, <3>3
    <2>. QED
      BY <1>1, <1>2, <2>2, <2>3, <2>4, <2>5 DEF Rests
  <1>. QED
    BY <1>4, <1>5

LEMMA RecordInv ==
  ASSUME IInv, Record
  PROVE  LedgerInv' /\ FileStep /\ Rests' /\ UNCHANGED <<plan, sent>>
  <1>1. /\ UNCHANGED <<plan, results, now_ts, book, sent, full, answered,
                       attempt_seq, residual, filled_total, resp, executed>>
        /\ pc = "record" /\ pc' = "submit" /\ InCycle /\ pc \in LegPCs /\ pc' \in LegPCs
        /\ record_pending(CurrentCloid, TRUE)
    BY DEF Record, plans, venue, history, leg, InCycle, LegPCs
  <1>2. /\ op' = op /\ IsFullExit' = IsFullExit /\ CurrentSeq' = CurrentSeq
        /\ CurrentCloid' = CurrentCloid /\ CurrentSeq \in Int
    BY <1>1, SameOp, CurrentTypes DEF IInv
  <1>3. LedgerInv' /\ FileStep /\ file'[CurrentCloid] = "PENDING"
    BY <1>1, RecordLedger, CurrentTypes, FreshCloid DEF IInv
  <1>4. VenueInv'
    BY <1>1, <1>2, <1>3 DEF IInv, VenueInv
  <1>5. SentInv'
    BY <1>1, <1>2, SameLegSent DEF IInv
  <1>6. CloseInv'
    BY <1>1, SameLegClose DEF IInv, BookKept
  <1>7. AnswerInv'
    BY <1>1 DEF IInv, AnswerInv
  <1>8. ExposureInv'
    BY <1>1, <1>2 DEF IInv, ExposureInv, RestingOf
  <1>. QED
    BY <1>1, <1>3, <1>4, <1>5, <1>6, <1>7, <1>8 DEF Rests

LEMMA RestFillsInv ==
  ASSUME IInv, RestFills
  PROVE  LedgerInv' /\ FileStep /\ Rests' /\ UNCHANGED <<plan, sent>>
  <1>1. PICK o \in book, f \in Nat :
          LET rest == o.size - Sign(o.size) * f
          IN /\ f <= Fillable(o.cloid.coin, o.size, o.reduce_only)
             /\ book' = (book \ {o}) \union
                         (IF rest = 0 THEN {} ELSE {[o EXCEPT !.size = rest]})
             /\ full' = IF rest = 0 THEN full \union {o.cloid} ELSE full
             /\ UNCHANGED <<ledger, pc, plan, results, now_ts, sent, attempt_seq,
                            residual, filled_total, resp, executed, answered>>
    <2>1. PICK o \in book :
            \E f \in 1 .. Fillable(o.cloid.coin, o.size, o.reduce_only) :
              LET rest == o.size - Sign(o.size) * f
              IN /\ book' = (book \ {o}) \union
                             (IF rest = 0 THEN {} ELSE {[o EXCEPT !.size = rest]})
                 /\ full' = IF rest = 0 THEN full \union {o.cloid} ELSE full
                 /\ UNCHANGED <<ledger, pc, plan, results, now_ts, sent, attempt_seq,
                                residual, filled_total, resp, executed, answered>>
      BY Zenon DEF RestFills, plans, leg
    <2>. DEFINE top == Fillable(o.cloid.coin, o.size, o.reduce_only)
    <2>2. top \in Nat
      BY FillableType DEF IInv
    <2>3. \A f \in 1 .. top : f \in Nat /\ f <= top
      <3>. HIDE DEF top
      <3>. QED
        BY <2>2
    <2>. QED
      BY <2>1, <2>3
  <1>. DEFINE rest == o.size - Sign(o.size) * f
  <1>2. o.size \in Int /\ o.cloid \in Cloid /\ o.cloid.coin \in Coin
    BY FillableType DEF IInv
  <1>3. f <= Abs(o.size)
    <2>1. pos[o.cloid.coin] \in Int /\ Abs(o.size) \in Nat
      BY <1>2, AbsType DEF IInv, TypeOK
    <2>2. Fillable(o.cloid.coin, o.size, o.reduce_only) <= Abs(o.size)
      <3>1. Abs(pos[o.cloid.coin]) \in Nat
        BY <2>1, AbsType
      <3>. QED
        BY <2>1, <3>1 DEF Fillable, Least
    <2>3. Fillable(o.cloid.coin, o.size, o.reduce_only) \in Nat
      BY FillableType DEF IInv
    <2>. QED
      BY <1>1, <2>1, <2>2, <2>3
  <1>4. Abs(rest) <= Abs(o.size)
    <2>1. CASE o.size < 0
      BY <1>2, <1>3, <2>1 DEF Abs, Sign
    <2>2. CASE ~(o.size < 0)
      BY <1>2, <1>3, <2>2 DEF Abs, Sign
    <2>. QED
      BY <2>1, <2>2
  <1>5. ASSUME NEW p \in book'
        PROVE  \E b \in book : p.cloid = b.cloid /\ Abs(p.size) <= Abs(b.size)
    <2>1. CASE p \in book
      <3>1. Abs(p.size) \in Nat
        BY <2>1, FillableType, AbsType DEF IInv
      <3>. QED
        BY <2>1, <3>1
    <2>2. CASE p \notin book
      <3>1. p = [o EXCEPT !.size = rest]
        BY <1>1, <2>2
      <3>2. o \in Order
        BY DEF IInv, TypeOK
      <3>3. p.cloid = o.cloid /\ p.size = rest
        <4>. HIDE DEF rest
        <4>. QED
          BY <3>1, <3>2 DEF Order
      <3>. QED
        BY <1>4, <3>3
    <2>. QED
      BY <2>1, <2>2
  <1>6. /\ op' = op /\ IsFullExit' = IsFullExit /\ CurrentSeq' = CurrentSeq
        /\ CurrentCloid' = CurrentCloid
    BY <1>1, SameOp
  <1>7. full \subseteq full' /\ full' \subseteq sent /\ UNCHANGED <<sent, answered, ledger, plan>>
    BY <1>1 DEF IInv, VenueInv
  <1>8. LedgerInv' /\ FileStep
    <2>1. \A c \in sent' \cap Cloid : file[c] # "ABSENT"
      BY <1>7 DEF IInv, LedgerInv, LedgerAt
    <2>. QED
      BY <1>7, <2>1, SameLedger DEF IInv
  <1>9. BookKept
    BY <1>5 DEF BookKept
  <1>10. VenueInv'
    BY <1>1, <1>6, <1>7, <1>9 DEF IInv, VenueInv, BookKept, ledger
  <1>11. SentInv'
    BY <1>1, <1>6 DEF IInv, SentInv, Accounts, InCycle
  <1>12. CloseInv'
    <2>1. CASE InCycle
      BY <1>1, <1>9, <2>1, SameLegClose DEF IInv
    <2>2. CASE ~InCycle
      BY <1>1, <2>2 DEF CloseInv, InCycle
    <2>. QED
      BY <2>1, <2>2
  <1>13. AnswerInv'
    BY <1>1, <1>6, <1>9 DEF IInv, AnswerInv, BookKept
  <1>14. ExposureInv'
    <2>1. ASSUME pc \in LegPCs, ~IsFullExit, NEW p \in RestingOf(op.coin)'
          PROVE  /\ pc \in {"answer", "cancel"} /\ resp.size = 0
                 /\ p.cloid = CurrentCloid
                 /\ Abs(p.size) <= residual
      <3>1. p \in book' /\ p.cloid.coin = op.coin /\ p.cloid.ts = now_ts
        BY <1>1, <1>6, <2>1 DEF RestingOf
      <3>2. PICK b \in book : p.cloid = b.cloid /\ Abs(p.size) <= Abs(b.size)
        BY <1>5, <3>1
      <3>3. b \in RestingOf(op.coin)
        BY <3>1, <3>2 DEF RestingOf
      <3>4. /\ pc \in {"answer", "cancel"} /\ resp.size = 0
            /\ b.cloid = CurrentCloid /\ Abs(b.size) <= residual
        BY <2>1, <3>3 DEF IInv, ExposureInv
      <3>5. Abs(b.size) \in Int /\ Abs(p.size) \in Int /\ residual \in Int
        <4>1. book' \subseteq Order
          BY RestFillsTypes DEF IInv, TypeOK
        <4>2. b.size \in Int /\ p.size \in Int
          BY <3>1, <4>1 DEF IInv, TypeOK, Order
        <4>3. residual \in Int
          BY DEF IInv, TypeOK
        <4>4. Abs(b.size) \in Nat /\ Abs(p.size) \in Nat
          BY <4>2, AbsType
        <4>. QED
          BY <4>3, <4>4
      <3>. QED
        BY <3>2, <3>4, <3>5
    <2>. QED
      BY <1>1, <1>6, <2>1 DEF IInv, ExposureInv
  <1>. QED
    BY <1>1, <1>8, <1>10, <1>11, <1>12, <1>13, <1>14 DEF Rests

\* What a submission may trade, and what it leaves on the book.
LEMMA SubmitCases ==
  ASSUME IInv, SubmitRefused \/ SubmitFilled \/ SubmitLost \/ SubmitRests
  PROVE  /\ pc = "submit"
         /\ \E kind \in Answers, f \in Fills :
                /\ Answer(kind, f)
                /\ \/ book' = book /\ kind # "resting"
                   \/ /\ kind \in {"resting", "lost"} /\ f = 0
                      /\ book' = book \union
                             {[cloid |-> CurrentCloid, size |-> OrderSize,
                               reduce_only |-> ReduceOnly]}
  <1>1. pc = "submit" /\ pc \in LegPCs
    BY DEF SubmitRefused, SubmitFilled, SubmitLost, SubmitRests, LegPCs
  <1>2. 0 \in Fills
    BY <1>1, CurrentTypes DEF Fills, IInv
  <1>3. CASE SubmitRefused \/ SubmitFilled \/ SubmitLost
    BY <1>1, <1>2, <1>3 DEF SubmitRefused, SubmitFilled, SubmitLost, Answers
  <1>4. CASE SubmitRests
    BY <1>1, <1>2, <1>4 DEF SubmitRests, Answers
  <1>. QED
    BY <1>1, <1>3, <1>4

LEMMA SubmitInv ==
  ASSUME IInv, SubmitRefused \/ SubmitFilled \/ SubmitLost \/ SubmitRests
  PROVE  /\ LedgerInv' /\ Rests' /\ UNCHANGED <<plan, file>>
         /\ CurrentCloid \in Cloid \ sent /\ file[CurrentCloid] = "PENDING"
         /\ sent' = sent \union {CurrentCloid}
  <1>1. pc = "submit" /\ pc \in LegPCs /\ InCycle
    BY SubmitCases DEF LegPCs, InCycle
  <1>2. PICK kind \in Answers, f \in Fills :
          /\ Answer(kind, f)
          /\ \/ book' = book /\ kind # "resting"
             \/ /\ kind \in {"resting", "lost"} /\ f = 0
                /\ book' = book \union
                       {[cloid |-> CurrentCloid, size |-> OrderSize,
                         reduce_only |-> ReduceOnly]}
    BY SubmitCases
  <1>3. /\ UNCHANGED <<ledger, plan, results, now_ts, attempt_seq, residual,
                       filled_total, answered>>
        /\ resp' = [kind |-> kind, size |-> f] /\ executed' = executed + f
        /\ sent' = sent \union {CurrentCloid}
        /\ full \subseteq full' /\ full' \subseteq full \union {CurrentCloid}
        /\ pc' = "answer"
    BY <1>2 DEF Answer, plans
  <1>4. /\ CurrentCloid \in Cloid /\ CurrentCloid \notin sent
        /\ file[CurrentCloid] = "PENDING"
    BY <1>1, CurrentTypes, FreshCloid DEF IInv, VenueInv
  <1>5. /\ op' = op /\ IsFullExit' = IsFullExit /\ CurrentSeq' = CurrentSeq
        /\ CurrentCloid' = CurrentCloid /\ CurrentSeq \in Int
    BY <1>1, <1>3, SameOp, CurrentTypes DEF IInv
  <1>6. LedgerInv'
    <2>1. \A c \in sent' \cap Cloid : file[c] # "ABSENT"
      BY <1>3, <1>4 DEF IInv, LedgerInv, LedgerAt
    <2>. QED
      BY <1>3, <2>1, SameLedger DEF IInv
  <1>7. \A o \in book' : o \in book \/ (o.cloid = CurrentCloid /\ o.size = OrderSize
                                        /\ f = 0 /\ kind \in {"resting", "lost"})
    BY <1>2
  <1>8. VenueInv'
    <2>1. full' \subseteq sent'
      BY <1>3 DEF IInv, VenueInv
    <2>2. \A o \in book' : o.cloid \in sent'
      BY <1>3, <1>7 DEF IInv, VenueInv
    <2>. QED
      BY <1>3, <1>5, <2>1, <2>2 DEF VenueInv
  <1>9. SentInv'
    BY <1>1, <1>3, <1>5, SameLegSent DEF IInv, LegPCs
  <1>10. CloseInv'
    BY <1>1, <1>3, <1>7, RestsClose DEF IInv
  <1>11. AnswerInv'
    BY <1>2, <1>3, <1>4, <1>5 DEF IInv, AnswerInv, VenueInv
  <1>12. ExposureInv'
    <2>1. SUFFICES ASSUME ~IsFullExit
                   PROVE  /\ filled_total + residual = Abs(op.delta_size)
                          /\ f <= residual /\ executed = filled_total
                          /\ \A o \in RestingOf(op.coin)' :
                                 f = 0 /\ o.cloid = CurrentCloid /\ Abs(o.size) <= residual
      BY <1>3, <1>5 DEF ExposureInv
    <2>2. /\ filled_total + residual = Abs(op.delta_size) /\ residual > 0
          /\ executed = filled_total /\ RestingOf(op.coin) = {}
      BY <1>1, <2>1 DEF IInv, ExposureInv
    <2>3. residual \in Int /\ op.delta_size \in Int
      BY <1>1, CurrentFacts DEF IInv, TypeOK, Leg
    <2>4. Abs(OrderSize) = residual
      BY <2>1, <2>2, <2>3 DEF OrderSize, ReduceOnly, Sign, Abs
    <2>5. f <= residual
      <3>1. OrderSize \in Int /\ pos[op.coin] \in Int
        BY <1>1, CurrentTypes DEF IInv, TypeOK, Leg
      <3>2. Abs(pos[op.coin]) \in Nat
        BY <3>1, AbsType
      <3>3. Fillable(op.coin, OrderSize, ReduceOnly) <= residual
        BY <2>2, <2>3, <2>4, <3>2 DEF Fillable, Least
      <3>4. Fillable(op.coin, OrderSize, ReduceOnly) \in Nat
        BY <1>1, CurrentTypes DEF IInv
      <3>. QED
        BY <2>3, <3>3, <3>4 DEF Fills
    <2>6. ASSUME NEW o \in RestingOf(op.coin)'
          PROVE  f = 0 /\ o.cloid = CurrentCloid /\ Abs(o.size) <= residual
      <3>1. o \in book' /\ o.cloid.coin = op.coin /\ o.cloid.ts = now_ts
        BY <1>3, <1>5, <2>6 DEF RestingOf
      <3>2. o \notin book
        BY <2>2, <3>1 DEF RestingOf
      <3>. QED
        BY <1>7, <2>3, <2>4, <3>1, <3>2
    <2>. QED
      BY <2>2, <2>5, <2>6
  <1>. QED
    BY <1>3, <1>4, <1>6, <1>8, <1>9, <1>10, <1>11, <1>12 DEF Rests, ledger

\* The leg ends; if it is a close leg that filled, with nothing of it resting.
LEMMA LegEndsInv ==
  ASSUME IInv, pc \in LegPCs, NEW s \in LegStatus, LegDone(s), BookKept,
         UNCHANGED <<plan, now_ts, sent, full>>,
         op.is_close_leg /\ s = "filled" => \A o \in book : o.cloid # CurrentCloid
  PROVE  Rests'
  <1>1. InCycle /\ Len(results) < Len(plan) /\ pc' = "dispatch"
    BY DEF InCycle, LegPCs, IInv, TypeOK, LegDone
  <1>2. SentInv'
    BY <1>1, LegEndsSent DEF LegEnds, IInv
  <1>3. ASSUME op.is_close_leg, NEW o \in book, o.cloid.ts = now_ts,
               o.cloid.coin = op.coin, o.cloid.seq = -1
        PROVE  o.cloid = CurrentCloid
    <2>1. o.cloid \in Cloid /\ CurrentCloid \in Cloid
      BY FillableType, CurrentTypes DEF IInv
    <2>2. /\ CurrentCloid.ts = now_ts /\ CurrentCloid.coin = op.coin
          /\ CurrentCloid.seq = -1
      BY <1>3, CurrentFacts DEF IInv
    <2>. QED
      BY <1>3, <2>1, <2>2, ExecutorAssumption DEF ExecutorAssumption
  <1>4. op.is_close_leg /\ s = "filled" =>
            \A o \in book : ~(/\ o.cloid.ts = now_ts /\ o.cloid.coin = op.coin
                              /\ o.cloid.seq = -1)
    BY <1>3
  <1>5. CloseInv'
    BY <1>1, <1>4, LegEndsClose DEF IInv
  <1>6. VenueInv' /\ AnswerInv' /\ ExposureInv'
    BY <1>1 DEF IInv, VenueInv, BookKept, AnswerInv, ExposureInv, LegPCs
  <1>. QED
    BY <1>2, <1>5, <1>6 DEF Rests

\* The residual is to be sent again; the order just answered is off the book.
LEMMA RetryInv ==
  ASSUME IInv, pc \in {"answer", "cancel"}, ~IsFullExit, BookKept,
         pc' = "record", attempt_seq' = attempt_seq + 1,
         filled_total' = filled_total + resp.size,
         residual' = residual - resp.size, residual' > 0,
         UNCHANGED <<plan, results, now_ts, sent, full, executed>>,
         \A o \in book' : o.cloid # CurrentCloid
  PROVE  Rests'
  <1>1. pc \in LegPCs /\ pc' \in LegPCs /\ InCycle
    BY DEF LegPCs, InCycle
  <1>2. op' = op /\ IsFullExit' = IsFullExit
    BY SameOp
  <1>3. CurrentSeq = attempt_seq /\ CurrentSeq' = attempt_seq + 1 /\ attempt_seq \in Int
    BY <1>2, ExecutorAssumption DEF CurrentSeq, IInv, TypeOK, ExecutorAssumption
  <1>4. SentInv'
    BY <1>1, <1>3, SameLegSent DEF IInv
  <1>5. CloseInv'
    BY <1>1, SameLegClose DEF IInv
  <1>6. VenueInv' /\ AnswerInv'
    BY DEF IInv, VenueInv, BookKept, AnswerInv
  <1>7. ExposureInv'
    <2>1. /\ filled_total + residual = Abs(op.delta_size)
          /\ executed = filled_total + resp.size
          /\ \A o \in RestingOf(op.coin) : o.cloid = CurrentCloid
      BY <1>1 DEF IInv, ExposureInv
    <2>2. /\ filled_total \in Int /\ residual \in Int /\ resp.size \in Int
      BY DEF IInv, TypeOK
    <2>3. filled_total' + residual' = Abs(op.delta_size) /\ executed' = filled_total'
      BY <2>1, <2>2
    <2>4. ASSUME NEW o \in RestingOf(op.coin)'
          PROVE  FALSE
      <3>1. o \in book' /\ o.cloid.coin = op.coin /\ o.cloid.ts = now_ts
        BY <1>2, <2>4 DEF RestingOf
      <3>2. PICK b \in book : o.cloid = b.cloid
        BY <3>1 DEF BookKept
      <3>3. b \in RestingOf(op.coin)
        BY <3>1, <3>2 DEF RestingOf
      <3>. QED
        BY <2>1, <3>1, <3>2, <3>3
    <2>. QED
      BY <1>2, <2>3, <2>4 DEF ExposureInv
  <1>. QED
    BY <1>4, <1>5, <1>6, <1>7 DEF Rests

LEMMA HandleInv ==
  ASSUME IInv,
         \/ HandleRefused \/ HandleLost \/ HandleExit \/ HandleFilled
         \/ HandleResting \/ CancelReturns \/ CancelRaises
  PROVE  LedgerInv' /\ FileStep /\ Rests' /\ UNCHANGED <<plan, sent>>
  <1>1. /\ pc \in {"answer", "cancel"} /\ pc \in LegPCs /\ InCycle
        /\ UNCHANGED <<plan, now_ts, sent, full, executed, resp>>
    BY DEF HandleRefused, HandleLost, HandleExit, HandleFilled, HandleResting,
           CancelReturns, CancelRaises, Quiet, plans, venue, leg, LegPCs, InCycle
  <1>2. book' \subseteq book
    BY DEF HandleRefused, HandleLost, HandleExit, HandleFilled, HandleResting,
           CancelReturns, CancelRaises, Quiet, venue
  <1>3. BookKept
    BY <1>2 DEF BookKept
  <1>4. CurrentCloid \in Cloid /\ CurrentCloid \in sent
    BY <1>1, CurrentTypes DEF IInv, VenueInv
  <1>5. LedgerInv' /\ FileStep
    <2>1. CASE HandleLost \/ HandleResting
      BY <1>1, <2>1, QuietVenue DEF HandleLost, HandleResting
    <2>2. CASE \/ HandleRefused \/ HandleExit \/ HandleFilled
               \/ CancelReturns \/ CancelRaises
      <3>1. mark_done(CurrentCloid, TRUE) /\ answered' = answered \union {CurrentCloid}
        BY <2>2 DEF HandleRefused, HandleExit, HandleFilled, CancelReturns,
                    CancelRaises, Settle
      <3>. QED
        BY <1>1, <1>4, <3>1, SettleLedger DEF IInv
    <2>. QED
      BY <2>1, <2>2
  <1>6. op.is_close_leg => IsFullExit
    BY <1>1, CurrentFacts DEF IInv
  <1>7. CASE HandleRefused \/ HandleLost \/ CancelRaises
    <2>1. PICK s \in LegStatus : LegDone(s) /\ (s = "error" \/ s = BrokenStatus)
      BY <1>7, EndStatusType
         DEF HandleRefused, HandleLost, CancelRaises, LegStatus, BrokenStatus
    <2>2. op.is_close_leg => s # "filled"
      BY <1>6, <2>1 DEF BrokenStatus
    <2>. QED
      BY <1>1, <1>3, <1>5, <2>1, <2>2, LegEndsInv
  <1>8. CASE HandleExit
    <2>1. LegDone(ExitStatus) /\ ExitStatus \in LegStatus /\ pc = "answer"
          /\ resp.kind \in {"ok", "resting"}
      BY <1>8, EndStatusType DEF HandleExit, ExitStatus
    <2>2. ExitStatus = "filled" => resp.kind = "ok"
      <3>1. Abs(op.delta_size) > 0 /\ Abs(op.delta_size) \in Nat
        BY <1>1, CurrentFacts, AbsType DEF IInv, Leg
      <3>2. resp.kind = "resting" => resp.size = 0
        BY <2>1 DEF IInv, AnswerInv
      <3>. QED
        BY <2>1, <3>1, <3>2 DEF ExitStatus, EndStatus
    <2>3. ExitStatus = "filled" => \A o \in book : o.cloid # CurrentCloid
      BY <2>1, <2>2 DEF IInv, AnswerInv
    <2>. QED
      BY <1>1, <1>3, <1>5, <2>1, <2>3, LegEndsInv
  <1>9. CASE HandleFilled \/ CancelReturns
    <2>1. NextAttempt(resp.size) /\ ~IsFullExit
      BY <1>9 DEF HandleFilled, CancelReturns, IInv, AnswerInv
    <2>2. \A o \in book' : o.cloid # CurrentCloid
      <3>1. CASE HandleFilled
        BY <1>2, <3>1 DEF HandleFilled, IInv, AnswerInv
      <3>2. CASE CancelReturns
        BY <3>2 DEF CancelReturns
      <3>. QED
        BY <1>9, <3>1, <3>2
    <2>3. CASE residual' > 0 /\ attempt_seq + 1 < MaxAttempts
      <3>1. /\ pc' = "record" /\ attempt_seq' = attempt_seq + 1
            /\ filled_total' = filled_total + resp.size
            /\ residual' = residual - resp.size /\ UNCHANGED results
        BY <2>1, <2>3 DEF NextAttempt
      <3>. QED
        BY <1>1, <1>3, <1>5, <2>1, <2>2, <2>3, <3>1, RetryInv
    <2>4. CASE ~(residual' > 0 /\ attempt_seq + 1 < MaxAttempts)
      <3>1. PICK s \in LegStatus : LegDone(s)
        BY <2>1, <2>4, EndStatusType DEF NextAttempt
      <3>. QED
        BY <1>1, <1>3, <1>5, <1>6, <2>1, <3>1, LegEndsInv
    <2>. QED
      BY <2>3, <2>4
  <1>10. CASE HandleResting
    <2>1. /\ pc = "answer" /\ pc' = "cancel" /\ resp.kind = "resting" /\ ~IsFullExit
          /\ UNCHANGED <<ledger, results, attempt_seq, residual, filled_total, book>>
      BY <1>10 DEF HandleResting, Quiet, venue
    <2>2. /\ op' = op /\ IsFullExit' = IsFullExit /\ CurrentSeq' = CurrentSeq
          /\ CurrentCloid' = CurrentCloid /\ CurrentSeq \in Int
      BY <1>1, <2>1, SameOp, CurrentTypes DEF IInv
    <2>3. VenueInv'
      BY <1>1, <2>1, <2>2 DEF IInv, VenueInv
    <2>4. SentInv'
      BY <1>1, <2>1, <2>2, SameLegSent DEF IInv, LegPCs
    <2>5. CloseInv'
      BY <1>1, <1>3, <2>1, SameLegClose DEF IInv
    <2>6. AnswerInv'
      BY <1>1, <2>1, <2>2 DEF IInv, AnswerInv
    <2>7. ExposureInv'
      BY <1>1, <2>1, <2>2 DEF IInv, ExposureInv, RestingOf
    <2>. QED
      BY <1>1, <1>5, <2>3, <2>4, <2>5, <2>6, <2>7 DEF Rests
  <1>. QED
    BY <1>1, <1>5, <1>7, <1>8, <1>9, <1>10

-----------------------------------------------------------------------------
(***************************************************************************)
(* The theorems.                                                           *)
(***************************************************************************)
LEMMA InitIInv == Init => IInv
  <1>. SUFFICES ASSUME Init PROVE IInv
    OBVIOUS
  <1>1. TypeOK
    BY InitTypes
  <1>2. PlanShape(plan)
    BY DEF Init, PlanShape
  <1>3. LedgerInv
    BY DEF Init, LedgerInit, LedgerInv, LedgerAt
  <1>4. /\ VenueInv /\ SentInv /\ CloseInv /\ AnswerInv /\ ExposureInv
    BY DEF Init, VenueInv, SentInv, CloseInv, AnswerInv, ExposureInv, InCycle, LegPCs
  <1>. QED
    BY <1>1, <1>2, <1>3, <1>4 DEF IInv

\* Every step keeps the invariant, and writes the file or sends an order as
\* WriteAhead allows.
LEMMA NextIInv ==
  ASSUME IInv, [Next]_vars
  PROVE  IInv' /\ [Ahead!Next]_<<file, sent>>
  <1>1. TypeOK'
    BY NextTypes DEF IInv
  <1>2. ASSUME FileStep, UNCHANGED sent
        PROVE  [Ahead!Next]_<<file, sent>>
    BY <1>1, <1>2
       DEF Ahead!Next, Ahead!Write, FileStep, TypeOK, LedgerTypeOK, Status
  <1>3. CASE UNCHANGED vars
    <2>1. UNCHANGED <<intents, file, pc, now_ts, plan, results, attempt_seq, residual,
                      filled_total, resp, book, sent, full, executed, answered>>
      BY <1>3 DEF vars, ledger, plans, leg, venue, history
    <2>2. /\ op' = op /\ IsFullExit' = IsFullExit /\ CurrentSeq' = CurrentSeq
          /\ CurrentCloid' = CurrentCloid
      BY <2>1, SameOp
    <2>3. PlanShape(plan') /\ LedgerInv' /\ VenueInv'
      BY <2>1, <2>2 DEF IInv, LedgerInv, LedgerAt, VenueInv
    <2>4. SentInv' /\ CloseInv'
      BY <2>1, <2>2 DEF IInv, SentInv, Accounts, CloseInv, InCycle
    <2>5. AnswerInv' /\ ExposureInv'
      BY <2>1, <2>2 DEF IInv, AnswerInv, ExposureInv, RestingOf
    <2>. QED
      BY <1>1, <2>1, <2>3, <2>4, <2>5 DEF IInv
  <1>4. CASE StartCycle
    BY <1>1, <1>2, <1>4, StartCycleInv DEF Rests, IInv
  <1>5. CASE Leaves
    <2>1. PlanShape(plan')
      BY <1>5
         DEF Leaves, ReconcileRaises, MarksRaise, FinishCycle, RecordRaises,
             HandleMalformed, MarkDoneRaises, Crash, Boot, Raise, plans, IInv
    <2>. QED
      BY <1>1, <1>2, <1>5, <2>1, LeavesInv DEF Rests, IInv
  <1>6. CASE SkipLeg \/ BeginLeg
    BY <1>1, <1>2, <1>6, DispatchInv DEF Rests, IInv
  <1>7. CASE Record
    BY <1>1, <1>2, <1>7, RecordInv DEF Rests, IInv
  <1>8. CASE SubmitRefused \/ SubmitFilled \/ SubmitLost \/ SubmitRests
    <2>1. IInv'
      BY <1>1, <1>8, SubmitInv DEF Rests, IInv
    <2>2. Ahead!Send
      BY <1>8, SubmitInv DEF Ahead!Send
    <2>. QED
      BY <2>1, <2>2 DEF Ahead!Next
  <1>9. CASE \/ HandleRefused \/ HandleLost \/ HandleExit \/ HandleFilled
             \/ HandleResting \/ CancelReturns \/ CancelRaises
    BY <1>1, <1>2, <1>9, HandleInv DEF Rests, IInv
  <1>10. CASE RestFills
    BY <1>1, <1>2, <1>10, RestFillsInv DEF Rests, IInv
  <1>11. CASE Finished
    BY <1>3, <1>11 DEF Finished
  <1>. QED
    BY <1>3, <1>4, <1>5, <1>6, <1>7, <1>8, <1>9, <1>10, <1>11
       DEF Next, Progress, Leaves

\* The ledger, the venue and the executor's locals agree in every behaviour.
THEOREM InductiveInvariant == Spec => []IInv
  <1>1. IInv /\ [Next]_vars => IInv'
    BY NextIInv
  <1>. QED
    BY InitIInv, <1>1, PTL DEF Spec

\* Write-ahead (MF-7) and one submission an id (MF-6): every order sent is
\* PENDING in the file first, and only an order that was sent becomes DONE.
THEOREM ImplementsWriteAhead == Spec => AheadSpec
  <1>1. Init => Ahead!Init
    BY DEF Init, LedgerInit, Ahead!Init
  <1>2. IInv /\ [Next]_vars => [Ahead!Next]_<<file, sent>>
    BY NextIInv
  <1>. QED
    BY <1>1, <1>2, InductiveInvariant, PTL DEF Spec, AheadSpec, Ahead!Spec

\* An order of unknown fate is never recorded as DONE (F-4).
THEOREM DoneAlwaysKnown == Spec => []DoneIsKnown
  <1>1. IInv => DoneIsKnown
    BY DEF IInv, LedgerInv, LedgerAt, DoneIsKnown
  <1>. QED
    BY <1>1, InductiveInvariant, PTL

\* No residual is sent over an order of the same leg that may still fill
\* (peer-issue-2).
THEOREM NeverDoubleExposed == Spec => []NoDoubleExposure
  <1>1. IInv => NoDoubleExposure
    <2>. SUFFICES ASSUME IInv, pc \in LegPCs, ~IsFullExit, NEW o \in RestingOf(op.coin)
                  PROVE  executed + Abs(o.size) <= Abs(op.delta_size)
      BY DEF NoDoubleExposure
    <2>1. /\ filled_total + residual = Abs(op.delta_size)
          /\ executed = filled_total + resp.size /\ resp.size = 0
          /\ Abs(o.size) <= residual
      BY DEF IInv, ExposureInv
    <2>2. o \in book
      BY DEF RestingOf
    <2>3. Abs(o.size) \in Nat
      BY <2>2, FillableType, AbsType DEF IInv
    <2>4. filled_total \in Int /\ residual \in Int
      BY DEF IInv, TypeOK
    <2>. QED
      BY <2>1, <2>3, <2>4
  <1>. QED
    BY <1>1, InductiveInvariant, PTL
=============================================================================
