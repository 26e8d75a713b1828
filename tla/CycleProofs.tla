---------------------------- MODULE CycleProofs ----------------------------
(***************************************************************************)
(* What holds of the rebalance cycle for every value of the constants: no  *)
(* source returns an allocation twice for a day, the baseline is what the  *)
(* account holds but for the coins known to differ, frozen coins are not   *)
(* traded, and a hold is bounded.                                          *)
(***************************************************************************)
EXTENDS Cycle, FiniteSetTheorems, TLAPS

-----------------------------------------------------------------------------
(***************************************************************************)
(* Values.                                                                 *)
(***************************************************************************)

\* A later tick is not on an earlier day.
LEMMA DivMonotone ==
  ASSUME NEW a \in Nat, NEW b \in Nat, a <= b, NEW k \in Nat \ {0}
  PROVE  a \div k \in Nat /\ b \div k \in Nat /\ a \div k <= b \div k
  OBVIOUS

LEMMA DayType ==
  ASSUME now \in FirstTick .. LastTick
  PROVE  now \in Nat /\ now \in Time /\ Day \in Nat /\ Day \in AsOf
  <1>1. now \in Nat /\ LastTick \in Nat /\ TicksPerDay \in Nat \ {0}
    BY CycleAssumption
  <1>2. Day \in Nat /\ Day <= LastTick \div TicksPerDay
    BY <1>1, DivMonotone DEF Day
  <1>3. LastTick \div TicksPerDay \in Int
    BY <1>1
  <1>. QED
    BY <1>1, <1>2, <1>3, CycleAssumption DEF Time

\* The weights of several sleeves make one book.
LEMMA SignType ==
  ASSUME NEW x \in Int
  PROVE  _sign(x) \in Sign
  <1>1. \E d \in Sign : d * x > 0 \/ (x = 0 /\ d = 0)
    <2>1. CASE x < 0
      BY <2>1 DEF Sign
    <2>2. CASE x = 0
      BY <2>2 DEF Sign
    <2>3. CASE x > 0
      BY <2>3 DEF Sign
    <2>. QED
      BY <2>1, <2>2, <2>3
  <1>. QED
    BY <1>1 DEF _sign

LEMMA CombinedType ==
  ASSUME NEW fresh \in SUBSET (Sleeves \cup {Default}), NEW books
  PROVE  combine_sleeves(fresh, books) \in Book
  <1>1. IsFiniteSet(fresh)
    BY SleevesAssumption, FS_AddElement, FS_Subset
  <1>2. \A S \in SUBSET fresh : Cardinality(S) \in Nat
    BY <1>1, FS_Subset, FS_CardinalityType
  <1>3. ASSUME NEW c \in Coins
        PROVE  _sign(Cardinality({s \in fresh : books[s][c] = 1})
                     - Cardinality({s \in fresh : books[s][c] = -1})) \in Sign
    <2>1. /\ Cardinality({s \in fresh : books[s][c] = 1}) \in Nat
          /\ Cardinality({s \in fresh : books[s][c] = -1}) \in Nat
      BY <1>2
    <2>. QED
      BY <2>1, SignType
  <1>. QED
    BY <1>3 DEF combine_sleeves, Book

LEMMA ZeroType == AllZero \in Book
  BY DEF AllZero, Book, Sign

LEMMA NoneBook == None \notin Book
  BY SignalAssumption

-----------------------------------------------------------------------------
(***************************************************************************)
(* Rewrites of the State object.                                           *)
(***************************************************************************)

LEMMA TargetSave ==
  ASSUME NEW s \in State, NEW v \in OrNone(Book)
  PROVE  LET t == [s EXCEPT !.last_rebalanced_target = v]
         IN  t \in State
  BY Zenon DEF State

LEMMA AnchorSave ==
  ASSUME NEW s \in State, NEW v \in OrNone(Time)
  PROVE  LET t == [s EXCEPT !.first_cycle_ts = v]
         IN  t \in State
  BY Zenon DEF State

LEMMA SuccessSave ==
  ASSUME NEW s \in State, NEW v \in OrNone(Time)
  PROVE  LET t == [s EXCEPT !.last_successful_signal_ts = v]
         IN  t \in State
  BY Zenon DEF State

LEMMA SleevesSave ==
  ASSUME NEW s \in State, NEW v \in [Sleeves -> OrNone(Sleeve)]
  PROVE  LET t == [s EXCEPT !.sleeves = v]
         IN  t \in State
  BY Zenon DEF State

LEMMA CooldownSave ==
  ASSUME NEW s \in State, NEW v \in [Coins -> OrNone(AsOf)]
  PROVE  LET t == [s EXCEPT !.liq_cooldowns = v]
         IN  t \in State
  BY Zenon DEF State

LEMMA KnownSave ==
  ASSUME NEW s \in State, NEW v \in SUBSET Coins
  PROVE  LET t == [s EXCEPT !.last_known_positions = v]
         IN  t \in State
  BY Zenon DEF State

-----------------------------------------------------------------------------
(***************************************************************************)
(* Types.  A retry has a window, and it is not there between cycles.       *)
(***************************************************************************)

LocalTypes ==
    /\ pc \in Steps /\ mode \in {"daily", "retry"}
    /\ snap \in Book /\ target \in Book
    /\ fetched \in [Sleeves \cup {Default} -> OrNone(Book \cup {Dark})]
    /\ frozen \subseteq Coins /\ blocked \subseteq Coins

DaemonLocalTypes ==
    /\ started \in BOOLEAN /\ due \in BOOLEAN
    /\ window \in OrNone([as_of : AsOf, target : Book])

WindowInv == mode = "retry" => pc # "idle" /\ window # None

LEMMA LeaveTypes ==
  ASSUME Leave
  PROVE  LocalTypes' /\ mode' = "daily"
  BY ZeroType DEF Leave, LocalTypes, Steps, Nothing, OrNone

LEMMA GotoTypes ==
  ASSUME TypeOK, NEW p \in Steps, Goto(p)
  PROVE  LocalTypes' /\ mode' = mode
  BY DEF Goto, LocalTypes, TypeOK

LEMMA GiveBackTypes ==
  ASSUME TypeOK, NEW again \in BOOLEAN, GiveBack(again)
  PROVE  DaemonLocalTypes' /\ window' = window
  BY DEF GiveBack, DaemonLocalTypes, TypeOK

LEMMA RaiseTypes ==
  ASSUME TypeOK, Raise
  PROVE  /\ LocalTypes' /\ DaemonLocalTypes'
         /\ pc' = "idle" /\ mode' = "daily" /\ window' = window
  BY LeaveTypes, GiveBackTypes DEF Raise, Leave

LEMMA FaultTypes ==
  ASSUME TypeOK, Fault
  PROVE  faults' \in 0 .. MaxFaults
  BY CycleAssumption DEF Fault, TypeOK

LEMMA SaveTypes ==
  ASSUME TypeOK, NEW s \in State, SaveOk(s) \/ SaveRaises(s)
  PROVE  mem' \in State /\ disk' \in State /\ faults' \in 0 .. MaxFaults
  BY FaultTypes DEF SaveOk, SaveRaises, TypeOK

LEMMA RememberedTypes ==
  ASSUME TypeOK, NEW b
  PROVE  Remembered(b) \in [Coins -> OrNone([dir : Sign, day : AsOf])]
  BY DEF Remembered, TypeOK, OrNone

LEMMA InitTypes ==
  ASSUME Init
  PROVE  TypeOK /\ WindowInv
  <1>1. FreshState \in State
    BY DEF FreshState, State, OrNone
  <1>2. fetched \in [Sleeves \cup {Default} -> OrNone(Book \cup {Dark})]
    BY DEF Init, Nothing, OrNone
  <1>3. Short \subseteq Sleeves
    BY SleevesAssumption
  <1>4. /\ accepted \in [Sleeves -> [AsOf -> 0 .. 2]]
        /\ dark \in [Short -> 0 .. 2]
        /\ squeezed \in [Coins -> OrNone([dir : Sign, day : AsOf])]
        /\ cursor \in [Sleeves -> Cursor \cup {None}]
    BY DEF Init, OrNone, CursorInit
  <1>5. now \in FirstTick .. LastTick /\ faults \in 0 .. MaxFaults
    BY CycleAssumption DEF Init
  <1>6. WindowInv
    BY DEF Init, WindowInv
  <1>. QED
    BY <1>1, <1>2, <1>4, <1>5, <1>6, ZeroType
       DEF Init, TypeOK, Steps, OrNone, CursorTypeOK

LEMMA StartTypes ==
  ASSUME TypeOK, WindowInv, StartDaily \/ StartRetry
  PROVE  TypeOK' /\ WindowInv'
  <1>1. CASE StartDaily
    BY <1>1 DEF StartDaily, TypeOK, WindowInv, CursorTypeOK, Steps, OrNone,
                store, watched
  <1>2. CASE StartRetry
    BY <1>2 DEF StartRetry, TypeOK, WindowInv, CursorTypeOK, Steps,
                store, watched, history
  <1>. QED
    BY <1>1, <1>2

LEMMA FirstCycleTypes ==
  ASSUME TypeOK, WindowInv, FirstCycle
  PROVE  TypeOK' /\ WindowInv'
  <1> DEFINE s == [mem EXCEPT !.first_cycle_ts = now]
  <1>1. s \in State
    BY AnchorSave, DayType DEF TypeOK, OrNone
  <1> HIDE DEF s
  <1>2. UNCHANGED <<now, universe, cursor, pos, history>>
    BY DEF FirstCycle
  <1>3. CASE UNCHANGED <<daemon, store, faults>> /\ Goto("snapshot")
    BY <1>2, <1>3 DEF TypeOK, WindowInv, CursorTypeOK, Goto, Steps, daemon,
                      store, watched, history
  <1>4. CASE SaveOk(s) /\ Goto("snapshot") /\ UNCHANGED daemon
    <2>1. LocalTypes' /\ pc' = "snapshot"
      BY <1>4, GotoTypes DEF Steps, Goto
    <2>. QED
      BY <1>1, <1>2, <1>4, <2>1, SaveTypes
         DEF TypeOK, WindowInv, CursorTypeOK, LocalTypes, Goto, daemon,
             watched, history
  <1>5. CASE SaveRaises(s) /\ Raise
    BY <1>1, <1>2, <1>5, SaveTypes, RaiseTypes
       DEF TypeOK, WindowInv, CursorTypeOK, LocalTypes, DaemonLocalTypes,
           watched, history
  <1>. QED
    BY <1>3, <1>4, <1>5 DEF FirstCycle, s

LEMMA RaisedTypes ==
  ASSUME TypeOK, Raise, Fault \/ UNCHANGED faults,
         UNCHANGED <<now, universe, store, cursor, pos, history>>
  PROVE  TypeOK' /\ WindowInv'
  <1>1. faults' \in 0 .. MaxFaults
    BY FaultTypes DEF TypeOK
  <1>. QED
    BY <1>1, RaiseTypes
       DEF TypeOK, WindowInv, CursorTypeOK, LocalTypes, DaemonLocalTypes,
           store, watched, history

LEMMA NoticedTypes ==
  ASSUME TypeOK
  PROVE  Noticed \in [Coins -> OrNone([dir : Sign, day : AsOf])]
  <1>1. ASSUME NEW c \in Coins
        PROVE  /\ lost[c] \in Sign
               /\ squeezed[c] \in OrNone([dir : Sign, day : AsOf])
               /\ [dir |-> lost[c], day |-> Day] \in [dir : Sign, day : AsOf]
    BY DayType DEF TypeOK, Book
  <1>. QED
    BY <1>1 DEF Noticed, OrNone

LEMMA SnapshotTypes ==
  ASSUME TypeOK, WindowInv, Snapshot
  PROVE  TypeOK' /\ WindowInv'
  <1> DEFINE new == _detect_liquidations
             cds == [c \in Coins |-> IF c \in new THEN Day
                                     ELSE mem.liq_cooldowns[c]]
             flagged == [mem EXCEPT !.liq_cooldowns = cds]
             known == [flagged EXCEPT !.last_known_positions = Held(pos)]
  <1>1. cds \in [Coins -> OrNone(AsOf)]
    BY DayType DEF TypeOK, State, OrNone
  <1> HIDE DEF cds
  <1>2. flagged \in State
    BY <1>1, CooldownSave DEF TypeOK
  <1> HIDE DEF flagged
  <1>3. known \in State
    BY <1>2, KnownSave DEF Held
  <1> HIDE DEF known
  <1>4. /\ squeezed' = Noticed
        /\ UNCHANGED <<now, universe, cursor, pos,
                       accepted, served_at, dark, kept, touched>>
    BY DEF Snapshot
  <1>5. CASE /\ mem' = known /\ disk' = IF new = {} THEN disk ELSE flagged
             /\ pc' = "fetch" /\ snap' = pos /\ lost' = AllZero /\ hit' = {}
             /\ UNCHANGED <<daemon, mode, fetched, target, frozen, blocked,
                            faults>>
    <2>1. mem' \in State /\ disk' \in State
      BY <1>2, <1>3, <1>5 DEF TypeOK
    <2>. QED
      BY <1>4, <1>5, <2>1, NoticedTypes, ZeroType
         DEF TypeOK, WindowInv, CursorTypeOK, Steps, daemon
  <1>6. CASE SaveRaises(flagged) /\ Raise /\ UNCHANGED <<lost, hit>>
    BY <1>2, <1>4, <1>6, SaveTypes, RaiseTypes, NoticedTypes
       DEF TypeOK, WindowInv, CursorTypeOK, LocalTypes, DaemonLocalTypes
  <1>. QED
    BY <1>5, <1>6 DEF Snapshot, cds, flagged, known

LEMMA AnswerTypes ==
  ASSUME TypeOK, NEW s \in Sleeves, NEW wire \in Answers(s)
  PROVE  /\ wire.weights \in Book /\ wire.as_of \in AsOf
         /\ wire.seq \in Nat /\ wire.as_of \in Nat
  <1>1. \A w \in Issued(s) :
           /\ w.weights \in Book /\ w.as_of \in AsOf /\ w.seq = now
           /\ w = [flaw |-> w.flaw, audience |-> w.audience,
                   issued_at |-> w.issued_at, expires_at |-> w.expires_at,
                   seq |-> w.seq, as_of |-> w.as_of,
                   schema_version |-> w.schema_version,
                   weights |-> w.weights, pinned |-> w.pinned]
    BY DEF Issued
  <1>2. \A w \in Issued(s) : \A v \in Spoilt(w) :
           v.weights = w.weights /\ v.as_of = w.as_of /\ v.seq = w.seq
    BY <1>1 DEF Spoilt
  <1>3. /\ wire.weights \in Book /\ wire.as_of \in AsOf /\ wire.seq = now
    <2>1. CASE wire \in Issued(s)
      BY <1>1, <2>1
    <2>2. CASE wire \in UNION {Spoilt(w) : w \in Issued(s)}
      BY <1>1, <1>2, <2>2
    <2>. QED
      BY <2>1, <2>2 DEF Answers
  <1>. QED
    BY <1>3, DayType, SignalAssumption DEF TypeOK

LEMMA FetchTypes ==
  ASSUME TypeOK, WindowInv, NEW s \in Sleeves,
         FetchRejected(s) \/ _fetch_sleeve(s)
  PROVE  TypeOK' /\ WindowInv'
  <1>1. ASSUME NEW what \in Book \cup {Dark}, Fetched(s, what)
        PROVE  LocalTypes' /\ UNCHANGED <<pc, mode>>
    <2>1. fetched' \in [Sleeves \cup {Default} -> OrNone(Book \cup {Dark})]
      BY <1>1 DEF Fetched, TypeOK, OrNone
    <2>. QED
      BY <1>1, <2>1 DEF Fetched, TypeOK, LocalTypes
  <1>2. CASE FetchRejected(s)
    <2>1. faults' \in 0 .. MaxFaults
      BY <1>2, FaultTypes DEF FetchRejected, TypeOK
    <2>. QED
      BY <1>1, <1>2, <2>1
         DEF FetchRejected, TypeOK, WindowInv, CursorTypeOK, LocalTypes,
             daemon, store, watched, history
  <1>3. CASE _fetch_sleeve(s)
    <2>1. PICK wire \in Answers(s) :
             /\ _save_state_atomic(s, wire)
             /\ accepted' = [accepted EXCEPT ![s][wire.as_of] =
                    IF @ = 2 THEN 2 ELSE @ + 1]
             /\ Fetched(s, IF wire.pinned THEN wire.weights ELSE Dark)
      BY <1>3 DEF _fetch_sleeve
    <2>2. cursor' \in [Sleeves -> Cursor \cup {None}]
      BY <2>1, AnswerTypes
         DEF _save_state_atomic, TypeOK, CursorTypeOK, Cursor
    <2>3. accepted' \in [Sleeves -> [AsOf -> 0 .. 2]]
      <3>1. accepted[s] \in [AsOf -> 0 .. 2] /\ wire.as_of \in AsOf
        BY AnswerTypes DEF TypeOK
      <3> DEFINE n == IF accepted[s][wire.as_of] = 2 THEN 2
                      ELSE accepted[s][wire.as_of] + 1
      <3>2. n \in 0 .. 2
        BY <3>1
      <3>3. accepted' = [accepted EXCEPT
                           ![s] = [accepted[s] EXCEPT ![wire.as_of] = n]]
        BY <2>1 DEF TypeOK
      <3> HIDE DEF n
      <3>4. [accepted[s] EXCEPT ![wire.as_of] = n] \in [AsOf -> 0 .. 2]
        BY <3>1, <3>2
      <3>. QED
        BY <3>3, <3>4 DEF TypeOK
    <2>4. LocalTypes' /\ UNCHANGED <<pc, mode>>
      BY <1>1, <2>1, AnswerTypes
    <2>. QED
      BY <1>3, <2>2, <2>3, <2>4
         DEF _fetch_sleeve, TypeOK, WindowInv, CursorTypeOK, LocalTypes,
             daemon, store
  <1>. QED
    BY <1>2, <1>3

LEMMA FetchFrozenTypes ==
  ASSUME TypeOK, WindowInv, FetchFrozen
  PROVE  TypeOK' /\ WindowInv'
  <1>1. window.target \in Book
    BY DEF FetchFrozen, WindowInv, TypeOK, OrNone
  <1>2. fetched' \in [Sleeves \cup {Default} -> OrNone(Book \cup {Dark})]
    BY <1>1 DEF FetchFrozen, Fetched, TypeOK, OrNone
  <1>. QED
    BY <1>2 DEF FetchFrozen, Fetched, TypeOK, WindowInv, CursorTypeOK,
                daemon, store, watched, history

LEMMA OutcomeTypes ==
  ASSUME NEW served_ok \in BOOLEAN, NEW allow_short \in BOOLEAN,
         NEW holds \in Nat, NEW within \in BOOLEAN
  PROVE  /\ resolve_outcome(served_ok, allow_short, holds, within).holds \in Nat
         /\ resolve_outcome(served_ok, allow_short, holds, within).status
                \in Statuses
  <1> DEFINE o == resolve_outcome(served_ok, allow_short, holds, within)
  <1>1. CASE served_ok
    BY <1>1 DEF resolve_outcome, Statuses
  <1>2. CASE ~served_ok /\ within
    BY <1>2 DEF resolve_outcome, Statuses
  <1>3. CASE ~served_ok /\ ~within
    BY <1>3 DEF resolve_outcome, Statuses
  <1>. QED
    BY <1>1, <1>2, <1>3

LEMMA RecountTypes ==
  ASSUME TypeOK, NEW recs \in [Sleeves -> OrNone(Sleeve)]
  PROVE  Recounted(recs) \in [Sleeves -> OrNone(Sleeve)]
  <1>1. ASSUME NEW s \in Sleeves
        PROVE  prior_holds(s) \in Nat
    <2>1. mem.sleeves[s] \in OrNone(Sleeve)
      BY DEF TypeOK, State
    <2>. QED
      BY <2>1 DEF prior_holds, OrNone, Sleeve
  <1>2. ASSUME NEW s \in Sleeves
        PROVE  Outcome(s).holds \in Nat
    <2>1. /\ Served(s) \in BOOLEAN /\ (s \in Short) \in BOOLEAN
          /\ (IF Served(s) THEN 0 ELSE prior_holds(s)) \in Nat
          /\ (~Served(s) => _within_staleness_window(s)) \in BOOLEAN
      BY <1>1 DEF Served
    <2>. QED
      BY <2>1, OutcomeTypes DEF Outcome
  <1>3. ASSUME NEW s \in Sleeves, recs[s] # None
        PROVE  [recs[s] EXCEPT !.consecutive_holds = Outcome(s).holds]
                  \in OrNone(Sleeve)
    <2>1. recs[s] \in Sleeve
      BY <1>3 DEF OrNone
    <2>. QED
      BY <1>2, <2>1 DEF OrNone, Sleeve
  <1>. QED
    BY <1>3 DEF Recounted

LEMMA DarkenedTypes ==
  ASSUME TypeOK
  PROVE  Darkened \in [Short -> 0 .. 2]
  <1>1. ASSUME NEW s \in Short
        PROVE  dark[s] \in 0 .. 2
    BY DEF TypeOK
  <1>. QED
    BY <1>1 DEF Darkened

LEMMA HoldTypes ==
  ASSUME TypeOK, WindowInv, _handle_no_good_signal
  PROVE  TypeOK' /\ WindowInv'
  <1> DEFINE recs == Recounted(mem.sleeves)
             s == [mem EXCEPT !.sleeves = recs]
  <1>1. recs \in [Sleeves -> OrNone(Sleeve)]
    BY RecountTypes DEF TypeOK, State
  <1> HIDE DEF recs
  <1>2. s \in State
    BY <1>1, SleevesSave DEF TypeOK
  <1> HIDE DEF s
  <1>3. /\ dark' = Darkened
        /\ UNCHANGED <<now, universe, cursor, pos,
                       accepted, served_at, kept, lost, squeezed, hit,
                       touched>>
    BY DEF _handle_no_good_signal
  <1>4. CASE SaveOk(s) /\ Leave /\ GiveBack(RecheckEnabled)
    <2>1. RecheckEnabled \in BOOLEAN
      BY CycleAssumption
    <2>. QED
      BY <1>2, <1>3, <1>4, <2>1, SaveTypes, LeaveTypes, GiveBackTypes,
         DarkenedTypes
         DEF TypeOK, WindowInv, CursorTypeOK, LocalTypes, DaemonLocalTypes
  <1>5. CASE SaveOk(s) /\ Goto("derisk") /\ UNCHANGED daemon
    <2>1. LocalTypes' /\ pc' = "derisk"
      BY <1>5, GotoTypes DEF Steps, Goto
    <2>. QED
      BY <1>2, <1>3, <1>5, <2>1, SaveTypes, DarkenedTypes
         DEF TypeOK, WindowInv, CursorTypeOK, LocalTypes, Goto, daemon
  <1>6. CASE SaveRaises(s) /\ Raise
    BY <1>2, <1>3, <1>6, SaveTypes, RaiseTypes, DarkenedTypes
       DEF TypeOK, WindowInv, CursorTypeOK, LocalTypes, DaemonLocalTypes
  <1>. QED
    BY <1>4, <1>5, <1>6 DEF _handle_no_good_signal, recs, s

LEMMA FrozenTypes ==
  ASSUME TypeOK
  PROVE  /\ frozen_coins(HeldSleeves, universe) \subseteq Coins
         /\ fresh_served \subseteq Sleeves \cup {Default}
  <1>1. universe \in [Sleeves -> SUBSET Coins]
    BY CycleAssumption DEF TypeOK
  <1>. QED
    BY <1>1 DEF frozen_coins, HeldSleeves, fresh_served, sleeves_list

LEMMA RecordTypes ==
  ASSUME TypeOK, WindowInv, Record
  PROVE  TypeOK' /\ WindowInv'
  <1> DEFINE served == [s \in Sleeves |->
                          IF s \in fresh_served
                          THEN [last_success_ts |-> now,
                                consecutive_holds |-> 0]
                          ELSE mem.sleeves[s]]
             recs == Recounted(served)
             t == [mem EXCEPT !.last_successful_signal_ts = now]
             s == [t EXCEPT !.sleeves = recs]
  <1>1. served \in [Sleeves -> OrNone(Sleeve)]
    <2>1. [last_success_ts |-> now, consecutive_holds |-> 0] \in Sleeve
      BY DayType DEF TypeOK, Sleeve
    <2>. QED
      BY <2>1 DEF TypeOK, State, OrNone
  <1> HIDE DEF served
  <1>2. recs \in [Sleeves -> OrNone(Sleeve)]
    BY <1>1, RecountTypes
  <1> HIDE DEF recs
  <1>3. t \in State
    BY SuccessSave, DayType DEF TypeOK, OrNone
  <1> HIDE DEF t
  <1>4. s \in State
    BY <1>2, <1>3, SleevesSave
  <1>5. s = [mem EXCEPT !.last_successful_signal_ts = now, !.sleeves = recs]
    BY DEF t
  <1> HIDE DEF s
  <1>6. /\ dark' = Darkened /\ served_at' \in OrNone(Time)
        /\ UNCHANGED <<now, universe, cursor, pos,
                       accepted, kept, lost, squeezed, hit, touched>>
    BY DayType DEF Record, TypeOK, OrNone
  <1>7. CASE /\ SaveOk(s) /\ pc' = "plan"
             /\ target' = combine_sleeves(fresh_served, fetched)
             /\ frozen' = frozen_coins(HeldSleeves, universe)
             /\ UNCHANGED <<daemon, mode, snap, fetched, blocked>>
    <2>1. target' \in Book /\ frozen' \subseteq Coins
      BY <1>7, FrozenTypes, CombinedType
    <2>. QED
      BY <1>4, <1>6, <1>7, <2>1, SaveTypes, DarkenedTypes
         DEF TypeOK, WindowInv, CursorTypeOK, Steps, daemon
  <1>8. CASE SaveRaises(s) /\ Raise
    BY <1>4, <1>6, <1>8, SaveTypes, RaiseTypes, DarkenedTypes
       DEF TypeOK, WindowInv, CursorTypeOK, LocalTypes, DaemonLocalTypes
  <1>. QED
    BY <1>5, <1>7, <1>8 DEF Record, served, recs

LEMMA PlanTypes ==
  ASSUME TypeOK, WindowInv, Plan
  PROVE  TypeOK' /\ WindowInv'
  <1> DEFINE b == _cooldown_blocked_set
             cds == [c \in Coins |-> IF c \in Expired THEN None
                                     ELSE mem.liq_cooldowns[c]]
             pruned == [mem EXCEPT !.liq_cooldowns = cds]
  <1>1. cds \in [Coins -> OrNone(AsOf)]
    BY DEF TypeOK, State, OrNone
  <1> HIDE DEF cds
  <1>2. pruned \in State
    BY <1>1, CooldownSave DEF TypeOK
  <1> HIDE DEF pruned
  <1>3. UNCHANGED <<now, universe, cursor, pos, history>>
    BY DEF Plan
  <1>4. CASE SaveRaises(pruned) /\ Raise
    BY <1>2, <1>3, <1>4, SaveTypes, RaiseTypes
       DEF TypeOK, WindowInv, CursorTypeOK, LocalTypes, DaemonLocalTypes,
           watched, history
  <1>5. CASE /\ IF Expired = {} THEN UNCHANGED <<store, faults>>
                ELSE SaveOk(pruned)
             /\ \/ /\ pc' = "execute" /\ blocked' = b
                   /\ UNCHANGED <<daemon, mode, snap, fetched, target, frozen>>
                \/ Leave /\ GiveBack(FALSE)
    <2>1. mem' \in State /\ disk' \in State /\ faults' \in 0 .. MaxFaults
      BY <1>2, <1>5, SaveTypes DEF TypeOK, store
    <2>2. CASE /\ pc' = "execute" /\ blocked' = b
               /\ UNCHANGED <<daemon, mode, snap, fetched, target, frozen>>
      <3>1. b \subseteq Coins
        BY DEF _cooldown_blocked_set, Cooling
      <3> HIDE DEF b
      <3>. QED
        BY <1>3, <2>1, <2>2, <3>1
           DEF TypeOK, WindowInv, CursorTypeOK, Steps, daemon, watched, history
    <2>3. CASE Leave /\ GiveBack(FALSE)
      BY <1>3, <2>1, <2>3, LeaveTypes, GiveBackTypes
         DEF TypeOK, WindowInv, CursorTypeOK, LocalTypes, DaemonLocalTypes,
             watched, history
    <2>. QED
      BY <1>5, <2>2, <2>3
  <1>. QED
    BY <1>4, <1>5 DEF Plan, cds, pruned

LEMMA GoalTypes ==
  ASSUME TypeOK
  PROVE  Goal \in Book /\ orders \subseteq Coins
  <1>1. \A c \in Coins : target[c] \in Sign
    BY DEF TypeOK, Book
  <1>2. 0 \in Sign
    BY DEF Sign
  <1>3. orders \subseteq Coins
    BY DEF orders, planned_coins
  <1>. QED
    BY <1>1, <1>2, <1>3 DEF Goal, effective_weights, Book

LEMMA DefersTypes ==
  ASSUME TypeOK, WindowInv, ExecuteDefers \/ ExecuteAborts
  PROVE  TypeOK' /\ WindowInv'
  <1>1. /\ Leave /\ DaemonLocalTypes'
        /\ UNCHANGED <<now, universe, store, cursor, pos, faults, history>>
    BY GiveBackTypes DEF ExecuteDefers, ExecuteAborts
  <1>. QED
    BY <1>1, LeaveTypes
       DEF TypeOK, WindowInv, CursorTypeOK, LocalTypes, DaemonLocalTypes,
           store, watched, history

LEMMA CleanTypes ==
  ASSUME TypeOK, WindowInv, ExecuteClean
  PROVE  TypeOK' /\ WindowInv'
  <1>1. pos' \in Book /\ touched' \subseteq Coins
    BY GoalTypes DEF ExecuteClean, TypeOK, Book
  <1>2. LocalTypes' /\ pc' = "commit" /\ mode' = mode
    BY GotoTypes DEF ExecuteClean, Steps, Goto
  <1>. QED
    BY <1>1, <1>2
       DEF ExecuteClean, TypeOK, WindowInv, CursorTypeOK, LocalTypes,
           daemon, store

LEMMA DirtyTypes ==
  ASSUME TypeOK, WindowInv, ExecuteDirty
  PROVE  TypeOK' /\ WindowInv'
  <1>1. pos' \in Book
    <2>1. PICK done, closed \in SUBSET orders :
             pos' = [c \in Coins |-> IF c \in done THEN Goal[c]
                                     ELSE IF c \in closed THEN 0
                                     ELSE pos[c]]
      BY DEF ExecuteDirty
    <2>2. ASSUME NEW c \in Coins
          PROVE  Goal[c] \in Sign /\ 0 \in Sign /\ pos[c] \in Sign
      BY GoalTypes DEF TypeOK, Book, Sign
    <2>. QED
      BY <2>1, <2>2 DEF Book
  <1>2. touched' \subseteq Coins
    BY GoalTypes DEF ExecuteDirty, TypeOK
  <1>3. LocalTypes' /\ mode' = "daily"
    BY LeaveTypes DEF ExecuteDirty
  <1>4. DaemonLocalTypes' /\ kept' \subseteq Coins
    <2>1. due' \in BOOLEAN /\ started' \in BOOLEAN
      BY DEF ExecuteDirty, TypeOK
    <2>2. \/ /\ window' = [as_of |-> Day, target |-> target]
             /\ kept' = frozen
          \/ UNCHANGED <<window, kept>>
      BY DEF ExecuteDirty
    <2>3. [as_of |-> Day, target |-> target] \in [as_of : AsOf, target : Book]
      BY DayType DEF TypeOK
    <2>. QED
      BY <2>1, <2>2, <2>3 DEF TypeOK, DaemonLocalTypes, OrNone
  <1>. QED
    BY <1>1, <1>2, <1>3, <1>4
       DEF ExecuteDirty, TypeOK, WindowInv, CursorTypeOK, LocalTypes,
           DaemonLocalTypes, store

LEMMA CommitTypes ==
  ASSUME TypeOK, WindowInv, Commit
  PROVE  TypeOK' /\ WindowInv'
  <1> DEFINE s == [mem EXCEPT !.last_rebalanced_target = target]
  <1>1. s \in State
    BY TargetSave DEF TypeOK, OrNone
  <1> HIDE DEF s
  <1>2. SaveOk(s) \/ SaveRaises(s)
    BY DEF Commit, s
  <1>3. LocalTypes' /\ mode' = "daily"
    BY LeaveTypes DEF Commit
  <1>4. DaemonLocalTypes' /\ kept' \subseteq Coins /\ touched' \subseteq Coins
    BY DEF Commit, TypeOK, DaemonLocalTypes, OrNone
  <1>. QED
    BY <1>1, <1>2, <1>3, <1>4, SaveTypes, RememberedTypes
       DEF Commit, TypeOK, WindowInv, CursorTypeOK, LocalTypes,
           DaemonLocalTypes

LEMMA FlattenedTypes ==
  ASSUME TypeOK, NEW left \in SUBSET Held(pos),
         pos' = [c \in Coins |-> IF c \in left THEN pos[c] ELSE 0]
  PROVE  pos' \in Book /\ Held(pos) \subseteq Coins
  BY DEF TypeOK, Book, Sign, Held

LEMMA DeriskTypes ==
  ASSUME TypeOK, WindowInv, DeriskFlatten
  PROVE  TypeOK' /\ WindowInv'
  <1>1. pos' \in Book /\ touched' \subseteq Coins
    BY FlattenedTypes DEF DeriskFlatten, TypeOK
  <1>2. LocalTypes' /\ pc' = "reset" /\ mode' = mode
    BY GotoTypes DEF DeriskFlatten, Steps, Goto
  <1>. QED
    BY <1>1, <1>2
       DEF DeriskFlatten, TypeOK, WindowInv, CursorTypeOK, LocalTypes,
           daemon, store

LEMMA ResetTypes ==
  ASSUME TypeOK, WindowInv, DeriskReset
  PROVE  TypeOK' /\ WindowInv'
  <1> DEFINE s == [mem EXCEPT !.last_rebalanced_target = AllZero]
  <1>1. s \in State
    BY TargetSave, ZeroType DEF TypeOK, OrNone
  <1> HIDE DEF s
  <1>2. SaveOk(s) \/ SaveRaises(s)
    BY DEF DeriskReset, s
  <1>3. Raise /\ touched' \subseteq Coins
    BY DEF DeriskReset, Held
  <1>. QED
    BY <1>1, <1>2, <1>3, SaveTypes, RaiseTypes, RememberedTypes
       DEF DeriskReset, TypeOK, WindowInv, CursorTypeOK, LocalTypes,
           DaemonLocalTypes

LEMMA ExpireTypes ==
  ASSUME TypeOK, WindowInv, ExpireWindow
  PROVE  TypeOK' /\ WindowInv'
  <1> DEFINE s == [mem EXCEPT !.last_rebalanced_target = window.target]
  <1>1. window.target \in OrNone(Book)
    BY DEF ExpireWindow, TypeOK, OrNone
  <1>2. s \in State
    BY <1>1, TargetSave DEF TypeOK
  <1> HIDE DEF s
  <1>3. SaveOk(s) \/ SaveRaises(s)
    BY DEF ExpireWindow, s
  <1>4. /\ window' = None /\ kept' = {} /\ touched' \subseteq Coins
        /\ UNCHANGED <<now, started, due, universe, local, cursor, pos,
                       accepted, served_at, dark, lost, hit>>
        /\ pc = "idle"
    BY DEF ExpireWindow, TypeOK
  <1>5. squeezed' \in [Coins -> OrNone([dir : Sign, day : AsOf])]
    BY RememberedTypes DEF ExpireWindow
  <1>. QED
    BY <1>2, <1>3, <1>4, <1>5, SaveTypes
       DEF TypeOK, WindowInv, CursorTypeOK, OrNone, local

LEMMA LiquidateTypes ==
  ASSUME TypeOK, WindowInv, NEW c \in Coins, Liquidate(c)
  PROVE  TypeOK' /\ WindowInv'
  <1>1. pos' \in Book /\ lost' \in Book
    BY DEF Liquidate, TypeOK, Book, Sign
  <1>2. hit' \subseteq Coins /\ touched' \subseteq Coins
        /\ faults' \in 0 .. MaxFaults
    BY FaultTypes DEF Liquidate, TypeOK
  <1>. QED
    BY <1>1, <1>2
       DEF Liquidate, TypeOK, WindowInv, CursorTypeOK, daemon, local, store

LEMMA FlattenTypes ==
  ASSUME TypeOK, WindowInv, Flatten
  PROVE  TypeOK' /\ WindowInv'
  <1>1. /\ pos' \in Book /\ hit' \subseteq Coins /\ touched' \subseteq Coins
        /\ faults' \in 0 .. MaxFaults
    BY FlattenedTypes, FaultTypes DEF Flatten, TypeOK
  <1>. QED
    BY <1>1
       DEF Flatten, TypeOK, WindowInv, CursorTypeOK, daemon, local, store

LEMMA CrashTypes ==
  ASSUME TypeOK, WindowInv, Crash
  PROVE  TypeOK' /\ WindowInv'
  <1>1. LocalTypes' /\ mode' = "daily" /\ faults' \in 0 .. MaxFaults
    BY LeaveTypes, FaultTypes DEF Crash
  <1>2. dark' \in [Short -> 0 .. 2]
    BY DEF Crash
  <1>3. touched' \subseteq Coins
    BY DEF Crash, TypeOK
  <1>4. due' \in BOOLEAN
    BY DEF Crash, TypeOK
  <1>. QED
    BY <1>1, <1>2, <1>3, <1>4, RememberedTypes
       DEF Crash, TypeOK, WindowInv, CursorTypeOK, LocalTypes

LEMMA TickTypes ==
  ASSUME TypeOK, WindowInv, Tick
  PROVE  TypeOK' /\ WindowInv'
  <1>1. now' \in FirstTick .. LastTick
    BY CycleAssumption DEF Tick, TypeOK
  <1>2. squeezed' \in [Coins -> OrNone([dir : Sign, day : AsOf])]
    BY DEF Tick, TypeOK, OrNone
  <1>3. due' \in BOOLEAN
    BY DEF Tick, TypeOK
  <1>. QED
    BY <1>1, <1>2, <1>3
       DEF Tick, TypeOK, WindowInv, CursorTypeOK, local, store

LEMMA TypesNext ==
  ASSUME TypeOK, WindowInv, [Next]_vars
  PROVE  TypeOK' /\ WindowInv'
  <1>1. CASE Next
    <2>1. CASE StartDaily \/ StartRetry \/ FirstCycle \/ Snapshot
      BY <2>1, StartTypes, FirstCycleTypes, SnapshotTypes
    <2>2. CASE \E s \in Sleeves : FetchRejected(s) \/ _fetch_sleeve(s)
      BY <2>2, FetchTypes
    <2>3. CASE SnapshotRaises \/ CombineRaises \/ DeriskRaises
      BY <2>3, RaisedTypes DEF SnapshotRaises, CombineRaises, DeriskRaises
    <2>4. CASE FetchFrozen \/ _handle_no_good_signal \/ Record \/ Plan
      BY <2>4, FetchFrozenTypes, HoldTypes, RecordTypes, PlanTypes
    <2>5. CASE ExecuteDefers \/ ExecuteAborts \/ ExecuteClean \/ ExecuteDirty
      BY <2>5, DefersTypes, CleanTypes, DirtyTypes
    <2>6. CASE Commit \/ DeriskFlatten \/ DeriskReset \/ ExpireWindow
      BY <2>6, CommitTypes, DeriskTypes, ResetTypes, ExpireTypes
    <2>7. CASE Flatten \/ Crash \/ Tick \/ \E c \in Coins : Liquidate(c)
      BY <2>7, FlattenTypes, CrashTypes, TickTypes, LiquidateTypes
    <2>. QED
      BY <1>1, <2>1, <2>2, <2>3, <2>4, <2>5, <2>6, <2>7 DEF Next
  <1>2. CASE UNCHANGED vars
    BY <1>2
       DEF vars, TypeOK, WindowInv, CursorTypeOK, daemon, local, store,
           history, watched
  <1>. QED
    BY <1>1, <1>2

\* Whatever a service answers and whatever fails, what the cycle remembers
\* and saves is a State, and a retry has a window whose target it can trade.
THEOREM TypeCorrect == Spec => [](TypeOK /\ WindowInv)
  BY InitTypes, TypesNext, PTL DEF Spec

-----------------------------------------------------------------------------
(***************************************************************************)
(* A day that was returned is in the anti-replay file.                     *)
(***************************************************************************)

OnceInv ==
    \A s \in Sleeves, d \in AsOf :
        /\ accepted[s][d] <= 1
        /\ accepted[s][d] # 0 => cursor[s] # None /\ d <= cursor[s].as_of

LEMMA CursorKept ==
  ASSUME Next
  PROVE  UNCHANGED <<cursor, accepted>> \/ \E s \in Sleeves : _fetch_sleeve(s)
  <1>1. CASE StartDaily \/ StartRetry \/ FirstCycle \/ Snapshot
    BY <1>1 DEF StartDaily, StartRetry, FirstCycle, Snapshot, history, watched
  <1>2. CASE SnapshotRaises \/ CombineRaises \/ DeriskRaises \/ FetchFrozen
    BY <1>2 DEF SnapshotRaises, CombineRaises, DeriskRaises, FetchFrozen,
                history, watched
  <1>3. CASE \E s \in Sleeves : FetchRejected(s)
    BY <1>3 DEF FetchRejected, history, watched
  <1>4. CASE _handle_no_good_signal \/ Record \/ Plan
    BY <1>4 DEF _handle_no_good_signal, Record, Plan, history, watched
  <1>5. CASE ExecuteDefers \/ ExecuteAborts \/ ExecuteClean \/ ExecuteDirty
    BY <1>5 DEF ExecuteDefers, ExecuteAborts, ExecuteClean, ExecuteDirty,
                history, watched
  <1>6. CASE Commit \/ DeriskFlatten \/ DeriskReset \/ ExpireWindow
    BY <1>6 DEF Commit, DeriskFlatten, DeriskReset, ExpireWindow
  <1>7. CASE Flatten \/ Crash \/ Tick \/ \E c \in Coins : Liquidate(c)
    BY <1>7 DEF Flatten, Crash, Tick, Liquidate
  <1>. QED
    BY <1>1, <1>2, <1>3, <1>4, <1>5, <1>6, <1>7 DEF Next

LEMMA OnceNext ==
  ASSUME TypeOK, OnceInv, [Next]_vars
  PROVE  OnceInv'
  <1>1. CASE UNCHANGED <<cursor, accepted>>
    BY <1>1 DEF OnceInv
  <1>2. ASSUME NEW s \in Sleeves, _fetch_sleeve(s)
        PROVE  OnceInv'
    <2>1. PICK wire \in Answers(s) :
             /\ Verified(s, wire, Day, now)
             /\ _save_state_atomic(s, wire)
             /\ accepted' = [accepted EXCEPT ![s][wire.as_of] =
                    IF @ = 2 THEN 2 ELSE @ + 1]
      BY <1>2 DEF _fetch_sleeve
    <2>2. /\ wire.as_of \in AsOf /\ wire.as_of \in Nat
          /\ cursor[s] # None =>
                cursor[s].as_of \in Nat /\ cursor[s].as_of < wire.as_of
      <3>1. wire.as_of \in AsOf /\ wire.as_of \in Nat
        BY AnswerTypes
      <3>2. cursor[s] \in Cursor \cup {None} /\ AsOf \subseteq Nat
        BY SignalAssumption DEF TypeOK, CursorTypeOK
      <3>3. cursor[s] # None => wire.as_of > cursor[s].as_of
        BY <2>1 DEF Verified, _check_anti_replay
      <3>. QED
        BY <3>1, <3>2, <3>3 DEF Cursor
    <2>3. /\ cursor'[s] # None /\ cursor'[s].as_of = wire.as_of
          /\ \A t \in Sleeves \ {s} : cursor'[t] = cursor[t]
      <3>1. cursor'[s] = [seq |-> wire.seq, as_of |-> wire.as_of]
        BY <2>1 DEF _save_state_atomic, TypeOK, CursorTypeOK
      <3>2. cursor'[s] \in Cursor
        BY <3>1, <2>2, AnswerTypes DEF Cursor
      <3>3. \A t \in Sleeves \ {s} : cursor'[t] = cursor[t]
        BY <2>1 DEF _save_state_atomic, TypeOK, CursorTypeOK
      <3>. QED
        BY <3>1, <3>2, <3>3, SignalAssumption
    <2>4. accepted[s][wire.as_of] = 0
      <3>1. accepted[s][wire.as_of] \in 0 .. 2
        BY <2>2 DEF TypeOK
      <3>2. accepted[s][wire.as_of] # 0 =>
               cursor[s] # None /\ wire.as_of <= cursor[s].as_of
        BY <2>2 DEF OnceInv
      <3>. QED
        BY <2>2, <3>1, <3>2
    <2>5. /\ accepted'[s][wire.as_of] = 1
          /\ \A d \in AsOf \ {wire.as_of} : accepted'[s][d] = accepted[s][d]
          /\ \A t \in Sleeves \ {s} : accepted'[t] = accepted[t]
      BY <2>1, <2>2, <2>4 DEF TypeOK
    <2>6. ASSUME NEW d \in AsOf
          PROVE  \/ accepted'[s][d] <= 1 /\ d <= wire.as_of
                 \/ accepted'[s][d] = 0
      <3>1. CASE d = wire.as_of
        BY <3>1, <2>2, <2>5
      <3>2. CASE d # wire.as_of /\ accepted[s][d] # 0
        <4>1. d \in Nat /\ d <= cursor[s].as_of /\ cursor[s] # None
              /\ accepted[s][d] <= 1
          BY <3>2, SignalAssumption DEF OnceInv
        <4>. QED
          BY <3>2, <4>1, <2>2, <2>5
      <3>3. CASE d # wire.as_of /\ accepted[s][d] = 0
        BY <3>3, <2>5
      <3>. QED
        BY <3>1, <3>2, <3>3
    <2>7. ASSUME NEW t \in Sleeves, NEW d \in AsOf
          PROVE  /\ accepted'[t][d] <= 1
                 /\ accepted'[t][d] # 0 =>
                       cursor'[t] # None /\ d <= cursor'[t].as_of
      <3>1. CASE t = s
        BY <3>1, <2>3, <2>6
      <3>2. CASE t # s
        BY <3>2, <2>3, <2>5 DEF OnceInv
      <3>. QED
        BY <3>1, <3>2
    <2>. QED
      BY <2>7 DEF OnceInv
  <1>3. CASE UNCHANGED vars
    BY <1>1, <1>3 DEF vars, history, watched
  <1>. QED
    BY <1>1, <1>2, <1>3, CursorKept

\* Check 7 of remote_signal.py against the file that check 9 has replaced
\* before the allocation is returned: no source returns a second allocation
\* for a day, whatever the service issues again, however often the process
\* dies and whichever writes fail (S-2).
THEOREM NeverAcceptedTwice == Spec => []AcceptedOnce
  <1>1. Init => OnceInv
    BY DEF Init, OnceInv
  <1>2. OnceInv => AcceptedOnce
    BY DEF OnceInv, AcceptedOnce
  <1>. QED
    BY <1>1, <1>2, TypeCorrect, OnceNext, PTL DEF Spec

-----------------------------------------------------------------------------
(***************************************************************************)
(* The baseline and the account.  What BaselineHonest says holds inside a  *)
(* cycle too; there the snapshot is the account but for what others have   *)
(* flattened since, and a clean execution makes it the target.             *)
(***************************************************************************)

BaselineInv ==
    /\ \A c \in Coins \ touched : pos[c] = Baseline[c]
    /\ pc \in {"fetch", "plan", "execute"} =>
          \A c \in Coins \ hit : pos[c] = snap[c]
    /\ pc = "commit" =>
          \A c \in Coins \ (frozen \cup blocked \cup hit) : pos[c] = target[c]

BaselineKept ==
    /\ mem'.last_rebalanced_target = mem.last_rebalanced_target
    /\ UNCHANGED <<pos, touched, hit>>

\* Most steps of a cycle write neither the account nor the baseline.
LEMMA QuietKeeps ==
  ASSUME BaselineInv, BaselineKept,
         \/ pc' \in {"idle", "first", "snapshot", "derisk"}
         \/ /\ pc \in {"fetch", "plan"} /\ pc' \in {"fetch", "plan", "execute"}
            /\ snap' = snap
  PROVE  BaselineInv'
  <1>1. Baseline' = Baseline
    BY DEF BaselineKept, Baseline
  <1>2. \A c \in Coins \ touched' : pos'[c] = Baseline'[c]
    BY <1>1 DEF BaselineInv, BaselineKept
  <1>3. pc' # "commit"
    OBVIOUS
  <1>4. pc' \in {"fetch", "plan", "execute"} =>
           \A c \in Coins \ hit' : pos'[c] = snap'[c]
    BY DEF BaselineInv, BaselineKept
  <1>. QED
    BY <1>2, <1>3, <1>4 DEF BaselineInv

\* The other fields of the State object leave the baseline alone.
LEMMA BaselineSaved ==
  ASSUME TypeOK, NEW s, SaveOk(s) \/ SaveRaises(s)
  PROVE  s.last_rebalanced_target = mem.last_rebalanced_target
         => mem'.last_rebalanced_target = mem.last_rebalanced_target
  BY DEF SaveOk, SaveRaises

LEMMA QuietNext ==
  ASSUME TypeOK, BaselineInv,
         \/ StartDaily \/ StartRetry \/ FirstCycle \/ SnapshotRaises
         \/ (\E s \in Sleeves : FetchRejected(s) \/ _fetch_sleeve(s))
         \/ FetchFrozen \/ _handle_no_good_signal \/ CombineRaises \/ Record
         \/ Plan \/ ExecuteDefers \/ ExecuteAborts \/ DeriskRaises \/ Tick
  PROVE  BaselineInv'
  <1> DEFINE first == [mem EXCEPT !.first_cycle_ts = now]
             held == [mem EXCEPT !.sleeves = Recounted(@)]
             served == [s \in Sleeves |->
                           IF s \in fresh_served
                           THEN [last_success_ts |-> now, consecutive_holds |-> 0]
                           ELSE mem.sleeves[s]]
             recorded == [mem EXCEPT !.last_successful_signal_ts = now,
                                     !.sleeves = Recounted(served)]
             pruned == [mem EXCEPT !.liq_cooldowns =
                           [c \in Coins |-> IF c \in Expired THEN None ELSE @[c]]]
  <1>1. /\ first.last_rebalanced_target = mem.last_rebalanced_target
        /\ held.last_rebalanced_target = mem.last_rebalanced_target
        /\ recorded.last_rebalanced_target = mem.last_rebalanced_target
        /\ pruned.last_rebalanced_target = mem.last_rebalanced_target
    BY DEF TypeOK, State
  <1>2. CASE StartDaily \/ StartRetry \/ SnapshotRaises \/ CombineRaises
             \/ ExecuteDefers \/ ExecuteAborts \/ DeriskRaises \/ Tick
    <2>1. BaselineKept
      BY <1>2 DEF StartDaily, StartRetry, SnapshotRaises, CombineRaises,
                  ExecuteDefers, ExecuteAborts, DeriskRaises, Tick,
                  BaselineKept, store, history, watched
    <2>2. pc' \in {"idle", "first"}
      BY <1>2 DEF StartDaily, StartRetry, SnapshotRaises, CombineRaises,
                  ExecuteDefers, ExecuteAborts, DeriskRaises, Tick, Raise,
                  Leave, local
    <2>. QED
      BY <2>1, <2>2, QuietKeeps
  <1>3. CASE FirstCycle
    <2>1. /\ UNCHANGED <<pos, touched, hit>> /\ pc' \in {"idle", "snapshot"}
          /\ UNCHANGED mem \/ SaveOk(first) \/ SaveRaises(first)
      BY <1>3 DEF FirstCycle, history, watched, Raise, Leave, Goto, store
    <2> HIDE DEF first
    <2>. QED
      BY <1>1, <2>1, BaselineSaved, QuietKeeps DEF BaselineKept
  <1>4. CASE FetchFrozen \/ \E s \in Sleeves : FetchRejected(s) \/ _fetch_sleeve(s)
    <2>1. /\ BaselineKept /\ UNCHANGED <<pc, snap>> /\ pc = "fetch"
      BY <1>4 DEF FetchFrozen, FetchRejected, _fetch_sleeve, Fetched,
                  NextToFetch, BaselineKept, store, history, watched
    <2>. QED
      BY <2>1, QuietKeeps
  <1>5. CASE _handle_no_good_signal
    <2>1. /\ UNCHANGED <<pos, touched, hit>> /\ pc' \in {"idle", "derisk"}
          /\ SaveOk(held) \/ SaveRaises(held)
      BY <1>5 DEF _handle_no_good_signal, Raise, Leave, Goto
    <2> HIDE DEF held
    <2>. QED
      BY <1>1, <2>1, BaselineSaved, QuietKeeps DEF BaselineKept
  <1>6. CASE Record
    <2>1. /\ UNCHANGED <<pos, touched, hit>>
          /\ pc' = "idle" \/ (pc = "fetch" /\ pc' = "plan" /\ snap' = snap)
          /\ SaveOk(recorded) \/ SaveRaises(recorded)
      BY <1>6 DEF Record, AllFetched, Raise, Leave
    <2> HIDE DEF recorded
    <2>. QED
      BY <1>1, <2>1, BaselineSaved, QuietKeeps DEF BaselineKept
  <1>7. CASE Plan
    <2>1. /\ UNCHANGED <<pos, touched, hit>>
          /\ pc' = "idle" \/ (pc = "plan" /\ pc' = "execute" /\ snap' = snap)
          /\ UNCHANGED mem \/ SaveOk(pruned) \/ SaveRaises(pruned)
      BY <1>7 DEF Plan, Raise, Leave, history, watched, store
    <2> HIDE DEF pruned
    <2>. QED
      BY <1>1, <2>1, BaselineSaved, QuietKeeps DEF BaselineKept
  <1>. QED
    BY <1>2, <1>3, <1>4, <1>5, <1>6, <1>7

LEMMA SnapshotHonest ==
  ASSUME TypeOK, BaselineInv, Snapshot
  PROVE  BaselineInv'
  <1> DEFINE flagged == [mem EXCEPT !.liq_cooldowns =
                            [c \in Coins |-> IF c \in _detect_liquidations
                                             THEN Day ELSE @[c]]]
             known == [flagged EXCEPT !.last_known_positions = Held(pos)]
  <1>1. /\ flagged.last_rebalanced_target = mem.last_rebalanced_target
        /\ known.last_rebalanced_target = mem.last_rebalanced_target
    BY DEF TypeOK, State
  <1> HIDE DEF known
  <1>2. UNCHANGED <<pos, touched>>
    BY DEF Snapshot
  <1>3. CASE mem' = known /\ pc' = "fetch" /\ snap' = pos /\ hit' = {}
    <2>1. Baseline' = Baseline
      BY <1>1, <1>3 DEF Baseline
    <2>. QED
      BY <1>2, <1>3, <2>1 DEF BaselineInv
  <1> HIDE DEF flagged
  <1>4. CASE SaveRaises(flagged) /\ Raise /\ UNCHANGED hit
    BY <1>1, <1>2, <1>4, BaselineSaved, QuietKeeps DEF BaselineKept, Raise, Leave
  <1>. QED
    BY <1>3, <1>4 DEF Snapshot, flagged, known

LEMMA CleanHonest ==
  ASSUME TypeOK, BaselineInv, ExecuteClean
  PROVE  BaselineInv'
  <1>1. Baseline' = Baseline /\ pc = "execute" /\ pc' = "commit"
        /\ UNCHANGED <<frozen, blocked, hit, target>>
    BY DEF ExecuteClean, Baseline, Goto, store
  <1>2. \A c \in Coins : pos'[c] = IF c \in orders THEN Goal[c] ELSE pos[c]
    BY DEF ExecuteClean
  <1>3. ASSUME NEW c \in Coins \ touched'
        PROVE  pos'[c] = Baseline'[c]
    BY <1>1, <1>2 DEF ExecuteClean, BaselineInv
  <1>4. ASSUME NEW c \in Coins \ (frozen \cup blocked \cup hit)
        PROVE  pos'[c] = target[c]
    <2>1. c \in planned_coins /\ Goal[c] = target[c]
      BY DEF planned_coins, Goal, effective_weights
    <2>2. pos[c] = snap[c]
      BY <1>1 DEF BaselineInv
    <2>. QED
      BY <1>2, <2>1, <2>2 DEF orders
  <1>. QED
    BY <1>1, <1>3, <1>4 DEF BaselineInv

LEMMA DirtyHonest ==
  ASSUME TypeOK, BaselineInv, ExecuteDirty
  PROVE  BaselineInv'
  <1>1. Baseline' = Baseline /\ pc' = "idle" /\ touched' = touched \cup orders
    BY DEF ExecuteDirty, Baseline, Leave, store
  <1>2. \A c \in Coins \ orders : pos'[c] = pos[c]
    BY DEF ExecuteDirty
  <1>. QED
    BY <1>1, <1>2 DEF BaselineInv

LEMMA CommitHonest ==
  ASSUME TypeOK, BaselineInv, Commit
  PROVE  BaselineInv'
  <1> DEFINE s == [mem EXCEPT !.last_rebalanced_target = target]
  <1>1. s.last_rebalanced_target = target /\ mem' = s
    BY DEF Commit, SaveOk, SaveRaises, TypeOK, State
  <1>2. \A c \in Coins : target[c] = Baseline'[c]
    <2>1. CASE target # None
      BY <1>1, <2>1 DEF Baseline
    <2>2. CASE target = None
      BY <2>2, NoneBook DEF TypeOK
    <2>. QED
      BY <2>1, <2>2
  <1>3. /\ pc = "commit" /\ pc' = "idle" /\ pos' = pos
        /\ touched' = frozen \cup blocked \cup hit
    BY DEF Commit, Leave
  <1>. QED
    BY <1>2, <1>3 DEF BaselineInv

LEMMA ResetHonest ==
  ASSUME TypeOK, BaselineInv, DeriskReset
  PROVE  BaselineInv'
  <1> DEFINE s == [mem EXCEPT !.last_rebalanced_target = AllZero]
  <1>1. s.last_rebalanced_target = AllZero /\ mem' = s
    BY DEF DeriskReset, SaveOk, SaveRaises, TypeOK, State
  <1>2. Baseline' = AllZero
    BY <1>1 DEF Baseline
  <1>3. pos' = pos /\ touched' = Held(pos) /\ pc' = "idle"
    BY DEF DeriskReset, Raise, Leave
  <1>. QED
    BY <1>2, <1>3 DEF BaselineInv, Held, AllZero

LEMMA ExpireHonest ==
  ASSUME TypeOK, BaselineInv, ExpireWindow
  PROVE  BaselineInv'
  <1> DEFINE s == [mem EXCEPT !.last_rebalanced_target = window.target]
  <1>1. s.last_rebalanced_target = window.target /\ mem' = s
    BY DEF ExpireWindow, SaveOk, SaveRaises, TypeOK, State
  <1>2. window.target # None
    BY NoneBook DEF ExpireWindow, TypeOK, OrNone
  <1>3. Baseline' = window.target
    BY <1>1, <1>2 DEF Baseline
  <1>4. /\ UNCHANGED <<pos, hit, pc, snap>> /\ pc = "idle"
        /\ touched' = touched
               \cup {c \in Coins : window.target[c] # Baseline[c]}
    BY DEF ExpireWindow, local
  <1>. QED
    BY <1>3, <1>4 DEF BaselineInv

\* What others flatten is in hit and in touched.
LEMMA HitHonest ==
  ASSUME TypeOK, BaselineInv, NEW gone \in SUBSET Coins,
         \A c \in Coins \ gone : pos'[c] = pos[c],
         hit' = hit \cup gone, touched' = touched \cup gone,
         UNCHANGED <<local, store>>
  PROVE  BaselineInv'
  <1>1. Baseline' = Baseline
    BY DEF store, Baseline
  <1>. QED
    BY <1>1 DEF BaselineInv, local

LEMMA FlattensHonest ==
  ASSUME TypeOK, BaselineInv,
         Flatten \/ DeriskFlatten \/ \E c \in Coins : Liquidate(c)
  PROVE  BaselineInv'
  <1>1. ASSUME NEW c \in Coins, Liquidate(c)
        PROVE  BaselineInv'
    <2>1. /\ \A d \in Coins \ {c} : pos'[d] = pos[d]
          /\ {c} \in SUBSET Coins
      BY <1>1 DEF Liquidate, TypeOK, Book
    <2>2. /\ hit' = hit \cup {c} /\ touched' = touched \cup {c}
          /\ UNCHANGED <<local, store>>
      BY <1>1 DEF Liquidate
    <2>. QED
      BY <2>1, <2>2, HitHonest
  <1>2. CASE Flatten
    <2>1. PICK left \in SUBSET Held(pos) :
             /\ pos' = [c \in Coins |-> IF c \in left THEN pos[c] ELSE 0]
             /\ hit' = hit \cup (Held(pos) \ left)
             /\ touched' = touched \cup (Held(pos) \ left)
      BY <1>2 DEF Flatten
    <2>2. \A c \in Coins \ (Held(pos) \ left) : pos'[c] = pos[c]
      BY <2>1 DEF Held
    <2>3. Held(pos) \ left \in SUBSET Coins
      BY DEF Held
    <2>. QED
      BY <1>2, <2>1, <2>2, <2>3, HitHonest DEF Flatten
  <1>3. CASE DeriskFlatten
    <2>1. \A c \in Coins \ Held(pos) : pos'[c] = pos[c]
      BY <1>3 DEF DeriskFlatten, Held
    <2>2. Baseline' = Baseline /\ pc' = "reset"
          /\ touched' = touched \cup Held(pos)
      BY <1>3 DEF DeriskFlatten, Goto, Baseline, store
    <2>. QED
      BY <2>1, <2>2 DEF BaselineInv
  <1>. QED
    BY <1>1, <1>2, <1>3

LEMMA CrashHonest ==
  ASSUME TypeOK, BaselineInv, Crash
  PROVE  BaselineInv'
  <1>1. pc' = "idle" /\ pos' = pos /\ mem' = disk
    BY DEF Crash, Leave
  <1>2. CASE mem.last_rebalanced_target = disk.last_rebalanced_target
    <2>1. Baseline' = Baseline /\ touched' = touched
      BY <1>1, <1>2 DEF Crash, Baseline
    <2>. QED
      BY <1>1, <2>1 DEF BaselineInv
  <1>3. CASE mem.last_rebalanced_target # disk.last_rebalanced_target
    BY <1>1, <1>3 DEF Crash, BaselineInv
  <1>. QED
    BY <1>2, <1>3

LEMMA BaselineNext ==
  ASSUME TypeOK, BaselineInv, [Next]_vars
  PROVE  BaselineInv'
  <1>1. CASE Next
    BY <1>1, QuietNext, SnapshotHonest, CleanHonest, DirtyHonest, CommitHonest,
       ResetHonest, ExpireHonest, FlattensHonest, CrashHonest DEF Next
  <1>2. CASE UNCHANGED vars
    BY <1>2 DEF vars, local, store, history, watched, BaselineInv, Baseline
  <1>. QED
    BY <1>1, <1>2

\* Step 7 and the exits of rebalance.py: between cycles the account holds
\* what the committed baseline says, but for the coins that others flattened,
\* the orders of dirty cycles and what was frozen or blocked at the commit, so
\* the liquidation detector compares with what was traded (F-1).
THEOREM BaselineIsHonest == Spec => []BaselineHonest
  <1>1. Init => BaselineInv
    BY DEF Init, BaselineInv, Baseline, FreshState
  <1>2. BaselineInv => BaselineHonest
    BY DEF BaselineInv, BaselineHonest
  <1>. QED
    BY <1>1, <1>2, TypeCorrect, BaselineNext, PTL DEF Spec

-----------------------------------------------------------------------------
(***************************************************************************)
(* Between Record and the orders only the environment interferes, and what *)
(* the orders do to a coin is its goal or the close of a flip.             *)
(***************************************************************************)

LEMMA PhaseSteps ==
  ASSUME Next, pc' \in {"plan", "execute"}
  PROVE  \/ Record \/ Plan
         \/ UNCHANGED <<now, universe, local, store, dark, squeezed, served_at>>
  <1>1. CASE StartDaily \/ StartRetry \/ FirstCycle \/ Snapshot
    BY <1>1 DEF StartDaily, StartRetry, FirstCycle, Snapshot, Goto, Raise, Leave
  <1>2. CASE SnapshotRaises \/ CombineRaises \/ DeriskRaises
             \/ _handle_no_good_signal
    BY <1>2 DEF SnapshotRaises, CombineRaises, DeriskRaises,
                _handle_no_good_signal, Raise, Leave, Goto
  <1>3. CASE FetchFrozen \/ \E s \in Sleeves : FetchRejected(s) \/ _fetch_sleeve(s)
    BY <1>3 DEF FetchFrozen, FetchRejected, _fetch_sleeve, NextToFetch, Fetched
  <1>4. CASE ExecuteDefers \/ ExecuteAborts \/ ExecuteClean \/ ExecuteDirty
    BY <1>4 DEF ExecuteDefers, ExecuteAborts, ExecuteClean, ExecuteDirty,
                Leave, Goto
  <1>5. CASE Commit \/ DeriskFlatten \/ DeriskReset \/ Crash
    BY <1>5 DEF Commit, DeriskFlatten, DeriskReset, Crash, Raise, Leave, Goto
  <1>6. CASE ExpireWindow \/ Tick
    BY <1>6 DEF ExpireWindow, Tick, local
  <1>7. CASE Flatten \/ \E c \in Coins : Liquidate(c)
    BY <1>7 DEF Flatten, Liquidate
  <1>. QED
    BY <1>1, <1>2, <1>3, <1>4, <1>5, <1>6, <1>7 DEF Next

Records ==
    [s \in Sleeves |-> IF s \in fresh_served
                       THEN [last_success_ts |-> now, consecutive_holds |-> 0]
                       ELSE mem.sleeves[s]]

LEMMA RecordDone ==
  ASSUME TypeOK, Record, pc' = "plan"
  PROVE  /\ AllFetched /\ fresh_served # {} /\ dark' = Darkened
         /\ mem'.sleeves = Recounted(Records) /\ disk' = mem'
         /\ mem'.last_successful_signal_ts = now
         /\ mem'.last_rebalanced_target = mem.last_rebalanced_target
         /\ mem'.liq_cooldowns = mem.liq_cooldowns
         /\ mem'.last_known_positions = mem.last_known_positions
         /\ target' = combine_sleeves(fresh_served, fetched)
         /\ frozen' = frozen_coins(HeldSleeves, universe)
         /\ UNCHANGED <<now, universe, mode, snap, fetched, blocked, squeezed>>
  <1> DEFINE recs == Recounted(Records)
             s == [mem EXCEPT !.last_successful_signal_ts = now,
                              !.sleeves = recs]
  <1> HIDE DEF recs
  <1>1. /\ s.sleeves = recs
        /\ s.last_successful_signal_ts = now
        /\ s.last_rebalanced_target = mem.last_rebalanced_target
        /\ s.liq_cooldowns = mem.liq_cooldowns
        /\ s.last_known_positions = mem.last_known_positions
    BY DEF TypeOK, State
  <1> HIDE DEF s
  <1>2. SaveOk(s)
    BY DEF Record, Raise, Leave, s, recs, Records
  <1>. QED
    BY <1>1, <1>2 DEF Record, SaveOk, Raise, Leave, recs

LEMMA PlanDone ==
  ASSUME TypeOK, Plan, pc' = "execute"
  PROVE  /\ pc = "plan" /\ blocked' = _cooldown_blocked_set
         /\ mem'.sleeves = mem.sleeves
         /\ mem'.last_rebalanced_target = mem.last_rebalanced_target
         /\ mem'.last_known_positions = mem.last_known_positions
         /\ mem'.liq_cooldowns = [c \in Coins |->
                IF c \in Expired THEN None ELSE mem.liq_cooldowns[c]]
         /\ UNCHANGED <<now, universe, mode, snap, fetched, target, frozen, dark,
                        squeezed, served_at>>
  <1> DEFINE cds == [c \in Coins |-> IF c \in Expired THEN None
                                     ELSE mem.liq_cooldowns[c]]
             s == [mem EXCEPT !.liq_cooldowns = cds]
  <1>1. Expired = {} => cds = mem.liq_cooldowns
    BY DEF TypeOK, State
  <1> HIDE DEF cds
  <1>2. /\ s.sleeves = mem.sleeves
        /\ s.last_rebalanced_target = mem.last_rebalanced_target
        /\ s.liq_cooldowns = cds
        /\ s.last_known_positions = mem.last_known_positions
    BY DEF TypeOK, State
  <1> HIDE DEF s
  <1>3. IF Expired = {} THEN UNCHANGED <<store, faults>> ELSE SaveOk(s)
    BY DEF Plan, Raise, Leave, s, cds
  <1>4. /\ pc = "plan" /\ blocked' = _cooldown_blocked_set
        /\ UNCHANGED <<now, universe, mode, snap, fetched, target, frozen, dark,
                       squeezed, served_at>>
    BY DEF Plan, Raise, Leave, history, watched
  <1>5. CASE Expired = {}
    BY <1>1, <1>3, <1>4, <1>5 DEF store, cds
  <1>6. CASE Expired # {}
    BY <1>2, <1>3, <1>4, <1>6 DEF SaveOk, cds
  <1>. QED
    BY <1>5, <1>6

LEMMA OrdersOnly ==
  ASSUME TypeOK, Next, pc = "execute", faults' = faults, NEW c \in Coins
  PROVE  \/ pos'[c] = pos[c]
         \/ c \in orders /\ (pos'[c] = Goal[c] \/ pos'[c] = 0)
  <1>1. ~Fault
    BY DEF Fault, TypeOK
  <1>2. CASE ExecuteDefers \/ ExecuteAborts
    BY <1>2 DEF ExecuteDefers, ExecuteAborts
  <1>3. CASE ExecuteClean
    BY <1>3 DEF ExecuteClean
  <1>4. CASE ExecuteDirty
    BY <1>4 DEF ExecuteDirty
  <1>. QED
    BY <1>1, <1>2, <1>3, <1>4
       DEF Next, StartDaily, StartRetry, FirstCycle, Snapshot, SnapshotRaises,
           FetchRejected, _fetch_sleeve, NextToFetch, FetchFrozen,
           _handle_no_good_signal, AllFetched, CombineRaises, Record, Plan,
           Commit, DeriskFlatten, DeriskRaises, DeriskReset, ExpireWindow,
           Flatten, Crash, Tick, Liquidate

-----------------------------------------------------------------------------
(***************************************************************************)
(* Frozen coins.  After Record the coins of a dark long sleeve inside its  *)
(* window are in frozen, and the window does not close during a cycle.     *)
(***************************************************************************)

Freezes(s) ==
    /\ fetched[s] = Dark /\ s \notin Short
    /\ mem.sleeves[s] # None
    /\ now - mem.sleeves[s].last_success_ts <= SleeveStale[s]

FrozenInv ==
    (pc \in {"plan", "execute"} /\ mode = "daily") =>
        \A s \in Sleeves : Freezes(s) => universe[s] \subseteq frozen

LEMMA RecountKeeps ==
  ASSUME TypeOK, NEW recs \in [Sleeves -> OrNone(Sleeve)], NEW s \in Sleeves,
         recs[s] # None
  PROVE  Recounted(recs)[s].last_success_ts = recs[s].last_success_ts
  <1>1. recs[s] \in Sleeve
    BY DEF OrNone
  <1>2. [recs[s] EXCEPT !.consecutive_holds = Outcome(s).holds].last_success_ts
           = recs[s].last_success_ts
    BY <1>1 DEF Sleeve
  <1>. QED
    BY <1>2 DEF Recounted

LEMMA RecordsTypes ==
  ASSUME TypeOK
  PROVE  Records \in [Sleeves -> OrNone(Sleeve)]
  <1>1. [last_success_ts |-> now, consecutive_holds |-> 0] \in Sleeve
    BY DayType DEF TypeOK, Sleeve
  <1>. QED
    BY <1>1 DEF Records, TypeOK, State, OrNone

LEMMA RecordFreezes ==
  ASSUME TypeOK, Record, pc' = "plan"
  PROVE  FrozenInv'
  <1>1. /\ AllFetched /\ mem'.sleeves = Recounted(Records)
        /\ frozen' = frozen_coins(HeldSleeves, universe)
        /\ UNCHANGED <<now, universe, mode, fetched>>
    BY RecordDone
  <1>2. SUFFICES ASSUME mode = "daily", NEW s \in Sleeves, Freezes(s)'
                 PROVE  universe[s] \subseteq frozen'
    BY <1>1 DEF FrozenInv
  <1>3. s \in sleeves_list /\ ~Served(s) /\ s \notin Short
    BY <1>1, <1>2 DEF Freezes, sleeves_list, Served
  <1>4. Records[s] = mem.sleeves[s]
    BY <1>3 DEF Records, fresh_served
  <1>5. Records[s] # None
    BY <1>1, <1>2 DEF Freezes, Recounted
  <1>6. mem'.sleeves[s].last_success_ts = mem.sleeves[s].last_success_ts
    BY <1>1, <1>4, <1>5, RecountKeeps, RecordsTypes
  <1>7. _within_staleness_window(s)
    BY <1>1, <1>2, <1>4, <1>5, <1>6 DEF Freezes, _within_staleness_window
  <1>8. Outcome(s).status = "hold"
    BY <1>3, <1>7 DEF Outcome, resolve_outcome
  <1>9. s \in HeldSleeves
    BY <1>3, <1>4, <1>5, <1>8 DEF HeldSleeves
  <1>. QED
    BY <1>1, <1>9 DEF frozen_coins

LEMMA FrozenNext ==
  ASSUME TypeOK, FrozenInv, [Next]_vars
  PROVE  FrozenInv'
  <1>1. CASE pc' \notin {"plan", "execute"}
    BY <1>1 DEF FrozenInv
  <1>2. CASE Record /\ pc' \in {"plan", "execute"}
    <2>1. pc' = "plan"
      BY <1>2 DEF Record, Raise, Leave
    <2>. QED
      BY <1>2, <2>1, RecordFreezes
  <1>3. CASE Plan /\ pc' \in {"plan", "execute"}
    <2>1. pc' = "execute"
      BY <1>3 DEF Plan, Raise, Leave
    <2>. QED
      BY <1>3, <2>1, PlanDone DEF FrozenInv, Freezes
  <1>4. CASE UNCHANGED <<now, universe, local, store, dark, squeezed, served_at>>
    BY <1>4 DEF FrozenInv, Freezes, local, store
  <1>5. CASE UNCHANGED vars
    BY <1>4, <1>5 DEF vars, history, watched
  <1>. QED
    BY <1>1, <1>2, <1>3, <1>4, <1>5, PhaseSteps

\* The held_assets of run_cycle against the plan of execution/sizer.py: the
\* orders of a daily cycle leave the coins of every sleeve it found dark
\* inside its window alone, and neither the ratchet, the drift check nor the
\* exit of positions without a target gets at them.
THEOREM FrozenNeverTraded == Spec => FrozenUntouched
  <1>1. Init => FrozenInv
    BY DEF Init, FrozenInv
  <1> DEFINE Left == (pc = "execute" /\ mode = "daily" /\ faults' = faults) =>
                        \A s \in Sleeves :
                           (fetched[s] = Dark /\ s \notin Short
                              /\ mem.sleeves[s] # None
                              /\ now - mem.sleeves[s].last_success_ts
                                    <= SleeveStale[s])
                           => \A c \in universe[s] : pos'[c] = pos[c]
  <1>2. ASSUME TypeOK, FrozenInv, [Next]_vars
        PROVE  [Left]_vars
    <2>1. SUFFICES ASSUME Next, pc = "execute", mode = "daily",
                          faults' = faults,
                          NEW s \in Sleeves, Freezes(s), NEW c \in universe[s]
                   PROVE  pos'[c] = pos[c]
      BY <1>2 DEF Freezes
    <2>2. c \in frozen
      BY <1>2, <2>1 DEF FrozenInv
    <2>3. c \in Coins /\ c \notin orders
      BY <1>2, <2>2 DEF orders, planned_coins, TypeOK
    <2>. QED
      BY <1>2, <2>1, <2>3, OrdersOnly
  <1>. QED
    BY <1>1, <1>2, TypeCorrect, FrozenNext, PTL DEF Spec, FrozenUntouched

-----------------------------------------------------------------------------
(***************************************************************************)
(* Dark short sleeves.  One dark cycle leaves a hold in the sleeve's       *)
(* record, unless it was out of its window already; at the second Record   *)
(* it is stale, so its own coins are neither frozen nor wanted.            *)
(***************************************************************************)

DarkRecorded ==
    \A s \in Short :
        (dark[s] # 0 /\ mem.sleeves[s] # None) =>
            \/ mem.sleeves[s].consecutive_holds >= 1
            \/ now - mem.sleeves[s].last_success_ts > SleeveStale[s]

OwnCoinsOnly ==
    \A s \in Sleeves \ {Default}, c \in Coins :
        (fetched[s] \notin {None, Dark} /\ c \notin universe[s])
            => fetched[s][c] = 0

Apart(s) == \A t \in Sleeves \ {s} : universe[s] \cap universe[t] = {}

DarkUnwanted ==
    (pc \in {"plan", "execute"} /\ mode = "daily") =>
        \A s \in Short :
            (dark[s] = 2 /\ Apart(s)) =>
                /\ universe[s] \cap frozen = {}
                /\ \A c \in universe[s] : target[c] = 0

LEMMA RecountHolds ==
  ASSUME TypeOK, NEW recs \in [Sleeves -> OrNone(Sleeve)], NEW s \in Short,
         recs[s] = mem.sleeves[s], DarkRecorded,
         ~Served(s) \/ s \notin sleeves_list,
         Darkened[s] # 0, Recounted(recs)[s] # None
  PROVE  \/ Recounted(recs)[s].consecutive_holds >= 1
         \/ now - Recounted(recs)[s].last_success_ts > SleeveStale[s]
  <1>1. s \in Sleeves
    BY SleevesAssumption
  <1>2. recs[s] # None /\ recs[s] \in Sleeve
    BY <1>1 DEF Recounted, OrNone
  <1>3. Recounted(recs)[s].last_success_ts = mem.sleeves[s].last_success_ts
    BY <1>1, <1>2, RecountKeeps
  <1>4. CASE s \notin sleeves_list
    <2>1. Recounted(recs)[s] = mem.sleeves[s] /\ dark[s] # 0
      BY <1>1, <1>4 DEF Recounted, Darkened
    <2>. QED
      BY <1>2, <2>1 DEF DarkRecorded
  <1>5. CASE s \in sleeves_list /\ ~Served(s)
    <2>1. Recounted(recs)[s].consecutive_holds = Outcome(s).holds
      <3>1. [recs[s] EXCEPT !.consecutive_holds = Outcome(s).holds]
               .consecutive_holds = Outcome(s).holds
        BY <1>2 DEF Sleeve
      <3>. QED
        BY <1>1, <1>2, <1>5, <3>1 DEF Recounted
    <2>2. prior_holds(s) \in Nat
      BY <1>2 DEF prior_holds, Sleeve
    <2>3. CASE _within_staleness_window(s)
      <3>1. Outcome(s).holds = prior_holds(s) + 1
        BY <1>5, <2>3 DEF Outcome, resolve_outcome
      <3>. QED
        BY <2>1, <2>2, <3>1
    <2>4. CASE ~_within_staleness_window(s)
      <3>1. /\ now \in Int /\ SleeveStale[s] \in Int
            /\ mem.sleeves[s].last_success_ts \in Int
        BY <1>1, <1>2, DayType, CycleAssumption DEF TypeOK, Sleeve, Time
      <3>2. ~(now - mem.sleeves[s].last_success_ts <= SleeveStale[s])
        BY <1>2, <2>4 DEF _within_staleness_window
      <3>. QED
        BY <1>3, <3>1, <3>2
    <2>. QED
      BY <2>3, <2>4
  <1>. QED
    BY <1>4, <1>5

LEMMA DarkStays ==
  ASSUME DarkRecorded, UNCHANGED <<now, dark>>, mem'.sleeves = mem.sleeves
  PROVE  DarkRecorded'
  BY DEF DarkRecorded

LEMMA RecordsKept ==
  ASSUME TypeOK, Next
  PROVE  \/ _handle_no_good_signal \/ Record \/ Crash \/ Tick
         \/ mem'.sleeves = mem.sleeves /\ UNCHANGED <<now, dark>>
  <1> DEFINE first == [mem EXCEPT !.first_cycle_ts = now]
             flagged == [mem EXCEPT !.liq_cooldowns =
                            [c \in Coins |-> IF c \in _detect_liquidations
                                             THEN Day ELSE @[c]]]
             known == [flagged EXCEPT !.last_known_positions = Held(pos)]
             pruned == [mem EXCEPT !.liq_cooldowns =
                           [c \in Coins |-> IF c \in Expired THEN None ELSE @[c]]]
             Base(b) == [mem EXCEPT !.last_rebalanced_target = b]
  <1>1. /\ first.sleeves = mem.sleeves
        /\ flagged.sleeves = mem.sleeves /\ known.sleeves = mem.sleeves
        /\ pruned.sleeves = mem.sleeves
        /\ \A b : Base(b).sleeves = mem.sleeves
    BY DEF TypeOK, State
  <1>2. CASE StartDaily \/ StartRetry \/ SnapshotRaises \/ CombineRaises
             \/ DeriskRaises \/ FetchFrozen
    BY <1>2 DEF StartDaily, StartRetry, SnapshotRaises, CombineRaises,
                DeriskRaises, FetchFrozen, store, history, watched
  <1>3. CASE \E s \in Sleeves : FetchRejected(s) \/ _fetch_sleeve(s)
    BY <1>3 DEF FetchRejected, _fetch_sleeve, store, history, watched
  <1>4. CASE ExecuteDefers \/ ExecuteAborts \/ ExecuteClean \/ ExecuteDirty
             \/ DeriskFlatten \/ Flatten \/ \E c \in Coins : Liquidate(c)
    BY <1>4 DEF ExecuteDefers, ExecuteAborts, ExecuteClean, ExecuteDirty,
                DeriskFlatten, Flatten, Liquidate, store, history, watched
  <1>5. CASE FirstCycle
    <2>1. UNCHANGED <<now, dark>> /\ mem' \in {mem, first}
      BY <1>5 DEF FirstCycle, SaveOk, SaveRaises, store, history, watched
    <2>. QED
      BY <1>1, <2>1
  <1>6. CASE Snapshot
    <2>1. UNCHANGED <<now, dark>> /\ mem' \in {flagged, known}
      BY <1>6 DEF Snapshot, SaveRaises
    <2>. QED
      BY <1>1, <2>1
  <1>7. CASE Plan
    <2>1. UNCHANGED <<now, dark>> /\ mem' \in {mem, pruned}
      BY <1>7 DEF Plan, SaveOk, SaveRaises, store, history, watched
    <2>. QED
      BY <1>1, <2>1
  <1>8. CASE Commit \/ DeriskReset \/ ExpireWindow
    <2>1. UNCHANGED <<now, dark>> /\ \E b : mem' = Base(b)
      BY <1>8 DEF Commit, DeriskReset, ExpireWindow, SaveOk, SaveRaises
    <2>. QED
      BY <1>1, <2>1
  <1>. QED
    BY <1>2, <1>3, <1>4, <1>5, <1>6, <1>7, <1>8 DEF Next

LEMMA DarkRecordedNext ==
  ASSUME TypeOK, DarkRecorded, [Next]_vars
  PROVE  DarkRecorded'
  <1>1. CASE _handle_no_good_signal
    <2> DEFINE recs == mem.sleeves
               s == [mem EXCEPT !.sleeves = Recounted(recs)]
    <2>1. s.sleeves = Recounted(recs) /\ recs \in [Sleeves -> OrNone(Sleeve)]
      BY DEF TypeOK, State
    <2>2. mem' = s /\ now' = now /\ dark' = Darkened /\ fresh_served = {}
      BY <1>1 DEF _handle_no_good_signal, SaveOk, SaveRaises
    <2>3. \A t \in Short : ~Served(t) \/ t \notin sleeves_list
      BY <2>2 DEF fresh_served
    <2> HIDE DEF s, recs
    <2>4. \A t \in Short : recs[t] = mem.sleeves[t]
      BY DEF recs
    <2>. QED
      BY <2>1, <2>2, <2>3, <2>4, RecountHolds DEF DarkRecorded
  <1>2. CASE Record
    <2> DEFINE s == [mem EXCEPT !.last_successful_signal_ts = now,
                                !.sleeves = Recounted(Records)]
    <2>1. s.sleeves = Recounted(Records)
      BY DEF TypeOK, State
    <2>2. mem' = s /\ now' = now /\ dark' = Darkened
      BY <1>2 DEF Record, SaveOk, SaveRaises, Records
    <2> HIDE DEF s
    <2>3. ASSUME NEW t \in Short, dark'[t] # 0
          PROVE  Records[t] = mem.sleeves[t]
                 /\ (~Served(t) \/ t \notin sleeves_list)
      <3>1. ~Served(t) \/ t \notin sleeves_list
        BY <2>2, <2>3 DEF Darkened
      <3>. QED
        BY <3>1, SleevesAssumption DEF Records, fresh_served
    <2>. QED
      BY <2>1, <2>2, <2>3, RecordsTypes, RecountHolds DEF DarkRecorded
  <1>3. CASE Crash
    BY <1>3 DEF Crash, DarkRecorded
  <1>4. CASE Tick
    <2>1. now' = now + 1 /\ UNCHANGED <<mem, dark>>
      BY <1>4 DEF Tick, store
    <2>2. ASSUME NEW s \in Short, mem.sleeves[s] # None
          PROVE  /\ now \in Int /\ SleeveStale[s] \in Int
                 /\ mem.sleeves[s].last_success_ts \in Int
      <3>1. s \in Sleeves
        BY SleevesAssumption
      <3>2. mem.sleeves[s] \in Sleeve
        BY <2>2, <3>1 DEF TypeOK, State, OrNone
      <3>. QED
        BY <3>1, <3>2, DayType, CycleAssumption DEF TypeOK, Sleeve, Time
    <2>. QED
      BY <2>1, <2>2 DEF DarkRecorded
  <1>5. CASE mem'.sleeves = mem.sleeves /\ UNCHANGED <<now, dark>>
    BY <1>5, DarkStays
  <1>6. CASE UNCHANGED vars
    BY <1>5, <1>6 DEF vars, store, history, watched
  <1>. QED
    BY <1>1, <1>2, <1>3, <1>4, <1>5, <1>6, RecordsKept

LEMMA FetchedKept ==
  ASSUME Next
  PROVE  /\ universe' = universe
         /\ \/ UNCHANGED fetched \/ fetched' = Nothing \/ FetchFrozen
            \/ \E s \in Sleeves : FetchRejected(s) \/ _fetch_sleeve(s)
  <1>1. CASE StartDaily \/ StartRetry \/ FirstCycle \/ Snapshot
    BY <1>1 DEF StartDaily, StartRetry, FirstCycle, Snapshot, Goto, Raise, Leave
  <1>2. CASE SnapshotRaises \/ CombineRaises \/ DeriskRaises
             \/ _handle_no_good_signal
    BY <1>2 DEF SnapshotRaises, CombineRaises, DeriskRaises,
                _handle_no_good_signal, Raise, Leave, Goto
  <1>3. CASE FetchFrozen \/ \E s \in Sleeves : FetchRejected(s) \/ _fetch_sleeve(s)
    BY <1>3 DEF FetchFrozen, FetchRejected, _fetch_sleeve
  <1>4. CASE ExecuteDefers \/ ExecuteAborts \/ ExecuteClean \/ ExecuteDirty
    BY <1>4 DEF ExecuteDefers, ExecuteAborts, ExecuteClean, ExecuteDirty,
                Leave, Goto
  <1>5. CASE Commit \/ DeriskFlatten \/ DeriskReset \/ Crash
    BY <1>5 DEF Commit, DeriskFlatten, DeriskReset, Crash, Raise, Leave, Goto
  <1>6. CASE ExpireWindow \/ Tick \/ Flatten \/ \E c \in Coins : Liquidate(c)
    BY <1>6 DEF ExpireWindow, Tick, Flatten, Liquidate, local
  <1>7. CASE Record \/ Plan
    BY <1>7 DEF Record, Plan, Raise, Leave
  <1>. QED
    BY <1>1, <1>2, <1>3, <1>4, <1>5, <1>6, <1>7 DEF Next

LEMMA OwnCoinsNext ==
  ASSUME TypeOK, OwnCoinsOnly, [Next]_vars
  PROVE  OwnCoinsOnly'
  <1>1. ASSUME NEW s \in Sleeves, FetchRejected(s) \/ _fetch_sleeve(s),
               universe' = universe
        PROVE  OwnCoinsOnly'
    <2>1. CASE fetched' = [fetched EXCEPT ![s] = Dark]
      BY <1>1, <2>1 DEF OwnCoinsOnly, TypeOK
    <2>2. ASSUME NEW wire \in Answers(s),
                 fetched' = [fetched EXCEPT ![s] = wire.weights]
          PROVE  OwnCoinsOnly'
      <3>1. \A w \in Issued(s) : \A c \in Coins \ universe[s] :
               w.weights[c] = 0
        BY DEF Issued
      <3>2. \A w \in Issued(s) : \A v \in Spoilt(w) : v.weights = w.weights
        <4>1. \A w \in Issued(s) :
                 w = [flaw |-> w.flaw, audience |-> w.audience,
                      issued_at |-> w.issued_at, expires_at |-> w.expires_at,
                      seq |-> w.seq, as_of |-> w.as_of,
                      schema_version |-> w.schema_version,
                      weights |-> w.weights, pinned |-> w.pinned]
          BY DEF Issued
        <4>. QED
          BY <4>1 DEF Spoilt
      <3>3. \A c \in Coins \ universe[s] : wire.weights[c] = 0
        BY <3>1, <3>2 DEF Answers
      <3>4. /\ fetched'[s] = wire.weights
            /\ \A t \in Sleeves \ {s} : fetched'[t] = fetched[t]
        BY <2>2 DEF TypeOK
      <3>. QED
        BY <1>1, <3>3, <3>4 DEF OwnCoinsOnly
    <2>3. CASE FetchRejected(s)
      BY <2>1, <2>3 DEF FetchRejected, Fetched
    <2>4. CASE _fetch_sleeve(s)
      BY <2>1, <2>2, <2>4 DEF _fetch_sleeve, Fetched
    <2>. QED
      BY <1>1, <2>3, <2>4
  <1>2. ASSUME FetchFrozen, universe' = universe
        PROVE  OwnCoinsOnly'
    BY <1>2, CycleAssumption DEF FetchFrozen, Fetched, OwnCoinsOnly, TypeOK
  <1>3. ASSUME UNCHANGED fetched \/ fetched' = Nothing, universe' = universe
        PROVE  OwnCoinsOnly'
    BY <1>3 DEF OwnCoinsOnly, Nothing
  <1>4. CASE UNCHANGED vars
    BY <1>3, <1>4 DEF vars, local
  <1>. QED
    BY <1>1, <1>2, <1>3, <1>4, FetchedKept

LEMMA SignZero == _sign(0) = 0
  <1>1. \A d \in Sign : d * 0 > 0 \/ (0 = 0 /\ d = 0) <=> d = 0
    BY DEF Sign
  <1>. QED
    BY <1>1 DEF _sign, Sign

LEMMA RecordUnwanted ==
  ASSUME TypeOK, DarkRecorded, OwnCoinsOnly, Record, pc' = "plan"
  PROVE  DarkUnwanted'
  <1>1. /\ AllFetched /\ dark' = Darkened
        /\ target' = combine_sleeves(fresh_served, fetched)
        /\ frozen' = frozen_coins(HeldSleeves, universe)
        /\ UNCHANGED <<now, universe, mode, fetched>>
    BY RecordDone
  <1>2. SUFFICES ASSUME mode = "daily", NEW s \in Short, dark'[s] = 2, Apart(s)
                 PROVE  /\ universe[s] \cap frozen' = {}
                        /\ \A c \in universe[s] : target'[c] = 0
    BY <1>1 DEF DarkUnwanted, Apart
  <1>3. s \in Sleeves /\ s \in sleeves_list /\ ~Served(s) /\ dark[s] # 0
    BY <1>1, <1>2, SleevesAssumption DEF Darkened, sleeves_list, TypeOK
  <1>4. s \notin HeldSleeves
    <2>1. SUFFICES ASSUME mem.sleeves[s] # None
                   PROVE  Outcome(s).status # "hold"
      BY DEF HeldSleeves
    <2>2. CASE ~_within_staleness_window(s)
      BY <1>3, <2>2 DEF Outcome, resolve_outcome
    <2>3. CASE _within_staleness_window(s)
      <3>1. mem.sleeves[s] \in Sleeve
        BY <1>3, <2>1 DEF TypeOK, State, OrNone
      <3>2. now - mem.sleeves[s].last_success_ts <= SleeveStale[s]
        BY <2>1, <2>3 DEF _within_staleness_window
      <3>3. /\ now \in Int /\ SleeveStale[s] \in Int
            /\ mem.sleeves[s].last_success_ts \in Int
        BY <1>3, <3>1, DayType, CycleAssumption DEF TypeOK, Sleeve, Time
      <3>4. mem.sleeves[s].consecutive_holds >= 1
        BY <1>3, <2>1, <3>2, <3>3 DEF DarkRecorded
      <3>5. prior_holds(s) + 1 >= 2
        BY <2>1, <3>1, <3>4 DEF prior_holds, Sleeve
      <3>. QED
        BY <1>3, <2>3, <3>5 DEF Outcome, resolve_outcome
    <2>. QED
      BY <2>2, <2>3
  <1>5. universe[s] \cap frozen' = {}
    BY <1>1, <1>2, <1>4 DEF Apart, frozen_coins, HeldSleeves
  <1>6. ASSUME NEW c \in universe[s]
        PROVE  target'[c] = 0
    <2>1. c \in Coins
      BY <1>3, CycleAssumption DEF TypeOK
    <2>a. Default \notin Sleeves
      BY <1>2, CycleAssumption
    <2>2. \A t \in fresh_served : fetched[t][c] = 0
      BY <1>1, <1>2, <1>3, <2>1, <2>a
         DEF fresh_served, sleeves_list, AllFetched, Served, Apart, OwnCoinsOnly
    <2>3. /\ {t \in fresh_served : fetched[t][c] = 1} = {}
          /\ {t \in fresh_served : fetched[t][c] = -1} = {}
      BY <2>2
    <2>4. target'[c] = _sign(Cardinality({}) - Cardinality({}))
      BY <1>1, <2>1, <2>3 DEF combine_sleeves
    <2>5. Cardinality({}) - Cardinality({}) = 0
      BY FS_EmptySet
    <2>. QED
      BY <2>4, <2>5, SignZero
  <1>. QED
    BY <1>5, <1>6

LEMMA DarkUnwantedNext ==
  ASSUME TypeOK, DarkRecorded, OwnCoinsOnly, DarkUnwanted, [Next]_vars
  PROVE  DarkUnwanted'
  <1>1. CASE pc' \notin {"plan", "execute"}
    BY <1>1 DEF DarkUnwanted
  <1>2. CASE Record /\ pc' \in {"plan", "execute"}
    <2>1. pc' = "plan"
      BY <1>2 DEF Record, Raise, Leave
    <2>. QED
      BY <1>2, <2>1, RecordUnwanted
  <1>3. CASE Plan /\ pc' \in {"plan", "execute"}
    <2>1. pc' = "execute"
      BY <1>3 DEF Plan, Raise, Leave
    <2>. QED
      BY <1>3, <2>1, PlanDone DEF DarkUnwanted, Apart
  <1>4. CASE UNCHANGED <<now, universe, local, store, dark, squeezed, served_at>>
    BY <1>4 DEF DarkUnwanted, Apart, local
  <1>5. CASE UNCHANGED vars
    BY <1>4, <1>5 DEF vars, history, watched
  <1>. QED
    BY <1>1, <1>2, <1>3, <1>4, <1>5, PhaseSteps

\* resolve_outcome of sleeves.py over two cycles: a short sleeve dark in two
\* cycles running is sold at the second that trades at all, in every coin that
\* is its own (H2).
THEOREM DarkShortSold == Spec => []DarkShortUnwinds
  <1>1. Init => DarkRecorded /\ OwnCoinsOnly /\ DarkUnwanted
    BY DEF Init, DarkRecorded, OwnCoinsOnly, DarkUnwanted, Nothing
  <1>2. TypeOK /\ DarkUnwanted => DarkShortUnwinds
    <2>1. SUFFICES ASSUME TypeOK, DarkUnwanted, pc = "execute", mode = "daily",
                          NEW s \in Short, dark[s] = 2, Apart(s),
                          NEW c \in universe[s], snap[c] # 0
                   PROVE  c \in orders /\ Goal[c] = 0
      BY DEF DarkShortUnwinds, Apart
    <2>2. c \in Coins
      BY <2>1, SleevesAssumption, CycleAssumption DEF TypeOK
    <2>3. c \notin frozen /\ target[c] = 0
      BY <2>1 DEF DarkUnwanted
    <2>4. Goal[c] = 0
      BY <2>2, <2>3 DEF Goal, effective_weights
    <2>. QED
      BY <2>1, <2>2, <2>3, <2>4 DEF orders, planned_coins
  <1>. QED
    BY <1>1, <1>2, TypeCorrect, DarkRecordedNext, OwnCoinsNext,
       DarkUnwantedNext, PTL DEF Spec

-----------------------------------------------------------------------------
(***************************************************************************)
(* The length of a hold.  Positions exist only after a Record was saved,   *)
(* and the clock of the last signal is ahead of the last day that was      *)
(* served by the retries of that day's window alone.                       *)
(***************************************************************************)

Trading == pc \in {"plan", "execute", "commit"}

Signalled(t) ==
    /\ t.last_successful_signal_ts \in OrNone(Time)
    /\ t.last_successful_signal_ts # None =>
          /\ served_at # None
          /\ t.last_successful_signal_ts <= served_at + TicksPerDay - 1

HoldInv ==
    /\ served_at # None => served_at <= now
    /\ Signalled(mem) /\ Signalled(disk)
    /\ (Held(pos) # {} \/ Trading) =>
          /\ mem.last_successful_signal_ts # None
          /\ disk.last_successful_signal_ts # None
    /\ window # None =>
          served_at # None /\ window.as_of <= served_at \div TicksPerDay
    /\ (Trading /\ mode = "daily") => served_at = now
    /\ mode = "retry" => window.as_of = Day

\* Two ticks of one day are less than a day apart.
LEMMA SameDay ==
  ASSUME NEW a \in Nat, NEW b \in Nat, NEW k \in Nat \ {0},
         a \div k <= b \div k
  PROVE  a <= b + k - 1
  <1>1. /\ a = k * (a \div k) + (a % k) /\ a % k \in 0 .. (k - 1)
        /\ b = k * (b \div k) + (b % k) /\ b % k \in 0 .. (k - 1)
    OBVIOUS
  <1>2. k * (a \div k) <= k * (b \div k)
    <2>1. a \div k \in Nat /\ b \div k \in Nat
      OBVIOUS
    <2>2. \A x, y \in Nat : x <= y => k * x <= k * y
      OBVIOUS
    <2>. QED
      BY <2>1, <2>2
  <1>3. /\ k * (a \div k) \in Int /\ k * (b \div k) \in Int
        /\ a % k \in Int /\ b % k \in Int
    OBVIOUS
  <1>. QED
    BY <1>1, <1>2, <1>3

\* What every step but four does.
HoldKept ==
    /\ UNCHANGED <<now, served_at>>
    /\ mem'.last_successful_signal_ts \in {mem.last_successful_signal_ts,
                                           disk.last_successful_signal_ts}
    /\ disk'.last_successful_signal_ts \in {mem.last_successful_signal_ts,
                                            disk.last_successful_signal_ts}
    /\ Held(pos') # {} => Held(pos) # {} \/ Trading
    /\ Trading' => Trading /\ mode' = mode
    /\ mode' = "retry" => mode = "retry" /\ window' = window
    /\ window' \in {window, None}

LEMMA HoldKeeps ==
  ASSUME HoldInv, HoldKept
  PROVE  HoldInv'
  <1>1. Signalled(mem)' /\ Signalled(disk)'
    BY DEF HoldInv, HoldKept, Signalled
  <1>2. (Held(pos) # {} \/ Trading)' =>
           /\ mem'.last_successful_signal_ts # None
           /\ disk'.last_successful_signal_ts # None
    <2>1. Held(pos)' = Held(pos')
      BY DEF Held
    <2>. QED
      BY <2>1 DEF HoldInv, HoldKept
  <1>3. window' # None =>
           served_at' # None /\ window'.as_of <= served_at' \div TicksPerDay
    BY DEF HoldInv, HoldKept
  <1>4. (Trading' /\ mode' = "daily") => served_at' = now'
    BY DEF HoldInv, HoldKept
  <1>5. mode' = "retry" => window'.as_of = Day'
    BY DEF HoldInv, HoldKept, Day
  <1>6. served_at' # None => served_at' <= now'
    BY DEF HoldInv, HoldKept
  <1>. QED
    BY <1>1, <1>2, <1>3, <1>4, <1>5, <1>6 DEF HoldInv

\* A save of something else does not move the clock of the last signal.
LEMMA ClockSaved ==
  ASSUME NEW s, SaveOk(s) \/ SaveRaises(s),
         s.last_successful_signal_ts = mem.last_successful_signal_ts
  PROVE  /\ mem'.last_successful_signal_ts \in {mem.last_successful_signal_ts,
                                                disk.last_successful_signal_ts}
         /\ disk'.last_successful_signal_ts \in {mem.last_successful_signal_ts,
                                                 disk.last_successful_signal_ts}
  BY DEF SaveOk, SaveRaises

LEMMA HoldKeptNext ==
  ASSUME TypeOK, WindowInv, Next
  PROVE  HoldKept \/ StartRetry \/ Record \/ ExecuteDirty \/ Tick
  <1> DEFINE first == [mem EXCEPT !.first_cycle_ts = now]
             flagged == [mem EXCEPT !.liq_cooldowns =
                            [c \in Coins |-> IF c \in _detect_liquidations
                                             THEN Day ELSE @[c]]]
             known == [flagged EXCEPT !.last_known_positions = Held(pos)]
             held == [mem EXCEPT !.sleeves = Recounted(@)]
             pruned == [mem EXCEPT !.liq_cooldowns =
                           [c \in Coins |-> IF c \in Expired THEN None ELSE @[c]]]
             Base(b) == [mem EXCEPT !.last_rebalanced_target = b]
             clock(s) == s.last_successful_signal_ts
  <1>1. /\ clock(first) = clock(mem) /\ clock(held) = clock(mem)
        /\ clock(flagged) = clock(mem) /\ clock(known) = clock(mem)
        /\ clock(pruned) = clock(mem)
        /\ \A b : clock(Base(b)) = clock(mem)
    BY DEF TypeOK, State
  <1>2. CASE StartDaily
    BY <1>2 DEF StartDaily, HoldKept, Trading, store, watched
  <1>3. CASE SnapshotRaises \/ CombineRaises \/ DeriskRaises
             \/ ExecuteDefers \/ ExecuteAborts
    BY <1>3 DEF SnapshotRaises, CombineRaises, DeriskRaises, ExecuteDefers,
                ExecuteAborts, Raise, Leave, GiveBack, HoldKept, Trading,
                store, history, watched
  <1>4. CASE FetchFrozen \/ \E s \in Sleeves : FetchRejected(s) \/ _fetch_sleeve(s)
    BY <1>4 DEF FetchFrozen, FetchRejected, _fetch_sleeve, Fetched, HoldKept,
                Trading, daemon, store, history, watched
  <1>5. CASE FirstCycle
    <2>1. /\ UNCHANGED <<now, served_at, pos, window>>
          /\ UNCHANGED store \/ SaveOk(first) \/ SaveRaises(first)
          /\ pc' \in {"idle", "snapshot"} /\ mode' \in {mode, "daily"}
      BY <1>5 DEF FirstCycle, Raise, Leave, Goto, GiveBack, daemon, history,
                  watched
    <2> HIDE DEF first
    <2>. QED
      BY <1>1, <2>1, ClockSaved DEF HoldKept, Trading, store
  <1>6. CASE Snapshot
    <2>1. /\ UNCHANGED <<now, served_at, pos, window>>
          /\ pc' \in {"idle", "fetch"} /\ mode' \in {mode, "daily"}
          /\ mem' \in {flagged, known} /\ disk' \in {disk, flagged}
      BY <1>6 DEF Snapshot, SaveRaises, Raise, Leave, GiveBack, daemon
    <2> HIDE DEF flagged, known
    <2>. QED
      BY <1>1, <2>1 DEF HoldKept, Trading
  <1>7. CASE _handle_no_good_signal
    <2>1. /\ UNCHANGED <<now, served_at, pos, window>>
          /\ SaveOk(held) \/ SaveRaises(held)
          /\ pc' \in {"idle", "derisk"} /\ mode' \in {mode, "daily"}
      BY <1>7 DEF _handle_no_good_signal, Raise, Leave, Goto, GiveBack, daemon
    <2> HIDE DEF held
    <2>. QED
      BY <1>1, <2>1, ClockSaved DEF HoldKept, Trading
  <1>8. CASE Plan
    <2>1. /\ UNCHANGED <<now, served_at, pos, window>> /\ Trading
          /\ UNCHANGED store \/ SaveOk(pruned) \/ SaveRaises(pruned)
          /\ \/ pc' = "execute" /\ mode' = mode
             \/ pc' = "idle" /\ mode' = "daily"
      BY <1>8 DEF Plan, Raise, Leave, GiveBack, daemon, store, history, watched,
                  Trading
    <2> HIDE DEF pruned
    <2>. QED
      BY <1>1, <2>1, ClockSaved DEF HoldKept, Trading, store
  <1>9. CASE ExecuteClean \/ DeriskFlatten
    BY <1>9 DEF ExecuteClean, DeriskFlatten, Goto, HoldKept, Trading, daemon,
                store, Held
  <1>10. CASE Commit \/ DeriskReset \/ ExpireWindow
    <2>1. /\ UNCHANGED <<now, served_at, pos>> /\ window' \in {window, None}
          /\ pc' = "idle"
          /\ mode' = "daily" \/ (pc = "idle" /\ mode' = mode)
      BY <1>10 DEF Commit, DeriskReset, ExpireWindow, Raise, Leave, GiveBack,
                   local
    <2>2. \E b : SaveOk(Base(b)) \/ SaveRaises(Base(b))
      BY <1>10 DEF Commit, DeriskReset, ExpireWindow
    <2> HIDE DEF Base
    <2>. QED
      BY <1>1, <2>1, <2>2, ClockSaved DEF HoldKept, Trading, WindowInv
  <1>11. CASE Crash
    BY <1>11 DEF Crash, Leave, HoldKept, Trading
  <1>12. CASE Flatten
    BY <1>12 DEF Flatten, HoldKept, Trading, local, daemon, store
  <1>13. ASSUME NEW c \in Coins, Liquidate(c)
         PROVE  HoldKept
    BY <1>13 DEF Liquidate, HoldKept, Trading, local, daemon, store, Held
  <1>. QED
    BY <1>2, <1>3, <1>4, <1>5, <1>6, <1>7, <1>8, <1>9, <1>10, <1>11, <1>12,
       <1>13 DEF Next

LEMMA ServedTypes ==
  ASSUME TypeOK
  PROVE  /\ now \in Nat /\ Day \in Nat /\ TicksPerDay \in Nat \ {0}
         /\ served_at # None => served_at \in Nat
         /\ now # None
  BY DayType, CycleAssumption, SignalAssumption DEF TypeOK, OrNone, Time

LEMMA RecordHold ==
  ASSUME TypeOK, WindowInv, HoldInv, Record
  PROVE  HoldInv'
  <1> DEFINE recs == Recounted(Records)
             s == [mem EXCEPT !.last_successful_signal_ts = now,
                              !.sleeves = recs]
  <1>1. s.last_successful_signal_ts = now
    BY DEF TypeOK, State
  <1> HIDE DEF s
  <1>2. /\ SaveOk(s) \/ (SaveRaises(s) /\ Raise)
        /\ served_at' = IF mode = "daily" THEN now ELSE served_at
        /\ UNCHANGED <<now, pos, window>> /\ pc = "fetch"
        /\ SaveOk(s) => UNCHANGED mode
        /\ pc' = "plan" => SaveOk(s)
        /\ pc' # "plan" => pc' = "idle" /\ mode' = "daily"
    <2>1. /\ served_at' = IF mode = "daily" THEN now ELSE served_at
          /\ UNCHANGED <<now, pos, window>> /\ pc = "fetch"
      BY DEF Record, AllFetched, daemon, Raise, GiveBack
    <2>2. CASE SaveOk(s) /\ pc' = "plan" /\ UNCHANGED mode
      BY <2>1, <2>2
    <2>3. CASE SaveRaises(s) /\ Raise
      <3>1. faults' # faults
        BY <2>3 DEF SaveRaises, Fault, TypeOK
      <3>2. ~SaveOk(s)
        BY <3>1 DEF SaveOk
      <3>. QED
        BY <2>1, <2>3, <3>2 DEF Raise, Leave
    <2>. QED
      BY <2>2, <2>3 DEF Record, s, recs, Records
  <1>3. mem' = s /\ disk' \in {disk, s} /\ (pc' = "plan" => disk' = s)
    BY <1>2 DEF SaveOk, SaveRaises
  <1>4. served_at' \in Nat /\ served_at' # None /\ served_at' <= now
        /\ now <= served_at' + TicksPerDay - 1
    <2>1. CASE mode = "daily"
      BY <1>2, <2>1, ServedTypes
    <2>2. CASE mode = "retry"
      <3>1. /\ served_at # None /\ served_at \in Nat /\ served_at <= now
            /\ Day <= served_at \div TicksPerDay
        BY <2>2, ServedTypes DEF HoldInv, WindowInv
      <3>2. now <= served_at + TicksPerDay - 1
        BY <3>1, ServedTypes, SameDay DEF Day
      <3>. QED
        BY <1>2, <2>2, <3>1, <3>2
    <2>. QED
      BY <2>1, <2>2 DEF TypeOK
  <1>5. served_at # None => served_at \in Nat /\ served_at <= served_at'
    BY <1>2, ServedTypes DEF HoldInv
  <1>6. /\ now \in Time /\ now \in Nat /\ TicksPerDay \in Nat \ {0}
    BY ServedTypes, DayType DEF TypeOK
  <1>7. Signalled(mem)'
    BY <1>1, <1>3, <1>4, <1>6 DEF Signalled, OrNone
  <1>8. Signalled(disk)'
    <2>1. CASE disk' = s
      BY <1>1, <1>4, <1>6, <2>1 DEF Signalled, OrNone
    <2>2. CASE disk' = disk
      <3> DEFINE ts == disk.last_successful_signal_ts
      <3>1. ts \in OrNone(Time)
        BY DEF HoldInv, Signalled
      <3>2. ts # None => ts \in Nat /\ served_at # None
                         /\ ts <= served_at + TicksPerDay - 1
        BY <3>1 DEF HoldInv, Signalled, OrNone, Time
      <3> HIDE DEF ts
      <3>3. ts # None => ts <= served_at' + TicksPerDay - 1
        BY <1>4, <1>5, <1>6, <3>2
      <3>. QED
        BY <2>2, <3>1, <3>3, <1>4 DEF Signalled, ts
    <2>. QED
      BY <1>3, <2>1, <2>2
  <1>9. (Held(pos) # {} \/ Trading)' =>
           /\ mem'.last_successful_signal_ts # None
           /\ disk'.last_successful_signal_ts # None
    <2>1. mem'.last_successful_signal_ts # None
      BY <1>1, <1>3, ServedTypes
    <2>2. CASE disk' = s
      BY <1>1, <2>1, <2>2, ServedTypes
    <2>3. CASE disk' = disk /\ pc' # "plan"
      <3>1. ~Trading' /\ Held(pos)' = Held(pos)
        BY <1>2, <2>3 DEF Trading, Held
      <3>. QED
        BY <2>1, <2>3, <3>1 DEF HoldInv
    <2>. QED
      BY <1>3, <2>2, <2>3
  <1>10. window' # None =>
            served_at' # None /\ window'.as_of <= served_at' \div TicksPerDay
    <2>1. SUFFICES ASSUME window # None
                   PROVE  window.as_of <= served_at' \div TicksPerDay
      BY <1>2, <1>4
    <2>2. /\ served_at \in Nat /\ served_at' \in Nat /\ served_at <= served_at'
          /\ window.as_of <= served_at \div TicksPerDay
      BY <1>4, <1>5, <2>1 DEF HoldInv
    <2>3. window.as_of \in Nat
      BY <2>1, SignalAssumption DEF TypeOK, OrNone
    <2>4. served_at \div TicksPerDay <= served_at' \div TicksPerDay
          /\ served_at \div TicksPerDay \in Nat
          /\ served_at' \div TicksPerDay \in Nat
      BY <1>6, <2>2, DivMonotone
    <2>. QED
      BY <2>2, <2>3, <2>4
  <1>11. (Trading' /\ mode' = "daily") => served_at' = now'
    BY <1>2 DEF Trading
  <1>12. mode' = "retry" => window'.as_of = Day'
    BY <1>2 DEF HoldInv, Day, TypeOK
  <1>13. served_at' # None => served_at' <= now'
    BY <1>2, <1>4
  <1>. QED
    BY <1>7, <1>8, <1>9, <1>10, <1>11, <1>12, <1>13 DEF HoldInv

LEMMA DirtyHold ==
  ASSUME TypeOK, WindowInv, HoldInv, ExecuteDirty
  PROVE  HoldInv'
  <1>1. /\ UNCHANGED <<now, served_at, mem, disk>> /\ pc = "execute"
        /\ pc' = "idle" /\ mode' = "daily"
        /\ \/ UNCHANGED window
           \/ mode = "daily" /\ window' = [as_of |-> Day, target |-> target]
    BY DEF ExecuteDirty, Leave, store
  <1>2. Signalled(mem)' /\ Signalled(disk)'
    BY <1>1 DEF HoldInv, Signalled
  <1>3. window' # None =>
           served_at' # None /\ window'.as_of <= served_at' \div TicksPerDay
    <2>1. CASE UNCHANGED window
      BY <1>1, <2>1 DEF HoldInv
    <2>2. CASE mode = "daily" /\ window' = [as_of |-> Day, target |-> target]
      <3>1. served_at = now /\ window'.as_of = Day /\ Day \in Nat /\ now # None
        BY <1>1, <2>2, ServedTypes DEF HoldInv, Trading
      <3>. QED
        BY <1>1, <3>1 DEF Day
    <2>. QED
      BY <1>1, <2>1, <2>2
  <1>4. /\ mem'.last_successful_signal_ts # None
        /\ disk'.last_successful_signal_ts # None
    BY <1>1 DEF HoldInv, Trading
  <1>. QED
    BY <1>1, <1>2, <1>3, <1>4 DEF HoldInv, Trading

LEMMA HoldNext ==
  ASSUME TypeOK, WindowInv, HoldInv, [Next]_vars
  PROVE  HoldInv'
  <1>1. CASE HoldKept
    BY <1>1, HoldKeeps
  <1>2. CASE StartRetry
    <2>1. /\ UNCHANGED <<now, served_at, mem, disk, pos, window>>
          /\ window.as_of = Day /\ ~Trading' /\ mode' = "retry"
      BY <1>2 DEF StartRetry, store, history, watched, Trading
    <2>. QED
      BY <2>1 DEF HoldInv, Signalled, Held, Day
  <1>3. CASE Tick
    <2>1. /\ UNCHANGED <<served_at, mem, disk, pos, window, pc, mode>>
          /\ now' = now + 1 /\ pc = "idle"
      BY <1>3 DEF Tick, store, local
    <2>2. served_at # None => served_at <= now'
      BY <2>1, ServedTypes DEF HoldInv
    <2>3. mode # "retry" /\ ~Trading
      BY <2>1 DEF WindowInv, Trading
    <2>. QED
      BY <2>1, <2>2, <2>3 DEF HoldInv, Signalled, Held, Trading
  <1>4. CASE UNCHANGED vars
    BY <1>4 DEF vars, local, store, daemon, history, watched, HoldInv,
                Signalled, Held, Trading, Day
  <1>. QED
    BY <1>1, <1>2, <1>3, <1>4, HoldKeptNext, RecordHold, DirtyHold

\* _handle_no_good_signal and the clock that retry_attempt advances: a cycle
\* that holds positions without a signal holds them for at most
\* max_signal_staleness_days after the last signal, and the rest of the day
\* of that signal (N-3).
THEOREM HoldsEnd == Spec => HoldIsBounded
  <1>1. Init => HoldInv
    <2>1. None \in OrNone(Time)
      BY DEF OrNone
    <2>. QED
      BY <2>1 DEF Init, HoldInv, Signalled, FreshState, Held, AllZero, Trading
  <1> DEFINE Bounded == (/\ AllFetched /\ fresh_served = {} /\ pc' = "idle"
                         /\ faults' = faults
                         /\ served_at # None /\ Held(pos) # {})
                        => now - served_at <= MaxStale + TicksPerDay - 1
  <1>2. ASSUME TypeOK, HoldInv, [Next]_vars
        PROVE  [Bounded]_vars
    <2>1. SUFFICES ASSUME Next, AllFetched, fresh_served = {}, pc' = "idle",
                          faults' = faults, served_at # None, Held(pos) # {}
                   PROVE  now - served_at <= MaxStale + TicksPerDay - 1
      BY <1>2
    <2>2. ~Fault /\ pc = "fetch" /\ \A s \in sleeves_list : fetched[s] # None
      BY <1>2, <2>1 DEF Fault, TypeOK, AllFetched
    <2>3. _handle_no_good_signal
      BY <2>1, <2>2
         DEF Next, StartDaily, StartRetry, FirstCycle, Snapshot, SnapshotRaises,
             FetchRejected, _fetch_sleeve, Fetched, FetchFrozen,
             CombineRaises, Record, Plan, ExecuteDefers, ExecuteAborts,
             ExecuteClean, ExecuteDirty, Commit, DeriskFlatten, DeriskRaises,
             DeriskReset, ExpireWindow, Flatten, Crash, Tick, Liquidate
    <2>4. now - Anchor <= MaxStale
      BY <2>1, <2>2, <2>3 DEF _handle_no_good_signal, SaveRaises, Goto
    <2>5. mem.last_successful_signal_ts # None
      BY <1>2, <2>1 DEF HoldInv
    <2>6. Anchor = mem.last_successful_signal_ts
      BY <2>5 DEF Anchor
    <2>7. Anchor \in Nat /\ Anchor <= served_at + TicksPerDay - 1
      BY <1>2, <2>5, <2>6 DEF HoldInv, Signalled, OrNone, Time
    <2>. QED
      BY <1>2, <2>1, <2>4, <2>7, ServedTypes, CycleAssumption
  <1>. QED
    BY <1>1, <1>2, TypeCorrect, HoldNext, PTL DEF Spec, HoldIsBounded

-----------------------------------------------------------------------------
(***************************************************************************)
(* Cooldowns.  A remembered liquidation is armed: its coin is cooling, or  *)
(* it is still a known position, so that the next snapshot that shows it   *)
(* gone arms the cooldown again.  That also holds of the file, which a     *)
(* crash makes the memory, as long as the file wants the position.         *)
(***************************************************************************)

Wants(t, c) ==
    /\ t.last_rebalanced_target # None
    /\ t.last_rebalanced_target[c] = squeezed[c].dir

Armed(t, c) ==
    \/ /\ t.liq_cooldowns[c] # None
       /\ t.liq_cooldowns[c] >= squeezed[c].day
    \/ /\ t.liq_cooldowns[c] = None
       /\ c \in t.last_known_positions

Early == {"idle", "first", "snapshot"}

\* A liquidation that no snapshot has shown: the evidence is still there.
EvidenceInv ==
    \A c \in Coins : lost[c] # 0 =>
        /\ pc \in Early
        /\ c \in mem.last_known_positions /\ c \in disk.last_known_positions
        /\ mem.liq_cooldowns[c] = None => disk.liq_cooldowns[c] = None

\* Those that were shown.
ArmedInv ==
    \A c \in Coins : squeezed[c] # None =>
        /\ squeezed[c].dir # 0
        /\ squeezed[c].day <= Day /\ Day - squeezed[c].day < CooldownDays
        /\ Wants(mem, c) /\ Armed(mem, c)
        /\ Wants(disk, c) => Armed(disk, c)

BlockedInv ==
    \A c \in Coins : (squeezed[c] # None /\ snap[c] = 0) =>
        /\ pc \in {"fetch", "plan", "execute"} => mem.liq_cooldowns[c] # None
        /\ (pc = "execute" /\ target[c] = squeezed[c].dir) => c \in blocked

CoolInv == EvidenceInv /\ ArmedInv /\ BlockedInv

SameCooling(t, u) ==
    /\ t.last_rebalanced_target = u.last_rebalanced_target
    /\ t.liq_cooldowns = u.liq_cooldowns
    /\ t.last_known_positions = u.last_known_positions

\* Most steps save something else, if they save at all.
CoolKept ==
    /\ UNCHANGED <<now, lost, squeezed>>
    /\ SameCooling(mem', mem)
    /\ SameCooling(disk', disk) \/ SameCooling(disk', mem)
    /\ pc \in Early => pc' \in Early
    /\ \/ pc' \notin {"fetch", "plan", "execute"}
       \/ pc' = pc /\ UNCHANGED <<snap, target, blocked>>
       \/ pc = "fetch" /\ pc' = "plan" /\ UNCHANGED snap

LEMMA CoolKeeps ==
  ASSUME CoolInv, CoolKept
  PROVE  CoolInv'
  <1>1. ASSUME NEW c \in Coins, lost'[c] # 0
        PROVE  /\ pc' \in Early
               /\ c \in mem'.last_known_positions
               /\ c \in disk'.last_known_positions
               /\ mem'.liq_cooldowns[c] = None => disk'.liq_cooldowns[c] = None
    BY <1>1 DEF CoolInv, EvidenceInv, CoolKept, SameCooling
  <1>2. ASSUME NEW c \in Coins, squeezed'[c] # None
        PROVE  /\ squeezed'[c].dir # 0
               /\ squeezed'[c].day <= Day'
               /\ Day' - squeezed'[c].day < CooldownDays
    BY <1>2 DEF CoolInv, ArmedInv, CoolKept, Day
  <1>3. ASSUME NEW c \in Coins, squeezed'[c] # None
        PROVE  /\ Wants(mem, c)' /\ Armed(mem, c)'
               /\ Wants(disk, c)' => Armed(disk, c)'
    <2>1. /\ Wants(mem, c) /\ Armed(mem, c)
          /\ Wants(disk, c) => Armed(disk, c)
          /\ squeezed'[c] = squeezed[c]
      BY <1>3 DEF CoolInv, ArmedInv, CoolKept
    <2>2. Wants(mem, c)' /\ Armed(mem, c)'
      BY <2>1 DEF CoolKept, SameCooling, Wants, Armed
    <2>3. CASE SameCooling(disk', disk)
      BY <2>1, <2>2, <2>3 DEF SameCooling, Wants, Armed
    <2>4. CASE SameCooling(disk', mem)
      BY <2>1, <2>2, <2>4 DEF SameCooling, Wants, Armed
    <2>. QED
      BY <2>2, <2>3, <2>4 DEF CoolKept
  <1>4. BlockedInv'
    BY DEF CoolInv, BlockedInv, CoolKept, SameCooling
  <1>. QED
    BY <1>1, <1>2, <1>3, <1>4 DEF CoolInv, EvidenceInv, ArmedInv

\* A save of something else.
LEMMA CoolSaved ==
  ASSUME NEW s, SaveOk(s) \/ SaveRaises(s), SameCooling(s, mem)
  PROVE  /\ SameCooling(mem', mem)
         /\ SameCooling(disk', disk) \/ SameCooling(disk', mem)
  BY DEF SaveOk, SaveRaises, SameCooling

LEMMA CoolKeptNext ==
  ASSUME TypeOK, Next
  PROVE  \/ CoolKept \/ Snapshot \/ Plan \/ Commit \/ DeriskReset
         \/ ExpireWindow \/ Crash \/ Tick \/ \E c \in Coins : Liquidate(c)
  <1> DEFINE first == [mem EXCEPT !.first_cycle_ts = now]
             held == [mem EXCEPT !.sleeves = Recounted(@)]
             recorded == [mem EXCEPT !.last_successful_signal_ts = now,
                                     !.sleeves = Recounted(Records)]
  <1>1. /\ SameCooling(first, mem) /\ SameCooling(held, mem)
        /\ SameCooling(recorded, mem)
    BY DEF TypeOK, State, SameCooling
  <1>2. CASE StartDaily \/ StartRetry
    BY <1>2 DEF StartDaily, StartRetry, CoolKept, SameCooling, Early, store,
                history, watched
  <1>3. CASE SnapshotRaises \/ CombineRaises \/ DeriskRaises
             \/ ExecuteDefers \/ ExecuteAborts
    BY <1>3 DEF SnapshotRaises, CombineRaises, DeriskRaises, ExecuteDefers,
                ExecuteAborts, Raise, Leave, CoolKept, SameCooling, Early,
                store, history, watched
  <1>4. CASE FetchFrozen \/ \E s \in Sleeves : FetchRejected(s) \/ _fetch_sleeve(s)
    BY <1>4 DEF FetchFrozen, FetchRejected, _fetch_sleeve, Fetched, CoolKept,
                SameCooling, store, history, watched
  <1>5. CASE FirstCycle
    <2>1. /\ UNCHANGED <<now, lost, squeezed>> /\ pc' \in {"idle", "snapshot"}
          /\ UNCHANGED store \/ SaveOk(first) \/ SaveRaises(first)
      BY <1>5 DEF FirstCycle, Raise, Leave, Goto, history, watched
    <2>2. /\ SameCooling(mem', mem)
          /\ SameCooling(disk', disk) \/ SameCooling(disk', mem)
      <3>1. CASE UNCHANGED store
        BY <3>1 DEF SameCooling, store
      <3> HIDE DEF first
      <3>2. CASE SaveOk(first) \/ SaveRaises(first)
        BY <1>1, <3>2, CoolSaved
      <3>. QED
        BY <2>1, <3>1, <3>2
    <2>. QED
      BY <2>1, <2>2 DEF CoolKept, Early
  <1>6. CASE _handle_no_good_signal
    <2>1. /\ UNCHANGED <<now, lost, squeezed>> /\ pc' \in {"idle", "derisk"}
          /\ pc = "fetch" /\ (SaveOk(held) \/ SaveRaises(held))
      BY <1>6 DEF _handle_no_good_signal, AllFetched, Raise, Leave, Goto
    <2> HIDE DEF held
    <2>. QED
      BY <1>1, <2>1, CoolSaved DEF CoolKept, Early
  <1>7. CASE Record
    <2>1. /\ UNCHANGED <<now, lost, squeezed>> /\ pc = "fetch"
          /\ SaveOk(recorded) \/ SaveRaises(recorded)
          /\ pc' = "idle" \/ (pc' = "plan" /\ UNCHANGED snap)
      BY <1>7 DEF Record, AllFetched, Raise, Leave, Records
    <2> HIDE DEF recorded
    <2>. QED
      BY <1>1, <2>1, CoolSaved DEF CoolKept, Early
  <1>8. CASE ExecuteClean \/ ExecuteDirty \/ DeriskFlatten
    BY <1>8 DEF ExecuteClean, ExecuteDirty, DeriskFlatten, Goto, Leave, CoolKept,
                SameCooling, Early, store
  <1>9. CASE Flatten
    BY <1>9 DEF Flatten, CoolKept, SameCooling, Early, local, store
  <1>. QED
    BY <1>2, <1>3, <1>4, <1>5, <1>6, <1>7, <1>8, <1>9 DEF Next

\* A new baseline: what it does not want is no longer remembered.
LEMMA RebasedCool ==
  ASSUME TypeOK, CoolInv, Commit \/ DeriskReset \/ ExpireWindow
  PROVE  CoolInv'
  <1> DEFINE Base(b) == [mem EXCEPT !.last_rebalanced_target = b]
  <1>1. PICK b : /\ SaveOk(Base(b)) \/ SaveRaises(Base(b))
                 /\ squeezed' = Remembered(Base(b))
    BY DEF Commit, DeriskReset, ExpireWindow
  <1>2. /\ Base(b).last_rebalanced_target = b
        /\ Base(b).liq_cooldowns = mem.liq_cooldowns
        /\ Base(b).last_known_positions = mem.last_known_positions
    BY DEF TypeOK, State
  <1> HIDE DEF Base
  <1>3. mem' = Base(b) /\ disk' \in {disk, Base(b)}
    BY <1>1 DEF SaveOk, SaveRaises
  <1>4. UNCHANGED <<now, lost>> /\ pc' = "idle"
    BY DEF Commit, DeriskReset, ExpireWindow, Raise, Leave, local
  <1>5. ASSUME NEW c \in Coins, squeezed'[c] # None
        PROVE  /\ squeezed'[c] = squeezed[c] /\ squeezed[c] # None
               /\ b # None /\ b[c] = squeezed[c].dir
    BY <1>1, <1>2, <1>5 DEF Remembered
  <1>6. EvidenceInv'
    BY <1>2, <1>3, <1>4 DEF CoolInv, EvidenceInv, Early
  <1>7. ASSUME NEW c \in Coins, squeezed'[c] # None
        PROVE  /\ Wants(mem, c)' /\ Armed(mem, c)'
               /\ Wants(disk, c)' => Armed(disk, c)'
    <2>1. /\ Armed(mem, c)
          /\ Wants(disk, c) => Armed(disk, c)
          /\ squeezed'[c] = squeezed[c]
      BY <1>5, <1>7 DEF CoolInv, ArmedInv
    <2>2. Wants(mem, c)' /\ Armed(mem, c)'
      BY <1>2, <1>3, <1>5, <1>7, <2>1 DEF Wants, Armed
    <2>3. CASE disk' = disk
      BY <2>1, <2>2, <2>3 DEF Wants, Armed
    <2>4. CASE disk' = mem'
      BY <2>2, <2>4 DEF Wants, Armed
    <2>. QED
      BY <1>3, <2>2, <2>3, <2>4
  <1>8. ArmedInv'
    BY <1>4, <1>5, <1>7 DEF CoolInv, ArmedInv, Day
  <1>9. BlockedInv'
    BY <1>4 DEF BlockedInv
  <1>. QED
    BY <1>6, <1>8, <1>9 DEF CoolInv

LEMMA CrashCool ==
  ASSUME TypeOK, CoolInv, Crash
  PROVE  CoolInv'
  <1>1. /\ mem' = disk /\ squeezed' = Remembered(disk) /\ pc' = "idle"
        /\ UNCHANGED <<now, disk, lost>>
    BY DEF Crash, Leave
  <1>2. ASSUME NEW c \in Coins, squeezed'[c] # None
        PROVE  /\ squeezed'[c] = squeezed[c] /\ squeezed[c] # None
               /\ Wants(disk, c) /\ Armed(disk, c)
    BY <1>1, <1>2 DEF Remembered, Wants, CoolInv, ArmedInv
  <1>3. ASSUME NEW c \in Coins, squeezed'[c] # None
        PROVE  /\ Wants(mem, c)' /\ Armed(mem, c)' /\ Armed(disk, c)'
    BY <1>1, <1>2, <1>3 DEF Wants, Armed
  <1>4. ArmedInv'
    BY <1>1, <1>2, <1>3 DEF CoolInv, ArmedInv, Day
  <1>. QED
    BY <1>1, <1>4 DEF CoolInv, EvidenceInv, BlockedInv, Early

LEMMA LiquidateCool ==
  ASSUME TypeOK, CoolInv, NEW c \in Coins, Liquidate(c)
  PROVE  CoolInv'
  <1>1. /\ UNCHANGED <<now, squeezed, local, store>>
        /\ lost' = IF Evidence(c) THEN [lost EXCEPT ![c] = pos[c]] ELSE lost
    BY DEF Liquidate
  <1>2. EvidenceInv'
    <2>1. ASSUME NEW d \in Coins, lost'[d] # 0
          PROVE  /\ pc \in Early
                 /\ d \in mem.last_known_positions
                 /\ d \in disk.last_known_positions
                 /\ mem.liq_cooldowns[d] = None => disk.liq_cooldowns[d] = None
      <3>1. CASE d = c /\ Evidence(c)
        BY <3>1 DEF Evidence, Early
      <3>2. CASE ~(d = c /\ Evidence(c))
        <4>1. lost[d] # 0
          BY <1>1, <2>1, <3>2 DEF TypeOK, Book
        <4>. QED
          BY <4>1 DEF CoolInv, EvidenceInv
      <3>. QED
        BY <3>1, <3>2
    <2>. QED
      BY <1>1, <2>1 DEF EvidenceInv, local, store
  <1>3. ArmedInv' /\ BlockedInv'
    BY <1>1 DEF CoolInv, ArmedInv, BlockedInv, Wants, Armed, Day, local, store
  <1>. QED
    BY <1>2, <1>3 DEF CoolInv

LEMMA DateTypes ==
  ASSUME TypeOK, NEW c \in Coins
  PROVE  /\ squeezed[c] # None =>
               squeezed[c].day \in Nat /\ squeezed[c].dir \in Sign
         /\ mem.liq_cooldowns[c] # None => mem.liq_cooldowns[c] \in Nat
         /\ Day \in Nat /\ CooldownDays \in Nat
  <1>1. squeezed[c] \in OrNone([dir : Sign, day : AsOf])
    BY DEF TypeOK
  <1>2. mem.liq_cooldowns[c] \in OrNone(AsOf)
    BY DEF TypeOK, State
  <1>3. AsOf \subseteq Nat
    BY SignalAssumption
  <1>. QED
    BY <1>1, <1>2, <1>3, DayType, CycleAssumption DEF TypeOK, OrNone

LEMMA TickCool ==
  ASSUME TypeOK, CoolInv, Tick
  PROVE  CoolInv'
  <1>1. /\ UNCHANGED <<lost, local, store>> /\ pc = "idle" /\ now' = now + 1
        /\ squeezed' = [c \in Coins |->
              IF /\ squeezed[c] # None
                 /\ (now + 1) \div TicksPerDay - squeezed[c].day >= CooldownDays
              THEN None ELSE squeezed[c]]
    BY DEF Tick
  <1>2. Day <= Day' /\ Day' \in Nat /\ Day' = (now + 1) \div TicksPerDay
    <2>1. /\ now \in Nat /\ now + 1 \in Nat /\ now <= now + 1
          /\ TicksPerDay \in Nat \ {0}
      BY ServedTypes
    <2>2. /\ (now + 1) \div TicksPerDay \in Nat
          /\ now \div TicksPerDay <= (now + 1) \div TicksPerDay
      BY <2>1, DivMonotone
    <2>. QED
      BY <1>1, <2>2 DEF Day
  <1>3. ASSUME NEW c \in Coins, squeezed'[c] # None
        PROVE  /\ squeezed'[c] = squeezed[c] /\ squeezed[c] # None
               /\ ~(Day' - squeezed[c].day >= CooldownDays)
    BY <1>1, <1>2, <1>3
  <1>4. ASSUME NEW c \in Coins, squeezed'[c] # None
        PROVE  /\ squeezed'[c].dir # 0
               /\ squeezed'[c].day <= Day' /\ Day' - squeezed'[c].day < CooldownDays
               /\ Wants(mem, c)' /\ Armed(mem, c)'
               /\ Wants(disk, c)' => Armed(disk, c)'
    <2>1. /\ squeezed'[c] = squeezed[c] /\ squeezed[c] # None
          /\ ~(Day' - squeezed[c].day >= CooldownDays)
          /\ squeezed[c].day \in Nat /\ CooldownDays \in Nat /\ Day \in Nat
      BY <1>3, <1>4, DateTypes
    <2>2. /\ squeezed[c].dir # 0 /\ squeezed[c].day <= Day
          /\ Wants(mem, c) /\ Armed(mem, c)
          /\ Wants(disk, c) => Armed(disk, c)
      BY <2>1 DEF CoolInv, ArmedInv
    <2>3. /\ squeezed[c].day <= Day' /\ Day' - squeezed[c].day < CooldownDays
      BY <1>2, <2>1, <2>2
    <2>4. /\ Wants(mem, c)' /\ Armed(mem, c)'
          /\ Wants(disk, c)' => Armed(disk, c)'
      BY <1>1, <2>1, <2>2 DEF Wants, Armed, store
    <2>. QED
      BY <2>1, <2>2, <2>3, <2>4
  <1>5. ArmedInv'
    BY <1>4 DEF ArmedInv
  <1>6. EvidenceInv' /\ BlockedInv'
    BY <1>1 DEF CoolInv, EvidenceInv, BlockedInv, Early, local, store
  <1>. QED
    BY <1>5, <1>6 DEF CoolInv

\* What is remembered has not expired, so the plan prunes none of it.
LEMMA NotExpired ==
  ASSUME TypeOK, CoolInv, NEW c \in Coins, squeezed[c] # None
  PROVE  c \notin Expired
  <1>1. SUFFICES ASSUME mem.liq_cooldowns[c] # None
                 PROVE  ~(Day - mem.liq_cooldowns[c] >= CooldownDays)
    BY DEF Expired, Cooling
  <1>2. /\ mem.liq_cooldowns[c] >= squeezed[c].day
        /\ Day - squeezed[c].day < CooldownDays
    BY <1>1 DEF CoolInv, ArmedInv, Armed
  <1>. QED
    BY <1>1, <1>2, DateTypes

LEMMA PlanCool ==
  ASSUME TypeOK, CoolInv, Plan
  PROVE  CoolInv'
  <1> DEFINE cds == [c \in Coins |-> IF c \in Expired THEN None
                                     ELSE mem.liq_cooldowns[c]]
             pruned == [mem EXCEPT !.liq_cooldowns = cds]
  <1>1. ASSUME NEW c \in Coins, squeezed[c] # None
        PROVE  cds[c] = mem.liq_cooldowns[c]
    BY <1>1, NotExpired
  <1> HIDE DEF cds
  <1>2. /\ pruned.last_rebalanced_target = mem.last_rebalanced_target
        /\ pruned.liq_cooldowns = cds
        /\ pruned.last_known_positions = mem.last_known_positions
    BY DEF TypeOK, State
  <1> HIDE DEF pruned
  <1>3. /\ mem' \in {mem, pruned} /\ disk' \in {disk, mem'}
        /\ UNCHANGED <<now, lost, squeezed>> /\ pc = "plan"
        /\ pc' = "idle"
           \/ (/\ pc' = "execute" /\ blocked' = _cooldown_blocked_set
               /\ UNCHANGED <<snap, target>>)
    BY DEF Plan, SaveOk, SaveRaises, Raise, Leave, store, history, watched,
           pruned, cds
  <1>4. \A c \in Coins : lost[c] = 0
    BY <1>3 DEF CoolInv, EvidenceInv, Early
  <1>5. ASSUME NEW c \in Coins, squeezed[c] # None
        PROVE  /\ mem'.last_rebalanced_target = mem.last_rebalanced_target
               /\ mem'.liq_cooldowns[c] = mem.liq_cooldowns[c]
               /\ mem'.last_known_positions = mem.last_known_positions
    BY <1>1, <1>2, <1>3, <1>5
  <1>6. ASSUME NEW c \in Coins, squeezed'[c] # None
        PROVE  /\ Wants(mem, c)' /\ Armed(mem, c)'
               /\ Wants(disk, c)' => Armed(disk, c)'
    <2>1. /\ squeezed[c] # None /\ squeezed'[c] = squeezed[c]
          /\ Wants(mem, c) /\ Armed(mem, c)
          /\ Wants(disk, c) => Armed(disk, c)
      BY <1>3, <1>6 DEF CoolInv, ArmedInv
    <2>2. Wants(mem, c)' /\ Armed(mem, c)'
      BY <1>5, <2>1 DEF Wants, Armed
    <2>3. CASE disk' = disk
      BY <2>1, <2>2, <2>3 DEF Wants, Armed
    <2>4. CASE disk' = mem'
      BY <2>2, <2>4 DEF Wants, Armed
    <2>. QED
      BY <1>3, <2>2, <2>3, <2>4
  <1>7. ArmedInv' /\ EvidenceInv'
    BY <1>3, <1>4, <1>6 DEF CoolInv, ArmedInv, EvidenceInv, Day
  <1>8. ASSUME NEW c \in Coins, squeezed'[c] # None, snap'[c] = 0,
               pc' = "execute"
        PROVE  /\ mem'.liq_cooldowns[c] # None
               /\ target'[c] = squeezed'[c].dir => c \in blocked'
    <2>1. /\ squeezed[c] # None /\ snap[c] = 0 /\ squeezed'[c] = squeezed[c]
          /\ target' = target /\ blocked' = _cooldown_blocked_set
      BY <1>3, <1>8
    <2>2. mem.liq_cooldowns[c] # None
      BY <1>3, <2>1 DEF CoolInv, BlockedInv
    <2>3. /\ c \in Cooling \ Expired
          /\ squeezed[c].dir # 0 /\ Baseline[c] = squeezed[c].dir
      BY <2>1, <2>2, NotExpired DEF Cooling, CoolInv, ArmedInv, Wants, Baseline
    <2>. QED
      BY <1>5, <2>1, <2>2, <2>3 DEF _cooldown_blocked_set
  <1>9. BlockedInv'
    BY <1>3, <1>8 DEF BlockedInv
  <1>. QED
    BY <1>7, <1>9 DEF CoolInv

LEMMA SnapshotCool ==
  ASSUME TypeOK, CoolInv, Snapshot
  PROVE  CoolInv'
  <1> DEFINE new == _detect_liquidations
             cds == [c \in Coins |-> IF c \in new THEN Day
                                     ELSE mem.liq_cooldowns[c]]
             flagged == [mem EXCEPT !.liq_cooldowns = cds]
             known == [flagged EXCEPT !.last_known_positions = Held(pos)]
  <1>1. \A c \in Coins : cds[c] = IF c \in new THEN Day
                                  ELSE mem.liq_cooldowns[c]
    OBVIOUS
  <1> HIDE DEF cds
  <1>2. /\ flagged.last_rebalanced_target = mem.last_rebalanced_target
        /\ flagged.liq_cooldowns = cds
        /\ flagged.last_known_positions = mem.last_known_positions
        /\ known.last_rebalanced_target = mem.last_rebalanced_target
        /\ known.liq_cooldowns = cds
        /\ known.last_known_positions = Held(pos)
    BY DEF TypeOK, State
  <1> HIDE DEF flagged, known
  <1>3. /\ \/ /\ mem' = known /\ disk' = IF new = {} THEN disk ELSE flagged
              /\ pc' = "fetch" /\ snap' = pos /\ lost' = AllZero
           \/ /\ mem' = flagged /\ disk' = disk /\ pc' = "idle" /\ lost' = lost
        /\ now' = now /\ squeezed' = Noticed
    BY DEF Snapshot, SaveRaises, Raise, Leave, flagged, known, cds
  <1>4. ASSUME NEW c \in Coins
        PROVE  /\ c \in new => /\ mem.liq_cooldowns[c] = None
                               /\ cds[c] = Day /\ Day # None /\ Day \in Nat
               /\ c \notin new => cds[c] = mem.liq_cooldowns[c]
               /\ (pos[c] = 0 /\ Baseline[c] # 0 /\ mem.liq_cooldowns[c] = None
                    /\ c \in mem.last_known_positions) => c \in new
    BY <1>1, DayType, SignalAssumption DEF _detect_liquidations, TypeOK
  <1> HIDE DEF new
  \* What this snapshot shows, and what an earlier one did.
  <1>5. ASSUME NEW c \in Coins, squeezed'[c] # None
        PROVE  /\ squeezed'[c].dir # 0 /\ squeezed'[c].day <= Day
               /\ Day - squeezed'[c].day < CooldownDays
               /\ mem.last_rebalanced_target # None
               /\ mem.last_rebalanced_target[c] = squeezed'[c].dir
               /\ \/ /\ mem.liq_cooldowns[c] # None
                     /\ mem.liq_cooldowns[c] >= squeezed'[c].day
                  \/ /\ mem.liq_cooldowns[c] = None
                     /\ c \in mem.last_known_positions
               /\ Wants(disk, c)' /\ disk' = disk => Armed(disk, c)'
    <2>1. CASE squeezed'[c] = squeezed[c]
      <3>1. /\ squeezed[c].dir # 0 /\ squeezed[c].day <= Day
            /\ Day - squeezed[c].day < CooldownDays
            /\ Wants(mem, c) /\ Armed(mem, c)
            /\ Wants(disk, c) => Armed(disk, c)
        BY <1>5, <2>1 DEF CoolInv, ArmedInv
      <3>. QED
        BY <2>1, <3>1 DEF Wants, Armed
    <2>2. CASE squeezed'[c] # squeezed[c]
      <3>1. /\ squeezed'[c] = [dir |-> lost[c], day |-> Day]
            /\ lost[c] # 0 /\ Baseline[c] = lost[c]
            /\ mem.liq_cooldowns[c] = None /\ CooldownDays > 0
        BY <1>3, <2>2 DEF Noticed
      <3>2. /\ c \in mem.last_known_positions /\ c \in disk.last_known_positions
            /\ disk.liq_cooldowns[c] = None
        BY <3>1 DEF CoolInv, EvidenceInv
      <3>3. /\ mem.last_rebalanced_target # None
            /\ mem.last_rebalanced_target[c] = lost[c]
        BY <3>1 DEF Baseline, AllZero
      <3>4. Day \in Nat /\ CooldownDays \in Nat
        BY DateTypes
      <3>. QED
        BY <3>1, <3>2, <3>3, <3>4 DEF Wants, Armed
    <2>. QED
      BY <2>1, <2>2
  \* A cooldown is armed now, was before, or the position is still held.
  <1>6. ASSUME NEW c \in Coins, squeezed'[c] # None
        PROVE  /\ cds[c] # None => cds[c] >= squeezed'[c].day
               /\ cds[c] = None => c \in mem.last_known_positions /\ pos[c] # 0
    <2>1. Baseline[c] # 0
      BY <1>5, <1>6 DEF Baseline
    <2>2. squeezed'[c].day \in Int
      <3>1. squeezed'[c] \in OrNone([dir : Sign, day : AsOf])
        BY <1>3, NoticedTypes
      <3>2. squeezed'[c].day \in AsOf
        BY <1>6, <3>1 DEF OrNone
      <3>3. \A d \in AsOf : d \in Int
        BY SignalAssumption
      <3>. QED
        BY <3>2, <3>3
    <2>. QED
      BY <1>4, <1>5, <1>6, <2>1, <2>2
  <1>7. ASSUME NEW c \in Coins, squeezed'[c] # None
        PROVE  /\ Wants(mem, c)' /\ Armed(mem, c)'
               /\ Wants(disk, c)' => Armed(disk, c)'
    <2>1. c \in Held(pos) <=> pos[c] # 0
      BY DEF Held
    <2>2. Wants(mem, c)'
      BY <1>2, <1>3, <1>5, <1>7 DEF Wants
    <2>3. Armed(mem, c)'
      <3>1. CASE mem' = known
        BY <1>2, <1>6, <1>7, <2>1, <3>1 DEF Armed
      <3>2. CASE mem' = flagged
        BY <1>2, <1>6, <1>7, <3>2 DEF Armed
      <3>. QED
        BY <1>3, <3>1, <3>2
    <2>4. CASE disk' = disk
      BY <1>5, <1>7, <2>2, <2>3, <2>4
    <2>5. CASE disk' = flagged
      BY <1>2, <1>6, <1>7, <2>2, <2>3, <2>5 DEF Armed
    <2>. QED
      BY <1>3, <2>2, <2>3, <2>4, <2>5
  <1>8. ArmedInv'
    BY <1>3, <1>5, <1>7 DEF ArmedInv, Day
  <1>9. EvidenceInv'
    <2>1. CASE lost' = AllZero
      BY <2>1 DEF EvidenceInv, AllZero
    <2>2. CASE /\ mem' = flagged /\ disk' = disk /\ pc' = "idle"
               /\ lost' = lost
      BY <1>2, <1>4, <2>2 DEF CoolInv, EvidenceInv, Early
    <2>. QED
      BY <1>3, <2>1, <2>2
  <1>10. BlockedInv'
    <2>1. ASSUME NEW c \in Coins, squeezed'[c] # None, snap'[c] = 0,
                 pc' \in {"fetch", "plan", "execute"}
          PROVE  mem'.liq_cooldowns[c] # None /\ pc' = "fetch"
      BY <1>2, <1>3, <1>6, <2>1
    <2>. QED
      BY <2>1 DEF BlockedInv
  <1>. QED
    BY <1>8, <1>9, <1>10 DEF CoolInv

LEMMA CoolNext ==
  ASSUME TypeOK, CoolInv, [Next]_vars
  PROVE  CoolInv'
  <1>1. CASE CoolKept
    BY <1>1, CoolKeeps
  <1>2. CASE Snapshot \/ Plan \/ Crash \/ Tick
    BY <1>2, SnapshotCool, PlanCool, CrashCool, TickCool
  <1>3. CASE Commit \/ DeriskReset \/ ExpireWindow
    BY <1>3, RebasedCool
  <1>4. CASE \E c \in Coins : Liquidate(c)
    BY <1>4, LiquidateCool
  <1>5. CASE UNCHANGED vars
    BY <1>5 DEF vars, local, store, history, watched, CoolInv, EvidenceInv,
                ArmedInv, BlockedInv, Wants, Armed, Day
  <1>. QED
    BY <1>1, <1>2, <1>3, <1>4, <1>5, CoolKeptNext

\* _detect_liquidations, _cooldown_blocked_set and the saves between them: a
\* position the venue took between two cycles is not opened again in its
\* direction during its cooldown by a cycle that sees it gone, though saves of
\* the cooldown fail and crashes undo it (M3).
THEOREM LiquidatedStaysOut == Spec => NoReentry
  <1>1. Init => CoolInv
    BY DEF Init, CoolInv, EvidenceInv, ArmedInv, BlockedInv, AllZero
  <1> DEFINE Stays == (pc = "execute" /\ faults' = faults) =>
                         \A c \in Coins :
                            (/\ squeezed[c] # None
                             /\ snap[c] = 0 /\ pos[c] = 0)
                            => pos'[c] # squeezed[c].dir
  <1>2. ASSUME TypeOK, CoolInv, [Next]_vars
        PROVE  [Stays]_vars
    <2>1. SUFFICES ASSUME Next, pc = "execute", faults' = faults,
                          NEW c \in Coins, squeezed[c] # None,
                          snap[c] = 0, pos[c] = 0
                   PROVE  pos'[c] # squeezed[c].dir
      BY <1>2
    <2>2. squeezed[c].dir # 0
      BY <1>2, <2>1 DEF CoolInv, ArmedInv
    <2>3. target[c] = squeezed[c].dir => c \in blocked
      BY <1>2, <2>1 DEF CoolInv, BlockedInv
    <2>4. Goal[c] # squeezed[c].dir
      BY <2>1, <2>2, <2>3 DEF Goal, effective_weights
    <2>. QED
      BY <1>2, <2>1, <2>2, <2>4, OrdersOnly
  <1>. QED
    BY <1>1, <1>2, TypeCorrect, CoolNext, PTL DEF Spec, NoReentry
=============================================================================
