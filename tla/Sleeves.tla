------------------------------ MODULE Sleeves ------------------------------
(***************************************************************************)
(* automation/allocation/sleeves.py: what becomes of a sleeve in a cycle,  *)
(* and how the sleeves of a cycle become one target.                       *)
(*                                                                         *)
(* A weight is its sign: every weight has the same size, above all         *)
(* thresholds.  A book is a weight for every coin, 0 where the sleeve's    *)
(* dict has no entry; which coins have entries is the set the operators    *)
(* take beside the books.                                                  *)
(***************************************************************************)
EXTENDS Integers, FiniteSets

CONSTANTS
    Coins,
    Sleeves,    \* the configured sleeves
    Short       \* those with allow_short

ASSUME SleevesAssumption ==
    /\ IsFiniteSet(Sleeves)
    /\ Short \subseteq Sleeves

Sign == {-1, 0, 1}
Book == [Coins -> Sign]
AllZero == [c \in Coins |-> 0]

_sign(x) == CHOOSE d \in Sign : d * x > 0 \/ (x = 0 /\ d = 0)

Statuses == {"fresh", "hold", "stale"}

\* Mutant: a short sleeve is frozen as long as a long one.
resolve_outcome_NeverFast(served_ok, allow_short, consecutive_holds, within) ==
    CASE served_ok -> [status |-> "fresh", holds |-> 0]
      [] ~served_ok /\ within ->
             [status |-> "hold", holds |-> consecutive_holds + 1]
      [] ~served_ok /\ ~within ->
             [status |-> "stale", holds |-> consecutive_holds]

\* A sleeve without a signal is frozen inside its staleness window and sold
\* outside it; a short sleeve is sold from its second hold on.
resolve_outcome(served_ok, allow_short, consecutive_holds, within) ==
    LET fast == allow_short /\ consecutive_holds + 1 >= 2
    IN  CASE served_ok -> [status |-> "fresh", holds |-> 0]
          [] ~served_ok /\ within ->
                 [status |-> IF fast THEN "stale" ELSE "hold",
                  holds  |-> consecutive_holds + 1]
          [] ~served_ok /\ ~within ->
                 [status |-> "stale", holds |-> consecutive_holds]

\* Mutant: the weights are not scaled by the sleeves' budgets.
combine_sleeves_Unscaled(fresh, books) ==
    [c \in Coins |-> Cardinality({s \in fresh : books[s][c] = 1})
                     - Cardinality({s \in fresh : books[s][c] = -1})]

\* The signed sum of the fresh books.
combine_sleeves(fresh, books) ==
    [c \in Coins |-> _sign(Cardinality({s \in fresh : books[s][c] = 1})
                           - Cardinality({s \in fresh : books[s][c] = -1}))]

\* Coins with an entry in a book of a frozen sleeve, and in a fresh book.
frozen_coins(held, entries) == UNION {entries[s] : s \in held}
combined_coins(fresh, entries) == UNION {entries[s] : s \in fresh}
=============================================================================
