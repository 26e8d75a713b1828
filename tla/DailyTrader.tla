----------------------------- MODULE DailyTrader -----------------------------
(***************************************************************************)
(* What the daemon promises, whatever crashes, restarts and failed writes  *)
(* happen in between: the daily cycle sends orders at most once for a day  *)
(* and for days in increasing order, and the durable baseline the next     *)
(* cycle measures drift against only ever becomes the target of the newest *)
(* day traded, or cash.                                                    *)
(***************************************************************************)
EXTENDS Naturals

CONSTANTS None, Cash

VARIABLES
    latest,   \* newest as_of whose daily cycle sent orders
    trades,   \* how many daily cycles sent orders
    baseline  \* as_of of the target last recorded as held, or Cash

Before(a, b) == a = None \/ a < b

Init == latest = None /\ trades = 0 /\ baseline = None

\* Send the orders of a new day.
Trade ==
    /\ trades' = trades + 1
    /\ latest' \in Nat /\ Before(latest, latest')
    /\ UNCHANGED baseline

\* Record the newest target as the one held.
Record ==
    /\ latest # None
    /\ baseline' = latest
    /\ UNCHANGED <<latest, trades>>

\* Give up on the signal and hold cash.
Derisk == baseline' = Cash /\ UNCHANGED <<latest, trades>>

Next == Trade \/ Record \/ Derisk

Spec == Init /\ [][Next]_<<latest, trades, baseline>>
=============================================================================
