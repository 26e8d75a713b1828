----------------------------- MODULE WriteAhead -----------------------------
(***************************************************************************)
(* What an intent ledger promises about orders: a durable log that knows   *)
(* of every order before the venue does.                                   *)
(***************************************************************************)
CONSTANT Cloid

VARIABLES
    log,     \* the durable status of every id
    sent     \* ids submitted to the venue

Init ==
    /\ log = [c \in Cloid |-> "ABSENT"]
    /\ sent = {}

\* A write may add intents, all PENDING, and settle sent ones; it forgets none.
Settles(c) == log[c] = "PENDING" /\ log'[c] = "DONE" /\ c \in sent
Adds(c) == log[c] = "ABSENT" /\ log'[c] = "PENDING"

Write ==
    /\ log' \in [Cloid -> {"ABSENT", "PENDING", "DONE"}]
    /\ \A c \in Cloid : log'[c] = log[c] \/ Adds(c) \/ Settles(c)
    /\ UNCHANGED sent

Send ==
    /\ \E c \in Cloid \ sent : log[c] = "PENDING" /\ sent' = sent \union {c}
    /\ UNCHANGED log

Next == Write \/ Send

Spec == Init /\ [][Next]_<<log, sent>>
=============================================================================
