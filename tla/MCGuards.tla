------------------------------ MODULE MCGuards ------------------------------
EXTENDS Guards

CONSTANTS btc, ton

\* btc: a short of one, or a long of two that can be filled by halves, in the
\* wrong mode or the right one.  ton: the coin that is stuck.
Positions == [c \in {btc, ton} |-> IF c = btc THEN {-1, 2} ELSE {1}]
Leverages ==
    [c \in {btc, ton} |->
        {[type |-> "isolated", value |-> 1]} \union
        IF c = btc THEN {[type |-> "cross", value |-> 2]} ELSE {}]
=============================================================================
