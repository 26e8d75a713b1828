------------------------------ MODULE MCSizer ------------------------------
EXTENDS Sizer

CONSTANTS btc, hype

\* btc is a perp, wanted long or short; hype is held on spot.  11 and 8 are
\* above the cap together; 10 and 11 are less than the threshold apart.
LongShort ==
    {w \in [{btc, hype} -> {-10, 0, 8, 10, 11}] :
        \/ w[hype] = 8 /\ w[btc] \in {-10, 10, 11}
        \/ w[hype] = 0 /\ w[btc] \in {-10, 0}}
TwoPrices == [c \in {btc, hype} |-> IF c = btc THEN {2, 3} ELSE {4}]
LeftBehind == [c \in {btc, hype} |-> IF c = btc THEN {-25, -1, 0} ELSE {0, 7}]
=============================================================================
