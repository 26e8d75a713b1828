------------------------------ MODULE MCCycle ------------------------------
EXTENDS Cycle

CONSTANTS btc, ton, long, short, default

Names == [s \in {long, short} |-> IF s = long THEN 1 ELSE 2]
StaleAfter == [s \in {long, short} |-> 2]
Disjoint == [s \in {long, short} |-> IF s = long THEN {btc} ELSE {ton}]
Overlapping == [s \in {long, short} |-> {btc}]
MayOverlap == {Disjoint, Overlapping}
LongAndShort ==
    [s \in {long, short} |-> IF s = long THEN {1} ELSE {-1, 1}]
Days == 0 .. LastTick \div TicksPerDay
=============================================================================
