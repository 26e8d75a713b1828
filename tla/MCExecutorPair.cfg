SPECIFICATION FairSpec
CONSTANTS
    Coin = {btc, hype}
    Spot = {hype}
    btc = btc
    hype = hype
    Cloid <- ExecCloid
    MaxSize = 2
    MinSize = 1
    MaxAttempts = 2
    CapPerCoin = 2
    CapTotal = 3
    CapTurnover = 4
    Gates <- Any
    MaxCycles = 1
    MaxFaults = 2
INVARIANTS
    CleanMeansAtTarget
PROPERTIES
    CycleEnds
