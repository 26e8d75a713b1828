SPECIFICATION Spec
CONSTANTS
    Coin = {btc}
    Spot = {}
    btc = btc
    hype = hype
    Cloid <- ExecCloid
    MaxSize = 2
    MinSize = 2
    MaxAttempts = 2
    CapPerCoin = 2
    CapTotal = 3
    CapTurnover = 4
    Gates <- Any
    MaxCycles = 2
    MaxFaults = 3
INVARIANTS
    TypeOK
    DoneIsKnown
    NoDoubleExposure
    CleanMeansAtTarget
PROPERTIES
    AheadSpec
    CrossesOnlyFromDust
