SPECIFICATION Spec
CONSTANTS
    btc = btc
    ton = ton
    Coin = {btc, ton}
    Sizes <- Positions
    Settings <- Leverages
    MaxLev = 2
    target_leverage = 1
    target_type = "isolated"
    Stuck = {ton}
    MaxFaults = 1
INVARIANTS
    TypeOK
    FilledIsClosed
    ReopenIsBounded
PROPERTIES
    OnlyCyclesOpen
    GuardNeverRaises
    OthersStillFlatten
