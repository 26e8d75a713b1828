SPECIFICATION Spec
CONSTANTS
    btc = btc
    hype = hype
    Coins = {btc, hype}
    Spot = {hype}
    None = None
    W = 20
    threshold = 2
    safety_buffer = 2
    MIN_NOTIONAL_USD = 3
    TargetWeights <- LongShort
    Prices <- TwoPrices
    Sizes <- LeftBehind
    StartCash = 100
    MaxMoves = 3
CHECK_DEADLOCK FALSE
INVARIANTS
    CapHolds
    StaysNearTarget
    ReplanIsEmpty
