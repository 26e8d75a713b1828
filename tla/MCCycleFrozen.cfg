SPECIFICATION Spec
CONSTANTS
    btc = btc
    ton = ton
    long = long
    short = short
    default = default
    Coins = {btc, ton}
    Sleeves = {long, short}
    Short = {short}
    None = None
    Dark = Dark
    MaxSkew = 0
    MaxValidity = 1
    AsOf <- Days
    Default = default
    Rank <- Names
    Universes <- MayOverlap
    SleeveStale <- StaleAfter
    MaxStale = 1
    CooldownDays = 1
    RetryEnabled = TRUE
    RecheckEnabled = TRUE
    GlobalPin = FALSE
    TicksPerDay = 2
    Signs <- LongAndShort
    FirstTick = 3
    LastTick = 6
    MaxFaults = 1
CHECK_DEADLOCK FALSE
PROPERTY FrozenForTheDay
