SPECIFICATION Spec
CONSTANTS
    DayLen = 4
    FireTick = 1
    LastDay = 3
    RetryInterval = 1
    RetryWindow = 2
    RecheckInterval = 1
    RecheckWindow = 2
    MaxStale = 4
    MaxFaults = 2
    RetryModes <- Any
    RecheckModes <- Any
    None = None
    Cash = Cash
    Stamp = Stamp
INVARIANTS
    TypeOK
    OneTradingCyclePerDay
    RetryWindowIsNewest
    WindowsExclude
    AttemptsPaced
    ExhaustedNeverTrades
    CrashDropWarned
PROPERTIES
    TraderSpec
