SPECIFICATION FairSpec
CONSTANTS
    DayLen = 3
    FireTick = 1
    LastDay = 3
    RetryInterval = 1
    RetryWindow = 1
    RecheckInterval = 1
    RecheckWindow = 1
    MaxStale = 4
    MaxFaults = 1
    RetryModes <- On
    RecheckModes <- Any
    None = None
    Cash = Cash
    Stamp = Stamp
PROPERTIES
    RetryWindowCloses
    RecheckWindowCloses
    KillFlattens
