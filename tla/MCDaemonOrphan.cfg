SPECIFICATION Spec
CONSTANTS
    DayLen = 4
    FireTick = 1
    LastDay = 2
    RetryInterval = 1
    RetryWindow = 2
    RecheckInterval = 1
    RecheckWindow = 2
    MaxStale = 4
    MaxFaults = 1
    RetryModes <- On
    RecheckModes <- On
    None = None
    Cash = Cash
    Stamp = Stamp
INVARIANTS
    EveryCrashDropWarned
