SPECIFICATION Spec
CONSTANTS
    Process = {daemon, tool}
    NoProcess = NoProcess
    daemon = daemon
    tool = tool
    Tolerance = 1
    Window = 1
    Earlier <- Any
    MaxClock = 3
    MaxNonce = 5
    MaxFaults = 3
INVARIANTS
    TypeOK
    IssuedIsDurable
    MemoryIsCurrent
    ReanchoredAboveVenue
PROPERTIES
    NonceIncreases
