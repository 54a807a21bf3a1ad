SPECIFICATION Spec
CONSTANTS
    UllongMax = 255
    MaxHeaderSize = 160
    Word = 1048576
    MaxLatency = 8
    MaxRun = 9
    Uses <- MCUses
INVARIANTS
    RunAsAsked
    RequestsCounted
    ReportAsSampled
    StacksKept
    ValuesArrive
    AddressesOwned
CHECK_DEADLOCK FALSE
