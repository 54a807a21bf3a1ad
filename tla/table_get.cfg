\* setup() and done() get tables from a thread.
SPECIFICATION Spec
CONSTANTS
    UllongMax = 255
    MaxHeaderSize = 160
    Word = 1048576
    MaxLatency = 8
    MaxRun = 9
    Uses <- TableUses
INVARIANTS
    StacksKept
CHECK_DEADLOCK FALSE
