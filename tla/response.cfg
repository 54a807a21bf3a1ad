SPECIFICATION Spec
CONSTANTS
    Step = 4
    UllongMax = 255
    MaxHeaderSize = 160
    Streams <- MCStreams
    LaterStreams <- MCLater
    MaxOpens = 2
INVARIANTS
    TypeOK
    AssertionsHold
    WithinBuffer
    LengthAsDeclared
    CompleteOnTime
    ToldAsSent
CHECK_DEADLOCK FALSE
