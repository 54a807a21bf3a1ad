SPECIFICATION Spec
CONSTANTS
    MaxSetsize = 2
    Procs = {p, q}
    Second = 3
    Loads <- MCLoads
    MaxTime = 9
INVARIANTS
    TypeOK
    InterestInKernel
    MaxfdExact
    TimersOnTime
    NoTimerLost
    DelayBounded
    EventsAreOwn
PROPERTY
    DueTimersRun
CHECK_DEADLOCK FALSE
