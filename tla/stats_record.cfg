\* Three threads, samples at both ends of the range, inside it and out of it.
CONSTANTS
    Threads = {t1, t2, t3}
    Limit = 3
    Samples = {0, 1, 2, 3}
    UINT64_MAX = 9
    MaxCalls = 3
SPECIFICATION FairSpec
CHECK_DEADLOCK FALSE
INVARIANTS TypeOK BoundsExact NoSampleLost
PROPERTIES Returns ImplementsAbs
