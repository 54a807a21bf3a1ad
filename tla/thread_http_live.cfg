\* Plain HTTP with a failing server: every connection keeps cycling.
CONSTANTS
    Conns = {c1, c2}
    Fds = {f1, f2}
    Registrable = {f1, f2}
    ForeignFds = {}
    NoFd = NoFd
    Pipeline = 1
    ReqLen = 1
    PendingMod = 8
    Delay = FALSE
    Tls = FALSE
    WantResponse = FALSE
    Kinds = {"keep"}
    ConnectMayFail = FALSE
    MaxFaults = 1
    MayStop = TRUE
SPECIFICATION FairSpec
CHECK_DEADLOCK FALSE
INVARIANT ConnectionKept
PROPERTIES Cycling Stops
