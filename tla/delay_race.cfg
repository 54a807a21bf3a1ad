\* A delay running while the server closes the connection: is a request answered before the next?
CONSTANTS
    Conns = {c1}
    Fds = {f1, f2}
    Registrable = {f1, f2}
    ForeignFds = {}
    NoFd = NoFd
    Pipeline = 1
    ReqLen = 1
    PendingMod = 8
    Delay = TRUE
    Tls = FALSE
    WantResponse = FALSE
    Kinds = {"keep"}
    ConnectMayFail = FALSE
    MaxFaults = 1
    MayStop = FALSE
SPECIFICATION Spec
INVARIANT CycleStartsClean
