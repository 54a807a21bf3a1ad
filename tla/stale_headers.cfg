\* A response cut off by the server: does response() see only its own headers?
CONSTANTS
    Conns = {c1}
    Fds = {f1, f2}
    Registrable = {f1, f2}
    ForeignFds = {}
    NoFd = NoFd
    Pipeline = 1
    ReqLen = 1
    PendingMod = 8
    Delay = FALSE
    Tls = FALSE
    WantResponse = TRUE
    Kinds = {"keep"}
    ConnectMayFail = FALSE
    MaxFaults = 1
    MayStop = FALSE
SPECIFICATION Spec
INVARIANT ResponseIsWhole
