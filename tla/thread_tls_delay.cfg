\* HTTPS with delay() and response(), no failures, one descriptor number shared with other threads.
CONSTANTS
    Conns = {c1, c2}
    Fds = {f1, f2, f3}
    Registrable = {f1, f2, f3}
    ForeignFds = {f3}
    NoFd = NoFd
    Pipeline = 1
    ReqLen = 2
    PendingMod = 8
    Delay = TRUE
    Tls = TRUE
    WantResponse = TRUE
    Kinds = {"keep", "close"}
    ConnectMayFail = FALSE
    MaxFaults = 0
    MayStop = FALSE
SPECIFICATION FairSpec
INVARIANTS ResponseIsWhole
PROPERTIES Cycling NoForeignClose
