\* A body that ends with the stream: is the end of it a read error?
CONSTANTS
    Conns = {c1}
    Fds = {f1, f2}
    Registrable = {f1, f2}
    ForeignFds = {}
    NoFd = NoFd
    Pipeline = 1
    ReqLen = 1
    PendingMod = 8
    Delay = FALSE
    Tls = FALSE
    WantResponse = FALSE
    Kinds = {"eof"}
    ConnectMayFail = FALSE
    MaxFaults = 0
    MayStop = FALSE
SPECIFICATION Spec
INVARIANT ErrorsAreFaults
