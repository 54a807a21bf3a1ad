\* Plain HTTP, one thread, two connections, every kind of failure.
CONSTANTS
    Conns = {c1, c2}
    Fds = {f1, f2, f3}
    Registrable = {f1, f2, f3}
    ForeignFds = {}
    NoFd = NoFd
    Pipeline = 2
    ReqLen = 1
    PendingMod = 8
    Delay = FALSE
    Tls = FALSE
    WantResponse = FALSE
    Kinds = {"keep", "close"}
    ConnectMayFail = TRUE
    MaxFaults = 2
    MayStop = FALSE
SPECIFICATION Spec
SYMMETRY Symmetry
INVARIANTS TypeOK FdOwnership InterestInSync AnswersOwed ErrorsAreFaults
