------------------------------ MODULE WrkThread ------------------------------
(***************************************************************************)
(* One worker thread of wrk: the callbacks of wrk.c run by the event loop  *)
(* of ae.c / ae_epoll.c over non-blocking sockets, with the kernel and the *)
(* HTTP server as the environment.                                         *)
(*                                                                         *)
(* A file descriptor number is a member of Fds.  events[fd] is             *)
(* eventLoop->events[fd], sock[fd] the kernel's side of that number: the   *)
(* state of the socket it names, what is left to read from it, and the     *)
(* epoll interest registered for it (which the kernel forgets on close).   *)
(* The thread is a sequential program; pc says where in aeMain it is, and  *)
(* environment steps may come between any two of its steps.                *)
(*                                                                         *)
(* The counters that only feed the report (complete, requests, bytes,      *)
(* errors.status, errors.timeout, c->start) never influence control here   *)
(* and are left out; errors.connect/read/write are kept, because what may  *)
(* raise them is a property below.                                         *)
(*                                                                         *)
(* A definition whose name is that of another followed by an underscore    *)
(* and a word (reconnect_socket_NoDelete) is a mistaken variant of it, not *)
(* part of the specification: each shows that a property below would       *)
(* notice that mistake in the code.                                        *)
(***************************************************************************)
EXTENDS Integers, Sequences, FiniteSets

CONSTANTS
    Conns,           \* the connections of the thread, thread->cs
    Fds,             \* descriptor numbers of the process
    Registrable,     \* those below eventLoop->setsize
    ForeignFds,      \* those another thread may use for its own sockets
    NoFd,            \* "no descriptor" for c->fd before the first connect
    Pipeline,        \* cfg.pipeline, requests in one write buffer
    ReqLen,          \* units of data in one request
    PendingMod,      \* stands for 2^64, the modulus of c->pending
    Delay,           \* cfg.delay, the script defines delay()
    Tls,             \* https: sock.* are the ssl_* functions
    WantResponse,    \* the script defines response()
    Kinds,           \* the kinds of response the server sends
    ConnectMayFail,  \* connect() may fail at once (EADDRNOTAVAIL, EMFILE...)
    MaxFaults,       \* bound on faults of the server and of connect()
    MayStop          \* whether the run ends within the behaviour

AllKinds == {"keep", "close", "eof"}

ASSUME WrkThreadAssumption ==
    /\ NoFd \notin Fds
    /\ Registrable \subseteq Fds
    /\ ForeignFds \subseteq Fds
    /\ Pipeline \in Nat \ {0}
    /\ ReqLen \in Nat \ {0}
    /\ PendingMod \in Nat /\ PendingMod > Pipeline
    /\ Delay \in BOOLEAN /\ Tls \in BOOLEAN /\ WantResponse \in BOOLEAN
    /\ ConnectMayFail \in BOOLEAN /\ MayStop \in BOOLEAN
    /\ Kinds \subseteq AllKinds
    /\ MaxFaults \in Nat

VARIABLES
    pc,        \* where the thread is in thread_main / aeProcessEvents
    toConnect, \* connections the loop of thread_main has not reached yet
    fired,     \* eventLoop->fired: fd -> mask, {} when fd is not (or no longer) in it
    cur,       \* the descriptor being dispatched, or NoFd
    rfired,    \* the local rfired of aeProcessEvents
    reader,    \* the connection whose socket_readable is running
    buf,       \* what http_parser_execute has still to consume of c->buf
    events,    \* eventLoop->events
    conn,      \* the connection structures
    sock,      \* the kernel's sockets and epoll interest, by descriptor
    timers,    \* pending delay_request time events of a connection
    errors,    \* thread->errors
    faults,    \* faults that may still happen
    stop,      \* the global flag stop
    loopStop   \* eventLoop->stop

loopVars == <<pc, fired, cur, rfired, reader, buf>>
vars == <<pc, toConnect, fired, cur, rfired, reader, buf, events, conn, sock,
          timers, errors, faults, stop, loopStop>>

-----------------------------------------------------------------------------
(* Data *)

Mask == {"R", "W"}                        \* AE_READABLE, AE_WRITABLE
Procs == {"none", "socket_connected", "socket_readable", "socket_writeable"}
Length == Pipeline * ReqLen               \* c->length

\* What a read returns, in pieces: the head of a response (status line and
\* headers), the end of a response of each kind.  "keep" and "close" end a
\* framed response, which leaves the connection open or asks to close it;
\* "eof" is the start of a body that only the end of the stream delimits.
\* "fin" and "rst" are the end of the stream, orderly or by a reset.
Data == {"head"} \cup AllKinds
Ends == {"fin", "rst"}
Item == Data \cup Ends

FreeSock == [st |-> "free", rx |-> <<>>, got |-> 0, due |-> 0, ep |-> {}]
NoEvent  == [mask |-> {}, rproc |-> "none", wproc |-> "none", data |-> NoFd]

\* The server's side of a socket is closed.
Finished(rx) == \E i \in DOMAIN rx : rx[i] \in Ends

Free(sk) == {f \in Fds : sk[f].st = "free"}

-----------------------------------------------------------------------------
(* ae.c and ae_epoll.c on an event table ev and kernel sockets sk *)

\* aeApiAddEvent asks for EPOLL_CTL_ADD or _MOD according to the table's own
\* mask, and the kernel refuses what does not fit the interest it knows.
CanAdd(ev, sk, fd) ==
    /\ fd \in Registrable
    /\ sk[fd].st # "free"
    /\ ev[fd].mask = {} <=> sk[fd].ep = {}

AddEvent(ev, fd, mask, proc, c) ==
    [ev EXCEPT ![fd] = [mask  |-> ev[fd].mask \cup mask,
                        rproc |-> IF "R" \in mask THEN proc ELSE ev[fd].rproc,
                        wproc |-> IF "W" \in mask THEN proc ELSE ev[fd].wproc,
                        data  |-> c]]

AddInterest(ev, sk, fd, mask) == [sk EXCEPT ![fd].ep = ev[fd].mask \cup mask]

\* aeCreateFileEvent where the caller ignores the result: nothing happens
\* when it fails.
aeCreateFileEvent(ev, sk, fd, mask, proc, c) ==
    IF fd \in Fds /\ CanAdd(ev, sk, fd)
    THEN [ev |-> AddEvent(ev, fd, mask, proc, c),
          sk |-> AddInterest(ev, sk, fd, mask)]
    ELSE [ev |-> ev, sk |-> sk]

aeDeleteFileEvent_NoEpoll(ev, sk, fd, mask) ==
    IF fd \in Registrable
    THEN [ev |-> [ev EXCEPT ![fd].mask = @ \ mask], sk |-> sk]
    ELSE [ev |-> ev, sk |-> sk]

\* aeDeleteFileEvent; epoll_ctl's own result is ignored by the code, and the
\* kernel only changes an interest it has.
aeDeleteFileEvent(ev, sk, fd, mask) ==
    IF fd \in Registrable /\ ev[fd].mask # {}
    THEN [ev |-> [ev EXCEPT ![fd].mask = @ \ mask],
          sk |-> IF sk[fd].ep = {} THEN sk
                 ELSE [sk EXCEPT ![fd].ep = ev[fd].mask \ mask]]
    ELSE [ev |-> ev, sk |-> sk]

\* close(fd): the number is free again and leaves the epoll set.
CloseFd(sk, fd) == IF fd \in Fds THEN [sk EXCEPT ![fd] = FreeSock] ELSE sk

-----------------------------------------------------------------------------
(* wrk.c: connecting.  The operators take the intermediate table, sockets  *)
(* and connections of the calling handler and fix the next state of        *)
(* events, sock, conn, errors and faults.                                   *)

\* One more error.  Beyond MaxFaults nothing tells the counts apart, and they
\* stop there to keep the model finite.
Raise(er, kind) == IF er[kind] > MaxFaults THEN er ELSE [er EXCEPT ![kind] = @ + 1]

ConnectOk_KeepsFd(c, ev, sk, cn, er) ==
    \E fd \in Free(sk) :
       LET open == [sk EXCEPT ![fd] = [FreeSock EXCEPT !.st = "connecting"]]
       IN  /\ CanAdd(ev, open, fd)
           /\ events' = AddEvent(ev, fd, Mask, "socket_connected", c)
           /\ sock'   = AddInterest(ev, open, fd, Mask)
           /\ conn'   = IF cn[c].fd = NoFd THEN [cn EXCEPT ![c].fd = fd] ELSE cn
           /\ errors' = er
           /\ UNCHANGED faults

\* socket() takes any free number (other threads open and close theirs all
\* the time); connect() is in progress; both events lead to socket_connected.
ConnectOk(c, ev, sk, cn, er) ==
    \E fd \in Free(sk) :
       LET open == [sk EXCEPT ![fd] = [FreeSock EXCEPT !.st = "connecting"]]
       IN  /\ CanAdd(ev, open, fd)
           /\ events' = AddEvent(ev, fd, Mask, "socket_connected", c)
           /\ sock'   = AddInterest(ev, open, fd, Mask)
           /\ conn'   = [cn EXCEPT ![c].fd = fd]
           /\ errors' = er
           /\ UNCHANGED faults

\* The label error of connect_socket: c->fd keeps the number it had, and no
\* event is registered.
ConnectError(c, ev, sk, cn, er) ==
    /\ \/ ConnectMayFail
       \/ \E fd \in Free(sk) :
             ~CanAdd(ev, [sk EXCEPT ![fd].st = "connecting"], fd)
       \/ Free(sk) = {}
    /\ faults > 0
    /\ faults' = faults - 1
    /\ events' = ev
    /\ sock'   = sk
    /\ conn'   = cn
    /\ errors' = Raise(er, "connect")

connect_socket(c, ev, sk, cn, er) ==
    \/ ConnectOk(c, ev, sk, cn, er)
    \/ ConnectError(c, ev, sk, cn, er)

reconnect_socket_NoDelete(c, ev, sk, cn, er) ==
    connect_socket(c, ev, CloseFd(sk, cn[c].fd), cn, er)

reconnect_socket_NoConnect(c, ev, sk, cn, er) ==
    LET del == aeDeleteFileEvent(ev, sk, cn[c].fd, Mask)
    IN  /\ events' = del.ev
        /\ sock' = CloseFd(del.sk, cn[c].fd)
        /\ conn' = cn
        /\ errors' = er
        /\ UNCHANGED faults

reconnect_socket(c, ev, sk, cn, er) ==
    LET del == aeDeleteFileEvent(ev, sk, cn[c].fd, Mask)
    IN  connect_socket(c, del.ev, CloseFd(del.sk, cn[c].fd), cn, er)

-----------------------------------------------------------------------------
(* The thread *)

Init ==
    /\ pc = "setup"
    /\ toConnect = Conns
    /\ fired = [fd \in Fds |-> {}]
    /\ cur = NoFd
    /\ rfired = FALSE
    /\ reader = NoFd
    /\ buf = <<>>
    /\ events = [fd \in Fds |-> NoEvent]
    /\ conn = [c \in Conns |-> [fd |-> NoFd, delayed |-> Delay, written |-> 0,
                                pending |-> 0, parser |-> "start", hdrs |-> 0]]
    /\ sock = [fd \in Fds |-> FreeSock]
    /\ timers = [c \in Conns |-> 0]
    /\ errors = [connect |-> 0, read |-> 0, write |-> 0]
    /\ faults = MaxFaults
    /\ stop = FALSE
    /\ loopStop = FALSE

\* The loop of thread_main that connects every connection once.
thread_main(c) ==
    /\ pc = "setup"
    /\ c \in toConnect
    /\ toConnect' = toConnect \ {c}
    /\ connect_socket(c, events, sock, conn, errors)
    /\ UNCHANGED <<loopVars, timers, stop, loopStop>>

\* aeMain enters its loop.
aeMain ==
    /\ pc = "setup"
    /\ toConnect = {}
    /\ loopStop' = FALSE
    /\ pc' = "poll"
    /\ UNCHANGED <<toConnect, fired, cur, rfired, reader, buf, events, conn,
                   sock, timers, errors, faults, stop>>

\* EPOLLERR and EPOLLHUP, after a refused connection or a reset.
Broken(fd) == sock[fd].st = "refused" \/ \E i \in DOMAIN sock[fd].rx : sock[fd].rx[i] = "rst"

\* What aeApiPoll makes of what epoll reports: EPOLLIN and EPOLLOUT where they
\* are asked for, EPOLLERR and EPOLLHUP always, and as AE_WRITABLE.
Ready(fd) ==
    {m \in sock[fd].ep :
        \/ m = "R" /\ (sock[fd].rx # <<>> \/ Broken(fd))
        \/ m = "W" /\ sock[fd].st \in {"up", "foreign"}}
    \cup (IF sock[fd].ep # {} /\ Broken(fd) THEN {"W"} ELSE {})

\* aeApiPoll.  With nothing ready epoll_wait ends with the nearest timer.
aeApiPoll ==
    /\ pc = "poll"
    /\ fired' = [fd \in Fds |-> Ready(fd)]
    /\ pc' = IF \A fd \in Fds : Ready(fd) = {} THEN "time" ELSE "fetch"
    /\ UNCHANGED <<toConnect, cur, rfired, reader, buf, events, conn, sock,
                   timers, errors, faults, stop, loopStop>>

\* aeProcessEvents takes the elements of fired in the kernel's order, which is
\* arbitrary.  fe->mask & mask & AE_READABLE: an earlier handler of this pass
\* may have removed the event.
FiresR(fd) == "R" \in events[fd].mask \cap fired[fd]

\* fe->mask & mask & AE_WRITABLE, and not the handler that has just run.
FiresW(fd) ==
    /\ "W" \in events[fd].mask \cap fired[fd]
    /\ ~rfired \/ events[fd].wproc # events[fd].rproc

CallsR(fd, proc, c) ==
    /\ pc = "fetch"
    /\ FiresR(fd)
    /\ events[fd].rproc = proc
    /\ events[fd].data = c

CallsW(fd, proc, c) ==
    /\ pc = "file_w" /\ cur = fd
    /\ FiresW(fd)
    /\ events[fd].wproc = proc
    /\ events[fd].data = c

\* The return from the handler of one event to the loop of aeProcessEvents.
AfterR(fd) ==
    /\ pc' = "file_w"
    /\ cur' = fd
    /\ rfired' = TRUE
    /\ UNCHANGED fired

AfterW(fd) ==
    /\ pc' = "fetch"
    /\ fired' = [fired EXCEPT ![fd] = {}]
    /\ cur' = NoFd
    /\ rfired' = FALSE

SkipR(fd) ==
    /\ pc = "fetch" /\ fired[fd] # {}
    /\ ~FiresR(fd)
    /\ cur' = fd
    /\ pc' = "file_w"
    /\ UNCHANGED <<toConnect, fired, rfired, reader, buf, events, conn,
                   sock, timers, errors, faults, stop, loopStop>>

SkipW(fd) ==
    /\ pc = "file_w" /\ cur = fd
    /\ ~FiresW(fd)
    /\ AfterW(fd)
    /\ UNCHANGED <<toConnect, reader, buf, events, conn, sock, timers, errors,
                   faults, stop, loopStop>>

FiredDone ==
    /\ pc = "fetch"
    /\ \A fd \in Fds : fired[fd] = {}
    /\ pc' = "time"
    /\ UNCHANGED <<toConnect, fired, cur, rfired, reader, buf, events, conn,
                   sock, timers, errors, faults, stop, loopStop>>

-----------------------------------------------------------------------------
(* socket_connected, called for either event *)

\* What the kernel has for c->fd; a number that is not open fails with EBADF.
SocketOf(c) == IF conn[c].fd \in Fds THEN sock[conn[c].fd] ELSE FreeSock

\* sock.connect: the plain one is always OK; SSL_connect goes on with the
\* handshake, and fails when the connection did.
sock_connect(c) ==
    IF ~Tls THEN {"OK"}
    ELSE LET s == SocketOf(c)
         IN  IF s.st = "connecting" THEN {"RETRY"}
             ELSE IF s.st \in {"free", "refused"} \/ s.rx # <<>> THEN {"ERROR"}
             ELSE {"OK", "RETRY"}

ConnectedOk(c, fd) ==
    /\ "OK" \in sock_connect(c)
    /\ conn' = [conn EXCEPT ![c].parser = "start", ![c].written = 0]
    /\ LET r == aeCreateFileEvent(events, sock, fd, {"R"}, "socket_readable", c)
           w == aeCreateFileEvent(r.ev, r.sk, fd, {"W"}, "socket_writeable", c)
       IN  events' = w.ev /\ sock' = w.sk
    /\ UNCHANGED <<errors, faults>>

ConnectedRetry(c) ==
    /\ "RETRY" \in sock_connect(c)
    /\ UNCHANGED <<conn, events, sock, errors, faults>>

ConnectedError(c) ==
    /\ "ERROR" \in sock_connect(c)
    /\ reconnect_socket(c, events, sock, conn, Raise(errors, "connect"))

socket_connected(c, fd) ==
    /\ ConnectedOk(c, fd) \/ ConnectedRetry(c) \/ ConnectedError(c)
    /\ UNCHANGED <<toConnect, reader, buf, timers, stop, loopStop>>

-----------------------------------------------------------------------------
(* socket_writeable *)

\* sock.write: the amounts that may be written, 0 standing for RETRY and -1
\* for ERROR.  SSL_write may always ask for a retry.
sock_write(c, len) ==
    LET s == SocketOf(c)
    IN  IF \/ s.st \in {"free", "refused"}
           \/ \E i \in DOMAIN s.rx : s.rx[i] = "rst"
        THEN {-1}
        ELSE IF s.st = "connecting" THEN {0}
        ELSE (1..len) \cup (IF Tls THEN {0} ELSE {})

\* The server takes n more units; a closed server ignores them.
Deliver(s, n) ==
    IF s.st # "up" \/ Finished(s.rx) THEN s
    ELSE [s EXCEPT !.got = (s.got + n) % ReqLen,
                   !.due = @ + (s.got + n) \div ReqLen]

\* c->delayed: the event goes and a timer takes its place.
WriteDelayed(c, fd) ==
    /\ conn[c].delayed
    /\ LET del == aeDeleteFileEvent(events, sock, fd, {"W"})
       IN  events' = del.ev /\ sock' = del.sk
    /\ timers' = [timers EXCEPT ![c] = @ + 1]
    /\ UNCHANGED <<conn, errors, faults>>

\* The connection as the write finds it: a new request cycle starts when
\* nothing of the request has been written.
Started(c) ==
    IF conn[c].written = 0 THEN [conn EXCEPT ![c].pending = Pipeline] ELSE conn

\* c->written after a write: back to 0 when the whole buffer has been sent.
WrittenNow_NoReset(w) == w
WrittenNow(w) == IF w = Length THEN 0 ELSE w

WriteOk(c, fd) ==
    /\ ~conn[c].delayed
    /\ \E n \in sock_write(c, Length - conn[c].written) :
          /\ n > 0
          /\ LET all  == conn[c].written + n = Length
                 sent == [sock EXCEPT ![conn[c].fd] = Deliver(@, n)]
                 del  == aeDeleteFileEvent(events, sent, fd, {"W"})
             IN  /\ conn' = [Started(c) EXCEPT
                                ![c].written = WrittenNow(@ + n)]
                 /\ events' = IF all THEN del.ev ELSE events
                 /\ sock'   = IF all THEN del.sk ELSE sent
    /\ UNCHANGED <<timers, errors, faults>>

WriteRetry(c) ==
    /\ ~conn[c].delayed
    /\ 0 \in sock_write(c, Length - conn[c].written)
    /\ conn' = Started(c)
    /\ UNCHANGED <<events, sock, timers, errors, faults>>

WriteError(c) ==
    /\ ~conn[c].delayed
    /\ -1 \in sock_write(c, Length - conn[c].written)
    /\ reconnect_socket(c, events, sock, Started(c), Raise(errors, "write"))
    /\ UNCHANGED timers

socket_writeable(c, fd) ==
    /\ WriteDelayed(c, fd) \/ WriteOk(c, fd) \/ WriteRetry(c) \/ WriteError(c)
    /\ UNCHANGED <<toConnect, reader, buf, stop, loopStop>>

-----------------------------------------------------------------------------
(* socket_readable: read, then let the parser consume what was read *)

StartParse(c, fd) ==
    /\ pc' = "parse"
    /\ cur' = fd
    /\ reader' = c
    /\ UNCHANGED <<fired, rfired>>

\* sock.read succeeds: any part of the data that has arrived, which becomes
\* the input of http_parser_execute.
ReadData(c, fd) ==
    /\ \E n \in 1..Len(SocketOf(c).rx) :
          LET rx == SocketOf(c).rx
          IN  /\ \A i \in 1..n : rx[i] \in Data
              /\ buf' = SubSeq(rx, 1, n)
              /\ sock' = [sock EXCEPT ![conn[c].fd].rx = SubSeq(rx, n + 1, Len(rx))]
    /\ StartParse(c, fd)
    /\ UNCHANGED <<events, conn, errors, faults>>

\* The stream ends.  sock_read returns 0 bytes, and the parser is told of the
\* end of the stream; ssl_read treats it as an error.
ReadEof(c, fd) ==
    /\ ~Tls
    /\ SocketOf(c).rx # <<>> /\ Head(SocketOf(c).rx) = "fin"
    /\ buf' = <<"fin">>
    /\ StartParse(c, fd)
    /\ UNCHANGED <<events, conn, sock, errors, faults>>

\* read() fails: a reset, a refused connection and, for sock_read, also an
\* EAGAIN (nothing to read).
ReadFails(c) ==
    LET s == SocketOf(c)
    IN  \/ s.st \in {"free", "refused"}
        \/ s.rx # <<>> /\ Head(s.rx) = "rst"
        \/ IF Tls THEN s.rx # <<>> /\ Head(s.rx) = "fin" ELSE s.rx = <<>>

ReadError(c, fd) ==
    /\ ReadFails(c)
    /\ reconnect_socket(c, events, sock, conn, Raise(errors, "read"))
    /\ AfterR(fd)
    /\ reader' = NoFd
    /\ buf' = <<>>

ReadRetry(c, fd) ==
    /\ Tls
    /\ ~ReadFails(c) /\ SocketOf(c).rx = <<>>
    /\ AfterR(fd)
    /\ reader' = NoFd
    /\ buf' = <<>>
    /\ UNCHANGED <<events, conn, sock, errors, faults>>

socket_readable(c, fd) ==
    /\ ReadData(c, fd) \/ ReadEof(c, fd) \/ ReadError(c, fd) \/ ReadRetry(c, fd)
    /\ UNCHANGED <<toConnect, timers, stop, loopStop>>

\* A header callback: header_field and header_value append to c->headers
\* when the script wants the response.
header_field(c) ==
    /\ conn' = [conn EXCEPT ![c].parser = "head",
                            ![c].hdrs = IF WantResponse /\ @ < 2 THEN @ + 1 ELSE @]
    /\ UNCHANGED <<events, sock, errors, faults>>

\* The headers announce a body that ends with the stream.
EofBody(c) ==
    /\ conn' = [conn EXCEPT ![c].parser = "body_eof"]
    /\ UNCHANGED <<events, sock, errors, faults>>

\* script_response hands the buffers to the script and resets them.
script_response_NoReset(hdrs) == hdrs
script_response(hdrs) == 0

\* --c->pending == 0
CycleOver_Always(pending) == TRUE
CycleOver_Never(pending) == FALSE
CycleOver(pending) == pending = 0

\* What http_parser_execute does next: response_complete returns 0 in every
\* case, so the rest of the buffer is parsed.
Resume(keepalive, rest) == rest

\* response_complete.  script_response empties the buffers; the last pending
\* answer asks for the next request; a connection that may not be kept alive
\* is replaced, with the parser left dead.
response_complete(c, keepalive) ==
    LET left == (conn[c].pending - 1) % PendingMod
        cn   == [conn EXCEPT ![c].hdrs    = script_response(@),
                             ![c].pending = left,
                             ![c].delayed = IF CycleOver(left) THEN Delay ELSE @,
                             ![c].parser  = IF keepalive THEN "start" ELSE "dead"]
        reg  == IF CycleOver(left)
                THEN aeCreateFileEvent(events, sock, conn[c].fd, {"W"},
                                       "socket_writeable", c)
                ELSE [ev |-> events, sk |-> sock]
    IN  IF keepalive
        THEN /\ conn' = cn /\ events' = reg.ev /\ sock' = reg.sk
             /\ UNCHANGED <<errors, faults>>
        ELSE reconnect_socket(c, reg.ev, reg.sk, cn, errors)

\* What the parser, or the test of http_body_is_final after it, rejects: data
\* after a response that may not be kept alive, and n = 0 in every state of
\* the parser, even if it completed a body that ends with the stream.
Rejects(c) ==
    \/ conn[c].parser = "dead" /\ Head(buf) \in Data
    \/ conn[c].parser # "body_eof" /\ Head(buf) = "fin"
    \/ Head(buf) = "notfinal"

\* One piece consumed by http_parser_execute.
Parse(c) ==
    /\ pc = "parse" /\ reader = c
    /\ buf # <<>> /\ ~Rejects(c)
    /\ \/ /\ Head(buf) = "head" /\ header_field(c)
          /\ buf' = Tail(buf)
       \/ /\ Head(buf) \in {"keep", "close"}
          /\ response_complete(c, Head(buf) = "keep")
          /\ buf' = Resume(Head(buf) = "keep", Tail(buf))
       \/ /\ Head(buf) = "eof" /\ EofBody(c)
          /\ buf' = Tail(buf)
       \/ \* n = 0 completes a body that ends with the stream.
          /\ Head(buf) = "fin" /\ response_complete(c, FALSE)
          /\ buf' = <<"notfinal">>
    /\ UNCHANGED <<pc, toConnect, fired, cur, rfired, reader, timers, stop, loopStop>>

\* goto error of socket_readable after http_parser_execute.
ParseError(c) ==
    /\ pc = "parse" /\ reader = c
    /\ buf # <<>> /\ Rejects(c)
    /\ reconnect_socket(c, events, sock, conn, Raise(errors, "read"))
    /\ AfterR(cur)
    /\ reader' = NoFd
    /\ buf' = <<>>
    /\ UNCHANGED <<toConnect, timers, stop, loopStop>>

\* The end of the do loop of socket_readable: read again after a full buffer
\* when the socket of c (a new one, after a reconnect) has more data.
sock_readable_Any(c) == TRUE
sock_readable(c) ==
    \E i \in DOMAIN SocketOf(c).rx : SocketOf(c).rx[i] \in Data

ReadAgain(c) ==
    /\ pc = "parse" /\ reader = c /\ buf = <<>>
    /\ sock_readable(c)
    /\ socket_readable(c, cur)

ReadDone(c) ==
    /\ pc = "parse" /\ reader = c /\ buf = <<>>
    /\ AfterR(cur)
    /\ reader' = NoFd
    /\ UNCHANGED <<toConnect, buf, events, conn, sock, timers, errors, faults,
                   stop, loopStop>>

-----------------------------------------------------------------------------
(* The dispatch of aeProcessEvents *)

DispatchR(fd, c) ==
    \/ CallsR(fd, "socket_connected", c) /\ socket_connected(c, fd) /\ AfterR(fd)
    \/ CallsR(fd, "socket_readable", c) /\ socket_readable(c, fd)

DispatchW(fd, c) ==
    \/ CallsW(fd, "socket_connected", c) /\ socket_connected(c, fd) /\ AfterW(fd)
    \/ CallsW(fd, "socket_writeable", c) /\ socket_writeable(c, fd) /\ AfterW(fd)

-----------------------------------------------------------------------------
(* processTimeEvents.  A timer may or may not be due in a given pass. *)

delay_request_NoEvent(c) ==
    /\ pc = "time"
    /\ timers[c] > 0
    /\ timers' = [timers EXCEPT ![c] = @ - 1]
    /\ conn' = [conn EXCEPT ![c].delayed = FALSE]
    /\ UNCHANGED <<loopVars, toConnect, events, sock, errors, faults, stop, loopStop>>

delay_request(c) ==
    /\ pc = "time"
    /\ timers[c] > 0
    /\ timers' = [timers EXCEPT ![c] = @ - 1]
    /\ conn' = [conn EXCEPT ![c].delayed = FALSE]
    /\ LET w == aeCreateFileEvent(events, sock, conn[c].fd, {"W"},
                                  "socket_writeable", c)
       IN  events' = w.ev /\ sock' = w.sk
    /\ UNCHANGED <<loopVars, toConnect, errors, faults, stop, loopStop>>

record_rate_NoStop ==
    /\ pc = "time"
    /\ stop
    /\ UNCHANGED vars

record_rate ==
    /\ pc = "time"
    /\ stop
    /\ loopStop' = TRUE
    /\ UNCHANGED <<loopVars, toConnect, events, conn, sock, timers, errors,
                   faults, stop>>

\* The end of the pass; aeMain tests eventLoop->stop before the next one.
EndTime ==
    /\ pc = "time"
    /\ pc' = IF loopStop THEN "stopped" ELSE "poll"
    /\ UNCHANGED <<toConnect, fired, cur, rfired, reader, buf, events, conn,
                   sock, timers, errors, faults, stop, loopStop>>

Thread ==
    \/ \E c \in Conns : \/ thread_main(c) \/ Parse(c) \/ ParseError(c) \/ ReadAgain(c)
                        \/ ReadDone(c) \/ delay_request(c)
    \/ \E fd \in Fds : \/ SkipR(fd) \/ SkipW(fd)
                       \/ \E c \in Conns : DispatchR(fd, c) \/ DispatchW(fd, c)
    \/ aeMain \/ aeApiPoll \/ FiredDone
    \/ record_rate \/ EndTime

-----------------------------------------------------------------------------
(* The environment: server, kernel, other threads, the main thread *)

EnvUnchanged == UNCHANGED <<pc, toConnect, fired, cur, rfired, reader, buf,
                            events, conn, timers, errors, loopStop>>

Establish(fd) ==
    /\ sock[fd].st = "connecting"
    /\ sock' = [sock EXCEPT ![fd].st = "up"]
    /\ UNCHANGED <<faults, stop>> /\ EnvUnchanged

Refuse(fd) ==
    /\ sock[fd].st = "connecting"
    /\ faults > 0 /\ faults' = faults - 1
    /\ sock' = [sock EXCEPT ![fd].st = "refused"]
    /\ UNCHANGED stop /\ EnvUnchanged

\* The server answers the oldest request; an answer that ends the connection
\* leaves the others unanswered.
Respond(fd, kind) ==
    /\ sock[fd].st = "up" /\ sock[fd].due > 0 /\ ~Finished(sock[fd].rx)
    /\ sock' = [sock EXCEPT
         ![fd].rx  = @ \o (IF kind = "keep" THEN <<"head", "keep">>
                           ELSE <<"head", kind, "fin">>),
         ![fd].due = IF kind = "keep" THEN @ - 1 ELSE 0,
         ![fd].got = IF kind = "keep" THEN @ ELSE 0]
    /\ UNCHANGED <<faults, stop>> /\ EnvUnchanged

\* The server goes away: what is on the way is cut at any point.
ServerFails(fd) ==
    /\ sock[fd].st = "up" /\ ~Finished(sock[fd].rx)
    /\ faults > 0 /\ faults' = faults - 1
    /\ \E n \in 0..Len(sock[fd].rx), e \in Ends :
          sock' = [sock EXCEPT ![fd].rx = Append(SubSeq(@, 1, n), e),
                               ![fd].due = 0, ![fd].got = 0]
    /\ UNCHANGED stop /\ EnvUnchanged

\* Another thread of the process opens or closes a socket of its own, which
\* may have data to read.
ForeignOpen(fd) ==
    /\ fd \in ForeignFds /\ sock[fd].st = "free"
    /\ \E rx \in {<<>>, <<"head", "keep">>} :
          sock' = [sock EXCEPT ![fd].st = "foreign", ![fd].rx = rx]
    /\ UNCHANGED <<faults, stop>> /\ EnvUnchanged

ForeignClose(fd) ==
    /\ sock[fd].st = "foreign"
    /\ sock' = [sock EXCEPT ![fd] = FreeSock]
    /\ UNCHANGED <<faults, stop>> /\ EnvUnchanged

\* main after the sleep, or handler on SIGINT.
SetStop ==
    /\ MayStop /\ ~stop /\ stop' = TRUE
    /\ UNCHANGED <<sock, faults>> /\ EnvUnchanged

Environment ==
    \/ \E fd \in Fds : \/ Establish(fd) \/ Refuse(fd) \/ ServerFails(fd)
                       \/ ForeignOpen(fd) \/ ForeignClose(fd)
                       \/ \E kind \in Kinds : Respond(fd, kind)
    \/ SetStop

Next == Thread \/ Environment

Spec == Init /\ [][Next]_vars

-----------------------------------------------------------------------------
(* Properties *)

Live == {"connecting", "up", "refused"}

EventTable == [Fds -> [mask : SUBSET Mask, rproc : Procs, wproc : Procs,
                       data : Conns \cup {NoFd}]]
ConnTable  == [Conns -> [fd : Fds \cup {NoFd}, delayed : BOOLEAN,
                         written : 0..(Length - 1), pending : 0..(PendingMod - 1),
                         parser : {"start", "head", "body_eof", "dead"},
                         hdrs : 0..2]]
SockTable  == [Fds -> [st : Live \cup {"free", "foreign"}, rx : Seq(Item),
                       got : 0..(ReqLen - 1), due : Nat, ep : SUBSET Mask]]
ErrorCounts == [connect : Nat, read : Nat, write : Nat]

\* The type invariant.
TypeOK ==
    /\ pc \in {"setup", "poll", "fetch", "parse", "file_w", "time", "stopped"}
    /\ toConnect \subseteq Conns
    /\ fired \in [Fds -> SUBSET Mask]
    /\ cur \in Fds \cup {NoFd}
    /\ rfired \in BOOLEAN
    /\ reader \in Conns \cup {NoFd}
    /\ buf \in Seq(Item \cup {"notfinal"})
    /\ events \in EventTable
    /\ conn \in ConnTable
    /\ sock \in SockTable
    /\ timers \in [Conns -> Nat]
    /\ errors \in ErrorCounts
    /\ faults \in 0..MaxFaults
    /\ stop \in BOOLEAN
    /\ loopStop \in BOOLEAN

\* Descriptor ownership.  A registered event belongs to the connection whose
\* c->fd is that number, and an open socket of this thread is always watched
\* for reading: reconnect_socket leaves neither a handler behind on a number
\* that is free or in use elsewhere, nor an open socket nobody watches.
FdOwnership ==
    \A fd \in Fds :
       /\ events[fd].mask # {} => /\ sock[fd].st \in Live
                                  /\ events[fd].data \in Conns
                                  /\ conn[events[fd].data].fd = fd
       /\ sock[fd].st \in Live => "R" \in events[fd].mask

\* The table of ae.c and the kernel's epoll set agree, so the choice between
\* EPOLL_CTL_ADD and EPOLL_CTL_MOD in aeApiAddEvent is always right although
\* the kernel drops a descriptor by itself when it is closed.
InterestInSync == \A fd \in Fds : sock[fd].ep = events[fd].mask

\* "Connections to keep open" (usage): once thread_main has connected them,
\* every connection always has a socket that the loop watches.
ConnectionKept ==
    pc # "setup" =>
       \A c \in Conns : \E fd \in Fds : /\ conn[c].fd = fd
                                        /\ events[fd].data = c
                                        /\ "R" \in events[fd].mask

\* Answers on their way to c: owed by the server, not yet read, not yet parsed.
Answers(s) == Cardinality({i \in DOMAIN s : s[i] \in {"keep", "close"}})
              + (IF \E i \in DOMAIN s : s[i] = "eof" THEN 1 ELSE 0)
Outstanding(c) ==
    sock[conn[c].fd].due + Answers(sock[conn[c].fd].rx)
    + (IF reader = c THEN Answers(buf) ELSE 0)
    + (IF conn[c].parser = "body_eof" THEN 1 ELSE 0)

\* Requests of the current cycle that the server does not have in full.
Unsent(c) == IF conn[c].written = 0 THEN 0
             ELSE Pipeline - conn[c].written \div ReqLen

InUse(c) == /\ conn[c].fd \in Fds
            /\ events[conn[c].fd].data = c
            /\ events[conn[c].fd].rproc = "socket_readable"
            /\ "R" \in events[conn[c].fd].mask

\* The accounting of a request cycle.  A new cycle (nothing written
\* and the socket watched for writing) only starts when no answer of the last
\* one is on its way, and during a cycle the answers still to come
\* never outnumber c->pending, so --c->pending reaches 0 and never wraps.
AnswersOwed ==
    \A c \in Conns : InUse(c) =>
       IF conn[c].written = 0 /\ "W" \in events[conn[c].fd].mask
       THEN Outstanding(c) = 0
       ELSE Outstanding(c) + Unsent(c) <= conn[c].pending

\* "a call to request() and response() for each request cycle" (SCRIPTING): no
\* socket_writeable that starts a cycle runs while an answer to the last one
\* is still on its way.
CycleStartsClean ==
    \A c \in Conns, fd \in Fds :
       /\ CallsW(fd, "socket_writeable", c)
       /\ ~conn[c].delayed /\ conn[c].written = 0
       /\ conn[c].fd = fd
       => Outstanding(c) = 0

\* The errors reported are errors that happened: connect, read and write
\* errors together never outnumber the failures of the network and the
\* server.  A poll result that is stale when its handler runs (a socket
\* replaced in the same pass, a read of an empty socket, which sock_read
\* reports as an error) must not count as one.
ErrorsAreFaults ==
    errors.connect + errors.read + errors.write <= MaxFaults - faults

\* The script sees each response with its own headers: the buffers never
\* hold those of two responses.
ResponseIsWhole == \A c \in Conns : conn[c].hdrs <= 1

\* No step of this thread closes or reopens a socket of another thread, whose
\* descriptor numbers it shares.
NoForeignClose ==
    [][Thread => \A fd \in Fds : sock[fd].st = "foreign" => sock'[fd].st = "foreign"]_vars

-----------------------------------------------------------------------------
(* Fairness and liveness *)

\* The handlers' runs in which the handshake completes, or some data is sent.
ConnectSucceeds(c) ==
    \E fd \in Fds :
       \/ /\ CallsR(fd, "socket_connected", c)
          /\ socket_connected(c, fd) /\ ConnectedOk(c, fd) /\ AfterR(fd)
       \/ /\ CallsW(fd, "socket_connected", c)
          /\ socket_connected(c, fd) /\ ConnectedOk(c, fd) /\ AfterW(fd)

WriteSucceeds(c) ==
    \E fd \in Fds :
       /\ CallsW(fd, "socket_writeable", c)
       /\ socket_writeable(c, fd) /\ WriteOk(c, fd) /\ AfterW(fd)

\* The thread is scheduled; the network and the server make progress.  A
\* timer that stays due is run, and an operation asked to be retried again
\* and again succeeds in the end.
Fairness ==
    /\ WF_vars(Thread)
    /\ \A c \in Conns :
          /\ SF_vars(delay_request(c))
          /\ SF_vars(ConnectSucceeds(c))
          /\ SF_vars(WriteSucceeds(c))
    /\ SF_vars(record_rate)
    /\ \A fd \in Fds : /\ WF_vars(Establish(fd))
                       /\ WF_vars(\E kind \in Kinds : Respond(fd, kind))

FairSpec == Spec /\ Fairness

\* Every connection keeps cycling until the thread stops: a cycle that began
\* completes, and a completed one is followed by another, whatever failures
\* of the server came in between.
Cycling ==
    \A c \in Conns : /\ []<>(conn[c].pending = 0 \/ pc = "stopped")
                     /\ []<>(conn[c].pending > 0 \/ pc = "stopped")

\* The flag stop ends the thread, so pthread_join in main returns.
Stops == stop ~> pc = "stopped"

=============================================================================
