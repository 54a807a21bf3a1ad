--------------------------- MODULE WrkThreadProofs ---------------------------
(***************************************************************************)
(* Proofs about the worker thread, for any number of connections and       *)
(* descriptors, any pipeline depth and request length, with or without     *)
(* TLS, delays and failures.                                               *)
(***************************************************************************)
EXTENDS WrkThread, SequenceTheorems, FiniteSetTheorems, TLAPS

\* The length of a request buffer is positive.
LEMMA LengthType == Length \in Nat /\ Length > 0 /\ 0 \in 0..(Length - 1)
<1>1. Length \in Nat /\ Length > 0
  BY WrkThreadAssumption DEF Length
<1> QED
  BY <1>1

-----------------------------------------------------------------------------
(* The operations of ae.c keep their tables well formed *)

\* aeCreateFileEvent's effect on the table of events.
LEMMA AddEventType ==
  ASSUME NEW ev \in EventTable, NEW fd \in Fds, NEW mask \in SUBSET Mask,
         NEW proc \in Procs, NEW c \in Conns
  PROVE  AddEvent(ev, fd, mask, proc, c) \in EventTable
  BY DEF AddEvent, EventTable

\* Its effect on the epoll interest.
LEMMA AddInterestType ==
  ASSUME NEW ev \in EventTable, NEW sk \in SockTable, NEW fd \in Fds,
         NEW mask \in SUBSET Mask
  PROVE  AddInterest(ev, sk, fd, mask) \in SockTable
  BY DEF AddInterest, EventTable, SockTable

\* aeCreateFileEvent on any descriptor number.
LEMMA CreateType ==
  ASSUME NEW ev \in EventTable, NEW sk \in SockTable, NEW fd \in Fds \cup {NoFd},
         NEW mask \in SUBSET Mask, NEW proc \in Procs, NEW c \in Conns
  PROVE  /\ aeCreateFileEvent(ev, sk, fd, mask, proc, c).ev \in EventTable
         /\ aeCreateFileEvent(ev, sk, fd, mask, proc, c).sk \in SockTable
  BY AddEventType, AddInterestType DEF aeCreateFileEvent

\* aeDeleteFileEvent on any descriptor number.
LEMMA DeleteType ==
  ASSUME NEW ev \in EventTable, NEW sk \in SockTable, NEW fd \in Fds \cup {NoFd},
         NEW mask \in SUBSET Mask
  PROVE  /\ aeDeleteFileEvent(ev, sk, fd, mask).ev \in EventTable
         /\ aeDeleteFileEvent(ev, sk, fd, mask).sk \in SockTable
<1>1. CASE fd \in Registrable /\ ev[fd].mask # {}
  <2>1. fd \in Fds
    BY <1>1, WrkThreadAssumption
  <2>2. [ev EXCEPT ![fd].mask = @ \ mask] \in EventTable
    BY <2>1 DEF EventTable
  <2>3. [sk EXCEPT ![fd].ep = ev[fd].mask \ mask] \in SockTable
    BY <2>1 DEF EventTable, SockTable
  <2> QED
    BY <1>1, <2>2, <2>3 DEF aeDeleteFileEvent
<1>2. CASE ~(fd \in Registrable /\ ev[fd].mask # {})
  BY <1>2 DEF aeDeleteFileEvent
<1> QED
  BY <1>1, <1>2

\* A closed socket is a well-formed one.
LEMMA FreeSockType ==
  FreeSock \in [st : Live \cup {"free", "foreign"}, rx : Seq(Item),
                got : 0..(ReqLen - 1), due : Nat, ep : SUBSET Mask]
<1>1. <<>> \in Seq(Item)
  OBVIOUS
<1> QED
  BY <1>1, WrkThreadAssumption DEF FreeSock

\* close() on any descriptor number.
LEMMA CloseType ==
  ASSUME NEW sk \in SockTable, NEW fd \in Fds \cup {NoFd}
  PROVE  CloseFd(sk, fd) \in SockTable
  BY FreeSockType DEF CloseFd, SockTable

-----------------------------------------------------------------------------
(* Connecting *)

\* An error counter goes up by one.
LEMMA RaiseType ==
  ASSUME NEW er \in ErrorCounts, NEW kind \in {"connect", "read", "write"}
  PROVE  Raise(er, kind) \in ErrorCounts
  BY DEF Raise, ErrorCounts

ConnectTyped == /\ events' \in EventTable /\ sock' \in SockTable
                /\ conn' \in ConnTable /\ errors' \in ErrorCounts
                /\ faults' \in 0..MaxFaults

\* Both outcomes of connect_socket.
LEMMA ConnectType ==
  ASSUME NEW c \in Conns, NEW ev \in EventTable, NEW sk \in SockTable,
         NEW cn \in ConnTable, NEW er \in ErrorCounts, faults \in 0..MaxFaults,
         connect_socket(c, ev, sk, cn, er)
  PROVE  ConnectTyped
<1>1. CASE ConnectOk(c, ev, sk, cn, er)
  <2> DEFINE open(fd) == [sk EXCEPT ![fd] = [FreeSock EXCEPT !.st = "connecting"]]
  <2>1. PICK fd \in Free(sk) :
           /\ events' = AddEvent(ev, fd, Mask, "socket_connected", c)
           /\ sock'   = AddInterest(ev, open(fd), fd, Mask)
           /\ conn'   = [cn EXCEPT ![c].fd = fd]
           /\ errors' = er
           /\ UNCHANGED faults
    BY <1>1 DEF ConnectOk
  <2>2. fd \in Fds
    BY DEF Free
  <2>3. open(fd) \in SockTable
    BY <2>2, FreeSockType DEF SockTable, Live
  <2>4. events' \in EventTable
    BY <2>1, <2>2, AddEventType DEF Procs
  <2>5. sock' \in SockTable
    BY <2>1, <2>2, <2>3, AddInterestType
  <2>6. conn' \in ConnTable
    BY <2>1, <2>2 DEF ConnTable
  <2> QED
    BY <2>1, <2>4, <2>5, <2>6 DEF ConnectTyped
<1>2. CASE ConnectError(c, ev, sk, cn, er)
  <2>1. faults' \in 0..MaxFaults
    BY <1>2, WrkThreadAssumption DEF ConnectError
  <2> QED
    BY <1>2, <2>1, RaiseType DEF ConnectError, ConnectTyped
<1> QED
  BY <1>1, <1>2 DEF connect_socket

\* reconnect_socket, from any handler.
LEMMA ReconnectType ==
  ASSUME NEW c \in Conns, NEW ev \in EventTable, NEW sk \in SockTable,
         NEW cn \in ConnTable, NEW er \in ErrorCounts, faults \in 0..MaxFaults,
         reconnect_socket(c, ev, sk, cn, er)
  PROVE  ConnectTyped
<1> DEFINE del == aeDeleteFileEvent(ev, sk, cn[c].fd, Mask)
<1>1. cn[c].fd \in Fds \cup {NoFd}
  BY DEF ConnTable
<1>2. del.ev \in EventTable /\ del.sk \in SockTable
  BY <1>1, DeleteType
<1>3. CloseFd(del.sk, cn[c].fd) \in SockTable
  BY <1>1, <1>2, CloseType
<1>4. connect_socket(c, del.ev, CloseFd(del.sk, cn[c].fd), cn, er)
  BY DEF reconnect_socket
<1> QED
  BY <1>2, <1>3, <1>4, ConnectType

-----------------------------------------------------------------------------
(* The handlers *)

SockRecord == [st : Live \cup {"free", "foreign"}, rx : Seq(Item),
               got : 0..(ReqLen - 1), due : Nat, ep : SUBSET Mask]

\* What the kernel has for any connection's descriptor.
LEMMA SocketOfType ==
  ASSUME TypeOK, NEW c \in Conns
  PROVE  SocketOf(c) \in SockRecord
  BY FreeSockType DEF SocketOf, TypeOK, SockTable, SockRecord

\* socket_connected.
LEMMA ConnectedType ==
  ASSUME TypeOK, NEW c \in Conns, NEW fd \in Fds, socket_connected(c, fd)
  PROVE  ConnectTyped
<1> USE DEF TypeOK
<1>1. CASE ConnectedOk(c, fd)
  <2> DEFINE r == aeCreateFileEvent(events, sock, fd, {"R"}, "socket_readable", c)
             w == aeCreateFileEvent(r.ev, r.sk, fd, {"W"}, "socket_writeable", c)
  <2>1. r.ev \in EventTable /\ r.sk \in SockTable
    BY CreateType DEF Mask, Procs
  <2> HIDE DEF r
  <2>2. w.ev \in EventTable /\ w.sk \in SockTable
    BY <2>1, CreateType DEF Mask, Procs
  <2> HIDE DEF w
  <2>3. events' = w.ev /\ sock' = w.sk /\ UNCHANGED <<errors, faults>>
        /\ conn' = [conn EXCEPT ![c].parser = "start", ![c].written = 0]
    BY <1>1 DEF ConnectedOk, r, w
  <2>4. conn' \in ConnTable
    BY ZenonT(60), <2>3, LengthType DEF ConnTable
  <2> QED
    BY <2>2, <2>3, <2>4 DEF ConnectTyped
<1>2. CASE ConnectedRetry(c)
  BY <1>2 DEF ConnectedRetry, ConnectTyped
<1>3. CASE ConnectedError(c)
  <2>1. Raise(errors, "connect") \in ErrorCounts
    BY RaiseType
  <2> QED
    BY <1>3, <2>1, ReconnectType DEF ConnectedError
<1> QED
  BY <1>1, <1>2, <1>3 DEF socket_connected

\* The connection as socket_writeable finds it.
LEMMA StartedType ==
  ASSUME TypeOK, NEW c \in Conns
  PROVE  Started(c) \in ConnTable
<1>1. Pipeline \in 0..(PendingMod - 1)
  BY WrkThreadAssumption
<1> QED
  BY ZenonT(60), <1>1 DEF Started, TypeOK, ConnTable

\* What the server has of a request stays below one request.
LEMMA DeliverType ==
  ASSUME NEW sk \in SockTable, NEW fd \in Fds, NEW n \in Nat
  PROVE  [sk EXCEPT ![fd] = Deliver(@, n)] \in SockTable
<1> DEFINE s == sk[fd]
<1>1. s.got \in Nat /\ s.due \in Nat
  BY DEF SockTable
<1>2. (s.got + n) % ReqLen \in 0..(ReqLen - 1)
  <2>1. \A k \in Nat, m \in Nat \ {0} : k % m \in 0..(m - 1)
    OBVIOUS
  <2>2. s.got + n \in Nat
    BY <1>1
  <2> QED
    BY <2>1, <2>2, WrkThreadAssumption
<1>3. s.due + (s.got + n) \div ReqLen \in Nat
  <2>1. \A k \in Nat, m \in Nat \ {0} : k \div m \in Nat
    OBVIOUS
  <2>2. s.got + n \in Nat
    BY <1>1
  <2> QED
    BY <1>1, <2>1, <2>2, WrkThreadAssumption
<1> QED
  BY <1>2, <1>3 DEF Deliver, SockTable

\* socket_writeable.
LEMMA WriteableType ==
  ASSUME TypeOK, NEW c \in Conns, NEW fd \in Fds, socket_writeable(c, fd)
  PROVE  ConnectTyped /\ timers' \in [Conns -> Nat]
<1> USE DEF TypeOK
<1>1. CASE WriteDelayed(c, fd)
  <2> DEFINE del == aeDeleteFileEvent(events, sock, fd, {"W"})
  <2>1. del.ev \in EventTable /\ del.sk \in SockTable
    BY DeleteType DEF Mask
  <2> HIDE DEF del
  <2>2. events' = del.ev /\ sock' = del.sk /\ UNCHANGED <<conn, errors, faults>>
        /\ timers' = [timers EXCEPT ![c] = @ + 1]
    BY <1>1 DEF WriteDelayed, del
  <2> QED
    BY <2>1, <2>2 DEF ConnectTyped
<1>2. CASE WriteOk(c, fd)
  <2>1. PICK n \in sock_write(c, Length - conn[c].written) :
          /\ n > 0
          /\ LET all  == conn[c].written + n = Length
                 sent == [sock EXCEPT ![conn[c].fd] = Deliver(@, n)]
                 del  == aeDeleteFileEvent(events, sent, fd, {"W"})
             IN  /\ conn' = [Started(c) EXCEPT ![c].written = WrittenNow(@ + n)]
                 /\ events' = IF all THEN del.ev ELSE events
                 /\ sock'   = IF all THEN del.sk ELSE sent
    BY <1>2 DEF WriteOk
  <2> DEFINE all  == conn[c].written + n = Length
             sent == [sock EXCEPT ![conn[c].fd] = Deliver(@, n)]
             del  == aeDeleteFileEvent(events, sent, fd, {"W"})
  <2>2. conn[c].written \in 0..(Length - 1)
    BY DEF ConnTable
  <2>3. n \in 1..(Length - conn[c].written) /\ conn[c].fd \in Fds
    BY <2>1, <2>2 DEF sock_write, SocketOf, FreeSock, ConnTable
  <2>a. n \in Nat
    BY <2>2, <2>3, LengthType
  <2>4. sent \in SockTable
    BY <2>3, <2>a, DeliverType
  <2> HIDE DEF sent
  <2>5. del.ev \in EventTable /\ del.sk \in SockTable
    BY <2>4, DeleteType DEF Mask
  <2>6. Started(c) \in ConnTable /\ Started(c)[c].written = conn[c].written
    BY StartedType DEF Started, ConnTable
  <2>7. WrittenNow(conn[c].written + n) \in 0..(Length - 1)
    <3>1. CASE conn[c].written + n = Length
      BY <3>1, LengthType DEF WrittenNow
    <3>2. CASE conn[c].written + n # Length
      <4>1. \A L, w, k \in Nat : w <= L - 1 /\ k <= L - w /\ w + k # L
                                 => w + k \in 0..(L - 1)
        OBVIOUS
      <4>2. WrittenNow(conn[c].written + n) = conn[c].written + n
        BY <3>2 DEF WrittenNow
      <4>3. conn[c].written \in Nat /\ conn[c].written <= Length - 1
            /\ n <= Length - conn[c].written
        BY <2>2, <2>3, LengthType
      <4> QED
        BY <2>a, <3>2, <4>1, <4>2, <4>3, LengthType
    <3> QED
      BY <3>1, <3>2
  <2>8. conn' \in ConnTable
    BY ZenonT(60), <2>1, <2>6, <2>7 DEF ConnTable
  <2>9. events' \in EventTable /\ sock' \in SockTable
    BY <2>1, <2>4, <2>5 DEF sent
  <2> QED
    BY <1>2, <2>8, <2>9 DEF WriteOk, ConnectTyped
<1>3. CASE WriteRetry(c)
  BY <1>3, StartedType DEF WriteRetry, ConnectTyped
<1>4. CASE WriteError(c)
  <2>1. Raise(errors, "write") \in ErrorCounts
    BY RaiseType
  <2>2. ConnectTyped
    BY <1>4, <2>1, StartedType, ReconnectType DEF WriteError
  <2> QED
    BY <1>4, <2>2 DEF WriteError
<1> QED
  BY <1>1, <1>2, <1>3, <1>4 DEF socket_writeable

LoopTyped ==
    /\ pc' \in {"setup", "poll", "fetch", "parse", "file_w", "time", "stopped"}
    /\ fired' \in [Fds -> SUBSET Mask]
    /\ cur' \in Fds \cup {NoFd}
    /\ rfired' \in BOOLEAN
    /\ reader' \in Conns \cup {NoFd}
    /\ buf' \in Seq(Item \cup {"notfinal"})

\* socket_readable up to the parser.
LEMMA ReadableType ==
  ASSUME TypeOK, NEW c \in Conns, NEW fd \in Fds \cup {NoFd}, socket_readable(c, fd)
  PROVE  ConnectTyped /\ LoopTyped
<1> USE DEF TypeOK
<1> DEFINE rx == SocketOf(c).rx
<1>1. rx \in Seq(Item)
  BY SocketOfType DEF SockRecord
<1>2. CASE ReadData(c, fd)
  <2>1. PICK n \in 1..Len(rx) :
          /\ buf' = SubSeq(rx, 1, n)
          /\ sock' = [sock EXCEPT ![conn[c].fd].rx = SubSeq(rx, n + 1, Len(rx))]
    BY <1>2 DEF ReadData
  <2>2. SubSeq(rx, 1, n) \in Seq(Item) /\ SubSeq(rx, n + 1, Len(rx)) \in Seq(Item)
    <3> HIDE DEF rx
    <3> QED
      BY <1>1
  <2> HIDE DEF rx
  <2>3. buf' \in Seq(Item \cup {"notfinal"})
    BY <2>1, <2>2
  <2>4. sock' \in SockTable
    BY ZenonT(60), <2>1, <2>2 DEF SockTable
  <2> QED
    BY <1>2, <2>3, <2>4 DEF ReadData, StartParse, ConnectTyped, LoopTyped
<1>3. CASE ReadEof(c, fd)
  <2>1. <<"fin">> \in Seq(Item \cup {"notfinal"})
    BY DEF Item, Ends
  <2> QED
    BY <1>3, <2>1 DEF ReadEof, StartParse, ConnectTyped, LoopTyped
<1>4. CASE ReadError(c, fd)
  <2>1. Raise(errors, "read") \in ErrorCounts
    BY RaiseType
  <2>2. ConnectTyped
    BY <1>4, <2>1, ReconnectType DEF ReadError
  <2> QED
    BY <1>4, <2>2 DEF ReadError, AfterR, LoopTyped
<1>5. CASE ReadRetry(c, fd)
  BY <1>5 DEF ReadRetry, AfterR, ConnectTyped, LoopTyped
<1> QED
  BY <1>2, <1>3, <1>4, <1>5 DEF socket_readable

\* The connection after a response.
LEMMA ResponseConnType ==
  ASSUME TypeOK, NEW c \in Conns, NEW keepalive \in BOOLEAN,
         NEW left, left = (conn[c].pending - 1) % PendingMod
  PROVE  [conn EXCEPT ![c].hdrs    = script_response(@),
                      ![c].pending = left,
                      ![c].delayed = IF CycleOver(left) THEN Delay ELSE @,
                      ![c].parser  = IF keepalive THEN "start" ELSE "dead"] \in ConnTable
<1> USE DEF TypeOK
<1> DEFINE cn   == [conn EXCEPT ![c].hdrs    = script_response(@),
                                ![c].pending = left,
                                ![c].delayed = IF CycleOver(left) THEN Delay ELSE @,
                                ![c].parser  = IF keepalive THEN "start" ELSE "dead"]
<1>1. left \in 0..(PendingMod - 1)
  <2>1. \A k \in Int, m \in Nat \ {0} : k % m \in 0..(m - 1)
    OBVIOUS
  <2>2. conn[c].pending - 1 \in Int
    BY DEF ConnTable
  <2>3. PendingMod \in Nat \ {0}
    BY WrkThreadAssumption
  <2> QED
    BY <2>1, <2>2, <2>3
<1>2. (IF CycleOver(left) THEN Delay ELSE conn[c].delayed) \in BOOLEAN
  <2>1. conn[c].delayed \in BOOLEAN
    BY DEF ConnTable
  <2> QED
    BY <2>1, WrkThreadAssumption, Zenon
<1>3. cn \in ConnTable
  <2> DEFINE d == IF CycleOver(left) THEN Delay ELSE conn[c].delayed
             p == IF keepalive THEN "start" ELSE "dead"
             cn1 == [conn EXCEPT ![c].hdrs = 0]
             cn2 == [cn1 EXCEPT ![c].pending = left]
             cn3 == [cn2 EXCEPT ![c].delayed = d]
  <2>1. cn1 \in ConnTable
    <3>1. conn \in ConnTable /\ 0 \in 0..2
      OBVIOUS
    <3> HIDE DEF TypeOK, cn, d, p
    <3> QED
      BY <3>1 DEF ConnTable
  <2>2. cn2 \in ConnTable
    <3> HIDE DEF cn1
    <3> QED
      BY ZenonT(60), <1>1, <2>1 DEF ConnTable
  <2>3. cn3 \in ConnTable
    <3> HIDE DEF cn2, d
    <3>1. d \in BOOLEAN
      BY <1>2 DEF d
    <3> QED
      BY <2>2, <3>1, ZenonT(60) DEF ConnTable
  <2>4. [cn3 EXCEPT ![c].parser = p] \in ConnTable
    <3> HIDE DEF cn3, p
    <3>1. p \in {"start", "dead"}
      BY DEF p
    <3> QED
      BY ZenonT(60), <2>3, <3>1 DEF ConnTable
  <2>5. cn = [cn3 EXCEPT ![c].parser = p]
    <3> HIDE DEF d, p
    <3> QED
      BY DEF script_response, d, p, ConnTable
  <2> QED
    BY <2>4, <2>5, Zenon
<1> QED
  BY <1>3

\* response_complete, with or without the reconnect.
LEMMA ResponseType ==
  ASSUME TypeOK, NEW c \in Conns, NEW keepalive \in BOOLEAN,
         response_complete(c, keepalive)
  PROVE  ConnectTyped
<1> USE DEF TypeOK
<1> DEFINE left == (conn[c].pending - 1) % PendingMod
           cn   == [conn EXCEPT ![c].hdrs    = script_response(@),
                                ![c].pending = left,
                                ![c].delayed = IF CycleOver(left) THEN Delay ELSE @,
                                ![c].parser  = IF keepalive THEN "start" ELSE "dead"]
           reg  == IF CycleOver(left)
                   THEN aeCreateFileEvent(events, sock, conn[c].fd, {"W"},
                                          "socket_writeable", c)
                   ELSE [ev |-> events, sk |-> sock]
<1>3. cn \in ConnTable
  BY ResponseConnType
<1> HIDE DEF left
<1>4. reg.ev \in EventTable /\ reg.sk \in SockTable
  <2>1. conn[c].fd \in Fds \cup {NoFd}
    BY DEF ConnTable
  <2> QED
    BY <2>1, CreateType DEF Mask, Procs
<1> HIDE DEF cn, reg
<1>5. CASE keepalive
  <2>1. conn' = cn /\ events' = reg.ev /\ sock' = reg.sk /\ UNCHANGED <<errors, faults>>
    BY <1>5 DEF response_complete, cn, reg, left
  <2> QED
    BY <1>3, <1>4, <2>1 DEF ConnectTyped
<1>6. CASE ~keepalive
  <2>1. reconnect_socket(c, reg.ev, reg.sk, cn, errors)
    BY <1>6 DEF response_complete, cn, reg, left
  <2> QED
    BY <1>3, <1>4, <2>1, ReconnectType
<1> QED
  BY <1>5, <1>6

\* One step of http_parser_execute.
LEMMA ParseType ==
  ASSUME TypeOK, NEW c \in Conns, Parse(c)
  PROVE  ConnectTyped /\ LoopTyped
<1> USE DEF TypeOK
<1>1. Tail(buf) \in Seq(Item \cup {"notfinal"})
  BY DEF Parse
<1>2. buf' \in Seq(Item \cup {"notfinal"})
  <2>1. <<"notfinal">> \in Seq(Item \cup {"notfinal"})
    OBVIOUS
  <2>2. buf' \in {Tail(buf), <<"notfinal">>}
    BY DEF Parse, Resume
  <2> QED
    BY <1>1, <2>1, <2>2
<1>3. LoopTyped
  BY <1>2 DEF Parse, LoopTyped
<1>4. CASE header_field(c)
  <2>1. conn' = [conn EXCEPT ![c].parser = "head",
                   ![c].hdrs = IF WantResponse /\ @ < 2 THEN @ + 1 ELSE @]
    BY <1>4 DEF header_field
  <2>2. (IF WantResponse /\ conn[c].hdrs < 2 THEN conn[c].hdrs + 1 ELSE conn[c].hdrs) \in 0..2
    <3>1. conn[c].hdrs \in 0..2
      BY DEF ConnTable
    <3> QED
      BY <3>1
  <2>3. conn' \in ConnTable
    <3> DEFINE h == IF WantResponse /\ conn[c].hdrs < 2 THEN conn[c].hdrs + 1 ELSE conn[c].hdrs
    <3>1. conn' = [conn EXCEPT ![c].parser = "head", ![c].hdrs = h]
      BY <2>1
    <3>2. h \in 0..2
      BY <2>2
    <3> HIDE DEF h
    <3> QED
      BY ZenonT(60), <3>1, <3>2 DEF ConnTable
  <2> QED
    BY <1>3, <1>4, <2>3 DEF header_field, ConnectTyped
<1>5. CASE EofBody(c)
  <2>1. conn' \in ConnTable
    BY ZenonT(60), <1>5 DEF EofBody, ConnTable
  <2> QED
    BY <1>3, <1>5, <2>1 DEF EofBody, ConnectTyped
<1>6. CASE \E keepalive \in BOOLEAN : response_complete(c, keepalive)
  BY <1>3, <1>6, ResponseType
<1>8. (Head(buf) = "keep") \in BOOLEAN
  OBVIOUS
<1> QED
  BY <1>4, <1>5, <1>6, <1>8, Zenon DEF Parse

\* Its error, and the return from socket_readable.
LEMMA ParseErrorType ==
  ASSUME TypeOK, NEW c \in Conns, ParseError(c)
  PROVE  ConnectTyped /\ LoopTyped
<1> USE DEF TypeOK
<1>1. Raise(errors, "read") \in ErrorCounts
  BY RaiseType
<1>2. ConnectTyped
  BY <1>1, ReconnectType DEF ParseError
<1> QED
  BY <1>2 DEF ParseError, AfterR, LoopTyped

-----------------------------------------------------------------------------
(* The type invariant *)

Typed == ConnectTyped /\ LoopTyped
         /\ toConnect' \subseteq Conns /\ timers' \in [Conns -> Nat]
         /\ stop' \in BOOLEAN /\ loopStop' \in BOOLEAN

\* Typed is TypeOK of the next state.
LEMMA TypedIsTypeOK == Typed => TypeOK'
  BY DEF Typed, ConnectTyped, LoopTyped, TypeOK

\* A step that leaves the tables alone keeps them typed.
LEMMA QuietType ==
  ASSUME TypeOK, UNCHANGED <<events, conn, sock, errors, faults>>
  PROVE  ConnectTyped
  BY DEF TypeOK, ConnectTyped

\* A handler called for either event returns to the loop.
LEMMA AfterType ==
  ASSUME TypeOK, NEW fd \in Fds \cup {NoFd}, AfterR(fd) \/ AfterW(fd),
         UNCHANGED <<reader, buf>>
  PROVE  LoopTyped
  BY DEF TypeOK, AfterR, AfterW, LoopTyped

\* Steps of the thread that a connection takes.
LEMMA ConnStepType ==
  ASSUME TypeOK, NEW c \in Conns,
         \/ thread_main(c) \/ Parse(c) \/ ParseError(c)
         \/ ReadAgain(c) \/ ReadDone(c) \/ delay_request(c)
  PROVE  TypeOK'
<1> SUFFICES Typed
  BY TypedIsTypeOK
<1> USE DEF TypeOK
<1>1. CASE thread_main(c)
  <2>1. ConnectTyped
    BY <1>1, ConnectType DEF thread_main
  <2> QED
    BY <1>1, <2>1 DEF thread_main, loopVars, Typed, LoopTyped
<1>2. CASE Parse(c)
  BY <1>2, ParseType DEF Parse, Typed
<1>3. CASE ReadAgain(c)
  <2>1. ConnectTyped /\ LoopTyped
    BY <1>3, ReadableType DEF ReadAgain
  <2> QED
    BY <1>3, <2>1 DEF ReadAgain, socket_readable, Typed
<1>4. CASE ReadDone(c)
  <2>1. ConnectTyped
    BY <1>4, QuietType DEF ReadDone
  <2>2. LoopTyped
    BY <1>4 DEF ReadDone, AfterR, LoopTyped
  <2> QED
    BY <1>4, <2>1, <2>2 DEF ReadDone, Typed
<1>5. CASE delay_request(c)
  <2> DEFINE w == aeCreateFileEvent(events, sock, conn[c].fd, {"W"}, "socket_writeable", c)
  <2>1. conn[c].fd \in Fds \cup {NoFd}
    BY DEF ConnTable
  <2>2. w.ev \in EventTable /\ w.sk \in SockTable
    BY <2>1, CreateType DEF Mask, Procs
  <2> HIDE DEF w
  <2>3. events' = w.ev /\ sock' = w.sk
    BY <1>5 DEF delay_request, w
  <2>4. conn' \in ConnTable
    BY ZenonT(60), <1>5 DEF delay_request, ConnTable
  <2>5. timers' \in [Conns -> Nat]
    BY <1>5 DEF delay_request
  <2> QED
    BY <1>5, <2>2, <2>3, <2>4, <2>5
    DEF delay_request, loopVars, Typed, ConnectTyped, LoopTyped
<1>6. CASE ParseError(c)
  BY <1>6, ParseErrorType DEF ParseError, Typed
<1> QED
  BY <1>1, <1>2, <1>3, <1>4, <1>5, <1>6

\* Steps of the thread on one fired descriptor.
LEMMA DispatchType ==
  ASSUME TypeOK, NEW fd \in Fds, NEW c \in Conns,
         DispatchR(fd, c) \/ DispatchW(fd, c)
  PROVE  TypeOK'
<1> SUFFICES Typed
  BY TypedIsTypeOK
<1> USE DEF TypeOK
<1>1. CASE socket_connected(c, fd) /\ (AfterR(fd) \/ AfterW(fd))
  <2>1. ConnectTyped
    BY <1>1, ConnectedType
  <2>2. UNCHANGED <<toConnect, reader, buf, timers, stop, loopStop>>
    BY <1>1 DEF socket_connected
  <2>3. LoopTyped
    BY <1>1, <2>2, AfterType
  <2> QED
    BY <2>1, <2>2, <2>3 DEF Typed
<1>2. CASE socket_writeable(c, fd) /\ AfterW(fd)
  <2>1. ConnectTyped /\ timers' \in [Conns -> Nat]
    BY <1>2, WriteableType
  <2>2. UNCHANGED <<toConnect, reader, buf, stop, loopStop>>
    BY <1>2 DEF socket_writeable
  <2>3. LoopTyped
    BY <1>2, <2>2, AfterType
  <2> QED
    BY <2>1, <2>2, <2>3 DEF Typed
<1>3. CASE socket_readable(c, fd)
  BY <1>3, ReadableType DEF socket_readable, Typed
<1> QED
  BY <1>1, <1>2, <1>3 DEF DispatchR, DispatchW

\* Steps of the event loop that call no handler of a connection.
LEMMA LoopStepType ==
  ASSUME TypeOK,
         \/ \E fd \in Fds : SkipR(fd) \/ SkipW(fd)
         \/ aeMain \/ aeApiPoll \/ FiredDone \/ record_rate \/ EndTime
  PROVE  TypeOK'
<1> SUFFICES Typed
  BY TypedIsTypeOK
<1> USE DEF TypeOK
<1>1. ASSUME NEW fd \in Fds, SkipR(fd) \/ SkipW(fd) PROVE Typed
  BY <1>1 DEF SkipR, SkipW, AfterW, Typed, LoopTyped, ConnectTyped
<1>2. CASE aeApiPoll
  <2>1. \A fd \in Fds : Ready(fd) \in SUBSET Mask
    BY DEF Ready, SockTable, Mask
  <2>2. fired' \in [Fds -> SUBSET Mask]
    BY <1>2, <2>1 DEF aeApiPoll
  <2> QED
    BY <1>2, <2>2 DEF aeApiPoll, Typed, LoopTyped, ConnectTyped
<1>3. CASE aeMain \/ FiredDone \/ EndTime
  BY <1>3 DEF aeMain, FiredDone, EndTime, Typed, LoopTyped, ConnectTyped
<1>4. CASE record_rate
  BY <1>4 DEF record_rate, loopVars, Typed, LoopTyped, ConnectTyped
<1> QED
  BY <1>1, <1>2, <1>3, <1>4

\* A socket after an answer or an end of its stream.
LEMMA StreamType ==
  ASSUME NEW sk \in SockTable, NEW fd \in Fds, NEW rx \in Seq(Item), NEW due \in Nat,
         NEW got \in 0..(ReqLen - 1)
  PROVE  [sk EXCEPT ![fd].rx = rx, ![fd].due = due, ![fd].got = got] \in SockTable
<1> DEFINE s1 == [sk EXCEPT ![fd].rx = rx]
           s2 == [s1 EXCEPT ![fd].due = due]
           s3 == [s2 EXCEPT ![fd].got = got]
<1>1. s1 \in SockTable
  BY DEF SockTable
<1>2. s2 \in SockTable
  <2> HIDE DEF s1
  <2> QED
    BY <1>1 DEF SockTable
<1>3. s3 \in SockTable
  <2> HIDE DEF s2
  <2> QED
    BY <1>2 DEF SockTable
<1>4. [sk EXCEPT ![fd].rx = rx, ![fd].due = due, ![fd].got = got] = s3
  OBVIOUS
<1> QED
  BY <1>3, <1>4, Zenon

\* Steps of the environment.
LEMMA EnvironmentType ==
  ASSUME TypeOK, Environment
  PROVE  TypeOK'
<1> SUFFICES Typed
  BY TypedIsTypeOK
<1> USE DEF TypeOK
<1>1. ASSUME sock' \in SockTable, faults' \in 0..MaxFaults, stop' \in BOOLEAN, EnvUnchanged
      PROVE  Typed
  BY <1>1 DEF EnvUnchanged, Typed, ConnectTyped, LoopTyped
<1>2. ASSUME NEW fd \in Fds, Establish(fd) \/ Refuse(fd) PROVE Typed
  <2>1. sock' \in SockTable
    <3>1. PICK st \in {"up", "refused"} : sock' = [sock EXCEPT ![fd].st = st]
      BY <1>2 DEF Establish, Refuse
    <3> QED
      BY <3>1, ZenonT(60) DEF SockTable, Live
  <2>2. faults' \in 0..MaxFaults
    BY <1>2, WrkThreadAssumption DEF Establish, Refuse
  <2> QED
    BY <1>1, <1>2, <2>1, <2>2 DEF Establish, Refuse
<1>3. ASSUME NEW fd \in Fds, ForeignClose(fd) PROVE Typed
  <2>1. sock' \in SockTable
    BY <1>3, FreeSockType DEF ForeignClose, SockTable
  <2> QED
    BY <1>1, <1>3, <2>1 DEF ForeignClose
<1>4. ASSUME NEW fd \in Fds, NEW kind \in Kinds, Respond(fd, kind) PROVE Typed
  <2> DEFINE tail == IF kind = "keep" THEN <<"head", "keep">> ELSE <<"head", kind, "fin">>
             rx   == sock[fd].rx \o tail
             due  == IF kind = "keep" THEN sock[fd].due - 1 ELSE 0
             got  == IF kind = "keep" THEN sock[fd].got ELSE 0
  <2>1. tail \in Seq(Item)
    <3>1. "head" \in Item /\ "keep" \in Item /\ "fin" \in Item
      BY DEF Item, Data, Ends, AllKinds
    <3>2. kind \in Item
      BY WrkThreadAssumption DEF Item, Data
    <3>3. <<"head", "keep">> \in Seq(Item) /\ <<"head", kind, "fin">> \in Seq(Item)
      BY <3>1, <3>2
    <3> QED
      BY <3>3, Zenon
  <2>2. rx \in Seq(Item)
    <3>1. sock[fd].rx \in Seq(Item)
      BY DEF SockTable
    <3> HIDE DEF tail
    <3> QED
      BY <2>1, <3>1, ConcatProperties
  <2>3. due \in Nat
    <3>1. sock[fd].due \in Nat /\ sock[fd].due > 0
      BY <1>4 DEF SockTable, Respond
    <3> QED
      BY <3>1
  <2>4. got \in 0..(ReqLen - 1)
    <3>1. sock[fd].got \in 0..(ReqLen - 1)
      BY DEF SockTable
    <3> QED
      BY <3>1, WrkThreadAssumption
  <2>5. sock' = [sock EXCEPT ![fd].rx = rx, ![fd].due = due, ![fd].got = got]
    BY <1>4 DEF Respond
  <2> HIDE DEF rx, due, got
  <2>6. sock' \in SockTable
    BY <2>2, <2>3, <2>4, <2>5, StreamType
  <2> QED
    BY <1>1, <1>4, <2>6 DEF Respond
<1>5. ASSUME NEW fd \in Fds, ServerFails(fd) PROVE Typed
  <2>1. PICK n \in 0..Len(sock[fd].rx), e \in Ends :
          sock' = [sock EXCEPT ![fd].rx = Append(SubSeq(@, 1, n), e),
                               ![fd].due = 0, ![fd].got = 0]
    BY <1>5 DEF ServerFails
  <2> DEFINE rx == Append(SubSeq(sock[fd].rx, 1, n), e)
  <2>2. rx \in Seq(Item)
    <3>1. sock[fd].rx \in Seq(Item)
      BY DEF SockTable
    <3>2. SubSeq(sock[fd].rx, 1, n) \in Seq(Item)
      BY <3>1
    <3>3. e \in Item
      BY DEF Item
    <3> QED
      BY <3>2, <3>3, AppendProperties
  <2>3. sock' = [sock EXCEPT ![fd].rx = rx, ![fd].due = 0, ![fd].got = 0]
    BY <2>1
  <2>4. 0 \in 0..(ReqLen - 1) /\ faults' \in 0..MaxFaults
    BY <1>5, WrkThreadAssumption DEF ServerFails
  <2> HIDE DEF rx
  <2>5. sock' \in SockTable
    BY <2>2, <2>3, <2>4, StreamType
  <2> QED
    BY <1>1, <1>5, <2>4, <2>5 DEF ServerFails
<1>6. CASE SetStop
  BY <1>1, <1>6 DEF SetStop
<1>7. ASSUME NEW fd \in Fds, ForeignOpen(fd) PROVE Typed
  <2>1. PICK rx \in {<<>>, <<"head", "keep">>} :
          sock' = [sock EXCEPT ![fd].st = "foreign", ![fd].rx = rx]
    BY <1>7 DEF ForeignOpen
  <2>2. rx \in Seq(Item)
    <3>1. "head" \in Item /\ "keep" \in Item
      BY DEF Item, Data, AllKinds
    <3>2. <<>> \in Seq(Item) /\ <<"head", "keep">> \in Seq(Item)
      BY <3>1
    <3> QED
      BY <3>2
  <2>3. sock' \in SockTable
    BY ZenonT(60), <2>1, <2>2 DEF SockTable
  <2> QED
    BY <1>1, <1>7, <2>3 DEF ForeignOpen
<1> QED
  BY <1>2, <1>3, <1>4, <1>5, <1>6, <1>7 DEF Environment

\* The initial state is well formed.
LEMMA InitType == Init => TypeOK
<1> SUFFICES ASSUME Init PROVE TypeOK
  OBVIOUS
<1>1. events \in EventTable
  BY DEF Init, NoEvent, EventTable, Procs
<1>2. sock \in SockTable
  BY FreeSockType DEF Init, SockTable
<1>3. conn \in ConnTable
  <2>1. 0 \in 0..(PendingMod - 1) /\ 0 \in 0..2 /\ Delay \in BOOLEAN
    BY WrkThreadAssumption
  <2> QED
    BY <2>1, LengthType DEF Init, ConnTable
<1>4. buf \in Seq(Item \cup {"notfinal"}) /\ faults \in 0..MaxFaults
  BY WrkThreadAssumption DEF Init
<1>5. errors \in ErrorCounts
  BY DEF Init, ErrorCounts
<1> QED
  BY <1>1, <1>2, <1>3, <1>4, <1>5 DEF Init, TypeOK

\* The type invariant of the worker thread holds for every configuration: in
\* particular c->written stays below c->length, c->pending in its width and
\* every number in c->fd, the event table and the timers a valid one.
THEOREM ThreadTypeCorrect == Spec => []TypeOK
<1>1. Init => TypeOK
  BY InitType
<1>2. TypeOK /\ [Next]_vars => TypeOK'
  <2> SUFFICES ASSUME TypeOK, [Next]_vars PROVE TypeOK'
    OBVIOUS
  <2>1. CASE Environment
    BY <2>1, EnvironmentType
  <2>2. CASE Thread
    BY <2>2, ConnStepType, DispatchType, LoopStepType DEF Thread
  <2>3. CASE UNCHANGED vars
    BY <2>3 DEF vars, TypeOK
  <2> QED
    BY <2>1, <2>2, <2>3 DEF Next
<1> QED
  BY <1>1, <1>2, PTL DEF Spec

-----------------------------------------------------------------------------
(***************************************************************************)
(* Descriptor ownership: proofs of FdOwnership, InterestInSync and         *)
(* NoForeignClose, with the numbers shared with other threads or not.      *)
(*                                                                         *)
(* They hold where socket(), connect() and aeCreateFileEvent succeed (the  *)
(* two premises of each lemma that needs them); a connection that failed   *)
(* to reconnect keeps a number that may be given to somebody else.         *)
(***************************************************************************)

\* The strengthening.  The connections of C own the descriptors; in the middle
\* of reconnect_socket(c), C is all connections but c.
Tables(ev, sk, cn) == ev \in EventTable /\ sk \in SockTable /\ cn \in ConnTable

\* The table of events and the epoll set agree.
Synced(ev, sk) == \A fd \in Fds : sk[fd].ep = ev[fd].mask

\* A registered event is that of a live socket, watched for reading, of the
\* connection of C whose c->fd it is.
EventsOwned(C, ev, sk, cn) ==
    \A fd \in Fds : ev[fd].mask # {} => /\ "R" \in ev[fd].mask
                                        /\ sk[fd].st \in Live
                                        /\ ev[fd].data \in C
                                        /\ cn[ev[fd].data].fd = fd

\* Every live socket has an event.
SocketsWatched(ev, sk) == \A fd \in Fds : sk[fd].st \in Live => ev[fd].mask # {}

\* The c->fd of a connection of C, when it has one, is registered for it.
FdsOwned(C, ev, cn) ==
    \A c \in C : cn[c].fd \in Fds => /\ ev[cn[c].fd].mask # {}
                                     /\ ev[cn[c].fd].data = c

OwnedBy(C, ev, sk, cn) ==
    /\ Tables(ev, sk, cn)
    /\ Synced(ev, sk)
    /\ EventsOwned(C, ev, sk, cn)
    /\ SocketsWatched(ev, sk)
    /\ FdsOwned(C, ev, cn)

Owned(ev, sk, cn) == OwnedBy(Conns, ev, sk, cn)

OwnershipInv ==
    /\ TypeOK
    /\ Owned(events, sock, conn)
    /\ toConnect # {} => pc = "setup"
    /\ \A c \in toConnect : conn[c].fd = NoFd

\* From sk to sk2 the sockets of other threads stay theirs, and no more are.
Keeps(sk, sk2) == \A fd \in Fds : sk[fd].st = "foreign" <=> sk2[fd].st = "foreign"

\* The sockets of other threads survive a sequence of operations when they
\* survive each.
LEMMA KeepsTransitive ==
  ASSUME NEW s1, NEW s2, NEW s3, Keeps(s1, s2), Keeps(s2, s3)
  PROVE  Keeps(s1, s3)
  BY DEF Keeps

\* The strengthening implies the two invariants.
LEMMA OwnedImplies ==
  ASSUME OwnershipInv PROVE FdOwnership /\ InterestInSync
  BY DEF OwnershipInv, Owned, OwnedBy, Synced, EventsOwned, SocketsWatched,
     FdOwnership, InterestInSync

-----------------------------------------------------------------------------
(* The operations of ae.c *)

\* A change of the mask of one event that goes on watching for reading.
Rewatched(fd, ev, sk, ev2, sk2) ==
    /\ ev[fd].mask # {}
    /\ ev2 \in EventTable /\ sk2 \in SockTable
    /\ \A f \in Fds \ {fd} : ev2[f] = ev[f] /\ sk2[f] = sk[f]
    /\ "R" \in ev2[fd].mask /\ ev2[fd].data = ev[fd].data
    /\ sk2[fd].ep = ev2[fd].mask /\ sk2[fd].st = sk[fd].st

\* It leaves the ownership of descriptors as it is.
LEMMA MaskChange ==
  ASSUME NEW ev, NEW sk, NEW cn, Owned(ev, sk, cn), NEW fd \in Fds,
         NEW ev2, NEW sk2, Rewatched(fd, ev, sk, ev2, sk2)
  PROVE  Owned(ev2, sk2, cn) /\ Keeps(sk, sk2)
<1> USE DEF Owned, OwnedBy, Rewatched
<1>1. Tables(ev2, sk2, cn)
  BY DEF Tables
<1>2. Synced(ev2, sk2)
  BY DEF Synced
<1>3. EventsOwned(Conns, ev2, sk2, cn)
  BY DEF EventsOwned
<1>4. SocketsWatched(ev2, sk2)
  BY DEF SocketsWatched
<1>5. FdsOwned(Conns, ev2, cn)
  BY DEF FdsOwned
<1>6. Keeps(sk, sk2)
  BY DEF Keeps
<1> QED
  BY <1>1, <1>2, <1>3, <1>4, <1>5, <1>6

\* aeCreateFileEvent for the descriptor of the connection.
LEMMA CreateOwned ==
  ASSUME NEW ev, NEW sk, NEW cn, Owned(ev, sk, cn), NEW c \in Conns,
         NEW mask \in SUBSET Mask, NEW proc \in Procs
  PROVE  LET r == aeCreateFileEvent(ev, sk, cn[c].fd, mask, proc, c)
         IN  Owned(r.ev, r.sk, cn) /\ Keeps(sk, r.sk)
<1> DEFINE fd == cn[c].fd
           ev2 == AddEvent(ev, fd, mask, proc, c)
           sk2 == AddInterest(ev, sk, fd, mask)
<1>1. CASE fd \in Fds
  <2>1. ev \in EventTable /\ sk \in SockTable /\ cn \in ConnTable
    BY DEF Owned, OwnedBy, Tables
  <2>2. ev2 \in EventTable /\ sk2 \in SockTable
    BY <1>1, <2>1, AddEventType, AddInterestType
  <2>3. /\ \A f \in Fds \ {fd} : ev2[f] = ev[f] /\ sk2[f] = sk[f]
        /\ ev2[fd].mask = ev[fd].mask \cup mask /\ ev2[fd].data = c
        /\ sk2[fd].ep = ev[fd].mask \cup mask /\ sk2[fd].st = sk[fd].st
    BY <1>1, <2>1 DEF AddEvent, AddInterest, EventTable, SockTable
  <2>4. ev[fd].mask # {} /\ ev[fd].data = c /\ "R" \in ev[fd].mask /\ sk[fd].st \in Live
    BY <1>1 DEF Owned, OwnedBy, FdsOwned, EventsOwned
  <2>5. Rewatched(fd, ev, sk, ev2, sk2)
    <3> HIDE DEF ev2, sk2
    <3> QED
      BY <2>2, <2>3, <2>4 DEF Rewatched
  <2> DEFINE r == aeCreateFileEvent(ev, sk, fd, mask, proc, c)
  <2>7. (r.ev = ev2 /\ r.sk = sk2) \/ (r.ev = ev /\ r.sk = sk)
    BY DEF aeCreateFileEvent
  <2> HIDE DEF ev2, sk2, r, fd, Owned
  <2>8. Owned(r.ev, r.sk, cn) /\ Keeps(sk, r.sk)
    <3>1. Keeps(sk, sk)
      BY DEF Keeps
    <3> QED
      BY <1>1, <2>5, <2>7, <3>1, MaskChange, Zenon DEF fd
  <2> QED
    BY <2>8 DEF r, fd
<1>2. CASE fd \notin Fds
  BY <1>2 DEF aeCreateFileEvent, Keeps
<1> QED
  BY <1>1, <1>2

\* aeDeleteFileEvent for writing: the descriptor is still watched for reading.
LEMMA DeleteOwned ==
  ASSUME NEW ev, NEW sk, NEW cn, Owned(ev, sk, cn), NEW fd \in Fds
  PROVE  LET d == aeDeleteFileEvent(ev, sk, fd, {"W"})
         IN  Owned(d.ev, d.sk, cn) /\ Keeps(sk, d.sk)
<1> DEFINE d == aeDeleteFileEvent(ev, sk, fd, {"W"})
<1>1. ev \in EventTable /\ sk \in SockTable /\ cn \in ConnTable
  BY DEF Owned, OwnedBy, Tables
<1>2. d.ev \in EventTable /\ d.sk \in SockTable
  BY <1>1, DeleteType DEF Mask
<1>3. CASE fd \in Registrable /\ ev[fd].mask # {}
  <2>1. sk[fd].ep # {} /\ "R" \in ev[fd].mask
    BY <1>3 DEF Owned, OwnedBy, Synced, EventsOwned
  <2>2. d.ev = [ev EXCEPT ![fd].mask = @ \ {"W"}]
        /\ d.sk = [sk EXCEPT ![fd].ep = ev[fd].mask \ {"W"}]
    BY <1>3, <2>1 DEF aeDeleteFileEvent
  <2>3. /\ \A f \in Fds \ {fd} : d.ev[f] = ev[f] /\ d.sk[f] = sk[f]
        /\ d.ev[fd].mask = ev[fd].mask \ {"W"} /\ d.ev[fd].data = ev[fd].data
        /\ d.sk[fd].ep = ev[fd].mask \ {"W"} /\ d.sk[fd].st = sk[fd].st
    <3> HIDE DEF d
    <3> QED
      BY <1>1, <2>2 DEF EventTable, SockTable
  <2> HIDE DEF d
  <2>4. Rewatched(fd, ev, sk, d.ev, d.sk)
    BY <1>2, <1>3, <2>1, <2>3 DEF Rewatched
  <2> HIDE DEF Owned
  <2>5. Owned(d.ev, d.sk, cn) /\ Keeps(sk, d.sk)
    BY <2>4, MaskChange, Zenon
  <2> QED
    BY <2>5 DEF d
<1>4. CASE ~(fd \in Registrable /\ ev[fd].mask # {})
  BY <1>4 DEF aeDeleteFileEvent, Keeps
<1> QED
  BY <1>3, <1>4

-----------------------------------------------------------------------------
(* Reconnecting *)

\* The first half of reconnect_socket, up to close(c->fd): every
\* other connection owns what it owned, and c->fd is free.
LEMMA ReleaseOwned ==
  ASSUME Registrable = Fds,
         NEW ev, NEW sk, NEW cn, Owned(ev, sk, cn), NEW c \in Conns
  PROVE  LET del == aeDeleteFileEvent(ev, sk, cn[c].fd, Mask)
             sk2 == CloseFd(del.sk, cn[c].fd)
         IN  /\ OwnedBy(Conns \ {c}, del.ev, sk2, cn)
             /\ Keeps(sk, sk2)
             /\ cn[c].fd \in Fds => Free(sk2) # {}
<1> DEFINE fd  == cn[c].fd
           del == aeDeleteFileEvent(ev, sk, fd, Mask)
           sk2 == CloseFd(del.sk, fd)
<1>1. ev \in EventTable /\ sk \in SockTable /\ cn \in ConnTable
  BY DEF Owned, OwnedBy, Tables
<1>2. fd \in Fds \cup {NoFd}
  BY <1>1 DEF ConnTable
<1>3. del.ev \in EventTable /\ del.sk \in SockTable
  BY <1>1, <1>2, DeleteType
<1>4. sk2 \in SockTable
  BY <1>2, <1>3, CloseType
<1>5. CASE fd \in Fds
  <2>1. ev[fd].mask # {} /\ ev[fd].data = c /\ sk[fd].st \in Live /\ sk[fd].ep # {}
    BY <1>5 DEF Owned, OwnedBy, Synced, EventsOwned, FdsOwned
  <2>2. del.ev = [ev EXCEPT ![fd].mask = @ \ Mask]
        /\ del.sk = [sk EXCEPT ![fd].ep = ev[fd].mask \ Mask]
    BY <1>5, <2>1 DEF aeDeleteFileEvent
  <2>3. sk2 = [del.sk EXCEPT ![fd] = FreeSock]
    BY <1>5 DEF CloseFd
  <2>4. /\ \A f \in Fds \ {fd} : del.ev[f] = ev[f] /\ sk2[f] = sk[f]
        /\ del.ev[fd].mask = {} /\ sk2[fd] = FreeSock
    <3>1. ev[fd].mask \ Mask = {}
      BY <1>1, <1>5 DEF EventTable
    <3> HIDE DEF del, sk2
    <3> QED
      BY <1>1, <1>5, <2>2, <2>3, <3>1 DEF EventTable, SockTable
  <2> HIDE DEF del, sk2
  <2>5. \A f \in Fds \ {fd} : ev[f].mask # {} => ev[f].data # c
    BY DEF Owned, OwnedBy, EventsOwned
  <2>6. \A d \in Conns \ {c} : cn[d].fd # fd
    BY <1>5, <2>1 DEF Owned, OwnedBy, FdsOwned
  <2>7. OwnedBy(Conns \ {c}, del.ev, sk2, cn)
    <3>1. Tables(del.ev, sk2, cn)
      BY <1>1, <1>3, <1>4 DEF Tables
    <3>2. Synced(del.ev, sk2)
      <4>1. sk2[fd].ep = del.ev[fd].mask
        BY <2>4 DEF FreeSock
      <4>2. \A f \in Fds \ {fd} : sk2[f].ep = del.ev[f].mask
        BY <2>4 DEF Owned, OwnedBy, Synced
      <4> QED
        BY <4>1, <4>2 DEF Synced
    <3>3. EventsOwned(Conns \ {c}, del.ev, sk2, cn)
      BY <2>4, <2>5 DEF Owned, OwnedBy, EventsOwned
    <3>4. SocketsWatched(del.ev, sk2)
      BY <2>4 DEF Owned, OwnedBy, SocketsWatched, FreeSock, Live
    <3>5. FdsOwned(Conns \ {c}, del.ev, cn)
      BY <2>4, <2>6 DEF Owned, OwnedBy, FdsOwned
    <3> QED
      BY <3>1, <3>2, <3>3, <3>4, <3>5 DEF OwnedBy
  <2>8. Keeps(sk, sk2)
    BY <2>1, <2>4 DEF Keeps, Live, FreeSock
  <2>9. fd \in Free(sk2)
    BY <1>5, <2>4 DEF Free, FreeSock
  <2> QED
    BY <2>7, <2>8, <2>9 DEF del, sk2
<1>6. CASE fd \notin Fds
  <2>1. del.ev = ev /\ sk2 = sk
    BY <1>6 DEF aeDeleteFileEvent, CloseFd
  <2> HIDE DEF del, sk2
  <2>2. \A f \in Fds : ev[f].mask # {} => ev[f].data # c
    BY <1>6 DEF Owned, OwnedBy, EventsOwned
  <2>3. OwnedBy(Conns \ {c}, ev, sk, cn)
    BY <2>2 DEF Owned, OwnedBy, EventsOwned, FdsOwned
  <2> QED
    BY <1>6, <2>1, <2>3 DEF Keeps, del, sk2
<1> QED
  BY <1>5, <1>6

\* connect_socket for a connection that owns nothing: it owns the new socket,
\* or, when no number is free, it has never had one.
LEMMA ConnectOwned ==
  ASSUME ~ConnectMayFail, Registrable = Fds,
         NEW ev, NEW sk, NEW cn, NEW er, NEW c \in Conns,
         OwnedBy(Conns \ {c}, ev, sk, cn),
         cn[c].fd \in Fds => Free(sk) # {},
         connect_socket(c, ev, sk, cn, er)
  PROVE  /\ Owned(events', sock', conn')
         /\ Keeps(sk, sock')
         /\ \A d \in Conns \ {c} : conn'[d].fd = cn[d].fd
<1>1. ev \in EventTable /\ sk \in SockTable /\ cn \in ConnTable
  BY DEF OwnedBy, Tables
<1>2. CASE ConnectOk(c, ev, sk, cn, er)
  <2> DEFINE new == [FreeSock EXCEPT !.st = "connecting"]
             open(fd) == [sk EXCEPT ![fd] = new]
  <2>1. PICK fd \in Free(sk) :
           /\ events' = AddEvent(ev, fd, Mask, "socket_connected", c)
           /\ sock'   = AddInterest(ev, open(fd), fd, Mask)
           /\ conn'   = [cn EXCEPT ![c].fd = fd]
    BY <1>2 DEF ConnectOk
  <2>2. fd \in Fds /\ sk[fd].st = "free"
    BY DEF Free
  <2>3. ev[fd].mask = {}
    BY <2>2 DEF OwnedBy, EventsOwned, Live
  <2>4. new \in SockRecord /\ new.st = "connecting"
    BY FreeSockType DEF FreeSock, SockRecord, Live
  <2> HIDE DEF new
  <2>5. open(fd) \in SockTable /\ open(fd)[fd] = new
        /\ \A f \in Fds \ {fd} : open(fd)[f] = sk[f]
    BY <1>1, <2>2, <2>4 DEF SockTable, SockRecord
  <2> HIDE DEF open
  <2>6. /\ \A f \in Fds \ {fd} : sock'[f] = sk[f]
        /\ sock'[fd].st = "connecting" /\ sock'[fd].ep = Mask
        /\ sock' \in SockTable
    <3>1. sock' = [open(fd) EXCEPT ![fd].ep = Mask]
      BY <2>1, <2>3 DEF AddInterest
    <3> QED
      BY ZenonT(60), <2>1, <2>2, <2>4, <2>5, <3>1, AddInterestType DEF SockTable
  <2>7. /\ \A f \in Fds \ {fd} : events'[f] = ev[f]
        /\ events'[fd].mask = Mask /\ events'[fd].data = c
        /\ events' \in EventTable
    <3>1. events' \in EventTable
      BY <1>1, <2>1, <2>2, AddEventType DEF Procs
    <3> QED
      BY <1>1, <2>1, <2>2, <2>3, <3>1 DEF AddEvent, EventTable
  <2>8. /\ \A d \in Conns \ {c} : conn'[d] = cn[d]
        /\ conn'[c].fd = fd
        /\ conn' \in ConnTable
    BY <1>1, <2>1, <2>2 DEF ConnTable
  <2>9. \A d \in Conns \ {c} : cn[d].fd # fd
    BY <2>2, <2>3 DEF OwnedBy, FdsOwned
  <2>10. Owned(events', sock', conn')
    <3>1. Tables(events', sock', conn')
      BY <2>6, <2>7, <2>8 DEF Tables
    <3>2. Synced(events', sock')
      BY <2>6, <2>7 DEF OwnedBy, Synced
    <3>3. EventsOwned(Conns, events', sock', conn')
      BY <2>6, <2>7, <2>8 DEF OwnedBy, EventsOwned, Mask, Live
    <3>4. SocketsWatched(events', sock')
      BY <2>6, <2>7 DEF OwnedBy, SocketsWatched, Mask
    <3>5. FdsOwned(Conns, events', conn')
      <4>1. events'[fd].mask # {} /\ events'[fd].data = c
        BY <2>7 DEF Mask
      <4>2. \A d \in Conns \ {c} : conn'[d].fd \in Fds =>
               conn'[d].fd # fd /\ events'[conn'[d].fd] = ev[conn'[d].fd]
        BY <2>7, <2>8, <2>9
      <4> QED
        BY <2>8, <4>1, <4>2 DEF OwnedBy, FdsOwned
    <3> QED
      BY <3>1, <3>2, <3>3, <3>4, <3>5 DEF Owned, OwnedBy
  <2>11. Keeps(sk, sock')
    BY <2>2, <2>6 DEF Keeps
  <2> QED
    BY <2>8, <2>10, <2>11
<1>3. CASE ConnectError(c, ev, sk, cn, er)
  <2>1. events' = ev /\ sock' = sk /\ conn' = cn
    BY <1>3 DEF ConnectError
  <2>2. ASSUME NEW fd \in Free(sk)
        PROVE  CanAdd(ev, [sk EXCEPT ![fd].st = "connecting"], fd)
    <3>1. fd \in Fds /\ sk[fd].st = "free"
      BY DEF Free
    <3>2. ev[fd].mask = {} /\ sk[fd].ep = {}
      BY <3>1 DEF OwnedBy, Synced, EventsOwned, Live
    <3> QED
      BY <1>1, <3>1, <3>2 DEF CanAdd, SockTable
  <2>3. Free(sk) = {}
    BY <1>3, <2>2 DEF ConnectError
  <2>4. cn[c].fd \notin Fds
    BY <2>3
  <2>5. Owned(ev, sk, cn)
    BY <2>4 DEF Owned, OwnedBy, EventsOwned, FdsOwned
  <2> QED
    BY <2>1, <2>5 DEF Keeps
<1> QED
  BY <1>2, <1>3 DEF connect_socket

\* reconnect_socket, from any handler, moves the connection to the new number
\* and leaves nothing behind on the old one.
LEMMA ReconnectOwned ==
  ASSUME ~ConnectMayFail, Registrable = Fds,
         NEW ev, NEW sk, NEW cn, NEW er, NEW c \in Conns,
         Owned(ev, sk, cn), reconnect_socket(c, ev, sk, cn, er)
  PROVE  Owned(events', sock', conn') /\ Keeps(sk, sock')
<1> DEFINE del == aeDeleteFileEvent(ev, sk, cn[c].fd, Mask)
           sk2 == CloseFd(del.sk, cn[c].fd)
<1>1. /\ OwnedBy(Conns \ {c}, del.ev, sk2, cn)
      /\ Keeps(sk, sk2)
      /\ cn[c].fd \in Fds => Free(sk2) # {}
  BY ReleaseOwned
<1>2. connect_socket(c, del.ev, sk2, cn, er)
  BY DEF reconnect_socket
<1> HIDE DEF del, sk2
<1>3. Owned(events', sock', conn') /\ Keeps(sk2, sock')
  BY <1>1, <1>2, ConnectOwned
<1> QED
  BY <1>1, <1>3, KeepsTransitive

-----------------------------------------------------------------------------
(* The handlers.  TypeOK' is known from ThreadTypeCorrect. *)

\* Of a connection structure only c->fd matters to ownership: the parser, the
\* counts and the flags may change.
LEMMA FieldsOwned ==
  ASSUME NEW ev, NEW sk, NEW cn, Owned(ev, sk, cn), NEW cn2 \in ConnTable,
         \A d \in Conns : cn2[d].fd = cn[d].fd
  PROVE  Owned(ev, sk, cn2)
  BY DEF Owned, OwnedBy, Tables, EventsOwned, FdsOwned

\* Of a socket only its epoll interest matters, and whether it is a live one of
\* this thread.
LEMMA SocketsOwned ==
  ASSUME NEW ev, NEW sk, NEW cn, Owned(ev, sk, cn), NEW sk2 \in SockTable,
         \A f \in Fds : /\ sk2[f].ep = sk[f].ep
                        /\ sk2[f].st \in Live <=> sk[f].st \in Live
  PROVE  Owned(ev, sk2, cn)
  BY DEF Owned, OwnedBy, Tables, Synced, EventsOwned, SocketsWatched

\* socket_connected keeps ownership: it registers the two other handlers for
\* the same descriptor, or reconnects.
LEMMA ConnectedOwned ==
  ASSUME ~ConnectMayFail, Registrable = Fds, Owned(events, sock, conn), TypeOK,
         TypeOK', NEW c \in Conns, NEW fd \in Fds, conn[c].fd = fd,
         socket_connected(c, fd)
  PROVE  Owned(events', sock', conn') /\ Keeps(sock, sock')
<1>1. CASE ConnectedOk(c, fd)
  <2> DEFINE r == aeCreateFileEvent(events, sock, fd, {"R"}, "socket_readable", c)
             w == aeCreateFileEvent(r.ev, r.sk, fd, {"W"}, "socket_writeable", c)
  <2>1. Owned(r.ev, r.sk, conn) /\ Keeps(sock, r.sk)
    BY CreateOwned DEF Mask, Procs
  <2> HIDE DEF r
  <2>2. Owned(w.ev, w.sk, conn) /\ Keeps(r.sk, w.sk)
    BY <2>1, CreateOwned DEF Mask, Procs
  <2> HIDE DEF w
  <2>3. events' = w.ev /\ sock' = w.sk
        /\ conn' = [conn EXCEPT ![c].parser = "start", ![c].written = 0]
    BY <1>1 DEF ConnectedOk, r, w
  <2>4. \A d \in Conns : conn'[d].fd = conn[d].fd
    BY <2>3 DEF TypeOK, ConnTable
  <2>5. Owned(w.ev, w.sk, conn')
    BY <2>2, <2>4, FieldsOwned DEF TypeOK
  <2>6. Keeps(sock, w.sk)
    BY <2>1, <2>2, KeepsTransitive
  <2> QED
    BY <2>3, <2>5, <2>6
<1>2. CASE ConnectedRetry(c)
  BY <1>2 DEF ConnectedRetry, Keeps
<1>3. CASE ConnectedError(c)
  BY <1>3, ReconnectOwned DEF ConnectedError
<1> QED
  BY <1>1, <1>2, <1>3 DEF socket_connected

\* socket_writeable keeps it: it only ever gives up the interest in writing, or
\* reconnects.
LEMMA WriteableOwned ==
  ASSUME ~ConnectMayFail, Registrable = Fds, Owned(events, sock, conn), TypeOK,
         TypeOK', NEW c \in Conns, NEW fd \in Fds, conn[c].fd = fd,
         socket_writeable(c, fd)
  PROVE  Owned(events', sock', conn') /\ Keeps(sock, sock')
<1>1. CASE WriteDelayed(c, fd)
  BY <1>1, DeleteOwned DEF WriteDelayed
<1>2. CASE WriteOk(c, fd)
  <2>1. PICK n \in sock_write(c, Length - conn[c].written) :
          /\ n > 0
          /\ LET all  == conn[c].written + n = Length
                 sent == [sock EXCEPT ![conn[c].fd] = Deliver(@, n)]
                 del  == aeDeleteFileEvent(events, sent, fd, {"W"})
             IN  /\ conn' = [Started(c) EXCEPT ![c].written = WrittenNow(@ + n)]
                 /\ events' = IF all THEN del.ev ELSE events
                 /\ sock'   = IF all THEN del.sk ELSE sent
    BY <1>2 DEF WriteOk
  <2> DEFINE all  == conn[c].written + n = Length
             sent == [sock EXCEPT ![fd] = Deliver(@, n)]
             del  == aeDeleteFileEvent(events, sent, fd, {"W"})
  <2>2. n \in Nat
    <3>1. n \in 1..(Length - conn[c].written)
      <4>1. conn[c].written \in 0..(Length - 1)
        BY DEF TypeOK, ConnTable
      <4> QED
        BY <2>1, <4>1 DEF sock_write
    <3> QED
      BY <3>1, LengthType DEF TypeOK, ConnTable
  <2>3. sent \in SockTable
    BY <2>2, DeliverType DEF TypeOK
  <2>4. \A f \in Fds : sent[f].ep = sock[f].ep /\ sent[f].st = sock[f].st
    BY ZenonT(60) DEF Deliver, TypeOK, SockTable
  <2> HIDE DEF sent
  <2>5. Owned(events, sent, conn) /\ Keeps(sock, sent)
    BY <2>3, <2>4, SocketsOwned DEF Keeps
  <2>6. Owned(del.ev, del.sk, conn) /\ Keeps(sent, del.sk)
    BY <2>5, DeleteOwned
  <2> HIDE DEF del, all
  <2>7. (events' = del.ev /\ sock' = del.sk) \/ (events' = events /\ sock' = sent)
    BY <2>1 DEF del, all, sent
  <2>8. \A d \in Conns : conn'[d].fd = conn[d].fd
    <3>1. Started(c) \in ConnTable /\ \A d \in Conns : Started(c)[d].fd = conn[d].fd
      BY StartedType, SMTT(60) DEF Started, TypeOK, ConnTable
    <3> QED
      BY <2>1, <3>1 DEF ConnTable
  <2>9. Owned(events', sock', conn)
    BY <2>5, <2>6, <2>7
  <2>10. Keeps(sock, sock')
    BY <2>5, <2>6, <2>7, KeepsTransitive
  <2> QED
    BY <2>8, <2>9, <2>10, FieldsOwned DEF TypeOK
<1>3. Owned(events, sock, Started(c))
  <2>1. \A d \in Conns : Started(c)[d].fd = conn[d].fd
    BY DEF Started, TypeOK, ConnTable
  <2> QED
    BY <2>1, StartedType, FieldsOwned
<1>4. CASE WriteRetry(c)
  BY <1>3, <1>4 DEF WriteRetry, Keeps
<1>5. CASE WriteError(c)
  BY <1>3, <1>5, ReconnectOwned DEF WriteError
<1> QED
  BY <1>1, <1>2, <1>4, <1>5 DEF socket_writeable

\* socket_readable keeps it up to the parser: it reads, or reconnects.
LEMMA ReadableOwned ==
  ASSUME ~ConnectMayFail, Registrable = Fds, Owned(events, sock, conn), TypeOK,
         TypeOK', NEW c \in Conns, NEW fd, socket_readable(c, fd)
  PROVE  Owned(events', sock', conn') /\ Keeps(sock, sock')
<1>1. CASE ReadData(c, fd)
  <2>1. PICK rx : sock' = [sock EXCEPT ![conn[c].fd].rx = rx]
    BY <1>1, Zenon DEF ReadData
  <2>2. \A f \in Fds : sock'[f].ep = sock[f].ep /\ sock'[f].st = sock[f].st
    BY <2>1 DEF TypeOK, SockTable
  <2>3. events' = events /\ conn' = conn
    BY <1>1 DEF ReadData
  <2> QED
    BY <2>2, <2>3, SocketsOwned DEF TypeOK, Keeps
<1>2. CASE ReadEof(c, fd) \/ ReadRetry(c, fd)
  BY <1>2 DEF ReadEof, ReadRetry, Keeps
<1>3. CASE ReadError(c, fd)
  BY <1>3, ReconnectOwned DEF ReadError
<1> QED
  BY <1>1, <1>2, <1>3 DEF socket_readable

\* response_complete keeps it: it asks for the next request on c->fd, and then
\* may reconnect, which also withdraws that.
LEMMA ResponseOwned ==
  ASSUME ~ConnectMayFail, Registrable = Fds, Owned(events, sock, conn), TypeOK,
         NEW c \in Conns, NEW keepalive \in BOOLEAN,
         response_complete(c, keepalive)
  PROVE  Owned(events', sock', conn') /\ Keeps(sock, sock')
<1> DEFINE left == (conn[c].pending - 1) % PendingMod
           cn   == [conn EXCEPT ![c].hdrs    = script_response(@),
                                ![c].pending = left,
                                ![c].delayed = IF CycleOver(left) THEN Delay ELSE @,
                                ![c].parser  = IF keepalive THEN "start" ELSE "dead"]
           new  == aeCreateFileEvent(events, sock, conn[c].fd, {"W"},
                                     "socket_writeable", c)
           reg  == IF CycleOver(left) THEN new ELSE [ev |-> events, sk |-> sock]
<1>1. Owned(new.ev, new.sk, conn) /\ Keeps(sock, new.sk)
  BY CreateOwned DEF Mask, Procs
<1>2. cn \in ConnTable
  BY ResponseConnType
<1>3. \A d \in Conns : cn[d].fd = conn[d].fd
  <2> HIDE DEF left
  <2> QED
    BY DEF TypeOK, ConnTable
<1> HIDE DEF left, cn, new
<1>4. Owned(reg.ev, reg.sk, conn) /\ Keeps(sock, reg.sk)
  BY <1>1 DEF Keeps
<1> HIDE DEF reg
<1>5. Owned(reg.ev, reg.sk, cn)
  BY <1>2, <1>3, <1>4, FieldsOwned
<1>6. CASE keepalive
  <2>1. conn' = cn /\ events' = reg.ev /\ sock' = reg.sk
    BY <1>6 DEF response_complete, cn, reg, left, new
  <2> QED
    BY <1>4, <1>5, <2>1
<1>7. CASE ~keepalive
  <2>1. reconnect_socket(c, reg.ev, reg.sk, cn, errors)
    BY <1>7 DEF response_complete, cn, reg, left, new
  <2>2. Owned(events', sock', conn') /\ Keeps(reg.sk, sock')
    BY <1>5, <2>1, ReconnectOwned
  <2> QED
    BY <1>4, <2>2, KeepsTransitive
<1> QED
  BY <1>6, <1>7

-----------------------------------------------------------------------------
(* Steps *)

\* The first connect of thread_main keeps it: it only meets connections that
\* own nothing.
LEMMA SetupOwned ==
  ASSUME ~ConnectMayFail, Registrable = Fds, OwnershipInv, NEW c \in Conns,
         thread_main(c)
  PROVE  /\ Owned(events', sock', conn') /\ Keeps(sock, sock')
         /\ \A d \in Conns \ {c} : conn'[d].fd = conn[d].fd
<1>1. conn[c].fd = NoFd
  BY DEF thread_main, OwnershipInv
<1>2. conn[c].fd \notin Fds
  BY <1>1, WrkThreadAssumption
<1>3. OwnedBy(Conns \ {c}, events, sock, conn)
  <2>1. \A f \in Fds : events[f].mask # {} => events[f].data # c
    BY <1>2 DEF OwnershipInv, Owned, OwnedBy, EventsOwned
  <2> QED
    BY <2>1 DEF OwnershipInv, Owned, OwnedBy, EventsOwned, FdsOwned
<1>4. connect_socket(c, events, sock, conn, errors)
  BY DEF thread_main
<1> QED
  BY <1>2, <1>3, <1>4, ConnectOwned

\* The parser's steps and the timer of a connection keep it.
LEMMA ConnStepOwned ==
  ASSUME ~ConnectMayFail, Registrable = Fds, Owned(events, sock, conn), TypeOK,
         TypeOK', NEW c \in Conns,
         Parse(c) \/ ParseError(c) \/ ReadAgain(c) \/ ReadDone(c) \/ delay_request(c)
  PROVE  Owned(events', sock', conn') /\ Keeps(sock, sock')
<1>1. CASE Parse(c)
  <2>1. CASE header_field(c) \/ EofBody(c)
    <3>1. events' = events /\ sock' = sock
      BY <2>1 DEF header_field, EofBody
    <3>2. \A d \in Conns : conn'[d].fd = conn[d].fd
      <4>1. ASSUME NEW p, NEW h, conn' = [conn EXCEPT ![c].parser = p, ![c].hdrs = h]
            PROVE  \A d \in Conns : conn'[d].fd = conn[d].fd
        <5>1. conn \in ConnTable
          BY DEF TypeOK
        <5> QED
          BY <4>1, <5>1 DEF ConnTable
      <4>2. CASE header_field(c)
        BY <4>1, <4>2, Zenon DEF header_field
      <4>3. CASE EofBody(c)
        BY <4>3 DEF EofBody, TypeOK, ConnTable
      <4> QED
        BY <2>1, <4>2, <4>3
    <3> QED
      BY <3>1, <3>2, FieldsOwned DEF Keeps, TypeOK
  <2>2. CASE \E keepalive \in BOOLEAN : response_complete(c, keepalive)
    BY <2>2, ResponseOwned
  <2>3. (Head(buf) = "keep") \in BOOLEAN
    OBVIOUS
  <2> QED
    BY <1>1, <2>1, <2>2, <2>3, Zenon DEF Parse
<1>2. CASE ParseError(c)
  BY <1>2, ReconnectOwned DEF ParseError
<1>3. CASE ReadAgain(c)
  BY <1>3, ReadableOwned DEF ReadAgain
<1>4. CASE ReadDone(c)
  BY <1>4 DEF ReadDone, Keeps
<1>5. CASE delay_request(c)
  <2> DEFINE w == aeCreateFileEvent(events, sock, conn[c].fd, {"W"}, "socket_writeable", c)
  <2>1. Owned(w.ev, w.sk, conn) /\ Keeps(sock, w.sk)
    BY CreateOwned DEF Mask, Procs
  <2> HIDE DEF w
  <2>2. events' = w.ev /\ sock' = w.sk
    BY <1>5 DEF delay_request, w
  <2>3. \A d \in Conns : conn'[d].fd = conn[d].fd
    BY <1>5 DEF delay_request, TypeOK, ConnTable
  <2> QED
    BY <2>1, <2>2, <2>3, FieldsOwned DEF TypeOK
<1> QED
  BY <1>1, <1>2, <1>3, <1>4, <1>5

\* The handlers that the loop calls for a descriptor are called for the
\* connection whose c->fd it is.
LEMMA DispatchOwned ==
  ASSUME ~ConnectMayFail, Registrable = Fds, Owned(events, sock, conn), TypeOK,
         TypeOK', NEW fd \in Fds, NEW c \in Conns,
         DispatchR(fd, c) \/ DispatchW(fd, c)
  PROVE  Owned(events', sock', conn') /\ Keeps(sock, sock')
<1>1. events[fd].mask # {} /\ events[fd].data = c
  BY DEF DispatchR, DispatchW, CallsR, CallsW, FiresR, FiresW
<1>2. conn[c].fd = fd
  BY <1>1 DEF Owned, OwnedBy, EventsOwned
<1> QED
  BY <1>2, ConnectedOwned, WriteableOwned, ReadableOwned DEF DispatchR, DispatchW

\* Any step of the thread keeps the strengthening and the other threads' sockets.
LEMMA ThreadOwned ==
  ASSUME ~ConnectMayFail, Registrable = Fds, OwnershipInv, TypeOK', Thread
  PROVE  OwnershipInv' /\ Keeps(sock, sock')
<1> USE DEF OwnershipInv
<1>1. ASSUME NEW c \in Conns, thread_main(c) PROVE OwnershipInv' /\ Keeps(sock, sock')
  <2>1. toConnect' = toConnect \ {c} /\ pc' = pc /\ pc = "setup"
    BY <1>1 DEF thread_main, loopVars
  <2>2. toConnect \subseteq Conns
    BY DEF TypeOK
  <2> QED
    BY <1>1, <2>1, <2>2, SetupOwned
<1>2. ASSUME Owned(events', sock', conn') /\ Keeps(sock, sock'), pc # "setup",
             toConnect' = toConnect
      PROVE  OwnershipInv' /\ Keeps(sock, sock')
  <2>1. toConnect' = {}
    BY <1>2
  <2> QED
    BY <1>2, <2>1
<1>3. ASSUME NEW c \in Conns,
             Parse(c) \/ ParseError(c) \/ ReadAgain(c) \/ ReadDone(c) \/ delay_request(c)
      PROVE  OwnershipInv' /\ Keeps(sock, sock')
  <2>1. pc # "setup" /\ toConnect' = toConnect
    BY <1>3 DEF Parse, ParseError, ReadAgain, socket_readable, ReadDone, delay_request
  <2> QED
    BY <1>2, <1>3, <2>1, ConnStepOwned
<1>4. ASSUME NEW fd \in Fds, NEW c \in Conns, DispatchR(fd, c) \/ DispatchW(fd, c)
      PROVE  OwnershipInv' /\ Keeps(sock, sock')
  <2>1. pc # "setup" /\ toConnect' = toConnect
    BY <1>4 DEF DispatchR, DispatchW, CallsR, CallsW, socket_connected,
                socket_readable, socket_writeable
  <2> QED
    BY <1>2, <1>4, <2>1, DispatchOwned
<1>5. ASSUME UNCHANGED <<events, sock, conn, toConnect>>, toConnect = {} \/ pc # "setup"
      PROVE  OwnershipInv' /\ Keeps(sock, sock')
  BY <1>5 DEF Keeps
<1>6. CASE aeMain \/ aeApiPoll \/ FiredDone \/ record_rate \/ EndTime
  BY <1>5, <1>6 DEF aeMain, aeApiPoll, FiredDone, record_rate, EndTime
<1>7. CASE \E fd \in Fds : SkipR(fd) \/ SkipW(fd)
  BY <1>5, <1>7 DEF SkipR, SkipW
<1> QED
  BY <1>1, <1>3, <1>4, <1>6, <1>7 DEF Thread

\* So does any step of the environment, which knows nothing of the thread's
\* tables: it keeps the strengthening.
LEMMA EnvironmentOwned ==
  ASSUME OwnershipInv, TypeOK', Environment
  PROVE  OwnershipInv'
<1> USE DEF OwnershipInv
<1>1. ASSUME EnvUnchanged,
             \A f \in Fds : /\ sock'[f].ep = sock[f].ep
                            /\ sock'[f].st \in Live <=> sock[f].st \in Live
      PROVE  OwnershipInv'
  <2>1. UNCHANGED <<pc, toConnect, events, conn>> /\ sock' \in SockTable
    BY <1>1 DEF EnvUnchanged, TypeOK
  <2>2. Owned(events, sock', conn)
    BY <1>1, <2>1, SocketsOwned
  <2> QED
    BY <2>1, <2>2
<1>0. sock \in [Fds -> SockRecord]
  BY DEF TypeOK, SockTable, SockRecord
<1>2. ASSUME NEW fd \in Fds, Establish(fd) \/ Refuse(fd) PROVE OwnershipInv'
  <2>1. PICK st \in {"up", "refused"} : sock' = [sock EXCEPT ![fd].st = st]
    BY <1>2 DEF Establish, Refuse
  <2>2. sock[fd].st = "connecting" /\ EnvUnchanged
    BY <1>2 DEF Establish, Refuse
  <2>3. \A f \in Fds : /\ sock'[f].ep = sock[f].ep
                       /\ sock'[f].st \in Live <=> sock[f].st \in Live
    <3> HIDE DEF OwnershipInv
    <3> QED
      BY <1>0, <2>1, <2>2 DEF SockRecord, Live
  <2> QED
    BY <1>1, <2>2, <2>3
<1>3. ASSUME NEW fd \in Fds,
             ServerFails(fd) \/ \E kind \in Kinds : Respond(fd, kind)
      PROVE  OwnershipInv'
  <2>1. ASSUME NEW rx, NEW due, NEW got,
               sock' = [sock EXCEPT ![fd].rx = rx, ![fd].due = due, ![fd].got = got]
        PROVE  \A f \in Fds : sock'[f].ep = sock[f].ep /\ sock'[f].st = sock[f].st
    <3> HIDE DEF OwnershipInv
    <3> QED
      BY <1>0, <2>1 DEF SockRecord
  <2>2. \A f \in Fds : sock'[f].ep = sock[f].ep /\ sock'[f].st = sock[f].st
    <3>1. CASE ServerFails(fd)
      <4>1. PICK n \in 0..Len(sock[fd].rx), e \in Ends :
              sock' = [sock EXCEPT ![fd].rx = Append(SubSeq(@, 1, n), e),
                                   ![fd].due = 0, ![fd].got = 0]
        BY <3>1 DEF ServerFails
      <4> DEFINE rx == Append(SubSeq(sock[fd].rx, 1, n), e)
      <4>2. sock' = [sock EXCEPT ![fd].rx = rx, ![fd].due = 0, ![fd].got = 0]
        BY <4>1
      <4> HIDE DEF rx
      <4> QED
        BY <2>1, <4>2, Zenon
    <3>2. ASSUME NEW kind \in Kinds, Respond(fd, kind)
          PROVE  \A f \in Fds : sock'[f].ep = sock[f].ep /\ sock'[f].st = sock[f].st
      <4> DEFINE keep == kind = "keep"
                 rx   == sock[fd].rx \o (IF keep THEN <<"head", "keep">>
                                        ELSE <<"head", kind, "fin">>)
                 due  == IF keep THEN sock[fd].due - 1 ELSE 0
                 got  == IF keep THEN sock[fd].got ELSE 0
      <4>1. sock' = [sock EXCEPT ![fd].rx = rx, ![fd].due = due, ![fd].got = got]
        BY <3>2 DEF Respond
      <4> HIDE DEF rx, due, got
      <4> QED
        BY <2>1, <4>1, Zenon
    <3> QED
      BY <1>3, <3>1, <3>2
  <2>3. EnvUnchanged
    BY <1>3 DEF ServerFails, Respond
  <2> QED
    BY <1>1, <2>2, <2>3
<1>4. ASSUME NEW fd \in Fds, ForeignOpen(fd) PROVE OwnershipInv'
  <2>1. PICK rx : sock' = [sock EXCEPT ![fd].st = "foreign", ![fd].rx = rx]
    BY <1>4 DEF ForeignOpen
  <2>2. sock[fd].st = "free" /\ EnvUnchanged
    BY <1>4 DEF ForeignOpen
  <2>3. \A f \in Fds : /\ sock'[f].ep = sock[f].ep
                       /\ sock'[f].st \in Live <=> sock[f].st \in Live
    <3> HIDE DEF OwnershipInv
    <3> QED
      BY <1>0, <2>1, <2>2 DEF SockRecord, Live
  <2> QED
    BY <1>1, <2>2, <2>3
<1>5. ASSUME NEW fd \in Fds, ForeignClose(fd) PROVE OwnershipInv'
  <2>1. sock' = [sock EXCEPT ![fd] = FreeSock] /\ sock[fd].st = "foreign" /\ EnvUnchanged
    BY <1>5 DEF ForeignClose
  <2>2. sock[fd].ep = {}
    BY <2>1 DEF Owned, OwnedBy, Synced, EventsOwned, Live
  <2>3. \A f \in Fds : /\ sock'[f].ep = sock[f].ep
                       /\ sock'[f].st \in Live <=> sock[f].st \in Live
    <3> HIDE DEF OwnershipInv
    <3> QED
      BY <1>0, <2>1, <2>2 DEF SockRecord, Live, FreeSock
  <2> QED
    BY <1>1, <2>1, <2>3
<1>6. CASE SetStop
  BY <1>1, <1>6 DEF SetStop
<1> QED
  BY <1>2, <1>3, <1>4, <1>5, <1>6 DEF Environment

\* The strengthening is an invariant.
LEMMA OwnershipInvariant ==
  ASSUME ~ConnectMayFail, Registrable = Fds
  PROVE  Spec => []OwnershipInv
<1>1. Init /\ TypeOK => OwnershipInv
  <2> SUFFICES ASSUME Init, TypeOK PROVE OwnershipInv
    OBVIOUS
  <2>1. \A f \in Fds : events[f].mask = {} /\ sock[f].ep = {} /\ sock[f].st = "free"
    BY DEF Init, NoEvent, FreeSock
  <2>2. \A c \in Conns : conn[c].fd = NoFd
    BY DEF Init
  <2>3. Owned(events, sock, conn)
    <3>1. Tables(events, sock, conn)
      BY DEF TypeOK, Tables
    <3>2. Synced(events, sock) /\ EventsOwned(Conns, events, sock, conn)
      BY <2>1 DEF Synced, EventsOwned
    <3>3. SocketsWatched(events, sock)
      BY <2>1 DEF SocketsWatched, Live
    <3>4. FdsOwned(Conns, events, conn)
      BY <2>2, WrkThreadAssumption DEF FdsOwned
    <3> QED
      BY <3>1, <3>2, <3>3, <3>4 DEF Owned, OwnedBy
  <2> QED
    BY <2>2, <2>3 DEF Init, OwnershipInv
<1>2. OwnershipInv /\ TypeOK' /\ [Next]_vars => OwnershipInv'
  <2> SUFFICES ASSUME OwnershipInv, TypeOK', [Next]_vars PROVE OwnershipInv'
    OBVIOUS
  <2>1. CASE UNCHANGED vars
    BY <2>1 DEF vars, OwnershipInv
  <2> QED
    BY <2>1, ThreadOwned, EnvironmentOwned DEF Next
<1> QED
  BY <1>1, <1>2, ThreadTypeCorrect, PTL DEF Spec

\* Descriptor ownership holds for every configuration in which connecting
\* succeeds: reconnect_socket leaves no handler behind on a number it gave
\* up, and no open socket of the thread is left unwatched.
THEOREM DescriptorOwnership ==
  ASSUME ~ConnectMayFail, Registrable = Fds
  PROVE  Spec => []FdOwnership
<1>1. OwnershipInv => FdOwnership
  BY OwnedImplies
<1> QED
  BY <1>1, OwnershipInvariant, PTL

\* The table of events and the epoll set agree in those configurations, so
\* aeApiAddEvent never asks for the wrong operation.
THEOREM InterestsAgree ==
  ASSUME ~ConnectMayFail, Registrable = Fds
  PROVE  Spec => []InterestInSync
<1>1. OwnershipInv => InterestInSync
  BY OwnedImplies
<1> QED
  BY <1>1, OwnershipInvariant, PTL

\* And no step of the thread touches a socket of another one, although the
\* kernel reuses descriptor numbers between them.
THEOREM ForeignSocketsUntouched ==
  ASSUME ~ConnectMayFail, Registrable = Fds
  PROVE  Spec => NoForeignClose
<1>1. OwnershipInv /\ OwnershipInv' /\ [Next]_vars
      => [Thread => \A fd \in Fds : sock[fd].st = "foreign" => sock'[fd].st = "foreign"]_vars
  <2> SUFFICES ASSUME OwnershipInv, OwnershipInv', Thread
               PROVE  Keeps(sock, sock')
    BY DEF Keeps
  <2> QED
    BY ThreadOwned DEF OwnershipInv
<1> QED
  BY <1>1, OwnershipInvariant, PTL DEF Spec, NoForeignClose

-----------------------------------------------------------------------------
(***************************************************************************)
(* Connections are kept.  With as many numbers out of the reach of other   *)
(* threads as there are connections, socket() finds one for each of them;  *)
(* once a connection has a number, reconnect_socket gives it one again.    *)
(***************************************************************************)
Retains(cn, cn2) == \A d \in Conns : cn[d].fd \in Fds => cn2[d].fd \in Fds

Own == Fds \ ForeignFds

KeptInv ==
    /\ \A c \in Conns \ toConnect : conn[c].fd \in Fds
    /\ pc # "setup" => toConnect = {}
    /\ \A fd \in Own : sock[fd].st # "foreign"

\* Connecting a socket gives a connection a number or leaves it the old one.
LEMMA ConnectRetains ==
  ASSUME NEW c \in Conns, NEW ev, NEW sk, NEW cn \in ConnTable, NEW er,
         connect_socket(c, ev, sk, cn, er)
  PROVE  Retains(cn, conn')
<1>1. CASE ConnectOk(c, ev, sk, cn, er)
  <2>1. PICK fd \in Fds : conn' = [cn EXCEPT ![c].fd = fd]
    BY <1>1 DEF ConnectOk, Free
  <2> QED
    BY <2>1 DEF Retains, ConnTable
<1>2. CASE ConnectError(c, ev, sk, cn, er)
  BY <1>2 DEF ConnectError, Retains
<1> QED
  BY <1>1, <1>2 DEF connect_socket

LEMMA ReconnectRetains ==
  ASSUME NEW c \in Conns, NEW ev, NEW sk, NEW cn \in ConnTable, NEW er,
         reconnect_socket(c, ev, sk, cn, er)
  PROVE  Retains(cn, conn')
BY ConnectRetains DEF reconnect_socket

\* No other assignment of a handler is to c->fd.
LEMMA FieldsRetained ==
  ASSUME TypeOK, NEW c \in Conns, NEW n
  PROVE  /\ Retains(conn, [conn EXCEPT ![c].parser = "start", ![c].written = 0])
         /\ Retains(conn, Started(c)) /\ Started(c) \in ConnTable
         /\ Retains(conn, [Started(c) EXCEPT ![c].written = n])
         /\ Retains(conn, [conn EXCEPT ![c].delayed = FALSE])
         /\ Retains(conn, [conn EXCEPT ![c].parser = "body_eof"])
         /\ Retains(conn, [conn EXCEPT ![c].parser = "head",
                              ![c].hdrs = IF WantResponse /\ @ < 2 THEN @ + 1 ELSE @])
<1>1. conn \in ConnTable
  BY DEF TypeOK
<1>2. Started(c) \in ConnTable
  BY StartedType
<1>3. Retains(conn, Started(c))
  BY <1>1 DEF Started, Retains, ConnTable
<1>4. Retains(conn, [Started(c) EXCEPT ![c].written = n])
  <2> DEFINE cn == Started(c)
  <2> HIDE DEF cn
  <2>1. cn \in ConnTable /\ Retains(conn, cn)
    BY <1>2, <1>3 DEF cn
  <2>2. Retains(conn, [cn EXCEPT ![c].written = n])
    BY <2>1 DEF Retains, ConnTable
  <2> QED
    BY <2>2 DEF cn
<1>5. /\ Retains(conn, [conn EXCEPT ![c].parser = "start", ![c].written = 0])
      /\ Retains(conn, [conn EXCEPT ![c].delayed = FALSE])
      /\ Retains(conn, [conn EXCEPT ![c].parser = "body_eof"])
  BY <1>1 DEF Retains, ConnTable
<1>6. Retains(conn, [conn EXCEPT ![c].parser = "head",
                        ![c].hdrs = IF WantResponse /\ @ < 2 THEN @ + 1 ELSE @])
  BY <1>1 DEF Retains, ConnTable
<1> QED
  BY <1>2, <1>3, <1>4, <1>5, <1>6

LEMMA ResponseRetains ==
  ASSUME TypeOK, NEW c \in Conns, NEW keepalive \in BOOLEAN, response_complete(c, keepalive)
  PROVE  Retains(conn, conn')
<1> DEFINE left == (conn[c].pending - 1) % PendingMod
           cn   == [conn EXCEPT ![c].hdrs    = script_response(@),
                                ![c].pending = left,
                                ![c].delayed = IF CycleOver(left) THEN Delay ELSE @,
                                ![c].parser  = IF keepalive THEN "start" ELSE "dead"]
           reg  == IF CycleOver(left)
                   THEN aeCreateFileEvent(events, sock, conn[c].fd, {"W"}, "socket_writeable", c)
                   ELSE [ev |-> events, sk |-> sock]
<1>1. cn \in ConnTable
  BY ResponseConnType
<1>2. \A d \in Conns : cn[d].fd = conn[d].fd
  <2> HIDE DEF left
  <2> QED
    BY DEF TypeOK, ConnTable
<1>3. conn' = cn \/ reconnect_socket(c, reg.ev, reg.sk, cn, errors)
  BY DEF response_complete
<1> HIDE DEF cn, reg, left
<1>4. Retains(cn, conn')
  BY <1>1, <1>3, ReconnectRetains DEF Retains
<1> QED
  BY <1>2, <1>4 DEF Retains

LEMMA ReadableRetains ==
  ASSUME TypeOK, NEW c \in Conns, NEW fd, socket_readable(c, fd)
  PROVE  Retains(conn, conn')
<1>1. conn \in ConnTable
  BY DEF TypeOK
<1>2. conn' = conn \/ \E er : reconnect_socket(c, events, sock, conn, er)
  BY DEF socket_readable, ReadData, ReadEof, ReadError, ReadRetry
<1> QED
  BY <1>1, <1>2, ReconnectRetains DEF Retains

\* No step of the thread takes its number from a connection for good.
LEMMA ThreadRetains == ASSUME TypeOK, Thread PROVE Retains(conn, conn')
<1>0. conn \in ConnTable
  BY DEF TypeOK
<1>1. ASSUME conn' = conn PROVE Retains(conn, conn')
  BY <1>1 DEF Retains
<1>2. ASSUME NEW c \in Conns, Parse(c) PROVE Retains(conn, conn')
  <2>1. CASE header_field(c) \/ EofBody(c)
    BY <2>1, FieldsRetained DEF header_field, EofBody
  <2>2. CASE \E keepalive \in BOOLEAN : response_complete(c, keepalive)
    BY <2>2, ResponseRetains
  <2>3. (Head(buf) = "keep") \in BOOLEAN
    OBVIOUS
  <2> QED
    BY <1>2, <2>1, <2>2, <2>3, Zenon DEF Parse
<1>3. ASSUME NEW c \in Conns,
             thread_main(c) \/ ParseError(c) \/ ReadAgain(c) \/ ReadDone(c) \/ delay_request(c)
      PROVE  Retains(conn, conn')
  <2>1. CASE thread_main(c) \/ ParseError(c)
    BY <1>0, <2>1, ConnectRetains, ReconnectRetains DEF thread_main, ParseError
  <2>2. CASE ReadAgain(c)
    BY <2>2, ReadableRetains DEF ReadAgain
  <2>3. CASE ReadDone(c)
    BY <1>1, <2>3 DEF ReadDone
  <2>4. CASE delay_request(c)
    BY <2>4, FieldsRetained DEF delay_request
  <2> QED
    BY <1>3, <2>1, <2>2, <2>3, <2>4
<1>4. ASSUME NEW c \in Conns, NEW fd \in Fds, socket_connected(c, fd)
      PROVE  Retains(conn, conn')
  <2>1. CASE ConnectedOk(c, fd)
    BY <2>1, FieldsRetained DEF ConnectedOk
  <2>2. CASE ConnectedRetry(c)
    BY <1>1, <2>2 DEF ConnectedRetry
  <2>3. CASE ConnectedError(c)
    BY <1>0, <2>3, ReconnectRetains DEF ConnectedError
  <2> QED
    BY <1>4, <2>1, <2>2, <2>3 DEF socket_connected
<1>5. ASSUME NEW c \in Conns, NEW fd \in Fds, socket_writeable(c, fd)
      PROVE  Retains(conn, conn')
  <2>1. CASE WriteDelayed(c, fd)
    BY <1>1, <2>1 DEF WriteDelayed
  <2>2. CASE WriteOk(c, fd) \/ WriteRetry(c)
    <3>1. conn' = Started(c) \/ \E n : conn' = [Started(c) EXCEPT ![c].written = n]
      BY <2>2, Zenon DEF WriteOk, WriteRetry
    <3>2. ASSUME NEW n PROVE Retains(conn, [Started(c) EXCEPT ![c].written = n])
      BY FieldsRetained
    <3>3. Retains(conn, Started(c))
      BY FieldsRetained
    <3> QED
      BY <3>1, <3>2, <3>3, Zenon
  <2>3. CASE WriteError(c)
    <3>1. Retains(Started(c), conn') /\ Retains(conn, Started(c))
      BY <2>3, FieldsRetained, ReconnectRetains DEF WriteError
    <3> QED
      BY <3>1 DEF Retains
  <2> QED
    BY <1>5, <2>1, <2>2, <2>3 DEF socket_writeable
<1>6. ASSUME NEW fd \in Fds, NEW c \in Conns, DispatchR(fd, c) \/ DispatchW(fd, c)
      PROVE  Retains(conn, conn')
  BY <1>4, <1>5, <1>6, ReadableRetains DEF DispatchR, DispatchW
<1>7. CASE \/ \E fd \in Fds : SkipR(fd) \/ SkipW(fd)
           \/ aeMain \/ aeApiPoll \/ FiredDone \/ record_rate \/ EndTime
  BY <1>1, <1>7 DEF SkipR, SkipW, aeMain, aeApiPoll, FiredDone, record_rate, EndTime
<1> QED
  BY <1>2, <1>3, <1>6, <1>7 DEF Thread

\* A connection without a number leaves one free for it: the others have one
\* each of those that other threads do not use.
LEMMA NumberIsFree ==
  ASSUME IsFiniteSet(Conns), IsFiniteSet(Own), Cardinality(Conns) <= Cardinality(Own),
         OwnershipInv, KeptInv, NEW c \in Conns, conn[c].fd \notin Fds
  PROVE  Free(sock) # {}
<1> SUFFICES ASSUME Free(sock) = {} PROVE FALSE
  OBVIOUS
<1> DEFINE rest == Conns \ {c}
           f == [fd \in Own |-> events[fd].data]
<1>1. \A fd \in Own : events[fd].data \in rest /\ conn[events[fd].data].fd = fd
  <2> SUFFICES ASSUME NEW fd \in Own
               PROVE  events[fd].data \in rest /\ conn[events[fd].data].fd = fd
    OBVIOUS
  <2>1. fd \in Fds /\ sock[fd].st # "free" /\ sock[fd].st # "foreign"
    BY DEF Own, Free, KeptInv
  <2>2. sock[fd].st \in Live
    BY <2>1 DEF OwnershipInv, TypeOK, SockTable
  <2>3. events[fd].data \in Conns /\ conn[events[fd].data].fd = fd
    BY <2>1, <2>2 DEF OwnershipInv, Owned, OwnedBy, SocketsWatched, EventsOwned
  <2> QED
    BY <2>1, <2>3
<1>2. f \in [Own -> rest]
  BY <1>1
<1>3. IsFiniteSet(rest) /\ Cardinality(rest) < Cardinality(Own)
  <2>1. /\ IsFiniteSet(rest) /\ Cardinality(rest) = Cardinality(Conns) - 1
        /\ Cardinality(Conns) \in Nat /\ Cardinality(Own) \in Nat
    BY FS_RemoveElement, FS_CardinalityType
  <2> HIDE DEF rest
  <2> QED
    BY <2>1
<1> HIDE DEF f, rest
<1>4. \E x, y \in Own : x # y /\ f[x] = f[y]
  BY <1>2, <1>3, FS_PigeonHole
<1> QED
  BY <1>1, <1>4 DEF f

\* Other threads open sockets where they may.
LEMMA EnvironmentKeepsOwn ==
  ASSUME TypeOK, Environment
  PROVE  \A fd \in Own : sock'[fd].st = "foreign" => sock[fd].st = "foreign"
<1>0. sock \in [Fds -> SockRecord]
  BY DEF TypeOK, SockTable, SockRecord
<1>1. ASSUME NEW fd \in Fds, NEW s, s.st = "foreign" => fd \in ForeignFds \/ sock[fd].st = "foreign",
             sock' = [sock EXCEPT ![fd] = s]
      PROVE  \A f \in Own : sock'[f].st = "foreign" => sock[f].st = "foreign"
  BY <1>0, <1>1 DEF Own
<1>2. ASSUME NEW fd \in Fds, Establish(fd) \/ Refuse(fd)
      PROVE  \A f \in Own : sock'[f].st = "foreign" => sock[f].st = "foreign"
  <2>1. PICK st \in {"up", "refused"} : sock' = [sock EXCEPT ![fd].st = st]
    BY <1>2 DEF Establish, Refuse
  <2> QED
    BY <1>0, <2>1 DEF SockRecord, Own
<1>3. ASSUME NEW fd \in Fds, ServerFails(fd)
      PROVE  \A f \in Own : sock'[f].st = "foreign" => sock[f].st = "foreign"
  <2>1. PICK n \in 0..Len(sock[fd].rx), e \in Ends :
           sock' = [sock EXCEPT ![fd].rx = Append(SubSeq(@, 1, n), e),
                                ![fd].due = 0, ![fd].got = 0]
    BY <1>3 DEF ServerFails
  <2> DEFINE rx == Append(SubSeq(sock[fd].rx, 1, n), e)
  <2>2. sock' = [sock EXCEPT ![fd].rx = rx, ![fd].due = 0, ![fd].got = 0]
    BY <2>1
  <2> HIDE DEF rx
  <2> QED
    BY <1>0, <2>2 DEF SockRecord, Own
<1>4. ASSUME NEW fd \in Fds, NEW kind \in Kinds, Respond(fd, kind)
      PROVE  \A f \in Own : sock'[f].st = "foreign" => sock[f].st = "foreign"
  <2> DEFINE keep == kind = "keep"
             rx   == sock[fd].rx \o (IF keep THEN <<"head", "keep">>
                                    ELSE <<"head", kind, "fin">>)
             due  == IF keep THEN sock[fd].due - 1 ELSE 0
             got  == IF keep THEN sock[fd].got ELSE 0
  <2>1. sock' = [sock EXCEPT ![fd].rx = rx, ![fd].due = due, ![fd].got = got]
    BY <1>4 DEF Respond
  <2> HIDE DEF rx, due, got
  <2> QED
    BY <1>0, <2>1 DEF SockRecord, Own
<1>5. ASSUME NEW fd \in Fds, ForeignOpen(fd) \/ ForeignClose(fd)
      PROVE  \A f \in Own : sock'[f].st = "foreign" => sock[f].st = "foreign"
  <2>1. CASE ForeignOpen(fd)
    <3>1. fd \in ForeignFds /\ \E rx : sock' = [sock EXCEPT ![fd].st = "foreign", ![fd].rx = rx]
      BY <2>1 DEF ForeignOpen
    <3> QED
      BY <1>0, <3>1 DEF SockRecord, Own
  <2>2. CASE ForeignClose(fd)
    BY <1>1, <2>2 DEF ForeignClose, FreeSock
  <2> QED
    BY <1>5, <2>1, <2>2
<1>6. CASE SetStop
  BY <1>6 DEF SetStop
<1> QED
  BY <1>2, <1>3, <1>4, <1>5, <1>6 DEF Environment

LEMMA KeptNext ==
  ASSUME IsFiniteSet(Conns), IsFiniteSet(Own), Cardinality(Conns) <= Cardinality(Own),
         ~ConnectMayFail, Registrable = Fds, OwnershipInv, KeptInv, TypeOK', [Next]_vars
  PROVE  KeptInv'
<1>0. TypeOK /\ conn \in ConnTable /\ toConnect \subseteq Conns
  BY DEF OwnershipInv, TypeOK
<1>1. CASE Thread
  <2>1. \A fd \in Own : sock'[fd].st # "foreign"
    <3>1. \A fd \in Fds : sock'[fd].st = "foreign" => sock[fd].st = "foreign"
      BY <1>1, ThreadOwned DEF Keeps
    <3> QED
      BY <3>1 DEF KeptInv, Own
  <2>2. CASE \E c \in Conns : thread_main(c)
    <3>1. PICK c \in Conns : thread_main(c)
      BY <2>2
    <3>2. /\ pc' = "setup" /\ toConnect' = toConnect \ {c} /\ c \in toConnect
          /\ connect_socket(c, events, sock, conn, errors)
      BY <3>1 DEF thread_main, loopVars
    <3>3. conn[c].fd \notin Fds
      BY <3>2, WrkThreadAssumption DEF OwnershipInv
    <3>4. conn'[c].fd \in Fds
      <4>1. CASE ConnectOk(c, events, sock, conn, errors)
        BY <1>0, <4>1 DEF ConnectOk, Free, ConnTable
      <4>2. CASE ConnectError(c, events, sock, conn, errors)
        <5>1. PICK fd \in Free(sock) : TRUE
          BY <3>3, NumberIsFree
        <5>2. Free(sock) # {}
          BY <5>1
        <5>3. \A f \in Free(sock) : CanAdd(events, [sock EXCEPT ![f].st = "connecting"], f)
          <6> SUFFICES ASSUME NEW f \in Free(sock)
                       PROVE  CanAdd(events, [sock EXCEPT ![f].st = "connecting"], f)
            OBVIOUS
          <6>1. f \in Fds /\ sock[f].st = "free"
            BY DEF Free
          <6>2. events[f].mask = {} /\ sock[f].ep = {}
            BY <6>1 DEF OwnershipInv, Owned, OwnedBy, Synced, EventsOwned, Live
          <6> QED
            BY <1>0, <6>1, <6>2 DEF CanAdd, TypeOK, SockTable
        <5> QED
          BY <4>2, <5>2, <5>3 DEF ConnectError
      <4> QED
        BY <3>2, <4>1, <4>2 DEF connect_socket
    <3>5. Retains(conn, conn')
      BY <1>0, <1>1, ThreadRetains
    <3> QED
      BY <2>1, <3>2, <3>4, <3>5 DEF KeptInv, Retains
  <2>3. CASE ~\E c \in Conns : thread_main(c)
    <3>1. Retains(conn, conn')
      BY <1>0, <1>1, ThreadRetains
    <3>2. toConnect' = toConnect /\ (pc' # "setup" => toConnect = {})
      <4>1. CASE aeMain
        BY <4>1 DEF aeMain
      <4>2. CASE \E c \in Conns : Parse(c) \/ ParseError(c) \/ ReadAgain(c) \/ ReadDone(c)
                                  \/ delay_request(c)
        BY <4>2 DEF Parse, ParseError, ReadAgain, socket_readable, ReadDone, delay_request, KeptInv
      <4>3. CASE \E fd \in Fds, c \in Conns : DispatchR(fd, c) \/ DispatchW(fd, c)
        BY <4>3 DEF DispatchR, DispatchW, CallsR, CallsW, socket_connected, socket_readable,
                    socket_writeable, KeptInv
      <4>4. CASE \/ \E fd \in Fds : SkipR(fd) \/ SkipW(fd)
                 \/ aeApiPoll \/ FiredDone \/ record_rate \/ EndTime
        BY <4>4 DEF SkipR, SkipW, aeApiPoll, FiredDone, record_rate, EndTime, KeptInv
      <4> QED
        BY <1>1, <2>3, <4>1, <4>2, <4>3, <4>4 DEF Thread
    <3> QED
      BY <1>0, <2>1, <3>1, <3>2 DEF KeptInv, Retains
  <2> QED
    BY <2>2, <2>3
<1>2. CASE Environment
  <2>1. UNCHANGED <<pc, toConnect, conn>>
    BY <1>2 DEF Environment, EnvUnchanged, Establish, Refuse, ServerFails, Respond, ForeignOpen,
                ForeignClose, SetStop
  <2>2. \A fd \in Own : sock'[fd].st # "foreign"
    BY <1>0, <1>2, EnvironmentKeepsOwn DEF KeptInv
  <2> QED
    BY <2>1, <2>2 DEF KeptInv
<1>3. CASE UNCHANGED vars
  BY <1>3 DEF vars, KeptInv
<1> QED
  BY <1>1, <1>2, <1>3 DEF Next

\* "Connections to keep open": with a free number for every connection of the
\* thread, each has a socket the loop watches from the end of the setup on, in
\* any order of answers, closings and failures of the server.
THEOREM ConnectionsAreKept ==
  ASSUME ~ConnectMayFail, Registrable = Fds, IsFiniteSet(Conns), IsFiniteSet(Own),
         Cardinality(Conns) <= Cardinality(Own)
  PROVE  Spec => []ConnectionKept
<1>1. Init => KeptInv
  BY DEF Init, KeptInv, Own, FreeSock
<1>2. OwnershipInv /\ KeptInv /\ TypeOK' /\ [Next]_vars => KeptInv'
  BY KeptNext
<1>3. OwnershipInv /\ KeptInv => ConnectionKept
  <2> SUFFICES ASSUME OwnershipInv, KeptInv, pc # "setup", NEW c \in Conns
               PROVE  /\ conn[c].fd \in Fds /\ events[conn[c].fd].data = c
                      /\ "R" \in events[conn[c].fd].mask
    BY DEF ConnectionKept
  <2>1. conn[c].fd \in Fds
    BY DEF KeptInv
  <2> QED
    BY <2>1 DEF OwnershipInv, Owned, OwnedBy, FdsOwned, EventsOwned
<1> QED
  BY <1>1, <1>2, <1>3, OwnershipInvariant, ThreadTypeCorrect, PTL DEF Spec

-----------------------------------------------------------------------------
(***************************************************************************)
(* Failures: the errors the thread reports are failures that happened, for *)
(* any number of connections and descriptors, any pipeline, with TLS or    *)
(* without, where connecting may fail as well.                             *)
(*                                                                         *)
(* The premises are those of a script without delay() (a timer that is     *)
(* pending when its connection is replaced spoils the new one, see the run *)
(* delay_race), a server that frames its answers (a body that ends with    *)
(* the stream is counted as an error, see eof_read_error), and descriptor  *)
(* numbers for this thread alone.                                          *)
(***************************************************************************)
Premises ==
    /\ ~Delay
    /\ Kinds \subseteq {"keep", "close"}
    /\ ForeignFds = {}

-----------------------------------------------------------------------------
(***************************************************************************)
(* The invariant.  What a socket holds is the answers of the server in     *)
(* order, with at most an end of the stream behind them; an answer that    *)
(* closes is the last.                                                     *)
(***************************************************************************)
Holds(s, x) == \E i \in DOMAIN s : s[i] = x
NoData(s) == \A i \in DOMAIN s : s[i] \in Ends

Stream(rx) ==
    \A i \in DOMAIN rx : /\ rx[i] # "eof"
                         /\ rx[i] \in Ends => i = Len(rx)
                         /\ rx[i] = "close" => i + 1 = Len(rx) /\ rx[i + 1] = "fin"

\* A number that is free, a socket that is not connected, one that is.
Socket(s) ==
    /\ s.st # "foreign"
    /\ s.st = "free" => s = FreeSock
    /\ s.st # "up" => s.rx = << >>
    /\ Stream(s.rx)

\* Nothing was asked of the server on this socket.
Unused(s) == s.due = 0 /\ NoData(s.rx)

\* Nothing was asked on the socket of c, when it has one.
Spare(sk, cn, c) == cn[c].fd \in Fds => Unused(sk[cn[c].fd])

\* The handlers of a descriptor go together: both socket_connected until the
\* connection is there, then those of an established connection.
Connecting(ev, sk, fd) ==
    /\ ev[fd].rproc = "socket_connected"
    /\ "W" \in ev[fd].mask => ev[fd].wproc = "socket_connected"
    /\ Unused(sk[fd])

Reading(ev, fd) ==
    /\ ev[fd].rproc = "socket_readable"
    /\ "W" \in ev[fd].mask => ev[fd].wproc = "socket_writeable"

Handlers(ev, sk, cn, fd) ==
    /\ sk[fd].ep = ev[fd].mask
    /\ sk[fd].st \in Live => ev[fd].mask # {}
    /\ ev[fd].mask # {} =>
          /\ fd \in Registrable /\ "R" \in ev[fd].mask /\ sk[fd].st \in Live
          /\ ev[fd].data \in Conns /\ cn[ev[fd].data].fd = fd
          /\ Connecting(ev, sk, fd) \/ Reading(ev, fd)

Good(ev, sk, cn) ==
    /\ ev \in EventTable /\ sk \in SockTable /\ cn \in ConnTable
    /\ \A fd \in Fds : Socket(sk[fd]) /\ Handlers(ev, sk, cn, fd)

\* The parser of an established connection of C takes more data.
Alive(C, ev, cn) ==
    \A fd \in Fds : ev[fd].mask # {} /\ ev[fd].data \in C /\ ev[fd].rproc = "socket_readable"
                       => cn[ev[fd].data].parser # "dead"

\* An event still to be dispatched is not stale: there is something to read.
Fresh(fd) ==
    "R" \in fired[fd] /\ events[fd].mask # {} /\ events[fd].rproc = "socket_readable"
       => sock[fd].rx # << >> \/ sock[fd].st = "refused"

\* The connection whose socket_readable runs: it reads the descriptor that is
\* dispatched, or an answer closed it and it has a new socket or none.
Registered(c, fd) == /\ fd \in Fds /\ conn[c].fd = fd
                     /\ events[fd].mask # {} /\ events[fd].data = c

BufferOf(fd) ==
    \A i \in DOMAIN buf : /\ buf[i] \in {"head", "keep", "close", "fin"}
                          /\ buf[i] = "close" => i = Len(buf) /\ sock[fd].rx = <<"fin">>
                          /\ buf[i] = "fin" => Len(buf) = 1 /\ sock[fd].rx = <<"fin">>

Dispatched(c) ==
    Registered(c, cur) /\ events[cur].rproc = "socket_readable" /\ BufferOf(cur)

Replaced(c) == buf = << >> /\ conn[c].parser = "dead" /\ Spare(sock, conn, c)

Loop ==
    /\ pc \notin {"parse", "file_w"} => cur = NoFd
    /\ pc = "parse" => reader \in Conns /\ (Dispatched(reader) \/ Replaced(reader))

Setup == /\ toConnect # {} => pc = "setup"
         /\ \A c \in toConnect : conn[c].fd = NoFd

Undelayed == \A c \in Conns : /\ ~conn[c].delayed /\ timers[c] = 0
                              /\ conn[c].parser # "body_eof"

StateInv ==
    /\ TypeOK /\ Undelayed /\ Setup /\ Loop
    /\ Good(events, sock, conn) /\ Alive(Conns, events, conn)
    /\ \A fd \in Fds \ {cur} : Fresh(fd)

\* A socket that failed and was not noticed yet.
Closing(fd) ==
    Holds(sock[fd].rx, "close") \/ (pc = "parse" /\ cur = fd /\ Holds(buf, "close"))
Failed(fd) == sock[fd].st = "refused" \/ (Finished(sock[fd].rx) /\ ~Closing(fd))

AllErrors == errors.connect + errors.read + errors.write
FailedFds == {fd \in Fds : Failed(fd)}
Counted == Cardinality(FailedFds) + AllErrors <= MaxFaults - faults

-----------------------------------------------------------------------------
(* The tables of events and sockets *)

\* A change that concerns one descriptor, and no connection of another.
LEMMA GoodChange ==
  ASSUME NEW ev, NEW sk, NEW cn, Good(ev, sk, cn), NEW fd \in Fds,
         NEW ev2 \in EventTable, NEW sk2 \in SockTable, NEW cn2 \in ConnTable,
         \A f \in Fds \ {fd} : ev2[f] = ev[f] /\ sk2[f] = sk[f],
         \A f \in Fds \ {fd} :
            ev[f].mask # {} => cn2[ev[f].data].fd = cn[ev[f].data].fd,
         Socket(sk2[fd]), Handlers(ev2, sk2, cn2, fd)
  PROVE  Good(ev2, sk2, cn2)
<1>1. ASSUME NEW f \in Fds
      PROVE  Socket(sk2[f]) /\ Handlers(ev2, sk2, cn2, f)
  <2>1. CASE f = fd
    BY <2>1
  <2>2. CASE f # fd
    <3>1. ev2[f] = ev[f] /\ sk2[f] = sk[f]
      BY <2>2
    <3>2. ev[f].mask # {} => cn2[ev[f].data].fd = cn[ev[f].data].fd
      BY <2>2
    <3>3. Socket(sk[f]) /\ Handlers(ev, sk, cn, f)
      BY DEF Good
    <3> QED
      BY <3>1, <3>2, <3>3 DEF Handlers, Connecting, Reading
  <2> QED
    BY <2>1, <2>2
<1> QED
  BY <1>1 DEF Good

\* A change of connections that leaves their descriptors.
LEMMA GoodFields ==
  ASSUME NEW ev, NEW sk, NEW cn, Good(ev, sk, cn), NEW cn2 \in ConnTable,
         \A d \in Conns : cn2[d].fd = cn[d].fd
  PROVE  Good(ev, sk, cn2)
<1>1. ASSUME NEW f \in Fds
      PROVE  Handlers(ev, sk, cn2, f)
  BY DEF Good, Handlers
<1> QED
  BY <1>1 DEF Good

\* A descriptor of an event table that is registered, and its connection.
LEMMA RegisteredGood ==
  ASSUME NEW ev, NEW sk, NEW cn, Good(ev, sk, cn), NEW fd \in Fds, ev[fd].mask # {}
  PROVE  /\ fd \in Registrable /\ "R" \in ev[fd].mask /\ sk[fd].st \in Live
         /\ ev[fd].data \in Conns /\ cn[ev[fd].data].fd = fd
         /\ sk[fd].ep = ev[fd].mask
         /\ Connecting(ev, sk, fd) \/ Reading(ev, fd)
  BY DEF Good, Handlers

\* No other descriptor belongs to the same connection.
LEMMA OneDescriptor ==
  ASSUME NEW ev, NEW sk, NEW cn, Good(ev, sk, cn), NEW fd \in Fds, NEW f \in Fds,
         ev[fd].mask # {}, ev[f].mask # {}, ev[f].data = ev[fd].data
  PROVE  f = fd
  BY RegisteredGood

\* A new socket and its event.
NewEvent(c) == [mask |-> Mask, rproc |-> "socket_connected",
                wproc |-> "socket_connected", data |-> c]
NewSock == [FreeSock EXCEPT !.st = "connecting", !.ep = Mask]

LEMMA NewSockGood ==
  /\ NewSock \in SockRecord /\ Socket(NewSock) /\ Unused(NewSock)
  /\ NewSock.st = "connecting" /\ NewSock.rx = << >> /\ NewSock.ep = Mask /\ NewSock.got = 0
<1>1. /\ NewSock.st = "connecting" /\ NewSock.rx = << >> /\ NewSock.ep = Mask
      /\ NewSock.due = 0 /\ NewSock.got = 0
  BY DEF NewSock, FreeSock
<1>2. NewSock \in SockRecord
  BY FreeSockType DEF NewSock, FreeSock, SockRecord, Live
<1>3. \A i \in DOMAIN << >> : FALSE
  OBVIOUS
<1>4. Socket(NewSock)
  BY <1>1, <1>3 DEF Socket, Stream
<1>5. Unused(NewSock)
  BY <1>1, <1>3 DEF Unused, NoData
<1> QED
  BY <1>1, <1>2, <1>4, <1>5

LEMMA FreeSockGood ==
  Socket(FreeSock) /\ Unused(FreeSock)
  /\ FreeSock.st = "free" /\ FreeSock.rx = << >> /\ FreeSock.ep = {} /\ FreeSock.got = 0
<1>1. \A i \in DOMAIN << >> : FALSE
  OBVIOUS
<1> QED
  BY <1>1 DEF FreeSock, Socket, Stream, Unused, NoData

-----------------------------------------------------------------------------
(* Connecting *)

\* Descriptor g is as in ev and sk, or free, or that of a new socket.
Same(ev, sk, g) == events'[g] = ev[g] /\ sock'[g] = sk[g]
Quiet(g) == /\ events'[g].mask = {} \/ events'[g].rproc = "socket_connected"
            /\ sock'[g].rx = << >> /\ sock'[g].got = 0
            /\ sock'[g].st \in {"free", "connecting"}

\* The price of a connect: nothing, or one error and one fault.
Charged(er) == \/ errors' = er /\ faults' = faults
               \/ errors' = Raise(er, "connect") /\ faults > 0 /\ faults' = faults - 1

\* Of the connections in cn only c may change, in its descriptor.
Moved(c, cn) == conn' = cn \/ \E f \in Fds : conn' = [cn EXCEPT ![c].fd = f]

\* connect_socket for a connection without an event.
LEMMA ConnectGood ==
  ASSUME NEW ev, NEW sk, NEW cn, NEW er, NEW c \in Conns, Good(ev, sk, cn),
         Alive(Conns \ {c}, ev, cn), Spare(sk, cn, c),
         \A f \in Fds : ev[f].mask # {} => ev[f].data # c,
         connect_socket(c, ev, sk, cn, er)
  PROVE  /\ Good(events', sock', conn') /\ Alive(Conns, events', conn')
         /\ Spare(sock', conn', c)
         /\ \A g \in Fds : Same(ev, sk, g) \/ Quiet(g)
         /\ Moved(c, cn) /\ Charged(er)
<1>1. ev \in EventTable /\ sk \in SockTable /\ cn \in ConnTable
  BY DEF Good
<1>2. CASE ConnectOk(c, ev, sk, cn, er)
  <2> DEFINE open(fd) == [sk EXCEPT ![fd] = [FreeSock EXCEPT !.st = "connecting"]]
  <2>1. PICK fd \in Free(sk) :
           /\ CanAdd(ev, open(fd), fd)
           /\ events' = AddEvent(ev, fd, Mask, "socket_connected", c)
           /\ sock'   = AddInterest(ev, open(fd), fd, Mask)
           /\ conn'   = [cn EXCEPT ![c].fd = fd]
           /\ errors' = er
           /\ UNCHANGED faults
    BY <1>2 DEF ConnectOk
  <2>2. fd \in Fds /\ sk[fd].st = "free"
    BY DEF Free
  <2>3. ev[fd].mask = {}
    BY <2>2 DEF Good, Handlers, Live
  <2>4. fd \in Registrable
    BY <2>1 DEF CanAdd
  <2>5. events' = [ev EXCEPT ![fd] = NewEvent(c)]
    BY <2>1, <2>3 DEF AddEvent, NewEvent, Mask
  <2>6. sock' = [sk EXCEPT ![fd] = NewSock]
    BY <1>1, <2>1, <2>2, <2>3 DEF AddInterest, NewSock, SockTable, FreeSock
  <2>7. events' \in EventTable
    BY <2>1, <2>2, <1>1, AddEventType DEF Procs
  <2>8. sock' \in SockTable
    BY <1>1, <2>2, <2>6, NewSockGood DEF SockTable, SockRecord
  <2>9. conn' \in ConnTable /\ conn'[c].fd = fd
        /\ \A d \in Conns \ {c} : conn'[d] = cn[d]
    BY <1>1, <2>1, <2>2 DEF ConnTable
  <2>10. /\ events'[fd] = NewEvent(c) /\ sock'[fd] = NewSock
         /\ \A f \in Fds \ {fd} : events'[f] = ev[f] /\ sock'[f] = sk[f]
    BY <1>1, <2>2, <2>5, <2>6 DEF EventTable, SockTable
  <2>11. /\ events'[fd].mask = Mask /\ events'[fd].rproc = "socket_connected"
         /\ events'[fd].wproc = "socket_connected" /\ events'[fd].data = c
    BY <2>10 DEF NewEvent
  <2>12. \A f \in Fds \ {fd} : ev[f].mask # {} => ev[f].data \in Conns \ {c}
    BY DEF Good, Handlers
  <2>13. Good(events', sock', conn')
    <3>1. Socket(sock'[fd])
      BY <2>10, NewSockGood
    <3>2. Connecting(events', sock', fd)
      BY <2>10, <2>11, NewSockGood DEF Connecting
    <3>3. Handlers(events', sock', conn', fd)
      BY <2>4, <2>9, <2>10, <2>11, <3>2, NewSockGood DEF Handlers, Mask, Live
    <3>4. \A f \in Fds \ {fd} :
             ev[f].mask # {} => conn'[ev[f].data].fd = cn[ev[f].data].fd
      BY <2>9, <2>12
    <3> QED
      BY <2>2, <2>7, <2>8, <2>9, <2>10, <3>1, <3>3, <3>4, GoodChange
  <2>14. Alive(Conns, events', conn')
    BY <2>9, <2>10, <2>11, <2>12 DEF Alive
  <2>15. Spare(sock', conn', c)
    BY <2>9, <2>10, NewSockGood DEF Spare
  <2>16. \A g \in Fds : Same(ev, sk, g) \/ Quiet(g)
    BY <2>10, <2>11, NewSockGood DEF Same, Quiet
  <2>17. Moved(c, cn) /\ Charged(er)
    BY <2>1, <2>2 DEF Moved, Charged
  <2> QED
    BY <2>13, <2>14, <2>15, <2>16, <2>17
<1>3. CASE ConnectError(c, ev, sk, cn, er)
  <2>1. events' = ev /\ sock' = sk /\ conn' = cn
    BY <1>3 DEF ConnectError
  <2>2. Alive(Conns, ev, cn)
    BY DEF Alive
  <2>3. Moved(c, cn) /\ Charged(er)
    BY <1>3 DEF ConnectError, Moved, Charged
  <2> QED
    BY <2>1, <2>2, <2>3 DEF Same
<1> QED
  BY <1>2, <1>3 DEF connect_socket

\* The first half of reconnect_socket, for a connection that has a descriptor:
\* the number is free, and nothing is registered for the connection.
Released(c, fd, ev, sk, cn, ev2, sk2) ==
    /\ Good(ev2, sk2, cn)
    /\ \A f \in Fds : ev2[f].mask # {} => ev2[f].data # c
    /\ \A f \in Fds \ {fd} : ev2[f] = ev[f] /\ sk2[f] = sk[f]
    /\ ev2[fd].mask = {} /\ sk2[fd] = FreeSock

LEMMA ReleaseGood ==
  ASSUME NEW ev, NEW sk, NEW cn, NEW c \in Conns, NEW fd \in Fds, Good(ev, sk, cn),
         cn[c].fd = fd, ev[fd].mask # {}, ev[fd].data = c
  PROVE  LET del == aeDeleteFileEvent(ev, sk, fd, Mask)
         IN  Released(c, fd, ev, sk, cn, del.ev, CloseFd(del.sk, fd))
<1> DEFINE del == aeDeleteFileEvent(ev, sk, fd, Mask)
           sk2 == CloseFd(del.sk, fd)
<1>1. ev \in EventTable /\ sk \in SockTable /\ cn \in ConnTable
  BY DEF Good
<1>2. /\ fd \in Registrable /\ sk[fd].ep # {}
  BY RegisteredGood
<1>3. del.ev = [ev EXCEPT ![fd].mask = @ \ Mask]
      /\ sk2 = [[sk EXCEPT ![fd].ep = ev[fd].mask \ Mask] EXCEPT ![fd] = FreeSock]
  BY <1>2 DEF aeDeleteFileEvent, CloseFd
<1>4. del.ev \in EventTable /\ sk2 \in SockTable
  BY <1>1, DeleteType, CloseType
<1> HIDE DEF del, sk2
<1>5. /\ \A f \in Fds \ {fd} : del.ev[f] = ev[f] /\ sk2[f] = sk[f]
      /\ del.ev[fd].mask = {} /\ sk2[fd] = FreeSock
  BY <1>1, <1>3 DEF EventTable, SockTable, Mask
<1>6. \A f \in Fds \ {fd} : ev[f].mask # {} => ev[f].data # c
  BY OneDescriptor
<1>7. Socket(sk2[fd]) /\ Handlers(del.ev, sk2, cn, fd)
  BY <1>5, FreeSockGood DEF Handlers, Live
<1>8. Good(del.ev, sk2, cn)
  BY <1>1, <1>4, <1>5, <1>7, GoodChange
<1> QED
  BY <1>5, <1>6, <1>8 DEF del, sk2, Released

\* reconnect_socket for the connection c that is registered at fd.
Reconnected(c, fd, ev, sk, cn, er) ==
    /\ Good(events', sock', conn') /\ Alive(Conns, events', conn')
    /\ Spare(sock', conn', c)
    /\ Quiet(fd) /\ \A g \in Fds \ {fd} : Same(ev, sk, g) \/ Quiet(g)
    /\ Moved(c, cn) /\ Charged(er)

LEMMA ReconnectGood ==
  ASSUME NEW ev, NEW sk, NEW cn, NEW er, NEW c \in Conns, NEW fd \in Fds,
         Good(ev, sk, cn), Alive(Conns \ {c}, ev, cn),
         cn[c].fd = fd, ev[fd].mask # {}, ev[fd].data = c,
         reconnect_socket(c, ev, sk, cn, er)
  PROVE  Reconnected(c, fd, ev, sk, cn, er)
<1> DEFINE del == aeDeleteFileEvent(ev, sk, fd, Mask)
           sk2 == CloseFd(del.sk, fd)
<1>0. Released(c, fd, ev, sk, cn, del.ev, sk2)
  BY ReleaseGood, Zenon
<1>2. connect_socket(c, del.ev, sk2, cn, er)
  BY DEF reconnect_socket
<1> HIDE DEF del, sk2
<1>1. /\ Good(del.ev, sk2, cn)
      /\ \A f \in Fds : del.ev[f].mask # {} => del.ev[f].data # c
      /\ \A f \in Fds \ {fd} : del.ev[f] = ev[f] /\ sk2[f] = sk[f]
      /\ del.ev[fd].mask = {} /\ sk2[fd] = FreeSock
  BY <1>0 DEF Released
<1>3. Alive(Conns \ {c}, del.ev, cn)
  BY <1>1 DEF Alive
<1>4. Spare(sk2, cn, c)
  BY <1>1, FreeSockGood DEF Spare
<1>5. /\ Good(events', sock', conn') /\ Alive(Conns, events', conn')
      /\ Spare(sock', conn', c)
      /\ \A g \in Fds : Same(del.ev, sk2, g) \/ Quiet(g)
      /\ Moved(c, cn) /\ Charged(er)
  BY <1>1, <1>2, <1>3, <1>4, ConnectGood
<1>6. Same(del.ev, sk2, fd) => Quiet(fd)
  BY <1>1, FreeSockGood DEF Same, Quiet
<1>7. \A g \in Fds \ {fd} : Same(del.ev, sk2, g) => Same(ev, sk, g)
  BY <1>1 DEF Same
<1> QED
  BY <1>5, <1>6, <1>7 DEF Reconnected

-----------------------------------------------------------------------------
(* Streams *)

\* Positions in a sequence of length m and in what is left of it behind n.
LEMMA Shift ==
  \A m, n, i \in Int :
     /\ (n + 1) + i - 1 = n + i
     /\ m - (n + 1) + 1 = m - n
     /\ n + i = m <=> i = m - n
     /\ n + i + 1 = m <=> i + 1 = m - n
     /\ n + (i + 1) = n + i + 1
  OBVIOUS

\* Reading the first n items leaves the rest of the stream; if they are data
\* and one of them closes, the end of the stream is what is left.
LEMMA StreamRead ==
  ASSUME NEW rx \in Seq(Item), Stream(rx), NEW n \in 1..Len(rx),
         \A i \in 1..n : rx[i] \in Data
  PROVE  LET b == SubSeq(rx, 1, n)
             r == SubSeq(rx, n + 1, Len(rx))
         IN  /\ Stream(r)
             /\ \A i \in DOMAIN b : /\ b[i] \in {"head", "keep", "close"}
                                    /\ b[i] = "close" => i = Len(b) /\ r = <<"fin">>
             /\ Finished(r) => Finished(rx)
             /\ Holds(rx, "close") => Holds(r, "close") \/ Holds(b, "close")
<1> DEFINE b == SubSeq(rx, 1, n)
           r == SubSeq(rx, n + 1, Len(rx))
<1>1. Len(rx) \in Nat /\ n \in Nat /\ n >= 1 /\ n <= Len(rx) /\ DOMAIN rx = 1..Len(rx)
  OBVIOUS
<1>0. Len(rx) \in Int /\ n \in Int
  BY <1>1
<1>2. /\ b \in Seq(Item) /\ Len(b) = n /\ DOMAIN b = 1..n
      /\ \A i \in 1..n : b[i] = rx[i]
  BY <1>1
<1>3. /\ r \in Seq(Item) /\ Len(r) = Len(rx) - n /\ DOMAIN r = 1..(Len(rx) - n)
      /\ \A i \in 1..(Len(rx) - n) : r[i] = rx[n + i]
  <2>1. \A i \in (n + 1)..Len(rx) : rx[i] \in Item
    BY <1>1
  <2>2. /\ r \in Seq(Item)
        /\ Len(r) = IF n + 1 <= Len(rx) THEN Len(rx) - (n + 1) + 1 ELSE 0
        /\ \A i \in 1..(Len(rx) - (n + 1) + 1) : r[i] = rx[(n + 1) + i - 1]
    BY <1>1, <2>1, SubSeqProperties
  <2> HIDE DEF r
  <2>3. Len(r) = Len(rx) - n /\ Len(rx) - (n + 1) + 1 = Len(rx) - n
    <3>1. Len(rx) - (n + 1) + 1 = Len(rx) - n
      BY <1>0, Shift
    <3> DEFINE m == Len(rx)
    <3>2. m \in Nat /\ n \in Nat /\ n <= m
      BY <1>1
    <3> HIDE DEF m
    <3>3. ~(n + 1 <= m) => m - n = 0
      BY <3>2
    <3> QED
      BY <2>2, <3>1, <3>3 DEF m
  <2>4. \A i \in 1..(Len(rx) - n) : (n + 1) + i - 1 = n + i
    BY <1>0, Shift
  <2>5. DOMAIN r = 1..Len(r)
    BY <2>2
  <2> QED
    BY <2>2, <2>3, <2>4, <2>5
<1> HIDE DEF b, r
<1>4. Stream(r)
  <2> SUFFICES ASSUME NEW i \in 1..(Len(rx) - n)
               PROVE  /\ r[i] # "eof"
                      /\ r[i] \in Ends => i = Len(r)
                      /\ r[i] = "close" => i + 1 = Len(r) /\ r[i + 1] = "fin"
    BY <1>3 DEF Stream
  <2>1. n + i \in 1..Len(rx) /\ r[i] = rx[n + i]
    BY <1>1, <1>3
  <2>2. /\ rx[n + i] # "eof"
        /\ rx[n + i] \in Ends => n + i = Len(rx)
        /\ rx[n + i] = "close" => n + i + 1 = Len(rx) /\ rx[n + i + 1] = "fin"
    BY <1>1, <2>1 DEF Stream
  <2>3. r[i] \in Ends => i = Len(r)
    <3>1. n + i = Len(rx) => i = Len(rx) - n
      BY <1>0, Shift
    <3> QED
      BY <1>3, <2>1, <2>2, <3>1
  <2>4. ASSUME r[i] = "close" PROVE i + 1 = Len(r) /\ r[i + 1] = "fin"
    <3>1. n + i + 1 = Len(rx) /\ rx[n + i + 1] = "fin"
      BY <2>1, <2>2, <2>4
    <3>2. i + 1 = Len(rx) - n /\ n + (i + 1) = n + i + 1
      BY <1>0, <3>1, Shift
    <3>3. i + 1 \in 1..(Len(rx) - n)
      BY <1>0, <3>2
    <3> QED
      BY <1>3, <3>1, <3>2, <3>3
  <2> QED
    BY <2>1, <2>2, <2>3, <2>4
<1>5. ASSUME NEW i \in 1..n
      PROVE  /\ b[i] \in {"head", "keep", "close"}
             /\ b[i] = "close" => i = Len(b) /\ r = <<"fin">>
  <2>1. b[i] = rx[i] /\ rx[i] \in Data /\ i \in 1..Len(rx) /\ rx[i] # "eof"
    BY <1>1, <1>2 DEF Stream
  <2>2. ASSUME b[i] = "close" PROVE i = Len(b) /\ r = <<"fin">>
    <3>1. i + 1 = Len(rx) /\ rx[i + 1] = "fin"
      BY <1>1, <2>1, <2>2 DEF Stream
    <3>2. i = n
      BY <1>1, <3>1 DEF Data, AllKinds
    <3>3. Len(rx) - n = 1 /\ n + 1 = i + 1
      BY <1>0, <3>1, <3>2
    <3>4. Len(r) = 1 /\ r[1] = "fin"
      BY <1>3, <3>1, <3>3
    <3>5. r = <<"fin">>
      <4>1. <<"fin">> \in Seq(Item) /\ Len(<<"fin">>) = 1 /\ <<"fin">>[1] = "fin"
        BY DEF Item, Ends
      <4>2. \A j \in 1..1 : r[j] = <<"fin">>[j]
        BY <3>4, <4>1
      <4> QED
        BY <1>3, <3>4, <4>1, <4>2, SeqEqual
    <3> QED
      BY <1>2, <3>2, <3>5
  <2> QED
    BY <2>1, <2>2 DEF Data, AllKinds
<1>6. Finished(r) => Finished(rx)
  <2>1. ASSUME NEW i \in 1..(Len(rx) - n), r[i] \in Ends PROVE Finished(rx)
    <3>1. n + i \in 1..Len(rx) /\ r[i] = rx[n + i]
      BY <1>1, <1>3
    <3> QED
      BY <1>1, <2>1, <3>1 DEF Finished
  <2> QED
    BY <1>3, <2>1 DEF Finished
<1>7. ASSUME Holds(rx, "close") PROVE Holds(r, "close") \/ Holds(b, "close")
  <2>1. PICK i \in 1..Len(rx) : rx[i] = "close"
    BY <1>1, <1>7 DEF Holds
  <2>2. CASE i <= n
    BY <1>1, <1>2, <2>1, <2>2 DEF Holds
  <2>3. CASE i > n
    <3>1. i - n \in 1..(Len(rx) - n) /\ n + (i - n) = i
      BY <1>1, <2>3
    <3> QED
      BY <1>3, <2>1, <3>1 DEF Holds
  <2> QED
    BY <1>1, <2>2, <2>3
<1> QED
  BY <1>2, <1>4, <1>5, <1>6, <1>7 DEF b, r

\* A stream that is not finished closes nothing.
LEMMA OpenStream ==
  ASSUME NEW rx \in Seq(Item), Stream(rx), ~Finished(rx)
  PROVE  /\ \A i \in DOMAIN rx : rx[i] # "eof" /\ rx[i] \notin Ends /\ rx[i] # "close"
         /\ NoData(rx) => rx = << >>
<1>1. Len(rx) \in Nat /\ DOMAIN rx = 1..Len(rx)
  OBVIOUS
<1>2. ASSUME NEW i \in 1..Len(rx)
      PROVE  rx[i] # "eof" /\ rx[i] \notin Ends /\ rx[i] # "close"
  <2>1. rx[i] # "eof" /\ rx[i] \notin Ends
    BY <1>1 DEF Stream, Finished
  <2>2. ASSUME rx[i] = "close" PROVE FALSE
    <3>1. i + 1 = Len(rx) /\ rx[i + 1] = "fin"
      BY <1>1, <2>2 DEF Stream
    <3>2. i + 1 \in DOMAIN rx
      BY <1>1, <3>1
    <3> QED
      BY <3>1, <3>2 DEF Finished, Ends
  <2> QED
    BY <2>1, <2>2
<1>3. NoData(rx) => rx = << >>
  <2>1. NoData(rx) => \A i \in 1..Len(rx) : FALSE
    BY <1>1 DEF NoData, Finished
  <2>2. (\A i \in 1..Len(rx) : FALSE) => Len(rx) = 0
    BY <1>1
  <2> QED
    BY <2>1, <2>2
<1> QED
  BY <1>1, <1>2, <1>3

\* The server's answers.
LEMMA StreamAnswer ==
  ASSUME NEW rx \in Seq(Item), Stream(rx), ~Finished(rx),
         NEW kind \in {"keep", "close"}
  PROVE  LET new == rx \o (IF kind = "keep" THEN <<"head", "keep">>
                           ELSE <<"head", kind, "fin">>)
         IN  /\ Stream(new) /\ new # << >>
             /\ Finished(new) => Holds(new, "close")
<1>1. Len(rx) \in Nat /\ DOMAIN rx = 1..Len(rx)
  OBVIOUS
<1>2. CASE kind = "keep"
  <2> DEFINE new == rx \o <<"head", "keep">>
  <2>1. /\ Len(new) = Len(rx) + 2 /\ DOMAIN new = 1..(Len(rx) + 2)
        /\ \A i \in 1..Len(rx) : new[i] = rx[i]
        /\ new[Len(rx) + 1] = "head" /\ new[Len(rx) + 2] = "keep"
    BY <1>1
  <2> HIDE DEF new
  <2>2. \A i \in DOMAIN new : new[i] # "eof" /\ new[i] \notin Ends /\ new[i] # "close"
    <3> SUFFICES ASSUME NEW i \in 1..(Len(rx) + 2)
                 PROVE  new[i] # "eof" /\ new[i] \notin Ends /\ new[i] # "close"
      BY <2>1
    <3>1. i \in 1..Len(rx) \/ i = Len(rx) + 1 \/ i = Len(rx) + 2
      BY <1>1
    <3> QED
      BY <1>1, <2>1, <3>1, OpenStream DEF Ends
  <2>3. Stream(new) /\ ~Finished(new)
    BY <2>2 DEF Stream, Finished
  <2>4. new # << >>
    BY <1>1, <2>1
  <2> QED
    BY <1>2, <2>3, <2>4 DEF new
<1>3. CASE kind = "close"
  <2> DEFINE new == rx \o <<"head", "close", "fin">>
  <2>1. /\ Len(new) = Len(rx) + 3 /\ DOMAIN new = 1..(Len(rx) + 3)
        /\ \A i \in 1..Len(rx) : new[i] = rx[i]
        /\ new[Len(rx) + 1] = "head" /\ new[Len(rx) + 2] = "close"
        /\ new[Len(rx) + 3] = "fin"
    BY <1>1
  <2> HIDE DEF new
  <2>2. Stream(new)
    <3> SUFFICES ASSUME NEW i \in 1..(Len(rx) + 3)
                 PROVE  /\ new[i] # "eof"
                        /\ new[i] \in Ends => i = Len(new)
                        /\ new[i] = "close" => i + 1 = Len(new) /\ new[i + 1] = "fin"
      BY <2>1 DEF Stream
    <3>1. CASE i \in 1..Len(rx)
      BY <1>1, <2>1, <3>1, OpenStream
    <3>2. CASE i = Len(rx) + 1
      BY <1>1, <2>1, <3>2 DEF Ends
    <3>3. CASE i = Len(rx) + 2
      <4>1. i + 1 = Len(rx) + 3
        BY <1>1, <3>3
      <4> QED
        BY <1>1, <2>1, <3>3, <4>1 DEF Ends
    <3>4. CASE i = Len(rx) + 3
      BY <1>1, <2>1, <3>4
    <3> QED
      BY <1>1, <3>1, <3>2, <3>3, <3>4
  <2>3. Holds(new, "close") /\ new # << >>
    <3>1. Len(rx) + 2 \in DOMAIN new
      BY <1>1, <2>1
    <3> QED
      BY <1>1, <2>1, <3>1 DEF Holds
  <2> QED
    BY <1>3, <2>2, <2>3 DEF new
<1> QED
  BY <1>2, <1>3

\* A stream that is cut.
LEMMA StreamCut ==
  ASSUME NEW rx \in Seq(Item), Stream(rx), ~Finished(rx), NEW n \in 0..Len(rx),
         NEW e \in Ends
  PROVE  LET new == Append(SubSeq(rx, 1, n), e)
         IN  /\ Stream(new) /\ new # << >>
             /\ rx = << >> => NoData(new)
<1> DEFINE new == Append(SubSeq(rx, 1, n), e)
<1>1. Len(rx) \in Nat /\ DOMAIN rx = 1..Len(rx)
  OBVIOUS
<1>2. /\ SubSeq(rx, 1, n) \in Seq(Item) /\ Len(SubSeq(rx, 1, n)) = n
      /\ \A i \in 1..n : SubSeq(rx, 1, n)[i] = rx[i]
  BY <1>1
<1>3. /\ Len(new) = n + 1 /\ DOMAIN new = 1..(n + 1)
      /\ \A i \in 1..n : new[i] = rx[i]
      /\ new[n + 1] = e
  BY <1>1, <1>2
<1> HIDE DEF new
<1>4. Stream(new)
  <2> SUFFICES ASSUME NEW i \in 1..(n + 1)
               PROVE  /\ new[i] # "eof"
                      /\ new[i] \in Ends => i = Len(new)
                      /\ new[i] = "close" => i + 1 = Len(new) /\ new[i + 1] = "fin"
    BY <1>3 DEF Stream
  <2>1. CASE i \in 1..n
    <3>1. i \in 1..Len(rx)
      BY <1>1, <2>1
    <3> QED
      BY <1>1, <1>3, <2>1, <3>1, OpenStream
  <2>2. CASE i = n + 1
    BY <1>1, <1>3, <2>2 DEF Ends
  <2> QED
    BY <1>1, <2>1, <2>2
<1>5. rx = << >> => NoData(new)
  <2>1. rx = << >> => n = 0
    BY <1>1
  <2>2. n = 0 => \A i \in DOMAIN new : new[i] = e
    BY <1>3
  <2> QED
    BY <2>1, <2>2 DEF NoData
<1>6. new # << >>
  BY <1>1, <1>3
<1> QED
  BY <1>4, <1>5, <1>6 DEF new

\* The end of the stream in front, or a reset anywhere, closes no answer.
LEMMA EndedStream ==
  ASSUME NEW rx \in Seq(Item), Stream(rx),
         \/ rx # << >> /\ Head(rx) \in Ends
         \/ Holds(rx, "rst")
         \/ rx # << >> /\ NoData(rx)
  PROVE  Finished(rx) /\ ~Holds(rx, "close")
<1>1. Len(rx) \in Nat /\ DOMAIN rx = 1..Len(rx)
  OBVIOUS
<1>2. rx # << >> => 1 \in 1..Len(rx) /\ rx[1] = Head(rx)
  BY <1>1
<1>3. \/ 1 \in 1..Len(rx) /\ rx[1] \in Ends
      \/ \E i \in 1..Len(rx) : rx[i] = "rst"
  BY <1>1, <1>2 DEF Holds, NoData
<1>4. PICK i \in 1..Len(rx) : rx[i] \in Ends /\ (i = 1 \/ rx[i] = "rst")
  BY <1>3 DEF Ends
<1>5. i = Len(rx)
  BY <1>1, <1>4 DEF Stream
<1>6. ASSUME NEW j \in 1..Len(rx), rx[j] = "close" PROVE FALSE
  <2>1. j + 1 = Len(rx) /\ rx[j + 1] = "fin"
    BY <1>1, <1>6 DEF Stream
  <2> QED
    BY <1>1, <1>4, <1>5, <2>1
<1> QED
  BY <1>1, <1>4, <1>6 DEF Finished, Holds

-----------------------------------------------------------------------------
(* The handlers *)

\* A handler keeps the tables good and touches, besides its own descriptor,
\* only numbers that were free.
Kept == Good(events', sock', conn') /\ Alive(Conns, events', conn') /\ Undelayed'
Local(fd) == \A g \in Fds \ {fd} : Same(events, sock, g) \/ Quiet(g)

\* It reports an error only if a fault paid for it, or if its socket had failed
\* and is now replaced.
Costs(fd) ==
    \/ errors' = errors /\ faults' = faults /\ (Failed(fd)' => Failed(fd))
    \/ Quiet(fd) /\ Charged(errors)
    \/ /\ Failed(fd) /\ Quiet(fd)
       /\ \E kind \in {"connect", "read", "write"} : Charged(Raise(errors, kind))

\* What the loop may call a handler in.
Calm == /\ TypeOK /\ TypeOK' /\ Undelayed
        /\ Good(events, sock, conn) /\ Alive(Conns, events, conn)

\* Descriptor fd goes on being watched for its connection, with both handlers
\* of the same kind.
LEMMA HandlersChange ==
  ASSUME NEW ev, NEW sk, NEW cn, Good(ev, sk, cn), NEW fd \in Fds, ev[fd].mask # {},
         NEW ev2 \in EventTable, NEW sk2 \in SockTable, NEW cn2 \in ConnTable,
         \A f \in Fds \ {fd} : ev2[f] = ev[f] /\ sk2[f] = sk[f],
         \A d \in Conns : cn2[d].fd = cn[d].fd,
         "R" \in ev2[fd].mask, ev2[fd].data = ev[fd].data,
         sk2[fd].ep = ev2[fd].mask, sk2[fd].st \in Live, Socket(sk2[fd]),
         Connecting(ev2, sk2, fd) \/ Reading(ev2, fd)
  PROVE  Good(ev2, sk2, cn2)
<1>1. \A f \in Fds : ev[f].mask # {} => ev[f].data \in Conns
  BY RegisteredGood
<1>2. fd \in Registrable /\ ev[fd].data \in Conns /\ cn[ev[fd].data].fd = fd
  BY RegisteredGood
<1>3. Handlers(ev2, sk2, cn2, fd)
  BY <1>2 DEF Handlers
<1> QED
  BY <1>1, <1>3, GoodChange

\* aeCreateFileEvent on a descriptor that is watched.
Created(fd, mask, proc, c, ev, sk, ev2, sk2) ==
    /\ ev2 \in EventTable /\ sk2 \in SockTable
    /\ \A f \in Fds \ {fd} : ev2[f] = ev[f] /\ sk2[f] = sk[f]
    /\ ev2[fd] = [mask  |-> ev[fd].mask \cup mask,
                  rproc |-> IF "R" \in mask THEN proc ELSE ev[fd].rproc,
                  wproc |-> IF "W" \in mask THEN proc ELSE ev[fd].wproc,
                  data  |-> c]
    /\ sk2[fd].ep = ev[fd].mask \cup mask
    /\ sk2[fd].st = sk[fd].st /\ sk2[fd].rx = sk[fd].rx
    /\ sk2[fd].due = sk[fd].due /\ sk2[fd].got = sk[fd].got

LEMMA CreateWorks ==
  ASSUME NEW ev \in EventTable, NEW sk \in SockTable, NEW fd \in Fds,
         fd \in Registrable, ev[fd].mask # {}, sk[fd].ep = ev[fd].mask,
         sk[fd].st \in Live, NEW mask \in SUBSET Mask, NEW proc \in Procs, NEW c \in Conns
  PROVE  LET r == aeCreateFileEvent(ev, sk, fd, mask, proc, c)
         IN  Created(fd, mask, proc, c, ev, sk, r.ev, r.sk)
<1> DEFINE ev2 == AddEvent(ev, fd, mask, proc, c)
           sk2 == AddInterest(ev, sk, fd, mask)
           r   == aeCreateFileEvent(ev, sk, fd, mask, proc, c)
<1>1. CanAdd(ev, sk, fd)
  BY DEF CanAdd, Live
<1>2. r.ev = ev2 /\ r.sk = sk2
  BY <1>1 DEF aeCreateFileEvent
<1>3. ev2 \in EventTable /\ sk2 \in SockTable
  BY AddEventType, AddInterestType
<1>4. Created(fd, mask, proc, c, ev, sk, ev2, sk2)
  <2>1. \A f \in Fds \ {fd} : ev2[f] = ev[f] /\ sk2[f] = sk[f]
    BY DEF AddEvent, AddInterest, EventTable, SockTable
  <2>2. ev2[fd] = [mask  |-> ev[fd].mask \cup mask,
                   rproc |-> IF "R" \in mask THEN proc ELSE ev[fd].rproc,
                   wproc |-> IF "W" \in mask THEN proc ELSE ev[fd].wproc,
                   data  |-> c]
    BY DEF AddEvent, EventTable
  <2>3. /\ sk2[fd].ep = ev[fd].mask \cup mask
        /\ sk2[fd].st = sk[fd].st /\ sk2[fd].rx = sk[fd].rx
        /\ sk2[fd].due = sk[fd].due /\ sk2[fd].got = sk[fd].got
    BY DEF AddInterest, SockTable
  <2> QED
    BY <1>3, <2>1, <2>2, <2>3 DEF Created
<1> HIDE DEF ev2, sk2
<1> QED
  BY <1>2, <1>4 DEF r

\* aeDeleteFileEvent of the write event of a descriptor that is watched.
Deleted(fd, ev, sk, ev2, sk2) ==
    /\ ev2 \in EventTable /\ sk2 \in SockTable
    /\ \A f \in Fds \ {fd} : ev2[f] = ev[f] /\ sk2[f] = sk[f]
    /\ ev2[fd].mask = ev[fd].mask \ {"W"} /\ ev2[fd].rproc = ev[fd].rproc
    /\ ev2[fd].wproc = ev[fd].wproc /\ ev2[fd].data = ev[fd].data
    /\ sk2[fd].ep = ev[fd].mask \ {"W"}
    /\ sk2[fd].st = sk[fd].st /\ sk2[fd].rx = sk[fd].rx
    /\ sk2[fd].due = sk[fd].due /\ sk2[fd].got = sk[fd].got

LEMMA DeleteWorks ==
  ASSUME NEW ev \in EventTable, NEW sk \in SockTable, NEW fd \in Fds,
         fd \in Registrable, ev[fd].mask # {}, sk[fd].ep = ev[fd].mask
  PROVE  LET d == aeDeleteFileEvent(ev, sk, fd, {"W"})
         IN  Deleted(fd, ev, sk, d.ev, d.sk)
<1> DEFINE d == aeDeleteFileEvent(ev, sk, fd, {"W"})
<1>1. d.ev = [ev EXCEPT ![fd].mask = @ \ {"W"}]
      /\ d.sk = [sk EXCEPT ![fd].ep = ev[fd].mask \ {"W"}]
  BY DEF aeDeleteFileEvent
<1>2. d.ev \in EventTable /\ d.sk \in SockTable
  BY DeleteType DEF Mask
<1> HIDE DEF d
<1>3. Deleted(fd, ev, sk, d.ev, d.sk)
  BY <1>1, <1>2 DEF Deleted, EventTable, SockTable
<1> QED
  BY <1>3 DEF d

\* The descriptor of an event the loop calls a handler for, as it finds it.
Attended(c, fd) ==
    /\ events \in EventTable /\ sock \in SockTable /\ conn \in ConnTable
    /\ conn[c].fd = fd /\ fd \in Registrable
    /\ events[fd].data = c /\ "R" \in events[fd].mask
    /\ sock[fd].st \in Live /\ sock[fd].ep = events[fd].mask

LEMMA CalledFor ==
  ASSUME Calm, NEW fd \in Fds, events[fd].mask # {}, NEW c \in Conns, events[fd].data = c
  PROVE  /\ conn[c].fd = fd /\ SocketOf(c) = sock[fd] /\ Registered(c, fd)
         /\ Attended(c, fd)
         /\ events \in EventTable /\ sock \in SockTable /\ conn \in ConnTable
         /\ events' \in EventTable /\ sock' \in SockTable /\ conn' \in ConnTable
         /\ fd \in Registrable /\ "R" \in events[fd].mask /\ sock[fd].st \in Live
         /\ sock[fd].ep = events[fd].mask /\ Socket(sock[fd])
         /\ Connecting(events, sock, fd) \/ Reading(events, fd)
         /\ sock[fd].rx \in Seq(Item)
<1>1. conn[c].fd = fd /\ fd \in Registrable /\ "R" \in events[fd].mask
      /\ sock[fd].st \in Live /\ sock[fd].ep = events[fd].mask
      /\ (Connecting(events, sock, fd) \/ Reading(events, fd))
  BY RegisteredGood DEF Calm
<1>2. Socket(sock[fd])
  BY DEF Calm, Good
<1>3. /\ events \in EventTable /\ sock \in SockTable /\ conn \in ConnTable
      /\ events' \in EventTable /\ sock' \in SockTable /\ conn' \in ConnTable
  BY DEF Calm, TypeOK
<1>4. sock[fd].rx \in Seq(Item)
  BY <1>3 DEF SockTable
<1> QED
  BY <1>1, <1>2, <1>3, <1>4 DEF SocketOf, Registered, Attended

\* A socket that failed, outside of socket_readable.
LEMMA FailedIs ==
  ASSUME NEW fd \in Fds, pc # "parse"
  PROVE  Failed(fd) <=> \/ sock[fd].st = "refused"
                        \/ Finished(sock[fd].rx) /\ ~Holds(sock[fd].rx, "close")
  BY DEF Failed, Closing

\* A handler that reconnects, with cn the connections it has changed so far.
LEMMA ReconnectKept ==
  ASSUME Calm, NEW fd \in Fds, NEW c \in Conns, NEW cn \in ConnTable, NEW er,
         Registered(c, fd), UNCHANGED timers,
         \A d \in Conns : cn[d].fd = conn[d].fd,
         \A d \in Conns \ {c} : cn[d] = conn[d],
         ~cn[c].delayed /\ cn[c].parser # "body_eof",
         reconnect_socket(c, events, sock, cn, er)
  PROVE  /\ Kept /\ Local(fd) /\ Quiet(fd) /\ Charged(er)
         /\ Spare(sock', conn', c)
         /\ \A d \in Conns : conn'[d].parser = cn[d].parser
         /\ \A d \in Conns \ {c} : conn'[d] = conn[d]
<1>1. Good(events, sock, cn)
  BY GoodFields DEF Calm
<1>2. Alive(Conns \ {c}, events, cn)
  BY DEF Calm, Alive
<1>3. Reconnected(c, fd, events, sock, cn, er)
  BY <1>1, <1>2, ReconnectGood DEF Registered
<1>4. \A d \in Conns : conn'[d].delayed = cn[d].delayed /\ conn'[d].parser = cn[d].parser
  BY <1>3 DEF Reconnected, Moved, ConnTable
<1>6. \A d \in Conns \ {c} : conn'[d] = conn[d]
  BY <1>3 DEF Reconnected, Moved, ConnTable
<1>5. Undelayed'
  <2>1. \A d \in Conns : ~cn[d].delayed /\ cn[d].parser # "body_eof" /\ timers[d] = 0
    BY DEF Calm, Undelayed
  <2> QED
    BY <1>4, <2>1 DEF Undelayed
<1> QED
  BY <1>3, <1>4, <1>5, <1>6 DEF Reconnected, Kept, Local

\* The tables when the connection is there: both handlers are replaced, and the
\* request starts anew.
Opened(c, fd) ==
    /\ \A f \in Fds \ {fd} : events'[f] = events[f] /\ sock'[f] = sock[f]
    /\ "R" \in events'[fd].mask /\ events'[fd].rproc = "socket_readable"
    /\ "W" \in events'[fd].mask /\ events'[fd].wproc = "socket_writeable"
    /\ events'[fd].data = c
    /\ sock'[fd].ep = events'[fd].mask
    /\ sock'[fd].st = sock[fd].st /\ sock'[fd].rx = sock[fd].rx
    /\ sock'[fd].due = sock[fd].due /\ sock'[fd].got = sock[fd].got

LEMMA ConnectedTables ==
  ASSUME NEW fd \in Fds, NEW c \in Conns, Attended(c, fd), ConnectedOk(c, fd)
  PROVE  Opened(c, fd)
<1> DEFINE r == aeCreateFileEvent(events, sock, fd, {"R"}, "socket_readable", c)
           w == aeCreateFileEvent(r.ev, r.sk, fd, {"W"}, "socket_writeable", c)
<1>0. /\ events \in EventTable /\ sock \in SockTable
      /\ fd \in Registrable /\ "R" \in events[fd].mask /\ sock[fd].st \in Live
      /\ sock[fd].ep = events[fd].mask
  BY DEF Attended
<1>1. Created(fd, {"R"}, "socket_readable", c, events, sock, r.ev, r.sk)
  BY <1>0, CreateWorks, Zenon DEF Mask, Procs
<1> HIDE DEF r
<1>2. /\ r.ev \in EventTable /\ r.sk \in SockTable
      /\ r.ev[fd].mask # {} /\ r.sk[fd].ep = r.ev[fd].mask /\ r.sk[fd].st \in Live
  BY <1>0, <1>1 DEF Created
<1>3. Created(fd, {"W"}, "socket_writeable", c, r.ev, r.sk, w.ev, w.sk)
  BY <1>0, <1>2, CreateWorks, Zenon DEF Mask, Procs
<1> HIDE DEF w
<1>4. events' = w.ev /\ sock' = w.sk
  BY DEF ConnectedOk, r, w
<1>5. r.ev[fd].rproc = "socket_readable" /\ "R" \in r.ev[fd].mask
  BY <1>0, <1>1 DEF Created
<1>6. /\ w.ev[fd].mask = r.ev[fd].mask \cup {"W"} /\ w.ev[fd].data = c
      /\ w.ev[fd].rproc = r.ev[fd].rproc /\ w.ev[fd].wproc = "socket_writeable"
      /\ w.sk[fd].ep = r.ev[fd].mask \cup {"W"}
      /\ w.sk[fd].st = r.sk[fd].st /\ w.sk[fd].rx = r.sk[fd].rx
      /\ w.sk[fd].due = r.sk[fd].due /\ w.sk[fd].got = r.sk[fd].got
  BY <1>3 DEF Created
<1>7. /\ r.sk[fd].st = sock[fd].st /\ r.sk[fd].rx = sock[fd].rx
      /\ r.sk[fd].due = sock[fd].due /\ r.sk[fd].got = sock[fd].got
  BY <1>1 DEF Created
<1>8. \A f \in Fds \ {fd} : w.ev[f] = events[f] /\ w.sk[f] = sock[f]
  BY <1>1, <1>3 DEF Created
<1> QED
  BY <1>4, <1>5, <1>6, <1>7, <1>8 DEF Opened

\* socket_connected, for either event.
LEMMA ConnectedGood ==
  ASSUME Calm, NEW fd \in Fds, NEW c \in Conns, events[fd].mask # {},
         events[fd].data = c, Connecting(events, sock, fd), pc # "parse", pc' # "parse",
         socket_connected(c, fd)
  PROVE  Kept /\ Local(fd) /\ Costs(fd)
<1>1. /\ conn[c].fd = fd /\ SocketOf(c) = sock[fd] /\ Registered(c, fd) /\ Attended(c, fd)
      /\ events \in EventTable /\ sock \in SockTable /\ conn \in ConnTable
      /\ events' \in EventTable /\ sock' \in SockTable /\ conn' \in ConnTable
      /\ fd \in Registrable /\ "R" \in events[fd].mask /\ sock[fd].st \in Live
      /\ sock[fd].ep = events[fd].mask /\ Socket(sock[fd])
      /\ sock[fd].rx \in Seq(Item)
  BY CalledFor
<1>2. UNCHANGED timers
  BY DEF socket_connected
<1>3. CASE ConnectedOk(c, fd)
  <2>4. UNCHANGED <<errors, faults>>
        /\ conn' = [conn EXCEPT ![c].parser = "start", ![c].written = 0]
    BY <1>3 DEF ConnectedOk
  <2>5. /\ \A f \in Fds \ {fd} : events'[f] = events[f] /\ sock'[f] = sock[f]
        /\ "R" \in events'[fd].mask /\ events'[fd].rproc = "socket_readable"
        /\ events'[fd].wproc = "socket_writeable" /\ events'[fd].data = c
        /\ sock'[fd].ep = events'[fd].mask
        /\ sock'[fd].st = sock[fd].st /\ sock'[fd].rx = sock[fd].rx
        /\ sock'[fd].due = sock[fd].due
    BY <1>1, <1>3, ConnectedTables DEF Opened
  <2>6. \A d \in Conns : conn'[d].fd = conn[d].fd
    BY <1>1, <2>4 DEF ConnTable
  <2>7. Socket(sock'[fd])
    BY <1>1, <2>5 DEF Socket, Live
  <2>8. Good(events', sock', conn')
    <3>1. Reading(events', fd)
      BY <2>5 DEF Reading
    <3> QED
      BY <1>1, <2>5, <2>6, <2>7, <3>1, HandlersChange DEF Calm
  <2>9. \A d \in Conns : /\ conn'[d].parser \in {conn[d].parser, "start"}
                         /\ conn'[d].delayed = conn[d].delayed
        /\ conn'[c].parser = "start"
    BY <1>1, <2>4 DEF ConnTable
  <2>10. Alive(Conns, events', conn')
    BY <2>5, <2>9 DEF Calm, Alive
  <2>11. Undelayed'
    BY <1>2, <2>9 DEF Calm, Undelayed
  <2>12. Failed(fd)' => Failed(fd)
    BY <2>5 DEF Failed, Closing
  <2> QED
    BY <2>4, <2>5, <2>8, <2>10, <2>11, <2>12 DEF Kept, Local, Same, Costs
<1>4. CASE ConnectedRetry(c)
  BY <1>2, <1>4 DEF ConnectedRetry, Kept, Calm, Undelayed, Local, Same, Costs, Failed, Closing
<1>5. CASE ConnectedError(c)
  <2>1. Failed(fd)
    <3>1. sock[fd].st = "refused" \/ sock[fd].rx # << >>
      BY <1>1, <1>5 DEF ConnectedError, sock_connect, Live
    <3>2. NoData(sock[fd].rx) /\ Stream(sock[fd].rx)
      BY <1>1 DEF Connecting, Unused, Socket
    <3>3. sock[fd].rx # << >> =>
             Finished(sock[fd].rx) /\ ~Holds(sock[fd].rx, "close")
      BY <1>1, <3>2, EndedStream
    <3> QED
      BY <3>1, <3>3, FailedIs
  <2>2. ~conn[c].delayed /\ conn[c].parser # "body_eof"
    BY DEF Calm, Undelayed
  <2>3. Kept /\ Local(fd) /\ Quiet(fd) /\ Charged(Raise(errors, "connect"))
    BY <1>1, <1>2, <1>5, <2>2, ReconnectKept DEF ConnectedError
  <2> QED
    BY <2>1, <2>3 DEF Costs
<1> QED
  BY <1>3, <1>4, <1>5 DEF socket_connected

\* The tables after a write of n units: the event goes with the last of them.
Wrote(c, fd, n) ==
    /\ conn' = [Started(c) EXCEPT ![c].written = WrittenNow(@ + n)]
    /\ \A f \in Fds \ {fd} : events'[f] = events[f] /\ sock'[f] = sock[f]
    /\ events'[fd].mask = IF conn[c].written + n = Length THEN events[fd].mask \ {"W"}
                          ELSE events[fd].mask
    /\ events'[fd].rproc = events[fd].rproc /\ events'[fd].wproc = events[fd].wproc
    /\ events'[fd].data = c
    /\ sock'[fd].ep = events'[fd].mask
    /\ sock'[fd].st = sock[fd].st /\ sock'[fd].rx = sock[fd].rx
    /\ sock'[fd].due = Deliver(sock[fd], n).due /\ sock'[fd].got = Deliver(sock[fd], n).got

LEMMA WriteTables ==
  ASSUME NEW fd \in Fds, NEW c \in Conns, Attended(c, fd), WriteOk(c, fd)
  PROVE  \E n \in 1..(Length - conn[c].written) : Wrote(c, fd, n)
<1>1. /\ conn[c].fd = fd
      /\ events \in EventTable /\ sock \in SockTable /\ conn \in ConnTable
      /\ fd \in Registrable /\ sock[fd].ep = events[fd].mask
      /\ events[fd].mask # {} /\ events[fd].data = c
  BY DEF Attended
<1>2. PICK n \in sock_write(c, Length - conn[c].written) :
        /\ n > 0
        /\ LET all  == conn[c].written + n = Length
               sent == [sock EXCEPT ![conn[c].fd] = Deliver(@, n)]
               del  == aeDeleteFileEvent(events, sent, fd, {"W"})
           IN  /\ conn' = [Started(c) EXCEPT ![c].written = WrittenNow(@ + n)]
               /\ events' = IF all THEN del.ev ELSE events
               /\ sock'   = IF all THEN del.sk ELSE sent
  BY DEF WriteOk
<1> DEFINE all  == conn[c].written + n = Length
           sent == [sock EXCEPT ![fd] = Deliver(@, n)]
           del  == aeDeleteFileEvent(events, sent, fd, {"W"})
<1>3. n \in 1..(Length - conn[c].written)
  BY <1>2 DEF sock_write
<1>4. n \in Nat
  <2>1. conn[c].written \in 0..(Length - 1)
    BY <1>1 DEF ConnTable
  <2> QED
    BY <1>3, <2>1, LengthType
<1>5. sent \in SockTable
  BY <1>1, <1>4, DeliverType
<1>6. /\ \A f \in Fds \ {fd} : sent[f] = sock[f]
      /\ sent[fd].ep = sock[fd].ep /\ sent[fd].st = sock[fd].st
      /\ sent[fd].rx = sock[fd].rx /\ sent[fd] = Deliver(sock[fd], n)
  BY <1>1 DEF Deliver, SockTable
<1> HIDE DEF sent
<1>7. Deleted(fd, events, sent, del.ev, del.sk)
  BY <1>1, <1>5, <1>6, DeleteWorks, Zenon
<1> HIDE DEF del
<1>8. conn' = [Started(c) EXCEPT ![c].written = WrittenNow(@ + n)]
  BY <1>2
<1>9. CASE conn[c].written + n = Length
  <2>1. events' = del.ev /\ sock' = del.sk
    BY <1>1, <1>2, <1>9 DEF del, sent
  <2>2. Wrote(c, fd, n)
    BY ZenonT(60), <1>1, <1>6, <1>7, <1>8, <1>9, <2>1 DEF Deleted, Wrote
  <2> QED
    BY <1>3, <2>2
<1>10. CASE conn[c].written + n # Length
  <2>1. events' = events /\ sock' = sent
    BY <1>1, <1>2, <1>10 DEF sent
  <2>2. Wrote(c, fd, n)
    BY <1>1, <1>6, <1>8, <1>10, <2>1 DEF Wrote
  <2> QED
    BY <1>3, <2>2
<1> QED
  BY <1>9, <1>10

\* socket_writeable.
LEMMA WriteableGood ==
  ASSUME Calm, NEW fd \in Fds, NEW c \in Conns, events[fd].mask # {},
         events[fd].data = c, Reading(events, fd), pc # "parse", pc' # "parse",
         socket_writeable(c, fd)
  PROVE  Kept /\ Local(fd) /\ Costs(fd)
<1>1. /\ conn[c].fd = fd /\ SocketOf(c) = sock[fd] /\ Registered(c, fd) /\ Attended(c, fd)
      /\ events \in EventTable /\ sock \in SockTable /\ conn \in ConnTable
      /\ events' \in EventTable /\ sock' \in SockTable /\ conn' \in ConnTable
      /\ fd \in Registrable /\ "R" \in events[fd].mask /\ sock[fd].st \in Live
      /\ sock[fd].ep = events[fd].mask /\ Socket(sock[fd])
      /\ sock[fd].rx \in Seq(Item)
  BY CalledFor
<1>2. ~conn[c].delayed /\ conn[c].parser # "body_eof"
  BY DEF Calm, Undelayed
<1>3. /\ Started(c) \in ConnTable
      /\ \A d \in Conns : /\ Started(c)[d].fd = conn[d].fd
                          /\ Started(c)[d].parser = conn[d].parser
                          /\ Started(c)[d].delayed = conn[d].delayed
      /\ \A d \in Conns \ {c} : Started(c)[d] = conn[d]
  <2>1. Started(c) \in ConnTable
    BY StartedType DEF Calm
  <2> QED
    BY <1>1, <2>1 DEF Started, ConnTable
<1>4. ASSUME UNCHANGED timers, \A d \in Conns : /\ conn'[d].fd = conn[d].fd
                              /\ conn'[d].parser = conn[d].parser
                              /\ conn'[d].delayed = conn[d].delayed,
             \A f \in Fds \ {fd} : events'[f] = events[f] /\ sock'[f] = sock[f],
             "R" \in events'[fd].mask, events'[fd].rproc = events[fd].rproc,
             events'[fd].mask \subseteq events[fd].mask,
             events'[fd].wproc = events[fd].wproc, events'[fd].data = c,
             sock'[fd].ep = events'[fd].mask,
             sock'[fd].st = sock[fd].st, sock'[fd].rx = sock[fd].rx,
             UNCHANGED <<errors, faults>>
      PROVE  Kept /\ Local(fd) /\ Costs(fd)
  <2>1. Reading(events', fd)
    BY <1>4 DEF Reading
  <2>2. Socket(sock'[fd])
    <3>1. sock[fd].st # "free" /\ sock[fd].st # "foreign"
      BY <1>1 DEF Live
    <3> QED
      BY <1>1, <1>4, <3>1 DEF Socket
  <2>3. Good(events', sock', conn')
    BY <1>1, <1>4, <2>1, <2>2, HandlersChange DEF Calm
  <2>4. Alive(Conns, events', conn')
    BY <1>4 DEF Calm, Alive
  <2>5. Undelayed'
    BY <1>4 DEF Calm, Undelayed
  <2>6. Failed(fd)' => Failed(fd)
    BY <1>4 DEF Failed, Closing
  <2> QED
    BY <1>4, <2>3, <2>4, <2>5, <2>6 DEF Kept, Local, Same, Costs
<1>5. CASE WriteOk(c, fd)
  <2>1. PICK n \in 1..(Length - conn[c].written) : Wrote(c, fd, n)
    BY <1>1, <1>5, WriteTables
  <2>2. \A d \in Conns : /\ conn'[d].fd = conn[d].fd
                         /\ conn'[d].parser = conn[d].parser
                         /\ conn'[d].delayed = conn[d].delayed
    BY <1>3, <2>1 DEF ConnTable, Wrote
  <2>3. UNCHANGED <<timers, errors, faults>>
    BY <1>5 DEF WriteOk
  <2>4. "R" \in events'[fd].mask /\ events'[fd].mask \subseteq events[fd].mask
    BY <1>1, <2>1 DEF Wrote
  <2> QED
    BY <1>4, <2>1, <2>2, <2>3, <2>4 DEF Wrote
<1>6. CASE WriteRetry(c)
  <2>1. conn' = Started(c) /\ UNCHANGED <<events, sock, timers, errors, faults>>
    BY <1>6 DEF WriteRetry
  <2> QED
    BY <1>1, <1>3, <1>4, <2>1
<1>7. CASE WriteError(c)
  <2>1. sock[fd].st = "refused" \/ Holds(sock[fd].rx, "rst")
    <3>1. -1 \notin {0} /\ -1 \notin (1..(Length - conn[c].written)) \cup {0}
          /\ -1 \notin (1..(Length - conn[c].written)) \cup {}
      OBVIOUS
    <3> QED
      BY <1>1, <1>7, <3>1 DEF WriteError, sock_write, Holds, Live
  <2>2. Failed(fd)
    BY <1>1, <2>1, EndedStream, FailedIs DEF Socket
  <2>3. Kept /\ Local(fd) /\ Quiet(fd) /\ Charged(Raise(errors, "write"))
    BY <1>1, <1>2, <1>3, <1>7, ReconnectKept DEF WriteError
  <2> QED
    BY <2>2, <2>3 DEF Costs
<1>8. CASE WriteDelayed(c, fd)
  BY <1>2, <1>8 DEF WriteDelayed
<1> QED
  BY <1>5, <1>6, <1>7, <1>8 DEF socket_writeable

\* socket_readable, called by the loop or by itself for what is left to read.
LEMMA ReadableGood ==
  ASSUME Calm, NEW fd \in Fds, NEW c \in Conns, events[fd].mask # {},
         events[fd].data = c, events[fd].rproc = "socket_readable",
         sock[fd].rx # << >> \/ sock[fd].st = "refused",
         pc = "parse" => buf = << >>,
         socket_readable(c, fd)
  PROVE  /\ Kept /\ Local(fd) /\ Costs(fd)
         /\ fired' = fired /\ cur' = fd /\ pc' \in {"parse", "file_w"}
         /\ pc' = "parse" => reader' = c /\ (Dispatched(c))'
<1>1. /\ conn[c].fd = fd /\ SocketOf(c) = sock[fd] /\ Registered(c, fd) /\ Attended(c, fd)
      /\ events \in EventTable /\ sock \in SockTable /\ conn \in ConnTable
      /\ events' \in EventTable /\ sock' \in SockTable /\ conn' \in ConnTable
      /\ fd \in Registrable /\ "R" \in events[fd].mask /\ sock[fd].st \in Live
      /\ sock[fd].ep = events[fd].mask /\ Socket(sock[fd])
      /\ Connecting(events, sock, fd) \/ Reading(events, fd)
      /\ sock[fd].rx \in Seq(Item)
  BY CalledFor
<1>2. Reading(events, fd)
  BY <1>1 DEF Connecting
<1>3. UNCHANGED timers
  BY DEF socket_readable
<1> DEFINE rx == sock[fd].rx
<1>4. Stream(rx) /\ (rx # << >> => sock[fd].st = "up")
  BY <1>1 DEF Socket
<1>5. CASE ReadData(c, fd)
  <2>1. PICK n \in 1..Len(rx) :
           /\ \A i \in 1..n : rx[i] \in Data
           /\ buf' = SubSeq(rx, 1, n)
           /\ sock' = [sock EXCEPT ![fd].rx = SubSeq(rx, n + 1, Len(rx))]
    BY <1>1, <1>5 DEF ReadData
  <2> DEFINE b == SubSeq(rx, 1, n)
             r == SubSeq(rx, n + 1, Len(rx))
  <2>2. /\ UNCHANGED <<events, conn, errors, faults, fired>>
        /\ pc' = "parse" /\ cur' = fd /\ reader' = c
    BY <1>5 DEF ReadData, StartParse
  <2>3. /\ Stream(r)
        /\ \A i \in DOMAIN b : /\ b[i] \in {"head", "keep", "close"}
                               /\ b[i] = "close" => i = Len(b) /\ r = <<"fin">>
        /\ Finished(r) => Finished(rx)
        /\ Holds(rx, "close") => Holds(r, "close") \/ Holds(b, "close")
    <3> HIDE DEF rx
    <3>1. rx \in Seq(Item)
      BY <1>1 DEF rx
    <3> QED
      BY <1>4, <2>1, <3>1, StreamRead
  <2> HIDE DEF b, r
  <2>4. sock[fd].st = "up"
    <3>1. rx # << >>
      BY <2>1
    <3> QED
      BY <1>4, <3>1
  <2>5. /\ sock'[fd].rx = r /\ sock'[fd].st = "up" /\ sock'[fd].ep = events'[fd].mask
        /\ \A f \in Fds \ {fd} : events'[f] = events[f] /\ sock'[f] = sock[f]
        /\ buf' = b
    BY <1>1, <2>1, <2>2, <2>4 DEF SockTable, r, b
  <2>6. Good(events', sock', conn')
    <3>1. Socket(sock'[fd])
      BY <2>3, <2>5 DEF Socket
    <3>2. Reading(events', fd)
      BY <1>2, <2>2 DEF Reading
    <3> QED
      BY <1>1, <2>2, <2>5, <3>1, <3>2, HandlersChange DEF Calm, Live
  <2>7. Alive(Conns, events', conn') /\ Undelayed'
    BY <1>3, <2>2 DEF Calm, Alive, Undelayed
  <2>8. Failed(fd)' => Failed(fd)
    <3>1. Failed(fd)' => Finished(r) /\ ~Holds(r, "close") /\ ~Holds(b, "close")
      BY <2>2, <2>5 DEF Failed, Closing
    <3>2. Closing(fd) => Holds(rx, "close")
      BY DEF Closing, Holds
    <3> QED
      BY <2>3, <3>1, <3>2 DEF Failed
  <2>9. (Dispatched(c))'
    <3>1. Registered(c, fd)'
      BY <1>1, <2>2 DEF Registered
    <3>2. BufferOf(fd)'
      BY <2>3, <2>5 DEF BufferOf
    <3> QED
      BY <2>2, <3>1, <3>2 DEF Dispatched
  <2> QED
    BY <2>2, <2>5, <2>6, <2>7, <2>8, <2>9 DEF Kept, Local, Same, Costs
<1>6. CASE ReadEof(c, fd)
  <2>1. /\ UNCHANGED <<events, conn, sock, errors, faults, fired>>
        /\ pc' = "parse" /\ cur' = fd /\ reader' = c /\ buf' = <<"fin">>
        /\ rx # << >> /\ Head(rx) = "fin"
    BY <1>1, <1>6 DEF ReadEof, StartParse
  <2>2. rx = <<"fin">>
    <3> HIDE DEF rx
    <3>1. rx \in Seq(Item)
      BY <1>1 DEF rx
    <3>2. Len(rx) \in Nat /\ DOMAIN rx = 1..Len(rx) /\ 1 \in 1..Len(rx) /\ rx[1] = "fin"
      BY <2>1, <3>1
    <3>3. Len(rx) = 1
      BY <1>4, <3>2 DEF Stream, Ends
    <3>4. <<"fin">> \in Seq(Item) /\ Len(<<"fin">>) = 1 /\ <<"fin">>[1] = "fin"
      BY DEF Item, Ends
    <3>5. \A j \in 1..1 : rx[j] = <<"fin">>[j]
      BY <3>2, <3>4
    <3> QED
      BY <3>1, <3>3, <3>4, <3>5, SeqEqual
  <2>3. BufferOf(fd)'
    <3>1. \A i \in DOMAIN <<"fin">> : <<"fin">>[i] = "fin"
      OBVIOUS
    <3>2. Len(<<"fin">>) = 1
      OBVIOUS
    <3> QED
      BY <2>1, <2>2, <3>1, <3>2 DEF BufferOf
  <2>4. (Dispatched(c))'
    BY <1>1, <2>1, <2>3 DEF Dispatched, Registered
  <2>5. Failed(fd)' => Failed(fd)
    <3>1. Closing(fd) => Holds(rx, "close")
      BY DEF Closing, Holds
    <3>2. Failed(fd)' => sock[fd].st = "refused" \/ (Finished(rx) /\ ~Holds(rx, "close"))
      BY <2>1 DEF Failed, Closing
    <3> QED
      BY <3>1, <3>2 DEF Failed
  <2> QED
    BY <1>3, <2>1, <2>4, <2>5 DEF Kept, Calm, Alive, Undelayed, Local, Same, Costs
<1>7. CASE ReadError(c, fd)
  <2>1. /\ fired' = fired /\ cur' = fd /\ pc' = "file_w"
        /\ reconnect_socket(c, events, sock, conn, Raise(errors, "read"))
    BY <1>7 DEF ReadError, AfterR
  <2>2. sock[fd].st = "refused" \/ (rx # << >> /\ Head(rx) \in Ends)
    <3>1. ReadFails(c)
      BY <1>7 DEF ReadError
    <3> QED
      BY <1>1, <3>1 DEF ReadFails, Ends, Live
  <2>3. sock[fd].st = "refused" \/ (Finished(rx) /\ ~Holds(rx, "close"))
    BY <1>1, <1>4, <2>2, EndedStream
  <2>4. Failed(fd)
    <3>1. Closing(fd) => Holds(rx, "close")
      BY DEF Closing, Holds
    <3> QED
      BY <2>3, <3>1 DEF Failed
  <2>5. ~conn[c].delayed /\ conn[c].parser # "body_eof"
    BY DEF Calm, Undelayed
  <2>6. Kept /\ Local(fd) /\ Quiet(fd) /\ Charged(Raise(errors, "read"))
    BY <1>1, <1>3, <2>1, <2>5, ReconnectKept
  <2> QED
    BY <2>1, <2>4, <2>6 DEF Costs
<1>8. CASE ReadRetry(c, fd)
  <2>1. sock[fd].st = "refused"
    BY <1>1, <1>8 DEF ReadRetry
  <2>2. ReadFails(c)
    BY <1>1, <2>1 DEF ReadFails
  <2> QED
    BY <1>8, <2>2 DEF ReadRetry
<1> QED
  BY <1>5, <1>6, <1>7, <1>8 DEF socket_readable

\* A buffer without its first item.
LEMMA BufferTail ==
  ASSUME NEW b \in Seq(Item \cup {"notfinal"}), b # << >>
  PROVE  /\ Tail(b) \in Seq(Item \cup {"notfinal"}) /\ Len(Tail(b)) = Len(b) - 1
         /\ \A i \in DOMAIN Tail(b) : i + 1 \in DOMAIN b /\ Tail(b)[i] = b[i + 1]
         /\ Head(b) # "close" => (Holds(b, "close") => Holds(Tail(b), "close"))
<1>1. Len(b) \in Nat /\ DOMAIN b = 1..Len(b) /\ Len(b) >= 1 /\ Head(b) = b[1]
  OBVIOUS
<1>2. /\ Tail(b) \in Seq(Item \cup {"notfinal"}) /\ Len(Tail(b)) = Len(b) - 1
      /\ \A i \in 1..Len(Tail(b)) : Tail(b)[i] = b[i + 1]
  BY HeadTailProperties
<1> DEFINE t == Tail(b)
<1>3. DOMAIN t = 1..(Len(b) - 1)
  BY <1>1, <1>2
<1> HIDE DEF t
<1>4. \A i \in DOMAIN t : i + 1 \in DOMAIN b /\ t[i] = b[i + 1]
  BY <1>1, <1>2, <1>3 DEF t
<1>5. ASSUME Head(b) # "close", Holds(b, "close") PROVE Holds(t, "close")
  <2>1. PICK i \in 1..Len(b) : b[i] = "close"
    BY <1>1, <1>5 DEF Holds
  <2>2. i # 1
    BY <1>1, <1>5, <2>1
  <2>3. i - 1 \in 1..(Len(b) - 1) /\ (i - 1) + 1 = i
    BY <1>1, <2>1, <2>2
  <2> QED
    BY <1>3, <1>4, <2>1, <2>3 DEF Holds
<1> QED
  BY <1>2, <1>4, <1>5 DEF t

\* What the parser leaves of a good buffer is a good buffer.
LEMMA BufferLeft ==
  ASSUME TypeOK, NEW fd \in Fds, buf # << >>, BufferOf(fd), buf' = Tail(buf),
         sock'[fd].rx = sock[fd].rx
  PROVE  /\ BufferOf(fd)'
         /\ Head(buf) = "close" => buf' = << >>
         /\ Head(buf) \in {"head", "keep", "close", "fin"}
<1>1. buf \in Seq(Item \cup {"notfinal"})
  BY DEF TypeOK
<1>2. /\ buf' \in Seq(Item \cup {"notfinal"}) /\ Len(buf') = Len(buf) - 1
      /\ \A i \in DOMAIN buf' : i + 1 \in DOMAIN buf /\ buf'[i] = buf[i + 1]
  BY <1>1, BufferTail
<1>3. /\ Len(buf) \in Nat /\ DOMAIN buf = 1..Len(buf) /\ Len(buf) >= 1
      /\ 1 \in DOMAIN buf /\ Head(buf) = buf[1]
  BY <1>1
<1>4. DOMAIN buf' = 1..Len(buf')
  BY <1>2
<1>5. ASSUME NEW i \in DOMAIN buf'
      PROVE  /\ buf'[i] \in {"head", "keep", "close", "fin"}
             /\ buf'[i] = "close" => i = Len(buf') /\ sock'[fd].rx = <<"fin">>
             /\ buf'[i] = "fin" => Len(buf') = 1 /\ sock'[fd].rx = <<"fin">>
  <2>1. i \in Nat /\ i >= 1 /\ i + 1 \in DOMAIN buf /\ buf'[i] = buf[i + 1]
    BY <1>2, <1>4
  <2>2. i + 1 # 1
    BY <2>1
  <2>3. /\ buf[i + 1] \in {"head", "keep", "close", "fin"}
        /\ buf[i + 1] = "close" => i + 1 = Len(buf) /\ sock[fd].rx = <<"fin">>
        /\ buf[i + 1] = "fin" => Len(buf) = 1
    BY <2>1 DEF BufferOf
  <2>4. i + 1 = Len(buf) => i = Len(buf')
    BY <1>2, <1>3, <2>1
  <2>5. Len(buf) # 1
    BY <1>3, <2>1
  <2> QED
    BY <2>1, <2>3, <2>4, <2>5
<1>6. Head(buf) = "close" => Len(buf') = 0
  BY <1>2, <1>3 DEF BufferOf
<1>7. Len(buf') = 0 => buf' = << >>
  BY <1>2
<1>8. Head(buf) \in {"head", "keep", "close", "fin"}
  BY <1>3 DEF BufferOf
<1> QED
  BY <1>5, <1>6, <1>7, <1>8 DEF BufferOf

\* An answer is counted, and the last one asks for the next request.
Answered(c) ==
    LET left == (conn[c].pending - 1) % PendingMod
    IN  /\ conn'[c].pending = left /\ conn'[c].written = conn[c].written
        /\ events'[cur].mask = IF CycleOver(left) THEN events[cur].mask \cup {"W"}
                               ELSE events[cur].mask
        /\ sock'[cur].due = sock[cur].due /\ sock'[cur].got = sock[cur].got

\* What response_complete does to a connection that is registered: it may ask
\* for the next request, and replaces the socket after a last answer.
LEMMA ResponseGood ==
  ASSUME Premises, Calm, NEW c \in Conns, Dispatched(c), NEW keepalive \in BOOLEAN,
         UNCHANGED timers, response_complete(c, keepalive)
  PROVE  /\ Kept /\ Local(cur)
         /\ \A d \in Conns \ {c} : conn'[d] = conn[d]
         /\ keepalive => /\ UNCHANGED <<errors, faults>> /\ Answered(c)
                         /\ \A d \in Conns : conn'[d].fd = conn[d].fd
                         /\ events'[cur].mask # {} /\ events'[cur].data = c
                         /\ events'[cur].rproc = "socket_readable"
                         /\ sock'[cur].st = sock[cur].st /\ sock'[cur].rx = sock[cur].rx
         /\ ~keepalive => /\ Quiet(cur) /\ Charged(errors)
                          /\ Spare(sock', conn', c) /\ conn'[c].parser = "dead"
<1> DEFINE left == (conn[c].pending - 1) % PendingMod
           cn   == [conn EXCEPT ![c].hdrs    = script_response(@),
                                ![c].pending = left,
                                ![c].delayed = IF CycleOver(left) THEN Delay ELSE @,
                                ![c].parser  = IF keepalive THEN "start" ELSE "dead"]
           new  == aeCreateFileEvent(events, sock, conn[c].fd, {"W"},
                                     "socket_writeable", c)
           reg  == IF CycleOver(left) THEN new ELSE [ev |-> events, sk |-> sock]
<1>0. /\ cur \in Fds /\ conn[c].fd = cur /\ events[cur].mask # {} /\ events[cur].data = c
      /\ events[cur].rproc = "socket_readable"
  BY DEF Dispatched, Registered
<1>1. /\ events \in EventTable /\ sock \in SockTable /\ conn \in ConnTable
      /\ events' \in EventTable /\ sock' \in SockTable /\ conn' \in ConnTable
      /\ cur \in Registrable /\ "R" \in events[cur].mask /\ sock[cur].st \in Live
      /\ sock[cur].ep = events[cur].mask /\ Socket(sock[cur])
      /\ Connecting(events, sock, cur) \/ Reading(events, cur)
  BY <1>0, CalledFor
<1>2. Reading(events, cur)
  BY <1>0, <1>1 DEF Connecting
<1>3. cn \in ConnTable
  BY ResponseConnType DEF Calm
<1>4. /\ \A d \in Conns : cn[d].fd = conn[d].fd
      /\ \A d \in Conns \ {c} : cn[d] = conn[d]
      /\ cn[c].parser = IF keepalive THEN "start" ELSE "dead"
      /\ cn[c].delayed = IF CycleOver(left) THEN Delay ELSE conn[c].delayed
      /\ cn[c].pending = left /\ cn[c].written = conn[c].written
  <2> HIDE DEF left
  <2> QED
    BY <1>1 DEF ConnTable
<1> HIDE DEF left, cn, new
<1>5. ~cn[c].delayed
  BY <1>4 DEF Calm, Undelayed, Premises
<1>6. Created(cur, {"W"}, "socket_writeable", c, events, sock, new.ev, new.sk)
  BY <1>0, <1>1, CreateWorks, Zenon DEF Mask, Procs, new
<1>7. /\ reg.ev \in EventTable /\ reg.sk \in SockTable
      /\ \A f \in Fds \ {cur} : reg.ev[f] = events[f] /\ reg.sk[f] = sock[f]
      /\ "R" \in reg.ev[cur].mask /\ reg.ev[cur].data = c
      /\ reg.ev[cur].rproc = "socket_readable"
      /\ "W" \in reg.ev[cur].mask => reg.ev[cur].wproc = "socket_writeable"
      /\ reg.sk[cur].ep = reg.ev[cur].mask
      /\ reg.sk[cur].st = sock[cur].st /\ reg.sk[cur].rx = sock[cur].rx
      /\ reg.sk[cur].due = sock[cur].due /\ reg.sk[cur].got = sock[cur].got
      /\ reg.ev[cur].mask = IF CycleOver(left) THEN events[cur].mask \cup {"W"}
                            ELSE events[cur].mask
  <2>1. CASE CycleOver(left)
    <3>1. reg = new
      BY <2>1
    <3> HIDE DEF reg
    <3>2. /\ new.ev[cur].mask = events[cur].mask \cup {"W"} /\ new.ev[cur].data = c
          /\ new.ev[cur].rproc = events[cur].rproc
          /\ new.ev[cur].wproc = "socket_writeable"
      BY <1>6 DEF Created
    <3>3. /\ new.ev \in EventTable /\ new.sk \in SockTable
          /\ \A f \in Fds \ {cur} : new.ev[f] = events[f] /\ new.sk[f] = sock[f]
          /\ new.sk[cur].ep = events[cur].mask \cup {"W"}
          /\ new.sk[cur].st = sock[cur].st /\ new.sk[cur].rx = sock[cur].rx
          /\ new.sk[cur].due = sock[cur].due /\ new.sk[cur].got = sock[cur].got
      BY <1>6 DEF Created
    <3> QED
      BY <1>0, <1>1, <2>1, <3>1, <3>2, <3>3
  <2>2. CASE ~CycleOver(left)
    <3>1. reg = [ev |-> events, sk |-> sock]
      BY <2>2
    <3> HIDE DEF reg
    <3> QED
      BY <1>0, <1>1, <1>2, <2>2, <3>1 DEF Reading
  <2> QED
    BY <2>1, <2>2
<1> HIDE DEF reg
<1>8. Good(reg.ev, reg.sk, cn)
  <2>1. Reading(reg.ev, cur)
    BY <1>7 DEF Reading
  <2>2. Socket(reg.sk[cur])
    BY <1>1, <1>7 DEF Socket, Live
  <2> QED
    BY <1>0, <1>1, <1>3, <1>4, <1>7, <2>1, <2>2, HandlersChange DEF Calm
<1>9. \A d \in Conns : ~cn[d].delayed /\ cn[d].parser # "body_eof" /\ timers[d] = 0
  BY <1>4, <1>5 DEF Calm, Undelayed
<1>10. CASE keepalive
  <2>1. conn' = cn /\ events' = reg.ev /\ sock' = reg.sk /\ UNCHANGED <<errors, faults>>
    BY <1>10 DEF response_complete, cn, reg, left, new
  <2>2. Alive(Conns, events', conn')
    BY <1>0, <1>4, <1>7, <1>10, <2>1 DEF Calm, Alive
  <2>3. Undelayed'
    BY <1>9, <2>1 DEF Undelayed
  <2>4. Answered(c)
    BY <1>4, <1>7, <2>1 DEF Answered, left
  <2> QED
    BY <1>4, <1>7, <1>8, <1>10, <2>1, <2>2, <2>3, <2>4 DEF Kept, Local, Same
<1>11. CASE ~keepalive
  <2>1. reconnect_socket(c, reg.ev, reg.sk, cn, errors)
    BY <1>11 DEF response_complete, cn, reg, left, new
  <2>2. Alive(Conns \ {c}, reg.ev, cn)
    BY <1>0, <1>4, <1>7 DEF Calm, Alive
  <2>3. Reconnected(c, cur, reg.ev, reg.sk, cn, errors)
    BY <1>0, <1>4, <1>7, <1>8, <2>1, <2>2, ReconnectGood
  <2>4. \A d \in Conns : conn'[d].delayed = cn[d].delayed /\ conn'[d].parser = cn[d].parser
    BY <1>3, <2>3 DEF Reconnected, Moved, ConnTable
  <2>5. Undelayed'
    BY <1>9, <2>4 DEF Undelayed
  <2>6. Local(cur)
    BY <1>7, <2>3 DEF Local, Reconnected, Same
  <2>7. \A d \in Conns \ {c} : conn'[d] = conn[d]
    BY <1>3, <1>4, <2>3 DEF Reconnected, Moved, ConnTable
  <2> QED
    BY <1>4, <1>11, <2>3, <2>4, <2>5, <2>6, <2>7 DEF Kept, Reconnected
<1> QED
  BY <1>10, <1>11

\* What the parser may do next when the head of the buffer is that of a stream of
\* framed responses.
LEMMA ParseChoices ==
  ASSUME NEW c \in Conns, Head(buf) \in {"head", "keep", "close", "fin"},
         conn[c].parser # "body_eof", Parse(c)
  PROVE  \/ Head(buf) = "head" /\ header_field(c) /\ buf' = Tail(buf)
         \/ Head(buf) = "keep" /\ response_complete(c, TRUE) /\ buf' = Tail(buf)
         \/ Head(buf) = "close" /\ response_complete(c, FALSE) /\ buf' = Tail(buf)
<1>0. buf # << >> /\ ~Rejects(c)
  BY DEF Parse
<1>1. Head(buf) # "fin"
  BY <1>0 DEF Rejects
<1>2. CASE Head(buf) = "head" /\ header_field(c) /\ buf' = Tail(buf)
  BY <1>2
<1>3. CASE /\ Head(buf) \in {"keep", "close"}
           /\ response_complete(c, Head(buf) = "keep")
           /\ buf' = Resume(Head(buf) = "keep", Tail(buf))
  <2>1. buf' = Tail(buf)
    BY <1>3 DEF Resume
  <2>2. CASE Head(buf) = "keep"
    <3>1. (Head(buf) = "keep") = TRUE
      BY <2>2
    <3>2. response_complete(c, TRUE)
      BY <1>3, <3>1, Zenon
    <3> QED
      BY <2>1, <2>2, <3>2
  <2>3. CASE Head(buf) = "close"
    <3>1. (Head(buf) = "keep") = FALSE
      BY <2>3
    <3>2. response_complete(c, FALSE)
      BY <1>3, <3>1, Zenon
    <3> QED
      BY <2>1, <2>3, <3>2
  <2> QED
    BY <1>3, <2>2, <2>3
<1> QED
  BY <1>1, <1>2, <1>3, Zenon DEF Parse

\* In a calm state the buffer is good.
LEMMA ParseCases ==
  ASSUME Calm, NEW c \in Conns, Dispatched(c), Parse(c)
  PROVE  \/ Head(buf) = "head" /\ header_field(c) /\ buf' = Tail(buf)
         \/ Head(buf) = "keep" /\ response_complete(c, TRUE) /\ buf' = Tail(buf)
         \/ Head(buf) = "close" /\ response_complete(c, FALSE) /\ buf' = Tail(buf)
<1>1. Head(buf) \in {"head", "keep", "close", "fin"}
  <2>1. buf \in Seq(Item \cup {"notfinal"})
    BY DEF Calm, TypeOK
  <2>2. 1 \in DOMAIN buf /\ Head(buf) = buf[1]
    BY <2>1 DEF Parse
  <2> QED
    BY <2>2 DEF BufferOf, Dispatched
<1>2. conn[c].parser # "body_eof"
  BY DEF Calm, Undelayed
<1> QED
  BY <1>1, <1>2, ParseChoices

\* One step of the parser, for a connection that still reads the descriptor that
\* is dispatched.
LEMMA ParseGood ==
  ASSUME Premises, Calm, NEW c \in Conns, Dispatched(c), Parse(c)
  PROVE  /\ Kept /\ Local(cur) /\ Costs(cur)
         /\ UNCHANGED <<pc, cur, fired, reader>>
         /\ (Dispatched(c) \/ Replaced(c))'
<1>0. /\ UNCHANGED <<pc, cur, fired, reader, timers>>
      /\ pc = "parse" /\ reader = c /\ buf # << >> /\ ~Rejects(c)
  BY DEF Parse
<1>1. /\ cur \in Fds /\ conn[c].fd = cur /\ events[cur].mask # {} /\ events[cur].data = c
      /\ events[cur].rproc = "socket_readable" /\ BufferOf(cur)
  BY DEF Dispatched, Registered
<1>2. TypeOK /\ conn \in ConnTable /\ conn' \in ConnTable
  BY DEF Calm, TypeOK
<1>3. ASSUME buf' = Tail(buf), sock'[cur].rx = sock[cur].rx
      PROVE  /\ BufferOf(cur)'
             /\ Head(buf) = "close" => buf' = << >>
             /\ Head(buf) # "close" => (Holds(buf, "close") => Holds(buf', "close"))
  <2>1. BufferOf(cur)' /\ (Head(buf) = "close" => buf' = << >>)
    <3>1. \A fd \in Fds : BufferOf(fd) /\ sock'[fd].rx = sock[fd].rx =>
             BufferOf(fd)' /\ (Head(buf) = "close" => buf' = << >>)
      BY <1>0, <1>2, <1>3, BufferLeft
    <3>2. \A fd \in Fds : BufferOf(fd)' =>
             \A i \in DOMAIN buf' :
                /\ buf'[i] \in {"head", "keep", "close", "fin"}
                /\ buf'[i] = "close" => i = Len(buf') /\ sock'[fd].rx = <<"fin">>
                /\ buf'[i] = "fin" => Len(buf') = 1 /\ sock'[fd].rx = <<"fin">>
      BY DEF BufferOf
    <3> QED
      BY <1>0, <1>1, <1>3, <3>1, <3>2 DEF BufferOf
  <2>2. buf \in Seq(Item \cup {"notfinal"})
    BY <1>2 DEF TypeOK
  <2> QED
    BY <1>0, <1>3, <2>1, <2>2, BufferTail
<1>4. ASSUME Head(buf) # "close" => (Holds(buf, "close") => Holds(buf', "close")),
             sock'[cur].st = sock[cur].st, sock'[cur].rx = sock[cur].rx
      PROVE  Failed(cur)' => Failed(cur) \/ Head(buf) = "close"
  BY <1>0, <1>4 DEF Failed, Closing
<1>5. CASE Head(buf) = "head" /\ header_field(c) /\ buf' = Tail(buf)
  <2>1. UNCHANGED <<events, sock, errors, faults>>
    BY <1>5 DEF header_field
  <2>2. /\ \A d \in Conns : /\ conn'[d].fd = conn[d].fd
                            /\ conn'[d].delayed = conn[d].delayed
                            /\ conn'[d].parser \in {conn[d].parser, "head"}
    <3>1. ASSUME NEW h, conn' = [conn EXCEPT ![c].parser = "head", ![c].hdrs = h]
          PROVE  \A d \in Conns : /\ conn'[d].fd = conn[d].fd
                                  /\ conn'[d].delayed = conn[d].delayed
                                  /\ conn'[d].parser \in {conn[d].parser, "head"}
      BY <1>2, <3>1 DEF ConnTable
    <3> QED
      BY <1>5, <3>1, Zenon DEF header_field
  <2>3. Kept
    <3>1. Good(events, sock, conn')
      BY <1>2, <2>2, GoodFields DEF Calm
    <3>2. Alive(Conns, events', conn') /\ Undelayed'
      BY <1>0, <2>1, <2>2 DEF Calm, Alive, Undelayed
    <3> QED
      BY <2>1, <3>1, <3>2 DEF Kept
  <2>4. (Dispatched(c))'
    BY <1>0, <1>1, <1>3, <1>5, <2>1, <2>2 DEF Dispatched, Registered
  <2> QED
    BY <1>0, <1>3, <1>4, <1>5, <2>1, <2>3, <2>4 DEF Local, Same, Costs
<1>6. CASE Head(buf) = "keep" /\ response_complete(c, TRUE) /\ buf' = Tail(buf)
  <2>1. /\ Kept /\ Local(cur) /\ UNCHANGED <<errors, faults>>
        /\ \A d \in Conns : conn'[d].fd = conn[d].fd
        /\ events'[cur].mask # {} /\ events'[cur].data = c
        /\ events'[cur].rproc = "socket_readable"
        /\ sock'[cur].st = sock[cur].st /\ sock'[cur].rx = sock[cur].rx
    BY <1>0, <1>6, ResponseGood
  <2>2. (Dispatched(c))'
    BY <1>0, <1>1, <1>3, <1>6, <2>1 DEF Dispatched, Registered
  <2> QED
    BY <1>0, <1>3, <1>4, <1>6, <2>1, <2>2 DEF Costs
<1>7. CASE Head(buf) = "close" /\ response_complete(c, FALSE) /\ buf' = Tail(buf)
  <2>1. /\ Kept /\ Local(cur) /\ Quiet(cur) /\ Charged(errors)
        /\ Spare(sock', conn', c) /\ conn'[c].parser = "dead"
    BY <1>0, <1>7, ResponseGood
  <2>2. buf' = << >>
    <3>1. buf \in Seq(Item \cup {"notfinal"})
      BY <1>2 DEF TypeOK
    <3>2. Len(buf) \in Nat /\ DOMAIN buf = 1..Len(buf) /\ Len(buf) >= 1 /\ Head(buf) = buf[1]
      BY <1>0, <3>1
    <3>3. Len(buf) = 1
      BY <1>1, <1>7, <3>2 DEF BufferOf
    <3>4. Tail(buf) \in Seq(Item \cup {"notfinal"}) /\ Len(Tail(buf)) = 0
      BY <1>0, <3>1, <3>2, <3>3, BufferTail
    <3> QED
      BY <1>7, <3>4
  <2>3. (Replaced(c))'
    BY <2>1, <2>2 DEF Replaced, Spare
  <2> QED
    BY <1>0, <2>1, <2>3 DEF Costs
<1> QED
  BY <1>5, <1>6, <1>7, ParseCases

\* The end of the stream where an answer was expected.
LEMMA ParseErrorGood ==
  ASSUME Calm, NEW c \in Conns, Dispatched(c), ParseError(c)
  PROVE  /\ Kept /\ Local(cur) /\ Costs(cur)
         /\ UNCHANGED <<cur, fired>> /\ pc' = "file_w"
<1>0. /\ UNCHANGED <<cur, fired, timers>> /\ pc' = "file_w"
      /\ pc = "parse" /\ buf # << >> /\ Rejects(c)
      /\ reconnect_socket(c, events, sock, conn, Raise(errors, "read"))
  BY DEF ParseError, AfterR
<1>1. /\ cur \in Fds /\ conn[c].fd = cur /\ events[cur].mask # {} /\ events[cur].data = c
      /\ events[cur].rproc = "socket_readable" /\ BufferOf(cur) /\ Registered(c, cur)
  BY DEF Dispatched, Registered
<1>2. conn \in ConnTable /\ buf \in Seq(Item \cup {"notfinal"})
  BY DEF Calm, TypeOK
<1>3. Len(buf) \in Nat /\ DOMAIN buf = 1..Len(buf) /\ 1 \in DOMAIN buf /\ Head(buf) = buf[1]
  BY <1>0, <1>2
<1>4. Head(buf) = "fin"
  <2>1. Head(buf) \in {"head", "keep", "close", "fin"}
    BY <1>1, <1>3 DEF BufferOf
  <2>2. conn[c].parser # "dead"
    BY <1>1 DEF Calm, Alive
  <2> QED
    BY <1>0, <2>1, <2>2 DEF Rejects
<1>5. Len(buf) = 1 /\ sock[cur].rx = <<"fin">>
  BY <1>1, <1>3, <1>4 DEF BufferOf
<1>6. Failed(cur)
  <2>1. Finished(<<"fin">>) /\ ~Holds(<<"fin">>, "close")
    BY DEF Finished, Holds, Ends
  <2>2. ~Holds(buf, "close")
    BY <1>3, <1>4, <1>5 DEF Holds
  <2> QED
    BY <1>5, <2>1, <2>2 DEF Failed, Closing
<1>7. ~conn[c].delayed /\ conn[c].parser # "body_eof"
  BY DEF Calm, Undelayed
<1>8. Kept /\ Local(cur) /\ Quiet(cur) /\ Charged(Raise(errors, "read"))
  BY <1>0, <1>1, <1>2, <1>7, ReconnectKept
<1> QED
  BY <1>0, <1>6, <1>8 DEF Costs

-----------------------------------------------------------------------------
(* Counting *)

Total(er) == er.connect + er.read + er.write

\* An error counts once.
LEMMA RaiseTotal ==
  ASSUME NEW er \in ErrorCounts, NEW kind \in {"connect", "read", "write"}
  PROVE  /\ Raise(er, kind) \in ErrorCounts
         /\ Total(er) \in Nat /\ Total(Raise(er, kind)) <= Total(er) + 1
<1>1. Raise(er, kind) \in ErrorCounts
  BY RaiseType
<1>2. er.connect \in Nat /\ er.read \in Nat /\ er.write \in Nat
  BY DEF ErrorCounts
<1>3. \/ Raise(er, kind) = er
      \/ Raise(er, kind) = [er EXCEPT ![kind] = er[kind] + 1]
  BY DEF Raise
<1>4. CASE Raise(er, kind) = er
  BY <1>1, <1>2, <1>4 DEF Total
<1>5. CASE Raise(er, kind) = [er EXCEPT ![kind] = er[kind] + 1]
  <2>1. CASE kind = "connect"
    BY <1>2, <1>5, <2>1 DEF Total, ErrorCounts
  <2>2. CASE kind = "read"
    BY <1>2, <1>5, <2>2 DEF Total, ErrorCounts
  <2>3. CASE kind = "write"
    BY <1>2, <1>5, <2>3 DEF Total, ErrorCounts
  <2> QED
    BY <1>1, <2>1, <2>2, <2>3
<1> QED
  BY <1>1, <1>2, <1>3, <1>4, <1>5 DEF Total

\* What a connect adds is paid for.
LEMMA ChargedTotal ==
  ASSUME NEW er \in ErrorCounts, faults \in Nat, Charged(er)
  PROVE  Total(errors') + faults' <= Total(er) + faults
<1>1. Total(er) \in Nat /\ Total(Raise(er, "connect")) <= Total(er) + 1
      /\ Total(Raise(er, "connect")) \in Nat
  BY RaiseTotal
<1>2. CASE errors' = er /\ faults' = faults
  BY <1>1, <1>2
<1>3. CASE errors' = Raise(er, "connect") /\ faults > 0 /\ faults' = faults - 1
  BY <1>1, <1>3
<1> QED
  BY <1>2, <1>3 DEF Charged

\* Sets of descriptors.
LEMMA FdSets ==
  ASSUME IsFiniteSet(Fds), NEW S \in SUBSET Fds, NEW T \in SUBSET Fds
  PROVE  /\ Cardinality(S) \in Nat
         /\ S \subseteq T => Cardinality(S) <= Cardinality(T)
         /\ \A x \in Fds : S \subseteq T \cup {x} => Cardinality(S) <= Cardinality(T) + 1
         /\ \A x \in T : S \subseteq T \ {x} => Cardinality(S) <= Cardinality(T) - 1
<1>1. IsFiniteSet(S) /\ IsFiniteSet(T)
  BY FS_Subset
<1>2. Cardinality(S) \in Nat /\ Cardinality(T) \in Nat
  BY <1>1, FS_CardinalityType
<1>3. S \subseteq T => Cardinality(S) <= Cardinality(T)
  BY <1>1, FS_Subset
<1>4. ASSUME NEW x \in Fds, S \subseteq T \cup {x}
      PROVE  Cardinality(S) <= Cardinality(T) + 1
  <2>1. /\ IsFiniteSet(T \cup {x})
        /\ Cardinality(T \cup {x}) = Cardinality(T) \/ Cardinality(T \cup {x}) = Cardinality(T) + 1
    BY <1>1, FS_AddElement
  <2>2. Cardinality(S) <= Cardinality(T \cup {x})
    BY <1>4, <2>1, FS_Subset
  <2> QED
    BY <1>2, <2>1, <2>2
<1>5. ASSUME NEW x \in T, S \subseteq T \ {x}
      PROVE  Cardinality(S) <= Cardinality(T) - 1
  <2>1. IsFiniteSet(T \ {x}) /\ Cardinality(T \ {x}) = Cardinality(T) - 1
    BY <1>1, FS_RemoveElement
  <2>2. Cardinality(S) <= Cardinality(T \ {x})
    BY <1>5, <2>1, FS_Subset
  <2> QED
    BY <2>1, <2>2
<1> QED
  BY <1>2, <1>3, <1>4, <1>5

\* A step that is balanced keeps the count.
LEMMA CountStep ==
  ASSUME IsFiniteSet(Fds), TypeOK, TypeOK', Counted, NEW k \in Int,
         Cardinality(FailedFds') <= Cardinality(FailedFds) + k,
         Total(errors') + faults' + k <= Total(errors) + faults
  PROVE  Counted'
<1>1. FailedFds \in SUBSET Fds /\ FailedFds' \in SUBSET Fds
  BY DEF FailedFds
<1>2. Cardinality(FailedFds) \in Nat /\ Cardinality(FailedFds') \in Nat
  BY <1>1, FdSets
<1>3. Total(errors) \in Nat /\ Total(errors') \in Nat
  BY RaiseTotal DEF TypeOK
<1>4. faults \in Nat /\ faults' \in Nat /\ MaxFaults \in Nat
  BY WrkThreadAssumption DEF TypeOK
<1>5. Cardinality(FailedFds) + Total(errors) <= MaxFaults - faults
  BY DEF Counted, AllErrors, Total
<1>6. Cardinality(FailedFds') + Total(errors') <= MaxFaults - faults'
  BY <1>2, <1>3, <1>4, <1>5
<1> QED
  BY <1>6 DEF Counted, AllErrors, Total

\* A handler keeps the count.
LEMMA CountHandler ==
  ASSUME IsFiniteSet(Fds), TypeOK, TypeOK', Counted, NEW fd \in Fds,
         Local(fd), Costs(fd), pc = "parse" => cur = fd
  PROVE  Counted'
<1>1. FailedFds \in SUBSET Fds /\ FailedFds' \in SUBSET Fds
  BY DEF FailedFds
<1>2. ASSUME NEW g \in Fds, Quiet(g)
      PROVE  ~Failed(g)'
  <2>1. \A i \in DOMAIN << >> : FALSE
    OBVIOUS
  <2> QED
    BY <1>2, <2>1 DEF Quiet, Failed, Finished
<1>3. ASSUME NEW g \in Fds \ {fd}
      PROVE  Failed(g)' => Failed(g)
  <2>1. Same(events, sock, g) => (Failed(g)' => Failed(g))
    BY DEF Same, Failed, Closing
  <2> QED
    BY <1>2, <2>1 DEF Local
<1>5. errors \in ErrorCounts /\ faults \in Nat /\ Total(errors) \in Nat
  <2>1. errors \in ErrorCounts
    BY DEF TypeOK
  <2> QED
    BY <2>1, RaiseTotal, WrkThreadAssumption DEF TypeOK
<1>6. CASE errors' = errors /\ faults' = faults /\ (Failed(fd)' => Failed(fd))
  <2>1. FailedFds' \subseteq FailedFds
    BY <1>3, <1>6 DEF FailedFds
  <2>2. Cardinality(FailedFds') <= Cardinality(FailedFds) + 0
    BY <1>1, <2>1, FdSets
  <2>3. Total(errors') + faults' + 0 <= Total(errors) + faults
    BY <1>5, <1>6
  <2> QED
    BY <2>2, <2>3, CountStep
<1>7. CASE Quiet(fd) /\ Charged(errors)
  <2>1. FailedFds' \subseteq FailedFds
    BY <1>2, <1>3, <1>7 DEF FailedFds
  <2>2. Cardinality(FailedFds') <= Cardinality(FailedFds) + 0
    BY <1>1, <2>1, FdSets
  <2>3. Total(errors') + faults' <= Total(errors) + faults
    BY <1>5, <1>7, ChargedTotal
  <2>4. Total(errors') \in Nat /\ faults' \in Nat
    BY RaiseTotal, WrkThreadAssumption DEF TypeOK
  <2>5. Total(errors') + faults' + 0 <= Total(errors) + faults
    BY <2>3, <2>4
  <2> QED
    BY <2>2, <2>5, CountStep
<1>8. CASE /\ Failed(fd) /\ Quiet(fd)
           /\ \E kind \in {"connect", "read", "write"} : Charged(Raise(errors, kind))
  <2>1. FailedFds' \subseteq FailedFds \ {fd} /\ fd \in FailedFds
    BY <1>2, <1>3, <1>8 DEF FailedFds
  <2>2. Cardinality(FailedFds') <= Cardinality(FailedFds) - 1
    BY <1>1, <2>1, FdSets
  <2>3. PICK kind \in {"connect", "read", "write"} : Charged(Raise(errors, kind))
    BY <1>8
  <2>4. Total(errors') + faults' <= Total(Raise(errors, kind)) + faults
    BY <1>5, <2>3, ChargedTotal, RaiseTotal
  <2>5. Total(Raise(errors, kind)) <= Total(errors) + 1
        /\ Total(Raise(errors, kind)) \in Nat
    BY <1>5, RaiseTotal
  <2>6. Total(errors') \in Nat /\ faults' \in Nat
    BY RaiseTotal, WrkThreadAssumption DEF TypeOK
  <2>7. Total(errors') + faults' + (-1) <= Total(errors) + faults
    BY <1>5, <2>4, <2>5, <2>6
  <2>8. Cardinality(FailedFds') <= Cardinality(FailedFds) + (-1)
    <3>1. Cardinality(FailedFds') \in Nat /\ Cardinality(FailedFds) \in Nat
      BY <1>1, FdSets
    <3> QED
      BY <2>2, <3>1
  <2> QED
    BY <2>7, <2>8, CountStep
<1> QED
  BY <1>6, <1>7, <1>8 DEF Costs

-----------------------------------------------------------------------------
(* Steps.  TypeOK' is known from ThreadTypeCorrect. *)

FaultInv == StateInv /\ Counted

\* A handler, called for the connection of descriptor fd, keeps the invariant.
LEMMA HandlerStep ==
  ASSUME IsFiniteSet(Fds), FaultInv, TypeOK', NEW fd \in Fds,
         Kept, Local(fd), Costs(fd), UNCHANGED toConnect,
         pc # "setup", pc = "parse" => cur = fd, cur \in {NoFd, fd},
         \A g \in Fds : fired'[g] \subseteq fired[g],
         cur' = fd \/ (cur' = NoFd /\ fired'[fd] = {}),
         pc' \notin {"parse", "file_w"} => cur' = NoFd,
         pc' = "parse" => /\ reader' \in Conns
                          /\ (Dispatched(reader) \/ Replaced(reader))'
  PROVE  FaultInv'
<1>1. Counted'
  BY CountHandler DEF FaultInv, StateInv
<1>2. Setup'
  BY DEF FaultInv, StateInv, Setup
<1>3. Loop'
  BY DEF Loop
<1>4. ASSUME NEW g \in Fds \ {cur'}
      PROVE  Fresh(g)'
  <2>1. CASE g = fd
    <3>1. fired'[g] = {}
      BY <1>4, <2>1
    <3> QED
      BY <3>1 DEF Fresh
  <2>2. CASE g # fd
    <3>1. g # cur
      BY <2>2, WrkThreadAssumption
    <3>2. Fresh(g)
      BY <3>1 DEF FaultInv, StateInv
    <3>3. Same(events, sock, g) \/ Quiet(g)
      BY <2>2 DEF Local
    <3> QED
      BY <3>2, <3>3 DEF Same, Quiet, Fresh
  <2> QED
    BY <2>1, <2>2
<1> QED
  BY <1>1, <1>2, <1>3, <1>4 DEF FaultInv, StateInv, Kept

\* thread_main's connects find no descriptor of the connection.
LEMMA SetupStep ==
  ASSUME IsFiniteSet(Fds), FaultInv, TypeOK', NEW c \in Conns, thread_main(c)
  PROVE  FaultInv'
<1>1. /\ conn[c].fd = NoFd /\ NoFd \notin Fds /\ pc = "setup"
      /\ UNCHANGED <<pc, fired, cur, timers>> /\ toConnect' = toConnect \ {c}
      /\ connect_socket(c, events, sock, conn, errors)
  BY WrkThreadAssumption DEF thread_main, loopVars, FaultInv, StateInv, Setup
<1>2. \A f \in Fds : events[f].mask # {} => events[f].data # c
  BY <1>1, RegisteredGood DEF FaultInv, StateInv
<1>3. Spare(sock, conn, c)
  BY <1>1 DEF Spare
<1>4. Alive(Conns \ {c}, events, conn)
  BY DEF FaultInv, StateInv, Alive
<1>5. /\ Good(events', sock', conn') /\ Alive(Conns, events', conn')
      /\ \A g \in Fds : Same(events, sock, g) \/ Quiet(g)
      /\ Moved(c, conn) /\ Charged(errors)
  BY <1>1, <1>2, <1>3, <1>4, ConnectGood DEF FaultInv, StateInv
<1>6. conn \in ConnTable
  BY DEF FaultInv, StateInv, TypeOK
<1>7. \A d \in Conns : /\ conn'[d].delayed = conn[d].delayed
                       /\ conn'[d].parser = conn[d].parser
      /\ \A k \in Conns \ {c} : conn'[k] = conn[k]
  BY <1>5, <1>6 DEF Moved, ConnTable
<1>8. Undelayed'
  BY <1>1, <1>7 DEF FaultInv, StateInv, Undelayed
<1>9. Setup'
  <2>1. toConnect \subseteq Conns
    BY DEF FaultInv, StateInv, TypeOK
  <2> QED
    BY <1>1, <1>7, <2>1 DEF FaultInv, StateInv, Setup
<1>10. Loop'
  BY <1>1 DEF FaultInv, StateInv, Loop
<1>11. \A g \in Fds \ {cur'} : Fresh(g)'
  <2>1. ASSUME NEW g \in Fds \ {cur} PROVE Fresh(g)'
    <3>1. Fresh(g)
      BY DEF FaultInv, StateInv
    <3>2. Same(events, sock, g) \/ Quiet(g)
      BY <1>5
    <3> QED
      BY <1>1, <3>1, <3>2 DEF Same, Quiet, Fresh
  <2> QED
    BY <1>1, <2>1
<1>12. Counted'
  <2>1. ASSUME NEW g \in Fds PROVE Failed(g)' => Failed(g)
    <3>1. \A i \in DOMAIN << >> : FALSE
      OBVIOUS
    <3>2. Quiet(g) => ~Failed(g)'
      BY <3>1 DEF Quiet, Failed, Finished
    <3>3. Same(events, sock, g) => (Failed(g)' => Failed(g))
      BY <1>1 DEF Same, Failed, Closing
    <3> QED
      BY <1>5, <3>2, <3>3
  <2>2. FailedFds' \subseteq FailedFds /\ FailedFds \in SUBSET Fds /\ FailedFds' \in SUBSET Fds
    BY <2>1 DEF FailedFds
  <2>3. Cardinality(FailedFds') <= Cardinality(FailedFds) + 0
    BY <2>2, FdSets
  <2>4. /\ errors \in ErrorCounts /\ errors' \in ErrorCounts
        /\ faults \in Nat /\ faults' \in Nat
    BY WrkThreadAssumption DEF FaultInv, StateInv, TypeOK
  <2>5. Total(errors') + faults' <= Total(errors) + faults
    BY <1>5, <2>4, ChargedTotal
  <2>6. Total(errors') \in Nat
    BY <2>4, RaiseTotal
  <2>7. Total(errors') + faults' + 0 <= Total(errors) + faults
    BY <2>4, <2>5, <2>6
  <2> QED
    BY <2>3, <2>7, CountStep DEF FaultInv, StateInv
<1> QED
  BY <1>5, <1>8, <1>9, <1>10, <1>11, <1>12 DEF FaultInv, StateInv

\* A step of the loop that calls no handler.
LEMMA LoopStep ==
  ASSUME IsFiniteSet(Fds), FaultInv, TypeOK',
         UNCHANGED <<toConnect, events, conn, sock, timers, errors, faults>>,
         pc' # "parse", pc = "parse" => buf = << >>,
         toConnect # {} => pc' = "setup",
         pc' # "file_w" => cur' = NoFd,
         \A g \in Fds \ {cur'} : Fresh(g)'
  PROVE  FaultInv'
<1>1. Setup'
  BY DEF FaultInv, StateInv, Setup
<1>2. Loop'
  BY DEF Loop
<1>3. Good(events', sock', conn') /\ Alive(Conns, events', conn') /\ Undelayed'
  BY DEF FaultInv, StateInv, Undelayed, Alive
<1>4. Counted'
  <2>1. \A g \in Fds : Failed(g)' => Failed(g)
    BY DEF Failed, Closing, Holds
  <2>2. FailedFds' \subseteq FailedFds /\ FailedFds \in SUBSET Fds /\ FailedFds' \in SUBSET Fds
    BY <2>1 DEF FailedFds
  <2>3. Cardinality(FailedFds') <= Cardinality(FailedFds) + 0
    BY <2>2, FdSets
  <2>4. Total(errors) \in Nat /\ faults \in Nat
    BY RaiseTotal, WrkThreadAssumption DEF FaultInv, StateInv, TypeOK
  <2>5. Total(errors') + faults' + 0 <= Total(errors) + faults
    BY <2>4
  <2> QED
    BY <2>3, <2>5, CountStep DEF FaultInv, StateInv
<1> QED
  BY <1>1, <1>2, <1>3, <1>4 DEF FaultInv, StateInv

\* The environment changes one live socket; a failure costs a fault.
EnvEffect(fd) ==
    /\ EnvUnchanged
    /\ \A f \in Fds \ {fd} : sock'[f] = sock[f]
    /\ sock[fd].st \in Live /\ sock'[fd].st \in Live /\ sock'[fd].ep = sock[fd].ep
    /\ Socket(sock'[fd])
    /\ Unused(sock[fd]) => Unused(sock'[fd])
    /\ sock[fd].rx # << >> \/ sock[fd].st = "refused"
          => sock'[fd].rx # << >> \/ sock'[fd].st = "refused"
    /\ sock[fd].rx = <<"fin">> => sock'[fd].rx = <<"fin">>
    /\ \/ faults' = faults /\ (Failed(fd)' => Failed(fd))
       \/ faults > 0 /\ faults' = faults - 1

LEMMA EnvStep ==
  ASSUME IsFiniteSet(Fds), FaultInv, TypeOK', NEW fd \in Fds, EnvEffect(fd)
  PROVE  FaultInv'
<1>1. /\ UNCHANGED <<pc, toConnect, fired, cur, rfired, reader, buf,
                     events, conn, timers, errors, loopStop>>
      /\ \A f \in Fds \ {fd} : sock'[f] = sock[f]
      /\ sock' \in SockTable
  BY DEF EnvEffect, EnvUnchanged, TypeOK
<1>2. Good(events', sock', conn')
  <2>1. Handlers(events, sock, conn, fd) /\ events \in EventTable /\ conn \in ConnTable
    BY DEF FaultInv, StateInv, Good
  <2>2. Connecting(events, sock, fd) => Connecting(events, sock', fd)
    BY DEF Connecting, EnvEffect
  <2>3. Handlers(events, sock', conn, fd)
    BY <2>1, <2>2 DEF Handlers, EnvEffect
  <2>4. Socket(sock'[fd])
    BY DEF EnvEffect
  <2>5. Good(events, sock', conn)
    BY <1>1, <2>1, <2>3, <2>4, GoodChange DEF FaultInv, StateInv
  <2> QED
    BY <1>1, <2>5
<1>3. Alive(Conns, events', conn') /\ Undelayed' /\ Setup'
  BY <1>1 DEF FaultInv, StateInv, Undelayed, Alive, Setup
<1>4. Loop'
  <2>1. ASSUME pc = "parse", Dispatched(reader) PROVE (Dispatched(reader))'
    <3>1. BufferOf(cur) /\ cur \in Fds
      BY <2>1 DEF Dispatched, Registered
    <3>2. sock[cur].rx = <<"fin">> => sock'[cur].rx = <<"fin">>
      BY <1>1, <3>1 DEF EnvEffect
    <3>3. BufferOf(cur)'
      BY <1>1, <3>1, <3>2 DEF BufferOf
    <3> QED
      BY <1>1, <2>1, <3>3 DEF Dispatched, Registered
  <2>2. ASSUME pc = "parse", Replaced(reader) PROVE (Replaced(reader))'
    <3>1. ASSUME conn[reader].fd \in Fds PROVE Unused(sock'[conn[reader].fd])
      <4>1. Unused(sock[conn[reader].fd])
        BY <2>2, <3>1 DEF Replaced, Spare
      <4> QED
        BY <1>1, <3>1, <4>1 DEF EnvEffect
    <3> QED
      BY <1>1, <2>2, <3>1 DEF Replaced, Spare
  <2> QED
    BY <1>1, <2>1, <2>2 DEF FaultInv, StateInv, Loop
<1>5. ASSUME NEW g \in Fds \ {cur'} PROVE Fresh(g)'
  <2>1. Fresh(g)
    BY <1>1 DEF FaultInv, StateInv
  <2> QED
    BY <1>1, <2>1 DEF Fresh, EnvEffect
<1>6. Counted'
  <2>1. ASSUME NEW g \in Fds \ {fd} PROVE Failed(g)' => Failed(g)
    BY <1>1 DEF Failed, Closing
  <2>2. FailedFds \in SUBSET Fds /\ FailedFds' \in SUBSET Fds
    BY DEF FailedFds
  <2>3. Total(errors) \in Nat /\ faults \in Nat
    BY RaiseTotal, WrkThreadAssumption DEF FaultInv, StateInv, TypeOK
  <2>4. CASE faults' = faults /\ (Failed(fd)' => Failed(fd))
    <3>1. FailedFds' \subseteq FailedFds
      BY <2>1, <2>4 DEF FailedFds
    <3>2. Cardinality(FailedFds') <= Cardinality(FailedFds) + 0
      BY <2>2, <3>1, FdSets
    <3>3. Total(errors') + faults' + 0 <= Total(errors) + faults
      BY <1>1, <2>3, <2>4
    <3> QED
      BY <3>2, <3>3, CountStep DEF FaultInv, StateInv
  <2>5. CASE faults > 0 /\ faults' = faults - 1
    <3>1. FailedFds' \subseteq FailedFds \cup {fd}
      BY <2>1 DEF FailedFds
    <3>2. Cardinality(FailedFds') <= Cardinality(FailedFds) + 1
      BY <2>2, <3>1, FdSets
    <3>3. Total(errors') + faults' + 1 <= Total(errors) + faults
      BY <1>1, <2>3, <2>5
    <3> QED
      BY <3>2, <3>3, CountStep DEF FaultInv, StateInv
  <2> QED
    BY <2>4, <2>5 DEF EnvEffect
<1> QED
  BY <1>2, <1>3, <1>4, <1>5, <1>6 DEF FaultInv, StateInv

\* The network and the server.
LEMMA NetworkStep ==
  ASSUME Premises, IsFiniteSet(Fds), FaultInv, TypeOK', NEW fd \in Fds,
         \/ Establish(fd) \/ Refuse(fd) \/ ServerFails(fd)
         \/ \E kind \in Kinds : Respond(fd, kind)
  PROVE  FaultInv'
<1>1. sock \in SockTable /\ sock' \in SockTable /\ sock[fd].rx \in Seq(Item)
  BY DEF FaultInv, StateInv, TypeOK, SockTable
<1>2. Socket(sock[fd]) /\ Stream(sock[fd].rx)
  BY DEF FaultInv, StateInv, Good, Socket
<1>3. CASE Establish(fd)
  <2>1. /\ sock[fd].st = "connecting" /\ sock'[fd].st = "up"
        /\ sock'[fd].rx = sock[fd].rx /\ sock'[fd].ep = sock[fd].ep
        /\ sock'[fd].due = sock[fd].due
        /\ \A f \in Fds \ {fd} : sock'[f] = sock[f]
        /\ UNCHANGED faults /\ EnvUnchanged
    BY <1>1, <1>3 DEF Establish, SockTable
  <2>2. Socket(sock'[fd])
    BY <1>2, <2>1 DEF Socket
  <2>3. Failed(fd)' => Failed(fd)
    BY <2>1 DEF Failed, Closing, EnvUnchanged
  <2>4. EnvEffect(fd)
    BY <2>1, <2>2, <2>3 DEF EnvEffect, Live, Unused
  <2> QED
    BY <2>4, EnvStep
<1>4. CASE Refuse(fd)
  <2>1. /\ sock[fd].st = "connecting" /\ sock'[fd].st = "refused"
        /\ sock'[fd].rx = sock[fd].rx /\ sock'[fd].ep = sock[fd].ep
        /\ sock'[fd].due = sock[fd].due
        /\ \A f \in Fds \ {fd} : sock'[f] = sock[f]
        /\ faults > 0 /\ faults' = faults - 1 /\ EnvUnchanged
    BY <1>1, <1>4 DEF Refuse, SockTable
  <2>2. Socket(sock'[fd])
    BY <1>2, <2>1 DEF Socket
  <2>3. EnvEffect(fd)
    BY <2>1, <2>2 DEF EnvEffect, Live, Unused
  <2> QED
    BY <2>3, EnvStep
<1>5. CASE ServerFails(fd)
  <2>1. PICK n \in 0..Len(sock[fd].rx), e \in Ends :
           sock' = [sock EXCEPT ![fd].rx = Append(SubSeq(@, 1, n), e),
                                ![fd].due = 0, ![fd].got = 0]
    BY <1>5 DEF ServerFails
  <2> DEFINE rx  == sock[fd].rx
             new == Append(SubSeq(rx, 1, n), e)
  <2>2. sock[fd].st = "up" /\ ~Finished(rx) /\ faults > 0 /\ faults' = faults - 1
        /\ EnvUnchanged
    BY <1>5 DEF ServerFails
  <2>3. Stream(new) /\ new # << >> /\ (rx = << >> => NoData(new))
    <3> HIDE DEF rx
    <3>1. rx \in Seq(Item) /\ Stream(rx) /\ n \in 0..Len(rx)
      BY <1>1, <1>2 DEF rx
    <3> QED
      BY <2>2, <3>1, StreamCut
  <2> HIDE DEF new
  <2>4. /\ sock'[fd].rx = new /\ sock'[fd].st = "up" /\ sock'[fd].due = 0
        /\ sock'[fd].ep = sock[fd].ep
        /\ \A f \in Fds \ {fd} : sock'[f] = sock[f]
    BY <1>1, <2>1, <2>2 DEF SockTable, new
  <2>5. Socket(sock'[fd])
    BY <2>3, <2>4 DEF Socket
  <2>6. NoData(rx) => rx = << >>
    BY <1>1, <1>2, <2>2, OpenStream
  <2>7. Unused(sock[fd]) => Unused(sock'[fd])
    BY <2>3, <2>4, <2>6 DEF Unused
  <2>8. rx # <<"fin">>
    <3>1. 1 \in DOMAIN <<"fin">> /\ <<"fin">>[1] = "fin"
      OBVIOUS
    <3> QED
      BY <2>2, <3>1 DEF Finished, Ends
  <2>9. EnvEffect(fd)
    BY <2>2, <2>3, <2>4, <2>5, <2>7, <2>8 DEF EnvEffect, Live
  <2> QED
    BY <2>9, EnvStep
<1>6. CASE \E kind \in Kinds : Respond(fd, kind)
  <2>1. PICK kind \in {"keep", "close"} : Respond(fd, kind)
    BY <1>6 DEF Premises
  <2> DEFINE rx  == sock[fd].rx
             new == rx \o (IF kind = "keep" THEN <<"head", "keep">>
                           ELSE <<"head", kind, "fin">>)
  <2>2. /\ sock[fd].st = "up" /\ sock[fd].due > 0 /\ ~Finished(rx)
        /\ faults' = faults /\ EnvUnchanged
        /\ sock' = [sock EXCEPT
             ![fd].rx  = @ \o (IF kind = "keep" THEN <<"head", "keep">>
                               ELSE <<"head", kind, "fin">>),
             ![fd].due = IF kind = "keep" THEN @ - 1 ELSE 0,
             ![fd].got = IF kind = "keep" THEN @ ELSE 0]
    BY <2>1 DEF Respond
  <2>3. Stream(new) /\ new # << >> /\ (Finished(new) => Holds(new, "close"))
    <3> HIDE DEF rx
    <3>1. rx \in Seq(Item) /\ Stream(rx)
      BY <1>1, <1>2 DEF rx
    <3> QED
      BY <2>2, <3>1, StreamAnswer
  <2>4. /\ sock'[fd].rx = new /\ sock'[fd].st = "up"
        /\ sock'[fd].ep = sock[fd].ep
        /\ \A f \in Fds \ {fd} : sock'[f] = sock[f]
    <3>1. ASSUME NEW r, NEW due, NEW got,
                 sock' = [sock EXCEPT ![fd].rx = r, ![fd].due = due, ![fd].got = got]
          PROVE  /\ sock'[fd].rx = r /\ sock'[fd].st = "up"
                 /\ sock'[fd].ep = sock[fd].ep
                 /\ \A f \in Fds \ {fd} : sock'[f] = sock[f]
      <4>1. sock[fd].st = "up" /\ sock \in SockTable
        BY <1>1, <2>2
      <4> QED
        BY <3>1, <4>1 DEF SockTable
    <3> QED
      BY <2>2, <3>1, Zenon
  <2> HIDE DEF new
  <2>5. Socket(sock'[fd])
    BY <2>3, <2>4 DEF Socket
  <2>6. ~Unused(sock[fd])
    <3>1. sock[fd].due \in Nat
      BY <1>1 DEF SockTable
    <3> QED
      BY <2>2, <3>1 DEF Unused
  <2>7. rx # <<"fin">>
    <3>1. 1 \in DOMAIN <<"fin">> /\ <<"fin">>[1] = "fin"
      OBVIOUS
    <3> QED
      BY <2>2, <3>1 DEF Finished, Ends
  <2>8. ~Failed(fd)'
    BY <2>3, <2>4 DEF Failed, Closing
  <2>9. EnvEffect(fd)
    BY <2>2, <2>3, <2>4, <2>5, <2>6, <2>7, <2>8 DEF EnvEffect, Live
  <2> QED
    BY <2>9, EnvStep
<1> QED
  BY <1>3, <1>4, <1>5, <1>6

\* The whole environment.
LEMMA EnvironmentStep ==
  ASSUME Premises, IsFiniteSet(Fds), FaultInv, TypeOK', Environment
  PROVE  FaultInv'
<1>1. CASE SetStop
  <2>1. UNCHANGED <<pc, toConnect, fired, cur, rfired, reader, buf, sock, faults,
                    events, conn, timers, errors, loopStop>>
    BY <1>1 DEF SetStop, EnvUnchanged
  <2> QED
    BY <2>1 DEF FaultInv, StateInv, Undelayed, Setup, Loop, Good, Alive, Fresh, Counted,
       AllErrors, FailedFds, Failed, Closing, Dispatched, Registered, BufferOf, Replaced
<1>2. ASSUME NEW fd \in Fds, ForeignOpen(fd) \/ ForeignClose(fd)
      PROVE  FALSE
  <2>1. Socket(sock[fd])
    BY DEF FaultInv, StateInv, Good
  <2> QED
    BY <1>2, <2>1 DEF ForeignOpen, ForeignClose, Premises, Socket
<1> QED
  BY <1>1, <1>2, NetworkStep DEF Environment

\* The handlers the loop calls for an event.
LEMMA DispatchStep ==
  ASSUME IsFiniteSet(Fds), FaultInv, TypeOK', NEW fd \in Fds, NEW c \in Conns,
         DispatchR(fd, c) \/ DispatchW(fd, c)
  PROVE  FaultInv'
<1>0. Calm /\ (pc \notin {"parse", "file_w"} => cur = NoFd) /\ (toConnect # {} => pc = "setup")
  BY DEF FaultInv, StateInv, Calm, Loop, Setup
<1>1. events[fd].mask # {} =>
         events[fd].data \in Conns /\ (Connecting(events, sock, fd) \/ Reading(events, fd))
  BY <1>0, RegisteredGood DEF Calm
<1>2. CASE CallsR(fd, "socket_connected", c) /\ socket_connected(c, fd) /\ AfterR(fd)
  <2>1. /\ pc = "fetch" /\ events[fd].mask # {} /\ events[fd].data = c
        /\ events[fd].rproc = "socket_connected"
        /\ pc' = "file_w" /\ cur' = fd /\ fired' = fired /\ toConnect' = toConnect
    BY <1>2 DEF CallsR, FiresR, AfterR, socket_connected
  <2>2. Connecting(events, sock, fd)
    BY <1>1, <2>1 DEF Reading
  <2>3. Kept /\ Local(fd) /\ Costs(fd)
    BY <1>0, <1>2, <2>1, <2>2, ConnectedGood
  <2> QED
    BY <1>0, <2>1, <2>3, HandlerStep
<1>3. CASE CallsR(fd, "socket_readable", c) /\ socket_readable(c, fd)
  <2>1. /\ pc = "fetch" /\ events[fd].mask # {} /\ events[fd].data = c
        /\ events[fd].rproc = "socket_readable" /\ "R" \in fired[fd]
        /\ toConnect' = toConnect
    BY <1>3 DEF CallsR, FiresR, socket_readable
  <2>2. cur = NoFd /\ fd # NoFd
    BY <1>0, <2>1, WrkThreadAssumption
  <2>3. sock[fd].rx # << >> \/ sock[fd].st = "refused"
    BY <2>1, <2>2 DEF FaultInv, StateInv, Fresh
  <2>4. /\ Kept /\ Local(fd) /\ Costs(fd)
        /\ fired' = fired /\ cur' = fd /\ pc' \in {"parse", "file_w"}
        /\ pc' = "parse" => reader' = c /\ (Dispatched(c))'
    BY <1>0, <1>3, <2>1, <2>3, ReadableGood
  <2>5. pc' = "parse" => reader' \in Conns /\ (Dispatched(reader) \/ Replaced(reader))'
    BY <2>4 DEF Dispatched, Registered
  <2> QED
    BY <2>1, <2>2, <2>4, <2>5, HandlerStep
<1>4. CASE CallsW(fd, "socket_connected", c) /\ socket_connected(c, fd) /\ AfterW(fd)
  <2>1. /\ pc = "file_w" /\ cur = fd /\ events[fd].mask # {} /\ events[fd].data = c
        /\ events[fd].wproc = "socket_connected" /\ "W" \in events[fd].mask
        /\ pc' = "fetch" /\ cur' = NoFd /\ fired' = [fired EXCEPT ![fd] = {}]
        /\ toConnect' = toConnect
    BY <1>4 DEF CallsW, FiresW, AfterW, socket_connected
  <2>2. Connecting(events, sock, fd)
    BY <1>1, <2>1 DEF Reading
  <2>3. Kept /\ Local(fd) /\ Costs(fd)
    BY <1>0, <1>4, <2>1, <2>2, ConnectedGood
  <2>4. fired'[fd] = {} /\ \A g \in Fds : fired'[g] \subseteq fired[g]
    BY <2>1 DEF FaultInv, StateInv, TypeOK
  <2> QED
    BY <2>1, <2>3, <2>4, HandlerStep
<1>5. CASE CallsW(fd, "socket_writeable", c) /\ socket_writeable(c, fd) /\ AfterW(fd)
  <2>1. /\ pc = "file_w" /\ cur = fd /\ events[fd].mask # {} /\ events[fd].data = c
        /\ events[fd].wproc = "socket_writeable" /\ "W" \in events[fd].mask
        /\ pc' = "fetch" /\ cur' = NoFd /\ fired' = [fired EXCEPT ![fd] = {}]
        /\ toConnect' = toConnect
    BY <1>5 DEF CallsW, FiresW, AfterW, socket_writeable
  <2>2. Reading(events, fd)
    BY <1>1, <2>1 DEF Connecting
  <2>3. Kept /\ Local(fd) /\ Costs(fd)
    BY <1>0, <1>5, <2>1, <2>2, WriteableGood
  <2>4. fired'[fd] = {} /\ \A g \in Fds : fired'[g] \subseteq fired[g]
    BY <2>1 DEF FaultInv, StateInv, TypeOK
  <2> QED
    BY <2>1, <2>3, <2>4, HandlerStep
<1> QED
  BY <1>2, <1>3, <1>4, <1>5 DEF DispatchR, DispatchW

\* A socket nothing was asked on has no data to read.
LEMMA SpareUnreadable ==
  ASSUME NEW c \in Conns, Spare(sock, conn, c) PROVE ~sock_readable(c)
<1> SUFFICES ASSUME sock_readable(c) PROVE FALSE
  OBVIOUS
<1>1. PICK i \in DOMAIN SocketOf(c).rx : SocketOf(c).rx[i] \in Data
  BY DEF sock_readable
<1>2. SocketOf(c).rx[i] \notin Ends
  BY <1>1 DEF Data, AllKinds, Ends
<1>3. conn[c].fd \in Fds /\ SocketOf(c) = sock[conn[c].fd]
  BY <1>1 DEF SocketOf, FreeSock
<1> QED
  BY <1>1, <1>2, <1>3 DEF Spare, Unused, NoData

\* The parser's steps.
LEMMA ReaderStep ==
  ASSUME Premises, IsFiniteSet(Fds), FaultInv, TypeOK', NEW c \in Conns,
         Parse(c) \/ ParseError(c) \/ ReadAgain(c) \/ ReadDone(c)
  PROVE  FaultInv'
<1>0. Calm /\ pc = "parse" /\ reader = c /\ (Dispatched(c) \/ Replaced(c))
      /\ toConnect' = toConnect
  BY DEF FaultInv, StateInv, Calm, Loop, Parse, ParseError, ReadAgain, ReadDone,
         socket_readable
<1>1. Dispatched(c) =>
         /\ cur \in Fds /\ cur # NoFd /\ events[cur].mask # {} /\ events[cur].data = c
         /\ events[cur].rproc = "socket_readable" /\ conn[c].fd = cur
  BY WrkThreadAssumption DEF Dispatched, Registered
<1>2. CASE Parse(c)
  <2>1. Dispatched(c)
    BY <1>0, <1>2 DEF Parse, Replaced
  <2>2. /\ Kept /\ Local(cur) /\ Costs(cur)
        /\ UNCHANGED <<pc, cur, fired, reader>>
        /\ (Dispatched(c) \/ Replaced(c))'
    BY <1>0, <1>2, <2>1, ParseGood
  <2>3. reader' \in Conns /\ (Dispatched(reader) \/ Replaced(reader))'
    BY <1>0, <2>2 DEF Dispatched, Registered, Replaced, Spare
  <2> QED
    BY <1>0, <1>1, <2>1, <2>2, <2>3, HandlerStep
<1>3. CASE ParseError(c)
  <2>1. Dispatched(c)
    BY <1>0, <1>3 DEF ParseError, Replaced
  <2>2. /\ Kept /\ Local(cur) /\ Costs(cur)
        /\ UNCHANGED <<cur, fired>> /\ pc' = "file_w"
    BY <1>0, <1>3, <2>1, ParseErrorGood
  <2> QED
    BY <1>0, <1>1, <2>1, <2>2, HandlerStep
<1>4. CASE ReadAgain(c)
  <2>1. buf = << >> /\ sock_readable(c) /\ socket_readable(c, cur)
    BY <1>4 DEF ReadAgain
  <2>2. ~Replaced(c)
    BY <2>1, SpareUnreadable DEF Replaced
  <2>3. Dispatched(c)
    BY <1>0, <2>2
  <2>4. sock[cur].rx # << >>
    BY <1>1, <2>1, <2>3 DEF sock_readable, SocketOf
  <2>5. /\ Kept /\ Local(cur) /\ Costs(cur)
        /\ fired' = fired /\ cur' = cur /\ pc' \in {"parse", "file_w"}
        /\ pc' = "parse" => reader' = c /\ (Dispatched(c))'
    BY <1>0, <1>1, <2>1, <2>3, <2>4, ReadableGood
  <2>6. pc' = "parse" => reader' \in Conns /\ (Dispatched(reader) \/ Replaced(reader))'
    BY <2>5 DEF Dispatched, Registered
  <2> QED
    BY <1>0, <1>1, <2>3, <2>5, <2>6, HandlerStep
<1>5. CASE ReadDone(c)
  <2>1. /\ UNCHANGED <<toConnect, events, conn, sock, timers, errors, faults, fired, cur>>
        /\ buf = << >> /\ pc' = "file_w" /\ pc = "parse"
    BY <1>5 DEF ReadDone, AfterR
  <2>2. \A g \in Fds \ {cur'} : Fresh(g)'
    BY <2>1 DEF FaultInv, StateInv, Fresh
  <2>3. toConnect = {}
    BY <1>0 DEF FaultInv, StateInv, Setup
  <2> QED
    BY <2>1, <2>2, <2>3, LoopStep
<1> QED
  BY <1>2, <1>3, <1>4, <1>5

\* Every step.
LEMMA FaultNext ==
  ASSUME Premises, IsFiniteSet(Fds), FaultInv, TypeOK', [Next]_vars
  PROVE  FaultInv'
<1>1. CASE UNCHANGED vars
  BY <1>1 DEF vars, FaultInv, StateInv, Undelayed, Setup, Loop, Good, Alive, Fresh, Counted,
     AllErrors, FailedFds, Failed, Closing, Dispatched, Registered, BufferOf, Replaced
<1>2. CASE Environment
  BY <1>2, EnvironmentStep
<1>3. ASSUME NEW c \in Conns, thread_main(c) PROVE FaultInv'
  BY <1>3, SetupStep
<1>4. ASSUME NEW c \in Conns, Parse(c) \/ ParseError(c) \/ ReadAgain(c) \/ ReadDone(c)
      PROVE  FaultInv'
  BY <1>4, ReaderStep
<1>5. ASSUME NEW c \in Conns, delay_request(c) PROVE FaultInv'
  BY <1>5 DEF delay_request, FaultInv, StateInv, Undelayed
<1>6. ASSUME NEW fd \in Fds, NEW c \in Conns, DispatchR(fd, c) \/ DispatchW(fd, c)
      PROVE  FaultInv'
  BY <1>6, DispatchStep
<1>7. ASSUME NEW fd \in Fds, SkipR(fd) PROVE FaultInv'
  <2>1. /\ UNCHANGED <<toConnect, fired, events, conn, sock, timers, errors, faults>>
        /\ pc = "fetch" /\ pc' = "file_w" /\ cur' = fd
    BY <1>7 DEF SkipR
  <2>2. cur = NoFd /\ toConnect = {}
    BY <2>1 DEF FaultInv, StateInv, Setup, Loop
  <2>3. \A g \in Fds \ {cur'} : Fresh(g)'
    <3>1. \A g \in Fds : Fresh(g)
      BY <2>2, WrkThreadAssumption DEF FaultInv, StateInv
    <3> QED
      BY <2>1, <3>1 DEF Fresh
  <2> QED
    BY <2>1, <2>2, <2>3, LoopStep
<1>8. ASSUME NEW fd \in Fds, SkipW(fd) PROVE FaultInv'
  <2>1. /\ UNCHANGED <<toConnect, events, conn, sock, timers, errors, faults>>
        /\ pc = "file_w" /\ pc' = "fetch" /\ cur = fd /\ cur' = NoFd
        /\ fired' = [fired EXCEPT ![fd] = {}]
    BY <1>8 DEF SkipW, AfterW
  <2>2. toConnect = {}
    BY <2>1 DEF FaultInv, StateInv, Setup
  <2>3. \A g \in Fds \ {cur'} : Fresh(g)'
    <3>1. \A g \in Fds \ {fd} : Fresh(g)
      BY <2>1 DEF FaultInv, StateInv
    <3>2. fired'[fd] = {} /\ \A g \in Fds \ {fd} : fired'[g] = fired[g]
      BY <2>1 DEF FaultInv, StateInv, TypeOK
    <3> QED
      BY <2>1, <3>1, <3>2 DEF Fresh
  <2> QED
    BY <2>1, <2>2, <2>3, LoopStep
<1>9. CASE aeApiPoll
  <2>1. /\ UNCHANGED <<toConnect, cur, events, conn, sock, timers, errors, faults>>
        /\ pc = "poll" /\ pc' \in {"time", "fetch"}
        /\ fired' = [fd \in Fds |-> Ready(fd)]
    BY <1>9 DEF aeApiPoll
  <2>2. cur = NoFd /\ toConnect = {}
    BY <2>1 DEF FaultInv, StateInv, Setup, Loop
  <2>3. ASSUME NEW g \in Fds PROVE Fresh(g)'
    <3>1. "R" \in fired'[g] => "R" \in Ready(g)
      BY <2>1
    <3>2. "R" \in Ready(g) => sock[g].rx # << >> \/ Broken(g)
      BY DEF Ready
    <3>3. Broken(g) => sock[g].st = "refused" \/ sock[g].rx # << >>
      <4>1. sock[g].rx = << >> => DOMAIN sock[g].rx = {}
        OBVIOUS
      <4> QED
        BY <4>1 DEF Broken
    <3> QED
      BY <2>1, <3>1, <3>2, <3>3 DEF Fresh
  <2> QED
    BY <2>1, <2>2, <2>3, LoopStep
<1>10. CASE aeMain \/ FiredDone \/ record_rate \/ EndTime
  <2>1. /\ UNCHANGED <<toConnect, cur, fired, events, conn, sock, timers, errors, faults>>
        /\ pc \in {"setup", "fetch", "time"} /\ pc' \in {"poll", "time", "stopped"}
        /\ toConnect # {} => pc # "setup"
    BY <1>10 DEF aeMain, FiredDone, record_rate, EndTime, loopVars
  <2>2. cur = NoFd /\ toConnect = {}
    BY <2>1 DEF FaultInv, StateInv, Setup, Loop
  <2>3. \A g \in Fds : Fresh(g)'
    BY <2>1, <2>2, WrkThreadAssumption DEF FaultInv, StateInv, Fresh
  <2> QED
    BY <2>1, <2>2, <2>3, LoopStep
<1> QED
  BY <1>1, <1>2, <1>3, <1>4, <1>5, <1>6, <1>7, <1>8, <1>9, <1>10 DEF Next, Thread

\* Initially nothing is registered and nothing failed.
LEMMA FaultInit ==
  ASSUME Premises, IsFiniteSet(Fds), Init PROVE FaultInv
<1>1. TypeOK
  BY InitType
<1>2. /\ \A fd \in Fds : events[fd] = NoEvent /\ sock[fd] = FreeSock /\ fired[fd] = {}
      /\ \A c \in Conns : /\ conn[c].fd = NoFd /\ conn[c].delayed = Delay
                          /\ conn[c].parser = "start" /\ timers[c] = 0
      /\ pc = "setup" /\ cur = NoFd /\ toConnect = Conns
      /\ errors.connect = 0 /\ errors.read = 0 /\ errors.write = 0 /\ faults = MaxFaults
  BY DEF Init
<1>3. \A fd \in Fds : events[fd].mask = {}
  BY <1>2 DEF NoEvent
<1>4. Good(events, sock, conn)
  <2>1. \A fd \in Fds : Socket(sock[fd]) /\ Handlers(events, sock, conn, fd)
    BY <1>2, <1>3, FreeSockGood DEF Handlers, Live
  <2> QED
    BY <1>1, <2>1 DEF Good, TypeOK
<1>5. Alive(Conns, events, conn) /\ \A fd \in Fds : Fresh(fd)
  BY <1>3 DEF Alive, Fresh
<1>6. Undelayed /\ Setup /\ Loop
  BY <1>2 DEF Undelayed, Setup, Loop, Premises
<1>7. Counted
  <2>1. \A fd \in Fds : ~Failed(fd)
    <3>1. ~Finished(<< >>)
      BY DEF Finished
    <3> QED
      BY <1>2, <3>1, FreeSockGood DEF Failed
  <2>2. FailedFds = {}
    BY <2>1 DEF FailedFds
  <2>3. Cardinality(FailedFds) = 0
    BY <2>2, FS_EmptySet
  <2> QED
    BY <1>2, <2>3, WrkThreadAssumption DEF Counted, AllErrors
<1> QED
  BY <1>1, <1>4, <1>5, <1>6, <1>7 DEF FaultInv, StateInv

\* The errors a thread counts are failures that happened: with a server that
\* frames its answers and a script without delay(), every connect, read or write
\* error of wrk.c has a refused connection, a reset, an end of the stream
\* inside an answer or a failed connect() of its own, whatever the number of
\* connections and the order of the events, and although epoll results are
\* stale when a handler has replaced the socket in the same pass.
THEOREM ErrorsWereFaults ==
  ASSUME Premises, IsFiniteSet(Fds)
  PROVE  Spec => []ErrorsAreFaults
<1>1. Init => FaultInv
  BY FaultInit
<1>2. FaultInv /\ TypeOK' /\ [Next]_vars => FaultInv'
  BY FaultNext
<1>3. FaultInv => ErrorsAreFaults
  <2>1. FaultInv => Cardinality(FailedFds) \in Nat
    <3>1. FailedFds \in SUBSET Fds
      BY DEF FailedFds
    <3> QED
      BY <3>1, FdSets
  <2>2. FaultInv => errors.connect \in Nat /\ errors.read \in Nat /\ errors.write \in Nat
                    /\ faults \in Nat
    BY WrkThreadAssumption DEF FaultInv, StateInv, TypeOK, ErrorCounts
  <2> QED
    BY <2>1, <2>2, WrkThreadAssumption DEF FaultInv, Counted, AllErrors, ErrorsAreFaults
<1>4. Spec => []TypeOK
  BY ThreadTypeCorrect
<1> QED
  BY <1>1, <1>2, <1>3, <1>4, PTL DEF Spec

\* Under the same premises the descriptors stay owned, and the table of ae.c
\* agrees with the epoll set, even when connecting fails and a connection is left
\* with a number that is free or somebody else's.
THEOREM OwnedInSpiteOfFailures ==
  ASSUME Premises, IsFiniteSet(Fds)
  PROVE  Spec => [](FdOwnership /\ InterestInSync)
<1>1. Init => FaultInv
  BY FaultInit
<1>2. FaultInv /\ TypeOK' /\ [Next]_vars => FaultInv'
  BY FaultNext
<1>3. FaultInv => FdOwnership /\ InterestInSync
  BY DEF FaultInv, StateInv, Good, Handlers, FdOwnership, InterestInSync
<1>4. Spec => []TypeOK
  BY ThreadTypeCorrect
<1> QED
  BY <1>1, <1>2, <1>3, <1>4, PTL DEF Spec
==============================================================================
