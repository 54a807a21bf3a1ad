-------------------------------- MODULE AeApi --------------------------------
(***************************************************************************)
(* The four back ends of the event loop, ae_epoll.c, ae_select.c,          *)
(* ae_kqueue.c and ae_evport.c: what each tells the kernel when an event   *)
(* is added or deleted, and what it makes of what the kernel reports.      *)
(*                                                                         *)
(* k is what the kernel and the back end keep: k.kern, the events the      *)
(* kernel watches a descriptor for; k.pending, of evport, the associations *)
(* the last poll dissolved and the next one restores.  table is the mask   *)
(* of every descriptor in the event loop's own table.                      *)
(***************************************************************************)
EXTENDS Integers, Sequences, SequencesExt

R == "AE_READABLE"
W == "AE_WRITABLE"
Kinds == {R, W}
NoFd == -1

aeApiCreate(fds) == [kern |-> [fd \in fds |-> {}], pending |-> << >>]
aeApiFree(k) == aeApiCreate(DOMAIN k.kern)

Watch(k, fd, m) == [k EXCEPT !.kern[fd] = m]
Done(k) == [k |-> k, ok |-> TRUE]
Failed(k) == [k |-> k, ok |-> FALSE]

-----------------------------------------------------------------------------
(***************************************************************************)
(* aeApiAddEvent: the set of its outcomes.  The system call may fail.      *)
(***************************************************************************)
\* ADD or MOD is chosen by the table, and the kernel must agree.
epoll_AddEvent(k, table, fd, m) ==
    {Failed(k)} \cup
    (IF (table[fd] = {}) = (k.kern[fd] = {}) THEN {Done(Watch(k, fd, table[fd] \cup m))} ELSE {})

select_AddEvent(k, table, fd, m) == {Done(Watch(k, fd, k.kern[fd] \cup m))}

\* One call for each filter: the second may fail after the first succeeded.
kqueue_AddEvent(k, table, fd, m) ==
    {Done(Watch(k, fd, k.kern[fd] \cup m)), Failed(k)}
    \cup (IF m = Kinds THEN {Failed(Watch(k, fd, k.kern[fd] \cup {R}))} ELSE {})

\* aeApiLookupPending, 0 if the descriptor is not among them.
aeApiLookupPending(k, fd) ==
    LET at == {i \in DOMAIN k.pending : k.pending[i].fd = fd}
    IN  IF at = {} THEN 0 ELSE CHOOSE i \in at : \A j \in at : i <= j

evport_AddEvent(k, table, fd, m) ==
    LET p == aeApiLookupPending(k, fd)
        full == m \cup table[fd]
    IN  IF p # 0 THEN {Done([k EXCEPT !.pending[p].mask = @ \cup full])}
        ELSE {Done(Watch(k, fd, full)), Failed(k)}

-----------------------------------------------------------------------------
(***************************************************************************)
(* aeApiDelEvent.                                                          *)
(***************************************************************************)
epoll_DelEvent_KeepsOld(k, table, fd, m) ==
    IF table[fd] \ m # {} THEN k ELSE Watch(k, fd, {})

epoll_DelEvent(k, table, fd, m) ==
    IF k.kern[fd] = {} THEN k ELSE Watch(k, fd, table[fd] \ m)

FilterDelEvent(k, table, fd, m) == Watch(k, fd, k.kern[fd] \ m)
select_DelEvent(k, table, fd, m) == FilterDelEvent(k, table, fd, m)
kqueue_DelEvent(k, table, fd, m) == FilterDelEvent(k, table, fd, m)

\* A descriptor that is associated is associated again with the mask of the
\* table, as if the table had been changed before the call.
evport_DelEvent(k, table, fd, m) ==
    LET p == aeApiLookupPending(k, fd)
        left == k.pending[p].mask \ m
    IN  IF p # 0
        THEN [k EXCEPT !.pending[p] = [fd |-> IF left = {} THEN NoFd ELSE fd, mask |-> left]]
        ELSE Watch(k, fd, table[fd])

-----------------------------------------------------------------------------
(***************************************************************************)
(* aeApiPoll: what is restored on entry, and what is reported for the      *)
(* events that are ready, which is a set of kinds for each descriptor.     *)
(* A report is a sequence of [fd, mask], in any order but for select.      *)
(***************************************************************************)
evport_Restore(k) ==
    LET pend == {k.pending[i] : i \in DOMAIN k.pending}
    IN  [kern |-> [fd \in DOMAIN k.kern |->
                     IF \E p \in pend : p.fd = fd
                     THEN (CHOOSE p \in pend : p.fd = fd).mask ELSE k.kern[fd]],
         pending |-> << >>]

Entry(fd, m) == [fd |-> fd, mask |-> m]
Reported(k, ready) == {fd \in DOMAIN k.kern : ready[fd] \cap k.kern[fd] # {}}

\* An error or a hangup is reported as writable, whatever was asked for.
epoll_Reports(k, table, maxfd, ready) ==
    UNION { SetToSeqs({Entry(fd, IF fd \in hangup THEN (ready[fd] \cap k.kern[fd]) \cup {W}
                                 ELSE ready[fd] \cap k.kern[fd]) : fd \in Reported(k, ready)})
            : hangup \in SUBSET Reported(k, ready) }

\* Every registered descriptor gets an entry as soon as one is ready.
select_Reports(k, table, maxfd, ready) ==
    IF Reported(k, ready) = {} THEN { << >> }
    ELSE {s \in SetToSeqs({Entry(fd, table[fd] \cap k.kern[fd] \cap ready[fd]) :
                              fd \in {j \in 0..maxfd : table[j] # {}}}) :
            \A i, j \in DOMAIN s : i < j => s[i].fd < s[j].fd}

\* Each filter is an event of its own.
kqueue_Reports(k, table, maxfd, ready) ==
    SetToSeqs({Entry(e[1], {e[2]}) :
                 e \in {f \in (DOMAIN k.kern) \X Kinds : f[2] \in ready[f[1]] \cap k.kern[f[1]]}})

evport_Reports(k, table, maxfd, ready) ==
    SetToSeqs({Entry(fd, ready[fd] \cap k.kern[fd]) : fd \in Reported(k, ready)})

\* What a report leaves behind: evport dissolves what it reports.
evport_Fired(k, report) ==
    [kern |-> [fd \in DOMAIN k.kern |->
                 IF \E i \in DOMAIN report : report[i].fd = fd THEN {} ELSE k.kern[fd]],
     pending |-> [i \in DOMAIN report |-> Entry(report[i].fd, k.kern[report[i].fd])]]

-----------------------------------------------------------------------------
aeApiAddEvent(api, k, table, fd, m) ==
    CASE api = "epoll"  -> epoll_AddEvent(k, table, fd, m)
      [] api = "select" -> select_AddEvent(k, table, fd, m)
      [] api = "kqueue" -> kqueue_AddEvent(k, table, fd, m)
      [] api = "evport" -> evport_AddEvent(k, table, fd, m)

aeApiDelEvent(api, k, table, fd, m) ==
    CASE api = "epoll"  -> epoll_DelEvent(k, table, fd, m)
      [] api = "select" -> select_DelEvent(k, table, fd, m)
      [] api = "kqueue" -> kqueue_DelEvent(k, table, fd, m)
      [] api = "evport" -> evport_DelEvent(k, table, fd, m)

PollEntered(api, k) == IF api = "evport" THEN evport_Restore(k) ELSE k

aeApiPoll(api, k, table, maxfd, ready) ==
    LET reports == CASE api = "epoll"  -> epoll_Reports(k, table, maxfd, ready)
                     [] api = "select" -> select_Reports(k, table, maxfd, ready)
                     [] api = "kqueue" -> kqueue_Reports(k, table, maxfd, ready)
                     [] api = "evport" -> evport_Reports(k, table, maxfd, ready)
    IN  {[fired |-> r, k |-> IF api = "evport" THEN evport_Fired(k, r) ELSE k] : r \in reports}

\* A descriptor that is closed leaves the kernel's set by itself, except that
\* select is told by number.
Closed(api, k, fd) == IF api = "select" THEN k ELSE Watch(k, fd, {})
=============================================================================
