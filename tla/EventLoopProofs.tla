--------------------------- MODULE EventLoopProofs ---------------------------
(***************************************************************************)
(* Proofs about the event loop for any number of descriptors and timers    *)
(* and any sequence of calls, within callbacks or not: what it says of the *)
(* descriptors (maxfd and the interest of the kernel, for all four back    *)
(* ends), that a callback gets the events of its own descriptor, and that  *)
(* the list of timers loses none.  Then about its time, for any length of  *)
(* a second and any way the clock is set: that no timer runs too early and *)
(* the loop sleeps past none, that a clock which is set back delays none   *)
(* by more than the rest of a second, and that the state is well typed.    *)
(***************************************************************************)
EXTENDS EventLoop, SequenceTheorems, FiniteSetTheorems, WellFoundedInduction, TLAPS

Table == [Fds -> SUBSET Kinds]
Entries == [fd : Fds \cup {NoFd}, mask : SUBSET Kinds]

-----------------------------------------------------------------------------
(***************************************************************************)
(* The back ends.  BackEnd is the type of what they keep.  Agrees relates  *)
(* it to the table of the loop: epoll and select have the same masks,      *)
(* kqueue at least those, and evport too, once the entries that wait for   *)
(* the next poll have been restored; a descriptor has at most one of them, *)
(* or aeApiLookupPending might find the wrong one.                         *)
(***************************************************************************)
BackEnd(kk) ==
    /\ DOMAIN kk = {"kern", "pending"}
    /\ kk.kern \in Table
    /\ DOMAIN kk.pending \subseteq Nat \ {0}
    /\ \A i \in DOMAIN kk.pending : kk.pending[i] \in Entries

Covered(kk, table) == \A fd \in Fds : table[fd] \subseteq kk.kern[fd]

OnePending(kk) ==
    \A i, j \in DOMAIN kk.pending :
        kk.pending[i].fd = kk.pending[j].fd /\ kk.pending[i].fd # NoFd => i = j

Restorable(kk, table) ==
    \A fd \in Fds :
        /\ \A i \in DOMAIN kk.pending :
              kk.pending[i].fd = fd => table[fd] \subseteq kk.pending[i].mask
        /\ (\A i \in DOMAIN kk.pending : kk.pending[i].fd # fd) => table[fd] \subseteq kk.kern[fd]

Agrees(a, kk, table) ==
    /\ a \in {"epoll", "select"} => kk.kern = table
    /\ a = "kqueue" => Covered(kk, table)
    /\ a = "evport" => OnePending(kk) /\ Restorable(kk, table)

LEMMA WatchIs ==
    ASSUME NEW kk, BackEnd(kk), NEW fd \in Fds, NEW m \in SUBSET Kinds
    PROVE  /\ BackEnd(Watch(kk, fd, m))
           /\ Watch(kk, fd, m).kern = [kk.kern EXCEPT ![fd] = m]
           /\ Watch(kk, fd, m).pending = kk.pending
BY DEF BackEnd, Watch, Table

\* aeApiLookupPending finds the entry of a descriptor, if there is one.
LEMMA LookupFinds ==
    ASSUME NEW kk, BackEnd(kk), OnePending(kk), NEW fd \in Fds
    PROVE  LET p == aeApiLookupPending(kk, fd)
           IN  \/ p = 0 /\ \A i \in DOMAIN kk.pending : kk.pending[i].fd # fd
               \/ p # 0 /\ p \in DOMAIN kk.pending /\ kk.pending[p].fd = fd
<1> DEFINE at == {i \in DOMAIN kk.pending : kk.pending[i].fd = fd}
<1>1. CASE at = {}
  BY <1>1 DEF aeApiLookupPending
<1>2. ASSUME NEW q \in at PROVE aeApiLookupPending(kk, fd) = q
  <2>1. \A i \in at : i = q
    BY EventLoopAssumption DEF OnePending, NoFd, Fds
  <2>2. q <= q
    BY DEF BackEnd
  <2> QED
    BY <2>1, <2>2 DEF aeApiLookupPending
<1> QED
  BY <1>1, <1>2 DEF BackEnd

\* evport: an entry that waits is changed in its place.
LEMMA PendingSet ==
    ASSUME NEW kk, BackEnd(kk), NEW p \in DOMAIN kk.pending, NEW e \in Entries
    PROVE  LET r == [kk EXCEPT !.pending[p] = e]
           IN  /\ BackEnd(r)
               /\ r.kern = kk.kern
               /\ DOMAIN r.pending = DOMAIN kk.pending
               /\ r.pending[p] = e
               /\ \A i \in DOMAIN kk.pending : i # p => r.pending[i] = kk.pending[i]
BY DEF BackEnd

\* aeApiAddEvent, whether it succeeds or not.
LEMMA AddKeeps ==
    ASSUME NEW a \in Apis, NEW kk, NEW table \in Table, BackEnd(kk), Agrees(a, kk, table),
           NEW fd \in Fds, NEW m \in SUBSET Kinds, NEW r \in aeApiAddEvent(a, kk, table, fd, m)
    PROVE  /\ BackEnd(r.k)
           /\ Agrees(a, r.k, IF r.ok THEN [table EXCEPT ![fd] = @ \cup m] ELSE table)
<1> DEFINE more == [table EXCEPT ![fd] = @ \cup m]
<1>0. more \in Table /\ table[fd] \in SUBSET Kinds /\ more[fd] = table[fd] \cup m
      /\ \A f \in Fds : f # fd => more[f] = table[f]
  BY DEF Table
<1>1. CASE a = "epoll"
  <2>1. r = Failed(kk) \/ r = Done(Watch(kk, fd, table[fd] \cup m))
    BY <1>1 DEF aeApiAddEvent, epoll_AddEvent
  <2>2. CASE r = Failed(kk)
    BY <1>1, <2>2 DEF Failed
  <2>3. CASE r = Done(Watch(kk, fd, table[fd] \cup m))
    <3>1. table[fd] \cup m \in SUBSET Kinds
      BY <1>0
    <3>2. r.ok /\ r.k = Watch(kk, fd, table[fd] \cup m)
      BY <2>3 DEF Done
    <3> HIDE DEF more
    <3>3. /\ BackEnd(Watch(kk, fd, table[fd] \cup m))
          /\ Watch(kk, fd, table[fd] \cup m).kern = [kk.kern EXCEPT ![fd] = table[fd] \cup m]
      BY <3>1, WatchIs
    <3> QED
      BY <1>1, <3>2, <3>3 DEF Agrees, more
  <2> QED
    BY <2>1, <2>2, <2>3
<1>2. CASE a = "select"
  <2>1. r = Done(Watch(kk, fd, kk.kern[fd] \cup m)) /\ kk.kern = table
    BY <1>2 DEF aeApiAddEvent, select_AddEvent, Agrees
  <2>2. r.ok /\ BackEnd(r.k) /\ r.k.kern = [kk.kern EXCEPT ![fd] = table[fd] \cup m]
    BY <1>0, <2>1, WatchIs DEF Done
  <2> QED
    BY <1>2, <2>1, <2>2 DEF Agrees
<1>3. CASE a = "kqueue"
  <2>0. Covered(kk, table) /\ kk.kern \in Table
    BY <1>3 DEF Agrees, BackEnd
  <2>1. \/ r = Done(Watch(kk, fd, kk.kern[fd] \cup m))
        \/ r = Failed(kk)
        \/ r = Failed(Watch(kk, fd, kk.kern[fd] \cup {R}))
    BY <1>3 DEF aeApiAddEvent, kqueue_AddEvent
  <2>2. CASE r = Done(Watch(kk, fd, kk.kern[fd] \cup m))
    <3>1. kk.kern[fd] \cup m \in SUBSET Kinds
      BY <2>0 DEF Table
    <3>2. r.ok /\ BackEnd(r.k) /\ r.k.kern = [kk.kern EXCEPT ![fd] = kk.kern[fd] \cup m]
      BY <2>2, <3>1, WatchIs DEF Done
    <3>3. Covered(r.k, more)
      BY <1>0, <2>0, <3>2 DEF Covered, Table
    <3> QED
      BY <1>3, <3>2, <3>3 DEF Agrees
  <2>3. CASE r = Failed(kk)
    BY <1>3, <2>3 DEF Failed
  <2>4. CASE r = Failed(Watch(kk, fd, kk.kern[fd] \cup {R}))
    <3>1. kk.kern[fd] \cup {R} \in SUBSET Kinds
      BY <2>0 DEF Table, Kinds
    <3>2. ~r.ok /\ r.k = Watch(kk, fd, kk.kern[fd] \cup {R})
      BY <2>4 DEF Failed
    <3>3. BackEnd(r.k) /\ r.k.kern = [kk.kern EXCEPT ![fd] = kk.kern[fd] \cup {R}]
      BY <3>1, <3>2, WatchIs
    <3>4. Covered(r.k, table)
      BY <2>0, <3>3 DEF Covered, Table
    <3> QED
      BY <1>3, <3>2, <3>3, <3>4 DEF Agrees
  <2> QED
    BY <2>1, <2>2, <2>3, <2>4
<1>4. CASE a = "evport"
  <2> DEFINE p == aeApiLookupPending(kk, fd)
             full == m \cup table[fd]
  <2>0. OnePending(kk) /\ Restorable(kk, table) /\ kk.kern \in Table /\ full \in SUBSET Kinds
    BY <1>0, <1>4 DEF Agrees, BackEnd
  <2>1. CASE p # 0
    <3>1. p \in DOMAIN kk.pending /\ kk.pending[p].fd = fd /\ kk.pending[p] \in Entries
      BY <2>0, <2>1, LookupFinds DEF BackEnd
    <3>2. r = Done([kk EXCEPT !.pending[p].mask = @ \cup full])
      BY <1>4, <2>1 DEF aeApiAddEvent, evport_AddEvent
    <3> DEFINE e == [kk.pending[p] EXCEPT !.mask = @ \cup full]
    <3>3. e \in Entries /\ e.fd = fd /\ e.mask = kk.pending[p].mask \cup full
      BY <2>0, <3>1 DEF Entries
    <3>4. r.ok /\ r.k = [kk EXCEPT !.pending[p] = e]
      BY <3>2 DEF Done
    <3> HIDE DEF e, p
    <3>5. /\ BackEnd(r.k) /\ r.k.kern = kk.kern /\ DOMAIN r.k.pending = DOMAIN kk.pending
          /\ r.k.pending[p] = e
          /\ \A i \in DOMAIN kk.pending : i # p => r.k.pending[i] = kk.pending[i]
      BY <3>1, <3>3, <3>4, PendingSet
    <3>6. OnePending(r.k)
      BY <2>0, <3>1, <3>3, <3>5 DEF OnePending
    <3>7. Restorable(r.k, more)
      <4> SUFFICES ASSUME NEW f \in Fds
                   PROVE  /\ \A i \in DOMAIN kk.pending :
                                r.k.pending[i].fd = f => more[f] \subseteq r.k.pending[i].mask
                          /\ (\A i \in DOMAIN kk.pending : r.k.pending[i].fd # f)
                                => more[f] \subseteq kk.kern[f]
        BY <3>5 DEF Restorable
      <4>1. \A i \in DOMAIN kk.pending : r.k.pending[i].fd = kk.pending[i].fd
        BY <3>1, <3>3, <3>5
      <4>2. CASE f = fd
        <5>1. \A i \in DOMAIN kk.pending : r.k.pending[i].fd = f => i = p
          BY <2>0, <3>1, <4>1, <4>2, EventLoopAssumption DEF OnePending, Fds, NoFd
        <5> QED
          BY <1>0, <3>1, <3>3, <3>5, <4>1, <4>2, <5>1
      <4>3. CASE f # fd
        <5>1. \A i \in DOMAIN kk.pending : r.k.pending[i].fd = f => i # p
          BY <3>1, <4>1, <4>3
        <5> QED
          BY <1>0, <2>0, <3>5, <4>1, <4>3, <5>1 DEF Restorable
      <4> QED
        BY <4>2, <4>3
    <3> QED
      BY <1>4, <3>4, <3>5, <3>6, <3>7 DEF Agrees
  <2>2. CASE p = 0
    <3>1. \A i \in DOMAIN kk.pending : kk.pending[i].fd # fd
      BY <2>0, <2>2, LookupFinds DEF BackEnd
    <3>2. r = Done(Watch(kk, fd, full)) \/ r = Failed(kk)
      BY <1>4, <2>2 DEF aeApiAddEvent, evport_AddEvent
    <3>3. CASE r = Failed(kk)
      BY <1>4, <3>3 DEF Failed
    <3>4. CASE r = Done(Watch(kk, fd, full))
      <4>1. /\ r.ok /\ BackEnd(r.k) /\ r.k.kern = [kk.kern EXCEPT ![fd] = full]
            /\ r.k.pending = kk.pending
        BY <2>0, <3>4, WatchIs DEF Done
      <4>2. OnePending(r.k)
        BY <2>0, <4>1 DEF OnePending
      <4>3. Restorable(r.k, more)
        BY <1>0, <2>0, <3>1, <4>1 DEF Restorable, Table
      <4> QED
        BY <1>4, <4>1, <4>2, <4>3 DEF Agrees
    <3> QED
      BY <3>2, <3>3, <3>4
  <2> QED
    BY <2>1, <2>2
<1> QED
  BY <1>1, <1>2, <1>3, <1>4 DEF Apis

\* aeApiDelEvent, before aeDeleteFileEvent changes the table.
LEMMA DeleteKeeps ==
    ASSUME NEW a \in Apis, NEW kk, NEW table \in Table, BackEnd(kk), Agrees(a, kk, table),
           NEW fd \in Fds, NEW m \in SUBSET Kinds
    PROVE  /\ BackEnd(aeApiDelEvent(a, kk, table, fd, m))
           /\ Agrees(a, aeApiDelEvent(a, kk, table, fd, m), [table EXCEPT ![fd] = @ \ m])
<1> DEFINE r == aeApiDelEvent(a, kk, table, fd, m)
           less == [table EXCEPT ![fd] = @ \ m]
<1>0. less \in Table /\ table[fd] \in SUBSET Kinds /\ less[fd] = table[fd] \ m
      /\ (\A f \in Fds : f # fd => less[f] = table[f]) /\ kk.kern \in Table
      /\ table[fd] \ m \in SUBSET Kinds /\ kk.kern[fd] \ m \in SUBSET Kinds
  BY DEF Table, BackEnd
<1>1. CASE a = "epoll"
  <2>1. r = (IF kk.kern[fd] = {} THEN kk ELSE Watch(kk, fd, table[fd] \ m)) /\ kk.kern = table
    BY <1>1 DEF aeApiDelEvent, epoll_DelEvent, Agrees
  <2>2. CASE table[fd] = {}
    <3>1. less = table
      BY <2>2 DEF Table
    <3> QED
      BY <1>1, <2>1, <2>2, <3>1
  <2>3. CASE table[fd] # {}
    <3>1. BackEnd(r) /\ r.kern = [kk.kern EXCEPT ![fd] = table[fd] \ m]
      BY <1>0, <2>1, <2>3, WatchIs
    <3> QED
      BY <1>1, <2>1, <3>1 DEF Agrees
  <2> QED
    BY <2>2, <2>3
<1>2. CASE a \in {"select", "kqueue"}
  <2>1. r = Watch(kk, fd, kk.kern[fd] \ m)
    BY <1>2 DEF aeApiDelEvent, select_DelEvent, kqueue_DelEvent, FilterDelEvent
  <2>2. BackEnd(r) /\ r.kern = [kk.kern EXCEPT ![fd] = kk.kern[fd] \ m]
    BY <1>0, <2>1, WatchIs
  <2>3. CASE a = "select"
    BY <2>2, <2>3 DEF Agrees
  <2>4. CASE a = "kqueue"
    <3>1. Covered(kk, table)
      BY <2>4 DEF Agrees
    <3>2. Covered(r, less)
      BY <1>0, <2>2, <3>1 DEF Covered, Table
    <3> QED
      BY <2>2, <2>4, <3>2 DEF Agrees
  <2> QED
    BY <1>2, <2>3, <2>4
<1>3. CASE a = "evport"
  <2> DEFINE p == aeApiLookupPending(kk, fd)
             left == kk.pending[p].mask \ m
             e == [fd |-> IF left = {} THEN NoFd ELSE fd, mask |-> left]
  <2>0. OnePending(kk) /\ Restorable(kk, table)
    BY <1>3 DEF Agrees
  <2>1. CASE p # 0
    <3>1. p \in DOMAIN kk.pending /\ kk.pending[p].fd = fd /\ kk.pending[p] \in Entries
      BY <2>0, <2>1, LookupFinds DEF BackEnd
    <3>2. r = [kk EXCEPT !.pending[p] = e]
      BY <1>3, <2>1 DEF aeApiDelEvent, evport_DelEvent
    <3>3. e \in Entries /\ (e.fd = fd \/ e.fd = NoFd) /\ (e.fd = NoFd => left = {})
          /\ e.mask = left
      <4>1. left \in SUBSET Kinds
        BY <3>1 DEF Entries
      <4>2. fd # NoFd
        BY EventLoopAssumption DEF Fds, NoFd
      <4> QED
        BY <4>1, <4>2 DEF Entries
    <3>4. table[fd] \subseteq kk.pending[p].mask
      BY <2>0, <3>1 DEF Restorable
    <3>5. less[fd] \subseteq e.mask
      BY <1>0, <3>3, <3>4
    <3> HIDE DEF p, e, r, less
    <3>6. /\ BackEnd(r) /\ r.kern = kk.kern /\ DOMAIN r.pending = DOMAIN kk.pending
          /\ r.pending[p] = e
          /\ \A i \in DOMAIN kk.pending : i # p => r.pending[i] = kk.pending[i]
      BY <3>1, <3>2, <3>3, PendingSet
    <3>7. NoFd \notin Fds
      BY EventLoopAssumption DEF Fds, NoFd
    <3>8. OnePending(r)
      BY <2>0, <3>1, <3>3, <3>6 DEF OnePending
    <3>9. Restorable(r, less)
      <4> SUFFICES ASSUME NEW f \in Fds
                   PROVE  /\ \A i \in DOMAIN kk.pending :
                                r.pending[i].fd = f => less[f] \subseteq r.pending[i].mask
                          /\ (\A i \in DOMAIN kk.pending : r.pending[i].fd # f)
                                => less[f] \subseteq kk.kern[f]
        BY <3>6 DEF Restorable
      <4>1. CASE f = fd
        <5>1. \A i \in DOMAIN kk.pending : r.pending[i].fd = f => i = p
          BY <2>0, <3>1, <3>6, <3>7, <4>1 DEF OnePending
        <5>2. e.fd = NoFd => less[f] = {}
          BY <3>3, <3>5, <4>1
        <5> QED
          BY <3>1, <3>3, <3>5, <3>6, <4>1, <5>1, <5>2
      <4>2. CASE f # fd
        <5>1. \A i \in DOMAIN kk.pending : r.pending[i].fd = f => i # p
          BY <3>3, <3>6, <3>7, <4>2
        <5>2. kk.pending[p].fd # f
          BY <3>1, <4>2
        <5> QED
          BY <1>0, <2>0, <3>6, <4>2, <5>1, <5>2 DEF Restorable
      <4> QED
        BY <4>1, <4>2
    <3> QED
      BY <1>3, <3>6, <3>8, <3>9 DEF Agrees, r, less
  <2>2. CASE p = 0
    <3>1. \A i \in DOMAIN kk.pending : kk.pending[i].fd # fd
      BY <2>0, <2>2, LookupFinds DEF BackEnd
    <3>2. r = Watch(kk, fd, table[fd])
      BY <1>3, <2>2 DEF aeApiDelEvent, evport_DelEvent
    <3> HIDE DEF r
    <3>3. BackEnd(r) /\ r.kern = [kk.kern EXCEPT ![fd] = table[fd]] /\ r.pending = kk.pending
      BY <1>0, <3>2, WatchIs
    <3>4. OnePending(r)
      BY <2>0, <3>3 DEF OnePending
    <3>5. Restorable(r, less)
      BY <1>0, <2>0, <3>1, <3>3 DEF Restorable, Table
    <3> QED
      BY <1>3, <3>3, <3>4, <3>5 DEF Agrees, r
  <2> QED
    BY <2>1, <2>2
<1> QED
  BY <1>1, <1>2, <1>3 DEF Apis

\* A descriptor without events is closed.
LEMMA CloseKeeps ==
    ASSUME NEW a \in Apis, NEW kk, NEW table \in Table, BackEnd(kk), Agrees(a, kk, table),
           NEW fd \in Fds, table[fd] = {}
    PROVE  BackEnd(Closed(a, kk, fd)) /\ Agrees(a, Closed(a, kk, fd), table)
<1> DEFINE r == Watch(kk, fd, {})
<1>1. BackEnd(r) /\ r.kern = [kk.kern EXCEPT ![fd] = {}] /\ r.pending = kk.pending
  BY WatchIs
<1> HIDE DEF r
<1>2. CASE a = "select"
  BY <1>2 DEF Closed
<1>3. CASE a # "select"
  <2>1. Closed(a, kk, fd) = r
    BY <1>3 DEF Closed, r
  <2>2. a = "epoll" => r.kern = table
    BY <1>1 DEF Agrees, Table
  <2>3. a = "kqueue" => Covered(r, table)
    BY <1>1 DEF Agrees, Covered, Table, BackEnd
  <2>4. a = "evport" => OnePending(r)
    BY <1>1 DEF Agrees, OnePending
  <2>5. a = "evport" => Restorable(r, table)
    BY <1>1 DEF Agrees, Restorable, Table, BackEnd
  <2> QED
    BY <1>1, <1>3, <2>1, <2>2, <2>3, <2>4, <2>5 DEF Agrees
<1> QED
  BY <1>2, <1>3

\* The poll begins: what waited is restored, and the kernel watches for every
\* event of the table.
LEMMA EnterKeeps ==
    ASSUME NEW a \in Apis, NEW kk, NEW table \in Table, BackEnd(kk), Agrees(a, kk, table)
    PROVE  LET r == PollEntered(a, kk)
           IN  BackEnd(r) /\ Agrees(a, r, table) /\ Covered(r, table)
<1> DEFINE r == PollEntered(a, kk)
<1>1. CASE a # "evport"
  <2>1. r = kk
    BY <1>1 DEF PollEntered
  <2>2. Covered(kk, table)
    BY <1>1 DEF Agrees, Covered, Apis
  <2> QED
    BY <2>1, <2>2
<1>2. CASE a = "evport"
  <2> DEFINE pend == {kk.pending[i] : i \in DOMAIN kk.pending}
             Kern(fd) == IF \E q \in pend : q.fd = fd
                         THEN (CHOOSE q \in pend : q.fd = fd).mask ELSE kk.kern[fd]
  <2>1. r = [kern |-> [fd \in Fds |-> Kern(fd)], pending |-> << >>]
    BY <1>2 DEF PollEntered, evport_Restore, BackEnd, Table
  <2>2. ASSUME NEW fd \in Fds PROVE Kern(fd) \in SUBSET Kinds /\ table[fd] \subseteq Kern(fd)
    <3>1. CASE \E q \in pend : q.fd = fd
      <4> DEFINE q == CHOOSE x \in pend : x.fd = fd
      <4>1. q \in pend /\ q.fd = fd
        BY <3>1
      <4>2. PICK i \in DOMAIN kk.pending : q = kk.pending[i]
        BY <4>1
      <4>3. q \in Entries /\ table[fd] \subseteq q.mask
        BY <1>2, <4>1, <4>2 DEF BackEnd, Agrees, Restorable
      <4> QED
        BY <3>1, <4>3 DEF Entries
    <3>2. CASE ~\E q \in pend : q.fd = fd
      BY <1>2, <3>2 DEF BackEnd, Table, Agrees, Restorable
    <3> QED
      BY <3>1, <3>2
  <2> HIDE DEF Kern
  <2>3. DOMAIN r.pending = {} /\ DOMAIN r = {"kern", "pending"}
    BY <2>1
  <2>4. r.kern \in Table /\ Covered(r, table)
    BY <2>1, <2>2 DEF Table, Covered
  <2> HIDE DEF r
  <2>5. BackEnd(r) /\ OnePending(r) /\ Restorable(r, table)
    BY <2>3, <2>4 DEF BackEnd, OnePending, Restorable, Covered
  <2> QED
    BY <1>2, <2>4, <2>5 DEF Agrees, r
<1> QED
  BY <1>1, <1>2

\* The poll ends: event ports dissolve what they report, and it waits.
LEMMA PollKeeps ==
    ASSUME NEW a \in Apis, NEW kk, NEW table \in Table, BackEnd(kk), Agrees(a, kk, table),
           Covered(kk, table), NEW top, NEW ready, NEW r \in aeApiPoll(a, kk, table, top, ready)
    PROVE  BackEnd(r.k) /\ Agrees(a, r.k, table)
<1>1. CASE a # "evport"
  <2>1. r.k = kk
    BY <1>1 DEF aeApiPoll
  <2> QED
    BY <2>1
<1>2. CASE a = "evport"
  <2> DEFINE S == {Entry(fd, ready[fd] \cap kk.kern[fd]) : fd \in Reported(kk, ready)}
  <2>1. PICK report \in evport_Reports(kk, table, top, ready) : r.k = evport_Fired(kk, report)
    BY <1>2 DEF aeApiPoll
  <2>2. PICK n \in Nat \cup {Cardinality(S)} :
            /\ report \in [1..n -> S]
            /\ \A i, j \in 1..n : i # j => report[i] # report[j]
    BY <2>1 DEF evport_Reports, SetToSeqs
  <2>3. ASSUME NEW i \in 1..n
        PROVE  /\ report[i].fd \in Fds
               /\ report[i] = Entry(report[i].fd, ready[report[i].fd] \cap kk.kern[report[i].fd])
    <3>1. report[i] \in S
      BY <2>2
    <3>2. PICK fd \in Fds : report[i] = Entry(fd, ready[fd] \cap kk.kern[fd])
      BY <3>1 DEF Reported, BackEnd, Table
    <3>3. report[i].fd = fd
      BY <3>2 DEF Entry
    <3> QED
      BY <3>2, <3>3
  <2>4. \A i, j \in 1..n : report[i].fd = report[j].fd => i = j
    BY <2>2, <2>3
  <2>5. /\ DOMAIN r.k = {"kern", "pending"}
        /\ r.k.kern = [fd \in Fds |-> IF \E i \in 1..n : report[i].fd = fd THEN {}
                                      ELSE kk.kern[fd]]
        /\ r.k.pending = [i \in 1..n |-> Entry(report[i].fd, kk.kern[report[i].fd])]
    <3>1. DOMAIN kk.kern = Fds /\ DOMAIN report = 1..n
      BY <2>2 DEF BackEnd, Table
    <3>2. r.k = [kern |-> [fd \in Fds |-> IF \E i \in 1..n : report[i].fd = fd THEN {}
                                         ELSE kk.kern[fd]],
                 pending |-> [i \in 1..n |-> Entry(report[i].fd, kk.kern[report[i].fd])]]
      BY <2>1, <3>1 DEF evport_Fired
    <3> QED
      BY <3>2
  <2>6. r.k.kern \in Table
    BY <2>5 DEF BackEnd, Table
  <2>7. /\ DOMAIN r.k.pending = 1..n
        /\ \A i \in 1..n : /\ r.k.pending[i].fd = report[i].fd
                           /\ r.k.pending[i].mask = kk.kern[report[i].fd]
                           /\ r.k.pending[i] \in Entries
    <3>1. DOMAIN r.k.pending = 1..n
      BY <2>5
    <3>2. ASSUME NEW i \in 1..n
          PROVE  /\ r.k.pending[i].fd = report[i].fd
                 /\ r.k.pending[i].mask = kk.kern[report[i].fd]
                 /\ r.k.pending[i] \in Entries
      <4>1. report[i].fd \in Fds /\ kk.kern[report[i].fd] \in SUBSET Kinds
        BY <2>3 DEF BackEnd, Table
      <4>2. r.k.pending[i] = [fd |-> report[i].fd, mask |-> kk.kern[report[i].fd]]
        BY <2>5 DEF Entry
      <4> QED
        BY <4>1, <4>2 DEF Entries
    <3> QED
      BY <3>1, <3>2
  <2>8. BackEnd(r.k)
    BY <2>5, <2>6, <2>7 DEF BackEnd
  <2>9. OnePending(r.k)
    BY <2>4, <2>7 DEF OnePending
  <2>10. Restorable(r.k, table)
    BY SMTT(60), <2>3, <2>5, <2>7 DEF Restorable, Covered
  <2> QED
    BY <1>2, <2>8, <2>9, <2>10 DEF Agrees
<1> QED
  BY <1>1, <1>2

-----------------------------------------------------------------------------
(***************************************************************************)
(* The table of file events and the kernel.  FilesInv holds until aeMain   *)
(* returns and the back end is freed.                                      *)
(***************************************************************************)
FileTypes ==
    /\ "calls" \in DOMAIN load /\ "fds" \in DOMAIN load /\ load.fds \subseteq Fds
    /\ api \in Apis
    /\ mask \in Table
    /\ rproc \in [Fds -> Procs \cup {NoProc}] /\ wproc \in [Fds -> Procs \cup {NoProc}]
    /\ setsize \in 1..MaxSetsize /\ maxfd \in (-1)..(setsize - 1)

KernelInv ==
    /\ BackEnd(k)
    /\ where # "over" => Agrees(api, k, mask)
    /\ where = "asleep" => Covered(k, mask)

FilesInv == FileTypes /\ MaxfdExact /\ KernelInv

LEMMA FilesInit == Init => FilesInv
<1> SUFFICES ASSUME Init PROVE FilesInv
  OBVIOUS
<1>1. FileTypes
  BY EventLoopAssumption DEF Init, FileTypes, Table, Fds
<1>2. MaxfdExact
  BY DEF Init, MaxfdExact
<1>3. BackEnd(k)
  BY DEF Init, BackEnd, aeApiCreate, Table
<1>4. Agrees(api, k, mask)
  BY DEF Init, Agrees, aeApiCreate, Covered, OnePending, Restorable
<1> QED
  BY <1>1, <1>2, <1>3, <1>4 DEF FilesInv, KernelInv, Init

\* A set of natural numbers has a least element.
LEMMA LeastOf ==
    ASSUME NEW S, S \subseteq Nat, S # {}
    PROVE  \E x \in S : \A y \in S : x <= y
<1>1. \E Q : IsWellFoundedOn(Q, Nat) /\ \A x, y \in Nat : <<y, x>> \in Q <=> y < x
  <2>1. \A x, y \in Nat : <<y, x>> \in OpToRel(<, Nat) <=> y < x
    BY DEF OpToRel
  <2> WITNESS OpToRel(<, Nat)
  <2> QED
    BY <2>1, NatLessThanWellFounded, Zenon
<1>2. PICK Q : IsWellFoundedOn(Q, Nat) /\ \A x, y \in Nat : <<y, x>> \in Q <=> y < x
  BY <1>1
<1>3. PICK x \in S : \A y \in S : ~(<<y, x>> \in Q)
  BY <1>2, WFMin
<1>4. ASSUME NEW y \in S PROVE x <= y
  <2>1. ~(<<y, x>> \in Q) /\ x \in Nat /\ y \in Nat
    BY <1>3
  <2>2. ~(y < x)
    BY <1>2, <2>1, Zenon
  <2> QED
    BY <2>1, <2>2
<1> QED
  BY <1>4

\* The search for the highest descriptor that is left finds it.
LEMMA MaxBelowExact ==
    ASSUME NEW table, NEW fd \in Nat
    PROVE  LET b == MaxBelow(table, fd)
           IN  /\ b \in (-1)..(fd - 1)
               /\ b # -1 => table[b] # {}
               /\ \A j \in 0..(fd - 1) : j > b => table[j] = {}
<1> DEFINE up == {j \in 0..(fd - 1) : table[j] # {}}
           S == {fd - 1 - j : j \in up}
<1>1. CASE up = {}
  BY <1>1 DEF MaxBelow
<1>2. CASE up # {}
  <2>1. S \subseteq Nat /\ S # {}
    BY <1>2
  <2>2. PICK x \in S : \A y \in S : x <= y
    BY <2>1, LeastOf
  <2>3. \E j \in up : \A i \in up : i <= j
    <3>1. PICK j \in up : x = fd - 1 - j
      BY <2>2
    <3>2. ASSUME NEW i \in up PROVE i <= j
      <4>1. fd - 1 - i \in S
        OBVIOUS
      <4>2. fd - 1 - j <= fd - 1 - i
        BY <2>2, <3>1, <4>1
      <4> QED
        BY <4>2
    <3> QED
      BY <3>2
  <2>4. PICK b \in up : b = MaxBelow(table, fd) /\ \A i \in up : i <= b
    BY <1>2, <2>3 DEF MaxBelow
  <2> QED
    BY <2>4
<1> QED
  BY <1>1, <1>2

LEMMA FilesNext == ASSUME FilesInv, [Next]_vars PROVE FilesInv'
<1> USE EventLoopAssumption
<1>0. FileTypes /\ MaxfdExact /\ KernelInv
  BY DEF FilesInv
<1>1. ASSUME NEW fd \in load.fds, NEW m \in SUBSET Kinds, NEW proc \in Procs,
             aeCreateFileEvent(fd, m, proc), m # {}
      PROVE  FilesInv'
  <2>1. PICK r \in aeApiAddEvent(api, k, mask, fd, m) :
            /\ k' = r.k
            /\ mask' = IF r.ok THEN [mask EXCEPT ![fd] = @ \cup m] ELSE mask
            /\ rproc' = IF r.ok /\ R \in m THEN [rproc EXCEPT ![fd] = proc] ELSE rproc
            /\ wproc' = IF r.ok /\ W \in m THEN [wproc EXCEPT ![fd] = proc] ELSE wproc
            /\ maxfd' = IF r.ok /\ fd > maxfd THEN fd ELSE maxfd
    BY <1>1 DEF aeCreateFileEvent
  <2>2. /\ where = "client" /\ UNCHANGED <<where, api, setsize>>
        /\ load' = [load EXCEPT !.calls = @ - 1]
    BY <1>1 DEF aeCreateFileEvent, Calls
  <2>3. fd \in Fds /\ fd < setsize
    BY <1>0, <1>1 DEF FileTypes, aeCreateFileEvent
  <2>4. FileTypes'
    <3>1. mask' \in Table /\ maxfd' \in (-1)..(setsize - 1)
      BY <1>0, <2>1, <2>3 DEF FileTypes, Table, Fds
    <3>2. rproc' \in [Fds -> Procs \cup {NoProc}] /\ wproc' \in [Fds -> Procs \cup {NoProc}]
      BY <1>0, <2>1 DEF FileTypes
    <3> QED
      BY <1>0, <2>2, <3>1, <3>2 DEF FileTypes
  <2>5. MaxfdExact'
    BY <1>0, <1>1, <2>1, <2>3 DEF MaxfdExact, FileTypes, Table, Fds
  <2>6. KernelInv'
    BY <1>0, <2>1, <2>2, <2>3, AddKeeps DEF KernelInv, FileTypes
  <2> QED
    BY <2>4, <2>5, <2>6 DEF FilesInv
<1>2. ASSUME NEW fd \in load.fds, NEW m \in SUBSET Kinds, aeDeleteFileEvent(fd, m)
      PROVE  FilesInv'
  <2>1. /\ k' = aeApiDelEvent(api, k, mask, fd, m)
        /\ mask' = [mask EXCEPT ![fd] = @ \ m]
        /\ maxfd' = IF fd = maxfd /\ mask'[fd] = {} THEN MaxBelow(mask', fd) ELSE maxfd
        /\ where = "client" /\ UNCHANGED <<where, api, setsize, rproc, wproc>>
        /\ load' = [load EXCEPT !.calls = @ - 1]
    BY <1>2 DEF aeDeleteFileEvent, Calls
  <2>2. fd \in Fds
    BY <1>0 DEF FileTypes
  <2>3. FileTypes' /\ MaxfdExact'
    <3>1. mask' \in Table /\ \A f \in Fds : f # fd => mask'[f] = mask[f]
      BY <1>0, <2>1, <2>2 DEF FileTypes, Table
    <3>2. CASE fd = maxfd /\ mask'[fd] = {}
      <4>1. fd \in Nat /\ maxfd' = MaxBelow(mask', fd)
        BY <2>1, <2>2, <3>2 DEF Fds
      <4>2. /\ maxfd' \in (-1)..(fd - 1)
            /\ maxfd' # -1 => mask'[maxfd'] # {}
            /\ \A j \in 0..(fd - 1) : j > maxfd' => mask'[j] = {}
        BY <4>1, MaxBelowExact
      <4>3. \A f \in Fds : f > maxfd' => mask'[f] = {}
        <5> SUFFICES ASSUME NEW f \in Fds, f > maxfd' PROVE mask'[f] = {}
          OBVIOUS
        <5>1. CASE f < fd
          <6>1. f \in 0..(fd - 1)
            BY <4>1, <5>1 DEF Fds
          <6> QED
            BY <4>2, <6>1
        <5>2. CASE f = fd
          BY <3>2, <5>2
        <5>3. CASE f > fd
          BY <1>0, <3>1, <3>2, <5>3 DEF MaxfdExact
        <5>4. f \in Int /\ fd \in Int
          BY <4>1 DEF Fds
        <5> QED
          BY <5>1, <5>2, <5>3, <5>4
      <4>4. maxfd' \in (-1)..(setsize - 1)
        BY <1>0, <3>2, <4>1, <4>2 DEF FileTypes
      <4>5. MaxfdExact'
        BY <4>2, <4>3 DEF MaxfdExact
      <4> QED
        BY <1>0, <2>1, <3>1, <4>4, <4>5 DEF FileTypes
    <3>3. CASE ~(fd = maxfd /\ mask'[fd] = {})
      BY <1>0, <2>1, <2>2, <3>1, <3>3 DEF FileTypes, MaxfdExact, Table
    <3> QED
      BY <3>2, <3>3
  <2>4. KernelInv'
    BY <1>0, <2>1, <2>2, DeleteKeeps DEF KernelInv, FileTypes
  <2> QED
    BY <2>3, <2>4 DEF FilesInv
<1>3. ASSUME NEW fd \in load.fds, Reopen(fd) PROVE FilesInv'
  <2>1. /\ k' = Closed(api, k, fd) /\ mask[fd] = {}
        /\ where = "client" /\ UNCHANGED <<where, api, mask, rproc, wproc, maxfd, setsize>>
        /\ load' = [load EXCEPT !.calls = @ - 1]
    BY <1>3 DEF Reopen, Calls
  <2>2. FileTypes' /\ MaxfdExact' /\ fd \in Fds
    BY <1>0, <2>1 DEF FileTypes, MaxfdExact
  <2>3. KernelInv'
    BY <1>0, <2>1, <2>2, CloseKeeps DEF KernelInv, FileTypes
  <2> QED
    BY <2>2, <2>3 DEF FilesInv
<1>4. ASSUME NEW n \in 1..MaxSetsize, aeResizeSetSize(n) PROVE FilesInv'
  <2>1. /\ mask' = [fd \in Fds |-> IF fd \in (maxfd + 1)..(n - 1) THEN {} ELSE mask[fd]]
        /\ setsize' = n /\ maxfd < n
        /\ where = "client" /\ UNCHANGED <<where, api, rproc, wproc, maxfd, k>>
        /\ load' = [load EXCEPT !.calls = @ - 1]
    BY <1>4 DEF aeResizeSetSize, Calls
  <2>2. mask' = mask
    <3>1. \A fd \in Fds : fd \in (maxfd + 1)..(n - 1) => mask[fd] = {}
      BY <1>0 DEF MaxfdExact, FileTypes, Fds
    <3> QED
      BY <1>0, <2>1, <3>1 DEF FileTypes, Table
  <2>3. setsize' \in 1..MaxSetsize /\ maxfd' \in (-1)..(setsize' - 1)
    BY <1>0, <2>1 DEF FileTypes
  <2>4. FileTypes'
    BY <1>0, <2>1, <2>2, <2>3 DEF FileTypes
  <2> QED
    BY <1>0, <2>1, <2>2, <2>4 DEF FilesInv, MaxfdExact, KernelInv
<1>5. ASSUME UNCHANGED <<api, mask, rproc, wproc, maxfd, setsize, k>>, where' # "asleep" \/ where = "asleep",
             where = "over" => where' = "over",
             load' = load \/ load' = [load EXCEPT !.calls = @ - 1]
      PROVE  FilesInv'
  BY <1>0, <1>5 DEF FilesInv, FileTypes, MaxfdExact, KernelInv
<1>6. CASE \/ \E d \in load.delays : aeCreateTimeEvent(d)
           \/ \E id \in 1..(nextId - 1) : aeDeleteTimeEvent(id)
           \/ aeStop
  BY <1>5, <1>6 DEF aeCreateTimeEvent, aeDeleteTimeEvent, aeStop, Calls, files
<1>7. CASE Leave
  <2>1. /\ where' = "over" /\ k' = aeApiFree(k)
        /\ UNCHANGED <<api, load, mask, rproc, wproc, maxfd, setsize>>
    BY <1>7 DEF Leave
  <2>2. BackEnd(k')
    BY <1>0, <2>1 DEF KernelInv, BackEnd, aeApiFree, aeApiCreate, Table
  <2> QED
    BY <1>0, <2>1, <2>2 DEF FilesInv, FileTypes, MaxfdExact, KernelInv
<1>8. CASE Sleep
  <2>1. /\ k' = PollEntered(api, k) /\ where = "enter"
        /\ UNCHANGED <<api, load, mask, rproc, wproc, maxfd, setsize>>
    BY <1>8 DEF Sleep
  <2>2. KernelInv'
    BY <1>0, <2>1, EnterKeeps DEF KernelInv, FileTypes
  <2> QED
    BY <1>0, <2>1, <2>2 DEF FilesInv, FileTypes, MaxfdExact
<1>9. ASSUME NEW ready, WakeUp(ready) PROVE FilesInv'
  <2>1. PICK r \in aeApiPoll(api, k, mask, maxfd, ready) : k' = r.k
    BY <1>9 DEF WakeUp
  <2>2. where = "asleep" /\ where' = "dispatch"
        /\ UNCHANGED <<api, load, mask, rproc, wproc, maxfd, setsize>>
    BY <1>9 DEF WakeUp
  <2>3. KernelInv'
    BY <1>0, <2>1, <2>2, PollKeeps DEF KernelInv, FileTypes
  <2> QED
    BY <1>0, <2>2, <2>3 DEF FilesInv, FileTypes, MaxfdExact
<1>10. CASE aeMain \/ TimedOut \/ Dispatch \/ TimersBegin \/ PassOver
  BY <1>5, <1>10 DEF aeMain, TimedOut, Dispatch, TimersBegin, PassOver, files
<1>11. CASE TimerRemoved \/ TimerPassed \/ TimerRuns
  BY <1>5, <1>11 DEF TimerRemoved, TimerPassed, TimerRuns, files
<1>12. CASE FileReturn \/ \E r \in (load.delays \ {0}) \cup {AE_NOMORE} : TimerReturn(r)
  BY <1>5, <1>12 DEF FileReturn, TimerReturn, files
<1>13. CASE Tick \/ \E step \in load.skews : SetClock(step)
  BY <1>5, <1>13 DEF Tick, SetClock, files
<1>14. CASE UNCHANGED vars
  BY <1>5, <1>14 DEF vars, files
<1> QED
  BY <1>1, <1>2, <1>3, <1>4, <1>6, <1>7, <1>8, <1>9, <1>10, <1>11, <1>12, <1>13, <1>14
  DEF Next, Client, Loop

\* maxfd is the highest registered descriptor, after any sequence of calls.
THEOREM MaxfdIsExact == Spec => []MaxfdExact
<1>1. FilesInv => MaxfdExact
  BY DEF FilesInv
<1> QED
  BY <1>1, FilesInit, FilesNext, PTL DEF Spec

\* While the loop sleeps, the kernel watches for every event of the table, with
\* each of the four back ends, and for no other with epoll and select.
THEOREM InterestReachesKernel == Spec => []InterestInKernel
<1>1. FilesInv => InterestInKernel
  BY DEF FilesInv, FileTypes, KernelInv, Agrees, Covered, InterestInKernel
<1> QED
  BY <1>1, FilesInit, FilesNext, PTL DEF Spec

-----------------------------------------------------------------------------
(***************************************************************************)
(* The reports of a poll and the callbacks for them.  But for kqueue, a    *)
(* descriptor has one entry of a report, so an entry that was not looked   *)
(* at yet is of the present use of its descriptor: only the callback for   *)
(* that entry could have closed it.                                        *)
(***************************************************************************)
Distinct(s) == \A i, j \in DOMAIN s : s[i].fd = s[j].fd => i = j

LEMMA SeqsDistinct ==
    ASSUME NEW S, \A x \in S : x.fd \in Fds, \A x, y \in S : x.fd = y.fd => x = y,
           NEW s \in SetToSeqs(S)
    PROVE  s \in Seq(S) /\ Distinct(s)
<1> DEFINE f == [x \in S |-> x.fd]
<1>1. f \in Injection(S, Fds)
  BY DEF Injection, IsInjective
<1>2. IsFiniteSet(Fds)
  BY FS_Interval, EventLoopAssumption DEF Fds
<1>3. Cardinality(S) \in Nat
  BY <1>1, <1>2, FS_Injection, FS_CardinalityType
<1>4. s \in [1..Cardinality(S) -> S] /\ \A i, j \in 1..Cardinality(S) : i # j => s[i] # s[j]
  BY DEF SetToSeqs
<1> QED
  BY <1>3, <1>4 DEF Distinct

\* Entries that are made for some descriptors, each with a mask of its own.
Report == [fd : Fds, mask : SUBSET Kinds]
EntriesOf(F, m) == {Entry(fd, m[fd]) : fd \in F}

LEMMA EntriesDistinct ==
    ASSUME NEW F, F \subseteq Fds, NEW m \in [F -> SUBSET Kinds],
           NEW s \in SetToSeqs(EntriesOf(F, m))
    PROVE  s \in Seq(Report) /\ Distinct(s)
<1> DEFINE S == EntriesOf(F, m)
<1>1. ASSUME NEW x \in S
      PROVE  x \in Report /\ x.fd \in F /\ x = Entry(x.fd, m[x.fd])
  <2>1. PICK fd \in F : x = Entry(fd, m[fd])
    BY DEF EntriesOf
  <2>2. m[fd] \in SUBSET Kinds /\ fd \in Fds
    OBVIOUS
  <2> QED
    BY <2>1, <2>2 DEF Entry, Report
<1> HIDE DEF S
<1>2. s \in Seq(S) /\ Distinct(s)
  <2>1. \A x \in S : x.fd \in Fds
    BY <1>1
  <2>2. \A x, y \in S : x.fd = y.fd => x = y
    BY <1>1
  <2> QED
    BY <2>1, <2>2, SeqsDistinct DEF S
<1>3. S \subseteq Report
  BY <1>1
<1> QED
  BY <1>2, <1>3, SeqMonotonic

LEMMA PollDistinct ==
    ASSUME NEW a \in Apis, a # "kqueue", NEW kk, BackEnd(kk), NEW table,
           NEW top \in (-1)..(MaxSetsize - 1),
           NEW ready, NEW r \in aeApiPoll(a, kk, table, top, ready)
    PROVE  r.fired \in Seq(Report) /\ Distinct(r.fired)
<1>0. kk.kern \in Table /\ DOMAIN kk.kern = Fds /\ Reported(kk, ready) \subseteq Fds
  BY DEF BackEnd, Table, Reported
<1>1. CASE a = "epoll"
  <2>1. r.fired \in epoll_Reports(kk, table, top, ready)
    BY <1>1 DEF aeApiPoll
  <2>2. PICK hangup \in SUBSET Reported(kk, ready) :
           r.fired \in SetToSeqs({Entry(fd, IF fd \in hangup THEN (ready[fd] \cap kk.kern[fd]) \cup {W}
                                            ELSE ready[fd] \cap kk.kern[fd]) : fd \in Reported(kk, ready)})
    BY <2>1 DEF epoll_Reports
  <2> DEFINE m == [fd \in Reported(kk, ready) |->
                      IF fd \in hangup THEN (ready[fd] \cap kk.kern[fd]) \cup {W}
                      ELSE ready[fd] \cap kk.kern[fd]]
  <2>3. m \in [Reported(kk, ready) -> SUBSET Kinds]
    BY <1>0 DEF Table, Kinds
  <2>4. r.fired \in SetToSeqs(EntriesOf(Reported(kk, ready), m))
    BY <2>2 DEF EntriesOf
  <2> HIDE DEF m
  <2> QED
    BY <1>0, <2>3, <2>4, EntriesDistinct
<1>2. CASE a = "select"
  <2> DEFINE F == {j \in 0..top : table[j] # {}}
             m == [fd \in F |-> table[fd] \cap kk.kern[fd] \cap ready[fd]]
  <2>1. r.fired \in select_Reports(kk, table, top, ready)
    BY <1>2 DEF aeApiPoll
  <2>2. r.fired = << >> \/ r.fired \in SetToSeqs(EntriesOf(F, m))
    <3>1. EntriesOf(F, m) = {Entry(fd, table[fd] \cap kk.kern[fd] \cap ready[fd]) : fd \in F}
      BY DEF EntriesOf
    <3> QED
      BY <2>1, <3>1 DEF select_Reports
  <2>3. F \subseteq Fds
    BY EventLoopAssumption DEF Fds
  <2>4. m \in [F -> SUBSET Kinds]
    BY <1>0, <2>3 DEF Table
  <2>5. CASE r.fired = << >>
    BY <2>5, EmptySeq DEF Distinct
  <2>6. CASE r.fired \in SetToSeqs(EntriesOf(F, m))
    <3> HIDE DEF F, m
    <3> QED
      BY <2>3, <2>4, <2>6, EntriesDistinct
  <2> QED
    BY <2>2, <2>5, <2>6
<1>3. CASE a = "evport"
  <2> DEFINE m == [fd \in Reported(kk, ready) |-> ready[fd] \cap kk.kern[fd]]
  <2>1. r.fired \in evport_Reports(kk, table, top, ready)
    BY <1>3 DEF aeApiPoll
  <2>2. r.fired \in SetToSeqs(EntriesOf(Reported(kk, ready), m))
    BY <2>1 DEF evport_Reports, EntriesOf
  <2>3. m \in [Reported(kk, ready) -> SUBSET Kinds]
    BY <1>0 DEF Table
  <2> HIDE DEF m
  <2> QED
    BY <1>0, <2>2, <2>3, EntriesDistinct
<1> QED
  BY <1>1, <1>2, <1>3 DEF Apis

FiredEntry == [fd : Fds, mask : SUBSET Kinds, gen : Nat]
InCallback == where = "client" /\ back = "dispatch"
LookedAt(i) == i = 1 /\ half = W /\ rfired

\* Entry 1 may be of an earlier use once the client was called for its first
\* half; the descriptor of a callback has no other entry left.
Reports ==
    /\ gen \in [Fds -> Nat]
    /\ fired \in Seq(FiredEntry) /\ Distinct(fired)
    /\ where = "dispatch" \/ InCallback \/ fired = << >>
    /\ IF InCallback THEN called \in Fds ELSE called = NoFd
    /\ own
    /\ \A i \in 1..Len(fired) : /\ fired[i].gen = gen[fired[i].fd] \/ LookedAt(i)
                                /\ InCallback /\ fired[i].fd = called => LookedAt(i)

ReportsInv == api # "kqueue" => Reports

LEMMA ReportsInit == Init => ReportsInv
<1> SUFFICES ASSUME Init PROVE ReportsInv
  OBVIOUS
<1>1. gen \in [Fds -> Nat] /\ fired = << >> /\ called = NoFd /\ own /\ ~InCallback
  BY DEF Init, InCallback
<1>2. fired \in Seq(FiredEntry) /\ Len(fired) = 0 /\ Distinct(fired)
  BY <1>1, EmptySeq DEF Distinct
<1> QED
  BY <1>1, <1>2 DEF ReportsInv, Reports

LEMMA ReportsNext == ASSUME FilesInv, ReportsInv, [Next]_vars PROVE ReportsInv'
<1> USE EventLoopAssumption
<1>a. api' = api
  BY DEF Next, Client, Loop, aeCreateFileEvent, aeDeleteFileEvent, Reopen, aeResizeSetSize,
         aeCreateTimeEvent, aeDeleteTimeEvent, aeStop, Calls, aeMain, Leave, Sleep, TimedOut,
         Dispatch, TimersBegin, TimerRemoved, TimerPassed, TimerRuns, PassOver, FileReturn,
         TimerReturn, WakeUp, Tick, SetClock, vars
<1> SUFFICES ASSUME api # "kqueue" PROVE Reports'
  BY <1>a DEF ReportsInv
<1>0. /\ gen \in [Fds -> Nat] /\ fired \in Seq(FiredEntry) /\ Distinct(fired)
      /\ Len(fired) \in Nat /\ DOMAIN fired = 1..Len(fired)
      /\ \A i \in 1..Len(fired) : fired[i] \in FiredEntry
      /\ where = "dispatch" \/ InCallback \/ fired = << >>
      /\ IF InCallback THEN called \in Fds ELSE called = NoFd
      /\ own
      /\ \A i \in 1..Len(fired) : /\ fired[i].gen = gen[fired[i].fd] \/ LookedAt(i)
                                  /\ InCallback /\ fired[i].fd = called => LookedAt(i)
  BY LenProperties, ElementOfSeq DEF ReportsInv, Reports
\* Most steps leave the reports alone, or there are none before and after them.
<1>1. ASSUME UNCHANGED <<gen, dispatch, where, back>> PROVE Reports'
  BY <1>0, <1>1 DEF Reports, dispatch, InCallback, LookedAt
<1>2. ASSUME fired' = << >>, gen' = gen, called' = NoFd, own', where' = "client" => back' # "dispatch"
      PROVE  Reports'
  <2>1. ~InCallback'
    BY <1>2 DEF InCallback
  <2>2. fired' \in Seq(FiredEntry) /\ Len(fired') = 0 /\ Distinct(fired')
    BY <1>2, EmptySeq DEF Distinct
  <2> QED
    BY <1>0, <1>2, <2>1, <2>2 DEF Reports
<1>3. CASE \/ \E fd \in load.fds, m \in (SUBSET Kinds) \ {{}}, p \in Procs : aeCreateFileEvent(fd, m, p)
           \/ \E fd \in load.fds, m \in (SUBSET Kinds) \ {{}} : aeDeleteFileEvent(fd, m)
           \/ \E n \in 1..MaxSetsize : aeResizeSetSize(n)
           \/ \E d \in load.delays : aeCreateTimeEvent(d)
           \/ \E id \in 1..(nextId - 1) : aeDeleteTimeEvent(id)
           \/ aeStop
  BY <1>1, <1>3 DEF aeCreateFileEvent, aeDeleteFileEvent, aeResizeSetSize, aeCreateTimeEvent,
                    aeDeleteTimeEvent, aeStop, Calls, files
<1>4. ASSUME NEW fd \in load.fds, Reopen(fd) PROVE Reports'
  <2>1. /\ where = "client" /\ UNCHANGED <<where, back, dispatch>>
        /\ called \in {fd, NoFd} /\ gen' = [gen EXCEPT ![fd] = @ + 1]
    BY <1>4 DEF Reopen, Calls
  <2>2. fd \in Fds
    BY <1>4 DEF FilesInv, FileTypes
  <2>3. gen' \in [Fds -> Nat] /\ \A f \in Fds : f # fd => gen'[f] = gen[f]
    BY <1>0, <2>1, <2>2
  <2>4. ASSUME NEW i \in 1..Len(fired) PROVE fired[i].gen = gen'[fired[i].fd] \/ LookedAt(i)
    <3>1. fired[i].fd \in Fds /\ NoFd \notin Fds
      BY SMTT(60), <1>0 DEF FiredEntry, Fds, NoFd
    <3>2. InCallback
      BY <1>0, <2>1, <2>4, EmptySeq
    <3>3. called = fd
      BY <1>0, <2>1, <3>1, <3>2
    <3> QED
      BY <1>0, <2>3, <3>1, <3>2, <3>3
  <2> QED
    BY <1>0, <2>1, <2>3, <2>4 DEF Reports, dispatch, InCallback, LookedAt
<1>5. ASSUME NEW ready, WakeUp(ready) PROVE Reports'
  <2>1. PICK r \in aeApiPoll(api, k, mask, maxfd, ready) :
            fired' = [i \in DOMAIN r.fired |-> [fd |-> r.fired[i].fd, mask |-> r.fired[i].mask,
                                                gen |-> gen[r.fired[i].fd]]]
    BY <1>5 DEF WakeUp
  <2>2. where = "asleep" /\ where' = "dispatch" /\ UNCHANGED <<gen, called, own>>
    BY <1>5 DEF WakeUp
  <2>3. maxfd \in (-1)..(MaxSetsize - 1) /\ api \in Apis /\ BackEnd(k)
    BY DEF FilesInv, FileTypes, KernelInv
  <2>4. r.fired \in Seq(Report) /\ Distinct(r.fired)
    BY <2>3, PollDistinct
  <2>5. /\ DOMAIN r.fired = 1..Len(r.fired) /\ Len(r.fired) \in Nat
        /\ \A i \in 1..Len(r.fired) : r.fired[i] \in Report
    BY <2>4, LenProperties, ElementOfSeq
  <2>6. ASSUME NEW i \in 1..Len(r.fired)
        PROVE  /\ fired'[i] \in FiredEntry /\ fired'[i].fd = r.fired[i].fd
               /\ fired'[i].gen = gen[r.fired[i].fd]
    BY <1>0, <2>1, <2>5 DEF FiredEntry, Report
  <2>7. /\ fired' \in Seq(FiredEntry) /\ Len(fired') = Len(r.fired)
        /\ DOMAIN fired' = 1..Len(r.fired)
    <3> DEFINE n == Len(r.fired)
    <3>1. DOMAIN fired' = 1..n /\ n \in Nat
      BY <2>1, <2>5
    <3>2. fired' \in [1..n -> FiredEntry]
      BY <2>1, <2>5, <2>6, <3>1
    <3> HIDE DEF n
    <3>3. fired' \in Seq(FiredEntry) /\ Len(fired') = n
      BY <3>1, <3>2
    <3> QED
      BY <3>1, <3>3 DEF n
  <2>8. Distinct(fired')
    BY <2>4, <2>5, <2>6, <2>7 DEF Distinct
  <2>9. called' = NoFd /\ ~InCallback'
    BY <1>0, <2>2 DEF InCallback
  <2> QED
    BY <1>0, <2>2, <2>6, <2>7, <2>8, <2>9 DEF Reports
<1>6. CASE Dispatch
  <2> DEFINE e == Head(fired)
             calls == CallsBack(e)
  <2>1. /\ where = "dispatch" /\ fired # << >>
        /\ half' = IF half = R THEN W ELSE R
        /\ rfired' = (half = R /\ StillRegistered(e))
        /\ fired' = IF half = R THEN fired ELSE Tail(fired)
        /\ called' = IF calls THEN e.fd ELSE NoFd
        /\ own' = (calls => e.gen = gen[e.fd] \/ rproc[e.fd] # wproc[e.fd])
        /\ where' = IF calls THEN "client" ELSE where
        /\ back' = IF calls THEN "dispatch" ELSE back
        /\ gen' = gen
    BY <1>6 DEF Dispatch, files
  <2>2. /\ 1 \in 1..Len(fired) /\ e = fired[1] /\ e \in FiredEntry /\ e.fd \in Fds
        /\ Tail(fired) \in Seq(FiredEntry) /\ Len(Tail(fired)) = Len(fired) - 1
        /\ \A i \in 1..Len(Tail(fired)) : Tail(fired)[i] = fired[i + 1]
    BY <1>0, <2>1, HeadTailProperties, EmptySeq DEF FiredEntry
  <2>3. own'
    <3>1. e.gen = gen[e.fd] \/ (half = W /\ rfired)
      BY <1>0, <2>2 DEF LookedAt
    <3>2. calls /\ half = W /\ rfired => wproc[e.fd] # rproc[e.fd]
      BY DEF CallsBack
    <3> QED
      BY <2>1, <3>1, <3>2
  <2>4. IF InCallback' THEN called' \in Fds /\ called' = e.fd /\ calls ELSE called' = NoFd
    BY <2>1, <2>2 DEF InCallback
  <2>5. where' = "dispatch" \/ InCallback'
    BY <2>1 DEF InCallback
  <2> HIDE DEF calls, e
  <2>6. CASE half = R
    <3>1. fired' = fired /\ half' = W /\ (calls => rfired')
      BY <2>1, <2>6 DEF CallsBack, calls
    <3>2. \A i \in 1..Len(fired) : fired[i].gen = gen[fired[i].fd]
      BY <1>0, <2>6 DEF LookedAt, R, W
    <3>3. \A i \in 1..Len(fired) : fired[i].fd = e.fd => i = 1
      BY <1>0, <2>2 DEF Distinct
    <3> QED
      BY <1>0, <2>1, <2>3, <2>4, <2>5, <3>1, <3>2, <3>3 DEF Reports, LookedAt
  <2>7. CASE half # R
    <3>1. fired' = Tail(fired)
      BY <2>1, <2>7
    <3>2. ASSUME NEW i \in 1..Len(fired')
          PROVE  /\ fired'[i] = fired[i + 1] /\ i + 1 \in 1..Len(fired)
                 /\ fired'[i].gen = gen[fired'[i].fd] /\ fired'[i].fd # e.fd
      <4>1. fired'[i] = fired[i + 1] /\ i + 1 \in 1..Len(fired) /\ i + 1 # 1
        BY <1>0, <2>2, <3>1
      <4>2. fired[i + 1].gen = gen[fired[i + 1].fd]
        BY <1>0, <4>1 DEF LookedAt
      <4>3. fired[i + 1].fd # fired[1].fd
        BY <1>0, <2>2, <4>1 DEF Distinct
      <4> QED
        BY <2>2, <4>1, <4>2, <4>3
    <3>3. Distinct(fired')
      <4>1. DOMAIN fired' = 1..Len(fired')
        BY <2>2, <3>1, LenProperties
      <4>2. ASSUME NEW i \in 1..Len(fired'), NEW j \in 1..Len(fired'), fired'[i].fd = fired'[j].fd
            PROVE  i = j
        <5>1. fired[i + 1].fd = fired[j + 1].fd /\ i + 1 \in 1..Len(fired) /\ j + 1 \in 1..Len(fired)
          BY <3>2, <4>2
        <5>2. i + 1 = j + 1
          BY <1>0, <5>1 DEF Distinct
        <5> QED
          BY <5>2
      <4> QED
        BY <4>1, <4>2 DEF Distinct
    <3> QED
      BY <1>0, <2>1, <2>2, <2>3, <2>4, <2>5, <3>1, <3>2, <3>3 DEF Reports
  <2> QED
    BY <2>6, <2>7
<1>7. CASE FileReturn
  <2>1. /\ InCallback /\ where' = "dispatch" /\ called' = NoFd /\ own'
        /\ UNCHANGED <<gen, fired, half, rfired>>
    BY <1>7 DEF FileReturn, files, InCallback
  <2> QED
    BY <1>0, <2>1 DEF Reports, InCallback, LookedAt
<1>8. CASE Tick \/ \E step \in load.skews : SetClock(step)
  BY <1>1, <1>8 DEF Tick, SetClock, files
<1>9. CASE UNCHANGED vars
  BY <1>1, <1>9 DEF vars, files
<1>10. CASE aeMain \/ Leave \/ Sleep \/ TimedOut
  <2>1. fired = << >> /\ called = NoFd
    BY <1>0, <1>10 DEF aeMain, Leave, Sleep, TimedOut, InCallback
  <2> QED
    BY <1>0, <1>2, <1>10, <2>1 DEF aeMain, Leave, Sleep, TimedOut, files, dispatch
<1>11. CASE TimersBegin \/ TimerRemoved \/ TimerPassed \/ PassOver
  <2>1. fired = << >> /\ called = NoFd
    BY <1>0, <1>11 DEF TimersBegin, TimerRemoved, TimerPassed, PassOver, InCallback
  <2> QED
    BY <1>0, <1>2, <1>11, <2>1 DEF TimersBegin, TimerRemoved, TimerPassed, PassOver, files, dispatch
<1>12. CASE TimerRuns
  <2>1. fired = << >> /\ called = NoFd
    BY <1>0, <1>12 DEF TimerRuns, InCallback
  <2> QED
    BY <1>0, <1>2, <1>12, <2>1 DEF TimerRuns, files, dispatch
<1>13. ASSUME NEW v, TimerReturn(v) PROVE Reports'
  <2>1. fired = << >> /\ called = NoFd
    BY <1>0, <1>13 DEF TimerReturn, InCallback
  <2> QED
    BY <1>0, <1>2, <1>13, <2>1 DEF TimerReturn, files, dispatch
<1> QED
  BY <1>3, <1>4, <1>5, <1>6, <1>7, <1>8, <1>9, <1>10, <1>11, <1>12, <1>13 DEF Next, Client, Loop

\* No callback is called for an event that was reported for an earlier use of
\* its descriptor's number, unless the new use has two handlers.
THEOREM CallbacksOwnTheirEvents == Spec => []EventsAreOwn
<1>1. FilesInv /\ ReportsInv => EventsAreOwn
  BY DEF ReportsInv, Reports, EventsAreOwn
<1> QED
  BY <1>1, FilesInit, FilesNext, ReportsInit, ReportsNext, PTL DEF Spec

-----------------------------------------------------------------------------
(***************************************************************************)
(* The list of time events.  Its keys fall from the head to the end, since *)
(* new events go to the head with a new id, so a key is in one place.  A   *)
(* pass has prev right before te, or te at the head: events created by     *)
(* callbacks of the pass are in front of both.                             *)
(***************************************************************************)
Timer == [key : Nat, id : Int, sec : Int, ms : Int, delay : Int, due : Int]

TimerList(s, n) ==
    /\ s \in Seq(Timer)
    /\ \A i \in 1..Len(s) : /\ 0 < s[i].key /\ s[i].key < n
                            /\ s[i].id \in {s[i].key, AE_DELETED_EVENT_ID}
    /\ \A i, j \in 1..Len(s) : i < j => s[j].key < s[i].key

Place(s, key) == CHOOSE i \in {j \in DOMAIN s : s[j].key = key} : TRUE
Has(s, key) == \E i \in 1..Len(s) : s[i].key = key
Ids(s) == {s[i].id : i \in DOMAIN s} \ {AE_DELETED_EVENT_ID}

TimeTypes ==
    /\ {"calls", "delays", "skews"} \subseteq DOMAIN load
    /\ load.delays \subseteq Nat /\ load.skews \subseteq Int
    /\ real \in Int /\ clock \in Int

Walk(s) ==
    /\ te \in Nat /\ prev \in Nat /\ maxId \in Int
    /\ where = "client" /\ back = "timers" => te # 0
    /\ where = "timers" \/ (where = "client" /\ back = "timers") =>
          (te # 0 => Has(s, te) /\ te <= maxId)
    /\ where = "timers" /\ te # 0 =>
          IF prev = 0 THEN Place(s, te) = 1
          ELSE Has(s, prev) /\ Place(s, te) = Place(s, prev) + 1

TimersInv ==
    /\ TimeTypes
    /\ nextId \in Nat \ {0}
    /\ TimerList(timers, nextId)
    /\ live = Ids(timers)
    /\ Walk(timers)

\* What is in a list.
LEMMA InTimerList ==
    ASSUME NEW n, NEW s, TimerList(s, n), NEW i \in 1..Len(s)
    PROVE  /\ s[i] \in Timer /\ s[i].key \in Nat
           /\ 0 < s[i].key /\ s[i].key < n /\ s[i].id \in {s[i].key, AE_DELETED_EVENT_ID}
<1>1. s \in Seq(Timer)
  BY DEF TimerList
<1>2. s[i] \in Timer
  BY <1>1, ElementOfSeq
<1> QED
  BY <1>2 DEF TimerList, Timer

\* A key is in one place.
LEMMA PlaceIs ==
    ASSUME NEW n \in Nat, NEW s, TimerList(s, n), NEW i \in 1..Len(s)
    PROVE  Place(s, s[i].key) = i
<1>1. DOMAIN s = 1..Len(s)
  BY DEF TimerList
<1>2. \A j \in 1..Len(s) : s[j].key = s[i].key => j = i
  <2> SUFFICES ASSUME NEW j \in 1..Len(s), s[j].key = s[i].key, j # i PROVE FALSE
    OBVIOUS
  <2>1. s[i].key \in Nat /\ s[j].key \in Nat
    BY InTimerList
  <2>2. j < i \/ i < j
    OBVIOUS
  <2> QED
    BY <2>1, <2>2 DEF TimerList
<1>3. {j \in DOMAIN s : s[j].key = s[i].key} = {i}
  BY <1>1, <1>2
<1> QED
  BY <1>3 DEF Place

LEMMA PlaceOf ==
    ASSUME NEW n \in Nat, NEW s, TimerList(s, n), NEW key, Has(s, key)
    PROVE  Place(s, key) \in 1..Len(s) /\ s[Place(s, key)].key = key
BY PlaceIs DEF Has

\* An event at the head.
LEMMA Pushed ==
    ASSUME NEW n \in Nat \ {0}, NEW s, TimerList(s, n), NEW t \in Timer, t.key = n, t.id = n
    PROVE  /\ TimerList(<<t>> \o s, n + 1)
           /\ Ids(<<t>> \o s) = Ids(s) \cup {n}
           /\ \A key : Has(s, key) => Has(<<t>> \o s, key)
<1> DEFINE r == <<t>> \o s
<1>1. /\ r \in Seq(Timer) /\ Len(r) = Len(s) + 1 /\ Len(s) \in Nat
      /\ r[1] = t
      /\ \A i \in 1..Len(s) : r[i + 1] = s[i]
      /\ DOMAIN s = 1..Len(s) /\ DOMAIN r = 1..Len(r)
  BY ConcatProperties, LenProperties DEF TimerList
<1> HIDE DEF r
<1>2. \A i \in 1..Len(r) : i = 1 \/ (i - 1 \in 1..Len(s) /\ r[i] = s[i - 1])
  <2> SUFFICES ASSUME NEW i \in 1..Len(r), i # 1 PROVE i - 1 \in 1..Len(s) /\ r[i] = s[i - 1]
    OBVIOUS
  <2>1. i - 1 \in 1..Len(s) /\ (i - 1) + 1 = i
    BY <1>1
  <2> QED
    BY <1>1, <2>1
<1>3. TimerList(r, n + 1)
  <2>1. \A i \in 1..Len(s) : s[i].key \in Nat /\ 0 < s[i].key /\ s[i].key < n
                             /\ s[i].id \in {s[i].key, AE_DELETED_EVENT_ID}
    BY InTimerList
  <2>2. \A i \in 1..Len(r) : /\ 0 < r[i].key /\ r[i].key < n + 1
                             /\ r[i].id \in {r[i].key, AE_DELETED_EVENT_ID}
    <3> SUFFICES ASSUME NEW i \in 1..Len(r)
                 PROVE  /\ 0 < r[i].key /\ r[i].key < n + 1
                        /\ r[i].id \in {r[i].key, AE_DELETED_EVENT_ID}
      OBVIOUS
    <3>1. CASE i = 1
      BY <1>1, <3>1
    <3>2. CASE i # 1
      <4>1. i - 1 \in 1..Len(s) /\ r[i] = s[i - 1]
        BY <1>2, <3>2
      <4> QED
        BY <2>1, <4>1
    <3> QED
      BY <3>1, <3>2
  <2>3. \A i, j \in 1..Len(r) : i < j => r[j].key < r[i].key
    <3> SUFFICES ASSUME NEW i \in 1..Len(r), NEW j \in 1..Len(r), i < j
                 PROVE  r[j].key < r[i].key
      OBVIOUS
    <3>1. j - 1 \in 1..Len(s) /\ r[j] = s[j - 1]
      BY <1>2
    <3>2. CASE i = 1
      BY <1>1, <2>1, <3>1, <3>2
    <3>3. CASE i # 1
      <4>1. i - 1 \in 1..Len(s) /\ r[i] = s[i - 1] /\ i - 1 < j - 1
        BY <1>2, <3>3
      <4> QED
        BY <3>1, <4>1 DEF TimerList
    <3> QED
      BY <3>2, <3>3
  <2> QED
    BY <1>1, <2>2, <2>3 DEF TimerList
<1>4. Ids(r) = Ids(s) \cup {n}
  <2>1. {r[i].id : i \in DOMAIN r} = {s[i].id : i \in DOMAIN s} \cup {n}
    <3>1. \A i \in DOMAIN s : i + 1 \in DOMAIN r /\ r[i + 1] = s[i]
      BY <1>1
    <3>2. 1 \in DOMAIN r /\ r[1].id = n
      BY <1>1
    <3>3. \A i \in DOMAIN r : r[i].id = n \/ \E j \in DOMAIN s : r[i].id = s[j].id
      BY <1>1, <1>2
    <3> QED
      BY <3>1, <3>2, <3>3
  <2>2. n # AE_DELETED_EVENT_ID
    BY DEF AE_DELETED_EVENT_ID
  <2> QED
    BY <2>1, <2>2 DEF Ids
<1>5. \A key : Has(s, key) => Has(r, key)
  <2>1. \A i \in 1..Len(s) : i + 1 \in 1..Len(r) /\ r[i + 1] = s[i]
    BY <1>1
  <2> QED
    BY <2>1 DEF Has
<1> QED
  BY <1>3, <1>4, <1>5 DEF r

\* Events are changed in their place.
Alike(s, r) == Len(r) = Len(s) /\ \A i \in 1..Len(s) : r[i].key = s[i].key

LEMMA Changed ==
    ASSUME NEW n \in Nat, NEW s, TimerList(s, n), NEW r \in Seq(Timer), Alike(s, r),
           \A i \in 1..Len(r) : r[i].id \in {r[i].key, AE_DELETED_EVENT_ID}
    PROVE  /\ TimerList(r, n)
           /\ \A key : Place(r, key) = Place(s, key) /\ (Has(r, key) <=> Has(s, key))
<1>1. DOMAIN s = 1..Len(s) /\ DOMAIN r = 1..Len(s) /\ Len(r) = Len(s)
  BY DEF TimerList, Alike
<1>2. TimerList(r, n)
  <2>1. \A i \in 1..Len(r) : 0 < r[i].key /\ r[i].key < n
    BY <1>1, InTimerList DEF Alike
  <2>2. \A i, j \in 1..Len(r) : i < j => r[j].key < r[i].key
    BY <1>1 DEF Alike, TimerList
  <2> QED
    BY <2>1, <2>2 DEF TimerList
<1>3. ASSUME NEW key PROVE Place(r, key) = Place(s, key) /\ (Has(r, key) <=> Has(s, key))
  <2>1. {j \in DOMAIN r : r[j].key = key} = {j \in DOMAIN s : s[j].key = key}
    BY <1>1 DEF Alike
  <2> QED
    BY <1>1, <2>1 DEF Place, Has, Alike
<1> QED
  BY <1>2, <1>3

\* The event at place p is unlinked.
Removed(s, r, p) ==
    /\ Len(r) = Len(s) - 1
    /\ \A i \in 1..(Len(s) - 1) : r[i] = IF i < p THEN s[i] ELSE s[i + 1]

LEMMA PointedPast ==
    ASSUME NEW s \in Seq(Timer), NEW p \in 1..Len(s)
    PROVE  /\ SubSeq(s, 1, p - 1) \o SubSeq(s, p + 1, Len(s)) \in Seq(Timer)
           /\ Removed(s, SubSeq(s, 1, p - 1) \o SubSeq(s, p + 1, Len(s)), p)
<1> DEFINE a == SubSeq(s, 1, p - 1)
           b == SubSeq(s, p + 1, Len(s))
           r == a \o b
<1>1. Len(s) \in Nat /\ p \in Nat /\ 1 <= p /\ p <= Len(s)
  BY LenProperties
<1>2. \A i \in 1..Len(s) : s[i] \in Timer
  BY ElementOfSeq
<1>3. a \in Seq(Timer) /\ Len(a) = p - 1 /\ \A i \in 1..(p - 1) : a[i] = s[i]
  <2>1. \A i \in 1..(p - 1) : s[i] \in Timer
    BY <1>1, <1>2
  <2>2. /\ a \in Seq(Timer)
        /\ Len(a) = IF 1 <= p - 1 THEN (p - 1) - 1 + 1 ELSE 0
        /\ \A i \in 1..((p - 1) - 1 + 1) : a[i] = s[1 + i - 1]
    <3>1. p - 1 \in Int
      BY <1>1
    <3> HIDE DEF a
    <3> QED
      BY <2>1, <3>1, SubSeqProperties DEF a
  <2> HIDE DEF a
  <2> QED
    BY <1>1, <2>2
<1>4. b \in Seq(Timer) /\ Len(b) = Len(s) - p /\ \A i \in 1..(Len(s) - p) : b[i] = s[p + i]
  <2>1. \A i \in (p + 1)..Len(s) : s[i] \in Timer
    BY <1>1, <1>2
  <2>2. /\ b \in Seq(Timer)
        /\ Len(b) = IF p + 1 <= Len(s) THEN Len(s) - (p + 1) + 1 ELSE 0
        /\ \A i \in 1..(Len(s) - (p + 1) + 1) : b[i] = s[(p + 1) + i - 1]
    <3>1. p + 1 \in Int /\ Len(s) \in Int
      BY <1>1
    <3> HIDE DEF b
    <3> QED
      BY <2>1, <3>1, SubSeqProperties DEF b
  <2> HIDE DEF b
  <2>3. ASSUME NEW i \in 1..(Len(s) - p) PROVE b[i] = s[p + i]
    <3>1. i \in 1..(Len(s) - (p + 1) + 1) /\ (p + 1) + i - 1 = p + i
      BY <1>1
    <3> QED
      BY <2>2, <3>1
  <2> QED
    BY <1>1, <2>2, <2>3
<1> HIDE DEF a, b
<1>5. /\ r \in Seq(Timer) /\ Len(r) = Len(a) + Len(b)
      /\ \A i \in 1..(Len(a) + Len(b)) : r[i] = IF i <= Len(a) THEN a[i] ELSE b[i - Len(a)]
  BY <1>3, <1>4, ConcatProperties
<1> HIDE DEF r
<1>6. ASSUME NEW i \in 1..(Len(s) - 1)
      PROVE  r[i] = IF i < p THEN s[i] ELSE s[i + 1]
  <2>1. i \in 1..(Len(a) + Len(b)) /\ i \in Nat /\ 1 <= i
    BY <1>1, <1>3, <1>4
  <2>2. CASE i < p
    <3>1. i <= Len(a) /\ i \in 1..(p - 1)
      BY <1>1, <1>3, <2>1, <2>2
    <3> QED
      BY <1>3, <1>5, <2>1, <2>2, <3>1
  <2>3. CASE ~(i < p)
    <3>1. ~(i <= Len(a)) /\ i - Len(a) \in 1..(Len(s) - p) /\ p + (i - Len(a)) = i + 1
      BY <1>1, <1>3, <2>1, <2>3
    <3> QED
      BY <1>4, <1>5, <2>1, <2>3, <3>1
  <2> QED
    BY <2>2, <2>3
<1>7. Len(r) = Len(s) - 1
  BY <1>1, <1>3, <1>4, <1>5
<1> QED
  BY <1>5, <1>6, <1>7 DEF Removed, r, a, b

LEMMA Unlinked ==
    ASSUME NEW n \in Nat, NEW s, TimerList(s, n), NEW p \in 1..Len(s),
           NEW r \in Seq(Timer), Removed(s, r, p)
    PROVE  /\ TimerList(r, n)
           /\ s[p].id = AE_DELETED_EVENT_ID => Ids(r) = Ids(s)
           /\ \A i \in 1..Len(s) : i < p => r[i] = s[i] /\ i \in 1..Len(r)
           /\ \A i \in 1..Len(s) : i > p => r[i - 1] = s[i] /\ i - 1 \in 1..Len(r)
<1>1. /\ Len(s) \in Nat /\ DOMAIN s = 1..Len(s) /\ p \in Nat /\ 1 <= p /\ p <= Len(s)
      /\ Len(r) = Len(s) - 1 /\ DOMAIN r = 1..Len(r)
  BY LenProperties DEF TimerList, Removed
<1> DEFINE at(i) == IF i < p THEN i ELSE i + 1
<1>2. \A i \in 1..Len(r) : at(i) \in 1..Len(s) /\ at(i) # p /\ r[i] = s[at(i)]
  BY <1>1 DEF Removed
<1>3. \A i, j \in 1..Len(r) : i < j => at(i) < at(j)
  BY <1>1
<1>4. \A i \in 1..Len(s) : i < p => r[i] = s[i] /\ i \in 1..Len(r)
  BY <1>1 DEF Removed
<1>5. \A i \in 1..Len(s) : i > p => r[i - 1] = s[i] /\ i - 1 \in 1..Len(r)
  <2> SUFFICES ASSUME NEW i \in 1..Len(s), i > p
               PROVE  r[i - 1] = s[i] /\ i - 1 \in 1..Len(r)
    OBVIOUS
  <2>1. i - 1 \in 1..(Len(s) - 1) /\ ~(i - 1 < p) /\ (i - 1) + 1 = i
    BY <1>1
  <2> QED
    BY <1>1, <2>1 DEF Removed
<1> HIDE DEF at
<1>6. TimerList(r, n)
  <2>1. \A i \in 1..Len(r) : /\ 0 < r[i].key /\ r[i].key < n
                             /\ r[i].id \in {r[i].key, AE_DELETED_EVENT_ID}
    BY <1>2 DEF TimerList
  <2>2. ASSUME NEW i \in 1..Len(r), NEW j \in 1..Len(r), i < j PROVE r[j].key < r[i].key
    BY <1>2, <1>3, <2>2 DEF TimerList
  <2> QED
    BY <2>1, <2>2 DEF TimerList
<1>7. ASSUME s[p].id = AE_DELETED_EVENT_ID PROVE Ids(r) = Ids(s)
  <2>1. \A i \in DOMAIN r : \E j \in DOMAIN s : r[i].id = s[j].id
    BY <1>1, <1>2
  <2>2. ASSUME NEW j \in DOMAIN s, j # p PROVE \E i \in DOMAIN r : r[i].id = s[j].id
    <3>1. j < p \/ j > p
      BY <1>1, <2>2
    <3> QED
      BY <1>1, <1>4, <1>5, <3>1
  <2> QED
    BY <1>7, <2>1, <2>2 DEF Ids
<1> QED
  BY <1>4, <1>5, <1>6, <1>7

\* What the ids of a list become: the same, or without the one marked.
LEMMA IdsKept ==
    ASSUME NEW s \in Seq(Timer), NEW r \in Seq(Timer), Alike(s, r),
           \A i \in 1..Len(s) : r[i].id = s[i].id
    PROVE  Ids(r) = Ids(s)
<1>1. DOMAIN s = 1..Len(s) /\ DOMAIN r = 1..Len(s)
  BY LenProperties DEF Alike
<1> QED
  BY <1>1 DEF Ids

Marked(s, r, id) ==
    \A i \in 1..Len(s) : r[i].id = IF s[i].id = id THEN AE_DELETED_EVENT_ID ELSE s[i].id

LEMMA IdsMarked ==
    ASSUME NEW s \in Seq(Timer), NEW r \in Seq(Timer), Alike(s, r), NEW id, Marked(s, r, id)
    PROVE  Ids(r) = Ids(s) \ {id}
<1>1. DOMAIN s = 1..Len(s) /\ DOMAIN r = 1..Len(s)
  BY LenProperties DEF Alike
<1>2. ASSUME NEW x \in Ids(r) PROVE x \in Ids(s) \ {id}
  <2>1. PICK i \in DOMAIN r : x = r[i].id /\ x # AE_DELETED_EVENT_ID
    BY DEF Ids
  <2>2. x = s[i].id /\ s[i].id # id
    BY <1>1, <2>1 DEF Marked
  <2> QED
    BY <1>1, <2>1, <2>2 DEF Ids
<1>3. ASSUME NEW x \in Ids(s), x # id PROVE x \in Ids(r)
  <2>1. PICK i \in DOMAIN s : x = s[i].id /\ x # AE_DELETED_EVENT_ID
    BY DEF Ids
  <2>2. x = r[i].id
    BY <1>1, <1>3, <2>1 DEF Marked
  <2> QED
    BY <1>1, <2>1, <2>2 DEF Ids
<1> QED
  BY <1>2, <1>3

\* aeAddMillisecondsToNow gives integers, and does not touch the id.
LEMMA ArmIs ==
    ASSUME TimeTypes, NEW t \in Timer, NEW d \in Int
    PROVE  Arm(t, d) \in Timer /\ Arm(t, d).key = t.key /\ Arm(t, d).id = t.id
<1>1. Sec \in Int /\ Ms \in Int /\ d \div Second \in Int /\ d % Second \in Int /\ Second \in Int
  BY EventLoopAssumption DEF TimeTypes, Sec, Ms
<1>2. AddMilliseconds(d).sec \in Int /\ AddMilliseconds(d).ms \in Int
  <2> HIDE DEF Sec, Ms
  <2> QED
    BY <1>1 DEF AddMilliseconds
<1>3. real + d \in Int
  BY DEF TimeTypes
<1> HIDE DEF AddMilliseconds
<1> QED
  BY <1>2, <1>3 DEF Arm, Timer

LEMMA TimersInit == Init => TimersInv
<1> SUFFICES ASSUME Init PROVE TimersInv
  OBVIOUS
<1>1. TimeTypes
  <2>1. /\ load \in [apis : SUBSET Apis, calls : Nat, ops : SUBSET STRING, fails : BOOLEAN,
                     fds : SUBSET (0..(MaxSetsize - 1)), delays : SUBSET Nat,
                     skews : SUBSET Int]
        /\ Second \in Nat
    BY EventLoopAssumption DEF Init
  <2> QED
    BY <2>1 DEF Init, TimeTypes
<1>2. TimerList(timers, nextId) /\ live = Ids(timers)
  <2>1. timers = << >> /\ live = {}
    BY DEF Init
  <2>2. timers \in Seq(Timer) /\ Len(timers) = 0 /\ DOMAIN timers = 1..0
    BY <2>1, EmptySeq, LenProperties
  <2> QED
    BY <2>1, <2>2 DEF TimerList, Ids
<1>3. Walk(timers) /\ nextId \in Nat \ {0}
  BY DEF Init, Walk
<1> QED
  BY <1>1, <1>2, <1>3 DEF TimersInv

\* The place of the next event, and that it is older.
LEMMA NextIs ==
    ASSUME TimersInv, NEW p \in 1..Len(timers), timers[p].key = te
    PROVE  /\ PosOf(te) = p
           /\ p = Len(timers) => NextOf(te) = 0
           /\ p # Len(timers) => /\ p + 1 \in 1..Len(timers) /\ NextOf(te) = timers[p + 1].key
                                 /\ NextOf(te) \in Nat \ {0} /\ NextOf(te) < te
<1>1. TimerList(timers, nextId) /\ nextId \in Nat
  BY DEF TimersInv
<1>2. PosOf(te) = p
  BY <1>1, PlaceIs DEF Place, PosOf, Positions
<1>3. Len(timers) \in Nat
  BY <1>1, LenProperties DEF TimerList
<1>4. ASSUME p # Len(timers)
      PROVE  /\ p + 1 \in 1..Len(timers) /\ NextOf(te) = timers[p + 1].key
             /\ NextOf(te) \in Nat \ {0} /\ NextOf(te) < te
  <2>1. p + 1 \in 1..Len(timers) /\ p < p + 1
    BY <1>3, <1>4
  <2>2. NextOf(te) = timers[p + 1].key
    BY <1>2, <1>4 DEF NextOf
  <2>3. timers[p + 1].key \in Nat /\ 0 < timers[p + 1].key
    BY <1>1, <2>1, InTimerList
  <2>4. timers[p + 1].key < timers[p].key
    BY <1>1, <2>1 DEF TimerList
  <2> QED
    BY <2>1, <2>2, <2>3, <2>4
<1> QED
  BY <1>2, <1>4 DEF NextOf

LEMMA TimersNext == ASSUME TimersInv, [Next]_vars PROVE TimersInv'
<1>0. /\ TimeTypes /\ nextId \in Nat \ {0} /\ TimerList(timers, nextId)
      /\ live = Ids(timers) /\ Walk(timers)
      /\ timers \in Seq(Timer) /\ Len(timers) \in Nat /\ DOMAIN timers = 1..Len(timers)
  BY LenProperties DEF TimersInv, TimerList
<1>1. TimeTypes'
  <2>1. ASSUME UNCHANGED <<load, real, clock>> PROVE TimeTypes'
    BY <1>0, <2>1 DEF TimeTypes
  <2>2. ASSUME load' = [load EXCEPT !.calls = @ - 1], UNCHANGED <<real, clock>> PROVE TimeTypes'
    BY <1>0, <2>2 DEF TimeTypes
  <2>3. CASE Client
    BY <2>2, <2>3 DEF Client, aeCreateFileEvent, aeDeleteFileEvent, Reopen, aeResizeSetSize,
                      aeCreateTimeEvent, aeDeleteTimeEvent, aeStop, Calls, time
  <2>4. CASE aeMain \/ Leave \/ Sleep \/ TimedOut \/ Dispatch \/ TimersBegin
    BY <2>1, <2>4 DEF aeMain, Leave, Sleep, TimedOut, Dispatch, TimersBegin, time
  <2>5. CASE TimerRemoved \/ TimerPassed \/ TimerRuns \/ PassOver
    BY <2>1, <2>5 DEF TimerRemoved, TimerPassed, TimerRuns, PassOver, time
  <2>6. CASE FileReturn \/ (\E r \in (load.delays \ {0}) \cup {AE_NOMORE} : TimerReturn(r))
             \/ \E ready \in [Fds -> SUBSET Kinds] : WakeUp(ready)
    BY <2>1, <2>6 DEF FileReturn, TimerReturn, WakeUp, time
  <2>7. CASE Tick
    BY <1>0, <2>7 DEF Tick, TimeTypes
  <2>8. ASSUME NEW step \in load.skews, SetClock(step) PROVE TimeTypes'
    BY <1>0, <2>8 DEF SetClock, TimeTypes
  <2>9. CASE UNCHANGED vars
    BY <2>1, <2>9 DEF vars, time
  <2> QED
    BY <2>3, <2>4, <2>5, <2>6, <2>7, <2>8, <2>9 DEF Next, Loop
<1>2. ASSUME UNCHANGED <<timers, nextId, live, te>>, prev' \in Nat, maxId' \in Int,
             \/ UNCHANGED <<where, back, prev, maxId>>
             \/ where' # "timers" /\ (where' = "client" => back' # "timers")
      PROVE  TimersInv'
  BY <1>0, <1>1, <1>2 DEF TimersInv, Walk
<1>3. ASSUME UNCHANGED <<list, pass>>,
             \/ UNCHANGED <<where, back>>
             \/ where' # "timers" /\ (where' = "client" => back' # "timers")
      PROVE  TimersInv'
  <2>1. UNCHANGED <<timers, nextId, live, te, prev, maxId>>
    BY <1>3 DEF list, pass
  <2> QED
    BY <1>0, <1>2, <1>3, <2>1 DEF Walk
<1>4. CASE \/ \E fd \in load.fds, m \in (SUBSET Kinds) \ {{}}, p \in Procs : aeCreateFileEvent(fd, m, p)
           \/ \E fd \in load.fds, m \in (SUBSET Kinds) \ {{}} : aeDeleteFileEvent(fd, m)
           \/ \E fd \in load.fds : Reopen(fd)
           \/ \E n \in 1..MaxSetsize : aeResizeSetSize(n)
           \/ aeStop
  BY <1>3, <1>4 DEF aeCreateFileEvent, aeDeleteFileEvent, Reopen, aeResizeSetSize, aeStop, Calls
<1>5. ASSUME NEW d \in load.delays, aeCreateTimeEvent(d) PROVE TimersInv'
  <2> DEFINE t == Arm([key |-> nextId, id |-> nextId, sec |-> 0, ms |-> 0, delay |-> 0,
                       due |-> 0], d)
  <2>1. t \in Timer /\ t.key = nextId /\ t.id = nextId
    <3>1. [key |-> nextId, id |-> nextId, sec |-> 0, ms |-> 0, delay |-> 0, due |-> 0] \in Timer
      BY <1>0 DEF Timer
    <3>2. d \in Int
      BY <1>0 DEF TimeTypes
    <3> QED
      BY <1>0, <3>1, <3>2, ArmIs
  <2>2. /\ timers' = <<t>> \o timers /\ live' = live \cup {nextId} /\ nextId' = nextId + 1
        /\ where = "client" /\ UNCHANGED <<where, back, te, prev, maxId>>
    BY <1>5 DEF aeCreateTimeEvent, Calls, pass
  <2> HIDE DEF t
  <2>3. /\ TimerList(timers', nextId')
        /\ live' = Ids(timers')
        /\ \A key : Has(timers, key) => Has(timers', key)
    BY <1>0, <2>1, <2>2, Pushed
  <2>4. Walk(timers)'
    BY <1>0, <2>2, <2>3 DEF Walk
  <2> QED
    BY <1>0, <1>1, <2>2, <2>3, <2>4 DEF TimersInv
<1>6. ASSUME NEW id \in 1..(nextId - 1), aeDeleteTimeEvent(id) PROVE TimersInv'
  <2>1. /\ timers' = Mark(id) /\ live' = live \ {id}
        /\ UNCHANGED <<nextId, where, back, te, prev, maxId>>
    BY <1>6 DEF aeDeleteTimeEvent, Calls, pass
  <2>2. ASSUME NEW i \in 1..Len(timers)
        PROVE  /\ timers'[i] \in Timer /\ timers'[i].key = timers[i].key
               /\ timers'[i].id = IF timers[i].id = id THEN AE_DELETED_EVENT_ID ELSE timers[i].id
    <3>1. timers[i] \in Timer
      BY <1>0, ElementOfSeq
    <3>2. timers'[i] = IF timers[i].id = id THEN [timers[i] EXCEPT !.id = AE_DELETED_EVENT_ID]
                       ELSE timers[i]
      BY <1>0, <2>1 DEF Mark
    <3>3. CASE timers[i].id = id
      BY <3>1, <3>2, <3>3 DEF Timer, AE_DELETED_EVENT_ID
    <3>4. CASE timers[i].id # id
      BY <3>1, <3>2, <3>4
    <3> QED
      BY <3>3, <3>4
  <2>3. timers' \in Seq(Timer) /\ Len(timers') = Len(timers)
    BY <1>0, <2>1, <2>2 DEF Mark
  <2>4. Alike(timers, timers')
    BY <2>2, <2>3 DEF Alike
  <2>5. \A i \in 1..Len(timers') : timers'[i].id \in {timers'[i].key, AE_DELETED_EVENT_ID}
    BY <1>0, <2>2, <2>3, InTimerList
  <2>6. /\ TimerList(timers', nextId)
        /\ \A key : Place(timers', key) = Place(timers, key)
                    /\ (Has(timers', key) <=> Has(timers, key))
    BY <1>0, <2>3, <2>4, <2>5, Changed
  <2>7. live' = Ids(timers')
    <3>1. Marked(timers, timers', id)
      BY <2>2 DEF Marked
    <3>2. Ids(timers') = Ids(timers) \ {id}
      <4>1. timers \in Seq(Timer)
        BY <1>0
      <4> QED
        BY <2>3, <2>4, <3>1, <4>1, IdsMarked
    <3> QED
      BY <1>0, <2>1, <3>2
  <2>8. Walk(timers)'
    BY <1>0, <2>1, <2>6 DEF Walk
  <2> QED
    BY <1>0, <1>1, <2>1, <2>6, <2>7, <2>8 DEF TimersInv
<1>7. CASE TimersBegin
  <2>1. /\ timers' = IF ClockSet THEN [i \in DOMAIN timers |-> [timers[i] EXCEPT !.sec = 0]]
                     ELSE timers
        /\ UNCHANGED <<nextId, live>> /\ where' = "timers"
        /\ prev' = 0 /\ te' = Head0(timers) /\ maxId' = nextId - 1
    BY <1>7 DEF TimersBegin
  <2>2. ASSUME NEW i \in 1..Len(timers)
        PROVE  /\ timers'[i] \in Timer /\ timers'[i].key = timers[i].key
               /\ timers'[i].id = timers[i].id
    <3>1. timers[i] \in Timer
      BY <1>0, ElementOfSeq
    <3>2. timers'[i] = IF ClockSet THEN [timers[i] EXCEPT !.sec = 0] ELSE timers[i]
      BY <1>0, <2>1
    <3>3. CASE ClockSet
      BY <3>1, <3>2, <3>3 DEF Timer
    <3>4. CASE ~ClockSet
      BY <3>1, <3>2, <3>4
    <3> QED
      BY <3>3, <3>4
  <2>3. timers' \in Seq(Timer) /\ Len(timers') = Len(timers)
    BY <1>0, <2>1, <2>2
  <2>4. Alike(timers, timers')
    BY <2>2, <2>3 DEF Alike
  <2>5. \A i \in 1..Len(timers') : timers'[i].id \in {timers'[i].key, AE_DELETED_EVENT_ID}
    BY <1>0, <2>2, <2>3, InTimerList
  <2>6. /\ TimerList(timers', nextId)
        /\ \A key : Place(timers', key) = Place(timers, key)
                    /\ (Has(timers', key) <=> Has(timers, key))
    BY <1>0, <2>3, <2>4, <2>5, Changed
  <2>7. live' = Ids(timers')
    BY <1>0, <2>1, <2>2, <2>3, <2>4, IdsKept
  <2>8. te' \in Nat /\ (te' # 0 => Has(timers, te') /\ te' <= maxId' /\ Place(timers, te') = 1)
    <3>1. CASE timers = << >>
      BY <2>1, <3>1 DEF Head0
    <3>2. CASE timers # << >>
      <4>1. 1 \in 1..Len(timers) /\ te' = timers[1].key
        BY <1>0, <2>1, <3>2, EmptySeq DEF Head0
      <4>2. timers[1].key \in Nat /\ timers[1].key < nextId
        BY <1>0, <4>1, InTimerList
      <4> QED
        BY <1>0, <2>1, <4>1, <4>2, PlaceIs DEF Has
    <3> QED
      BY <3>1, <3>2
  <2>9. Walk(timers)'
    BY <1>0, <2>1, <2>6, <2>8 DEF Walk
  <2> QED
    BY <1>0, <1>1, <2>1, <2>6, <2>7, <2>9 DEF TimersInv
<1>8. ASSUME where = "timers" \/ (where = "client" /\ back = "timers"), te # 0
      PROVE  \E p \in 1..Len(timers) : timers[p].key = te
  BY <1>0, <1>8 DEF Walk, Has
<1>9. CASE TimerRemoved
  <2>1. /\ timers' = Unlink(te) /\ te' = NextOf(te) /\ where = "timers" /\ te # 0
        /\ Event(te).id = AE_DELETED_EVENT_ID
        /\ UNCHANGED <<where, back, nextId, live, prev, maxId>>
    BY <1>9 DEF TimerRemoved
  <2>2. PICK p \in 1..Len(timers) : timers[p].key = te
    BY <1>8, <2>1
  <2>3. /\ PosOf(te) = p
        /\ p = Len(timers) => te' = 0
        /\ p # Len(timers) => /\ p + 1 \in 1..Len(timers) /\ te' = timers[p + 1].key
                              /\ te' \in Nat \ {0} /\ te' < te
    BY <2>1, <2>2, NextIs
  <2>4. Place(timers, te) = p
    BY <2>3 DEF Place, PosOf, Positions
  <2>5. /\ prev = 0 => p = 1
        /\ prev # 0 => Has(timers, prev) /\ p = PosOf(prev) + 1
    BY <1>0, <2>1, <2>4 DEF Walk, Place, PosOf, Positions
  <2>6. timers' = SubSeq(timers, 1, p - 1) \o SubSeq(timers, p + 1, Len(timers))
    <3>1. CASE prev = 0
      <4>1. SubSeq(timers, 1, p - 1) = << >>
        BY <2>5, <3>1, SubSeqEmpty
      <4> QED
        BY <2>1, <2>3, <3>1, <4>1 DEF Unlink
    <3>2. CASE prev # 0
      <4>1. PosOf(prev) \in 1..Len(timers)
        BY <1>0, <2>5, <3>2, PlaceOf DEF Place, PosOf, Positions
      <4>2. PosOf(prev) = p - 1
        BY <2>5, <3>2, <4>1
      <4> QED
        BY <2>1, <2>3, <3>2, <4>2 DEF Unlink
    <3> QED
      BY <3>1, <3>2
  <2>7. timers' \in Seq(Timer) /\ Removed(timers, timers', p)
    BY <1>0, <2>6, PointedPast
  <2>8. /\ TimerList(timers', nextId)
        /\ timers[p].id = AE_DELETED_EVENT_ID => Ids(timers') = Ids(timers)
        /\ \A i \in 1..Len(timers) : i < p => timers'[i] = timers[i] /\ i \in 1..Len(timers')
        /\ \A i \in 1..Len(timers) : i > p => timers'[i - 1] = timers[i] /\ i - 1 \in 1..Len(timers')
    BY <1>0, <2>7, Unlinked
  <2>9. live' = Ids(timers')
    BY <1>0, <2>1, <2>3, <2>8 DEF Event
  <2>10. ASSUME te' # 0
         PROVE  Has(timers', te') /\ te' <= maxId /\ Place(timers', te') = p
    <3>1. p \in 1..Len(timers') /\ timers'[p].key = te' /\ te' < te /\ te' \in Nat
      <4>0. p # Len(timers)
        BY <2>3, <2>10
      <4>1. p + 1 \in 1..Len(timers) /\ p + 1 > p /\ (p + 1) - 1 = p
        BY <2>3, <4>0
      <4> QED
        BY <2>3, <2>8, <2>10, <4>1
    <3>2. te \in Nat /\ te <= maxId /\ maxId \in Int
      BY <1>0, <2>1 DEF Walk
    <3>3. te' <= maxId
      BY <3>1, <3>2
    <3> QED
      BY <1>0, <2>8, <3>1, <3>3, PlaceIs DEF Has
  <2>11. ASSUME prev # 0 PROVE Has(timers', prev) /\ Place(timers', prev) = p - 1
    <3>1. PosOf(prev) \in 1..Len(timers) /\ timers[PosOf(prev)].key = prev
      BY <1>0, <2>5, <2>11, PlaceOf DEF Place, PosOf, Positions
    <3>2. PosOf(prev) = p - 1 /\ p - 1 < p
      BY <2>5, <2>11, <3>1
    <3>3. p - 1 \in 1..Len(timers') /\ timers'[p - 1].key = prev
      BY <2>8, <3>1, <3>2
    <3> QED
      BY <1>0, <2>8, <3>3, PlaceIs DEF Has
  <2>12. Walk(timers)'
    <3>1. te' \in Nat
      BY <2>3
    <3> QED
      BY <1>0, <2>1, <2>5, <2>10, <2>11, <3>1 DEF Walk
  <2> QED
    BY <1>0, <1>1, <2>1, <2>8, <2>9, <2>12 DEF TimersInv
\* The pass goes on behind te, whose event is where it was.
<1>10. ASSUME where = "timers" \/ (where = "client" /\ back = "timers"), te # 0,
              prev' = te, te' = NextOf(te), maxId' = maxId, where' = "timers",
              \A key : Place(timers', key) = Place(timers, key)
                       /\ (Has(timers', key) <=> Has(timers, key))
       PROVE  Walk(timers)'
  <2>1. PICK p \in 1..Len(timers) : timers[p].key = te
    BY <1>8, <1>10
  <2>2. /\ p = Len(timers) => te' = 0
        /\ p # Len(timers) => /\ p + 1 \in 1..Len(timers) /\ te' = timers[p + 1].key
                              /\ te' \in Nat \ {0} /\ te' < te
    BY <1>10, <2>1, NextIs
  <2>3. Place(timers, te) = p /\ Has(timers, te)
    BY <1>0, <2>1, PlaceIs DEF Has
  <2>4. ASSUME te' # 0 PROVE Has(timers, te') /\ te' <= maxId /\ Place(timers, te') = p + 1
    <3>1. te \in Nat /\ te <= maxId /\ maxId \in Int
      BY <1>0, <1>10 DEF Walk
    <3>2. te' <= maxId
      BY <2>2, <2>4, <3>1
    <3> QED
      BY <1>0, <2>2, <2>4, <3>2, PlaceIs DEF Has
  <2>5. te' \in Nat /\ prev' \in Nat /\ maxId' \in Int
    <3>1. te \in Nat /\ maxId \in Int
      BY <1>0 DEF Walk
    <3>2. te' \in Nat
      BY <2>2
    <3> QED
      BY <1>10, <3>1, <3>2
  <2>6. ASSUME te' # 0
        PROVE  /\ Has(timers', te') /\ te' <= maxId'
               /\ prev' # 0 /\ Has(timers', prev') /\ Place(timers', te') = Place(timers', prev') + 1
    BY <1>10, <2>3, <2>4, <2>6
  <2> QED
    BY <1>10, <2>5, <2>6 DEF Walk
<1>11. CASE TimerPassed
  <2>1. /\ UNCHANGED <<timers, nextId, live, maxId, where, back>>
        /\ te' = NextOf(te) /\ where = "timers" /\ te # 0
        /\ prev' = IF Event(te).id > maxId THEN prev ELSE te
        /\ Event(te).id # AE_DELETED_EVENT_ID
    BY <1>11 DEF TimerPassed, list
  <2>2. PICK p \in 1..Len(timers) : timers[p].key = te
    BY <1>8, <2>1
  <2>3. Event(te).id = te
    <3>1. PosOf(te) = p
      BY <2>2, NextIs
    <3>2. timers[p].id \in {te, AE_DELETED_EVENT_ID}
      BY <1>0, <2>2, InTimerList
    <3> QED
      BY <2>1, <3>1, <3>2 DEF Event
  <2>4. prev' = te
    <3>1. te \in Nat /\ te <= maxId /\ maxId \in Int
      BY <1>0, <2>1 DEF Walk
    <3>2. ~(te > maxId)
      BY <3>1
    <3> QED
      BY <2>1, <2>3, <3>2
  <2>5. Walk(timers)'
    BY <1>10, <2>1, <2>4
  <2> QED
    BY <1>0, <1>1, <2>1, <2>5 DEF TimersInv
<1>12. CASE TimerRuns
  <2>1. /\ UNCHANGED <<timers, nextId, live, maxId, te, prev>>
        /\ where = "timers" /\ te # 0 /\ where' = "client" /\ back' = "timers"
    BY <1>12 DEF TimerRuns, list
  <2> QED
    BY <1>0, <1>1, <2>1 DEF TimersInv, Walk
<1>13. ASSUME NEW v \in (load.delays \ {0}) \cup {AE_NOMORE}, TimerReturn(v) PROVE TimersInv'
  <2>1. /\ where = "client" /\ back = "timers" /\ where' = "timers"
        /\ timers' = [timers EXCEPT ![PosOf(te)] =
                         IF v = AE_NOMORE THEN [@ EXCEPT !.id = AE_DELETED_EVENT_ID]
                         ELSE Arm(@, v)]
        /\ live' = IF v = AE_NOMORE THEN live \ {te} ELSE live
        /\ prev' = te /\ te' = NextOf(te) /\ UNCHANGED <<nextId, maxId>>
    BY <1>13 DEF TimerReturn
  <2>2. te # 0 /\ te \in Nat
    BY <1>0, <2>1 DEF Walk
  <2>3. PICK p \in 1..Len(timers) : timers[p].key = te
    BY <1>8, <2>1, <2>2
  <2>4. PosOf(te) = p
    BY <2>3, NextIs
  <2> DEFINE e == IF v = AE_NOMORE THEN [timers[p] EXCEPT !.id = AE_DELETED_EVENT_ID]
                  ELSE Arm(timers[p], v)
  <2>5. /\ e \in Timer /\ e.key = te
        /\ e.id = IF v = AE_NOMORE THEN AE_DELETED_EVENT_ID ELSE timers[p].id
    <3>1. timers[p] \in Timer
      BY <1>0, ElementOfSeq
    <3>2. CASE v = AE_NOMORE
      BY <2>3, <3>1, <3>2 DEF Timer, AE_DELETED_EVENT_ID
    <3>3. CASE v # AE_NOMORE
      <4>1. v \in Int
        BY <1>0, <3>3 DEF TimeTypes
      <4> QED
        BY <1>0, <2>3, <3>1, <3>3, <4>1, ArmIs
    <3> QED
      BY <3>2, <3>3
  <2>6. timers' = [timers EXCEPT ![p] = e]
    BY <2>1, <2>4
  <2> HIDE DEF e
  <2>7. /\ timers' \in Seq(Timer) /\ Len(timers') = Len(timers)
        /\ \A i \in 1..Len(timers) : timers'[i] = IF i = p THEN e ELSE timers[i]
    BY <1>0, <2>5, <2>6, ExceptSeq
  <2>8. Alike(timers, timers')
    BY <2>3, <2>5, <2>7 DEF Alike
  <2>9. \A i \in 1..Len(timers') : timers'[i].id \in {timers'[i].key, AE_DELETED_EVENT_ID}
    <3> SUFFICES ASSUME NEW i \in 1..Len(timers)
                 PROVE  timers'[i].id \in {timers'[i].key, AE_DELETED_EVENT_ID}
      BY <2>7
    <3>1. timers[i].id \in {timers[i].key, AE_DELETED_EVENT_ID}
      BY <1>0, InTimerList
    <3> QED
      BY <2>3, <2>5, <2>7, <3>1
  <2>10. /\ TimerList(timers', nextId)
         /\ \A key : Place(timers', key) = Place(timers, key)
                     /\ (Has(timers', key) <=> Has(timers, key))
    BY <1>0, <2>7, <2>8, <2>9, Changed
  <2>11. live' = Ids(timers')
    <3>1. CASE v = AE_NOMORE
      <4>1. ASSUME NEW i \in 1..Len(timers)
            PROVE  timers'[i].id = IF timers[i].id = te THEN AE_DELETED_EVENT_ID ELSE timers[i].id
        <5>1. timers[i].id \in {timers[i].key, AE_DELETED_EVENT_ID}
          BY <1>0, InTimerList
        <5>2. CASE i = p
          BY <2>3, <2>5, <2>7, <3>1, <5>1, <5>2
        <5>3. CASE i # p
          <6>1. timers[i].key # te
            BY <1>0, <2>3, <5>3, PlaceIs
          <6>2. AE_DELETED_EVENT_ID # te
            BY <2>2 DEF AE_DELETED_EVENT_ID
          <6> QED
            BY <2>7, <5>1, <5>3, <6>1, <6>2
        <5> QED
          BY <5>2, <5>3
      <4>2. Marked(timers, timers', te)
        BY <4>1 DEF Marked
      <4> QED
        BY <1>0, <2>1, <2>7, <2>8, <3>1, <4>2, IdsMarked
    <3>2. CASE v # AE_NOMORE
      <4>1. \A i \in 1..Len(timers) : timers'[i].id = timers[i].id
        BY <2>5, <2>7, <3>2
      <4> QED
        BY <1>0, <2>1, <2>7, <2>8, <3>2, <4>1, IdsKept
    <3> QED
      BY <3>1, <3>2
  <2>12. Walk(timers)'
    BY <1>10, <2>1, <2>2, <2>10
  <2> QED
    BY <1>0, <1>1, <2>1, <2>10, <2>11, <2>12 DEF TimersInv
<1>14. CASE PassOver
  BY <1>2, <1>14 DEF PassOver, list
<1>15. CASE aeMain \/ Leave \/ Sleep \/ TimedOut \/ Dispatch
  BY <1>3, <1>15 DEF aeMain, Leave, Sleep, TimedOut, Dispatch
<1>16. CASE FileReturn \/ \E ready \in [Fds -> SUBSET Kinds] : WakeUp(ready)
  BY <1>3, <1>16 DEF FileReturn, WakeUp
<1>17. CASE Tick \/ \E step \in load.skews : SetClock(step)
  BY <1>3, <1>17 DEF Tick, SetClock
<1>18. CASE UNCHANGED vars
  BY <1>3, <1>18 DEF vars
<1> QED
  BY <1>4, <1>5, <1>6, <1>7, <1>9, <1>11, <1>12, <1>13, <1>14, <1>15, <1>16, <1>17, <1>18
  DEF Next, Client, Loop

\* A timer that was set stays in the list until it is deleted or has run for the
\* last time: no insertion or deletion in the middle of a pass loses another.
THEOREM TimersAreKept == Spec => []NoTimerLost
<1>1. TimersInv => NoTimerLost
  BY DEF TimersInv, NoTimerLost, Ids
<1> QED
  BY <1>1, TimersInit, TimersNext, PTL DEF Spec

-----------------------------------------------------------------------------
(***************************************************************************)
(* Seconds and milliseconds.  A second is a parameter, so the products and *)
(* quotients by it are stated here, once.                                  *)
(***************************************************************************)
LEMMA Division ==
    ASSUME NEW a \in Int
    PROVE  /\ a \div Second \in Int /\ a % Second \in 0..(Second - 1)
           /\ a = (a \div Second) * Second + (a % Second)
BY EventLoopAssumption

LEMMA Product ==
    ASSUME NEW a \in Int, NEW b \in Int
    PROVE  /\ a * Second \in Int
           /\ (a + b) * Second = a * Second + b * Second
           /\ (a - b) * Second = a * Second - b * Second
           /\ 0 * Second = 0 /\ 1 * Second = Second
           /\ a < b => a * Second + Second <= b * Second
BY EventLoopAssumption

\* Times in seconds and milliseconds are ordered as the milliseconds they stand
\* for: first by the seconds, then by the rest.
LEMMA Order ==
    ASSUME NEW a \in Int, NEW b \in Int,
           NEW x \in 0..(Second - 1), NEW y \in 0..(Second - 1)
    PROVE  (a < b \/ (a = b /\ x < y)) <=> a * Second + x < b * Second + y
<1>1. a * Second \in Int /\ b * Second \in Int /\ Second \in Nat
  BY Product, EventLoopAssumption
<1>2. CASE a < b
  <2>1. a * Second + Second <= b * Second
    BY <1>2, Product
  <2> QED
    BY <1>1, <1>2, <2>1
<1>3. CASE a = b
  BY <1>1, <1>3
<1>4. CASE b < a
  <2>1. b * Second + Second <= a * Second
    BY <1>4, Product
  <2> QED
    BY <1>1, <1>4, <2>1
<1> QED
  BY <1>2, <1>3, <1>4

LEMMA Difference ==
    ASSUME NEW a \in Int, NEW b \in Int, NEW x \in Int, NEW y \in Int
    PROVE  ((a - b) * Second) + x - y = (a * Second + x) - (b * Second + y)
<1>1. a * Second \in Int /\ b * Second \in Int /\ (a - b) * Second = a * Second - b * Second
  BY Product
<1> QED
  BY <1>1

LEMMA DivisionMonotone ==
    ASSUME NEW a \in Int, NEW b \in Int, a <= b
    PROVE  a \div Second <= b \div Second
<1>1. /\ a \div Second \in Int /\ b \div Second \in Int
      /\ a % Second \in 0..(Second - 1) /\ b % Second \in 0..(Second - 1)
      /\ a = (a \div Second) * Second + (a % Second)
      /\ b = (b \div Second) * Second + (b % Second)
  BY Division
<1>2. CASE b \div Second < a \div Second
  <2>1. b < a
    BY <1>1, <1>2, Order
  <2> QED
    BY <2>1
<1> QED
  BY <1>1, <1>2

LEMMA DivisionNat == ASSUME NEW a \in Nat PROVE a \div Second \in Nat
<1>1. 0 \div Second = 0
  BY EventLoopAssumption
<1> QED
  BY <1>1, Division, DivisionMonotone

-----------------------------------------------------------------------------
(***************************************************************************)
(* When a timer is due, by the clock.                                      *)
(***************************************************************************)
Timed(t) == t.ms \in 0..(Second - 1) /\ t.sec \in Nat /\ t.delay \in Nat

LEMMA ClockIs ==
    ASSUME clock \in Nat
    PROVE  Sec \in Nat /\ Ms \in 0..(Second - 1) /\ clock = Sec * Second + Ms
BY Division, DivisionNat DEF Sec, Ms

LEMMA WhenIs == ASSUME NEW t, Timed(t) PROVE When(t) \in Nat
<1>1. t.sec * Second \in Nat
  BY EventLoopAssumption DEF Timed
<1> QED
  BY <1>1 DEF When, Timed

\* aeAddMillisecondsToNow: the carry from the milliseconds to the seconds gives
\* the time that is meant, in a normal form.
LEMMA ArmSets ==
    ASSUME TimeTypes, clock \in Nat, NEW t \in Timer, NEW d \in Nat
    PROVE  LET r == Arm(t, d)
           IN  /\ Timed(r) /\ r.key = t.key /\ r.delay = d /\ r.due = real + d
               /\ When(r) = clock + d
<1> DEFINE q == d \div Second
           m == d % Second
<1>1. /\ Sec \in Nat /\ Ms \in 0..(Second - 1) /\ clock = Sec * Second + Ms
      /\ q \in Nat /\ m \in 0..(Second - 1) /\ d = q * Second + m
      /\ Second \in Nat \ {0} /\ Sec * Second \in Int /\ q * Second \in Int
  BY SMTT(60), ClockIs, Division, DivisionNat, Product, EventLoopAssumption
<1> DEFINE w == AddMilliseconds(d)
<1>2. /\ w.sec \in Nat /\ w.ms \in 0..(Second - 1)
      /\ w.sec * Second + w.ms = clock + d
  <2>1. CASE Ms + m >= Second
    <3>1. w = [sec |-> Sec + q + 1, ms |-> (Ms + m) - Second]
      BY <2>1 DEF AddMilliseconds
    <3>2. (Sec + q + 1) * Second = Sec * Second + q * Second + Second
      <4>1. (Sec + q + 1) * Second = (Sec + q) * Second + 1 * Second
        BY <1>1, Product
      <4>2. (Sec + q) * Second = Sec * Second + q * Second /\ 1 * Second = Second
        BY <1>1, Product
      <4> QED
        BY <4>1, <4>2
    <3> HIDE DEF w, q, m
    <3> QED
      BY <1>1, <2>1, <3>1, <3>2
  <2>2. CASE ~(Ms + m >= Second)
    <3>1. w = [sec |-> Sec + q, ms |-> Ms + m]
      BY <2>2 DEF AddMilliseconds
    <3>2. (Sec + q) * Second = Sec * Second + q * Second
      BY <1>1, Product
    <3> HIDE DEF w, q, m
    <3> QED
      BY <1>1, <2>2, <3>1, <3>2
  <2> QED
    BY <2>1, <2>2
<1> HIDE DEF w
<1>3. /\ Arm(t, d).sec = w.sec /\ Arm(t, d).ms = w.ms /\ Arm(t, d).delay = d
      /\ Arm(t, d).due = real + d /\ Arm(t, d).key = t.key
  BY DEF Arm, Timer, w
<1>4. Arm(t, d) \in Timer
  BY ArmIs
<1> QED
  BY <1>2, <1>3, <1>4 DEF Timed, When

\* A timer is due when the clock says so.
LEMMA Comes ==
    ASSUME clock \in Nat, NEW t, Timed(t)
    PROVE  HasCome(t) <=> When(t) <= clock
<1>1. /\ Sec \in Nat /\ Ms \in 0..(Second - 1) /\ clock = Sec * Second + Ms
      /\ t.sec \in Nat /\ t.ms \in 0..(Second - 1) /\ When(t) \in Nat
  BY ClockIs, WhenIs DEF Timed
<1>2. (Sec < t.sec \/ (Sec = t.sec /\ Ms < t.ms)) <=> clock < When(t)
  BY <1>1, Order DEF When
<1>3. HasCome(t) <=> ~(Sec < t.sec \/ (Sec = t.sec /\ Ms < t.ms))
  BY <1>1 DEF HasCome
<1> QED
  BY <1>1, <1>2, <1>3

LEMMA NearerIs ==
    ASSUME NEW a, NEW b, Timed(a), Timed(b)
    PROVE  Nearer(a, b) <=> When(a) < When(b)
BY Order DEF Nearer, When, Timed

\* aeSearchNearestTimer finds a timer that is due no later than any other.
LEMMA NearestIs ==
    ASSUME timers \in Seq(Timer), timers # << >>, \A i \in 1..Len(timers) : Timed(timers[i])
    PROVE  /\ Nearest \in 1..Len(timers)
           /\ \A j \in 1..Len(timers) : When(timers[Nearest]) <= When(timers[j])
<1> DEFINE D == 1..Len(timers)
           First(i) == \A j \in D : IF j < i THEN Nearer(timers[i], timers[j])
                                    ELSE ~Nearer(timers[j], timers[i])
           Times == {When(timers[i]) : i \in D}
<1>1. DOMAIN timers = D /\ D \subseteq Nat /\ D # {}
  BY LenProperties, EmptySeq
<1>2. \A i \in D : When(timers[i]) \in Nat
  BY WhenIs
<1>3. \A i, j \in D : Nearer(timers[i], timers[j]) <=> When(timers[i]) < When(timers[j])
  BY NearerIs
<1> HIDE DEF D
<1>4. PICK w \in Times : \A x \in Times : w <= x
  <2>1. Times \subseteq Nat /\ Times # {}
    BY <1>1, <1>2
  <2> HIDE DEF Times
  <2> QED
    BY <2>1, LeastOf
<1> DEFINE I == {i \in D : When(timers[i]) = w}
<1>5. PICK p \in I : \A i \in I : p <= i
  <2>1. I \subseteq Nat /\ I # {}
    BY <1>1, <1>4
  <2> HIDE DEF I
  <2> QED
    BY <2>1, LeastOf
<1>6. First(p)
  <2> SUFFICES ASSUME NEW j \in D
               PROVE  IF j < p THEN Nearer(timers[p], timers[j]) ELSE ~Nearer(timers[j], timers[p])
    OBVIOUS
  <2>1. p \in D /\ When(timers[p]) = w /\ w \in Nat /\ p \in Nat /\ j \in Nat
    BY <1>1, <1>2
  <2>2. w <= When(timers[j]) /\ When(timers[j]) \in Nat
    BY <1>2, <1>4
  <2>3. CASE j < p
    <3>1. When(timers[j]) # w
      BY <1>5, <2>1, <2>3
    <3> QED
      BY <1>3, <2>1, <2>2, <2>3, <3>1
  <2>4. CASE ~(j < p)
    BY <1>3, <2>1, <2>2, <2>4
  <2> QED
    BY <2>3, <2>4
<1>7. Nearest = CHOOSE i \in D : First(i)
  BY <1>1 DEF Nearest
<1>8. Nearest \in D /\ First(Nearest)
  <2>1. \E i \in D : First(i)
    BY <1>6
  <2> HIDE DEF First
  <2> QED
    BY <1>7, <2>1
<1>9. ASSUME NEW j \in D PROVE When(timers[Nearest]) <= When(timers[j])
  <2>1. Nearest \in Nat /\ j \in Nat /\ When(timers[Nearest]) \in Nat /\ When(timers[j]) \in Nat
    BY <1>1, <1>2, <1>8
  <2>2. CASE j < Nearest
    BY <1>3, <1>8, <2>1, <2>2
  <2>3. CASE ~(j < Nearest)
    BY <1>3, <1>8, <2>1, <2>3
  <2> QED
    BY <2>2, <2>3
<1> QED
  BY <1>8, <1>9 DEF D

\* The time to sleep ends with the nearest timer.
LEMMA TimeoutIs ==
    ASSUME clock \in Nat, timers \in Seq(Timer), \A i \in 1..Len(timers) : Timed(timers[i])
    PROVE  /\ Timeout \in Nat \cup {Forever}
           /\ \A i \in 1..Len(timers) :
                 Timeout # Forever /\ (Timeout = 0 \/ clock + Timeout <= When(timers[i]))
<1>1. CASE timers = << >>
  BY <1>1, EmptySeq DEF Timeout
<1>2. CASE timers # << >>
  <2> DEFINE t == timers[Nearest]
  <2>1. Timed(t) /\ \A j \in 1..Len(timers) : When(t) <= When(timers[j])
    BY <1>2, NearestIs
  <2>2. \A j \in 1..Len(timers) : When(timers[j]) \in Nat
    BY WhenIs
  <2> HIDE DEF t
  <2>3. MsToNearest = When(t) - clock /\ When(t) \in Nat
    <3>1. /\ Sec \in Nat /\ Ms \in 0..(Second - 1) /\ clock = Sec * Second + Ms
          /\ t.sec \in Nat /\ t.ms \in 0..(Second - 1) /\ When(t) \in Nat
      BY <2>1, ClockIs, WhenIs DEF Timed
    <3>2. MsToNearest = ((t.sec - Sec) * Second) + t.ms - Ms
      BY DEF MsToNearest, t
    <3>3. t.sec \in Int /\ t.ms \in Int /\ Sec \in Int /\ Ms \in Int
      BY <3>1, EventLoopAssumption
    <3>4. ((t.sec - Sec) * Second) + t.ms - Ms = (t.sec * Second + t.ms) - (Sec * Second + Ms)
      <4> DEFINE u == t.sec
                 v == t.ms
      <4>1. u \in Int /\ v \in Int /\ Sec \in Int /\ Ms \in Int
        BY <3>3
      <4> HIDE DEF u, v
      <4>2. ((u - Sec) * Second) + v - Ms = (u * Second + v) - (Sec * Second + Ms)
        BY <4>1, Difference
      <4> QED
        BY <4>2 DEF u, v
    <3> QED
      BY <3>1, <3>2, <3>4 DEF When
  <2>4. Timeout = IF MsToNearest > 0 THEN MsToNearest ELSE 0
    BY <1>2 DEF Timeout
  <2> HIDE DEF MsToNearest
  <2>5. CASE MsToNearest > 0
    BY <2>1, <2>2, <2>3, <2>4, <2>5 DEF Forever
  <2>6. CASE ~(MsToNearest > 0)
    BY <2>4, <2>6 DEF Forever
  <2> QED
    BY <2>5, <2>6
<1> QED
  BY <1>1, <1>2

-----------------------------------------------------------------------------
(***************************************************************************)
(* What a step makes of the list: an event of the new list has the times   *)
(* of one of the old list, or is armed now by the client, or has lost its  *)
(* seconds because processTimeEvents found the clock set back.             *)
(***************************************************************************)
SameTime(t, u) == /\ t.key = u.key /\ t.sec = u.sec /\ t.ms = u.ms
                  /\ t.delay = u.delay /\ t.due = u.due
Carried(t) == \E i \in 1..Len(timers) : SameTime(t, timers[i])
Armed(t, key) == \E u \in Timer, d \in load.delays : t = Arm(u, d) /\ u.key = key
Reset(t) == \E i \in 1..Len(timers) : t = [timers[i] EXCEPT !.sec = 0]

(***************************************************************************)
(* The invariant.  While nobody has set the clock it runs with real time,  *)
(* so every timer is due on the clock when it is due.  Where the clock may *)
(* be set, it is set while the loop sleeps; the pass that follows compares *)
(* it with lastTime, whose second ends later than any timer is due but for *)
(* its delay.  Between the two, while callbacks for file events run, a     *)
(* timer may be armed by a clock that is not compared yet.                 *)
(***************************************************************************)
Dispatching == where = "dispatch" \/ InCallback
InTimerCallback == where = "client" /\ back = "timers"

Places ==
    /\ where \in {"client", "enter", "asleep", "dispatch", "timers", "over"}
    /\ back \in {"main", "loop", "dispatch", "timers"}
    /\ running # 0 => InTimerCallback /\ running = te
    /\ te # 0 => where = "timers" \/ InTimerCallback
    /\ where = "timers" /\ prev # 0 => Has(timers, prev)

Clocks ==
    /\ clock \in Nat /\ real \in Nat /\ lastTime \in Nat /\ wait \in Nat \cup {Forever}
    /\ skewed => load.skews # {}
    /\ ~skewed => clock = real + Second /\ lastTime <= Sec
    /\ load.skews # {} => Dispatching \/ where \in {"asleep", "over"} \/ Sec = lastTime

BeforeTurn(t) == When(t) <= t.delay + (Second - 1) + lastTime * Second

OnTime(t) ==
    ~skewed =>
      /\ When(t) = t.due + Second /\ When(t) <= clock + t.delay
      /\ running = t.key => t.due <= real
      /\ where = "asleep" => wait # Forever /\ (wait = 0 \/ real + wait <= t.due)

Bounded(t) ==
    load.skews # {} => BeforeTurn(t) \/ (Dispatching /\ When(t) = clock + t.delay)

TimeInv ==
    /\ Places /\ Clocks
    /\ \A i \in 1..Len(timers) : Timed(timers[i]) /\ OnTime(timers[i]) /\ Bounded(timers[i])

LEMMA SameCarried ==
    ASSUME UNCHANGED timers, NEW i \in 1..Len(timers') PROVE Carried(timers'[i])
BY DEF Carried, SameTime

LEMMA DeleteCarries ==
    ASSUME TimersInv, NEW id, aeDeleteTimeEvent(id), NEW i \in 1..Len(timers')
    PROVE  Carried(timers'[i])
<1>1. timers \in Seq(Timer) /\ DOMAIN timers = 1..Len(timers) /\ Len(timers) \in Nat
  BY LenProperties DEF TimersInv, TimerList
<1>2. timers' = [j \in 1..Len(timers) |->
                    IF timers[j].id = id THEN [timers[j] EXCEPT !.id = AE_DELETED_EVENT_ID]
                    ELSE timers[j]]
  BY <1>1 DEF aeDeleteTimeEvent, Mark
<1>3. i \in 1..Len(timers)
  BY <1>1, <1>2
<1>4. timers[i] \in Timer
  BY <1>1, <1>3, ElementOfSeq
<1>5. SameTime(timers'[i], timers[i])
  BY <1>2, <1>3, <1>4 DEF SameTime, Timer
<1> QED
  BY <1>3, <1>5 DEF Carried

LEMMA RemoveCarries ==
    ASSUME TimersInv, TimerRemoved, NEW i \in 1..Len(timers')
    PROVE  Carried(timers'[i])
<1> DEFINE S == {timers[j] : j \in 1..Len(timers)}
<1>1. /\ timers \in Seq(Timer) /\ DOMAIN timers = 1..Len(timers) /\ Len(timers) \in Nat
      /\ TimerList(timers, nextId) /\ nextId \in Nat
      /\ \A j \in 1..Len(timers) : timers[j] \in S
  BY LenProperties DEF TimersInv, TimerList
<1>2. /\ te # 0 /\ Has(timers, te) /\ (prev = 0 \/ Has(timers, prev))
      /\ timers' = Unlink(te)
  BY DEF TimersInv, Walk, TimerRemoved
<1>3. PosOf(te) \in 1..Len(timers) /\ (prev = 0 \/ PosOf(prev) \in 1..Len(timers))
  BY <1>1, <1>2, PlaceOf DEF Place, PosOf, Positions
<1>4. SubSeq(timers, PosOf(te) + 1, Len(timers)) \in Seq(S)
  <2>1. PosOf(te) + 1 \in Int /\ Len(timers) \in Int
        /\ \A j \in (PosOf(te) + 1)..Len(timers) : timers[j] \in S
    BY <1>1, <1>3
  <2> HIDE DEF S
  <2> QED
    BY <2>1, SubSeqProperties
<1>5. (IF prev = 0 THEN << >> ELSE SubSeq(timers, 1, PosOf(prev))) \in Seq(S)
  <2>1. CASE prev = 0
    BY <2>1, EmptySeq
  <2>2. CASE prev # 0
    <3> HIDE DEF S
    <3>0. PosOf(prev) \in 1..Len(timers)
      BY <1>3, <2>2
    <3>1. PosOf(prev) \in Int /\ \A j \in 1..PosOf(prev) : timers[j] \in S
      BY <1>1, <3>0
    <3> QED
      BY <2>2, <3>1, SubSeqProperties
  <2> QED
    BY <2>1, <2>2
<1> HIDE DEF S
<1>6. timers' \in Seq(S)
  BY <1>2, <1>4, <1>5, ConcatProperties DEF Unlink
<1>7. timers'[i] \in S
  BY <1>6, ElementOfSeq
<1> QED
  BY <1>7 DEF S, Carried, SameTime

LEMMA CreateArms ==
    ASSUME TimersInv, NEW d \in load.delays, aeCreateTimeEvent(d), NEW i \in 1..Len(timers')
    PROVE  Carried(timers'[i]) \/ Armed(timers'[i], nextId)
<1> DEFINE u == [key |-> nextId, id |-> nextId, sec |-> 0, ms |-> 0, delay |-> 0, due |-> 0]
<1>1. u \in Timer /\ u.key = nextId /\ Arm(u, d) \in Timer
  <2>1. u \in Timer /\ d \in Int /\ TimeTypes
    BY DEF Timer, TimersInv, TimeTypes
  <2> QED
    BY <2>1, ArmIs
<1>2. timers' = <<Arm(u, d)>> \o timers
  BY DEF aeCreateTimeEvent
<1> HIDE DEF u
<1> DEFINE a == Arm(u, d)
<1>3. timers \in Seq(Timer) /\ Len(timers) \in Nat
  BY LenProperties DEF TimersInv, TimerList
<1> HIDE DEF a
<1>4. /\ timers' = <<a>> \o timers /\ a \in Timer
      /\ Len(timers') = Len(timers) + 1 /\ timers'[1] = a
      /\ \A j \in 1..Len(timers) : timers'[j + 1] = timers[j]
  BY <1>1, <1>2, <1>3, ConcatProperties DEF a
<1>5. CASE i = 1
  BY <1>1, <1>4, <1>5 DEF Armed, a
<1>6. CASE i # 1
  <2>1. i - 1 \in 1..Len(timers) /\ (i - 1) + 1 = i
    BY <1>3, <1>4, <1>6
  <2>2. timers'[i] = timers[i - 1]
    BY <1>4, <2>1
  <2> QED
    BY <2>1, <2>2 DEF Carried, SameTime
<1> QED
  BY <1>5, <1>6

LEMMA ReturnArms ==
    ASSUME TimersInv, NEW v \in (load.delays \ {0}) \cup {AE_NOMORE}, TimerReturn(v),
           NEW i \in 1..Len(timers')
    PROVE  Carried(timers'[i]) \/ Armed(timers'[i], te)
<1>1. /\ timers \in Seq(Timer) /\ DOMAIN timers = 1..Len(timers) /\ Len(timers) \in Nat
      /\ TimerList(timers, nextId) /\ nextId \in Nat /\ Has(timers, te)
  BY LenProperties DEF TimersInv, TimerList, TimerReturn, Walk
<1>2. PosOf(te) \in 1..Len(timers) /\ timers[PosOf(te)].key = te
  BY <1>1, PlaceOf DEF Place, PosOf, Positions
<1>3. timers' = [timers EXCEPT ![PosOf(te)] =
                    IF v = AE_NOMORE THEN [@ EXCEPT !.id = AE_DELETED_EVENT_ID]
                    ELSE Arm(@, v)]
  BY DEF TimerReturn
<1>4. i \in 1..Len(timers) /\ timers[i] \in Timer
  <2>1. i \in 1..Len(timers)
    BY <1>1, <1>3
  <2> QED
    BY <1>1, <2>1, ElementOfSeq
<1>5. CASE i # PosOf(te)
  BY <1>1, <1>3, <1>4, <1>5 DEF Carried, SameTime
<1>6. CASE i = PosOf(te) /\ v = AE_NOMORE
  <2>1. timers'[i] = [timers[i] EXCEPT !.id = AE_DELETED_EVENT_ID]
    BY <1>1, <1>3, <1>4, <1>6
  <2> QED
    BY <1>4, <2>1 DEF Carried, SameTime, Timer
<1>7. CASE i = PosOf(te) /\ v # AE_NOMORE
  <2>1. timers'[i] = Arm(timers[i], v) /\ v \in load.delays /\ timers[i].key = te
    BY <1>1, <1>2, <1>3, <1>4, <1>7
  <2> QED
    BY <1>4, <2>1 DEF Armed
<1> QED
  BY <1>5, <1>6, <1>7

LEMMA TimeInit == Init => TimeInv
<1> SUFFICES ASSUME Init PROVE TimeInv
  OBVIOUS
<1>1. timers = << >> /\ Len(timers) = 0
  BY EmptySeq DEF Init
<1>2. Places
  BY DEF Init, Places, Dispatching, InCallback, InTimerCallback
<1>3. Clocks
  <2>1. Second \in Nat \ {0} /\ Second \div Second = 1
    BY EventLoopAssumption
  <2> QED
    BY <2>1 DEF Init, Clocks, Sec
<1> QED
  BY <1>1, <1>2, <1>3 DEF TimeInv

\* A timer that is armed now is on time and bounded.
LEMMA ArmedIs ==
    ASSUME TimersInv, TimeInv, NEW t, NEW key, Armed(t, key), where = "client"
    PROVE  /\ Timed(t) /\ When(t) = clock + t.delay /\ t.due = real + t.delay
           /\ t.key = key
           /\ load.skews # {} => BeforeTurn(t) \/ Dispatching
<1>1. PICK u \in Timer, d \in load.delays : t = Arm(u, d) /\ u.key = key
  BY DEF Armed
<1>2. TimeTypes /\ clock \in Nat /\ d \in Nat
  BY DEF TimersInv, TimeTypes, TimeInv, Clocks
<1>3. Timed(t) /\ t.key = u.key /\ t.delay = d /\ t.due = real + d /\ When(t) = clock + d
  BY <1>1, <1>2, ArmSets
<1>4. ASSUME Sec = lastTime PROVE BeforeTurn(t)
  <2>1. Sec \in Nat /\ Ms \in 0..(Second - 1) /\ clock = Sec * Second + Ms
        /\ Second \in Nat /\ Sec * Second \in Int
    BY <1>2, ClockIs, Product, EventLoopAssumption
  <2> QED
    BY <1>2, <1>3, <1>4, <2>1 DEF BeforeTurn
<1>5. load.skews # {} => Dispatching \/ Sec = lastTime
  BY DEF TimeInv, Clocks
<1> QED
  BY <1>1, <1>3, <1>4, <1>5

\* Steps that leave time alone.
Timeless ==
    /\ UNCHANGED <<lastTime, real, clock, skewed>> /\ load'.skews = load.skews
    /\ wait' \in Nat \cup {Forever} /\ (where' = "asleep" => where = "asleep" /\ wait' = wait)
    /\ Dispatching' \/ where' \in {"asleep", "over"} \/ ~(Dispatching \/ where \in {"asleep", "over"})
    /\ Dispatching => Dispatching'
    /\ running' \in {0, running}

LEMMA ClocksKept == ASSUME TimeInv, Timeless PROVE Clocks'
BY DEF TimeInv, Clocks, Timeless, Sec

\* A timer with the times of an old one is as good as that.
LEMMA CarriedKept ==
    ASSUME TimersInv, TimeInv, Timeless, NEW i \in 1..Len(timers'), Carried(timers'[i])
    PROVE  Timed(timers'[i]) /\ OnTime(timers[i])' /\ Bounded(timers[i])'
<1>1. PICK j \in 1..Len(timers) : SameTime(timers'[i], timers[j])
  BY DEF Carried
<1>2. timers[j].key # 0
  BY InTimerList DEF TimersInv
<1>3. Timed(timers[j]) /\ OnTime(timers[j]) /\ Bounded(timers[j])
  BY DEF TimeInv
<1>4. Timed(timers'[i]) /\ When(timers'[i]) = When(timers[j])
  BY <1>1, <1>3 DEF SameTime, Timed, When
<1>5. OnTime(timers[i])'
  <2>1. ~skewed' => ~skewed
    BY DEF Timeless
  <2>2. When(timers[i])' = When(timers[j])
    BY <1>4 DEF When
  <2> QED
    BY <1>1, <1>2, <1>3, <2>1, <2>2 DEF SameTime, OnTime, Timeless
<1>6. Bounded(timers[i])'
  <2>1. When(timers[i])' = When(timers[j])
    BY <1>4 DEF When
  <2> QED
    BY <1>1, <1>3, <2>1 DEF SameTime, Bounded, BeforeTurn, Timeless
<1> QED
  BY <1>4, <1>5, <1>6

\* And so is one that the client arms.
LEMMA ArmedKept ==
    ASSUME TimersInv, TimeInv, Timeless, NEW i \in 1..Len(timers'),
           NEW key, Armed(timers'[i], key), where = "client", where' # "asleep", running' # key
    PROVE  Timed(timers'[i]) /\ OnTime(timers[i])' /\ Bounded(timers[i])'
<1> DEFINE t == timers'[i]
<1>1. /\ Timed(t) /\ When(t) = clock + t.delay /\ t.due = real + t.delay /\ t.key = key
      /\ load.skews # {} => BeforeTurn(t) \/ Dispatching
  BY ArmedIs
<1>2. When(timers[i])' = When(t)
  BY DEF When
<1>3. clock \in Nat /\ real \in Nat /\ t.delay \in Nat /\ Second \in Nat
      /\ (~skewed => clock = real + Second)
  BY <1>1, EventLoopAssumption DEF TimeInv, Clocks, Timed
<1>4. OnTime(timers[i])'
  <2>1. ~skewed => When(t) = t.due + Second
    BY <1>1, <1>3
  <2>2. When(t) <= clock + t.delay
    BY <1>1, <1>3
  <2> QED
    BY <1>1, <1>2, <2>1, <2>2 DEF OnTime, Timeless
<1>5. Bounded(timers[i])'
  BY <1>1, <1>2 DEF Bounded, BeforeTurn, Timeless
<1> QED
  BY <1>1, <1>4, <1>5

\* The event a pass returns to is still there.
LEMMA PrevKept == ASSUME TimersInv, TimerRemoved, prev # 0 PROVE Has(timers', prev)
<1>1. /\ timers \in Seq(Timer) /\ Len(timers) \in Nat
      /\ TimerList(timers, nextId) /\ nextId \in Nat
  BY LenProperties DEF TimersInv, TimerList
<1>2. te # 0 /\ Has(timers, te) /\ Has(timers, prev) /\ timers' = Unlink(te)
      /\ Place(timers, te) = Place(timers, prev) + 1
  BY DEF TimersInv, Walk, TimerRemoved
<1> DEFINE p == PosOf(te)
           q == PosOf(prev)
<1>3. p \in 1..Len(timers) /\ q \in 1..Len(timers) /\ timers[q].key = prev
  BY <1>1, <1>2, PlaceOf DEF Place, PosOf, Positions
<1> DEFINE a == SubSeq(timers, 1, q)
           b == SubSeq(timers, p + 1, Len(timers))
<1>4. timers' = a \o b
  BY <1>2 DEF Unlink
<1> HIDE DEF p, q
<1>5. \A i \in 1..Len(timers) : timers[i] \in Timer
  BY <1>1, ElementOfSeq
<1>6. a \in Seq(Timer) /\ Len(a) = q /\ a[q] = timers[q]
  <2>1. q \in Int /\ 1 \in Int /\ \A i \in 1..q : timers[i] \in Timer
    BY <1>1, <1>3, <1>5
  <2>2. /\ a \in Seq(Timer) /\ Len(a) = IF 1 <= q THEN q - 1 + 1 ELSE 0
        /\ \A i \in 1..(q - 1 + 1) : a[i] = timers[1 + i - 1]
    <3> HIDE DEF a
    <3> QED
      BY <2>1, SubSeqProperties DEF a
  <2> HIDE DEF a
  <2> QED
    BY <1>1, <1>3, <2>2
<1>7. b \in Seq(Timer)
  <2>1. p + 1 \in Int /\ Len(timers) \in Int /\ \A i \in (p + 1)..Len(timers) : timers[i] \in Timer
    BY <1>1, <1>3, <1>5
  <2> QED
    BY <2>1, SubSeqProperties
<1> HIDE DEF a, b
<1>8. Len(b) \in Nat
  BY <1>7, LenProperties
<1>9. Len(timers') = q + Len(b) /\ timers'[q] = a[q]
  <2>1. /\ Len(a \o b) = Len(a) + Len(b)
        /\ \A i \in 1..(Len(a) + Len(b)) : (a \o b)[i] = IF i <= Len(a) THEN a[i] ELSE b[i - Len(a)]
    BY <1>6, <1>7, ConcatProperties
  <2>2. q \in 1..(Len(a) + Len(b)) /\ q <= Len(a)
    BY <1>1, <1>3, <1>6, <1>8
  <2> QED
    BY <1>4, <1>6, <2>1, <2>2
<1> QED
  BY <1>1, <1>3, <1>6, <1>8, <1>9 DEF Has

LEMMA ReturnKeeps == ASSUME TimersInv, NEW v, TimerReturn(v) PROVE Has(timers', te)
<1>1. /\ timers \in Seq(Timer) /\ DOMAIN timers = 1..Len(timers) /\ Len(timers) \in Nat
      /\ TimerList(timers, nextId) /\ nextId \in Nat /\ Has(timers, te) /\ TimeTypes
  BY LenProperties DEF TimersInv, TimerList, TimerReturn, Walk
<1>2. PosOf(te) \in 1..Len(timers) /\ timers[PosOf(te)].key = te
  BY <1>1, PlaceOf DEF Place, PosOf, Positions
<1>3. timers[PosOf(te)] \in Timer
  BY <1>1, <1>2, ElementOfSeq
<1>4. timers'[PosOf(te)].key = te /\ Len(timers') = Len(timers)
  BY <1>1, <1>2, <1>3 DEF TimerReturn, Timer, Arm
<1> QED
  BY <1>1, <1>2, <1>4 DEF Has

LEMMA TimeNext == ASSUME TimersInv, TimeInv, [Next]_vars PROVE TimeInv'
<1>0. /\ TimersInv' /\ Places /\ Clocks /\ Walk(timers) /\ TimeTypes
      /\ timers \in Seq(Timer) /\ Len(timers) \in Nat /\ nextId \in Nat \ {0}
      /\ \A i \in 1..Len(timers) : Timed(timers[i]) /\ OnTime(timers[i]) /\ Bounded(timers[i])
      /\ \A key : Has(timers, key) => key \in Nat /\ 0 < key /\ key < nextId
  BY TimersNext, LenProperties, InTimerList DEF TimersInv, TimerList, TimeInv, Has
<1>1. load' = [load EXCEPT !.calls = @ - 1] => load'.skews = load.skews
  BY <1>0 DEF TimeTypes
<1>2. wait \in Nat \cup {Forever}
  BY <1>0 DEF Clocks
\* Steps that leave time and the list alone.
<1>3. ASSUME Timeless, UNCHANGED timers, Places' PROVE TimeInv'
  BY <1>3, ClocksKept, SameCarried, CarriedKept DEF TimeInv
<1>4. ASSUME UNCHANGED <<list, pass, time>>, load'.skews = load.skews, UNCHANGED <<where, back>>
      PROVE  TimeInv'
  <2>1. Timeless
    BY <1>2, <1>4 DEF Timeless, Dispatching, InCallback, list, pass, time
  <2>2. Places'
    BY <1>0, <1>4 DEF Places, InTimerCallback, list, pass
  <2> QED
    BY <1>3, <1>4, <2>1, <2>2 DEF list
<1>5. CASE \/ \E fd \in load.fds, m \in (SUBSET Kinds) \ {{}}, p \in Procs : aeCreateFileEvent(fd, m, p)
           \/ \E fd \in load.fds, m \in (SUBSET Kinds) \ {{}} : aeDeleteFileEvent(fd, m)
           \/ \E fd \in load.fds : Reopen(fd)
           \/ \E n \in 1..MaxSetsize : aeResizeSetSize(n)
           \/ aeStop
  BY <1>1, <1>4, <1>5
  DEF aeCreateFileEvent, aeDeleteFileEvent, Reopen, aeResizeSetSize, aeStop, Calls
<1>6. CASE UNCHANGED vars
  BY <1>4, <1>6 DEF vars
<1>7. ASSUME NEW d \in load.delays, aeCreateTimeEvent(d) PROVE TimeInv'
  <2>1. /\ where = "client" /\ UNCHANGED <<where, back, lastTime, te, prev, running, wait, real,
                                            clock, skewed>>
        /\ load'.skews = load.skews
    BY <1>1, <1>7 DEF aeCreateTimeEvent, Calls, pass, time
  <2>2. Timeless
    BY <1>2, <2>1 DEF Timeless, Dispatching, InCallback
  <2>3. Places'
    BY <1>0, <2>1 DEF Places, InTimerCallback
  <2>4. running' # nextId
    BY <1>0, <2>1 DEF Places, InTimerCallback, Walk
  <2>5. ASSUME NEW i \in 1..Len(timers')
        PROVE  Timed(timers'[i]) /\ OnTime(timers[i])' /\ Bounded(timers[i])'
    <3>1. CASE Carried(timers'[i])
      BY <2>2, <3>1, CarriedKept
    <3>2. CASE Armed(timers'[i], nextId)
      BY <2>1, <2>2, <2>4, <3>2, ArmedKept
    <3> QED
      BY <1>7, <3>1, <3>2, CreateArms
  <2> QED
    BY <2>2, <2>3, <2>5, ClocksKept DEF TimeInv
<1>8. ASSUME NEW id \in 1..(nextId - 1), aeDeleteTimeEvent(id) PROVE TimeInv'
  <2>1. /\ UNCHANGED <<where, back, lastTime, te, prev, running, wait, real, clock, skewed>>
        /\ load'.skews = load.skews /\ where = "client"
    BY <1>1, <1>8 DEF aeDeleteTimeEvent, Calls, pass, time
  <2>2. Timeless
    BY <1>2, <2>1 DEF Timeless, Dispatching, InCallback
  <2>3. Places'
    BY <1>0, <2>1 DEF Places, InTimerCallback
  <2> QED
    BY <1>8, <2>2, <2>3, DeleteCarries, CarriedKept, ClocksKept DEF TimeInv
<1>9. CASE aeMain
  <2>1. Timeless
    BY <1>2, <1>9 DEF aeMain, Timeless, Dispatching, InCallback, list, pass, time
  <2>2. Places'
    BY <1>0, <1>9 DEF aeMain, Places, InTimerCallback, list, pass
  <2> QED
    BY <1>3, <1>9, <2>1, <2>2 DEF aeMain, list
<1>10. CASE Leave
  <2>1. Timeless
    BY <1>2, <1>10 DEF Leave, Timeless, Dispatching, InCallback, list, pass, time
  <2>2. Places'
    BY <1>0, <1>10 DEF Leave, Places, InTimerCallback, list, pass
  <2> QED
    BY <1>3, <1>10, <2>1, <2>2 DEF Leave, list
<1>11. CASE TimedOut \/ \E ready \in [Fds -> SUBSET Kinds] : WakeUp(ready)
  <2>1. Timeless
    BY <1>2, <1>11 DEF TimedOut, WakeUp, Timeless, Dispatching, InCallback, list, pass, time
  <2>2. Places'
    BY <1>0, <1>11 DEF TimedOut, WakeUp, Places, InTimerCallback, list, pass
  <2> QED
    BY <1>3, <1>11, <2>1, <2>2 DEF TimedOut, WakeUp, list
<1>12. CASE Dispatch
  <2>1. Timeless
    BY <1>2, <1>12 DEF Dispatch, Timeless, Dispatching, InCallback, list, pass, time
  <2>2. Places'
    BY <1>0, <1>12 DEF Dispatch, Places, InTimerCallback, list, pass
  <2> QED
    BY <1>3, <1>12, <2>1, <2>2 DEF Dispatch, list
<1>13. CASE FileReturn
  <2>1. Timeless
    BY <1>2, <1>13 DEF FileReturn, Timeless, Dispatching, InCallback, list, pass, time
  <2>2. Places'
    BY <1>0, <1>13 DEF FileReturn, Places, InTimerCallback, list, pass
  <2> QED
    BY <1>3, <1>13, <2>1, <2>2 DEF FileReturn, list
<1>14. CASE PassOver
  <2>1. Timeless
    BY <1>2, <1>14 DEF PassOver, Timeless, Dispatching, InCallback, list, time
  <2>2. Places'
    BY <1>0, <1>14 DEF PassOver, Places, InTimerCallback, list
  <2> QED
    BY <1>3, <1>14, <2>1, <2>2 DEF PassOver, list
<1>15. CASE TimerPassed
  <2>1. Timeless
    BY <1>2, <1>15 DEF TimerPassed, Timeless, Dispatching, InCallback, list, time
  <2>2. /\ where = "timers" /\ te # 0 /\ te' = NextOf(te) /\ running' = running
        /\ prev' \in {prev, te} /\ UNCHANGED <<timers, where, back>>
    BY <1>15 DEF TimerPassed, list
  <2>3. Has(timers, te)
    BY <1>0, <2>2 DEF Walk
  <2>4. Places'
    BY <1>0, <2>2, <2>3 DEF Places, InTimerCallback
  <2> QED
    BY <1>3, <2>1, <2>2, <2>4
<1>16. CASE TimerRemoved
  <2>1. /\ where = "timers" /\ te # 0 /\ te' = NextOf(te) /\ running' = running /\ prev' = prev
        /\ UNCHANGED <<where, back, lastTime, wait, real, clock, skewed, load>>
    BY <1>16 DEF TimerRemoved, time
  <2>2. Timeless
    BY <1>2, <2>1 DEF Timeless, Dispatching, InCallback
  <2>3. prev # 0 => Has(timers', prev)
    BY <1>16, PrevKept
  <2>4. Places'
    BY <1>0, <2>1, <2>3 DEF Places, InTimerCallback
  <2> QED
    BY <1>16, <2>2, <2>4, RemoveCarries, CarriedKept, ClocksKept DEF TimeInv
\* The event that runs is due.
<1>17. CASE TimerRuns
  <2>1. /\ where = "timers" /\ te # 0 /\ HasCome(Event(te)) /\ running' = te
        /\ where' = "client" /\ back' = "timers" /\ UNCHANGED <<timers, te, prev, lastTime>>
        /\ UNCHANGED <<wait, real, clock, skewed, load>>
    BY <1>17 DEF TimerRuns, list, time
  <2>2. Places'
    BY <1>0, <2>1 DEF Places, InTimerCallback
  <2>3. Clocks'
    BY <1>0, <2>1 DEF Clocks, Sec, Dispatching, InCallback
  <2>4. ASSUME NEW i \in 1..Len(timers), timers[i].key = te, ~skewed PROVE timers[i].due <= real
    <3>1. PosOf(te) = i
      BY <1>0, <2>4, PlaceIs DEF Place, PosOf, Positions, TimersInv
    <3>2. HasCome(timers[i])
      BY <2>1, <3>1 DEF Event
    <3>3. When(timers[i]) <= clock
      BY <1>0, <3>2, Comes DEF Clocks
    <3>4. When(timers[i]) = timers[i].due + Second /\ clock = real + Second
      BY <1>0, <2>4 DEF OnTime, Clocks
    <3> DEFINE d == timers[i].due
    <3>5. d \in Int /\ Second \in Nat /\ clock \in Nat /\ real \in Nat
      <4>1. timers[i] \in Timer
        BY <1>0, ElementOfSeq
      <4> QED
        BY <1>0, <4>1, EventLoopAssumption DEF Timer, Clocks
    <3>6. d + Second <= clock /\ clock = real + Second
      BY <3>3, <3>4
    <3> HIDE DEF d
    <3>7. d <= real
      BY <3>5, <3>6
    <3> QED
      BY <3>7 DEF d
  <2>5. ASSUME NEW i \in 1..Len(timers')
        PROVE  Timed(timers'[i]) /\ OnTime(timers[i])' /\ Bounded(timers[i])'
    <3>1. i \in 1..Len(timers) /\ timers'[i] = timers[i]
      BY <2>1
    <3>2. OnTime(timers[i])'
      BY <1>0, <2>1, <2>4, <3>1 DEF OnTime, When
    <3>3. Bounded(timers[i])'
      BY <1>0, <2>1, <3>1 DEF Bounded, BeforeTurn, When, Dispatching, InCallback
    <3> QED
      BY <1>0, <3>1, <3>2, <3>3
  <2> QED
    BY <2>2, <2>3, <2>5 DEF TimeInv
<1>18. ASSUME NEW v \in (load.delays \ {0}) \cup {AE_NOMORE}, TimerReturn(v) PROVE TimeInv'
  <2>1. /\ where = "client" /\ back = "timers" /\ where' = "timers" /\ back' = "loop"
        /\ te' = NextOf(te) /\ prev' = te /\ running' = 0
        /\ UNCHANGED <<lastTime, wait, real, clock, skewed, load>>
    BY <1>18 DEF TimerReturn, time
  <2>2. Timeless
    BY <1>2, <2>1 DEF Timeless, Dispatching, InCallback
  <2>3. te # 0 /\ Has(timers', te)
    BY <1>0, <1>18, <2>1, ReturnKeeps DEF Walk
  <2>4. Places'
    BY <1>0, <2>1, <2>3 DEF Places, InTimerCallback
  <2>5. ASSUME NEW i \in 1..Len(timers')
        PROVE  Timed(timers'[i]) /\ OnTime(timers[i])' /\ Bounded(timers[i])'
    <3>1. CASE Carried(timers'[i])
      BY <2>2, <3>1, CarriedKept
    <3>2. CASE Armed(timers'[i], te)
      BY <2>1, <2>2, <2>3, <3>2, ArmedKept
    <3> QED
      BY <1>18, <3>1, <3>2, ReturnArms
  <2> QED
    BY <2>2, <2>4, <2>5, ClocksKept DEF TimeInv
<1>19. CASE Sleep
  <2>1. /\ where = "enter" /\ where' = "asleep" /\ wait' = Timeout
        /\ UNCHANGED <<timers, te, prev, running, back, lastTime, real, clock, skewed, load>>
    BY <1>19 DEF Sleep, list, pass
  <2>2. Places'
    BY <1>0, <2>1 DEF Places, InTimerCallback
  <2>3. /\ Timeout \in Nat \cup {Forever}
        /\ \A i \in 1..Len(timers) :
              Timeout # Forever /\ (Timeout = 0 \/ clock + Timeout <= When(timers[i]))
    BY <1>0, TimeoutIs DEF Clocks
  <2>4. Clocks'
    BY <1>0, <2>1, <2>3 DEF Clocks, Sec
  <2>5. ASSUME NEW i \in 1..Len(timers), ~skewed
        PROVE  wait' # Forever /\ (wait' = 0 \/ real + wait' <= timers[i].due)
    <3>1. When(timers[i]) = timers[i].due + Second /\ clock = real + Second
      BY <1>0, <2>5 DEF OnTime, Clocks
    <3> DEFINE d == timers[i].due
    <3>2. d \in Int /\ Second \in Nat /\ clock \in Nat /\ real \in Nat
      <4>1. timers[i] \in Timer
        BY <1>0, ElementOfSeq
      <4> QED
        BY <1>0, <4>1, EventLoopAssumption DEF Timer, Clocks
    <3>3. /\ wait' \in Nat /\ wait' # Forever /\ clock = real + Second
          /\ wait' = 0 \/ clock + wait' <= d + Second
      BY <2>1, <2>3, <2>5, <3>1
    <3> HIDE DEF d
    <3> DEFINE w == wait'
    <3>4. w \in Nat /\ (w = 0 \/ real + Second + w <= d + Second)
      BY <3>3
    <3> HIDE DEF w
    <3>5. w = 0 \/ real + w <= d
      BY <3>2, <3>4
    <3> QED
      BY <3>3, <3>5 DEF d, w
  <2>6. ASSUME NEW i \in 1..Len(timers')
        PROVE  Timed(timers'[i]) /\ OnTime(timers[i])' /\ Bounded(timers[i])'
    <3>1. i \in 1..Len(timers) /\ timers'[i] = timers[i]
      BY <2>1
    <3>2. OnTime(timers[i])'
      BY <1>0, <2>1, <2>5, <3>1 DEF OnTime, When
    <3>3. Bounded(timers[i])'
      BY <1>0, <2>1, <3>1 DEF Bounded, BeforeTurn, When, Dispatching, InCallback
    <3> QED
      BY <1>0, <3>1, <3>2, <3>3
  <2> QED
    BY <2>2, <2>4, <2>6 DEF TimeInv
\* A clock that went back makes everything due; otherwise a second has begun
\* that all timers armed so far are before, but for their delay.
<1>20. CASE TimersBegin
  <2>1. /\ where = "dispatch" /\ where' = "timers" /\ prev' = 0 /\ lastTime' = Sec
        /\ UNCHANGED <<running, back, wait, real, clock, skewed, load>>
    BY <1>20 DEF TimersBegin, time
  <2>2. running = 0 /\ running' = 0
    BY <1>0, <2>1 DEF Places, InTimerCallback
  <2>3. Places'
    BY <1>0, <2>1, <2>2 DEF Places, InTimerCallback
  <2>4. Sec \in Nat /\ Ms \in 0..(Second - 1) /\ clock = Sec * Second + Ms /\ Sec' = Sec
    BY <1>0, <2>1, ClockIs DEF Clocks, Sec
  <2>5. Clocks'
    BY <1>0, <2>1, <2>4 DEF Clocks
  <2>6. ~Dispatching'
    BY <2>1 DEF Dispatching, InCallback
  <2>7. CASE ClockSet
    <3>1. skewed /\ skewed'
      BY <1>0, <2>1, <2>4, <2>7 DEF ClockSet, Clocks
    <3>2. timers' = [i \in 1..Len(timers) |-> [timers[i] EXCEPT !.sec = 0]]
      BY <1>0, <1>20, <2>7, LenProperties DEF TimersBegin
    <3>3. ASSUME NEW i \in 1..Len(timers')
          PROVE  Timed(timers'[i]) /\ OnTime(timers[i])' /\ Bounded(timers[i])'
      <4>1. i \in 1..Len(timers) /\ timers'[i] = [timers[i] EXCEPT !.sec = 0]
        BY <1>0, <3>2
      <4>2. timers[i] \in Timer /\ Timed(timers[i])
        BY <1>0, <4>1, ElementOfSeq
      <4>3. Timed(timers'[i]) /\ timers'[i].sec = 0
        BY <4>1, <4>2 DEF Timer, Timed
      <4>4. OnTime(timers[i])'
        BY <3>1 DEF OnTime
      <4>5. BeforeTurn(timers[i])'
        <5> DEFINE d == timers'[i].delay
                   m == timers'[i].ms
                   q == lastTime' * Second
        <5>1. d \in Nat /\ m \in 0..(Second - 1) /\ Second \in Nat /\ q \in Nat
          <6>1. Sec * Second \in Nat
            BY <2>4, EventLoopAssumption
          <6> QED
            BY <2>1, <4>3, <6>1, EventLoopAssumption DEF Timed
        <5>2. When(timers[i])' = m
          <6>1. 0 * Second = 0
            BY Product
          <6> HIDE DEF q, d
          <6> QED
            BY <4>3, <5>1, <6>1 DEF When
        <5> HIDE DEF d, m, q
        <5>3. m <= d + (Second - 1) + q
          BY <5>1
        <5> QED
          BY <5>2, <5>3 DEF BeforeTurn, d, q
      <4> QED
        BY <4>3, <4>4, <4>5 DEF Bounded
    <3> QED
      BY <2>3, <2>5, <3>3 DEF TimeInv
  <2>8. CASE ~ClockSet
    <3>1. timers' = timers /\ lastTime <= Sec
      BY <1>0, <1>20, <2>4, <2>8 DEF TimersBegin, ClockSet, Clocks
    <3>2. lastTime * Second <= Sec * Second /\ lastTime * Second \in Int /\ Sec * Second \in Int
      <4>1. lastTime \in Nat /\ Second \in Nat
        BY <1>0, EventLoopAssumption DEF Clocks
      <4>2. lastTime < Sec => lastTime * Second + Second <= Sec * Second
        BY <2>4, <4>1, Product
      <4>3. lastTime * Second \in Int /\ Sec * Second \in Int
        BY <2>4, <4>1, Product
      <4> QED
        BY <2>4, <3>1, <4>1, <4>2, <4>3
    <3>3. ASSUME NEW i \in 1..Len(timers')
          PROVE  Timed(timers'[i]) /\ OnTime(timers[i])' /\ Bounded(timers[i])'
      <4>1. i \in 1..Len(timers) /\ timers'[i] = timers[i] /\ When(timers[i])' = When(timers[i])
        BY <3>1 DEF When
      <4>2. Timed(timers[i]) /\ OnTime(timers[i]) /\ Bounded(timers[i]) /\ timers[i].key # 0
        <5>1. Has(timers, timers[i].key)
          BY <4>1 DEF Has
        <5> QED
          BY <1>0, <4>1, <5>1
      <4>3. OnTime(timers[i])'
        BY <2>1, <2>2, <4>1, <4>2 DEF OnTime
      <4>4. ASSUME load.skews # {} PROVE BeforeTurn(timers[i])'
        <5> DEFINE w == When(timers[i])
                   d == timers[i].delay
                   p == lastTime * Second
                   q == Sec * Second
        <5>1. w <= d + (Second - 1) + p \/ w = clock + d
          BY <4>2, <4>4 DEF Bounded, BeforeTurn
        <5>2. /\ w \in Nat /\ d \in Nat /\ p \in Int /\ q \in Int /\ p <= q /\ Second \in Nat
              /\ Ms \in 0..(Second - 1) /\ clock = q + Ms
          BY <2>4, <3>2, <4>2, WhenIs, EventLoopAssumption DEF Timed
        <5> HIDE DEF w, d, p, q
        <5>3. w <= d + (Second - 1) + q
          BY <5>1, <5>2
        <5> QED
          BY <2>1, <3>1, <4>1, <5>3 DEF BeforeTurn, w, d, q
      <4>5. Bounded(timers[i])'
        BY <2>1, <4>4 DEF Bounded
      <4> QED
        BY <4>1, <4>2, <4>3, <4>5
    <3> QED
      BY <2>3, <2>5, <3>3 DEF TimeInv
  <2> QED
    BY <2>7, <2>8
<1>21. CASE Tick
  <2>1. /\ UNCHANGED <<load, where, back, timers, lastTime, te, prev, running, skewed>>
        /\ real' = real + 1 /\ clock' = clock + 1
        /\ wait' = IF where = "asleep" /\ wait > 0 THEN wait - 1 ELSE wait
        /\ (where = "client" /\ load.skews = {}) \/ (where = "asleep" /\ wait # 0)
    BY <1>21 DEF Tick, list, pass
  <2>2. Places'
    BY <1>0, <2>1 DEF Places, InTimerCallback
  <2>3. real \in Nat /\ clock \in Nat /\ Second \in Nat /\ wait \in Nat \cup {-1}
    BY <1>0, EventLoopAssumption DEF Clocks, Forever
  <2>4. Sec \in Nat /\ Sec' \in Nat /\ Sec <= Sec'
    <3>1. clock \in Int /\ clock + 1 \in Int /\ clock <= clock + 1 /\ clock + 1 \in Nat
      BY <2>3
    <3> QED
      BY <2>1, <2>3, <3>1, DivisionMonotone, DivisionNat DEF Sec
  <2>5. wait' \in Nat \cup {-1}
    BY <2>1, <2>3
  <2>6. Clocks'
    <3>1. /\ clock' \in Nat /\ real' \in Nat /\ lastTime' \in Nat
          /\ skewed' => load'.skews # {}
          /\ load'.skews # {} => where' = "asleep"
      BY <1>0, <2>1, <2>3 DEF Clocks
    <3>2. ASSUME ~skewed' PROVE clock' = real' + Second /\ lastTime' <= Sec'
      BY <1>0, <2>1, <2>3, <2>4, <3>2 DEF Clocks
    <3> HIDE DEF Sec
    <3> QED
      BY <2>5, <3>1, <3>2 DEF Clocks, Forever
  <2>7. ASSUME NEW i \in 1..Len(timers')
        PROVE  Timed(timers'[i]) /\ OnTime(timers[i])' /\ Bounded(timers[i])'
    <3> DEFINE d == timers[i].delay
               u == timers[i].due
    <3>1. i \in 1..Len(timers) /\ timers'[i] = timers[i] /\ When(timers[i])' = When(timers[i])
      BY <2>1 DEF When
    <3>2. Timed(timers[i]) /\ OnTime(timers[i]) /\ Bounded(timers[i])
      BY <1>0, <3>1
    <3>3. When(timers[i]) \in Nat /\ d \in Nat /\ u \in Int
      <4>1. timers[i] \in Timer
        BY <1>0, <3>1, ElementOfSeq
      <4> QED
        BY <3>2, <4>1, WhenIs DEF Timer, Timed
    <3>4. OnTime(timers[i])'
      <4> SUFFICES ASSUME ~skewed
                   PROVE  /\ When(timers[i]) = u + Second /\ When(timers[i]) <= clock' + d
                          /\ running = timers[i].key => u <= real'
                          /\ where = "asleep" => wait' # -1 /\ (wait' = 0 \/ real' + wait' <= u)
        BY <2>1, <3>1 DEF OnTime, Forever
      <4>1. /\ When(timers[i]) = u + Second /\ When(timers[i]) <= clock + d
            /\ running = timers[i].key => u <= real
            /\ where = "asleep" => wait # -1 /\ (wait = 0 \/ real + wait <= u)
        BY <3>2 DEF OnTime, Forever
      <4> HIDE DEF d, u
      <4>2. When(timers[i]) <= clock' + d
        BY <2>1, <2>3, <3>3, <4>1
      <4>3. ASSUME running = timers[i].key PROVE u <= real'
        BY <2>1, <2>3, <3>3, <4>1, <4>3
      <4>4. ASSUME where = "asleep" PROVE wait' # -1 /\ (wait' = 0 \/ real' + wait' <= u)
        <5>1. /\ wait \in Nat /\ wait > 0 /\ real + wait <= u
              /\ wait' = wait - 1 /\ real' = real + 1
          BY <2>1, <2>3, <4>1, <4>4
        <5> QED
          BY <2>3, <3>3, <5>1
      <4> QED
        BY <4>1, <4>2, <4>3, <4>4
    <3>5. Bounded(timers[i])'
      <4>1. ASSUME load.skews # {} PROVE BeforeTurn(timers[i])
        BY <2>1, <3>2, <4>1 DEF Bounded, Dispatching, InCallback
      <4> QED
        BY <2>1, <3>1, <4>1 DEF Bounded, BeforeTurn
    <3> QED
      BY <3>1, <3>2, <3>4, <3>5
  <2> QED
    BY <2>2, <2>6, <2>7 DEF TimeInv
<1>22. ASSUME NEW step \in load.skews, SetClock(step) PROVE TimeInv'
  <2>1. /\ where = "asleep" /\ skewed' /\ load'.skews = load.skews /\ load.skews # {}
        /\ clock' = clock + step /\ clock + step \in 0..(MaxTime - wait)
        /\ UNCHANGED <<where, back, timers, lastTime, te, prev, running, wait, real>>
    BY <1>1, <1>22 DEF SetClock, list, pass
  <2>2. Places'
    BY <1>0, <2>1 DEF Places, InTimerCallback
  <2>3. Clocks'
    <3>1. clock' \in Nat
      <4>1. MaxTime - wait \in Int
        BY <1>0, EventLoopAssumption DEF Clocks, Forever
      <4> QED
        BY <2>1, <4>1
    <3> QED
      BY <1>0, <2>1, <3>1 DEF Clocks
  <2>4. ASSUME NEW i \in 1..Len(timers')
        PROVE  Timed(timers'[i]) /\ OnTime(timers[i])' /\ Bounded(timers[i])'
    <3>1. i \in 1..Len(timers) /\ timers'[i] = timers[i] /\ When(timers[i])' = When(timers[i])
      BY <2>1 DEF When
    <3>2. Timed(timers[i]) /\ BeforeTurn(timers[i])
      BY <1>0, <2>1, <3>1 DEF Bounded, Dispatching, InCallback
    <3> QED
      BY <2>1, <3>1, <3>2 DEF OnTime, Bounded, BeforeTurn
  <2> QED
    BY <2>2, <2>3, <2>4 DEF TimeInv
<1> QED
  BY <1>5, <1>6, <1>7, <1>8, <1>9, <1>10, <1>11, <1>12, <1>13, <1>14, <1>15, <1>16, <1>17,
     <1>18, <1>19, <1>20, <1>21, <1>22 DEF Next, Client, Loop

-----------------------------------------------------------------------------
LEMMA HasPosition ==
    ASSUME TimersInv, NEW key, Has(timers, key)
    PROVE  Positions(key) # {}
BY DEF TimersInv, TimerList, Has, Positions

\* Unless the clock was set, no timer runs before its delay is over, and the loop
\* sleeps past none: with the carry of aeAddMillisecondsToNow, the order of
\* aeSearchNearestTimer and the difference aeProcessEvents makes of the two.
THEOREM TimersRunOnTime == Spec => []TimersOnTime
<1>1. TimersInv /\ TimeInv => TimersOnTime
  <2> SUFFICES ASSUME TimersInv, TimeInv, ~skewed PROVE TimersOnTime
    BY DEF TimersOnTime
  <2>1. /\ timers \in Seq(Timer) /\ DOMAIN timers = 1..Len(timers)
        /\ TimerList(timers, nextId) /\ nextId \in Nat
        /\ \A i \in 1..Len(timers) : OnTime(timers[i])
    BY LenProperties DEF TimersInv, TimerList, TimeInv
  <2>2. ASSUME running # 0 PROVE Event(running).due <= real
    <3>1. running = te /\ Has(timers, te)
      BY <2>2 DEF TimersInv, Walk, TimeInv, Places, InTimerCallback
    <3>2. PICK i \in 1..Len(timers) : timers[i].key = running
      BY <3>1 DEF Has
    <3>3. PosOf(running) = i
      BY <2>1, <3>2, PlaceIs DEF Place, PosOf, Positions
    <3> QED
      BY <2>1, <3>2, <3>3 DEF Event, OnTime
  <2>3. ASSUME where = "asleep", NEW i \in DOMAIN timers
        PROVE  wait # Forever /\ (wait = 0 \/ real + wait <= timers[i].due)
    BY <2>1, <2>3 DEF OnTime
  <2> QED
    BY <2>2, <2>3 DEF TimersOnTime
<1> QED
  BY <1>1, TimersInit, TimersNext, TimeInit, TimeNext, PTL DEF Spec

\* However the clock is set while the loop sleeps, the pass that follows leaves
\* no timer that has longer to wait than its delay and the rest of a second:
\* it compares only seconds with lastTime, so that much is not noticed.
THEOREM DelaysAreBounded == Spec => []DelayBounded
<1>1. TimersInv /\ TimeInv => DelayBounded
  <2> SUFFICES ASSUME TimersInv, TimeInv, where = "enter", NEW i \in DOMAIN timers
               PROVE  When(timers[i]) - clock <= timers[i].delay + Second - 1
    BY DEF DelayBounded
  <2> DEFINE w == When(timers[i])
             d == timers[i].delay
             q == Sec * Second
  <2>1. i \in 1..Len(timers)
    BY LenProperties DEF TimersInv, TimerList
  <2>2. Timed(timers[i]) /\ OnTime(timers[i]) /\ Bounded(timers[i]) /\ Clocks
    BY <2>1 DEF TimeInv
  <2>3. /\ w \in Nat /\ d \in Nat /\ Second \in Nat \ {0} /\ clock \in Nat
        /\ q \in Int /\ Ms \in 0..(Second - 1) /\ clock = q + Ms
    <3>1. clock \in Nat /\ Sec \in Nat
      BY <2>2, ClockIs DEF Clocks
    <3> QED
      BY <2>2, <3>1, ClockIs, WhenIs, Product, EventLoopAssumption DEF Timed
  <2>4. w <= clock + d \/ w <= d + (Second - 1) + q
    <3>1. CASE load.skews = {}
      BY <2>2, <3>1 DEF Clocks, OnTime
    <3>2. CASE load.skews # {}
      BY <2>2, <3>2 DEF Clocks, Bounded, BeforeTurn, Dispatching, InCallback
    <3> QED
      BY <3>1, <3>2
  <2> HIDE DEF w, d, q
  <2>5. w - clock <= d + Second - 1
    BY <2>3, <2>4
  <2> QED
    BY <2>5 DEF w, d
<1> QED
  BY <1>1, TimersInit, TimersNext, TimeInit, TimeNext, PTL DEF Spec

\* The state is well typed: a pass stands on events that are in the list, the
\* time to sleep is one, and no time holds more than a second of milliseconds.
THEOREM TypesHold == Spec => []TypeOK
<1>1. FilesInv /\ TimersInv /\ TimeInv => TypeOK
  <2> SUFFICES ASSUME FilesInv, TimersInv, TimeInv PROVE TypeOK
    OBVIOUS
  <2>1. /\ mask \in [Fds -> SUBSET Kinds] /\ k.kern \in [Fds -> SUBSET Kinds]
        /\ rproc \in [Fds -> Procs \cup {NoProc}] /\ wproc \in [Fds -> Procs \cup {NoProc}]
        /\ maxfd \in (-1)..(setsize - 1) /\ setsize \in 1..MaxSetsize
    BY DEF FilesInv, FileTypes, KernelInv, BackEnd, Table
  <2>2. /\ where \in {"client", "enter", "asleep", "dispatch", "timers", "over"}
        /\ back \in {"main", "loop", "dispatch", "timers"}
        /\ wait \in Nat \cup {Forever}
    BY DEF TimeInv, Places, Clocks
  <2>3. live \subseteq 1..nextId
    <3> SUFFICES ASSUME NEW x \in live PROVE x \in 1..nextId
      OBVIOUS
    <3>1. DOMAIN timers = 1..Len(timers) /\ TimerList(timers, nextId) /\ nextId \in Nat
      BY LenProperties DEF TimersInv, TimerList
    <3>2. PICK i \in 1..Len(timers) : x = timers[i].id /\ x # AE_DELETED_EVENT_ID
      BY <3>1 DEF TimersInv, Ids
    <3> QED
      BY <3>1, <3>2, InTimerList
  <2>4. te # 0 => Positions(te) # {}
    BY HasPosition DEF TimersInv, Walk, TimeInv, Places, InTimerCallback
  <2>5. where = "timers" /\ prev # 0 => Positions(prev) # {}
    BY HasPosition DEF TimeInv, Places
  <2>6. \A i \in DOMAIN timers : timers[i].ms \in 0..(Second - 1) /\ timers[i].sec \in Nat
    BY LenProperties DEF TimersInv, TimerList, TimeInv, Timed
  <2> QED
    BY <2>1, <2>2, <2>3, <2>4, <2>5, <2>6 DEF TypeOK
<1> QED
  BY <1>1, FilesInit, FilesNext, TimersInit, TimersNext, TimeInit, TimeNext, PTL DEF Spec
=============================================================================
