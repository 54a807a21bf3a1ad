------------------------------ MODULE EventLoop ------------------------------
(***************************************************************************)
(* The event loop of ae.c with any of its back ends: the table of file     *)
(* events, the list of time events, and aeMain, which sleeps, calls back   *)
(* for what was reported, and then passes over the timers.                 *)
(*                                                                         *)
(* The client is anything that uses the loop: it calls before aeMain and   *)
(* from within callbacks, which is where the loop's own variables change   *)
(* under its feet.  wrk sets no beforesleep and passes no finalizer; both  *)
(* are left out.                                                           *)
(*                                                                         *)
(* Time is counted in milliseconds.  real is the time that passes, clock   *)
(* what gettimeofday says of it, which someone may set while the loop is   *)
(* asleep.                                                                 *)
(***************************************************************************)
EXTENDS AeApi, FiniteSets

CONSTANTS
    MaxSetsize,\* bound on setsize; aeCreateEventLoop is called with this
    Procs,     \* callbacks for file events
    Second,    \* milliseconds in a second
    Loads,     \* what the client may do: records [apis, calls, ops, fails,
               \* fds, delays, skews]: with which back ends, how many calls,
               \* which, whether adding an event may fail, on which
               \* descriptors, the delays of its timers, the steps the clock
               \* may be set by
    MaxTime    \* bound on real and clock

Apis == {"epoll", "select", "kqueue", "evport"}

ASSUME EventLoopAssumption ==
    /\ MaxSetsize \in Nat \ {0} /\ Second \in Nat \ {0} /\ MaxTime \in Nat
    /\ Loads \subseteq [apis : SUBSET Apis, calls : Nat, ops : SUBSET STRING, fails : BOOLEAN,
                        fds : SUBSET (0..(MaxSetsize - 1)), delays : SUBSET Nat,
                        skews : SUBSET Int]

VARIABLES
    api, load,
    mask, rproc, wproc, \* the table, eventLoop->events
    maxfd, setsize, stop,
    k,         \* the kernel's and the back end's part
    gen,       \* how often the descriptor's number was given out (history)
    fired,     \* the entries of eventLoop->fired still to be looked at
    half,      \* of the first entry, the event looked at next
    rfired,
    where,     \* "client", "enter", "asleep", "dispatch", "timers" or "over"
    back,      \* where the client's code returns to, "loop" outside it
    called,    \* the descriptor the client is called back for, or NoFd (history)
    own,       \* the event it is called back for is one of this use of the
               \* descriptor, or this use has two handlers (history)
    timers,    \* timeEventHead
    nextId,    \* timeEventNextId
    lastTime, te, prev, maxId, \* processTimeEvents
    running,   \* the timer called back, or 0
    wait,      \* what is left of the time to sleep, Forever without a timer
    real, clock, skewed, live \* live: timers set and not yet finished (history)

files == <<mask, rproc, wproc, maxfd, setsize, k, gen>>
dispatch == <<fired, half, rfired, called, own>>
list  == <<timers, nextId, live>>
pass  == <<lastTime, te, prev, maxId, running>>
time  == <<wait, real, clock, skewed>>
vars  == <<api, load, stop, where, back, files, dispatch, list, pass, time>>

Fds == 0..(MaxSetsize - 1)
AE_DELETED_EVENT_ID == -1
AE_NOMORE == -1
Forever == -1

\* A descriptor not in the table has no handlers worth remembering.
NoProc == "none"

-----------------------------------------------------------------------------
(***************************************************************************)
(* Time.  A time event holds seconds and milliseconds; key is the id it    *)
(* was given, due when in real time it should run.                         *)
(***************************************************************************)
Sec == clock \div Second
Ms  == clock % Second

\* aeAddMillisecondsToNow.
AddMilliseconds_KeepMs(d) ==
    [sec |-> Sec + d \div Second + (IF Ms + (d % Second) >= Second THEN 1 ELSE 0),
     ms |-> Ms + (d % Second)]
AddMilliseconds(d) ==
    LET ms == Ms + (d % Second)
    IN  IF ms >= Second THEN [sec |-> Sec + d \div Second + 1, ms |-> ms - Second]
        ELSE [sec |-> Sec + d \div Second, ms |-> ms]

Arm(t, d) == LET w == AddMilliseconds(d)
             IN  [t EXCEPT !.sec = w.sec, !.ms = w.ms, !.delay = d, !.due = real + d]

When(t) == t.sec * Second + t.ms
HasCome(t) == Sec > t.sec \/ (Sec = t.sec /\ Ms >= t.ms)

Positions(key) == {i \in DOMAIN timers : timers[i].key = key}
PosOf(key) == CHOOSE i \in Positions(key) : TRUE
Event(key) == timers[PosOf(key)]

\* te->next, 0 at the end of the list.
NextOf(key) == IF PosOf(key) = Len(timers) THEN 0 ELSE timers[PosOf(key) + 1].key
Head0(s) == IF s = << >> THEN 0 ELSE s[1].key

Nearer(a, b) == a.sec < b.sec \/ (a.sec = b.sec /\ a.ms < b.ms)

\* aeSearchNearestTimer, deleted events included; the list is not empty.
NearestByMs == CHOOSE i \in DOMAIN timers : \A j \in DOMAIN timers : timers[i].ms <= timers[j].ms
Nearest == CHOOSE i \in DOMAIN timers :
               \A j \in DOMAIN timers : IF j < i THEN Nearer(timers[i], timers[j])
                                        ELSE ~Nearer(timers[j], timers[i])

-----------------------------------------------------------------------------
Init ==
    /\ load \in Loads /\ api \in load.apis
    /\ mask = [fd \in Fds |-> {}] /\ rproc = [fd \in Fds |-> NoProc] /\ wproc = rproc
    /\ maxfd = -1 /\ setsize = MaxSetsize /\ stop = FALSE
    /\ k = aeApiCreate(Fds) /\ gen = [fd \in Fds |-> 0]
    /\ fired = << >> /\ half = R /\ rfired = FALSE /\ called = NoFd /\ own = TRUE
    /\ where = "client" /\ back = "main"
    /\ timers = << >> /\ nextId = 1 /\ live = {}
    /\ te = 0 /\ prev = 0 /\ maxId = 0 /\ running = 0
    /\ wait = 0 /\ real = 0 /\ clock = Second /\ lastTime = 1 /\ skewed = FALSE

-----------------------------------------------------------------------------
(***************************************************************************)
(* The client's calls.                                                     *)
(***************************************************************************)
Calls(op) ==
    /\ where = "client" /\ op \in load.ops /\ load.calls > 0
    /\ load' = [load EXCEPT !.calls = @ - 1]
    /\ UNCHANGED <<api, where, back, dispatch, pass, time>>

aeCreateFileEvent(fd, m, proc) ==
    /\ Calls("file")
    /\ fd < setsize
    /\ \E r \in aeApiAddEvent(api, k, mask, fd, m) :
         /\ r.ok \/ load.fails
         /\ k' = r.k
         /\ mask'  = IF r.ok THEN [mask EXCEPT ![fd] = @ \cup m] ELSE mask
         /\ rproc' = IF r.ok /\ R \in m THEN [rproc EXCEPT ![fd] = proc] ELSE rproc
         /\ wproc' = IF r.ok /\ W \in m THEN [wproc EXCEPT ![fd] = proc] ELSE wproc
         /\ maxfd' = IF r.ok /\ fd > maxfd THEN fd ELSE maxfd
    /\ UNCHANGED <<setsize, stop, gen, list>>

\* The highest descriptor below fd that is registered.
MaxBelow_Stops(table, fd) == fd - 1
MaxBelow(table, fd) ==
    LET up == {j \in 0..(fd - 1) : table[j] # {}}
    IN  IF up = {} THEN -1 ELSE CHOOSE j \in up : \A i \in up : i <= j

aeDeleteFileEvent(fd, m) ==
    /\ Calls("file")
    /\ fd < setsize /\ mask[fd] # {}
    /\ k' = aeApiDelEvent(api, k, mask, fd, m)
    /\ mask' = [mask EXCEPT ![fd] = @ \ m]
    /\ maxfd' = IF fd = maxfd /\ mask'[fd] = {} THEN MaxBelow(mask', fd) ELSE maxfd
    /\ UNCHANGED <<rproc, wproc, setsize, stop, gen, list>>

\* close(), when nothing is registered, and the number is given out again: a
\* callback for a file event closes its own descriptor, as reconnect_socket does.
Reopen(fd) ==
    /\ Calls("reopen")
    /\ mask[fd] = {} /\ called \in {fd, NoFd}
    /\ k' = Closed(api, k, fd)
    /\ gen' = [gen EXCEPT ![fd] = @ + 1]
    /\ UNCHANGED <<mask, rproc, wproc, maxfd, setsize, stop, list>>

\* Nothing in wrk resizes a running loop.  Only select has a limit, which is
\* above MaxSetsize here.
aeResizeSetSize(n) ==
    /\ Calls("resize")
    /\ back = "main"
    /\ maxfd < n
    /\ setsize' = n
    /\ mask' = [fd \in Fds |-> IF fd \in (maxfd + 1)..(n - 1) THEN {} ELSE mask[fd]]
    /\ UNCHANGED <<rproc, wproc, maxfd, k, gen, stop, list>>

aeCreateTimeEvent(d) ==
    /\ Calls("timer")
    /\ timers' = <<Arm([key |-> nextId, id |-> nextId, sec |-> 0, ms |-> 0, delay |-> 0,
                        due |-> 0], d)>> \o timers
    /\ live' = live \cup {nextId}
    /\ nextId' = nextId + 1
    /\ UNCHANGED <<files, stop>>

Mark(id) == [i \in DOMAIN timers |->
                IF timers[i].id = id THEN [timers[i] EXCEPT !.id = AE_DELETED_EVENT_ID]
                ELSE timers[i]]

aeDeleteTimeEvent(id) ==
    /\ Calls("timer")
    /\ \E i \in DOMAIN timers : timers[i].id = id
    /\ timers' = Mark(id)
    /\ live' = live \ {id}
    /\ UNCHANGED <<files, stop, nextId>>

aeStop ==
    /\ Calls("stop")
    /\ stop' = TRUE
    /\ UNCHANGED <<files, list>>

-----------------------------------------------------------------------------
(***************************************************************************)
(* aeMain and aeProcessEvents.                                             *)
(***************************************************************************)
aeMain ==
    /\ where = "client" /\ back = "main"
    /\ stop' = FALSE
    /\ where' = "enter" /\ back' = "loop"
    /\ UNCHANGED <<api, load, files, dispatch, list, pass, time>>

\* The time to sleep: to the nearest timer, or until something happens.
MsToNearest == ((timers[Nearest].sec - Sec) * Second) + timers[Nearest].ms - Ms

Timeout_Negative ==
    IF timers = << >> \/ MsToNearest <= 0 THEN Forever ELSE MsToNearest
Timeout ==
    IF timers = << >> THEN Forever
    ELSE IF MsToNearest > 0 THEN MsToNearest ELSE 0

Leave ==
    /\ where = "enter" /\ stop
    /\ where' = "over"
    /\ k' = aeApiFree(k)
    /\ UNCHANGED <<api, load, back, stop, mask, rproc, wproc, maxfd, setsize, gen, dispatch,
                   list, pass, time>>

Sleep ==
    /\ where = "enter" /\ ~stop
    /\ wait' = Timeout
    /\ k' = PollEntered(api, k)
    /\ where' = "asleep"
    /\ UNCHANGED <<api, load, back, stop, mask, rproc, wproc, maxfd, setsize, gen, dispatch,
                   list, pass, real, clock, skewed>>

\* The kernel reports the descriptors that are ready.
WakeUp(ready) ==
    /\ where = "asleep"
    /\ \E fd \in Fds : ready[fd] \cap k.kern[fd] # {}
    /\ \E r \in aeApiPoll(api, k, mask, maxfd, ready) :
         /\ k' = r.k
         /\ fired' = [i \in DOMAIN r.fired |-> [fd |-> r.fired[i].fd, mask |-> r.fired[i].mask,
                                                gen |-> gen[r.fired[i].fd]]]
    /\ half' = R /\ rfired' = FALSE
    /\ where' = "dispatch" /\ wait' = 0
    /\ UNCHANGED <<api, load, back, stop, mask, rproc, wproc, maxfd, setsize, gen, called, own,
                   list, pass, real, clock, skewed>>

\* The time is over, and k is as it was: nothing was reported.
TimedOut ==
    /\ where = "asleep" /\ wait = 0
    /\ fired' = << >> /\ half' = R /\ rfired' = FALSE
    /\ where' = "dispatch"
    /\ UNCHANGED <<api, load, back, stop, files, called, own, list, pass, time>>

\* One of the two tests on an entry.  An event deleted meanwhile is dropped, and
\* a callback for both events is called once.
StillRegistered(e) == half \in mask[e.fd] \cap e.mask
CallsBack_Twice(e) == StillRegistered(e)
CallsBack(e) ==
    StillRegistered(e) /\ (half = W /\ rfired => wproc[e.fd] # rproc[e.fd])

Dispatch ==
    LET e == Head(fired)
        valid == StillRegistered(e)
        calls == CallsBack(e)
    IN  /\ where = "dispatch" /\ fired # << >>
        /\ half' = IF half = R THEN W ELSE R
        /\ rfired' = (half = R /\ valid)
        /\ fired' = IF half = R THEN fired ELSE Tail(fired)
        /\ called' = IF calls THEN e.fd ELSE NoFd
        /\ own' = (calls => e.gen = gen[e.fd] \/ rproc[e.fd] # wproc[e.fd])
        /\ where' = IF calls THEN "client" ELSE where
        /\ back' = IF calls THEN "dispatch" ELSE back
        /\ UNCHANGED <<api, load, stop, files, list, pass, time>>

\* processTimeEvents begins.  A clock that went back makes everything due.
ClockSet_Unseen == FALSE
ClockSet == Sec < lastTime

TimersBegin ==
    /\ where = "dispatch" /\ fired = << >>
    /\ timers' = IF ClockSet THEN [i \in DOMAIN timers |-> [timers[i] EXCEPT !.sec = 0]]
                 ELSE timers
    /\ lastTime' = Sec
    /\ prev' = 0 /\ te' = Head0(timers) /\ maxId' = nextId - 1
    /\ where' = "timers"
    /\ UNCHANGED <<api, load, back, stop, files, dispatch, nextId, live, running, time>>

\* The event te leaves the list: the head, or prev, now points past it.
Unlink_Head(key) == SubSeq(timers, PosOf(key) + 1, Len(timers))
Unlink(key) ==
    (IF prev = 0 THEN << >> ELSE SubSeq(timers, 1, PosOf(prev)))
        \o SubSeq(timers, PosOf(key) + 1, Len(timers))

TimerRemoved ==
    /\ where = "timers" /\ te # 0
    /\ Event(te).id = AE_DELETED_EVENT_ID
    /\ timers' = Unlink(te)
    /\ te' = NextOf(te)
    /\ UNCHANGED <<api, load, where, back, stop, files, dispatch, nextId, live, lastTime, prev,
                   maxId, running, time>>

\* Not due, or newer than the pass: prev stays behind only in the second case.
TimerPassed ==
    /\ where = "timers" /\ te # 0
    /\ Event(te).id # AE_DELETED_EVENT_ID
    /\ Event(te).id > maxId \/ ~HasCome(Event(te))
    /\ prev' = IF Event(te).id > maxId THEN prev ELSE te
    /\ te' = NextOf(te)
    /\ UNCHANGED <<api, load, where, back, stop, files, dispatch, list, lastTime, maxId,
                   running, time>>

TimerRuns ==
    /\ where = "timers" /\ te # 0
    /\ Event(te).id # AE_DELETED_EVENT_ID
    /\ Event(te).id <= maxId /\ HasCome(Event(te))
    /\ running' = te
    /\ where' = "client" /\ back' = "timers"
    /\ UNCHANGED <<api, load, stop, files, dispatch, list, lastTime, te, prev, maxId, time>>

PassOver ==
    /\ where = "timers" /\ te = 0
    /\ prev' = 0 /\ maxId' = 0
    /\ where' = "enter"
    /\ UNCHANGED <<api, load, back, stop, files, dispatch, list, lastTime, te, running, time>>

\* The client's callback returns; that of a timer with the time to its next
\* run or AE_NOMORE, after which the timer is passed.
FileReturn ==
    /\ where = "client" /\ back = "dispatch"
    /\ where' = "dispatch" /\ back' = "loop" /\ called' = NoFd /\ own' = TRUE
    /\ UNCHANGED <<api, load, stop, files, fired, half, rfired, list, pass, time>>

TimerReturn(retval) ==
    /\ where = "client" /\ back = "timers"
    /\ timers' = [timers EXCEPT ![PosOf(te)] =
                     IF retval = AE_NOMORE THEN [@ EXCEPT !.id = AE_DELETED_EVENT_ID]
                     ELSE Arm(@, retval)]
    /\ live' = IF retval = AE_NOMORE THEN live \ {te} ELSE live
    /\ prev' = te /\ te' = NextOf(te)
    /\ running' = 0
    /\ where' = "timers" /\ back' = "loop"
    /\ UNCHANGED <<api, load, stop, files, dispatch, nextId, lastTime, maxId, time>>

-----------------------------------------------------------------------------
(***************************************************************************)
(* The world: time passes, while the loop sleeps and while the client      *)
(* works, and the clock is set.  Time without a timer is not counted.  A   *)
(* clock that is set while callbacks take time is not seen by the test     *)
(* of processTimeEvents, which only "tries to detect" it: here they take   *)
(* none in a use of the loop that sets the clock.                          *)
(***************************************************************************)
Tick ==
    /\ (where = "client" /\ load.skews = {}) \/ (where = "asleep" /\ wait # 0)
    /\ timers # << >>
    /\ real < MaxTime /\ clock < MaxTime
    /\ real' = real + 1 /\ clock' = clock + 1
    /\ wait' = IF where = "asleep" /\ wait > 0 THEN wait - 1 ELSE wait
    /\ UNCHANGED <<api, load, where, back, stop, files, dispatch, list, pass, skewed>>

SetClock(step) ==
    /\ where = "asleep" /\ load.calls > 0
    /\ clock + step \in 0..(MaxTime - wait)
    /\ clock' = clock + step
    /\ skewed' = TRUE
    /\ load' = [load EXCEPT !.calls = @ - 1]
    /\ UNCHANGED <<api, where, back, stop, files, dispatch, list, pass, wait, real>>

Client ==
    \/ \E fd \in load.fds, m \in (SUBSET Kinds) \ {{}}, p \in Procs : aeCreateFileEvent(fd, m, p)
    \/ \E fd \in load.fds, m \in (SUBSET Kinds) \ {{}} : aeDeleteFileEvent(fd, m)
    \/ \E fd \in load.fds : Reopen(fd)
    \/ \E n \in 1..MaxSetsize : aeResizeSetSize(n)
    \/ \E d \in load.delays : aeCreateTimeEvent(d)
    \/ \E id \in 1..(nextId - 1) : aeDeleteTimeEvent(id)
    \/ aeStop

Loop ==
    \/ aeMain \/ Leave \/ Sleep \/ TimedOut \/ Dispatch \/ TimersBegin
    \/ TimerRemoved \/ TimerPassed \/ TimerRuns \/ PassOver
    \/ FileReturn \/ \E r \in (load.delays \ {0}) \cup {AE_NOMORE} : TimerReturn(r)

Next ==
    \/ Client
    \/ Loop
    \/ \E ready \in [Fds -> SUBSET Kinds] : WakeUp(ready)
    \/ Tick
    \/ \E step \in load.skews : SetClock(step)

\* The thread is scheduled, callbacks return, and time passes.
Fairness == WF_vars(Loop) /\ WF_vars(Tick)

Spec == Init /\ [][Next]_vars /\ Fairness

-----------------------------------------------------------------------------
TypeOK ==
    /\ mask \in [Fds -> SUBSET Kinds] /\ k.kern \in [Fds -> SUBSET Kinds]
    /\ rproc \in [Fds -> Procs \cup {NoProc}] /\ wproc \in [Fds -> Procs \cup {NoProc}]
    /\ maxfd \in (-1)..(setsize - 1) /\ setsize \in 1..MaxSetsize
    /\ where \in {"client", "enter", "asleep", "dispatch", "timers", "over"}
    /\ back \in {"main", "loop", "dispatch", "timers"}
    /\ wait \in Nat \cup {Forever} /\ live \subseteq 1..nextId
    /\ te # 0 => Positions(te) # {}
    /\ where = "timers" /\ prev # 0 => Positions(prev) # {}
    /\ \A i \in DOMAIN timers : timers[i].ms \in 0..(Second - 1) /\ timers[i].sec \in Nat

\* While the loop sleeps, the kernel watches for every event that is in the
\* table and, of two back ends, for no other, however events were added and
\* deleted before, within callbacks or not.  kqueue may be left with an event
\* more by a call that failed half way; evport keeps what it is told to delete:
\* it reads the mask "our caller has already updated" before the caller does.
InterestInKernel ==
    where = "asleep" =>
      \A fd \in Fds : /\ mask[fd] \subseteq k.kern[fd]
                      /\ api \in {"epoll", "select"} => k.kern[fd] = mask[fd]

\* maxfd, the bound of select's loop and of its call, is the highest
\* registered descriptor after any sequence of registrations.
MaxfdExact ==
    /\ maxfd # -1 => mask[maxfd] # {}
    /\ \A fd \in Fds : fd > maxfd => mask[fd] = {}

\* A timer that was set is in the list until it is deleted or has run for the
\* last time, whatever callbacks add and delete in the middle of a pass.
NoTimerLost == live = {timers[i].id : i \in DOMAIN timers} \ {AE_DELETED_EVENT_ID}

\* Unless the clock was set, a timer does not run before its delay is over,
\* seconds and milliseconds added with their carry, and the loop does not sleep
\* past it, whatever the order of the list.
TimersOnTime ==
    ~skewed =>
      /\ running # 0 => Event(running).due <= real
      /\ where = "asleep" =>
           \A i \in DOMAIN timers :
             timers[i].id # AE_DELETED_EVENT_ID =>
               wait # Forever /\ (wait = 0 \/ real + wait <= timers[i].due)

\* A clock that is set back does not delay a timer "indefinitely"
\* (processTimeEvents): after a pass none has longer to wait than its delay and
\* the rest of a second.
DelayBounded ==
    where = "enter" =>
      \A i \in DOMAIN timers : When(timers[i]) - clock <= timers[i].delay + Second - 1

\* A timer that is due runs or is deleted, if the loop goes on: descriptors
\* that are always ready do not keep it from its timers.
DueTimersRun ==
    \A key \in 1..3 :
      (key \in live /\ HasCome(Event(key)))
         ~> (key \notin live \/ ~HasCome(Event(key)) \/ where = "over")

\* No callback gets an event that was reported for an earlier use of its
\* descriptor's number, although the test of aeProcessEvents ("maybe an already
\* processed event removed an element that fired") sees only the mask: what
\* saves a descriptor that was closed and opened again by the callback before
\* is that it has one callback for both events, as connect_socket registers it.
\* That is not enough for kqueue, whose two events are two entries.
EventsAreOwn == where = "client" /\ api # "kqueue" => own
=============================================================================
