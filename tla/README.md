# A verification of wrk with kernel and offloaded TLS

wrk generates HTTP load: a main thread creates worker threads, each of which
runs an event loop over many non-blocking connections, sends the same request
again and again and counts what comes back. This project models its C code
(`src/src`) in TLA+, checks the models with TLC and proves theorems about them
with TLAPS.

## 1. The system

| Component | Code | State | Operations | Modules |
|---|---|---|---|---|
| Main thread | `wrk.c` `main`, `handler` | `cfg`, `threads[]`, the flag `stop`, the totals | options, URL, resolving, verification of the request; create, stop and join threads; correct, report | `Lifecycle`, `Main` |
| Worker thread and connections | `wrk.c` `thread_main` and below, `net.c`, `ssl.c` | a connection's `fd`, `delayed`, `written`, `pending`, parser, buffers | `connect_socket`, `reconnect_socket`, the callbacks of the loop and of the parser, `delay_request`, `record_rate` | `WrkThread`, `Response` |
| Event loop | `ae.c` | `events[]`, `fired[]`, `maxfd`, `setsize`, time events, `stop` | create and delete events, resize, poll, dispatch, time events | `EventLoop` |
| Back ends | `ae_epoll.c`, `ae_select.c`, `ae_kqueue.c`, `ae_evport.c` | what the kernel watches for, event ports' pending list | add, delete, poll | `AeApi` |
| Statistics | `stats.c` | two histograms shared by all threads | `stats_record` (concurrent), correction and summaries (sequential) | `Stats`, `StatsAbs`, `StatsCalc` |
| HTTP parser | `http_parser.c` | state of the message being parsed | `http_parser_execute`, `http_parser_parse_url`, the questions about a message | `HttpUrl`, `HttpMessage`, `HttpParser` |
| Lua bridge | `script.c`, `wrk.lua` | one Lua state per thread and one for main, addresses, header buffers | `setup`, `init`, `delay`, `request`, `response`, `done`, `thread:get`, `set`, `stop` | `ScriptBuffer`, `LuaBridge`, and the modules that call them |
| Units | `units.c` | none | `scan_metric`, `scan_time`, `format_time_s` | `Units` |
| Allocator | `zmalloc.c` | `used_memory`, a size in front of each block | `zmalloc`, `zrealloc`, `zfree` | `Zmalloc` |

How they interact. `main` starts a thread right after it has called `setup()`
for it; from then on the threads share with it the configuration (read without
a lock), the flag `stop`, the histograms (atomic built-ins, no lock) and, once
they have ended, their counters. Inside a thread everything is sequential: the
loop polls, calls the handlers of what was ready, then the time events that are
due. Handlers change the event table under the loop's feet, close descriptors
whose events have already been polled, and reuse their numbers, which all
threads share. What a connection reads goes through the parser, which calls
back into `wrk.c`, which collects headers and body for the script. The script's
functions run inside a thread's handlers, or (`setup`, `done`) in main's Lua
state, from where they reach into the states of threads.

What is hard: failures at any point of a request cycle, events gone stale
within a pass, lists and tables changed while they are walked, histograms
written by several threads, a byte stream cut anywhere, text taken apart and put
together by offsets, stacks and pointers whose owner is a matter of convention.
`PROJECT.json` lists the hazards line by line, each with the properties that
would notice it.

## 2. The modules

Names with a suffix (`CasMin_Once`) are mistaken variants of the definition
they are named after: each is the bug that a property is shown to notice.

| Module | What it is | Run or proved by |
|---|---|---|
| `WrkThread` | one worker thread: the handlers of `wrk.c` on epoll, with the kernel, the server and other threads as environment | `MCWrkThread` |
| `WrkThreadProofs`, `WrkThreadAnswers` | its type invariant and who owns which descriptor; what counts as an error, and ownership where connecting fails; requests, answers and whole responses | TLAPS |
| `Stats`, `StatsAbs` | `stats_record`, one action per access of shared memory; what a histogram promises | `stats_record` |
| `StatsProofs` | theorems about `Stats` and the refinement | TLAPS |
| `Lifecycle` | main and the passes of its threads | `lifecycle` |
| `LifecycleProofs` | its safety properties for any number of threads | TLAPS |
| `EventLoop`, `AeApi` | `ae.c` on any of four back ends | `MCEventLoop` |
| `EventLoopProofs` | descriptors, reports and timers of the loop, for any number of each; its time and its types | TLAPS |
| `HttpUrl`, `HttpMessage`, `HttpParser` | character classes and URLs; the state of a parser; the parser, a byte a step | used by `Response` and `Main` |
| `ScriptBuffer` | the header and body buffers and how they are read back | used by `Response` |
| `Response` | one connection's reads, parser, buffers and calls of `response()` | `MCResponse` |
| `ResponseProofs` | the assertions of the parser and the bounds of the buffers, for any stream | TLAPS |
| `Units`, `StatsCalc`, `Zmalloc` | functions on numbers, histograms and heaps | used by `Main` |
| `LuaBridge` | what `setup()` and `done()` do with a thread | used by `Main` |
| `Main` | `main()` from the command line to the report | `MCMain` |
| `StatsCalcProofs` | what the correction and the summaries compute, for any histogram | TLAPS |
| `MainProofs` | owners of addresses, stacks and values, for any script and any number of calls; the latencies reported, for any run | TLAPS |

### WrkThread

`pc` says where the thread is in `aeMain`:

    setup -> poll -> fetch -> (parse ->) file_w -> fetch ... -> time -> poll ...

* `setup`: `thread_main` connects the connections one by one, then `aeMain`.
* `poll`: `aeApiPoll` copies what is ready into `fired`, for all descriptors at
  one instant; the handlers work from this copy while the world moves on.
* `fetch`, `file_w`: `DispatchR(fd, c)` calls the handler of the read event and
  `DispatchW(fd, c)` that of the write event, each after the test of the
  *current* mask; `SkipR` and `SkipW` are the cases in which the test fails.
* `parse`: `socket_readable` between its `read` and its return, one callback of
  the parser a step (`Parse`, `ParseError`, `ReadAgain`, `ReadDone`).
* `time`: `delay_request`, `record_rate`, then `EndTime`.

Operators such as `reconnect_socket(c, ev, sk, cn, er)` take the tables as the
caller has left them, so a handler that is one action makes all its changes in
it. Data are pieces: the head of a response, its end with (`close`) or without
(`keep`) the end of the connection, the head of a body that ends with the
stream (`eof`), the orderly end and a reset. A read returns any prefix of what
has arrived, a write takes any part of what is offered. Error counters saturate
just above `MaxFaults`. The environment completes or refuses connects, answers,
ends or resets streams at any point, opens and closes sockets of other threads
on free numbers (`ForeignFds`), and sets `stop`.

### EventLoop and AeApi

`where` is `client` (before `aeMain` or inside a callback), `enter`, `asleep`,
`dispatch`, `timers` or `over`. The client is arbitrary code: `Loads` says which
calls it may make, how many, on which descriptors and with which delays.
Callbacks are told apart from the code before `aeMain` by `back` only. Entries
of `fired` are looked at twice (`half`), as `aeProcessEvents` tests for reading
and then for writing; `called` is the descriptor whose callback runs, the only
one a callback may close and reopen (`Reopen`), as `reconnect_socket` does, and
`own` remembers whether the last callback got an event of the file it was
registered for. `timers` is the list from its head, `te` and `prev` the
pointers of `processTimeEvents`. Time is counted in milliseconds, a second has
`Second` of them; `real` is the time that passes and `clock` what
`gettimeofday` says, which may be set while the loop sleeps. In `AeApi`, each
back end is a set of operators on what it and the kernel keep.

### HttpParser and Response

`http_parser_execute` is a function on a record `x` that consumes one byte, so
a call is any number of them. A family of header states that match a word
letter by letter is one state with the set of words that still match. `LOWER`
sets the bit 0x20 of any character, as the macro does, and `tokens` is the table
that names are looked up in, where only letters change. `Response`
reads a stream in pieces of the sizes in `Cuts`, in any order, and for a damaged
stream any one byte may be replaced. `ULLONG_MAX` is 255 and
`HTTP_MAX_HEADER_SIZE` 160: both are reached by the streams of `MCResponse`.
The buffer grows by `Step` = 4 instead of 1024, and remembers in `over` whether
a write ever went beyond its memory.

### Main and LuaBridge

`parse_option` is one turn of `getopt_long`'s loop, `args_done` the tests after
it, then `init_tls`, `script_create`, `script_resolve`, `wrk_setup` (one call of
`setup()`, of which `ScriptCalls` are the calls back into C), `script_init`,
`VerifyByte` and `VerifyEnd` (`script_verify_request`, with the real parser),
`Answered` and `EndRun` (what the threads do, as samples only), `Correct` and
`Report` (with `done()`). `Word` = 2^20 stands for 2^64. Means are pairs of a sum
and a count: long doubles are taken to be exact. A heap hands out the lowest
free number again at once, so a stale pointer is one that meets another block.
`script_copy_value` is recursive in C; `LuaBridge` keeps C's own stack as `todo`,
a list of what is left to do (`Copy` a slot, the condition of a `Loop` over a
table, what follows a `Pair`), and takes one step of it at a time.

### Stats, Lifecycle

A call of `stats_record` is `Enter`, `AddData`, `AddCount`, `ReadMin`,
`ReadMax`, any number of `CasMin`, `MinDone`, any number of `CasMax`,
`MaxDone`. The refinement `Abs` maps `total` to `count` plus the threads
between their two additions: a sample counts from the moment it is in `data`.
In `Lifecycle`, `mpc` is where main is, `tpc[t]` where thread `t` is: `connect`,
the two halves of a pass (`file`, `time`) and the condition of `aeMain`'s loop
(`test`). `record_rate` either records the rate of its interval in `rates` or,
when `stats_record` refuses it as too large, leaves it in `refused`; the counter
starts again in both cases.

## 3. The runs

| Run | Instance | Properties |
|---|---|---|
| `thread_faults` | 2 connections, 3 descriptors, pipeline 2, 2 faults, `connect` may fail at once | `FdOwnership`, `InterestInSync`, `AnswersOwed`, `ErrorsAreFaults` |
| `thread_http_live` | 2 connections, 1 fault, a stop | `ConnectionKept`, `Cycling`, `Stops` |
| `thread_tls_delay` | TLS, `delay()`, `response()`, requests in 2 units, servers that close, one number shared with other threads | `ResponseIsWhole`, `Cycling`, `NoForeignClose` |
| `stats_record` | 3 threads, 3 calls, samples 0..3 with limit 3 | `BoundsExact`, `NoSampleLost`, `Returns`, refinement of `StatsAbs` |
| `lifecycle` | 2 threads of 2 responses each, failing creation, signals, `thread:stop()` | `ReportExact`, `LastIntervalRecorded`, `CfgFixedBeforeStart`, `Ends` |
| `response` | single responses and pairs of every framing, announced lengths around the largest number, one damaged byte, a header too long; 2 connections in a row | `AssertionsHold`, `WithinBuffer`, `LengthAsDeclared`, `CompleteOnTime`, `ToldAsSent` |
| `event_loop` | 2 descriptors, 4 back ends, up to 4 calls of the client, a second of 3 ms, 9 ms | `InterestInKernel`, `MaxfdExact`, `EventsAreOwn`, `NoTimerLost`, `TimersOnTime`, `DelayBounded`, `DueTimersRun` |
| `main_seq` | some 1800 uses: options in any order, URLs, all methods, several and broken requests, resolver answers, scripts that get and set, histograms of two connections, and of three on one and on two threads | `RunAsAsked`, `RequestsCounted`, `ReportAsSampled`, `StacksKept`, `ValuesArrive`, `AddressesOwned` |

The property's comment in its module says what it means and for which code.
Four more runs each show that the code does not do what its documentation says
(`findings` in `PROJECT.json`):

* `stale_headers`: response buffers survive a reconnect, so `response()` sees
  headers of two responses.
* `delay_race`: a delay timer survives a reconnect and starts a request on the
  next socket in the middle of a cycle.
* `eof_read_error`: a complete body that ends with the stream is counted as a
  read error.
* `table_get`: `thread:get` of a table takes one value too many off the
  thread's Lua stack.

They mark where the passing runs' properties stop holding: `ResponseIsWhole`
needs a server without faults (in `Response`, `ToldAsSent` needs a connection
opened with empty buffers), `ErrorsAreFaults` one that frames its answers,
`StacksKept` scripts that get no tables, `ConnectionKept` and `NoForeignClose`
a `connect` that does not fail at once.

Why the bounds are enough. Two connections are needed for one to take over the
number of the other within a pass, a third descriptor for a number to be free or
foreign meanwhile. A pipeline of 2 and requests of 2 units make partial cycles
and partial requests happen. Two faults let a failure hit the recovery from
another. Three threads in `stats_record` let a compare-and-swap lose against two
others; limit 3 with sample 3 is the refusal at the boundary. Two threads in
`Lifecycle` suffice for one to run while the other is created, stopped or
joined. Two descriptors in `EventLoop` give a highest one and one below, which
`maxfd` falls back to; three timers in a list give one to unlink with a
neighbour on both sides; delays of 1, 2 and 4 in seconds of 3 make the carry
happen and the order by seconds and milliseconds differ from either alone; clock
steps of 3, -2 and -4 go forwards and back, within a second or over one or two
depending on where the clock is. The theorems of section 4 remove these bounds for
all of the loop but its liveness.
In `Response` every framing meets every way of ending, cut at every byte in runs
of one and at others in pieces of 20. The uses of `Main` are one dimension at a
time, crossed where the code has them meet (two numbers; host, port, path).

Deadlock is checked in `thread_faults`, `thread_tls_delay` and the runs of
`MCWrkThread` that show a disagreement. Elsewhere the system really ends: the
thread stops, all calls have returned, the program has reported, the streams
have been read, the loop has been left. Symmetry (of connections and of
descriptors) is used only in `thread_faults`, which has no liveness.

Fairness. In `WrkThread` the thread is scheduled (weak fairness of its next
step), the kernel completes connects and the server answers (weak). A time event
that is due again and again is run (strong: the loop always reaches its time
events, because a pass handles a bounded list), and a handshake or a write that
is asked to be retried again and again succeeds in the end (strong, a matter of
the peer). Faults and stops are never fair. In `Stats` a thread inside a call
goes on; in `Lifecycle` main and the threads go on and `record_rate` is due
every 100 ms. In `EventLoop` the loop goes on, callbacks return and time passes
(all weak); that a descriptor becomes ready is never fair.

## 4. The proofs

`StatsProofs`, for any number of threads, any limit and any samples:

* `TypeCorrect`, and `BoundsOnlyWiden` from it: a swap happens only when the
  bound still is what the thread remembers, and the sample is beyond that.
* `BoundsAreExact`: `BoundsExact` speaks only of quiescent states. `BoundsInv`
  says what holds in between: each recorded value is within a bound or owed to
  it by a thread (`MinCovers`, `MaxCovers`), what a thread remembers of a bound
  is never tighter than the bound (`LocalsLag`), and a bound is a recorded value
  (`BoundsSeen`).
* `SamplesAreKept`: the conservation of samples, by the cardinality of the
  threads in flight; this is where `Threads` must be finite.
* `Refinement`: `Spec => Abs!Spec`, each step a `Begin`, `Add`, `Return` or a
  stutter; the summary of the last `Return` is exact by `BoundsInv`.

`WrkThreadProofs` proves `ThreadTypeCorrect` for any connections, descriptors,
pipeline depth, request length and choice of options. Its content beyond types
is arithmetic: `c->written` stays below `c->length`, `c->pending` within its
width. The lemmas go up from the operations of `ae.c` through `connect_socket`
and `reconnect_socket` to the handlers and the environment.

Its second half proves `DescriptorOwnership`, `InterestsAgree` and
`ForeignSocketsUntouched` (`FdOwnership`, `InterestInSync`, `NoForeignClose`),
under two premises, `~ConnectMayFail` and `Registrable = Fds`: connecting
succeeds, as it does in `thread_tls_delay`. Without them the code does reuse a
number it no longer owns. `FdOwnership` is not inductive: a handler of `c` also
needs that the number in `c->fd` is registered for `c`, or it would close what
belongs to another. `OwnershipInv` adds that converse (`FdsOwned`) and the
agreement with the epoll set (`Synced`). `reconnect_socket` breaks it half way,
so it is stated for a set of owners: `ReleaseOwned` shows that after
`close(c->fd)` all connections *but `c`* own what they owned, and `ConnectOwned`
that the new descriptor makes them all owners again. `ConnectionsAreKept`
(`ConnectionKept`) adds that there are as many numbers for the thread alone as
connections, both finite: then one is always free when `connect_socket` looks for
it, by counting, and a connection that has a number keeps one (`KeptInv`).

The third part of `WrkThreadProofs` drops the premise that connecting succeeds.
Instead it takes
`Premises`: a script without `delay()`, a server that frames its answers, no
number shared with another thread. Each is there because the code breaks the
property without it (`delay_race`, `eof_read_error`, and a dead connection whose
number another thread has taken). It proves `ErrorsWereFaults`
(`ErrorsAreFaults`) and `OwnedInSpiteOfFailures` (`FdOwnership` and
`InterestInSync`). An error is counted where `wrk.c` sees one, the fault that
caused it happened earlier, on a socket that may have been replaced since, so
`FaultInv` carries a debt: the sockets that have failed and have not been
noticed (`FailedFds`) and the errors counted add up to at most the faults that
have happened (`Counted`). Each error must be paid by a socket that leaves that
set, which is what the other parts are for. `Good` says that a registered socket
belongs to the connection it names, and that what has been polled of it is
still true of it; `Alive`, that a connection whose event can fire has a socket,
although one whose `connect` failed at once keeps a number that has been closed;
`Fresh`, that an entry of `fired` whose socket was replaced in the same pass
finds the new one connecting, with nothing to read, so that `SkipR` or a
successful `connect` follows and no error; `Setup` and `Loop`, what `pc` excludes.
The network's steps create at most one debt each (`NetworkStep`), a step of the
thread pays before it counts (`Charged`).

`WrkThreadAnswers` proves `AnswersNeverOutnumberPending` (`AnswersOwed`) and
`CyclesStartClean` under the same premises, on the same invariant (`FaultInv`). `AnswersOwed` counts the answers on their way, which are in
four places (owed by the server, in the socket, in the parser's buffer, counted
off `c->pending`), and is not inductive: it does not say what the next write
adds. `OwedInv` accounts for whole cycles, by descriptor: `c->pending` covers the
answers on their way and the requests whose last unit has still to be written,
and a cycle about to start has no answer on its way (`Balance`); the units of a request the server has begun to receive are
`c->written` modulo the length of a request unless the stream has ended, and a
socket that is new has received none. `Division`, `Quotient` and `Requests` say
how many requests a write of `n` units completes, the `Count` lemmas how answers
are distributed over a sequence that is cut, joined or read from. That a cycle
starts clean is `CyclesStartClean`: the race that `delay_race` shows takes a
script with `delay()`.

Its last part proves `ResponsesAreWhole` (`ResponseIsWhole`), where nothing
fails (`Faultless`; `stale_headers` is what happens otherwise), but with
`delay()`, with TLS, with servers that close behind a response and with numbers
shared with other threads, on `OwnershipInv`. That no headers are left over is a
fact about a stream: what the parser of a connection has still to be given,
buffer and socket together (`Coming`), continues whole responses from where the
parser stands (`Whole`, one table of which item may `Follow` another). A read
moves items without changing that stream, the parser takes its head
(`WholeTail`), the server adds a response at its end (`WholeEnd`, `WholeParts`),
and a connection is only given a new descriptor when its parser is between two
responses (`RenewedWhole`): behind one that closes, behind `fin`, or before the
first. Then the headers kept are none or one (`Told`).

`LifecycleProofs`, for any number of threads: `ReportIsExact`,
`NoIntervalLost` and `ConfigurationFixed`. The invariant `Inv` adds to types
`MainInv` (the threads main has not come to do not exist; while it joins, its
totals are the sums over the threads before `i`, which have all ended),
`CountInv` (a response is in the running interval, in a recorded one or in one that
`stats_record` has refused) and
`StopInv` (a loop that no script stopped has an empty interval). Sums over a
range of threads are witnessed by a function of partial sums (`SumsTo`), which
`SumExtended` prolongs by one thread and `MergedKept` keeps when others go on.

`EventLoopProofs`, for any number of descriptors, timers and calls:

* `InterestReachesKernel` and `MaxfdIsExact`. `Agrees` is the relation between
  the loop's table and what each back end keeps: equal for epoll and select,
  enough for kqueue, and for event ports enough once the pending entries have
  been restored, of which a descriptor has at most one (`OnePending`). `AddKeeps`,
  `DeleteKeeps`, `CloseKeeps`, `EnterKeeps` and `PollKeeps` show that each
  operation of each back end keeps it, failed calls included. That the search
  for the new `maxfd` finds the highest descriptor rests on `LeastOf`, a least
  element of a set of numbers from the library's theorem that they are well
  founded.
* `TimersAreKept`: `NoTimerLost`. The pass unlinks `te` by the pointer `prev`,
  so `prev` must stand right before it although callbacks put events in front
  and mark others. `TimersInv` says that keys fall from the head to the end, so
  that each is in one place; that a pass has `prev` right before `te`, or `te` at
  the head (`Walk`); and that `te` is not newer than `maxId`, for which reason
  the branch of `processTimeEvents` that goes on without moving `prev` is never
  taken. `PointedPast` and `Unlinked` say what the assignment of the pointer
  removes, `Pushed` and `Changed` what creation, deletion and re-arming do.

* `CallbacksOwnTheirEvents`: `EventsAreOwn`. An entry of `fired` carries the
  generation of the file it was reported for. `ReportsInv` says that an entry not
  looked at yet is of the present generation, because `fired` has a descriptor
  once (`Distinct`) and a callback reopens no descriptor but its own.

The second half of the module is about time, for any length of a second, any
delays and any way the clock is set while the loop sleeps: `TimersRunOnTime`, `DelaysAreBounded` and
`TypesHold`. `TimeInv` says of each time event that its seconds and milliseconds
stand for one number of milliseconds (`Timed`, with the carry), that this is when
it is due as long as the clock was not set (`OnTime`), and that it is at most its
delay beyond the seconds of `lastTime`, or was set in this very pass (`Bounded`).
`Order` reduces the comparison by seconds and milliseconds to one of numbers,
`Difference` that of `aeProcessEvents`. That a clock set back is noticed rests on
`Clocks`: between passes `lastTime` is the clock's second.

`ResponseProofs`, for any streams, damaged or not, cut into reads of any size,
over any number of reconnects, and for any limits and growth of the buffers:

* The hypothesis `StreamsAreText` only says that texts are sequences of
  characters (`Char`, a constant of the proofs), the empty one included; TLA+
  takes strings to be that, but the prover does not know it.
* `ParserInOrder` is the inductive invariant. `Resting` describes the parser
  between two calls, `Between` between two bytes: no error while it reads, type
  and state belong together, the flag CHUNKED is set in the states of a chunk,
  the words that a value may still match are values (`ValueWords`), a length that
  is counted down is one that can be (`LengthInv`), at most one mark is open, and
  a value comes only behind a name (`Named`). The callbacks may make the parser
  new in the middle of a call, as `response_complete` does.
* `ParserAssertionsHold` (`AssertionsHold`): REEXECUTE comes to an end because
  the states it leads through have a `Rank` that falls, three times at most; each
  other assertion is a part of `Between`.
* `WritesStayWithin` (`WithinBuffer`): `header_field`, `header_value` and
  `response_complete` put a NUL without asking for room. `RoomForNul` says why
  there always is some: `buffer_append` leaves a byte behind what it appends, and
  a buffer that was never used gets no value before a name.

A call consumes any number of bytes, by a recursive function over them. Instead
of an induction, the least byte before which the invariant fails is shown not to
exist (`LeastOf`); the same argument serves wherever a recursive function has to
be followed.

`MainProofs`, for any command lines, scripts, values and numbers of calls:

* `AddressesAreOwned` (`AddressesOwned`), where the answers of the resolver are
  sequences (`AnswersListed`). `AddrInv` says that the blocks of the heap are
  those of the clones and of the thread, each with one owner, which of them have
  an address in them, and that `used_memory` is the sum over all; `OwnersInv`
  adds when the thread has an address. Clones that are made, collected and
  assigned in any order keep it (`CloneKeeps` and its neighbours). The sums are
  witnessed by a function of partial sums, `Sums`.
* `StacksAreKept` (`StacksKept`), where `ScriptsSend`: the values are scalars,
  strings, flat tables with keys that differ, or values that are refused, and no
  call gets a table. The last is what `table_get` shows to be wrong, and tables in
  tables are wrong for another reason (section 5). A copy is followed step by
  step: `Within` says what the stacks and `todo` are after each pair of a table,
  and that the loop ends after the last. Hence `CopyOf`: what arrives is the
  value, its strings up to a NUL.
* `ValuesDoArrive` (`ValuesArrive`), where also `done()` is not called on a stack
  with something left behind by the script's file (`DoneIsFirst`; that the
  summary is shifted otherwise is in section 5). `ValuesInv`: each global is the
  `CopyOf` what it was last set to, and what get returned is the global it read.
* `LatenciesAreReported` (`ReportAsSampled`). That reported values agree with the
  whole histogram needs that the copies, all above the interval, lie within `min`
  and `max`, which `stats_correct` does not move. This is a fact about the run: with
  one request at a time the least latency is not above the interval
  (`LeastBelowInterval`). `TimesInv` carries it: `Paced` says that each answer has
  cost its connection at least the least latency, so that the number of answers
  times it is at most what all connections have spent, which is at most the time
  of the run for each of them (`SpentWithinRun`); the interval is that time by the
  answers for one connection of `-c`. `ConnectionsInv` says that the threads have
  no more connections than that, and that there is one when the run starts; some
  are left over when `-c` is not a multiple of `-t`. `CheckInv` says that the number of requests that the
  parser finds in the script's text is a number (`Checking`), which takes a walk
  through the parser, as it is that number which tells one request at a time from
  more. The rest is in `StatsCalcProofs`: `CorrectedUpto` says what is in the
  histogram when the correction has come to a value (of the larger ones there are
  no copies yet, and copies are never above what they are copied from), `CorrectIs`
  what is in it at the end, `MeanIs`, `PercentileIs`, `WithinIs`,
  `EntriesIs` and `EntriesAdd` what the summaries return. The part within a
  deviation is never empty by the inequality of sums that `SomeNear` states.
  Sums are recursive functions, and each fact about them is shown by the least
  index at which it fails (`LeastOf`, `Rising`).

The assumptions on constants are those declared in the modules, which TLC
evaluates on the instances; `EventLoopAssumption` says that uses are records of
the right shape and that their descriptors are in the table, and `MainAssumption`
that `MaxLatency` and `MaxRun` are natural numbers, and that the argument of `-t`
or `-c` begins with a natural number or with none. The hypotheses of
theorems named above (`Premises`, `Faultless`, `StreamsAreText`, `ScriptsSend` and
so on) hold of the instances of the passing runs of those modules that check the
same property.

Only model-checked:

* liveness (`Cycling`, `Stops`, `Returns`, `Ends`, `DueTimersRun`), which is out
  of the prover's reach;
* what functions compute from content: `LengthAsDeclared`, `CompleteOnTime` and
  `ToldAsSent` compare the parser's work with a whole message, `RunAsAsked` and
  `RequestsCounted` the run with a command line or a request of any length, and
  would be proved by induction over these data;
* `TypeOK` of `Response`, whose bound on the index into a word rests on the
  lengths of string literals, of which the provers know nothing.

## 5. What the models say about the code besides

Facts met while modelling that no run states as a property:

* A `connect` that fails at once inside `reconnect_socket` loses the connection
  (`wrk.c:270`); nobody retries, against the number of connections that the
  usage text says are kept open (`wrk.c:49`).
* Threads start in the loop that calls `setup()` for later ones (`wrk.c:132`);
  SCRIPTING:50 has a setup phase before threads start.
* With pipelining, copies made by `stats_correct` may lie below `min`, where the
  summaries miss them, and an interval of 0 would never end; the model stops
  there. The rank of a percentile is `floor(p * count / 100) + 1`.
* The duration counts from main's `start`, not from the start of the threads.
* A host in brackets without a colon inside loses them in the header `Host`, a
  URL whose rest is only a query loses it, `-H` without a blank behind the colon
  is dropped, and `-H Host:` replaces the one made from the URL. Hours are never
  used in "Running ... test", and 90 s are shown as 2 m. A number that does not
  fit 64 bits is accepted.
* A script's request that is cut off behind a whole one is accepted.
* A response without headers after one with headers shows the old ones to
  `response()` (`wrk.c:347-351`, `script.c:172`): a NUL is put into an empty
  buffer. After an interim response the next one counts as an answer of its own.
* Behind a comma and a tab the options of `Connection` are not seen, although the
  code means to skip blanks there (`http_parser.c:1544`): `LOWER` has made the tab
  a closing parenthesis. A response with `Connection: x,<tab>close` does not end
  the connection; one is among the streams of `response`.
* An option of `Connection` that is the beginning of a known one (`clo, close`)
  takes the comma behind it for a letter, so the next option is lost
  (`http_parser.c:1551-1581`).
* Event ports: `aeApiDelEvent` takes the table's mask to be updated already
  (`ae_evport.c:214`), and `ae.c:161-162` updates it afterwards, so the old
  interest stays until the event fires. kqueue: the two filters of a descriptor
  are two entries of `fired`, so an event may meet a descriptor that was reopened
  in between; adding both filters may fail half way and leaves one behind.
* The clock set back before the first pass or within callbacks is not detected.
  `aeStop` before `aeMain` is lost.
* Tables inside tables make `lua_next` work on the wrong slot, strings lose what
  is behind a NUL byte, a refused value inside a table leaves what was built on
  the thread's stack, `thread:get` of a function ends the program even under
  `pcall`, a script file that returns a value shifts the summary of `done()`, and
  `thread:stop()` in `done()` writes to a loop that has been freed.

## 6. Not modelled

* OpenSSL and the loading of an ENGINE: library calls at start-up. `WrkThread`
  keeps the results of `SSL_connect`, `SSL_read` and `SSL_write`. The kTLS option
  of a connection is such a call too.
* Lua itself: a script is what its functions return and which C functions they
  call. Errors raised by scripts end the program.
* `client_wrks`: a second copy of the program, whose C files differ from
  `src/src` in a line on kernel TLS and comments; what is said here of `src/src`
  holds for it. Its lines are not mapped a second time.
* The parts of `http_parser.c` that wrk does not use: pausing, `HTTP_BOTH`,
  `on_headers_complete` and CONNECT tunnels, names of errors.
* Layout of the report (`aprintf.c`, the formats other than that of the
  duration), `zmalloc_get_rss`, `aeWait`.
* The shell scripts, benchmark results and plots around the program: they start
  it on other machines and hold no state of it.

## 7. Status of the plan

Done: `WrkThread` with types and ownership proved; `Stats` with `StatsAbs` and
their proofs; `Lifecycle` and its proofs; the parser and `Response`; `EventLoop`
on four back ends and its proofs; `StatsCalc`, `Units`, `LuaBridge`, `Zmalloc`
composed in `Main`.

Proved besides: the accounting of errors and ownership where connecting fails,
the connections kept, the accounting of requests and answers, responses that are
whole, the time of the loop and the events its callbacks get, the assertions of
the parser and the room in the buffers, the owners of addresses, the stacks and
the values of the bridge, the correction and the summaries of latencies. With these every safety property that a run checks of
`WrkThread`, `Stats`, `Lifecycle` and `EventLoop` is a theorem, and of `Response`
and `Main` all but those listed at the end of section 4.

Open: that the loop of `WrkThread` is an instance of `EventLoop`; that a parser
given a whole message in pieces reports what it reports of the whole.
