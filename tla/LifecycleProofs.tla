--------------------------- MODULE LifecycleProofs ---------------------------
(***************************************************************************)
(* Proofs about a run of wrk for any number of threads and of responses:   *)
(* what main reports, what the threads have recorded when they stop, and   *)
(* when the configuration is written.                                      *)
(*                                                                         *)
(* Beside types, Inv has three parts.  MainInv relates where main is to    *)
(* where the threads are: those it has not come to do not exist, those it  *)
(* has joined have ended.  CountInv is the law of conservation of a        *)
(* thread's responses: each is in its interval, in a recorded rate or in a *)
(* refused one.                                                            *)
(* StopInv says that a loop the script has left alone is stopped in        *)
(* record_rate only, right after an interval has been recorded.            *)
(***************************************************************************)
EXTENDS Lifecycle, TLAPS

Counters == [complete : Nat, requests : Nat, timeout : Nat]

Types ==
    /\ mpc \in {"setup", "start", "sigaction", "sleep", "join", "report", "done", "exit"}
    /\ i \in 0..N
    /\ stop \in BOOLEAN
    /\ total \in [complete : Nat, timeout : Nat]
    /\ tpc \in [Threads -> {"none", "connect", "test", "file", "time", "exited"}]
    /\ loopStop \in [Threads -> BOOLEAN]
    /\ thread \in [Threads -> Counters]
    /\ rates \in [Threads -> Nat]
    /\ refused \in [Threads -> Nat]
    /\ isSetup \subseteq Threads

NothingMerged == total.complete = 0 /\ total.timeout = 0

MainInv ==
    /\ mpc \in {"setup", "start", "join"} => i \in Threads
    /\ mpc \in {"setup", "start"} => \A t \in Threads : t >= i => tpc[t] = "none"
    /\ mpc \in {"setup", "start", "sigaction", "sleep"} => NothingMerged
    /\ mpc = "join" => Merged(i)
    /\ mpc \in {"report", "done"} => Merged(N)

CountInv ==
    \A t \in Threads :
        rates[t] + refused[t] + thread[t].requests = thread[t].complete

StopInv ==
    \A t \in Threads :
        /\ tpc[t] = "exited" => loopStop[t]
        /\ loopStop[t] /\ t \notin scripted =>
              tpc[t] \in {"test", "exited"} /\ thread[t].requests = 0

-----------------------------------------------------------------------------
(* Sums *)

LEMMA SumOfNone == ASSUME NEW f PROVE SumsTo(f, 0, 0)
<1> DEFINE s == [j \in 0..0 |-> 0]
<1>1. s \in [0..0 -> 0..0] /\ s[0] = 0 /\ \A j \in 0..(0 - 1) : s[j + 1] = s[j] + f[j]
  OBVIOUS
<1> QED
  BY <1>1 DEF SumsTo

\* One more term.
LEMMA SumExtended ==
    ASSUME NEW f, NEW k \in Nat, NEW n \in Nat, SumsTo(f, k, n), f[k] \in Nat
    PROVE  SumsTo(f, k + 1, n + f[k])
<1>1. PICK s \in [0..k -> 0..n] :
          s[0] = 0 /\ s[k] = n /\ \A j \in 0..(k - 1) : s[j + 1] = s[j] + f[j]
  BY DEF SumsTo
<1> DEFINE r == [j \in 0..(k + 1) |-> IF j = k + 1 THEN n + f[k] ELSE s[j]]
<1>2. r \in [0..(k + 1) -> 0..(n + f[k])]
  <2> SUFFICES ASSUME NEW j \in 0..(k + 1) PROVE r[j] \in 0..(n + f[k])
    OBVIOUS
  <2>1. CASE j = k + 1
    BY <2>1
  <2>2. CASE j # k + 1
    <3>1. j \in 0..k /\ s[j] \in 0..n
      BY <2>2
    <3> QED
      BY <2>2, <3>1
  <2> QED
    BY <2>1, <2>2
<1>3. r[0] = 0 /\ r[k + 1] = n + f[k]
  BY <1>1
<1>4. ASSUME NEW j \in 0..k PROVE r[j + 1] = r[j] + f[j]
  <2>1. r[j] = s[j]
    OBVIOUS
  <2>2. CASE j = k
    BY <1>1, <2>1, <2>2
  <2>3. CASE j # k
    <3>1. j \in 0..(k - 1)
      BY <2>3
    <3> QED
      BY <1>1, <2>1, <3>1
  <2> QED
    BY <2>2, <2>3
<1> HIDE DEF r
<1>5. (k + 1) - 1 = k
  OBVIOUS
<1> QED
  BY <1>2, <1>3, <1>4, <1>5 DEF SumsTo

\* Only the terms count.
LEMMA SumOfEqual ==
    ASSUME NEW f, NEW g, NEW k \in Nat, NEW n \in Nat, SumsTo(f, k, n),
           \A j \in 0..(k - 1) : f[j] = g[j]
    PROVE  SumsTo(g, k, n)
BY DEF SumsTo

-----------------------------------------------------------------------------
(* Steps that leave the joined threads alone keep what has been merged. *)

LEMMA MergedKept ==
    ASSUME NEW k \in 0..N, Types, Merged(k), total' = total,
           \A t \in Threads : t < k => thread'[t] = thread[t] /\ tpc'[t] = tpc[t]
    PROVE  Merged(k)'
<1> DEFINE c == [t \in Threads |-> thread[t].complete]
           d == [t \in Threads |-> thread[t].timeout]
<1>1. k \in Nat /\ total.complete \in Nat /\ total.timeout \in Nat
  BY LifecycleAssumption DEF Types
<1>2. \A j \in 0..(k - 1) : j \in Threads /\ j < k
  BY LifecycleAssumption DEF Threads
<1>3. \A t \in Threads : t < k => tpc'[t] = "exited"
  BY DEF Merged
<1>4. SumsTo(c', k, total.complete)
  <2>1. \A j \in 0..(k - 1) : c[j] = (c')[j]
    BY <1>2
  <2>2. SumsTo(c, k, total.complete)
    BY DEF Merged
  <2> HIDE DEF c
  <2> QED
    BY <1>1, <2>1, <2>2, SumOfEqual
<1>5. SumsTo(d', k, total.timeout)
  <2>1. \A j \in 0..(k - 1) : d[j] = (d')[j]
    BY <1>2
  <2>2. SumsTo(d, k, total.timeout)
    BY DEF Merged
  <2> HIDE DEF d
  <2> QED
    BY <1>1, <2>1, <2>2, SumOfEqual
<1> QED
  BY <1>3, <1>4, <1>5 DEF Merged

-----------------------------------------------------------------------------
(* Types *)

LEMMA TypesInit == Init => Types
<1> SUFFICES ASSUME Init PROVE Types
  OBVIOUS
<1>1. Zero \in Counters /\ 0 \in 0..N
  BY LifecycleAssumption DEF Zero, Counters
<1> QED
  BY <1>1 DEF Init, Types

LEMMA TypesNext == ASSUME Types, MainInv, [Next]_vars PROVE Types'
<1> USE LifecycleAssumption DEF Types, Threads
<1>1. CASE script_init
  BY <1>1 DEF script_init, threadVars, MainInv
<1>2. CASE pthread_create
  BY <1>2 DEF pthread_create, MainInv
<1>3. CASE CreateFails
  BY <1>3 DEF CreateFails, threadVars
<1>4. CASE sigaction
  BY <1>4 DEF sigaction, threadVars
<1>5. CASE Wake
  BY <1>5 DEF Wake, threadVars
<1>6. CASE Join
  <2>1. thread[i] \in Counters /\ i \in 0..(N - 1)
    BY <1>6 DEF Join, MainInv
  <2>2. /\ total.complete + thread[i].complete \in Nat
        /\ total.timeout + thread[i].timeout \in Nat
    BY SMTT(60), <2>1 DEF Counters
  <2>3. total' \in [complete : Nat, timeout : Nat]
    BY <1>6, <2>2 DEF Join, Merge
  <2>4. i' \in 0..N /\ mpc' \in {"join", "report"}
    BY <1>6, <2>1 DEF Join, Merge
  <2>5. UNCHANGED <<isSetup, stop, tpc, loopStop, thread, rates, refused>>
    BY <1>6 DEF Join, Merge, threadVars
  <2> QED
    BY <2>3, <2>4, <2>5
<1>7. CASE Report
  BY <1>7 DEF Report, threadVars
<1>8. CASE handler
  BY <1>8 DEF handler, mainVars, threadVars
<1>9. ASSUME NEW t \in Threads, Worker(t) PROVE Types'
  <2>1. CASE aeMain(t)
    BY <2>1 DEF aeMain, mainVars
  <2>2. CASE response_complete(t)
    <3>1. PICK late \in {0, 1} :
              thread' = [thread EXCEPT ![t].complete = @ + 1, ![t].requests = @ + 1,
                                       ![t].timeout = @ + late]
      BY <2>2 DEF response_complete
    <3>2. thread' \in [Threads -> Counters]
      BY SMTT(60), <3>1 DEF Counters
    <3> QED
      BY <2>2, <3>2 DEF response_complete, mainVars
  <2>3. CASE EndFile(t)
    BY <2>3 DEF EndFile, mainVars
  <2>4. CASE record_rate(t)
    <3>1. thread[t].requests \in Nat
      BY DEF Counters
    <3>2. rates' \in [Threads -> Nat] /\ refused' \in [Threads -> Nat]
      <4>1. [rates EXCEPT ![t] = @ + thread[t].requests] \in [Threads -> Nat]
        BY <3>1
      <4>2. [refused EXCEPT ![t] = @ + thread[t].requests] \in [Threads -> Nat]
        BY <3>1
      <4>3. RecordInterval(t)
        BY <2>4 DEF record_rate
      <4> QED
        BY <4>1, <4>2, <4>3, Zenon DEF RecordInterval
    <3>3. thread' \in [Threads -> Counters]
      <4>1. thread' = [thread EXCEPT ![t].requests = 0]
        BY <2>4, Zenon DEF record_rate, RecordInterval
      <4> DEFINE c == [thread[t] EXCEPT !.requests = 0]
      <4>2. c \in Counters
        <5>1. thread[t] \in Counters
          OBVIOUS
        <5> QED
          BY <5>1 DEF Counters
      <4>3. thread' = [thread EXCEPT ![t] = c]
        BY <4>1, Zenon
      <4> HIDE DEF c, Counters
      <4> QED
        BY <4>2, <4>3
    <3>4. loopStop' \in [Threads -> BOOLEAN]
      BY <2>4, Zenon DEF record_rate
    <3> QED
      BY <2>4, <3>2, <3>3, <3>4 DEF record_rate, mainVars
  <2>5. CASE NotDue(t)
    BY <2>5 DEF NotDue, mainVars
  <2>6. CASE TestStop(t)
    BY <2>6 DEF TestStop, mainVars
  <2> QED
    BY <1>9, <2>1, <2>2, <2>3, <2>4, <2>5, <2>6 DEF Worker
<1>10. ASSUME NEW t \in Threads, script_thread_stop(t) PROVE Types'
  BY <1>10 DEF script_thread_stop, mainVars
<1>11. CASE UNCHANGED vars
  BY <1>11 DEF vars
<1> QED
  BY <1>1, <1>2, <1>3, <1>4, <1>5, <1>6, <1>7, <1>8, <1>9, <1>10, <1>11 DEF Next, Main

-----------------------------------------------------------------------------
(* main and the threads it has come to *)

LEMMA MainInvInit == Init => MainInv
BY LifecycleAssumption DEF Init, MainInv, NothingMerged, Threads

\* No step of a thread, and no call of thread:stop(), brings a thread into being
\* or changes one that has ended.
LEMMA ThreadStep ==
    ASSUME Types, NEW t \in Threads, Worker(t) \/ script_thread_stop(t)
    PROVE  /\ mpc' = mpc /\ i' = i /\ total' = total /\ cfg' = cfg
           /\ \A u \in Threads : tpc[u] = "none" => tpc'[u] = "none"
           /\ \A u \in Threads : tpc[u] = "exited" =>
                 thread'[u] = thread[u] /\ tpc'[u] = tpc[u]
<1> USE DEF Types, mainVars
<1>1. CASE aeMain(t)
  BY <1>1 DEF aeMain
<1>2. CASE response_complete(t)
  BY <1>2 DEF response_complete
<1>3. CASE EndFile(t)
  BY <1>3 DEF EndFile
<1>4. CASE record_rate(t)
  BY <1>4 DEF record_rate, RecordInterval
<1>5. CASE NotDue(t)
  BY <1>5 DEF NotDue
<1>6. CASE TestStop(t)
  BY <1>6 DEF TestStop
<1>7. CASE script_thread_stop(t)
  BY <1>7 DEF script_thread_stop
<1> QED
  BY <1>1, <1>2, <1>3, <1>4, <1>5, <1>6, <1>7 DEF Worker

\* Joining thread i makes it one of those merged.
LEMMA JoinMerges ==
    ASSUME Types, NEW k \in Threads, k = i, Merged(k), Join
    PROVE  Merged(k + 1)'
<1> DEFINE c == [t \in Threads |-> thread[t].complete]
           d == [t \in Threads |-> thread[t].timeout]
<1>1. /\ tpc[k] = "exited"
      /\ total' = [complete |-> total.complete + thread[k].complete,
                   timeout  |-> total.timeout + thread[k].timeout]
      /\ thread' = thread /\ tpc' = tpc
  BY DEF Join, Merge, threadVars
<1>2. k \in Nat /\ total.complete \in Nat /\ total.timeout \in Nat
  BY LifecycleAssumption DEF Types
<1>3. c[k] \in Nat /\ d[k] \in Nat /\ c[k] = thread[k].complete /\ d[k] = thread[k].timeout
  BY DEF Types, Counters
<1>4. SumsTo(c, k, total.complete) /\ SumsTo(d, k, total.timeout)
  BY DEF Merged
<1>5. \A t \in Threads : t < k + 1 => tpc'[t] = "exited"
  <2>1. \A t \in Threads : t < k => tpc[t] = "exited"
    BY DEF Merged
  <2>2. \A t \in Threads : t < k + 1 => t < k \/ t = k
    BY LifecycleAssumption DEF Threads
  <2> QED
    BY <1>1, <2>1, <2>2
<1>6. c' = c /\ d' = d
  BY <1>1
<1> HIDE DEF c, d
<1>7. SumsTo(c, k + 1, total.complete + c[k]) /\ SumsTo(d, k + 1, total.timeout + d[k])
  BY <1>2, <1>3, <1>4, SumExtended
<1>8. total'.complete = total.complete + c[k] /\ total'.timeout = total.timeout + d[k]
  BY <1>1, <1>3
<1>9. SumsTo(c', k + 1, total'.complete) /\ SumsTo(d', k + 1, total'.timeout)
  BY <1>6, <1>7, <1>8
<1> QED
  BY <1>5, <1>9 DEF Merged, c, d

LEMMA MainInvNext == ASSUME Types, MainInv, [Next]_vars PROVE MainInv'
<1> USE LifecycleAssumption
<1>1. CASE script_init
  BY <1>1 DEF script_init, threadVars, MainInv, NothingMerged
<1>2. CASE pthread_create
  <2>1. /\ i \in Threads /\ NothingMerged /\ total' = total /\ i' = i + 1
        /\ mpc' \in {"setup", "sigaction"} /\ (mpc' = "setup" => i + 1 < N)
        /\ \A t \in Threads : t >= i + 1 => tpc'[t] = "none"
    BY <1>2 DEF pthread_create, MainInv, Types, Threads
  <2> QED
    BY <2>1 DEF MainInv, NothingMerged, Threads
<1>3. CASE CreateFails
  BY <1>3 DEF CreateFails, MainInv
<1>4. CASE sigaction
  BY <1>4 DEF sigaction, MainInv, NothingMerged
<1>5. CASE Wake
  <2>1. mpc' = "join" /\ i' = 0 /\ total' = total /\ NothingMerged
    BY <1>5 DEF Wake, MainInv
  <2>2. 0 \in Threads /\ \A t \in Threads : ~(t < 0)
    BY DEF Threads
  <2>3. Merged(0)'
    <3>1. SumsTo([t \in Threads |-> thread[t].complete]', 0, 0)
      BY SumOfNone
    <3>2. SumsTo([t \in Threads |-> thread[t].timeout]', 0, 0)
      BY SumOfNone
    <3> QED
      BY <2>1, <2>2, <3>1, <3>2 DEF Merged, NothingMerged
  <2> QED
    BY <2>1, <2>2, <2>3 DEF MainInv
<1>6. CASE Join
  <2>1. PICK k \in Threads : k = i /\ Merged(k)
    BY <1>6 DEF Join, MainInv
  <2>2. Merged(k + 1)'
    BY <1>6, <2>1, JoinMerges
  <2>3. i' = k + 1 /\ mpc' = (IF k + 1 < N THEN "join" ELSE "report")
    BY <1>6, <2>1 DEF Join, Merge
  <2>4. k + 1 \in Threads \/ k + 1 = N
    BY DEF Threads
  <2>5. CASE k + 1 < N
    <3>1. k + 1 \in Threads
      BY <2>4, <2>5
    <3>2. Merged(i)'
      BY <2>2, <2>3 DEF Merged
    <3> QED
      BY <2>3, <2>5, <3>1, <3>2 DEF MainInv
  <2>6. CASE ~(k + 1 < N)
    <3>1. k + 1 = N
      BY <2>4, <2>6 DEF Threads
    <3>2. Merged(N)' /\ mpc' = "report"
      BY <2>2, <2>3, <2>6, <3>1
    <3> QED
      BY <3>2 DEF MainInv
  <2> QED
    BY <2>5, <2>6
<1>7. CASE Report
  <2>1. Merged(N)' /\ mpc' = "done"
    BY <1>7 DEF Report, threadVars, MainInv, Merged
  <2> QED
    BY <2>1 DEF MainInv
<1>8. CASE handler
  BY <1>8 DEF handler, mainVars, threadVars, MainInv, NothingMerged, Merged
<1>9. ASSUME NEW t \in Threads, Worker(t) \/ script_thread_stop(t) PROVE MainInv'
  <2>1. /\ mpc' = mpc /\ i' = i /\ total' = total
        /\ \A u \in Threads : tpc[u] = "none" => tpc'[u] = "none"
        /\ \A u \in Threads : tpc[u] = "exited" => thread'[u] = thread[u] /\ tpc'[u] = tpc[u]
    BY <1>9, ThreadStep
  <2>2. ASSUME NEW k \in 0..N, Merged(k) PROVE Merged(k)'
    <3>1. \A u \in Threads : u < k => thread'[u] = thread[u] /\ tpc'[u] = tpc[u]
      BY <2>1, <2>2 DEF Merged
    <3> QED
      BY <2>1, <2>2, <3>1, MergedKept
  <2>3. PICK k \in 0..N : k = i
    BY DEF Types
  <2>4. mpc' = "join" => Merged(i)'
    <3>1. mpc' = "join" => Merged(k)'
      BY <2>1, <2>2, <2>3 DEF MainInv
    <3> QED
      BY <2>1, <2>3, <3>1 DEF Merged
  <2>5. mpc' \in {"report", "done"} => Merged(N)'
    BY <2>1, <2>2 DEF MainInv
  <2>6. mpc' \in {"setup", "start"} => \A u \in Threads : u >= i' => tpc'[u] = "none"
    BY <2>1 DEF MainInv
  <2> QED
    BY <2>1, <2>4, <2>5, <2>6 DEF MainInv, NothingMerged
<1>10. CASE UNCHANGED vars
  BY <1>10 DEF vars, MainInv, NothingMerged, Merged
<1> QED
  BY <1>1, <1>2, <1>3, <1>4, <1>5, <1>6, <1>7, <1>8, <1>9, <1>10 DEF Next, Main

-----------------------------------------------------------------------------
(* The counters of the threads *)

LEMMA CountInvNext == ASSUME Types, CountInv, [Next]_vars PROVE CountInv'
<1> SUFFICES ASSUME NEW t \in Threads
             PROVE  rates'[t] + refused'[t] + thread'[t].requests = thread'[t].complete
  BY DEF CountInv
<1>1. /\ rates[t] + refused[t] + thread[t].requests = thread[t].complete
      /\ rates[t] \in Nat /\ refused[t] \in Nat /\ thread[t] \in Counters
      /\ thread[t].requests \in Nat /\ thread[t].complete \in Nat
  BY DEF CountInv, Types, Counters
<1>2. CASE rates'[t] = rates[t] /\ refused'[t] = refused[t] /\ thread'[t] = thread[t]
  BY <1>1, <1>2
<1>3. CASE Main \/ handler \/ UNCHANGED vars
  <2>1. rates' = rates /\ refused' = refused /\ thread' = thread
    BY <1>3 DEF Main, script_init, pthread_create, CreateFails, sigaction, Wake,
                Join, Merge, Report, handler, threadVars, vars
  <2> QED
    BY <1>2, <2>1
<1>4. ASSUME NEW u \in Threads, Worker(u) \/ script_thread_stop(u)
      PROVE  rates'[t] + refused'[t] + thread'[t].requests = thread'[t].complete
  <2>1. CASE response_complete(u)
    <3>1. PICK late \in {0, 1} :
              thread' = [thread EXCEPT ![u].complete = @ + 1, ![u].requests = @ + 1,
                                       ![u].timeout = @ + late]
      BY <2>1 DEF response_complete
    <3>2. rates' = rates /\ refused' = refused
      BY <2>1 DEF response_complete
    <3>3. CASE u = t
      <4>1. /\ thread'[t].complete = thread[t].complete + 1
            /\ thread'[t].requests = thread[t].requests + 1
        BY <3>1, <3>3 DEF Types, Counters
      <4> QED
        BY <1>1, <3>2, <4>1
    <3>4. CASE u # t
      BY <1>2, <3>1, <3>2, <3>4 DEF Types
    <3> QED
      BY <3>3, <3>4
  <2>2. CASE record_rate(u)
    <3>1. /\ RecordInterval(u)
          /\ thread' = [thread EXCEPT ![u].requests = 0]
      BY <2>2 DEF record_rate, RecordInterval
    <3>2. CASE u = t
      <4>1. /\ thread'[t].requests = 0
            /\ thread'[t].complete = thread[t].complete
        BY <3>1, <3>2 DEF Types, Counters
      <4>2. \/ /\ rates'[t] = rates[t] + thread[t].requests
               /\ refused'[t] = refused[t]
            \/ /\ refused'[t] = refused[t] + thread[t].requests
               /\ rates'[t] = rates[t]
        BY <3>1, <3>2 DEF RecordInterval, Types
      <4> QED
        BY <1>1, <4>1, <4>2
    <3>3. CASE u # t
      <4>1. thread'[t] = thread[t]
        BY <3>1, <3>3 DEF Types
      <4>2. rates'[t] = rates[t] /\ refused'[t] = refused[t]
        BY <3>1, <3>3 DEF RecordInterval, Types
      <4> QED
        BY <1>2, <4>1, <4>2
    <3> QED
      BY <3>2, <3>3
  <2>3. CASE aeMain(u) \/ EndFile(u) \/ NotDue(u) \/ TestStop(u) \/ script_thread_stop(u)
    <3>1. rates' = rates /\ refused' = refused /\ thread' = thread
      BY <2>3 DEF aeMain, EndFile, NotDue, TestStop, script_thread_stop
    <3> QED
      BY <1>2, <3>1
  <2> QED
    BY <1>4, <2>1, <2>2, <2>3 DEF Worker
<1> QED
  BY <1>3, <1>4 DEF Next

LEMMA StopInvNext == ASSUME Types, MainInv, StopInv, [Next]_vars PROVE StopInv'
<1> DEFINE Fine(t) == /\ tpc[t] = "exited" => loopStop[t]
                      /\ loopStop[t] /\ t \notin scripted =>
                            tpc[t] \in {"test", "exited"} /\ thread[t].requests = 0
<1> SUFFICES ASSUME NEW t \in Threads PROVE Fine(t)'
  BY DEF StopInv
<1>1. Fine(t)
  BY DEF StopInv
<1>2. CASE /\ tpc'[t] = tpc[t] /\ loopStop'[t] = loopStop[t] /\ thread'[t] = thread[t]
           /\ (t \in scripted' <=> t \in scripted)
  BY <1>1, <1>2
<1>3. CASE pthread_create
  <2>1. /\ tpc' = [tpc EXCEPT ![i] = "connect"]
        /\ UNCHANGED <<loopStop, thread, scripted>>
    BY <1>3 DEF pthread_create
  <2>2. CASE t = i
    <3>1. tpc[t] = "none"
      BY <1>3, <2>2 DEF pthread_create, MainInv, Threads
    <3>2. tpc'[t] = "connect"
      BY <2>1, <2>2 DEF Types
    <3> QED
      BY <1>1, <2>1, <3>1, <3>2
  <2>3. CASE t # i
    BY <1>2, <2>1, <2>3 DEF Types
  <2> QED
    BY <2>2, <2>3
<1>4. CASE \/ script_init \/ CreateFails \/ sigaction \/ Wake \/ Join \/ Report
           \/ handler \/ UNCHANGED vars
  <2>1. UNCHANGED <<tpc, loopStop, thread, scripted>>
    BY <1>4 DEF script_init, CreateFails, sigaction, Wake, Join, Merge, Report, handler,
                threadVars, vars
  <2> QED
    BY <1>2, <2>1
<1>5. ASSUME NEW u \in Threads, Worker(u) \/ script_thread_stop(u) PROVE Fine(t)'
  <2> USE DEF Types
  <2>1. CASE u # t
    <3>1. CASE aeMain(u) \/ EndFile(u) \/ NotDue(u) \/ TestStop(u)
      BY <1>2, <2>1, <3>1 DEF aeMain, EndFile, NotDue, TestStop
    <3>2. CASE response_complete(u)
      BY <1>2, <2>1, <3>2 DEF response_complete
    <3>3. CASE record_rate(u)
      BY <1>2, <2>1, <3>3 DEF record_rate, RecordInterval
    <3>4. CASE script_thread_stop(u)
      BY <1>2, <2>1, <3>4 DEF script_thread_stop
    <3> QED
      BY <1>5, <3>1, <3>2, <3>3, <3>4 DEF Worker
  <2>2. CASE u = t
    <3>1. CASE aeMain(t)
      <4>1. tpc'[t] = "test" /\ loopStop'[t] = FALSE
        BY <3>1, Zenon DEF aeMain
      <4> QED
        BY <4>1
    <3>2. CASE response_complete(t)
      <4>1. /\ tpc[t] = "file" /\ tpc' = tpc /\ loopStop' = loopStop /\ scripted' = scripted
        BY <3>2 DEF response_complete
      <4> QED
        BY <1>1, <4>1
    <3>3. CASE EndFile(t)
      <4>1. /\ tpc[t] = "file" /\ tpc'[t] = "time" /\ loopStop' = loopStop
            /\ scripted' = scripted
        BY <3>3 DEF EndFile
      <4> QED
        BY <1>1, <4>1
    <3>4. CASE record_rate(t)
      <4>1. tpc'[t] = "test" /\ thread'[t].requests = 0
        BY <3>4 DEF record_rate, RecordInterval, Counters
      <4> QED
        BY <4>1
    <3>5. CASE NotDue(t)
      <4>1. /\ tpc[t] = "time" /\ tpc'[t] = "test" /\ loopStop' = loopStop
            /\ scripted' = scripted
        BY <3>5 DEF NotDue
      <4> QED
        BY <1>1, <4>1
    <3>6. CASE TestStop(t)
      <4>1. /\ tpc'[t] = (IF loopStop[t] THEN "exited" ELSE "file")
            /\ UNCHANGED <<loopStop, thread, scripted>>
        BY <3>6 DEF TestStop
      <4> QED
        BY <1>1, <4>1
    <3>7. CASE script_thread_stop(t)
      <4>1. loopStop'[t] = TRUE
        BY <3>7, Zenon DEF script_thread_stop
      <4>2. t \in scripted' /\ tpc' = tpc
        BY <3>7 DEF script_thread_stop
      <4> QED
        BY <4>1, <4>2
    <3> QED
      BY <1>5, <2>2, <3>1, <3>2, <3>3, <3>4, <3>5, <3>6, <3>7 DEF Worker
  <2> QED
    BY <2>1, <2>2
<1> QED
  BY <1>3, <1>4, <1>5 DEF Next, Main

-----------------------------------------------------------------------------
(* Theorems *)

Inv == Types /\ MainInv /\ CountInv /\ StopInv

\* The inductive invariant: where main and the threads are, and what they hold.
THEOREM Invariance == Spec => []Inv
<1>1. Init => Inv
  <2> SUFFICES ASSUME Init PROVE Inv
    OBVIOUS
  <2>1. CountInv
    BY DEF Init, CountInv, Zero
  <2>2. StopInv
    BY DEF Init, StopInv
  <2> QED
    BY <2>1, <2>2, TypesInit, MainInvInit DEF Inv
<1>2. Inv /\ [Next]_vars => Inv'
  BY TypesNext, MainInvNext, CountInvNext, StopInvNext DEF Inv
<1> QED
  BY <1>1, <1>2, PTL DEF Spec

\* When main reports, every thread has ended and the totals are the sums of what
\* the threads have counted, for any number of threads.
THEOREM ReportIsExact == Spec => []ReportExact
<1>1. Inv => ReportExact
  BY DEF Inv, MainInv, ReportExact
<1> QED
  BY <1>1, Invariance, PTL

\* A thread that the flag has stopped has given the rates of all its responses to
\* stats_record: record_rate calls it before it stops the loop.
THEOREM NoIntervalLost == Spec => []LastIntervalRecorded
<1>1. Inv => LastIntervalRecorded
  <2> SUFFICES ASSUME Inv, NEW t \in Threads, tpc[t] = "exited", t \notin scripted
               PROVE  thread[t].requests = 0 /\ rates[t] + refused[t] = thread[t].complete
    BY DEF LastIntervalRecorded
  <2>1. thread[t].requests = 0
    BY DEF Inv, StopInv
  <2>2. /\ rates[t] + refused[t] + thread[t].requests = thread[t].complete
        /\ rates[t] \in Nat /\ refused[t] \in Nat
    BY DEF Inv, CountInv, Types
  <2> QED
    BY <2>1, <2>2
<1> QED
  BY <1>1, Invariance, PTL

\* main writes the configuration for the last time before it starts a thread.
THEOREM ConfigurationFixed == Spec => CfgFixedBeforeStart
<1>1. Inv /\ [Next]_vars => [cfg' # cfg => \A t \in Threads : tpc[t] = "none"]_vars
  <2> SUFFICES ASSUME Inv, Next, cfg' # cfg PROVE \A t \in Threads : tpc[t] = "none"
    BY DEF vars
  <2>1. script_init
    <3>1. ~(\E t \in Threads : Worker(t) \/ script_thread_stop(t))
      BY ThreadStep DEF Inv
    <3>2. ~(pthread_create \/ CreateFails \/ sigaction \/ Wake \/ Join \/ Report \/ handler)
      BY DEF pthread_create, CreateFails, sigaction, Wake, Join, Merge, Report, handler, mainVars
    <3> QED
      BY <3>1, <3>2 DEF Next, Main
  <2>2. i = 0 /\ mpc = "setup"
    BY <2>1 DEF script_init, SetsCfg
  <2>3. \A t \in Threads : t >= 0
    BY LifecycleAssumption DEF Threads
  <2> QED
    BY <2>2, <2>3 DEF Inv, MainInv
<1> QED
  BY <1>1, Invariance, PTL DEF Spec, CfgFixedBeforeStart

=============================================================================
