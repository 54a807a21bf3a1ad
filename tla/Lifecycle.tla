------------------------------ MODULE Lifecycle ------------------------------
(***************************************************************************)
(* A run of wrk from main's side: creating and starting the worker         *)
(* threads, waiting for the duration or a signal, stopping and joining     *)
(* them, and merging their counters.  A worker is reduced to the passes of *)
(* its event loop and the counters main reads (WrkThread models what a     *)
(* pass does).  Threads are numbered 0..N-1, the order in which main       *)
(* creates and joins them.                                                 *)
(*                                                                         *)
(* A definition whose name is that of another followed by an underscore    *)
(* and a word (Join_SkipLast) is a mistaken variant of it, not part of the *)
(* specification: each shows that a property below would notice that       *)
(* mistake in the code.                                                    *)
(***************************************************************************)
EXTENDS Naturals

CONSTANTS
    N,             \* cfg.threads
    MaxResponses,  \* bound on the responses a thread completes
    MayScriptStop, \* the script calls thread:stop()
    MayFail        \* pthread_create or aeCreateEventLoop may fail

ASSUME LifecycleAssumption ==
    /\ N \in Nat \ {0}
    /\ MaxResponses \in Nat
    /\ MayScriptStop \in BOOLEAN
    /\ MayFail \in BOOLEAN

Threads == 0..(N - 1)

VARIABLES
    mpc,      \* where main is
    i,        \* main's loop variable
    cfg,      \* the thread whose script set cfg.pipeline, dynamic, delay and parser_settings
    isSetup,  \* threads whose setup() and init() have been called
    sigint,   \* the disposition of SIGINT
    stop,     \* the flag stop
    total,    \* main's complete and errors.timeout
    tpc,      \* where a thread is
    loopStop, \* eventLoop->stop of a thread
    thread,   \* a thread's counters
    rates,    \* responses of a thread that are in samples of statistics.requests
    refused,  \* responses of a thread in rates that stats_record refused
    scripted  \* threads that the script has stopped

mainVars == <<mpc, i, cfg, isSetup, sigint, total>>
threadVars == <<tpc, loopStop, thread, rates, refused, scripted>>
vars == <<mpc, i, cfg, isSetup, sigint, stop, total, tpc, loopStop, thread,
          rates, refused, scripted>>

Zero == [complete |-> 0, requests |-> 0, timeout |-> 0]

Init ==
    /\ mpc = "setup"
    /\ i = 0
    /\ cfg = {}
    /\ isSetup = {}
    /\ sigint = "ignore"          \* signal(SIGINT, SIG_IGN)
    /\ stop = FALSE
    /\ total = [complete |-> 0, timeout |-> 0]
    /\ tpc = [t \in Threads |-> "none"]
    /\ loopStop = [t \in Threads |-> FALSE]
    /\ thread = [t \in Threads |-> Zero]
    /\ rates = [t \in Threads |-> 0]
    /\ refused = [t \in Threads |-> 0]
    /\ scripted = {}

-----------------------------------------------------------------------------
(* main *)

\* The first half of the loop body: a new event loop and Lua state, setup()
\* and init(); the first thread's script decides the configuration that all
\* threads read.
SetsCfg_Every(t) == TRUE
SetsCfg(t) == t = 0

script_init ==
    /\ mpc = "setup"
    /\ isSetup' = isSetup \cup {i}
    /\ cfg' = IF SetsCfg(i) THEN {i} ELSE cfg
    /\ mpc' = "start"
    /\ UNCHANGED <<i, sigint, stop, total, threadVars>>

\* The second half: pthread_create.
pthread_create ==
    /\ mpc = "start"
    /\ tpc' = [tpc EXCEPT ![i] = "connect"]
    /\ i' = i + 1
    /\ mpc' = IF i + 1 < N THEN "setup" ELSE "sigaction"
    /\ UNCHANGED <<cfg, isSetup, sigint, stop, total, loopStop, thread, rates, refused, scripted>>

\* ... or exit(2), whatever the threads that have started are doing.
CreateFails ==
    /\ MayFail
    /\ mpc = "start"
    /\ mpc' = "exit"
    /\ UNCHANGED <<i, cfg, isSetup, sigint, stop, total, threadVars>>

sigaction ==
    /\ mpc = "sigaction"
    /\ sigint' = "handler"
    /\ mpc' = "sleep"
    /\ UNCHANGED <<i, cfg, isSetup, stop, total, threadVars>>

\* The end of sleep(cfg.duration), on time or cut short by a signal.
Wake ==
    /\ mpc = "sleep"
    /\ stop' = TRUE
    /\ i' = 0
    /\ mpc' = "join"
    /\ UNCHANGED <<cfg, isSetup, sigint, total, threadVars>>

\* pthread_join and the addition of the thread's counters to the totals.
Merge(t) ==
    /\ total' = [complete |-> total.complete + thread[t].complete,
                 timeout  |-> total.timeout + thread[t].timeout]
    /\ i' = t + 1
    /\ mpc' = IF t + 1 < N THEN "join" ELSE "report"
    /\ UNCHANGED <<cfg, isSetup, sigint, stop, threadVars>>

Join_SkipLast ==
    /\ mpc = "join"
    /\ tpc[i] = "exited" \/ i = N - 1
    /\ Merge(i)

Join ==
    /\ mpc = "join"
    /\ tpc[i] = "exited"
    /\ Merge(i)

\* stats_correct, the printed report and done().
Report ==
    /\ mpc = "report"
    /\ mpc' = "done"
    /\ UNCHANGED <<i, cfg, isSetup, sigint, stop, total, threadVars>>

Main == \/ script_init \/ pthread_create \/ CreateFails \/ sigaction
        \/ Wake \/ Join \/ Report

\* SIGINT: ignored until sigaction, then the handler runs.
handler ==
    /\ sigint = "handler"
    /\ mpc \in {"sleep", "join"}
    /\ ~stop
    /\ stop' = TRUE
    /\ UNCHANGED <<mainVars, threadVars>>

-----------------------------------------------------------------------------
(* A worker thread; none of its steps comes after exit(2) *)

Alive == mpc # "exit"

\* The connections are made; aeMain clears eventLoop->stop (and forgets a stop
\* asked for until then) before it tests it.
aeMain(t) ==
    /\ Alive
    /\ tpc[t] = "connect"
    /\ tpc' = [tpc EXCEPT ![t] = "test"]
    /\ loopStop' = [loopStop EXCEPT ![t] = FALSE]
    /\ UNCHANGED <<mainVars, stop, thread, rates, refused, scripted>>

\* response_complete in the file events of a pass.  The last answer of a cycle
\* records a latency, and a timeout when that is out of range.
response_complete(t) ==
    /\ Alive
    /\ tpc[t] = "file"
    /\ thread[t].complete < MaxResponses
    /\ \E late \in {0, 1} :
          thread' = [thread EXCEPT ![t].complete = @ + 1,
                                   ![t].requests = @ + 1,
                                   ![t].timeout  = @ + late]
    /\ UNCHANGED <<mainVars, stop, tpc, loopStop, rates, refused, scripted>>

EndFile(t) ==
    /\ Alive
    /\ tpc[t] = "file"
    /\ tpc' = [tpc EXCEPT ![t] = "time"]
    /\ UNCHANGED <<mainVars, stop, loopStop, thread, rates, refused, scripted>>

\* The time events of a pass: record_rate is due or not.  stats_record takes the
\* rate of the interval, or refuses it as too large for the histogram (when the
\* time that has passed is short); the counter is reset all the same.
RecordInterval(t) ==
    /\ \/ /\ rates' = [rates EXCEPT ![t] = @ + thread[t].requests]
          /\ refused' = refused
       \/ /\ refused' = [refused EXCEPT ![t] = @ + thread[t].requests]
          /\ rates' = rates
    /\ thread' = [thread EXCEPT ![t].requests = 0]

record_rate_StopFirst(t) ==
    /\ Alive
    /\ tpc[t] = "time"
    /\ IF stop THEN UNCHANGED <<rates, refused, thread>> ELSE RecordInterval(t)
    /\ loopStop' = [loopStop EXCEPT ![t] = @ \/ stop]
    /\ tpc' = [tpc EXCEPT ![t] = "test"]
    /\ UNCHANGED <<mainVars, stop, scripted>>

record_rate_NoStop(t) ==
    /\ Alive
    /\ tpc[t] = "time"
    /\ RecordInterval(t)
    /\ tpc' = [tpc EXCEPT ![t] = "test"]
    /\ UNCHANGED <<mainVars, stop, loopStop, scripted>>

record_rate(t) ==
    /\ Alive
    /\ tpc[t] = "time"
    /\ RecordInterval(t)
    /\ loopStop' = [loopStop EXCEPT ![t] = @ \/ stop]
    /\ tpc' = [tpc EXCEPT ![t] = "test"]
    /\ UNCHANGED <<mainVars, stop, scripted>>

NotDue(t) ==
    /\ Alive
    /\ tpc[t] = "time"
    /\ tpc' = [tpc EXCEPT ![t] = "test"]
    /\ UNCHANGED <<mainVars, stop, loopStop, thread, rates, refused, scripted>>

\* while (!eventLoop->stop), and the return of thread_main.
TestStop(t) ==
    /\ Alive
    /\ tpc[t] = "test"
    /\ tpc' = [tpc EXCEPT ![t] = IF loopStop[t] THEN "exited" ELSE "file"]
    /\ UNCHANGED <<mainVars, stop, loopStop, thread, rates, refused, scripted>>

\* thread:stop() called by the thread's own script, or by the script of the
\* setup phase on a thread that has been set up.
script_thread_stop(t) ==
    /\ MayScriptStop
    /\ \/ Alive /\ tpc[t] = "file"
       \/ mpc \in {"setup", "start"} /\ t \in isSetup
    /\ t \notin scripted
    /\ loopStop' = [loopStop EXCEPT ![t] = TRUE]
    /\ scripted' = scripted \cup {t}
    /\ UNCHANGED <<mainVars, stop, tpc, thread, rates, refused>>

Worker(t) == \/ aeMain(t) \/ response_complete(t) \/ EndFile(t)
             \/ record_rate(t) \/ NotDue(t) \/ TestStop(t)

Next ==
    \/ Main \/ handler
    \/ \E t \in Threads : Worker(t) \/ script_thread_stop(t)

Spec == Init /\ [][Next]_vars

\* main and the threads are scheduled; record_rate is due every 100 ms, and a
\* pass of the event loop ends.
Fairness ==
    /\ WF_vars(Main)
    /\ \A t \in Threads : /\ WF_vars(Worker(t))
                          /\ SF_vars(record_rate(t))

FairSpec == Spec /\ Fairness

-----------------------------------------------------------------------------
(* Properties *)

\* n is f[0] + ... + f[k - 1]: s has the partial sums.
SumsTo(f, k, n) ==
    \E s \in [0..k -> 0..n] :
        /\ s[0] = 0
        /\ s[k] = n
        /\ \A j \in 0..(k - 1) : s[j + 1] = s[j] + f[j]

\* The first k threads have ended and the totals are those of their counters.
Merged(k) ==
    /\ \A t \in Threads : t < k => tpc[t] = "exited"
    /\ SumsTo([t \in Threads |-> thread[t].complete], k, total.complete)
    /\ SumsTo([t \in Threads |-> thread[t].timeout], k, total.timeout)

\* The report counts every response and timeout of every thread, once, not what
\* a thread that still counts had when main came by; and main reads the shared
\* histograms (stats_correct even writes them, without any atomic operation)
\* only when no thread can record into them.
ReportExact == mpc \in {"report", "done"} => Merged(N)

\* No response is left out of the rates that the rate histogram is given: when
\* a thread has stopped because of the flag, the rate of its last partial
\* interval has gone to stats_record, which has recorded or refused it, since
\* record_rate calls it before it stops the loop and no file event follows in
\* that pass.
LastIntervalRecorded ==
    \A t \in Threads : tpc[t] = "exited" /\ t \notin scripted =>
       thread[t].requests = 0 /\ rates[t] + refused[t] = thread[t].complete

\* The configuration that the threads read without a lock is fixed before the
\* first of them starts.
CfgFixedBeforeStart ==
    [][cfg' # cfg => \A t \in Threads : tpc[t] = "none"]_vars

\* Every run ends: the threads stop once the flag is set, and the joins return.
Ends == <>(mpc \in {"done", "exit"})

=============================================================================
