------------------------------- MODULE StatsAbs -------------------------------
(***************************************************************************)
(* What stats.c promises of a histogram that several threads record into:  *)
(* a call adds its sample once, at some point between its beginning and    *)
(* its return, and whenever no call is running the summary (count, min and *)
(* max) is that of exactly the samples recorded.  While calls are running  *)
(* nothing is promised of the summary: main only reads it after it has     *)
(* joined the threads.                                                     *)
(***************************************************************************)
EXTENDS Naturals, FiniteSets

CONSTANTS Threads, Limit, Unset

VARIABLES
    hist,     \* samples recorded of every value
    total,    \* number of samples recorded
    todo,     \* threads in a call that has yet to add its sample
    running,  \* threads in a call
    summary   \* count, min and max, or Busy

absVars == <<hist, total, todo, running, summary>>

Busy == [count |-> 0, min |-> Unset, max |-> 0, exact |-> FALSE]

Seen(h) == {v \in DOMAIN h : h[v] > 0}

\* The summary of histogram h with n samples; Unset and 0 stand for the
\* minimum and maximum of an empty one.
Summary(h, n) ==
    [count |-> n,
     min   |-> IF Seen(h) = {} THEN Unset
               ELSE CHOOSE v \in Seen(h) : \A w \in Seen(h) : v <= w,
     max   |-> IF Seen(h) = {} THEN 0
               ELSE CHOOSE v \in Seen(h) : \A w \in Seen(h) : w <= v,
     exact |-> TRUE]

Init ==
    /\ hist = [v \in 0..(Limit - 1) |-> 0]
    /\ total = 0
    /\ todo = {}
    /\ running = {}
    /\ summary = Summary(hist, total)

\* A call that will add a sample begins.  (One that is refused, the value
\* being out of range, changes nothing.)
Begin(t) ==
    /\ t \notin running
    /\ running' = running \cup {t}
    /\ todo' = todo \cup {t}
    /\ summary' = Busy
    /\ UNCHANGED <<hist, total>>

\* The sample is added, once.
Add(t, v) ==
    /\ t \in todo
    /\ todo' = todo \ {t}
    /\ hist' = [hist EXCEPT ![v] = @ + 1]
    /\ total' = total + 1
    /\ UNCHANGED <<running, summary>>

\* The call returns; the last one to do so leaves an exact summary.
Return(t) ==
    /\ t \in running \ todo
    /\ running' = running \ {t}
    /\ summary' = IF running' = {} THEN Summary(hist, total) ELSE Busy
    /\ UNCHANGED <<hist, total, todo>>

Next == \E t \in Threads : \/ Begin(t) \/ Return(t)
                           \/ \E v \in 0..(Limit - 1) : Add(t, v)

Spec == Init /\ [][Next]_absVars

=============================================================================
