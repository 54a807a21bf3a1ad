-------------------------------- MODULE Stats --------------------------------
(***************************************************************************)
(* stats_record of stats.c, called by all worker threads on the two        *)
(* histograms they share (statistics.latency from response_complete,       *)
(* statistics.requests from record_rate).  There is no lock: every access  *)
(* of the shared structure is a step of its own.  The __sync built-ins are *)
(* atomic with a full barrier; the two plain loads are of aligned 64-bit   *)
(* words, which the machines this builds for do not tear.                  *)
(*                                                                         *)
(* A definition whose name is that of another followed by an underscore    *)
(* and a word (CasMin_Once) is a mistaken variant of it, not part of the   *)
(* specification: each shows that a property below would notice that       *)
(* mistake in the code.                                                    *)
(***************************************************************************)
EXTENDS Naturals, FiniteSets

CONSTANTS
    Threads,    \* the worker threads
    Limit,      \* stats->limit
    Samples,    \* the values offered, in range or not
    UINT64_MAX, \* the initial stats->min
    MaxCalls    \* bound on the calls of stats_record

ASSUME StatsAssumption ==
    /\ IsFiniteSet(Threads)
    /\ Limit \in Nat \ {0}
    /\ Samples \subseteq Nat
    /\ UINT64_MAX \in Nat /\ UINT64_MAX >= Limit
    /\ MaxCalls \in Nat

VARIABLES
    data,      \* stats->data
    count,     \* stats->count
    min,       \* stats->min
    max,       \* stats->max
    pc,        \* where a thread is in stats_record
    n,         \* its argument
    lmin,      \* its local min
    lmax,      \* its local max
    calls,     \* calls made so far
    timeouts   \* calls that returned 0, counted in errors.timeout

vars == <<data, count, min, max, pc, n, lmin, lmax, calls, timeouts>>

Slots == 0..(Limit - 1)

\* stats_alloc
Init ==
    /\ data = [v \in Slots |-> 0]
    /\ count = 0
    /\ min = UINT64_MAX
    /\ max = 0
    /\ pc = [t \in Threads |-> "idle"]
    /\ n = [t \in Threads |-> 0]
    /\ lmin = [t \in Threads |-> 0]
    /\ lmax = [t \in Threads |-> 0]
    /\ calls = 0
    /\ timeouts = 0

At(t, from, to) ==
    /\ pc[t] = from
    /\ pc' = [pc EXCEPT ![t] = to]

\* n >= stats->limit
Refused_OffByOne(v) == v > Limit
Refused(v) == v >= Limit

\* A call; a sample that is out of range is refused at once.
Enter(t, v) ==
    /\ calls < MaxCalls
    /\ calls' = calls + 1
    /\ IF Refused(v)
       THEN /\ At(t, "idle", "idle")
            /\ timeouts' = timeouts + 1
            /\ UNCHANGED n
       ELSE /\ At(t, "idle", "data")
            /\ n' = [n EXCEPT ![t] = v]
            /\ UNCHANGED timeouts
    /\ UNCHANGED <<data, count, min, max, lmin, lmax>>

AddData(t) ==
    /\ At(t, "data", "count")
    /\ data' = [data EXCEPT ![n[t]] = @ + 1]
    /\ UNCHANGED <<count, min, max, n, lmin, lmax, calls, timeouts>>

AddCount_Lost(t) ==
    /\ At(t, "count", "min")
    /\ count' = IF \E u \in Threads \ {t} : pc[u] = "count" THEN count ELSE count + 1
    /\ UNCHANGED <<data, min, max, n, lmin, lmax, calls, timeouts>>

AddCount(t) ==
    /\ At(t, "count", "min")
    /\ count' = count + 1
    /\ UNCHANGED <<data, min, max, n, lmin, lmax, calls, timeouts>>

ReadMin(t) ==
    /\ At(t, "min", "max")
    /\ lmin' = [lmin EXCEPT ![t] = min]
    /\ UNCHANGED <<data, count, min, max, n, lmax, calls, timeouts>>

ReadMax(t) ==
    /\ At(t, "max", "cas_min")
    /\ lmax' = [lmax EXCEPT ![t] = max]
    /\ UNCHANGED <<data, count, min, max, n, lmin, calls, timeouts>>

CasMin_Once(t) ==
    /\ n[t] < lmin[t]
    /\ At(t, "cas_min", "cas_max")
    /\ min' = IF min = lmin[t] THEN n[t] ELSE min
    /\ UNCHANGED <<data, count, max, n, lmin, lmax, calls, timeouts>>

CasMin_NoReload(t) ==
    /\ n[t] < lmin[t]
    /\ At(t, "cas_min", "cas_min")
    /\ min' = IF min = lmin[t] THEN n[t] ELSE min
    /\ UNCHANGED <<data, count, max, n, lmin, lmax, calls, timeouts>>

\* while (n < min) min = __sync_val_compare_and_swap(&stats->min, min, n).
\* The built-in returns the old value also when it swaps, so the loop always
\* ends by a comparison that fails.
CasMin(t) ==
    /\ n[t] < lmin[t]
    /\ At(t, "cas_min", "cas_min")
    /\ lmin' = [lmin EXCEPT ![t] = min]
    /\ min' = IF min = lmin[t] THEN n[t] ELSE min
    /\ UNCHANGED <<data, count, max, n, lmax, calls, timeouts>>

MinDone(t) ==
    /\ n[t] >= lmin[t]
    /\ At(t, "cas_min", "cas_max")
    /\ UNCHANGED <<data, count, min, max, n, lmin, lmax, calls, timeouts>>

CasMax_Once(t) ==
    /\ n[t] > lmax[t]
    /\ At(t, "cas_max", "idle")
    /\ max' = IF max = lmax[t] THEN n[t] ELSE max
    /\ UNCHANGED <<data, count, min, n, lmin, lmax, calls, timeouts>>

CasMax(t) ==
    /\ n[t] > lmax[t]
    /\ At(t, "cas_max", "cas_max")
    /\ lmax' = [lmax EXCEPT ![t] = max]
    /\ max' = IF max = lmax[t] THEN n[t] ELSE max
    /\ UNCHANGED <<data, count, min, n, lmin, calls, timeouts>>

\* The return of 1.
MaxDone(t) ==
    /\ n[t] <= lmax[t]
    /\ At(t, "cas_max", "idle")
    /\ UNCHANGED <<data, count, min, max, n, lmin, lmax, calls, timeouts>>

stats_record(t) ==
    \/ AddData(t) \/ AddCount(t) \/ ReadMin(t) \/ ReadMax(t)
    \/ CasMin(t) \/ MinDone(t) \/ CasMax(t) \/ MaxDone(t)

Next == \E t \in Threads : \/ \E v \in Samples : Enter(t, v)
                           \/ stats_record(t)

Spec == Init /\ [][Next]_vars

\* A thread that is in stats_record goes on: nothing in it waits.
FairSpec == Spec /\ \A t \in Threads : WF_vars(stats_record(t))

-----------------------------------------------------------------------------
(* Properties *)

\* The type invariant.
TypeOK ==
    /\ data \in [Slots -> Nat]
    /\ count \in Nat
    /\ min \in Slots \cup {UINT64_MAX}
    /\ max \in Slots
    /\ pc \in [Threads -> {"idle", "data", "count", "min", "max", "cas_min", "cas_max"}]
    /\ n \in [Threads -> Slots]
    /\ lmin \in [Threads -> Nat]
    /\ lmax \in [Threads -> Nat]
    /\ calls \in 0..MaxCalls
    /\ timeouts \in Nat

Quiescent == \A t \in Threads : pc[t] = "idle"

\* When no call is running, min and max are the bounds of what was recorded,
\* whatever interleaving of the compare-and-swap loops led there; stats_mean,
\* stats_stdev, stats_percentile and stats_popcount rely on it.
BoundsExact ==
    Quiescent => /\ \A v \in Slots : data[v] > 0 => min <= v /\ v <= max
                 /\ (\E v \in Slots : data[v] > 0) => /\ min \in Slots
                                                      /\ data[min] > 0
                                                      /\ data[max] > 0

\* Threads whose sample is not yet in count.
InFlight == {t \in Threads : pc[t] \in {"data", "count"}}

\* No sample is lost or counted twice: every call is accounted for in count,
\* in errors.timeout, or is still on its way to count.
NoSampleLost == calls = count + timeouts + Cardinality(InFlight)

\* The parts of the inductive invariant behind BoundsExact.  Where a thread
\* still owes its sample to one of the bounds:
OwesMin(t) == pc[t] \in {"count", "min", "max", "cas_min"}
OwesMax(t) == pc[t] \in {"count", "min", "max", "cas_min", "cas_max"}

\* a recorded value is within each bound, or its thread still owes it;
MinCovers == \A v \in Slots : data[v] > 0 =>
                min <= v \/ \E t \in Threads : n[t] = v /\ OwesMin(t)
MaxCovers == \A v \in Slots : data[v] > 0 =>
                v <= max \/ \E t \in Threads : n[t] = v /\ OwesMax(t)

\* what a thread remembers of a bound is at most as wide as the bound is now;
LocalsLag == \A t \in Threads :
                /\ pc[t] \in {"max", "cas_min"} => min <= lmin[t]
                /\ pc[t] \in {"cas_min", "cas_max"} => lmax[t] <= max

\* a bound is a recorded value (or still the initial one), and so is the
\* argument of a thread past its first addition.
BoundsSeen == /\ min # UINT64_MAX => min \in Slots /\ data[min] > 0
              /\ max # 0 => data[max] > 0
              /\ \A t \in Threads : OwesMax(t) => data[n[t]] > 0

\* The inductive invariant: at every point of every interleaving each sample
\* is within the bounds or owed to them by a thread.
BoundsInv == MinCovers /\ MaxCovers /\ LocalsLag /\ BoundsSeen

\* The bounds only ever widen: a late compare-and-swap of one thread never
\* takes back what another has recorded.
BoundsWiden == [][min' <= min /\ max' >= max]_vars

\* Every call returns: the loops are lock-free and cannot spin for ever.
Returns == \A t \in Threads : pc[t] # "idle" ~> pc[t] = "idle"

-----------------------------------------------------------------------------
(* Refinement: the histogram behaves as StatsAbs promises. *)

Counting == {t \in Threads : pc[t] = "count"}

Abs == INSTANCE StatsAbs WITH
    Unset   <- UINT64_MAX,
    hist    <- data,
    total   <- count + Cardinality(Counting),
    todo    <- {t \in Threads : pc[t] = "data"},
    running <- {t \in Threads : pc[t] # "idle"},
    summary <- IF Quiescent
               THEN [count |-> count, min |-> min, max |-> max, exact |-> TRUE]
               ELSE [count |-> 0, min |-> UINT64_MAX, max |-> 0, exact |-> FALSE]

\* The interleaved accesses of stats_record implement the one-step addition
\* of StatsAbs, with an exact summary whenever no call is running.
ImplementsAbs == Abs!Spec

=============================================================================
