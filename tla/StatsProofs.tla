----------------------------- MODULE StatsProofs -----------------------------
(***************************************************************************)
(* Proofs about stats_record for any number of threads, any limit and any  *)
(* samples.                                                                *)
(***************************************************************************)
EXTENDS Stats, FiniteSetTheorems, TLAPS

\* The variables keep their types in every interleaving of stats_record.
THEOREM TypeCorrect == Spec => []TypeOK
<1>1. Init => TypeOK
  BY StatsAssumption DEF Init, TypeOK, Slots
<1>2. TypeOK /\ [Next]_vars => TypeOK'
  <2> SUFFICES ASSUME TypeOK, [Next]_vars PROVE TypeOK'
    OBVIOUS
  <2> USE StatsAssumption DEF TypeOK, Slots, At
  <2>1. ASSUME NEW t \in Threads, NEW v \in Samples, Enter(t, v) PROVE TypeOK'
    <3>1. v \in Nat
      OBVIOUS
    <3>2. calls' \in 0..MaxCalls
      <4>1. calls < MaxCalls /\ calls' = calls + 1
        BY <2>1 DEF Enter, Refused
      <4> QED
        BY <4>1
    <3>3. CASE v >= Limit
      <4>1. /\ pc' = [pc EXCEPT ![t] = "idle"]
            /\ timeouts' = timeouts + 1
            /\ UNCHANGED <<n, data, count, min, max, lmin, lmax>>
        BY <2>1, <3>3 DEF Enter, Refused
      <4> QED
        BY <3>2, <4>1
    <3>4. CASE ~(v >= Limit)
      <4>1. v \in Slots
        BY <3>1, <3>4
      <4>2. /\ pc' = [pc EXCEPT ![t] = "data"]
            /\ n' = [n EXCEPT ![t] = v]
            /\ UNCHANGED <<timeouts, data, count, min, max, lmin, lmax>>
        BY <2>1, <3>4 DEF Enter, Refused
      <4> QED
        BY <3>2, <4>1, <4>2
    <3> QED
      BY <3>3, <3>4
  <2>2. ASSUME NEW t \in Threads, AddData(t) PROVE TypeOK'
    BY <2>2 DEF AddData
  <2>3. ASSUME NEW t \in Threads, AddCount(t) PROVE TypeOK'
    BY <2>3 DEF AddCount
  <2>4. ASSUME NEW t \in Threads, ReadMin(t) PROVE TypeOK'
    BY <2>4 DEF ReadMin
  <2>5. ASSUME NEW t \in Threads, ReadMax(t) PROVE TypeOK'
    BY <2>5 DEF ReadMax
  <2>6. ASSUME NEW t \in Threads, CasMin(t) PROVE TypeOK'
    BY <2>6 DEF CasMin
  <2>7. ASSUME NEW t \in Threads, MinDone(t) PROVE TypeOK'
    BY <2>7 DEF MinDone
  <2>8. ASSUME NEW t \in Threads, CasMax(t) PROVE TypeOK'
    BY <2>8 DEF CasMax
  <2>9. ASSUME NEW t \in Threads, MaxDone(t) PROVE TypeOK'
    BY <2>9 DEF MaxDone
  <2>10. CASE UNCHANGED vars
    BY <2>10 DEF vars
  <2> QED
    BY <2>1, <2>2, <2>3, <2>4, <2>5, <2>6, <2>7, <2>8, <2>9, <2>10
       DEF Next, stats_record
<1> QED
  BY <1>1, <1>2, PTL DEF Spec

\* The bounds only ever widen, in every step of every thread.
THEOREM BoundsOnlyWiden == Spec => BoundsWiden
<1>1. TypeOK /\ [Next]_vars => [min' <= min /\ max' >= max]_vars
  <2> SUFFICES ASSUME TypeOK, Next PROVE min' <= min /\ max' >= max
    OBVIOUS
  <2> USE StatsAssumption DEF TypeOK, Slots
  <2>1. min \in Nat /\ max \in Nat
    OBVIOUS
  <2>2. ASSUME NEW t \in Threads, CasMin(t) PROVE min' <= min /\ max' >= max
    BY <2>1, <2>2 DEF CasMin
  <2>3. ASSUME NEW t \in Threads, CasMax(t) PROVE min' <= min /\ max' >= max
    BY <2>1, <2>3 DEF CasMax
  <2>4. ASSUME NEW t \in Threads,
               \/ \E v \in Samples : Enter(t, v)
               \/ AddData(t) \/ AddCount(t) \/ ReadMin(t) \/ ReadMax(t)
               \/ MinDone(t) \/ MaxDone(t)
        PROVE  min' <= min /\ max' >= max
    BY SMTT(60), <2>1, <2>4 DEF Enter, Refused, AddData, AddCount, ReadMin, ReadMax, MinDone, MaxDone
  <2> QED
    BY <2>2, <2>3, <2>4 DEF Next, stats_record
<1> QED
  BY <1>1, TypeCorrect, PTL DEF Spec, BoundsWiden

-----------------------------------------------------------------------------

\* One step of the inductive invariant, action by action: AddData creates the
\* debt of a thread to the bounds, ReadMin and ReadMax take a copy that lags
\* from then on, the swaps pay, and MinDone and MaxDone see the debt paid
\* because the copy they compare with lags behind the bound.
LEMMA BoundsInvStep == TypeOK /\ BoundsInv /\ [Next]_vars => BoundsInv'
<1> SUFFICES ASSUME TypeOK, BoundsInv, [Next]_vars PROVE BoundsInv'
  OBVIOUS
<1> USE StatsAssumption DEF TypeOK, Slots, At, OwesMin, OwesMax
<1>0. min \in Nat /\ max \in Nat /\ \A t \in Threads : n[t] \in Nat
  OBVIOUS
<1> USE <1>0
<1>1. ASSUME NEW t \in Threads, NEW v \in Samples, Enter(t, v) PROVE BoundsInv'
  <2>1. pc[t] = "idle" /\ UNCHANGED <<data, min, max, lmin, lmax>>
    BY <1>1 DEF Enter, Refused
  <2>2. \A u \in Threads : pc'[u] # pc[u] => u = t /\ pc'[u] = "data"
    BY <1>1, <2>1 DEF Enter, Refused
  <2>3. \A u \in Threads : u # t => n'[u] = n[u]
    BY <1>1 DEF Enter, Refused
  <2>4. pc'[t] \in {"idle", "data"}
    BY <1>1 DEF Enter, Refused
  <2>5. \A u \in Threads : u # t => pc'[u] = pc[u]
    BY <2>2
  <2>6. MinCovers'
    BY ZenonT(60), <2>1, <2>3, <2>5 DEF BoundsInv, MinCovers
  <2>7. MaxCovers'
    BY ZenonT(60), <2>1, <2>3, <2>5 DEF BoundsInv, MaxCovers
  <2>8. LocalsLag'
    BY <2>1, <2>4, <2>5 DEF BoundsInv, LocalsLag
  <2>9. BoundsSeen'
    BY <2>1, <2>3, <2>4, <2>5 DEF BoundsInv, BoundsSeen
  <2> QED
    BY <2>6, <2>7, <2>8, <2>9 DEF BoundsInv
<1>2. ASSUME NEW t \in Threads, AddData(t) PROVE BoundsInv'
  <2>1. /\ pc[t] = "data" /\ pc' = [pc EXCEPT ![t] = "count"]
        /\ data' = [data EXCEPT ![n[t]] = @ + 1]
        /\ UNCHANGED <<min, max, n, lmin, lmax>>
    BY <1>2 DEF AddData
  <2>2. \A v \in Slots : data'[v] > 0 => data[v] > 0 \/ v = n[t]
    BY <2>1
  <2>3. \A v \in Slots : data[v] > 0 => data'[v] > 0
    BY <2>1
  <2>4. data'[n[t]] > 0
    BY <2>1
  <2>5. MinCovers' /\ MaxCovers'
    BY <2>1, <2>2 DEF BoundsInv, MinCovers, MaxCovers
  <2>6. LocalsLag'
    BY <2>1 DEF BoundsInv, LocalsLag
  <2>7. BoundsSeen'
    BY <2>1, <2>3, <2>4 DEF BoundsInv, BoundsSeen
  <2> QED
    BY <2>5, <2>6, <2>7 DEF BoundsInv
<1>3. ASSUME NEW t \in Threads, AddCount(t) PROVE BoundsInv'
  BY <1>3 DEF AddCount, BoundsInv, MinCovers, MaxCovers, LocalsLag, BoundsSeen
<1>4. ASSUME NEW t \in Threads, ReadMin(t) PROVE BoundsInv'
  BY <1>4 DEF ReadMin, BoundsInv, MinCovers, MaxCovers, LocalsLag, BoundsSeen
<1>5. ASSUME NEW t \in Threads, ReadMax(t) PROVE BoundsInv'
  BY <1>5 DEF ReadMax, BoundsInv, MinCovers, MaxCovers, LocalsLag, BoundsSeen
<1>6. ASSUME NEW t \in Threads, CasMin(t) PROVE BoundsInv'
  <2>1. /\ pc[t] = "cas_min" /\ n[t] < lmin[t] /\ pc' = pc
        /\ lmin' = [lmin EXCEPT ![t] = min]
        /\ min' = IF min = lmin[t] THEN n[t] ELSE min
        /\ UNCHANGED <<data, max, n, lmax>>
    BY <1>6 DEF CasMin
  <2>2. min' <= min
    BY <2>1
  <2>3. MinCovers' /\ MaxCovers'
    BY <2>1, <2>2 DEF BoundsInv, MinCovers, MaxCovers
  <2>4. LocalsLag'
    BY SMTT(60), <2>1, <2>2 DEF BoundsInv, LocalsLag
  <2>5. BoundsSeen'
    BY <2>1 DEF BoundsInv, BoundsSeen
  <2> QED
    BY <2>3, <2>4, <2>5 DEF BoundsInv
<1>7. ASSUME NEW t \in Threads, MinDone(t) PROVE BoundsInv'
  <2>1. /\ pc[t] = "cas_min" /\ n[t] >= lmin[t]
        /\ pc' = [pc EXCEPT ![t] = "cas_max"]
        /\ UNCHANGED <<data, min, max, n, lmin, lmax>>
    BY <1>7 DEF MinDone
  <2>2. min <= n[t]
    BY <2>1 DEF BoundsInv, LocalsLag
  <2>3. MinCovers'
    BY <2>1, <2>2 DEF BoundsInv, MinCovers
  <2>6. MaxCovers'
    BY <2>1, <2>2 DEF BoundsInv, MaxCovers
  <2>4. LocalsLag' /\ BoundsSeen'
    BY <2>1 DEF BoundsInv, LocalsLag, BoundsSeen
  <2> QED
    BY <2>3, <2>6, <2>4 DEF BoundsInv
<1>8. ASSUME NEW t \in Threads, CasMax(t) PROVE BoundsInv'
  <2>1. /\ pc[t] = "cas_max" /\ n[t] > lmax[t] /\ pc' = pc
        /\ lmax' = [lmax EXCEPT ![t] = max]
        /\ max' = IF max = lmax[t] THEN n[t] ELSE max
        /\ UNCHANGED <<data, min, n, lmin>>
    BY <1>8 DEF CasMax
  <2>2. max <= max'
    BY <2>1
  <2>3. MinCovers'
    BY <2>1, <2>2 DEF BoundsInv, MinCovers
  <2>6. MaxCovers'
    BY <2>1, <2>2 DEF BoundsInv, MaxCovers
  <2>4. LocalsLag'
    BY <2>1, <2>2 DEF BoundsInv, LocalsLag
  <2>5. BoundsSeen'
    BY <2>1 DEF BoundsInv, BoundsSeen
  <2> QED
    BY <2>3, <2>6, <2>4, <2>5 DEF BoundsInv
<1>9. ASSUME NEW t \in Threads, MaxDone(t) PROVE BoundsInv'
  <2>1. /\ pc[t] = "cas_max" /\ n[t] <= lmax[t]
        /\ pc' = [pc EXCEPT ![t] = "idle"]
        /\ UNCHANGED <<data, min, max, n, lmin, lmax>>
    BY <1>9 DEF MaxDone
  <2>2. n[t] <= max
    BY <2>1 DEF BoundsInv, LocalsLag
  <2>3. MinCovers'
    BY <2>1, <2>2 DEF BoundsInv, MinCovers
  <2>6. MaxCovers'
    BY <2>1, <2>2 DEF BoundsInv, MaxCovers
  <2>4. LocalsLag' /\ BoundsSeen'
    BY <2>1 DEF BoundsInv, LocalsLag, BoundsSeen
  <2> QED
    BY <2>3, <2>6, <2>4 DEF BoundsInv
<1>10. CASE UNCHANGED vars
  BY <1>10 DEF vars, BoundsInv, MinCovers, MaxCovers, LocalsLag, BoundsSeen
<1> QED
  BY <1>1, <1>2, <1>3, <1>4, <1>5, <1>6, <1>7, <1>8, <1>9, <1>10
     DEF Next, stats_record

\* The invariant gives exact bounds once no thread owes anything.
LEMMA BoundsInvExact == TypeOK /\ BoundsInv => BoundsExact
<1> SUFFICES ASSUME TypeOK, BoundsInv, Quiescent
             PROVE  /\ \A v \in Slots : data[v] > 0 => min <= v /\ v <= max
                    /\ (\E v \in Slots : data[v] > 0) =>
                          min \in Slots /\ data[min] > 0 /\ data[max] > 0
  BY DEF BoundsExact
<1>1. \A v \in Slots : data[v] > 0 => min <= v /\ v <= max
  BY DEF Quiescent, BoundsInv, MinCovers, MaxCovers, OwesMin, OwesMax
<1>2. ASSUME NEW v \in Slots, data[v] > 0
      PROVE  min \in Slots /\ data[min] > 0 /\ data[max] > 0
  <2>1. min <= v /\ v <= max
    BY <1>1, <1>2
  <2>2. v \in Nat /\ v < UINT64_MAX /\ max \in Nat /\ min \in Nat
    BY StatsAssumption DEF TypeOK, Slots
  <2>3. min # UINT64_MAX
    BY <2>1, <2>2, StatsAssumption
  <2>4. max = 0 => v = max
    BY <2>1, <2>2
  <2> QED
    BY <1>2, <2>3, <2>4 DEF BoundsInv, BoundsSeen
<1> QED
  BY <1>1, <1>2

\* When no call of stats_record is running, min and max are exactly the
\* bounds of the recorded values, for any number of threads.
THEOREM BoundsAreExact == Spec => []BoundsExact
<1>1. Init => BoundsInv
  BY StatsAssumption DEF Init, BoundsInv, MinCovers, MaxCovers, LocalsLag,
     BoundsSeen, OwesMin, OwesMax, Slots
<1> QED
  BY <1>1, BoundsInvStep, BoundsInvExact, TypeCorrect, PTL DEF Spec

-----------------------------------------------------------------------------

\* What one thread that joins or leaves a set of threads does to its size.
LEMMA JoinLeave ==
  ASSUME NEW S \in SUBSET Threads, NEW t \in Threads
  PROVE  /\ IsFiniteSet(S) /\ Cardinality(S) \in Nat
         /\ t \notin S => Cardinality(S \cup {t}) = Cardinality(S) + 1
         /\ t \in S => Cardinality(S \ {t}) = Cardinality(S) - 1
<1>1. IsFiniteSet(S)
  BY StatsAssumption, FS_Subset
<1> QED
  BY <1>1, FS_CardinalityType, FS_AddElement, FS_RemoveElement

\* Every call of stats_record is in count, in errors.timeout or under way.
THEOREM SamplesAreKept == Spec => []NoSampleLost
<1>1. Init => NoSampleLost
  <2> SUFFICES ASSUME Init PROVE NoSampleLost
    OBVIOUS
  <2>1. InFlight = {}
    BY DEF Init, InFlight
  <2> QED
    BY <2>1, FS_EmptySet DEF Init, NoSampleLost
<1>2. TypeOK /\ NoSampleLost /\ [Next]_vars => NoSampleLost'
  <2> SUFFICES ASSUME TypeOK, NoSampleLost, [Next]_vars PROVE NoSampleLost'
    OBVIOUS
  <2>0. calls \in Nat /\ count \in Nat /\ timeouts \in Nat /\ InFlight \in SUBSET Threads
    BY DEF TypeOK, InFlight
  <2>1. ASSUME NEW t \in Threads, NEW v \in Samples, Enter(t, v)
        PROVE  NoSampleLost'
    <3>1. CASE v >= Limit
      <4>1. /\ pc[t] = "idle" /\ pc' = [pc EXCEPT ![t] = "idle"]
            /\ calls' = calls + 1 /\ timeouts' = timeouts + 1 /\ count' = count
        BY <2>1, <3>1 DEF Enter, Refused, At
      <4>2. InFlight' = InFlight
        BY <4>1 DEF InFlight, TypeOK
      <4>3. Cardinality(InFlight) \in Nat
        BY <2>0, JoinLeave
      <4> QED
        BY <2>0, <4>1, <4>2, <4>3 DEF NoSampleLost
    <3>2. CASE ~(v >= Limit)
      <4>1. /\ pc[t] = "idle" /\ pc' = [pc EXCEPT ![t] = "data"]
            /\ calls' = calls + 1 /\ timeouts' = timeouts /\ count' = count
        BY <2>1, <3>2 DEF Enter, Refused, At
      <4>2. InFlight' = InFlight \cup {t} /\ t \notin InFlight
        BY <4>1 DEF InFlight, TypeOK
      <4> QED
        BY <2>0, <4>1, <4>2, JoinLeave DEF NoSampleLost
    <3> QED
      BY <3>1, <3>2
  <2>2. ASSUME NEW t \in Threads, AddCount(t) PROVE NoSampleLost'
    <3>1. /\ pc[t] = "count" /\ pc' = [pc EXCEPT ![t] = "min"]
          /\ calls' = calls /\ timeouts' = timeouts /\ count' = count + 1
      BY <2>2 DEF AddCount, At
    <3>2. InFlight' = InFlight \ {t} /\ t \in InFlight
      BY <3>1 DEF InFlight, TypeOK
    <3> QED
      BY <2>0, <3>1, <3>2, JoinLeave DEF NoSampleLost
  <2>3. ASSUME NEW t \in Threads,
               \/ AddData(t) \/ ReadMin(t) \/ ReadMax(t) \/ CasMin(t)
               \/ MinDone(t) \/ CasMax(t) \/ MaxDone(t)
        PROVE  NoSampleLost'
    <3>1. InFlight' = InFlight
      BY <2>3 DEF InFlight, TypeOK, At, AddData, ReadMin, ReadMax, CasMin,
         MinDone, CasMax, MaxDone
    <3>2. UNCHANGED <<calls, timeouts, count>>
      BY <2>3 DEF AddData, ReadMin, ReadMax, CasMin, MinDone, CasMax, MaxDone
    <3> QED
      BY <3>1, <3>2 DEF NoSampleLost
  <2>4. CASE UNCHANGED vars
    BY <2>4 DEF vars, NoSampleLost, InFlight
  <2> QED
    BY <2>1, <2>2, <2>3, <2>4 DEF Next, stats_record
<1> QED
  BY <1>1, <1>2, TypeCorrect, PTL DEF Spec

-----------------------------------------------------------------------------
(* Refinement of StatsAbs *)

\* A quiescent state's count, min and max are the abstract summary.
LEMMA QuiescentSummary ==
  TypeOK /\ BoundsExact /\ Quiescent /\ Abs!Seen(data) # {}
  => Abs!Summary(data, count)
     = [count |-> count, min |-> min, max |-> max, exact |-> TRUE]
<1> SUFFICES ASSUME TypeOK, BoundsExact, Quiescent, Abs!Seen(data) # {}
             PROVE  Abs!Summary(data, count)
                    = [count |-> count, min |-> min, max |-> max, exact |-> TRUE]
  OBVIOUS
<1> DEFINE S == Abs!Seen(data)
<1>1. S = {v \in Slots : data[v] > 0}
  BY DEF Abs!Seen, TypeOK
<1>2. min \in S /\ max \in S /\ \A v \in S : min <= v /\ v <= max
  BY <1>1 DEF BoundsExact, TypeOK
<1>3. S \subseteq Nat
  BY <1>1 DEF Slots
<1>4. min = CHOOSE v \in S : \A w \in S : v <= w
  <2>1. \A v \in S : (\A w \in S : v <= w) => v = min
    BY <1>2, <1>3
  <2> QED
    BY <1>2, <2>1
<1>5. max = CHOOSE v \in S : \A w \in S : w <= v
  <2>1. \A v \in S : (\A w \in S : w <= v) => v = max
    BY <1>2, <1>3
  <2> QED
    BY <1>2, <2>1
<1>6. Abs!Summary(data, count)
      = [count |-> count,
         min   |-> CHOOSE v \in S : \A w \in S : v <= w,
         max   |-> CHOOSE v \in S : \A w \in S : w <= v,
         exact |-> TRUE]
  BY DEF Abs!Summary
<1> QED
  BY <1>4, <1>5, <1>6

\* The abstract variables, as the refinement mapping computes them.
absHist    == data
absTotal   == count + Cardinality(Counting)
absTodo    == {t \in Threads : pc[t] = "data"}
absRunning == {t \in Threads : pc[t] # "idle"}
absSummary == IF Quiescent
              THEN [count |-> count, min |-> min, max |-> max, exact |-> TRUE]
              ELSE [count |-> 0, min |-> UINT64_MAX, max |-> 0, exact |-> FALSE]

\* A step that leaves the mapped variables alone is a stutter of StatsAbs.
LEMMA AbsStutter ==
  ASSUME UNCHANGED <<absHist, absTotal, absTodo, absRunning, absSummary>>
  PROVE  UNCHANGED Abs!absVars
BY DEF Abs!absVars, absHist, absTotal, absTodo, absRunning, absSummary

\* Every step of stats_record is a step of StatsAbs or a stutter: Enter begins
\* a call, AddData adds the sample, MaxDone returns, and the counting and the
\* compare-and-swap loops are invisible.
LEMMA StepRefines ==
  ASSUME TypeOK, TypeOK', BoundsInv, BoundsInv', [Next]_vars
  PROVE  [Abs!Next]_(Abs!absVars)
<1> USE DEF TypeOK, At
<1>0. Counting \in SUBSET Threads /\ count \in Nat
  BY DEF Counting
<1>1. ASSUME NEW t \in Threads, NEW v \in Samples, Enter(t, v)
      PROVE  [Abs!Next]_(Abs!absVars)
  <2>1. CASE v >= Limit
    <3>1. pc[t] = "idle" /\ pc' = [pc EXCEPT ![t] = "idle"]
          /\ UNCHANGED <<data, count, min, max>>
      BY <1>1, <2>1 DEF Enter, Refused
    <3>2. pc' = pc
      BY <3>1
    <3> QED
      BY <3>1, <3>2, AbsStutter
         DEF absHist, absTotal, absTodo, absRunning, absSummary, Counting, Quiescent
  <2>2. CASE ~(v >= Limit)
    <3>1. /\ pc[t] = "idle" /\ pc' = [pc EXCEPT ![t] = "data"]
          /\ UNCHANGED <<data, count, min, max>>
      BY <1>1, <2>2 DEF Enter, Refused
    <3>2. Counting' = Counting
      BY <3>1 DEF Counting
    <3>3. ~Quiescent'
      BY <3>1 DEF Quiescent
    <3>4. Abs!Begin(t)
      BY <3>1, <3>2, <3>3 DEF Abs!Begin, Abs!Busy
    <3> QED
      BY <3>4 DEF Abs!Next
  <2> QED
    BY <2>1, <2>2
<1>2. ASSUME NEW t \in Threads, AddData(t) PROVE [Abs!Next]_(Abs!absVars)
  <2>1. /\ pc[t] = "data" /\ pc' = [pc EXCEPT ![t] = "count"]
        /\ data' = [data EXCEPT ![n[t]] = @ + 1]
        /\ UNCHANGED <<count, min, max>>
    BY <1>2 DEF AddData
  <2>2. Counting' = Counting \cup {t} /\ t \notin Counting
    BY <2>1 DEF Counting
  <2>3. Cardinality(Counting') = Cardinality(Counting) + 1
        /\ Cardinality(Counting) \in Nat
    BY <1>0, <2>2, JoinLeave
  <2>4. ~Quiescent /\ ~Quiescent'
    BY <2>1 DEF Quiescent
  <2>5. PICK v \in 0..(Limit - 1) : v = n[t]
    BY DEF Slots
  <2>6. Abs!Add(t, v)
    <3>1. t \in absTodo
      BY <2>1 DEF absTodo
    <3>2. absTodo' = absTodo \ {t} /\ absRunning' = absRunning
      BY <2>1 DEF absTodo, absRunning
    <3>3. absTotal' = absTotal + 1
      BY <1>0, <2>1, <2>3 DEF absTotal
    <3>4. absSummary' = absSummary
      BY <2>4 DEF absSummary
    <3> QED
      BY <2>1, <2>5, <3>1, <3>2, <3>3, <3>4
         DEF Abs!Add, absTodo, absRunning, absTotal, absSummary
  <2> QED
    BY <2>6 DEF Abs!Next
<1>3. ASSUME NEW t \in Threads, AddCount(t) PROVE [Abs!Next]_(Abs!absVars)
  <2>1. /\ pc[t] = "count" /\ pc' = [pc EXCEPT ![t] = "min"]
        /\ count' = count + 1
        /\ UNCHANGED <<data, min, max>>
    BY <1>3 DEF AddCount
  <2>2. Counting' = Counting \ {t} /\ t \in Counting
    BY <2>1 DEF Counting
  <2>3. Cardinality(Counting') = Cardinality(Counting) - 1
        /\ Cardinality(Counting) \in Nat
    BY <1>0, <2>2, JoinLeave
  <2>4. ~Quiescent /\ ~Quiescent'
    BY <2>1 DEF Quiescent
  <2>5. absTotal' = absTotal
    BY <1>0, <2>1, <2>3 DEF absTotal
  <2>6. absHist' = absHist /\ absTodo' = absTodo /\ absRunning' = absRunning
        /\ absSummary' = absSummary
    BY <2>1, <2>4 DEF absHist, absTodo, absRunning, absSummary
  <2> QED
    BY <2>5, <2>6, AbsStutter
<1>4. ASSUME NEW t \in Threads,
             ReadMin(t) \/ ReadMax(t) \/ CasMin(t) \/ MinDone(t) \/ CasMax(t)
      PROVE  [Abs!Next]_(Abs!absVars)
  <2>1. /\ pc[t] \in {"min", "max", "cas_min", "cas_max"}
        /\ pc'[t] \in {"min", "max", "cas_min", "cas_max"}
        /\ \A u \in Threads : u # t => pc'[u] = pc[u]
        /\ UNCHANGED <<data, count>>
    BY <1>4 DEF ReadMin, ReadMax, CasMin, MinDone, CasMax
  <2>2. ~Quiescent /\ ~Quiescent'
    BY <2>1 DEF Quiescent
  <2>3. Counting' = Counting /\ absTodo' = absTodo /\ absRunning' = absRunning
    BY <2>1 DEF Counting, absTodo, absRunning
  <2>4. absHist' = absHist /\ absTotal' = absTotal /\ absSummary' = absSummary
    BY <2>1, <2>2, <2>3 DEF absHist, absTotal, absSummary
  <2> QED
    BY <2>3, <2>4, AbsStutter
<1>5. ASSUME NEW t \in Threads, MaxDone(t) PROVE [Abs!Next]_(Abs!absVars)
  <2>1. /\ pc[t] = "cas_max" /\ pc' = [pc EXCEPT ![t] = "idle"]
        /\ UNCHANGED <<data, count, min, max, n>>
    BY <1>5 DEF MaxDone
  <2>2. Counting' = Counting /\ absTodo' = absTodo
    BY <2>1 DEF Counting, absTodo
  <2>3. t \in absRunning \ absTodo /\ absRunning' = absRunning \ {t}
    BY <2>1 DEF absRunning, absTodo
  <2>4. absRunning' = {} <=> Quiescent'
    BY DEF absRunning, Quiescent
  <2>5. absSummary' = IF absRunning' = {} THEN Abs!Summary(absHist, absTotal)
                      ELSE Abs!Busy
    <3>1. CASE Quiescent'
      <4>1. Counting = {}
        BY <3>1, <2>2 DEF Quiescent, Counting
      <4>2. absTotal = count
        BY <1>0, <4>1, FS_EmptySet DEF absTotal
      <4>3. data[n[t]] > 0 /\ n[t] \in DOMAIN data
        BY <2>1 DEF BoundsInv, BoundsSeen, OwesMax
      <4>4. (Abs!Seen(data) # {})'
        BY <4>3, <2>1 DEF Abs!Seen
      <4>5. BoundsExact'
        BY BoundsInvExact, PTL
      <4>6. (Abs!Summary(data, count)
             = [count |-> count, min |-> min, max |-> max, exact |-> TRUE])'
        BY <3>1, <4>4, <4>5, QuiescentSummary, PTL
      <4> QED
        BY <2>1, <2>4, <3>1, <4>2, <4>6 DEF absSummary, absHist, Abs!Summary, Abs!Seen
    <3>2. CASE ~Quiescent'
      BY <2>4, <3>2 DEF absSummary, Abs!Busy
    <3> QED
      BY <3>1, <3>2
  <2>6. absHist' = absHist /\ absTotal' = absTotal
    BY <2>1, <2>2 DEF absHist, absTotal
  <2>7. Abs!Return(t)
    BY <2>2, <2>3, <2>5, <2>6
       DEF Abs!Return, absHist, absTotal, absTodo, absRunning, absSummary
  <2> QED
    BY <2>7 DEF Abs!Next
<1>6. CASE UNCHANGED vars
  BY <1>6, AbsStutter
     DEF vars, absHist, absTotal, absTodo, absRunning, absSummary, Counting, Quiescent
<1> QED
  BY <1>1, <1>2, <1>3, <1>4, <1>5, <1>6 DEF Next, stats_record

\* stats_record, with all its interleavings, implements the histogram of
\* StatsAbs: one-step additions and an exact summary when no call is running.
THEOREM Refinement == Spec => ImplementsAbs
<1>1. Init => Abs!Init
  <2> SUFFICES ASSUME Init PROVE Abs!Init
    OBVIOUS
  <2>1. Counting = {} /\ Quiescent /\ Abs!Seen(data) = {}
    BY DEF Init, Counting, Quiescent, Abs!Seen
  <2>2. count + Cardinality(Counting) = 0
    BY <2>1, FS_EmptySet DEF Init
  <2>3. Abs!Summary(data, 0)
        = [count |-> count, min |-> min, max |-> max, exact |-> TRUE]
    BY <2>1 DEF Init, Abs!Summary
  <2> QED
    BY <2>1, <2>2, <2>3 DEF Init, Abs!Init, Slots
<1>2. Init => BoundsInv
  BY StatsAssumption DEF Init, BoundsInv, MinCovers, MaxCovers, LocalsLag,
     BoundsSeen, OwesMin, OwesMax, Slots
<1> QED
  BY <1>1, <1>2, BoundsInvStep, StepRefines, TypeCorrect, PTL
     DEF Spec, ImplementsAbs, Abs!Spec

=============================================================================
