----------------------------- MODULE MainProofs -----------------------------
(***************************************************************************)
(* Proofs about what the script's functions setup() and done() do with a   *)
(* thread, for any script and any number of calls, and about the latencies *)
(* that are reported, for any run and any text the script sends.           *)
(***************************************************************************)
EXTENDS Main, StatsCalcProofs, SequenceTheorems, FiniteSetTheorems, WellFoundedInduction, TLAPS

-----------------------------------------------------------------------------
(***************************************************************************)
(* Numbers.                                                                *)
(***************************************************************************)
LEMMA MinIs ==
    ASSUME NEW S, S \subseteq Nat, S # {}
    PROVE  Min(S) \in S /\ \A l \in S : Min(S) <= l
<1>1. \E k \in S : \A l \in S : k =< l
  BY LeastOf
<1> QED
  BY <1>1, Zenon DEF Min

LEMMA MaxIs ==
    ASSUME NEW n \in Nat, NEW S, S \subseteq 0..n, S # {}
    PROVE  Max(S) \in S /\ \A l \in S : l <= Max(S)
<1> DEFINE T == {k \in Nat : \A l \in S : l <= k}
<1>1. n \in T
  OBVIOUS
<1>2. PICK k \in T : \A l \in T : k <= l
  <2>1. T \subseteq Nat /\ T # {}
    BY <1>1
  <2> HIDE DEF T
  <2> QED
    BY <2>1, LeastOf
<1>3. k \in Nat /\ \A l \in S : l <= k
  OBVIOUS
<1>4. k \in S
  <2>1. CASE k = 0
    <3>1. PICK l \in S : TRUE
      OBVIOUS
    <3> QED
      BY <1>3, <2>1, <3>1
  <2>2. CASE k # 0 /\ k \notin S
    <3>1. k - 1 \in Nat /\ ~(k <= k - 1)
      BY <1>3, <2>2
    <3>2. \A l \in S : l <= k - 1
      BY <1>3, <2>2
    <3> QED
      BY <1>2, <3>1, <3>2
  <2> QED
    BY <2>1, <2>2
<1>5. \E m \in S : \A l \in S : l =< m
  BY <1>3, <1>4
<1>6. \E m \in S : \A l \in S : m >= l
  BY <1>3, <1>4
<1> QED
  BY <1>5, <1>6, Zenon DEF Max

-----------------------------------------------------------------------------
(***************************************************************************)
(* The memory in use, added up block by block.                             *)
(***************************************************************************)
Held(live, p) == IF p \in DOMAIN live THEN live[p] + PREFIX_SIZE ELSE 0

Sums(f, live, n) == f = [k \in 0..n |-> IF k = 0 THEN 0 ELSE f[k - 1] + Held(live, k)]

\* The blocks in use and their sizes.
Blocks(live) ==
    /\ live = [p \in DOMAIN live |-> live[p]]
    /\ \A p \in DOMAIN live : live[p] \in Nat
    /\ \E n \in Nat : DOMAIN live \subseteq 1..n

LEMMA SumsExist ==
    ASSUME NEW live, NEW n \in Nat
    PROVE  \E f : Sums(f, live, n)
<1> DEFINE T == {m \in Nat : ~\E f : Sums(f, live, m)}
<1>1. SUFFICES ASSUME T # {} PROVE FALSE
  OBVIOUS
<1>2. PICK m \in T : \A l \in T : m <= l
  BY <1>1, LeastOf
<1>3. m \in Nat /\ ~\E f : Sums(f, live, m)
  OBVIOUS
<1>4. CASE m = 0
  <2> DEFINE g == [k \in 0..m |-> 0]
  <2>1. \A k \in 0..m : 0 = IF k = 0 THEN 0 ELSE g[k - 1] + Held(live, k)
    BY <1>4
  <2>2. g = [k \in 0..m |-> IF k = 0 THEN 0 ELSE g[k - 1] + Held(live, k)]
    BY <2>1, Zenon
  <2> QED
    BY <1>3, <2>2 DEF Sums
<1>5. CASE m # 0
  <2>1. m - 1 \in Nat /\ m - 1 \notin T
    BY <1>2, <1>3, <1>5
  <2>2. PICK f : Sums(f, live, m - 1)
    BY <2>1
  <2>3. \A k \in 0..(m - 1) : f[k] = IF k = 0 THEN 0 ELSE f[k - 1] + Held(live, k)
    BY <2>2 DEF Sums
  <2> DEFINE g == [k \in 0..m |-> IF k = m THEN f[m - 1] + Held(live, m) ELSE f[k]]
  <2>4. \A k \in 0..m : g[k] = IF k = m THEN f[m - 1] + Held(live, m) ELSE f[k]
    BY Zenon
  <2>5. \A k \in 0..m : k # m => k \in 0..(m - 1)
    BY <1>3
  <2>6. \A k \in 0..m : k # 0 => k - 1 \in 0..m /\ k - 1 # m
    BY <1>3
  <2> HIDE DEF g
  <2>7. \A k \in 0..m : g[k] = IF k = 0 THEN 0 ELSE g[k - 1] + Held(live, k)
    <3> TAKE k \in 0..m
    <3>1. CASE k = m
      BY <1>5, <2>4, <2>6, <3>1
    <3>2. CASE k # m
      BY <2>3, <2>4, <2>5, <2>6, <3>2
    <3> QED
      BY <3>1, <3>2
  <2>8. g = [k \in 0..m |-> g[k]]
    BY DEF g
  <2>9. g = [k \in 0..m |-> IF k = 0 THEN 0 ELSE g[k - 1] + Held(live, k)]
    BY <2>7, <2>8
  <2> QED
    BY <1>3, <2>9 DEF Sums
<1> QED
  BY <1>4, <1>5

\* Sums of two heaps that differ in block p by d.
LEMMA SumsDiffer ==
    ASSUME NEW a, NEW b, Blocks(a), Blocks(b), NEW n \in Nat, NEW m \in Nat,
           NEW f, NEW g, Sums(f, a, n), Sums(g, b, m),
           NEW p \in Nat, NEW d \in Int,
           \A k \in Nat \ {0} : Held(b, k) = Held(a, k) + (IF k = p THEN d ELSE 0),
           p = 0 => d = 0
    PROVE  \A k \in 0..n : k <= m => f[k] \in Int /\ g[k] = f[k] + (IF k < p THEN 0 ELSE d)
<1>1. \A k \in Nat : Held(a, k) \in Int
  BY DEF Held, Blocks, PREFIX_SIZE
<1>2. \A k \in 0..n : f[k] = IF k = 0 THEN 0 ELSE f[k - 1] + Held(a, k)
  BY DEF Sums
<1>3. \A k \in 0..m : g[k] = IF k = 0 THEN 0 ELSE g[k - 1] + Held(b, k)
  BY DEF Sums
<1> DEFINE Good(k) == f[k] \in Int /\ g[k] = f[k] + (IF k < p THEN 0 ELSE d)
           T == {k \in 0..n : k <= m /\ ~Good(k)}
<1>4. SUFFICES ASSUME T # {} PROVE FALSE
  OBVIOUS
<1>5. PICK k \in T : \A l \in T : k <= l
  <2>1. T \subseteq Nat
    OBVIOUS
  <2> HIDE DEF T
  <2> QED
    BY <1>4, <2>1, LeastOf
<1>6. k \in 0..n /\ k \in 0..m /\ ~Good(k)
  OBVIOUS
<1>7. CASE k = 0
  <2>1. f[0] = 0 /\ g[0] = 0 /\ ~(0 < p /\ p = 0) /\ (0 < p \/ p = 0)
    BY <1>2, <1>3, <1>6, <1>7
  <2> QED
    BY <1>6, <1>7, <2>1
<1>8. CASE k # 0
  <2>1. k - 1 \in 0..n /\ k - 1 <= m /\ ~(k <= k - 1) /\ k \in Nat \ {0}
    BY <1>6, <1>8
  <2>2. Good(k - 1)
    BY <1>5, <2>1
  <2>3. f[k] = f[k - 1] + Held(a, k) /\ g[k] = g[k - 1] + Held(b, k)
    BY <1>2, <1>3, <1>6, <1>8
  <2>4. Held(a, k) \in Int /\ Held(b, k) = Held(a, k) + (IF k = p THEN d ELSE 0)
    BY <1>1, <2>1
  <2>5. Good(k)
    <3>1. CASE k < p
      BY <2>1, <2>2, <2>3, <2>4, <3>1
    <3>2. CASE k = p
      BY <2>1, <2>2, <2>3, <2>4, <3>2
    <3>3. CASE k > p
      BY <2>1, <2>2, <2>3, <2>4, <3>3
    <3> QED
      BY <2>1, <3>1, <3>2, <3>3
  <2> QED
    BY <1>6, <2>5
<1> QED
  BY <1>7, <1>8

\* A sum does not change behind the last block.
LEMMA SumsEnd ==
    ASSUME NEW live, Blocks(live), NEW n \in Nat, NEW f, Sums(f, live, n),
           NEW top \in 0..n, DOMAIN live \subseteq 0..top
    PROVE  f[n] = f[top] /\ f[n] \in Int
<1>1. \A k \in 0..n : f[k] = IF k = 0 THEN 0 ELSE f[k - 1] + Held(live, k)
  BY DEF Sums
<1>2. \A k \in 0..n : f[k] \in Int
  <2>1. \A k \in Nat \ {0} : Held(live, k) = Held(live, k) + (IF k = 0 THEN 0 ELSE 0)
    BY DEF Held, Blocks, PREFIX_SIZE
  <2> QED
    BY <2>1, SumsDiffer
<1> DEFINE T == {k \in 0..n : k >= top /\ f[k] # f[top]}
<1>3. SUFFICES ASSUME T # {} PROVE FALSE
  BY <1>2
<1>4. PICK k \in T : \A l \in T : k <= l
  <2>1. T \subseteq Nat
    OBVIOUS
  <2> HIDE DEF T
  <2> QED
    BY <1>3, <2>1, LeastOf
<1>5. k \in 0..n /\ k >= top /\ f[k] # f[top]
  OBVIOUS
<1>6. k - 1 \in 0..n /\ k - 1 >= top /\ ~(k <= k - 1) /\ k # 0 /\ k \notin 0..top
  BY <1>5
<1>7. f[k - 1] = f[top]
  BY <1>4, <1>6
<1>8. Held(live, k) = 0
  BY <1>6 DEF Held
<1> QED
  BY <1>1, <1>2, <1>5, <1>6, <1>7, <1>8

LEMMA InUseIs ==
    ASSUME NEW live, Blocks(live)
    PROVE  \E n, f : n \in Nat /\ Sums(f, live, n) /\ DOMAIN live \subseteq 0..n /\ InUse(live) = f[n]
<1> DEFINE top == Max(DOMAIN live \cup {0})
<1>1. top \in Nat /\ DOMAIN live \subseteq 0..top
  <2>1. PICK n \in Nat : DOMAIN live \subseteq 1..n
    BY DEF Blocks
  <2>2. DOMAIN live \cup {0} \subseteq 0..n
    BY <2>1
  <2>3. top \in DOMAIN live \cup {0} /\ \A l \in DOMAIN live \cup {0} : l <= top
    BY <2>2, MaxIs
  <2> HIDE DEF top
  <2> QED
    BY <2>2, <2>3
<1> DEFINE h == CHOOSE g : g = [k \in 0..top |-> IF k = 0 THEN 0
                     ELSE g[k - 1] + (IF k \in DOMAIN live THEN live[k] + PREFIX_SIZE ELSE 0)]
<1>2. InUse(live) = h[top]
  BY Zenon DEF InUse
<1>3. Sums(h, live, top)
  <2>1. \E g : Sums(g, live, top)
    BY <1>1, SumsExist
  <2>2. \E g : g = [k \in 0..top |-> IF k = 0 THEN 0
                     ELSE g[k - 1] + (IF k \in DOMAIN live THEN live[k] + PREFIX_SIZE ELSE 0)]
    BY <2>1, Zenon DEF Sums, Held
  <2>3. h = [k \in 0..top |-> IF k = 0 THEN 0
                     ELSE h[k - 1] + (IF k \in DOMAIN live THEN live[k] + PREFIX_SIZE ELSE 0)]
    BY <2>2, Zenon
  <2> HIDE DEF h, top
  <2> QED
    BY <2>3, Zenon DEF Sums, Held
<1> HIDE DEF h, top
<1> QED
  BY <1>1, <1>2, <1>3

\* One block more, one less, or one of another size.
LEMMA InUseChanges ==
    ASSUME NEW a, NEW b, Blocks(a), Blocks(b), NEW p \in Nat \ {0}, NEW d \in Int,
           \A k \in Nat \ {0} : Held(b, k) = Held(a, k) + (IF k = p THEN d ELSE 0)
    PROVE  InUse(a) \in Int /\ InUse(b) = InUse(a) + d
<1>1. PICK n, f : n \in Nat /\ Sums(f, a, n) /\ DOMAIN a \subseteq 0..n /\ InUse(a) = f[n]
  BY InUseIs
<1>2. PICK m, g : m \in Nat /\ Sums(g, b, m) /\ DOMAIN b \subseteq 0..m /\ InUse(b) = g[m]
  BY InUseIs
<1>3. PICK top \in Nat : top >= n /\ top >= m /\ top >= p
  <2>1. n + m + p \in Nat /\ n + m + p >= n /\ n + m + p >= m /\ n + m + p >= p
    BY <1>1, <1>2
  <2> QED
    BY <2>1
<1>4. PICK u : Sums(u, a, top)
  BY SumsExist
<1>5. PICK v : Sums(v, b, top)
  BY SumsExist
<1>6. u[n] = f[n] /\ v[m] = g[m]
  <2>1. \A k \in Nat \ {0} : Held(a, k) = Held(a, k) + (IF k = 0 THEN 0 ELSE 0)
    BY DEF Held, Blocks, PREFIX_SIZE
  <2>2. \A k \in Nat \ {0} : Held(b, k) = Held(b, k) + (IF k = 0 THEN 0 ELSE 0)
    BY DEF Held, Blocks, PREFIX_SIZE
  <2>3. f[n] \in Int /\ u[n] = f[n] + 0
    BY <1>1, <1>3, <1>4, <2>1, SumsDiffer
  <2>4. g[m] \in Int /\ v[m] = g[m] + 0
    BY <1>2, <1>3, <1>5, <2>2, SumsDiffer
  <2> QED
    BY <2>3, <2>4
<1>7. u[top] = u[n] /\ u[top] \in Int
  BY <1>1, <1>3, <1>4, SumsEnd
<1>8. v[top] = v[m]
  BY <1>2, <1>3, <1>5, SumsEnd
<1>9. v[top] = u[top] + d
  <2>1. \A k \in 0..top : k <= top => u[k] \in Int /\ v[k] = u[k] + (IF k < p THEN 0 ELSE d)
    BY <1>4, <1>5, SumsDiffer
  <2> QED
    BY <1>3, <2>1
<1> QED
  BY <1>1, <1>2, <1>6, <1>7, <1>8, <1>9
-----------------------------------------------------------------------------
(***************************************************************************)
(* The heap.                                                               *)
(***************************************************************************)
HeapInv(h) ==
    /\ DOMAIN h = {"live", "used", "wild"}
    /\ Blocks(h.live) /\ h.wild = FALSE /\ h.used = InUse(h.live)

LEMMA EmptyHeap == HeapInv(NoHeap) /\ DOMAIN NoHeap.live = {}
<1> DEFINE none == [b \in {} |-> 0]
<1>1. NoHeap = [live |-> none, used |-> 0, wild |-> FALSE] /\ DOMAIN none = {}
  BY DEF NoHeap
<1>2. Blocks(none)
  <2>1. none = [p \in DOMAIN none |-> none[p]] /\ {} \subseteq 1..0
    OBVIOUS
  <2> HIDE DEF none
  <2> QED
    BY <1>1, <2>1 DEF Blocks
<1> HIDE DEF none
<1>3. InUse(none) = 0
  <2>1. PICK n, f : n \in Nat /\ Sums(f, none, n) /\ DOMAIN none \subseteq 0..n /\ InUse(none) = f[n]
    BY <1>2, InUseIs
  <2>2. f[n] = f[0]
    <3>1. 0 \in 0..n /\ DOMAIN none \subseteq 0..0
      BY <1>1, <2>1
    <3> QED
      BY <1>2, <2>1, <3>1, SumsEnd
  <2>3. f[0] = 0
    BY <2>1 DEF Sums
  <2> QED
    BY <2>1, <2>2, <2>3
<1> QED
  BY <1>1, <1>2, <1>3 DEF HeapInv

\* There is always a number that is free.
LEMMA FreeNumber ==
    ASSUME NEW live, Blocks(live)
    PROVE  LET ptr == Min((1..(Cardinality(DOMAIN live) + 1)) \ DOMAIN live)
           IN  ptr \in Nat \ {0} /\ ptr \notin DOMAIN live
<1> DEFINE n == Cardinality(DOMAIN live)
           S == (1..(n + 1)) \ DOMAIN live
<1>1. IsFiniteSet(DOMAIN live)
  <2>1. PICK m \in Nat : DOMAIN live \subseteq 1..m
    BY DEF Blocks
  <2>2. IsFiniteSet(1..m)
    BY FS_Interval
  <2> QED
    BY <2>1, <2>2, FS_Subset
<1>2. n \in Nat
  BY <1>1, FS_CardinalityType
<1>3. S # {}
  <2>1. SUFFICES ASSUME S = {} PROVE FALSE
    OBVIOUS
  <2>2. 1..(n + 1) \subseteq DOMAIN live
    BY <2>1
  <2>3. Cardinality(1..(n + 1)) <= n
    BY <1>1, <2>2, FS_Subset
  <2>4. Cardinality(1..(n + 1)) = n + 1
    <3>1. 1 \in Int /\ n + 1 \in Int /\ ~(1 > n + 1) /\ (n + 1) - 1 + 1 = n + 1
      BY <1>2
    <3> QED
      BY <3>1, FS_Interval
  <2> QED
    BY <1>2, <2>3, <2>4
<1>4. S \subseteq Nat
  BY <1>2
<1>5. Min(S) \in S
  BY <1>3, <1>4, MinIs
<1> QED
  BY <1>2, <1>5

LEMMA Allocated ==
    ASSUME NEW h, HeapInv(h), NEW size \in Nat
    PROVE  LET r == zmalloc(h, size)
           IN  /\ HeapInv(r.heap) /\ r.ptr \in Nat \ {0} /\ r.ptr \notin DOMAIN h.live
               /\ DOMAIN r.heap.live = DOMAIN h.live \cup {r.ptr}
               /\ r = [heap |-> r.heap, ptr |-> r.ptr]
<1> DEFINE ptr == Min((1..(Cardinality(DOMAIN h.live) + 1)) \ DOMAIN h.live)
           live == [b \in DOMAIN h.live \cup {ptr} |-> IF b = ptr THEN size ELSE h.live[b]]
           new == [h EXCEPT !.live = live]
           end == [new EXCEPT !.used = @ + (size + PREFIX_SIZE)]
<1>1. zmalloc(h, size) = [heap |-> end, ptr |-> ptr]
  <2>1. malloc(h, size) = [heap |-> new, ptr |-> ptr]
    BY Zenon DEF malloc
  <2> DEFINE m == malloc(h, size)
  <2>2. zmalloc(h, size) = [m EXCEPT !.heap = [m.heap EXCEPT !.used = m.heap.used + (size + PREFIX_SIZE)]]
    BY Zenon DEF zmalloc, update_zmalloc_stat_alloc
  <2> HIDE DEF new, ptr, m
  <2>3. m.heap = new /\ DOMAIN m = {"heap", "ptr"} /\ m.ptr = ptr
    BY <2>1 DEF m
  <2> QED
    BY <2>2, <2>3
<1>2. ptr \in Nat \ {0} /\ ptr \notin DOMAIN h.live
  BY FreeNumber DEF HeapInv
<1> HIDE DEF ptr
<1>3. Blocks(live) /\ DOMAIN live = DOMAIN h.live \cup {ptr}
  <2>1. DOMAIN live = DOMAIN h.live \cup {ptr} /\ live = [p \in DOMAIN live |-> live[p]]
    OBVIOUS
  <2>2. \A p \in DOMAIN live : live[p] \in Nat
    BY DEF HeapInv, Blocks
  <2>3. PICK n \in Nat : DOMAIN h.live \subseteq 1..n
    BY DEF HeapInv, Blocks
  <2>4. n + ptr \in Nat /\ DOMAIN live \subseteq 1..(n + ptr)
    BY <1>2, <2>1, <2>3
  <2> HIDE DEF live
  <2> QED
    BY <2>1, <2>2, <2>4 DEF Blocks
<1>4. \A k \in Nat \ {0} :
         Held(live, k) = Held(h.live, k) + (IF k = ptr THEN size + PREFIX_SIZE ELSE 0)
  BY <1>2 DEF Held, HeapInv, Blocks, PREFIX_SIZE
<1> HIDE DEF live
<1>5. InUse(live) = InUse(h.live) + (size + PREFIX_SIZE)
  <2>1. size + PREFIX_SIZE \in Int
    BY DEF PREFIX_SIZE
  <2> QED
    BY <1>2, <1>3, <1>4, <2>1, InUseChanges DEF HeapInv
<1>6. DOMAIN end = DOMAIN h /\ end.live = live /\ end.wild = h.wild
      /\ end.used = h.used + (size + PREFIX_SIZE)
  BY DEF HeapInv
<1> HIDE DEF end
<1>7. HeapInv(end)
  BY <1>3, <1>5, <1>6 DEF HeapInv
<1> QED
  BY <1>1, <1>2, <1>3, <1>6, <1>7

LEMMA Freed ==
    ASSUME NEW h, HeapInv(h), NEW ptr \in DOMAIN h.live
    PROVE  HeapInv(zfree(h, ptr)) /\ DOMAIN zfree(h, ptr).live = DOMAIN h.live \ {ptr}
<1> DEFINE live == Restrict(h.live, DOMAIN h.live \ {ptr})
           d == h.live[ptr] + PREFIX_SIZE
           new == [h EXCEPT !.used = @ - d]
           end == [new EXCEPT !.live = Restrict(@, DOMAIN @ \ {ptr})]
<1>1. ptr \in Nat \ {0} /\ d \in Int /\ h.used \in Int
  <2>1. ptr \in Nat \ {0} /\ h.live[ptr] \in Nat
    BY DEF HeapInv, Blocks
  <2>2. h.used \in Int
    BY InUseIs, SumsEnd DEF HeapInv
  <2> QED
    BY <2>1, <2>2 DEF PREFIX_SIZE
<1>2. zfree(h, ptr) = end
  BY <1>1 DEF zfree, NULL, update_zmalloc_stat_free
<1>3. DOMAIN end = DOMAIN h /\ end.live = live /\ end.wild = h.wild /\ end.used = h.used - d
  BY DEF HeapInv
<1> HIDE DEF end
<1>4. Blocks(live) /\ DOMAIN live = DOMAIN h.live \ {ptr}
  BY DEF HeapInv, Blocks, Restrict
<1>5. \A k \in Nat \ {0} : Held(live, k) = Held(h.live, k) + (IF k = ptr THEN -d ELSE 0)
  BY <1>1 DEF Held, HeapInv, Blocks, PREFIX_SIZE, Restrict
<1> HIDE DEF live
<1> DEFINE less == -d
<1>6. InUse(live) = InUse(h.live) + less
  <2>1. less \in Int
    BY <1>1
  <2>2. \A k \in Nat \ {0} : Held(live, k) = Held(h.live, k) + (IF k = ptr THEN less ELSE 0)
    BY <1>5
  <2>3. Blocks(h.live)
    BY DEF HeapInv
  <2> HIDE DEF less
  <2> QED
    BY <1>1, <1>4, <2>1, <2>2, <2>3, InUseChanges
<1> HIDE DEF d
<1>7. InUse(live) = h.used - d
  BY <1>1, <1>6 DEF HeapInv
<1> QED
  BY <1>2, <1>3, <1>4, <1>7 DEF HeapInv

LEMMA Resized ==
    ASSUME NEW h, HeapInv(h), NEW ptr \in DOMAIN h.live, NEW size \in Nat
    PROVE  LET r == zrealloc(h, ptr, size)
           IN  HeapInv(r.heap) /\ DOMAIN r.heap.live = DOMAIN h.live /\ r.ptr = ptr
<1> DEFINE d == size - h.live[ptr]
           new == [h EXCEPT !.live[ptr] = size]
           less == [new EXCEPT !.used = @ - h.live[ptr]]
           end == [less EXCEPT !.used = @ + size]
           live == [h.live EXCEPT ![ptr] = size]
<1>1. ptr \in Nat \ {0} /\ h.live[ptr] \in Nat /\ d \in Int /\ h.used \in Int
  <2>1. ptr \in Nat \ {0} /\ h.live[ptr] \in Nat
    BY DEF HeapInv, Blocks
  <2>2. h.used \in Int
    BY InUseIs, SumsEnd DEF HeapInv
  <2> QED
    BY <2>1, <2>2
<1>2. zrealloc(h, ptr, size) = [heap |-> end, ptr |-> ptr]
  BY <1>1 DEF zrealloc, NULL, update_zmalloc_stat_free, update_zmalloc_stat_alloc
<1>3. DOMAIN end = DOMAIN h /\ end.live = live /\ end.wild = h.wild /\ end.used = h.used + d
  BY <1>1 DEF HeapInv
<1> HIDE DEF end
<1>4. Blocks(live) /\ DOMAIN live = DOMAIN h.live
  BY DEF HeapInv, Blocks
<1>5. \A k \in Nat \ {0} : Held(live, k) = Held(h.live, k) + (IF k = ptr THEN d ELSE 0)
  BY <1>1 DEF Held, HeapInv, Blocks, PREFIX_SIZE
<1> HIDE DEF live, d
<1>6. InUse(live) = InUse(h.live) + d
  <2>1. Blocks(h.live) /\ Blocks(live) /\ ptr \in Nat \ {0} /\ d \in Int
    BY <1>1, <1>4 DEF HeapInv
  <2> DEFINE old == h.live
  <2>2. Blocks(old) /\ \A k \in Nat \ {0} :
              Held(live, k) = Held(old, k) + (IF k = ptr THEN d ELSE 0)
    BY <1>5, <2>1
  <2> HIDE DEF old
  <2>3. InUse(live) = InUse(old) + d
    BY ONLY InUseChanges, <2>1, <2>2
  <2> QED
    BY <2>3 DEF old
<1> QED
  BY <1>2, <1>3, <1>4, <1>6 DEF HeapInv

LEMMA ReadIs ==
    ASSUME NEW h, HeapInv(h), NEW ptr \in DOMAIN h.live
    PROVE  HeapInv(zread(h, ptr)) /\ zread(h, ptr).live = h.live
BY DEF zread, HeapInv
-----------------------------------------------------------------------------
(***************************************************************************)
(* Addresses.  The blocks of a bridge are S, T those of them that hold an  *)
(* address.                                                                *)
(***************************************************************************)
BridgeFields == {"stack", "globals", "given", "got", "last", "status", "heap", "text",
                 "clones", "addrs", "addr", "data", "want"}

Memory(b, S, T) ==
    /\ DOMAIN b = BridgeFields
    /\ HeapInv(b.heap) /\ DOMAIN b.heap.live = S
    /\ b.text = [p \in T |-> b.text[p]]

\* All but the memory is left alone.
SameOwners(b, c) ==
    c.clones = b.clones /\ c.addrs = b.addrs /\ c.addr = b.addr /\ c.data = b.data

SameValues(b, c) ==
    /\ c.stack = b.stack /\ c.globals = b.globals /\ c.given = b.given /\ c.got = b.got
    /\ c.last = b.last /\ c.status = b.status

\* A block with address text is new in r.
Added(b, S, T, text, r) ==
    /\ r.ptr \in Nat \ {0} /\ r.ptr \notin S
    /\ Memory(r.b, S \cup {r.ptr}, T \cup {r.ptr})
    /\ r.b.text[r.ptr] = text /\ \A p \in T : p # r.ptr => r.b.text[p] = b.text[p]
    /\ SameOwners(b, r.b) /\ SameValues(b, r.b) /\ r.b.want = b.want

LEMMA NewAddrIs ==
    ASSUME NEW b, NEW S, NEW T, Memory(b, S, T), NEW text
    PROVE  Added(b, S, T, text, NewAddr(b, text))
<1> DEFINE r == zmalloc(b.heap, ai_addrlen(text))
           texts == [p \in DOMAIN b.text \cup {r.ptr} |-> IF p = r.ptr THEN text ELSE b.text[p]]
           c == [b EXCEPT !.heap = r.heap, !.text = texts]
<1>1. ai_addrlen(text) \in Nat
  BY DEF ai_addrlen
<1>2. /\ HeapInv(r.heap) /\ r.ptr \in Nat \ {0} /\ r.ptr \notin S
      /\ DOMAIN r.heap.live = S \cup {r.ptr}
  BY <1>1, Allocated DEF Memory
<1>3. NewAddr(b, text) = [b |-> c, ptr |-> r.ptr]
  BY Zenon DEF NewAddr
<1> HIDE DEF r
<1>4. DOMAIN b.text = T
  <2>1. b.text = [p \in T |-> b.text[p]]
    BY DEF Memory
  <2> QED
    BY <2>1, Zenon
<1>5. texts = [p \in T \cup {r.ptr} |-> texts[p]] /\ texts[r.ptr] = text
      /\ \A p \in T : p # r.ptr => texts[p] = b.text[p]
  BY <1>4
<1> HIDE DEF texts
<1>6. DOMAIN c = BridgeFields /\ c.heap = r.heap /\ c.text = texts
      /\ SameOwners(b, c) /\ SameValues(b, c) /\ c.want = b.want
  BY DEF Memory, BridgeFields, SameOwners, SameValues
<1> HIDE DEF c
<1> QED
  BY <1>2, <1>3, <1>5, <1>6 DEF Memory, Added

\* Block ptr is no longer in c.
Removed(b, S, T, ptr, c) ==
    /\ Memory(c, S \ {ptr}, T \ {ptr})
    /\ \A p \in T \ {ptr} : c.text[p] = b.text[p]
    /\ SameOwners(b, c) /\ SameValues(b, c) /\ c.want = b.want

LEMMA FreeAddrIs ==
    ASSUME NEW b, NEW S, NEW T, Memory(b, S, T), NEW ptr \in S
    PROVE  Removed(b, S, T, ptr, FreeAddr(b, ptr))
<1> DEFINE h == zfree(b.heap, ptr)
           texts == Restrict(b.text, DOMAIN b.text \ {ptr})
           c == [b EXCEPT !.heap = h, !.text = texts]
<1>1. HeapInv(h) /\ DOMAIN h.live = S \ {ptr}
  BY Freed DEF Memory
<1>2. FreeAddr(b, ptr) = c
  BY Zenon DEF FreeAddr
<1> HIDE DEF h
<1>3. DOMAIN b.text = T
  <2>1. b.text = [p \in T |-> b.text[p]]
    BY DEF Memory
  <2> QED
    BY <2>1, Zenon
<1>4. texts = [p \in T \ {ptr} |-> texts[p]] /\ \A p \in T \ {ptr} : texts[p] = b.text[p]
  BY <1>3 DEF Restrict
<1> HIDE DEF texts
<1>5. DOMAIN c = BridgeFields /\ c.heap = h /\ c.text = texts
      /\ SameOwners(b, c) /\ SameValues(b, c) /\ c.want = b.want
  BY DEF Memory, BridgeFields, SameOwners, SameValues
<1> HIDE DEF c
<1> QED
  BY <1>1, <1>2, <1>4, <1>5 DEF Memory, Removed

\* The address of a block is copied into a new one.
LEMMA CopyIs ==
    ASSUME NEW b, NEW S, NEW T, Memory(b, S, T), NEW from \in S, from \in T
    PROVE  Added(b, S, T, b.text[from], script_addr_copy(b, from))
<1> DEFINE h == zread(b.heap, from)
           c == [b EXCEPT !.heap = h]
<1>1. HeapInv(h) /\ DOMAIN h.live = S
  BY ReadIs DEF Memory
<1>2. DOMAIN b.text = T
  <2>1. b.text = [p \in T |-> b.text[p]]
    BY DEF Memory
  <2> QED
    BY <2>1, Zenon
<1>3. script_addr_copy(b, from) = NewAddr(c, b.text[from])
  BY <1>2, Zenon DEF script_addr_copy, AddrIn
<1> HIDE DEF h
<1>4. DOMAIN c = BridgeFields /\ c.heap = h /\ c.text = b.text
      /\ SameOwners(b, c) /\ SameValues(b, c) /\ c.want = b.want
  BY DEF Memory, BridgeFields, SameOwners, SameValues
<1> HIDE DEF c
<1>5. Memory(c, S, T)
  BY <1>1, <1>4 DEF Memory
<1> DEFINE r == NewAddr(c, b.text[from])
<1>6. Added(c, S, T, b.text[from], r)
  BY <1>5, NewAddrIs
<1> HIDE DEF r
<1>7. Added(b, S, T, b.text[from], r)
  BY <1>4, <1>6 DEF Added, SameOwners, SameValues
<1> QED
  BY <1>3, <1>7 DEF r

\* Each block has one owner: Lua's collector, or the thread, which has an
\* address in a block of its own behind the one of its addrinfo.
AddrBlocks(b) == b.clones \cup ({b.data} \ {NULL})
Owned(b) == b.clones \cup ({b.addr, b.data} \ {NULL})

AddrInv(b) ==
    /\ Memory(b, Owned(b), AddrBlocks(b))
    /\ b.clones \subseteq Nat \ {0} /\ b.addr \in Nat /\ b.data \in Nat
    /\ b.addr = NULL <=> b.data = NULL
    /\ b.addr # NULL =>
         /\ b.addr \notin b.clones /\ b.data \notin b.clones /\ b.addr # b.data
         /\ b.text[b.data] = b.want

LEMMA CloneKeeps ==
    ASSUME NEW b, AddrInv(b), NEW from \in AddrBlocks(b)
    PROVE  LET c == script_addr_clone(b, from)
           IN  /\ AddrInv(c) /\ SameValues(b, c) /\ c.addr = b.addr /\ c.data = b.data
               /\ c.addrs = b.addrs /\ b.clones \subseteq c.clones
<1> DEFINE r == script_addr_copy(b, from)
           c == [r.b EXCEPT !.clones = r.b.clones \cup {r.ptr}]
<1>1. from \in Owned(b)
  BY DEF Owned, AddrBlocks
<1>2. Added(b, Owned(b), AddrBlocks(b), b.text[from], r)
  BY <1>1, CopyIs DEF AddrInv
<1>3. script_addr_clone(b, from) = c
  BY Zenon DEF script_addr_clone
<1> HIDE DEF r
<1>4. /\ DOMAIN c = BridgeFields /\ c.heap = r.b.heap /\ c.text = r.b.text
      /\ c.clones = b.clones \cup {r.ptr} /\ c.addrs = b.addrs
      /\ c.addr = b.addr /\ c.data = b.data /\ c.want = b.want /\ SameValues(b, c)
  BY <1>2 DEF Added, Memory, BridgeFields, SameOwners, SameValues
<1> HIDE DEF c
<1>5. Owned(c) = Owned(b) \cup {r.ptr} /\ AddrBlocks(c) = AddrBlocks(b) \cup {r.ptr}
  BY <1>4 DEF Owned, AddrBlocks
<1>6. Memory(c, Owned(c), AddrBlocks(c))
  BY <1>2, <1>4, <1>5 DEF Memory, Added
<1>7. b.addr # NULL => /\ b.data \in AddrBlocks(b) /\ b.data # r.ptr /\ b.addr # r.ptr
  BY <1>2 DEF AddrInv, AddrBlocks, Owned, Added
<1> QED
  BY <1>2, <1>3, <1>4, <1>6, <1>7 DEF AddrInv, Added

LEMMA LookupKeeps ==
    ASSUME NEW b, AddrInv(b), b.addrs \in Seq(b.clones), NEW text
    PROVE  LET c == script_wrk_lookup(b, text)
           IN  /\ AddrInv(c) /\ SameValues(b, c) /\ c.addr = b.addr
               /\ c.addrs \in Seq(c.clones) /\ Len(c.addrs) = Len(b.addrs) + 1
<1> DEFINE r == NewAddr(b, text)
           c == [r.b EXCEPT !.clones = r.b.clones \cup {r.ptr}, !.addrs = Append(r.b.addrs, r.ptr)]
<1>1. Added(b, Owned(b), AddrBlocks(b), text, r)
  BY NewAddrIs DEF AddrInv
<1>2. script_wrk_lookup(b, text) = c
  BY Zenon DEF script_wrk_lookup
<1> HIDE DEF r
<1>3. /\ DOMAIN c = BridgeFields /\ c.heap = r.b.heap /\ c.text = r.b.text
      /\ c.clones = b.clones \cup {r.ptr} /\ c.addrs = Append(b.addrs, r.ptr)
      /\ c.addr = b.addr /\ c.data = b.data /\ c.want = b.want /\ SameValues(b, c)
  BY <1>1 DEF Added, Memory, BridgeFields, SameOwners, SameValues
<1> HIDE DEF c
<1>4. Owned(c) = Owned(b) \cup {r.ptr} /\ AddrBlocks(c) = AddrBlocks(b) \cup {r.ptr}
  BY <1>3 DEF Owned, AddrBlocks
<1>5. Memory(c, Owned(c), AddrBlocks(c))
  BY <1>1, <1>3, <1>4 DEF Memory, Added
<1>6. b.addr # NULL => /\ b.data \in AddrBlocks(b) /\ b.data # r.ptr /\ b.addr # r.ptr
  BY <1>1 DEF AddrInv, AddrBlocks, Owned, Added
<1>7. c.addrs \in Seq(c.clones) /\ Len(c.addrs) = Len(b.addrs) + 1
  <2>1. b.addrs \in Seq(c.clones) /\ r.ptr \in c.clones
    BY <1>3
  <2> QED
    BY <1>3, <2>1
<1> QED
  BY <1>1, <1>2, <1>3, <1>5, <1>6, <1>7 DEF AddrInv, Added

LEMMA CollectKeeps ==
    ASSUME NEW b, AddrInv(b), NEW ptr \in b.clones
    PROVE  LET c == script_addr_gc(b, ptr)
           IN  /\ AddrInv(c) /\ SameValues(b, c) /\ c.addr = b.addr /\ c.addrs = b.addrs
               /\ c.clones = b.clones \ {ptr}
<1> DEFINE f == FreeAddr(b, ptr)
           c == [f EXCEPT !.clones = f.clones \ {ptr}]
<1>1. Removed(b, Owned(b), AddrBlocks(b), ptr, f)
  <2>1. Memory(b, Owned(b), AddrBlocks(b)) /\ ptr \in Owned(b)
    BY DEF AddrInv, Owned
  <2> QED
    BY <2>1, FreeAddrIs
<1>2. script_addr_gc(b, ptr) = c
  BY Zenon DEF script_addr_gc
<1> HIDE DEF f
<1>3. /\ DOMAIN c = BridgeFields /\ c.heap = f.heap /\ c.text = f.text
      /\ c.clones = b.clones \ {ptr} /\ c.addrs = b.addrs
      /\ c.addr = b.addr /\ c.data = b.data /\ c.want = b.want /\ SameValues(b, c)
  BY <1>1 DEF Removed, Memory, BridgeFields, SameOwners, SameValues
<1> HIDE DEF c
<1>4. ptr # b.data /\ ptr # b.addr
  BY DEF AddrInv, NULL
<1>5. Owned(c) = Owned(b) \ {ptr} /\ AddrBlocks(c) = AddrBlocks(b) \ {ptr}
  BY <1>3, <1>4 DEF Owned, AddrBlocks
<1>6. Memory(c, Owned(c), AddrBlocks(c))
  BY <1>1, <1>3, <1>5 DEF Memory, Removed
<1>7. b.addr # NULL => b.data \in AddrBlocks(b) \ {ptr}
  BY <1>4 DEF AddrInv, AddrBlocks
<1> QED
  BY <1>1, <1>2, <1>3, <1>6, <1>7 DEF AddrInv, Removed

\* The thread's old block is freed before the new one is allocated, and its
\* addrinfo is reallocated in between.
LEMMA AssignKeeps ==
    ASSUME NEW b, AddrInv(b), NEW ptr \in b.clones
    PROVE  LET c == script_thread_newindex(b, ptr)
           IN  /\ AddrInv(c) /\ SameValues(b, c) /\ c.addr # NULL
               /\ c.clones = b.clones /\ c.addrs = b.addrs
<1> DEFINE freed == IF b.addr # NULL THEN FreeAddr(b, b.data) ELSE b
           r == zrealloc(freed.heap, b.addr, addrinfo)
           mid == [freed EXCEPT !.heap = r.heap]
           s == script_addr_copy(mid, ptr)
           c == [s.b EXCEPT !.addr = r.ptr, !.data = s.ptr, !.want = AddrIn(b, ptr)]
           S == b.clones \cup ({b.addr} \ {NULL})
<1>1. script_thread_newindex(b, ptr) = c
  BY Zenon DEF script_thread_newindex
<1>2. /\ Memory(freed, S, b.clones) /\ \A p \in b.clones : freed.text[p] = b.text[p]
      /\ SameOwners(b, freed) /\ SameValues(b, freed)
  <2>1. CASE b.addr = NULL
    <3>1. S = Owned(b) /\ b.clones = AddrBlocks(b)
      BY <2>1 DEF AddrInv, Owned, AddrBlocks
    <3> QED
      BY <2>1, <3>1 DEF AddrInv, SameOwners, SameValues
  <2>2. CASE b.addr # NULL
    <3>1. b.data \in Owned(b) /\ S = Owned(b) \ {b.data} /\ b.clones = AddrBlocks(b) \ {b.data}
      BY <2>2 DEF AddrInv, Owned, AddrBlocks
    <3>2. Removed(b, Owned(b), AddrBlocks(b), b.data, FreeAddr(b, b.data))
      BY <3>1, FreeAddrIs DEF AddrInv
    <3> QED
      BY <2>2, <3>1, <3>2 DEF Removed
  <2> QED
    BY <2>1, <2>2
<1> HIDE DEF freed
<1>3. /\ HeapInv(r.heap) /\ DOMAIN r.heap.live = b.clones \cup {r.ptr}
      /\ r.ptr \in Nat \ {0} /\ r.ptr \notin b.clones
  <2>1. HeapInv(freed.heap) /\ DOMAIN freed.heap.live = S /\ addrinfo \in Nat
    BY <1>2 DEF Memory, addrinfo
  <2>2. CASE b.addr = NULL
    <3>1. r = zmalloc(freed.heap, addrinfo) /\ S = b.clones
      BY <2>2 DEF zrealloc
    <3> HIDE DEF r, S
    <3> QED
      BY <2>1, <3>1, Allocated
  <2>3. CASE b.addr # NULL
    <3>1. b.addr \in S /\ S = b.clones \cup {b.addr} /\ b.addr \notin b.clones
          /\ b.addr \in Nat \ {0}
      BY <2>3 DEF AddrInv, NULL
    <3>2. HeapInv(r.heap) /\ DOMAIN r.heap.live = S /\ r.ptr = b.addr
      BY <2>1, <3>1, Resized
    <3> QED
      BY <3>1, <3>2
  <2> QED
    BY <2>2, <2>3
<1> HIDE DEF r
<1>4. /\ Memory(mid, b.clones \cup {r.ptr}, b.clones) /\ mid.text = freed.text
      /\ SameOwners(b, mid) /\ SameValues(b, mid)
  <2>1. DOMAIN mid = DOMAIN freed /\ mid.heap = r.heap /\ mid.text = freed.text
        /\ SameOwners(freed, mid) /\ SameValues(freed, mid)
    BY <1>2 DEF Memory, BridgeFields, SameOwners, SameValues
  <2> HIDE DEF mid
  <2> QED
    BY <1>2, <1>3, <2>1 DEF Memory, SameOwners, SameValues
<1> HIDE DEF mid
<1>5. Added(mid, b.clones \cup {r.ptr}, b.clones, mid.text[ptr], s)
  BY <1>4, CopyIs
<1> HIDE DEF s
<1>6. AddrIn(b, ptr) = b.text[ptr]
  <2>1. b.text = [p \in AddrBlocks(b) |-> b.text[p]] /\ ptr \in AddrBlocks(b)
    BY DEF AddrInv, Memory, AddrBlocks
  <2>2. ptr \in DOMAIN b.text
    BY <2>1, Zenon
  <2> QED
    BY <2>2 DEF AddrIn
<1>7. /\ DOMAIN c = BridgeFields /\ c.heap = s.b.heap /\ c.text = s.b.text
      /\ c.clones = b.clones /\ c.addrs = b.addrs /\ c.addr = r.ptr /\ c.data = s.ptr
      /\ c.want = b.text[ptr] /\ SameValues(b, c)
  BY <1>4, <1>5, <1>6 DEF Added, Memory, BridgeFields, SameOwners, SameValues
<1> HIDE DEF c, S
<1>8. Owned(c) = b.clones \cup {r.ptr} \cup {s.ptr} /\ AddrBlocks(c) = b.clones \cup {s.ptr}
  BY <1>3, <1>5, <1>7 DEF Owned, AddrBlocks, NULL, Added
<1>9. Memory(c, Owned(c), AddrBlocks(c))
  BY <1>5, <1>7, <1>8 DEF Memory, Added
<1> QED
  BY <1>1, <1>2, <1>3, <1>4, <1>5, <1>7, <1>9 DEF AddrInv, NULL, Added
-----------------------------------------------------------------------------
(***************************************************************************)
(* Stacks.                                                                 *)
(***************************************************************************)
IsSeq(s) == \E V : s \in Seq(V)

LEMMA Pushed ==
    ASSUME NEW s, IsSeq(s), NEW e
    PROVE  /\ IsSeq(Append(s, e)) /\ Len(s) \in Nat /\ Len(Append(s, e)) = Len(s) + 1
           /\ Front(Append(s, e)) = s /\ Last(Append(s, e)) = e
           /\ Append(s, e)[Len(s) + 1] = e
           /\ \A k \in 1..Len(s) : Append(s, e)[k] = s[k]
<1>1. PICK V : s \in Seq(V)
  BY DEF IsSeq
<1>2. s \in Seq(V \cup {e}) /\ e \in V \cup {e} /\ Len(s) \in Nat
  BY <1>1
<1> DEFINE W == V \cup {e}
           t == Append(s, e)
<1>3. s \in Seq(W) /\ e \in W
  BY <1>2
<1> HIDE DEF W
<1>4. t \in Seq(W) /\ Len(t) = Len(s) + 1 /\ t[Len(s) + 1] = e
      /\ \A k \in 1..Len(s) : t[k] = s[k]
  BY <1>2, <1>3
<1>5. SubSeq(t, 1, Len(t) - 1) = s
  BY <1>2, <1>3
<1> HIDE DEF t
<1>6. Front(t) = s /\ Last(t) = e
  BY <1>2, <1>4, <1>5 DEF Front, Last
<1> QED
  BY <1>4, <1>6, <1>2 DEF IsSeq, t

\* The uppermost slots.
Uppermost(s, e1, e2, e3) ==
    /\ Slot(Append(s, e1), -1) = e1 /\ InStack(Append(s, e1), -1)
    /\ Slot(Append(Append(s, e1), e2), -1) = e2
    /\ Slot(Append(Append(s, e1), e2), -2) = e1
    /\ InStack(Append(Append(s, e1), e2), -2)
    /\ Slot(Append(Append(Append(s, e1), e2), e3), -1) = e3
    /\ Slot(Append(Append(Append(s, e1), e2), e3), -2) = e2

LEMMA Slots ==
    ASSUME NEW s, IsSeq(s), NEW e1, NEW e2, NEW e3
    PROVE  Uppermost(s, e1, e2, e3)
<1> DEFINE t == Append(s, e1)
           u == Append(t, e2)
           w == Append(u, e3)
<1>1. IsSeq(t) /\ Len(s) \in Nat /\ Len(t) = Len(s) + 1 /\ t[Len(s) + 1] = e1
  BY Pushed
<1> HIDE DEF t
<1>2. IsSeq(u) /\ Len(u) = Len(s) + 2 /\ u[Len(s) + 2] = e2 /\ u[Len(s) + 1] = e1
  <2>1. IsSeq(u) /\ Len(u) = Len(t) + 1 /\ u[Len(t) + 1] = e2
        /\ \A k \in 1..Len(t) : u[k] = t[k]
    BY <1>1, Pushed
  <2> HIDE DEF u
  <2>2. Len(t) + 1 = Len(s) + 2 /\ Len(s) + 1 \in 1..Len(t)
    BY <1>1
  <2> QED
    BY <1>1, <2>1, <2>2
<1> HIDE DEF u
<1>3. Len(w) = Len(s) + 3 /\ w[Len(s) + 3] = e3 /\ w[Len(s) + 2] = e2
  <2>1. Len(w) = Len(u) + 1 /\ w[Len(u) + 1] = e3 /\ \A k \in 1..Len(u) : w[k] = u[k]
    BY <1>2, Pushed
  <2> HIDE DEF w
  <2>2. Len(u) + 1 = Len(s) + 3 /\ Len(s) + 2 \in 1..Len(u)
    BY <1>1, <1>2
  <2> QED
    BY <1>2, <2>1, <2>2
<1> HIDE DEF w
<1>4. Len(t) + 1 + (-1) = Len(s) + 1 /\ Len(u) + 1 + (-1) = Len(s) + 2
      /\ Len(u) + 1 + (-2) = Len(s) + 1 /\ Len(w) + 1 + (-1) = Len(s) + 3
      /\ Len(w) + 1 + (-2) = Len(s) + 2 /\ -(-1) \in 1..Len(t) /\ -(-2) \in 1..Len(u)
  BY <1>1, <1>2, <1>3
<1> QED
  BY <1>1, <1>2, <1>3, <1>4 DEF Uppermost, Slot, InStack, t, u, w

-----------------------------------------------------------------------------
(***************************************************************************)
(* A copy, step by step.                                                   *)
(***************************************************************************)
StepsTo(f, c, n) == f = [k \in 0..n |-> IF k = 0 THEN c ELSE CopyStep(f[k - 1])]

LEMMA StepsToExist ==
    ASSUME NEW c, NEW n \in Nat
    PROVE  \E f : StepsTo(f, c, n)
<1> DEFINE T == {m \in Nat : ~\E f : StepsTo(f, c, m)}
<1>1. SUFFICES ASSUME T # {} PROVE FALSE
  OBVIOUS
<1>2. PICK m \in T : \A l \in T : m <= l
  BY <1>1, LeastOf
<1>3. m \in Nat /\ ~\E f : StepsTo(f, c, m)
  OBVIOUS
<1>4. CASE m = 0
  <2> DEFINE g == [k \in 0..m |-> c]
  <2>1. \A k \in 0..m : c = IF k = 0 THEN c ELSE CopyStep(g[k - 1])
    BY <1>4
  <2>2. g = [k \in 0..m |-> IF k = 0 THEN c ELSE CopyStep(g[k - 1])]
    BY <2>1, Zenon
  <2> QED
    BY <1>3, <2>2 DEF StepsTo
<1>5. CASE m # 0
  <2>1. m - 1 \in Nat /\ m - 1 \notin T
    BY <1>2, <1>3, <1>5
  <2>2. PICK f : StepsTo(f, c, m - 1)
    BY <2>1
  <2>3. \A k \in 0..(m - 1) : f[k] = IF k = 0 THEN c ELSE CopyStep(f[k - 1])
    BY <2>2 DEF StepsTo
  <2> DEFINE g == [k \in 0..m |-> IF k = m THEN CopyStep(f[m - 1]) ELSE f[k]]
  <2>4. \A k \in 0..m : g[k] = IF k = m THEN CopyStep(f[m - 1]) ELSE f[k]
    BY Zenon
  <2>5. \A k \in 0..m : k # m => k \in 0..(m - 1)
    BY <1>3
  <2>6. \A k \in 0..m : k # 0 => k - 1 \in 0..m /\ k - 1 # m
    BY <1>3
  <2> HIDE DEF g
  <2>7. \A k \in 0..m : g[k] = IF k = 0 THEN c ELSE CopyStep(g[k - 1])
    <3> TAKE k \in 0..m
    <3>1. CASE k = m
      BY <1>5, <2>4, <2>6, <3>1
    <3>2. CASE k # m
      BY <2>3, <2>4, <2>5, <2>6, <3>2
    <3> QED
      BY <3>1, <3>2
  <2>8. g = [k \in 0..m |-> g[k]]
    BY DEF g
  <2>9. g = [k \in 0..m |-> IF k = 0 THEN c ELSE CopyStep(g[k - 1])]
    BY <2>7, <2>8
  <2> QED
    BY <1>3, <2>9 DEF StepsTo
<1> QED
  BY <1>4, <1>5

\* Two that begin alike go on alike.
LEMMA StepsAgree ==
    ASSUME NEW c, NEW m \in Nat, NEW n \in Nat, NEW f, NEW g, StepsTo(f, c, m), StepsTo(g, c, n)
    PROVE  \A k \in 0..m : k <= n => f[k] = g[k]
<1>1. \A k \in 0..m : f[k] = IF k = 0 THEN c ELSE CopyStep(f[k - 1])
  BY DEF StepsTo
<1>2. \A k \in 0..n : g[k] = IF k = 0 THEN c ELSE CopyStep(g[k - 1])
  BY DEF StepsTo
<1> DEFINE T == {k \in 0..m : k <= n /\ f[k] # g[k]}
<1>3. SUFFICES ASSUME T # {} PROVE FALSE
  OBVIOUS
<1>4. PICK k \in T : \A l \in T : k <= l
  <2>1. T \subseteq Nat
    OBVIOUS
  <2> HIDE DEF T
  <2> QED
    BY <1>3, <2>1, LeastOf
<1>5. k \in 0..m /\ k \in 0..n /\ f[k] # g[k]
  OBVIOUS
<1>6. k # 0
  BY <1>1, <1>2, <1>5
<1>7. k - 1 \in 0..m /\ k - 1 <= n /\ ~(k <= k - 1)
  BY <1>5, <1>6
<1>8. f[k - 1] = g[k - 1]
  BY <1>4, <1>7
<1> QED
  BY <1>1, <1>2, <1>5, <1>6, <1>8

LEMMA StepsExist ==
    ASSUME NEW c
    PROVE  \E f : f = [k \in Nat |-> IF k = 0 THEN c ELSE CopyStep(f[k - 1])]
<1> DEFINE to(n) == CHOOSE g : StepsTo(g, c, n)
           f == [k \in Nat |-> to(k)[k]]
<1>1. \A n \in Nat : StepsTo(to(n), c, n)
  BY StepsToExist, Zenon
<1> HIDE DEF to
<1>2. \A k \in Nat : f[k] = IF k = 0 THEN c ELSE CopyStep(f[k - 1])
  <2> TAKE k \in Nat
  <2>1. \A l \in 0..k : to(k)[l] = IF l = 0 THEN c ELSE CopyStep(to(k)[l - 1])
    BY <1>1 DEF StepsTo
  <2>2. k # 0 => k - 1 \in Nat /\ k - 1 \in 0..k /\ k - 1 \in 0..(k - 1)
    OBVIOUS
  <2>3. k # 0 => to(k)[k - 1] = to(k - 1)[k - 1]
    <3>1. SUFFICES ASSUME k # 0 PROVE to(k)[k - 1] = to(k - 1)[k - 1]
      OBVIOUS
    <3>2. StepsTo(to(k), c, k) /\ StepsTo(to(k - 1), c, k - 1)
      BY <1>1, <2>2, <3>1
    <3> QED
      BY <2>2, <3>1, <3>2, StepsAgree
  <2> QED
    BY <2>1, <2>2, <2>3
<1>3. f = [k \in Nat |-> f[k]]
  OBVIOUS
<1> HIDE DEF f
<1>4. f = [k \in Nat |-> IF k = 0 THEN c ELSE CopyStep(f[k - 1])]
  BY <1>2, <1>3
<1> QED
  BY <1>4

\* The first step from the k-th on after which the copy is over.
LEMMA EndExists ==
    ASSUME NEW f
    PROVE  \E e : e = [k \in Nat |-> IF Copied(f[k]) THEN f[k] ELSE e[k + 1]]
<1> DEFINE over(k) == {m \in Nat : m >= k /\ Copied(f[m])}
           e == [k \in Nat |-> IF over(k) = {} THEN f ELSE f[Min(over(k))]]
<1>1. \A k \in Nat : e[k] = IF over(k) = {} THEN f ELSE f[Min(over(k))]
  BY Zenon
<1>2. ASSUME NEW k \in Nat PROVE e[k] = IF Copied(f[k]) THEN f[k] ELSE e[k + 1]
  <2>1. CASE Copied(f[k])
    <3>1. k \in over(k) /\ over(k) \subseteq Nat /\ \A l \in over(k) : l >= k
      BY <2>1
    <3> HIDE DEF over
    <3>2. Min(over(k)) \in Nat /\ Min(over(k)) = k
      <4>1. Min(over(k)) \in over(k) /\ \A l \in over(k) : Min(over(k)) <= l
        BY <3>1, MinIs
      <4> QED
        BY <3>1, <4>1
    <3> QED
      BY <1>1, <2>1, <3>1, <3>2
  <2>2. CASE ~Copied(f[k])
    <3>1. over(k) = over(k + 1)
      <4>1. \A m \in Nat : m >= k /\ Copied(f[m]) <=> m >= k + 1 /\ Copied(f[m])
        BY <2>2
      <4> QED
        BY <4>1
    <3> HIDE DEF over
    <3> QED
      BY <1>1, <2>2, <3>1
  <2> QED
    BY <2>1, <2>2
<1>3. e = [k \in Nat |-> e[k]]
  OBVIOUS
<1> HIDE DEF e
<1>4. e = [k \in Nat |-> IF Copied(f[k]) THEN f[k] ELSE e[k + 1]]
  BY <1>2, <1>3
<1> QED
  BY <1>4

CopyOver(src, dst, todo) == [src |-> src, dst |-> dst, status |-> "ok", todo |-> todo]

\* step[k] is the copy after k steps, end[k] the first copy from there on that is over.
Runs(step, end, src, dst) ==
    /\ step[0] = CopyOver(src, dst, <<Copy(-1)>>)
    /\ \A k \in Nat : step[k + 1] = CopyStep(step[k])
    /\ \A k \in Nat : end[k] = IF Copied(step[k]) THEN step[k] ELSE end[k + 1]

LEMMA CopyRuns ==
    ASSUME NEW src, NEW dst
    PROVE  \E step, end : Runs(step, end, src, dst) /\ script_copy_value(src, dst) = end[0]
<1> DEFINE c == CopyOver(src, dst, <<Copy(-1)>>)
           step == CHOOSE f : f = [k \in Nat |-> IF k = 0 THEN c ELSE CopyStep(f[k - 1])]
           end == CHOOSE e : e = [k \in Nat |-> IF Copied(step[k]) THEN step[k] ELSE e[k + 1]]
<1>1. script_copy_value(src, dst) = end[0]
  BY Zenon DEF script_copy_value, CopyOver
<1>2. step = [k \in Nat |-> IF k = 0 THEN c ELSE CopyStep(step[k - 1])]
  BY StepsExist, Zenon
<1> HIDE DEF step
<1>3. end = [k \in Nat |-> IF Copied(step[k]) THEN step[k] ELSE end[k + 1]]
  BY EndExists, Zenon
<1> HIDE DEF end, c
<1>4. \A k \in Nat : step[k] = IF k = 0 THEN c ELSE CopyStep(step[k - 1])
  BY <1>2
<1>5. \A k \in Nat : step[k + 1] = CopyStep(step[k])
  <2> TAKE k \in Nat
  <2>1. k + 1 \in Nat /\ k + 1 # 0 /\ (k + 1) - 1 = k
    OBVIOUS
  <2> QED
    BY <1>4, <2>1
<1>6. step[0] = c
  BY <1>4
<1>7. \A k \in Nat : end[k] = IF Copied(step[k]) THEN step[k] ELSE end[k + 1]
  BY <1>3
<1> QED
  BY <1>1, <1>5, <1>6, <1>7 DEF Runs, c
-----------------------------------------------------------------------------
(***************************************************************************)
(* What a copy of a value is: the value, but for strings with a NUL byte.  *)
(* Plain values have no other value in them, a flat table has pairs of     *)
(* those, with keys that differ.                                           *)
(***************************************************************************)
Plain(v) == v.type \in Simple /\ (v.type = "string" => v = String(v.text) /\ IsSeq(v.text))

FlatPair(p) == Plain(p[1]) /\ Plain(p[2]) /\ p[1] # Nil /\ p = <<p[1], p[2]>>

Flat(v) ==
    /\ v = Table(v.pairs) /\ IsSeq(v.pairs)
    /\ \A k \in DOMAIN v.pairs : FlatPair(v.pairs[k])
    /\ \A k, l \in DOMAIN v.pairs : v.pairs[k][1] = v.pairs[l][1] => k = l

PlainCopy(v) == IF v.type = "string" THEN String(CString(v.text)) ELSE v

CopiedPairs(pairs, n) == [k \in 1..n |-> <<PlainCopy(pairs[k][1]), PlainCopy(pairs[k][2])>>]

CopyOf(v) == IF v.type = "table" THEN Table(CopiedPairs(v.pairs, Len(v.pairs))) ELSE PlainCopy(v)

LEMMA TableIs ==
    ASSUME NEW pairs
    PROVE  Table(pairs).type = "table" /\ Table(pairs).pairs = pairs
<1> DEFINE v(text) == Value("table", text, pairs)
<1>1. \A text : v(text).type = "table" /\ v(text).pairs = pairs
  BY DEF Value
<1> QED
  BY <1>1, Zenon DEF Table

\* What is left to do is taken from the front.
TodoList(a, b, c, d) ==
    /\ Head(<<a>>) = a /\ Tail(<<a>>) = << >> /\ <<a>> \o << >> = <<a>>
    /\ <<a, b, c>> \o <<d>> \o << >> = <<a, b, c, d>>
    /\ Head(<<a, b, c, d>>) = a /\ Tail(<<a, b, c, d>>) = <<b, c, d>>
    /\ Head(<<b, c, d>>) = b /\ Tail(<<b, c, d>>) = <<c, d>>
    /\ Head(<<c, d>>) = c /\ Tail(<<c, d>>) = <<d>>
    /\ <<a>> # << >> /\ <<a, b, c, d>> # << >> /\ <<b, c, d>> # << >> /\ <<c, d>> # << >>

LEMMA TodoIs ==
    ASSUME NEW a, NEW b, NEW c, NEW d
    PROVE  TodoList(a, b, c, d)
<1>1. Head(<<a>>) = a /\ Tail(<<a>>) = << >> /\ <<a>> \o << >> = <<a>>
  OBVIOUS
<1>2. <<a, b, c>> \o <<d>> = <<a, b, c, d>>
  <2> DEFINE W == {a, b, c, d}
             s == <<a, b, c>>
             t == <<d>>
             u == <<a, b, c, d>>
  <2>1. s \in Seq(W) /\ t \in Seq(W) /\ u \in Seq(W) /\ Len(s) = 3 /\ Len(t) = 1 /\ Len(u) = 4
    OBVIOUS
  <2>2. /\ s[1] = a /\ s[2] = b /\ s[3] = c /\ t[1] = d
        /\ u[1] = a /\ u[2] = b /\ u[3] = c /\ u[4] = d
    OBVIOUS
  <2> HIDE DEF s, t, u, W
  <2>3. s \o t \in Seq(W) /\ Len(s \o t) = 4 /\ \A i \in 1..4 : (s \o t)[i] = u[i]
    <3>1. /\ s \o t \in Seq(W) /\ Len(s \o t) = Len(s) + Len(t)
          /\ \A i \in 1..(Len(s) + Len(t)) :
               (s \o t)[i] = IF i <= Len(s) THEN s[i] ELSE t[i - Len(s)]
      BY <2>1, ConcatProperties
    <3>2. \A i \in 1..4 : i \in {1, 2, 3, 4}
      OBVIOUS
    <3> QED
      BY <2>1, <2>2, <3>1, <3>2
  <2>4. s \o t = u
    BY <2>1, <2>3, SeqEqual
  <2> QED
    BY <2>4 DEF s, t, u
<1>3. <<a, b, c, d>> \o << >> = <<a, b, c, d>>
  OBVIOUS
<1>4. Head(<<a, b, c, d>>) = a /\ Tail(<<a, b, c, d>>) = <<b, c, d>>
  OBVIOUS
<1>5. Head(<<b, c, d>>) = b /\ Tail(<<b, c, d>>) = <<c, d>>
  OBVIOUS
<1>6. Head(<<c, d>>) = c /\ Tail(<<c, d>>) = <<d>>
  OBVIOUS
<1>7. <<a>> # << >> /\ <<a, b, c, d>> # << >> /\ <<b, c, d>> # << >> /\ <<c, d>> # << >>
  OBVIOUS
<1> QED
  BY <1>1, <1>2, <1>3, <1>4, <1>5, <1>6, <1>7, Zenon DEF TodoList

CopiesPlain(src, dst, todo, index, v) ==
    CopyStep(CopyOver(src, dst, todo)) = CopyOver(src, Append(dst, PlainCopy(v)), Tail(todo))

LEMMA PlainStep ==
    ASSUME NEW src, NEW dst, NEW todo, NEW index, NEW v,
           Head(todo) = Copy(index), Slot(src, index) = v, Plain(v)
    PROVE  CopiesPlain(src, dst, todo, index, v)
<1> DEFINE rest == Tail(todo)
           c == CopyOver(src, dst, todo)
           d == [c EXCEPT !.todo = Tail(c.todo)]
<1>1. Copy(index).do = "copy" /\ Copy(index).index = index
  BY DEF Copy
<1>2. c.todo = todo /\ d = CopyOver(src, dst, rest)
  <2>1. c.todo = todo /\ \A t : [c EXCEPT !.todo = t] = CopyOver(src, dst, t)
    BY DEF CopyOver
  <2> HIDE DEF c, rest
  <2> QED
    BY <2>1 DEF rest
<1>3. CopyStep(c) = CASE Head(c.todo).do = "copy" -> CopySlot(d, Head(c.todo).index)
                      [] Head(c.todo).do = "loop" -> lua_next(d, Head(c.todo).index)
                      [] Head(c.todo).do = "pair" -> lua_pop(lua_settable(d), 1)
  BY Zenon DEF CopyStep
<1>4. CopyStep(c) = CopySlot(d, index)
  <2> HIDE DEF c, d
  <2> QED
    BY <1>1, <1>2, <1>3
<1> DEFINE e == CopyOver(src, dst, rest)
<1>5. CopyStep(c) = CopySlot(e, index)
  <2> HIDE DEF c
  <2> QED
    BY <1>2, <1>4
<1>6. e.src = src /\ \A w : [e EXCEPT !.dst = Append(e.dst, w)] = CopyOver(src, Append(dst, w), rest)
  <2> HIDE DEF rest
  <2> QED
    BY DEF CopyOver
<1> HIDE DEF c, d, e, rest
<1>7. CopySlot(e, index) = [e EXCEPT !.dst = Append(e.dst, PlainCopy(v))]
  <2>1. CASE v.type = "string"
    <3> HIDE <1>3
    <3>1. /\ v.type \notin {"boolean", "nil", "number"}
      BY <2>1
    <3> QED
      BY <1>6, <2>1, <3>1 DEF CopySlot, PlainCopy
  <2>2. CASE v.type \in {"boolean", "nil", "number"}
    <3>1. PlainCopy(v) = v
      BY <2>2 DEF PlainCopy
    <3> QED
      BY <1>6, <2>2, <3>1 DEF CopySlot
  <2> QED
    BY <2>1, <2>2 DEF Plain, Simple
<1> QED
  BY <1>5, <1>6, <1>7 DEF CopiesPlain, c, rest
\* The key after which the loop over a table goes on with pair j + 1.
KeyAt(pairs, j) == IF j = 0 THEN Nil ELSE pairs[j][1]

LEMMA PlaceIs ==
    ASSUME NEW v, Flat(v), NEW j \in 0..Len(v.pairs)
    PROVE  (IF KeyAt(v.pairs, j) = Nil THEN 1 ELSE Place(v.pairs, KeyAt(v.pairs, j)) + 1) = j + 1
<1> DEFINE pairs == v.pairs
<1>1. /\ Len(pairs) \in Nat /\ DOMAIN pairs = 1..Len(pairs)
      /\ \A k \in DOMAIN pairs : pairs[k][1] # Nil
      /\ \A k, l \in DOMAIN pairs : pairs[k][1] = pairs[l][1] => k = l
  BY DEF Flat, IsSeq, FlatPair
<1> HIDE DEF pairs
<1>2. CASE j = 0
  BY <1>2 DEF KeyAt, pairs
<1>3. CASE j # 0
  <2>1. j \in DOMAIN pairs /\ KeyAt(pairs, j) = pairs[j][1] /\ KeyAt(pairs, j) # Nil
    BY <1>1, <1>3 DEF KeyAt, pairs
  <2>2. Place(pairs, pairs[j][1]) = j
    <3>1. Place(pairs, pairs[j][1]) \in DOMAIN pairs
          /\ pairs[Place(pairs, pairs[j][1])][1] = pairs[j][1]
      BY <2>1, Zenon DEF Place
    <3> QED
      BY <1>1, <2>1, <3>1
  <2> QED
    BY <2>1, <2>2 DEF pairs
<1> QED
  BY <1>2, <1>3

\* The next step of the loop: a pair is put on the stack, or the table is taken
\* off it.
LEMMA LoopStep ==
    ASSUME NEW s, IsSeq(s), NEW v, Flat(v), NEW j \in 0..Len(v.pairs), NEW dst
    PROVE  CopyStep(CopyOver(Append(Append(s, v), KeyAt(v.pairs, j)), dst, <<Loop(-2)>>)) =
             IF j = Len(v.pairs) THEN CopyOver(s, dst, << >>)
             ELSE CopyOver(Append(Append(Append(s, v), v.pairs[j + 1][1]), v.pairs[j + 1][2]), dst,
                           <<Copy(-2), Copy(-1), Pair, Loop(-2)>>)
<1> DEFINE key == KeyAt(v.pairs, j)
           src == Append(Append(s, v), key)
           c == CopyOver(src, dst, <<Loop(-2)>>)
           e == CopyOver(src, dst, << >>)
           place == IF key = Nil THEN 1 ELSE Place(v.pairs, key) + 1
<1>1. Loop(-2).do = "loop" /\ Loop(-2).index = -2
  BY DEF Loop
<1>2. Head(<<Loop(-2)>>) = Loop(-2) /\ Tail(<<Loop(-2)>>) = << >>
  <2>1. TodoList(Loop(-2), Pair, Pair, Pair)
    BY TodoIs
  <2> QED
    BY <2>1, Zenon DEF TodoList
<1>3. c.todo = <<Loop(-2)>> /\ [c EXCEPT !.todo = Tail(c.todo)] = e
  <2> HIDE DEF src
  <2>1. c.todo = <<Loop(-2)>> /\ \A t : [c EXCEPT !.todo = t] = CopyOver(src, dst, t)
    BY DEF CopyOver
  <2> HIDE DEF c
  <2> QED
    BY <1>2, <2>1
<1>4. CopyStep(c) = lua_next(e, -2)
  <2> DEFINE d == [c EXCEPT !.todo = Tail(c.todo)]
  <2>1. CopyStep(c) = CASE Head(c.todo).do = "copy" -> CopySlot(d, Head(c.todo).index)
                        [] Head(c.todo).do = "loop" -> lua_next(d, Head(c.todo).index)
                        [] Head(c.todo).do = "pair" -> lua_pop(lua_settable(d), 1)
    BY Zenon DEF CopyStep
  <2> HIDE DEF c, d, e
  <2> QED
    BY <1>1, <1>2, <1>3, <2>1 DEF d
<1>5. /\ Slot(src, -2) = v /\ InStack(src, -2) /\ Last(src) = key /\ Front(src) = Append(s, v)
  <2>1. IsSeq(Append(s, v))
    BY Pushed
  <2> HIDE DEF key
  <2>2. Slot(src, -2) = v /\ InStack(src, -2)
    <3>1. Uppermost(s, v, key, key)
      BY Slots
    <3> QED
      BY <3>1, Zenon DEF Uppermost
  <2>3. Last(src) = key /\ Front(src) = Append(s, v)
    BY <2>1, Pushed, Zenon
  <2> QED
    BY <2>2, <2>3
<1>6. e.src = src /\ e.dst = dst /\ e.status = "ok" /\ e.todo = << >> /\ v.type = "table"
  BY TableIs DEF CopyOver, Flat
<1>7. place = j + 1
  BY PlaceIs
<1>8. lua_next(e, -2) =
        IF place > Len(v.pairs) THEN lua_pop([e EXCEPT !.src = Front(e.src)], 1)
        ELSE [e EXCEPT !.src = Front(e.src) \o v.pairs[place],
                       !.todo = PairCopied \o <<Loop(-2)>> \o e.todo]
  <2>1. lua_next(e, -2) =
          IF ~InStack(e.src, -2) \/ Slot(e.src, -2).type # "table"
          THEN [e EXCEPT !.status = "undefined"]
          ELSE LET pairs == Slot(e.src, -2).pairs
                   k     == Last(e.src)
                   p     == IF k = Nil THEN 1 ELSE Place(pairs, k) + 1
               IN  IF p > Len(pairs) THEN lua_pop([e EXCEPT !.src = Front(e.src)], 1)
                   ELSE [e EXCEPT !.src = Front(e.src) \o pairs[p],
                                  !.todo = PairCopied \o <<Loop(-2)>> \o e.todo]
    BY Zenon DEF lua_next
  <2> HIDE DEF e, src, key
  <2> QED
    BY <1>5, <1>6, <2>1
<1>9. Len(v.pairs) \in Nat
  BY DEF Flat, IsSeq
<1>10. CASE j = Len(v.pairs)
  <2>1. place > Len(v.pairs)
    BY <1>7, <1>9, <1>10
  <2>2. [e EXCEPT !.src = Front(e.src)] = CopyOver(Append(s, v), dst, << >>)
    <3>1. \A t : [e EXCEPT !.src = t] = CopyOver(t, dst, << >>)
      BY DEF CopyOver
    <3> HIDE DEF e, src
    <3> QED
      BY <1>5, <1>6, <3>1
  <2>3. lua_pop(CopyOver(Append(s, v), dst, << >>), 1) = CopyOver(s, dst, << >>)
    <3> DEFINE t == Append(s, v)
               f == CopyOver(t, dst, << >>)
    <3>1. Len(t) \in Nat /\ Len(t) >= 1 /\ SubSeq(t, 1, Len(t) - 1) = s
      <4>1. Len(s) \in Nat /\ Len(t) = Len(s) + 1 /\ Front(t) = s
        BY Pushed
      <4> HIDE DEF t
      <4> QED
        BY <4>1 DEF Front
    <3>2. f.src = t /\ \A u : [f EXCEPT !.src = u] = CopyOver(u, dst, << >>)
      BY DEF CopyOver
    <3> HIDE DEF f, t
    <3> QED
      BY <3>1, <3>2 DEF lua_pop, f, t
  <2> HIDE DEF e, place, c
  <2> QED
    BY <1>4, <1>8, <1>10, <2>1, <2>2, <2>3 DEF c
<1>11. CASE j # Len(v.pairs)
  <2>1. ~(place > Len(v.pairs)) /\ j + 1 \in DOMAIN v.pairs
    <3>1. DOMAIN v.pairs = 1..Len(v.pairs)
      BY DEF Flat, IsSeq
    <3> HIDE DEF place
    <3> QED
      BY <1>7, <1>9, <1>11, <3>1
  <2> DEFINE k == v.pairs[j + 1][1]
             l == v.pairs[j + 1][2]
             t == Append(Append(Append(s, v), k), l)
  <2>2. Append(s, v) \o v.pairs[place] = t
    <3>1. v.pairs[place] = <<k, l>>
      <4> HIDE DEF place
      <4> QED
        BY <1>7, <2>1 DEF Flat, FlatPair
    <3>2. IsSeq(Append(s, v))
      BY Pushed
    <3> HIDE DEF k, l, place
    <3> DEFINE a == Append(s, v)
    <3>3. PICK V : a \in Seq(V)
      BY <3>2 DEF IsSeq
    <3> HIDE DEF a
    <3>4. a \o <<k, l>> = Append(Append(a, k), l)
      BY <3>3
    <3> QED
      BY <3>1, <3>4 DEF a
  <2>3. PairCopied \o <<Loop(-2)>> \o << >> = <<Copy(-2), Copy(-1), Pair, Loop(-2)>>
    <3>1. TodoList(Copy(-2), Copy(-1), Pair, Loop(-2))
      BY TodoIs
    <3> QED
      BY <3>1, Zenon DEF PairCopied, TodoList
  <2>4. \A u, w : [e EXCEPT !.src = u, !.todo = w] = CopyOver(u, dst, w)
    <3> HIDE DEF src
    <3>1. \A u : [e EXCEPT !.src = u] = CopyOver(u, dst, << >>)
      BY DEF CopyOver
    <3>2. \A u, w : [CopyOver(u, dst, << >>) EXCEPT !.todo = w] = CopyOver(u, dst, w)
      BY DEF CopyOver
    <3> HIDE DEF e
    <3> QED
      BY <3>1, <3>2, Zenon
  <2> HIDE DEF e, place, c, src, t
  <2>5. CopyStep(c) = [e EXCEPT !.src = Append(s, v) \o v.pairs[place],
                                !.todo = PairCopied \o <<Loop(-2)>> \o << >>]
    BY <1>4, <1>5, <1>6, <1>8, <2>1
  <2>6. CopyStep(c) = CopyOver(t, dst, <<Copy(-2), Copy(-1), Pair, Loop(-2)>>)
    BY <2>2, <2>3, <2>4, <2>5
  <2> QED
    BY <1>11, <2>6 DEF c, src, t
<1> QED
  BY <1>10, <1>11
\* The three uppermost slots, and what is below them.
TopThree(s, a, b, c) ==
    LET t == Append(Append(Append(s, a), b), c)
        n == Len(t)
    IN  t[n - 2] = a /\ t[n - 1] = b /\ t[n] = c /\ SubSeq(t, 1, n - 3) = s

LEMMA TopThreeIs ==
    ASSUME NEW s, IsSeq(s), NEW a, NEW b, NEW c
    PROVE  TopThree(s, a, b, c)
<1>1. PICK V : s \in Seq(V)
  BY DEF IsSeq
<1> DEFINE W == V \cup {a, b, c}
           t == Append(Append(Append(s, a), b), c)
<1>2. s \in Seq(W) /\ a \in W /\ b \in W /\ c \in W
  BY <1>1
<1> HIDE DEF W
<1>3. /\ t \in Seq(W) /\ Len(s) \in Nat /\ Len(t) = Len(s) + 3
      /\ t[Len(s) + 1] = a /\ t[Len(s) + 2] = b /\ t[Len(s) + 3] = c
      /\ \A k \in 1..Len(s) : t[k] = s[k]
  BY <1>2
<1> HIDE DEF t
<1>4. SubSeq(t, 1, Len(t) - 3) = s
  <2>1. Len(t) - 3 = Len(s)
    BY <1>3
  <2>2. SubSeq(t, 1, Len(s)) \in Seq(W) /\ Len(SubSeq(t, 1, Len(s))) = Len(s)
        /\ \A k \in 1..Len(s) : SubSeq(t, 1, Len(s))[k] = t[k]
    BY <1>3
  <2>3. SubSeq(t, 1, Len(s)) = s
    BY <1>2, <1>3, <2>2, SeqEqual
  <2> QED
    BY <2>1, <2>3
<1>5. Len(t) - 2 = Len(s) + 1 /\ Len(t) - 1 = Len(s) + 2
  BY <1>3
<1> QED
  BY <1>3, <1>4, <1>5 DEF TopThree, t

SetsPair(s, top, dst, pairs, key, value) ==
    CopyStep(CopyOver(Append(s, top),
                      Append(Append(Append(dst, Table(pairs)), key), value), <<Pair, Loop(-2)>>)) =
      CopyOver(s, Append(dst, Table(Append(pairs, <<key, value>>))), <<Loop(-2)>>)

LEMMA PairStep ==
    ASSUME NEW s, IsSeq(s), NEW top, NEW dst, IsSeq(dst), NEW pairs, NEW key, NEW value
    PROVE  SetsPair(s, top, dst, pairs, key, value)
<1> DEFINE src == Append(s, top)
           full == Append(Append(Append(dst, Table(pairs)), key), value)
           set == Append(dst, Table(Append(pairs, <<key, value>>)))
           c == CopyOver(src, full, <<Pair, Loop(-2)>>)
           e == CopyOver(src, full, <<Loop(-2)>>)
<1>1. Pair.do = "pair"
  BY DEF Pair
<1>2. Head(<<Pair, Loop(-2)>>) = Pair /\ Tail(<<Pair, Loop(-2)>>) = <<Loop(-2)>>
  <2>1. TodoList(Pair, Pair, Pair, Loop(-2))
    BY TodoIs
  <2> QED
    BY <2>1, Zenon DEF TodoList
<1>3. c.todo = <<Pair, Loop(-2)>> /\ [c EXCEPT !.todo = Tail(c.todo)] = e
  <2> HIDE DEF src, full
  <2> DEFINE todo == <<Pair, Loop(-2)>>
  <2>1. Tail(todo) = <<Loop(-2)>>
    BY <1>2
  <2> HIDE DEF todo
  <2>2. c.todo = todo /\ \A t : [c EXCEPT !.todo = t] = CopyOver(src, full, t)
    BY DEF CopyOver, todo
  <2> HIDE DEF c
  <2> QED
    BY <2>1, <2>2 DEF todo
<1>4. CopyStep(c) = lua_pop(lua_settable(e), 1)
  <2> DEFINE d == [c EXCEPT !.todo = Tail(c.todo)]
  <2>1. CopyStep(c) = CASE Head(c.todo).do = "copy" -> CopySlot(d, Head(c.todo).index)
                        [] Head(c.todo).do = "loop" -> lua_next(d, Head(c.todo).index)
                        [] Head(c.todo).do = "pair" -> lua_pop(lua_settable(d), 1)
    BY Zenon DEF CopyStep
  <2> HIDE DEF c, d, e
  <2> QED
    BY <1>1, <1>2, <1>3, <2>1 DEF d
<1>5. lua_settable(e) = CopyOver(src, set, <<Loop(-2)>>)
  <2> HIDE DEF src
  <2>1. e.dst = full /\ \A t : [e EXCEPT !.dst = t] = CopyOver(src, t, <<Loop(-2)>>)
    <3> HIDE DEF full
    <3> QED
      BY DEF CopyOver
  <2> DEFINE n == Len(full)
  <2>2. full[n - 2] = Table(pairs) /\ full[n - 1] = key /\ full[n] = value
        /\ SubSeq(full, 1, n - 3) = dst
    <3>1. TopThree(dst, Table(pairs), key, value)
      BY TopThreeIs
    <3> QED
      BY <3>1, Zenon DEF TopThree
  <2>3. Table(pairs).pairs = pairs
    BY TableIs
  <2>4. lua_settable(e) =
          [e EXCEPT !.dst = Append(SubSeq(e.dst, 1, Len(e.dst) - 3),
                                   Table(Append(e.dst[Len(e.dst) - 2].pairs,
                                                <<e.dst[Len(e.dst) - 1], e.dst[Len(e.dst)]>>)))]
    BY Zenon DEF lua_settable
  <2> HIDE DEF e, full, n
  <2> QED
    BY ZenonT(60), <2>1, <2>2, <2>3, <2>4 DEF n
<1>6. lua_pop(CopyOver(src, set, <<Loop(-2)>>), 1) = CopyOver(s, set, <<Loop(-2)>>)
  <2> HIDE DEF set
  <2> DEFINE f == CopyOver(src, set, <<Loop(-2)>>)
  <2>1. Len(src) \in Nat /\ Len(src) >= 1 /\ SubSeq(src, 1, Len(src) - 1) = s
    <3>1. Len(s) \in Nat /\ Len(src) = Len(s) + 1 /\ Front(src) = s
      BY Pushed
    <3> HIDE DEF src
    <3> QED
      BY <3>1 DEF Front
  <2> HIDE DEF src
  <2>2. f.src = src /\ \A u : [f EXCEPT !.src = u] = CopyOver(u, set, <<Loop(-2)>>)
    BY DEF CopyOver
  <2> HIDE DEF f
  <2> QED
    BY <2>1, <2>2 DEF lua_pop, f
<1> HIDE DEF c, set
<1> QED
  BY <1>4, <1>5, <1>6 DEF SetsPair, c, set
LEMMA CopiedPairsGrow ==
    ASSUME NEW pairs, NEW n \in Nat
    PROVE  CopiedPairs(pairs, n + 1) =
             Append(CopiedPairs(pairs, n), <<PlainCopy(pairs[n + 1][1]), PlainCopy(pairs[n + 1][2])>>)
<1> DEFINE e(k) == <<PlainCopy(pairs[k][1]), PlainCopy(pairs[k][2])>>
           V == {e(k) : k \in 1..(n + 1)}
           s == [k \in 1..n |-> e(k)]
           t == [k \in 1..(n + 1) |-> e(k)]
<1>1. CopiedPairs(pairs, n) = s /\ CopiedPairs(pairs, n + 1) = t
  BY Zenon DEF CopiedPairs
<1> HIDE DEF e
<1>2. \A k \in 1..(n + 1) : e(k) \in V
  OBVIOUS
<1> HIDE DEF V
<1>3. s \in Seq(V) /\ t \in Seq(V) /\ Len(s) = n /\ Len(t) = n + 1
  BY <1>2
<1>4. (\A k \in 1..n : s[k] = e(k)) /\ (\A k \in 1..(n + 1) : t[k] = e(k))
  OBVIOUS
<1> HIDE DEF s, t
<1>5. Append(s, e(n + 1)) \in Seq(V) /\ Len(Append(s, e(n + 1))) = n + 1
      /\ \A k \in 1..(n + 1) : Append(s, e(n + 1))[k] = t[k]
  BY <1>2, <1>3, <1>4
<1>6. t = Append(s, e(n + 1))
  BY <1>3, <1>5, SeqEqual
<1> QED
  BY <1>1, <1>6 DEF e

\* A copy of a table, v on stack s, with j of its pairs copied.
Within(s, v, dst, j) ==
    CopyOver(Append(Append(s, v), KeyAt(v.pairs, j)),
             Append(dst, Table(CopiedPairs(v.pairs, j))), <<Loop(-2)>>)

\* Four steps from the m-th on copy a pair.
PairTaken(step, m, s, v, dst, j) ==
    /\ step[m + 4] = Within(s, v, dst, j + 1)
    /\ \A k \in {m, m + 1, m + 2, m + 3} : ~Copied(step[k])

LEMMA RoundTrip ==
    ASSUME NEW s, IsSeq(s), NEW v, Flat(v), NEW dst, IsSeq(dst), NEW j \in 0..Len(v.pairs),
           j # Len(v.pairs), NEW step, \A k \in Nat : step[k + 1] = CopyStep(step[k]),
           NEW m \in Nat, step[m] = Within(s, v, dst, j)
    PROVE  PairTaken(step, m, s, v, dst, j)
<1> DEFINE key == v.pairs[j + 1][1]
           value == v.pairs[j + 1][2]
           table == Table(CopiedPairs(v.pairs, j))
           base == Append(Append(s, v), key)
           src == Append(base, value)
           d0 == Append(dst, table)
           d1 == Append(d0, PlainCopy(key))
           d2 == Append(d1, PlainCopy(value))
<1>1. /\ Len(v.pairs) \in Nat /\ j + 1 \in DOMAIN v.pairs /\ j \in Nat
  <2> DEFINE n == Len(v.pairs)
  <2>1. IsSeq(v.pairs)
    BY DEF Flat
  <2>2. PICK V : v.pairs \in Seq(V)
    BY <2>1 DEF IsSeq
  <2>3. n \in Nat /\ DOMAIN v.pairs = 1..n
    BY ONLY <2>2
  <2>4. j \in 0..n /\ j # n
    OBVIOUS
  <2> HIDE DEF n
  <2>5. n \in Nat /\ j + 1 \in 1..n /\ j \in Nat
    BY ONLY <2>3, <2>4
  <2> QED
    BY <2>3, <2>5 DEF n
<1>2. Plain(key) /\ Plain(value)
  BY <1>1 DEF Flat, FlatPair
<1>3. step[m + 1] = CopyStep(step[m]) /\ step[m + 2] = CopyStep(step[m + 1])
      /\ step[m + 3] = CopyStep(step[m + 2]) /\ step[m + 4] = CopyStep(step[m + 3])
  <2>1. m + 1 \in Nat /\ m + 2 \in Nat /\ m + 3 \in Nat /\ (m + 1) + 1 = m + 2
        /\ (m + 2) + 1 = m + 3 /\ (m + 3) + 1 = m + 4
    OBVIOUS
  <2> QED
    BY <2>1
<1>4. IsSeq(Append(s, v)) /\ IsSeq(base)
  <2>1. IsSeq(Append(s, v))
    BY Pushed
  <2> HIDE DEF key
  <2> QED
    BY <2>1, Pushed
<1>5. Slot(src, -2) = key /\ Slot(src, -1) = value
  <2>1. Uppermost(Append(s, v), key, value, value)
    BY <1>4, Slots
  <2> QED
    BY <2>1, Zenon DEF Uppermost
<1>6. TodoList(Copy(-2), Copy(-1), Pair, Loop(-2))
  BY TodoIs
<1>7. step[m + 1] = CopyOver(src, d0, <<Copy(-2), Copy(-1), Pair, Loop(-2)>>)
  <2>1. step[m + 1] = CopyStep(CopyOver(Append(Append(s, v), KeyAt(v.pairs, j)), d0, <<Loop(-2)>>))
    BY <1>3, Zenon DEF Within
  <2> HIDE DEF d0
  <2> QED
    BY ZenonT(60), <2>1, LoopStep
<1>8. step[m + 2] = CopyOver(src, d1, <<Copy(-1), Pair, Loop(-2)>>)
  <2> DEFINE todo == <<Copy(-2), Copy(-1), Pair, Loop(-2)>>
             rest == <<Copy(-1), Pair, Loop(-2)>>
  <2>1. Head(todo) = Copy(-2) /\ Tail(todo) = rest
    BY <1>6, Zenon DEF TodoList
  <2> HIDE DEF todo, rest, src, d0, key
  <2>2. CopyStep(CopyOver(src, d0, todo)) = CopyOver(src, Append(d0, PlainCopy(key)), rest)
    <3>1. CopiesPlain(src, d0, todo, -2, key)
      BY <1>2, <1>5, <2>1, PlainStep
    <3> QED
      BY <2>1, <3>1, Zenon DEF CopiesPlain
  <2> QED
    BY <1>3, <1>7, <2>2 DEF todo, rest
<1>9. step[m + 3] = CopyOver(src, d2, <<Pair, Loop(-2)>>)
  <2> DEFINE todo == <<Copy(-1), Pair, Loop(-2)>>
             rest == <<Pair, Loop(-2)>>
  <2>1. Head(todo) = Copy(-1) /\ Tail(todo) = rest
    BY <1>6, Zenon DEF TodoList
  <2> HIDE DEF todo, rest, src, d1, value
  <2>2. CopyStep(CopyOver(src, d1, todo)) = CopyOver(src, Append(d1, PlainCopy(value)), rest)
    <3>1. CopiesPlain(src, d1, todo, -1, value)
      BY <1>2, <1>5, <2>1, PlainStep
    <3> QED
      BY <2>1, <3>1, Zenon DEF CopiesPlain
  <2> QED
    BY <1>3, <1>8, <2>2 DEF todo, rest
<1>10. step[m + 4] = CopyOver(base, Append(dst, Table(Append(CopiedPairs(v.pairs, j),
                                                  <<PlainCopy(key), PlainCopy(value)>>))), <<Loop(-2)>>)
  <2> DEFINE a == PlainCopy(key)
             b == PlainCopy(value)
             pairs == CopiedPairs(v.pairs, j)
  <2> HIDE DEF base, a, b, value, pairs
  <2>1. CopyStep(CopyOver(Append(base, value), Append(Append(Append(dst, Table(pairs)), a), b),
                          <<Pair, Loop(-2)>>)) =
          CopyOver(base, Append(dst, Table(Append(pairs, <<a, b>>))), <<Loop(-2)>>)
    <3>1. SetsPair(base, value, dst, pairs, a, b)
      BY <1>4, PairStep
    <3> QED
      BY <3>1, Zenon DEF SetsPair
  <2> QED
    BY <1>3, <1>9, <2>1, Zenon DEF a, b, pairs
<1>11. step[m + 4] = Within(s, v, dst, j + 1)
  <2>1. KeyAt(v.pairs, j + 1) = key
    <3>1. j + 1 # 0
      BY <1>1
    <3> QED
      BY <3>1, Zenon DEF KeyAt
  <2>2. CopiedPairs(v.pairs, j + 1) =
          Append(CopiedPairs(v.pairs, j), <<PlainCopy(key), PlainCopy(value)>>)
    BY <1>1, CopiedPairsGrow, Zenon
  <2> QED
    BY <1>10, <2>1, <2>2, Zenon DEF Within
<1>12. \A k \in {m, m + 1, m + 2, m + 3} : ~Copied(step[k])
  <2>1. \A a, b, t : t # << >> => ~Copied(CopyOver(a, b, t))
    BY DEF Copied, CopyOver
  <2>2. TodoList(Loop(-2), Copy(-1), Pair, Loop(-2)) /\ TodoList(Pair, Copy(-1), Pair, Loop(-2))
    BY TodoIs
  <2>3. <<Loop(-2)>> # << >> /\ <<Copy(-2), Copy(-1), Pair, Loop(-2)>> # << >>
        /\ <<Copy(-1), Pair, Loop(-2)>> # << >> /\ <<Pair, Loop(-2)>> # << >>
    BY <1>6, <2>2, Zenon DEF TodoList
  <2>4. ~Copied(step[m]) /\ ~Copied(step[m + 1]) /\ ~Copied(step[m + 2]) /\ ~Copied(step[m + 3])
    BY <1>7, <1>8, <1>9, <2>1, <2>3, Zenon DEF Within
  <2> QED
    BY <2>4
<1> QED
  BY <1>11, <1>12, Zenon DEF PairTaken
\* A copy that is over at once after its first step.
LEMMA OverAtOnce ==
    ASSUME NEW src, NEW dst, NEW c, CopyStep(CopyOver(src, dst, <<Copy(-1)>>)) = c, Copied(c)
    PROVE  script_copy_value(src, dst) = c
<1>1. PICK step, end : Runs(step, end, src, dst) /\ script_copy_value(src, dst) = end[0]
  BY CopyRuns
<1>2. /\ step[0] = CopyOver(src, dst, <<Copy(-1)>>) /\ step[1] = CopyStep(step[0])
      /\ end[0] = IF Copied(step[0]) THEN step[0] ELSE end[1]
      /\ end[1] = IF Copied(step[1]) THEN step[1] ELSE end[2]
  <2>1. 0 \in Nat /\ 1 \in Nat /\ 0 + 1 = 1 /\ 1 + 1 = 2
    OBVIOUS
  <2> QED
    BY <1>1, <2>1 DEF Runs
<1>3. ~Copied(step[0])
  <2>1. \A t : t # << >> => ~Copied(CopyOver(src, dst, t))
    BY DEF Copied, CopyOver
  <2>2. TodoList(Copy(-1), Pair, Pair, Pair)
    BY TodoIs
  <2>3. <<Copy(-1)>> # << >>
    BY <2>2, Zenon DEF TodoList
  <2> QED
    BY <1>2, <2>1, <2>3, Zenon
<1> QED
  BY <1>1, <1>2, <1>3

CopyOnce(src, dst, v) == script_copy_value(src, dst) = CopyOver(src, Append(dst, PlainCopy(v)), << >>)

LEMMA PlainCopied ==
    ASSUME NEW s, IsSeq(s), NEW dst, NEW v, Plain(v)
    PROVE  CopyOnce(Append(s, v), dst, v)
<1> DEFINE src == Append(s, v)
           todo == <<Copy(-1)>>
<1>1. Slot(src, -1) = v
  <2>1. Uppermost(s, v, v, v)
    BY Slots
  <2> QED
    BY <2>1, Zenon DEF Uppermost
<1>2. Head(todo) = Copy(-1) /\ Tail(todo) = << >>
  <2>1. TodoList(Copy(-1), Pair, Pair, Pair)
    BY TodoIs
  <2> QED
    BY <2>1, Zenon DEF TodoList
<1> HIDE DEF src, todo
<1>3. CopyStep(CopyOver(src, dst, todo)) = CopyOver(src, Append(dst, PlainCopy(v)), << >>)
  <2>1. CopiesPlain(src, dst, todo, -1, v)
    BY <1>1, <1>2, PlainStep
  <2> QED
    BY <1>2, <2>1, Zenon DEF CopiesPlain
<1>4. \A d : Copied(CopyOver(src, d, << >>))
  BY DEF Copied, CopyOver
<1> QED
  BY <1>3, <1>4, OverAtOnce DEF CopyOnce, src, todo

\* Other values are refused.
Rejected(v) == v.type \notin Simple \cup {"table"}

CopyRefused(src, dst) ==
    /\ script_copy_value(src, dst).status = "error"
    /\ script_copy_value(src, dst).src = src /\ script_copy_value(src, dst).dst = dst

LEMMA OtherRefused ==
    ASSUME NEW s, IsSeq(s), NEW dst, NEW v, Rejected(v)
    PROVE  CopyRefused(Append(s, v), dst)
<1> DEFINE src == Append(s, v)
           todo == <<Copy(-1)>>
           c == CopyOver(src, dst, todo)
           d == [c EXCEPT !.todo = Tail(c.todo)]
           e == CopyOver(src, dst, << >>)
           f == [e EXCEPT !.status = "error"]
<1>1. Slot(src, -1) = v
  <2>1. Uppermost(s, v, v, v)
    BY Slots
  <2> QED
    BY <2>1, Zenon DEF Uppermost
<1>2. Head(todo) = Copy(-1) /\ Tail(todo) = << >> /\ Copy(-1).do = "copy" /\ Copy(-1).index = -1
  <2>1. TodoList(Copy(-1), Pair, Pair, Pair)
    BY TodoIs
  <2>2. Head(todo) = Copy(-1) /\ Tail(todo) = << >>
    BY <2>1, Zenon DEF TodoList
  <2>3. Copy(-1).do = "copy" /\ Copy(-1).index = -1
    BY DEF Copy
  <2> QED
    BY <2>2, <2>3
<1> HIDE DEF src, todo
<1>3. c.todo = todo /\ d = e
  <2>1. c.todo = todo /\ \A t : [c EXCEPT !.todo = t] = CopyOver(src, dst, t)
    BY DEF CopyOver
  <2> HIDE DEF c, e
  <2> QED
    BY <1>2, <2>1 DEF e
<1>4. CopyStep(c) = CASE Head(c.todo).do = "copy" -> CopySlot(d, Head(c.todo).index)
                      [] Head(c.todo).do = "loop" -> lua_next(d, Head(c.todo).index)
                      [] Head(c.todo).do = "pair" -> lua_pop(lua_settable(d), 1)
  BY Zenon DEF CopyStep
<1>5. e.src = src /\ f.src = src /\ f.dst = dst /\ f.status = "error"
  BY DEF CopyOver
<1> HIDE DEF c, d, e
<1>6. CopyStep(c) = CopySlot(e, -1)
  BY <1>2, <1>3, <1>4
<1>7. CopySlot(e, -1) = f
  <2>1. v.type \notin {"boolean", "nil", "number"} /\ v.type # "string" /\ v.type # "table"
    BY DEF Rejected, Simple
  <2> QED
    BY <1>1, <1>5, <2>1 DEF CopySlot
<1> HIDE DEF f
<1>8. Copied(f)
  BY <1>5 DEF Copied
<1>9. script_copy_value(src, dst) = f
  BY <1>6, <1>7, <1>8, OverAtOnce DEF c, todo
<1> QED
  BY <1>5, <1>9 DEF CopyRefused, src
\* A table is opened on both sides.
LEMMA TableStep ==
    ASSUME NEW s, IsSeq(s), NEW v, Flat(v), NEW dst
    PROVE  CopyStep(CopyOver(Append(s, v), dst, <<Copy(-1)>>)) = Within(s, v, dst, 0)
<1> DEFINE src == Append(s, v)
           todo == <<Copy(-1)>>
           c == CopyOver(src, dst, todo)
           d == [c EXCEPT !.todo = Tail(c.todo)]
           e == CopyOver(src, dst, << >>)
<1>1. Slot(src, -1) = v
  <2>1. Uppermost(s, v, v, v)
    BY Slots
  <2> QED
    BY <2>1, Zenon DEF Uppermost
<1>2. Head(todo) = Copy(-1) /\ Tail(todo) = << >> /\ Copy(-1).do = "copy" /\ Copy(-1).index = -1
  <2>1. TodoList(Copy(-1), Pair, Pair, Pair)
    BY TodoIs
  <2>2. Head(todo) = Copy(-1) /\ Tail(todo) = << >>
    BY <2>1, Zenon DEF TodoList
  <2>3. Copy(-1).do = "copy" /\ Copy(-1).index = -1
    BY DEF Copy
  <2> QED
    BY <2>2, <2>3
<1>3. <<Loop(-2)>> \o << >> = <<Loop(-2)>>
  <2>1. TodoList(Loop(-2), Pair, Pair, Pair)
    BY TodoIs
  <2> QED
    BY <2>1, Zenon DEF TodoList
<1> HIDE DEF src, todo
<1>4. c.todo = todo /\ d = e
  <2>1. c.todo = todo /\ \A t : [c EXCEPT !.todo = t] = CopyOver(src, dst, t)
    BY DEF CopyOver
  <2> HIDE DEF c, e
  <2> QED
    BY <1>2, <2>1 DEF e
<1>5. CopyStep(c) = CASE Head(c.todo).do = "copy" -> CopySlot(d, Head(c.todo).index)
                      [] Head(c.todo).do = "loop" -> lua_next(d, Head(c.todo).index)
                      [] Head(c.todo).do = "pair" -> lua_pop(lua_settable(d), 1)
  BY Zenon DEF CopyStep
<1>6. e.src = src /\ e.dst = dst /\ e.todo = << >>
  BY DEF CopyOver
<1>7. \A a, b, t : [e EXCEPT !.src = a, !.dst = b, !.todo = t] = CopyOver(a, b, t)
  <2> TAKE a, b, t
  <2>1. [e EXCEPT !.src = a] = CopyOver(a, dst, << >>)
    BY DEF CopyOver
  <2>2. [CopyOver(a, dst, << >>) EXCEPT !.dst = b] = CopyOver(a, b, << >>)
    BY DEF CopyOver
  <2>3. [CopyOver(a, b, << >>) EXCEPT !.todo = t] = CopyOver(a, b, t)
    BY DEF CopyOver
  <2> HIDE DEF e
  <2> QED
    BY <2>1, <2>2, <2>3, Zenon
<1> HIDE DEF c, d, e
<1>8. CopyStep(c) = CopySlot(e, -1)
  BY <1>2, <1>4, <1>5
<1> DEFINE a == Append(src, Nil)
           b == Append(dst, Table(<< >>))
           t == <<Loop(-2)>>
<1>9. CopySlot(e, -1) = [e EXCEPT !.src = Append(e.src, Nil), !.dst = Append(e.dst, Table(<< >>)),
                                  !.todo = <<Loop(-1 - 1)>> \o e.todo]
  <2> DEFINE w == [e EXCEPT !.src = Append(e.src, Nil), !.dst = Append(e.dst, Table(<< >>)),
                            !.todo = <<Loop(-1 - 1)>> \o e.todo]
             w1 == [e EXCEPT !.dst = Append(e.dst, Slot(e.src, -1))]
             w2 == [e EXCEPT !.dst = Append(e.dst, String(CString(Slot(e.src, -1).text)))]
             w3 == [e EXCEPT !.status = "error"]
  <2>1. CopySlot(e, -1) =
          CASE Slot(e.src, -1).type \in {"boolean", "nil", "number"} -> w1
            [] Slot(e.src, -1).type = "string" -> w2
            [] Slot(e.src, -1).type = "table" -> w
            [] OTHER -> w3
    BY Zenon DEF CopySlot
  <2>2. Slot(e.src, -1).type = "table"
    BY <1>1, <1>6, TableIs DEF Flat
  <2> HIDE DEF w, w1, w2, w3
  <2>3. CopySlot(e, -1) = w
    BY <2>1, <2>2
  <2> QED
    BY <2>3 DEF w
<1>10. CopySlot(e, -1) = CopyOver(a, b, t)
  <2>1. -1 - 1 = -2
    OBVIOUS
  <2>2. <<Loop(-1 - 1)>> \o e.todo = t
    BY <1>3, <1>6, <2>1
  <2>3. Append(e.src, Nil) = a /\ Append(e.dst, Table(<< >>)) = b
    BY <1>6
  <2> HIDE DEF a, b, t
  <2> QED
    BY <1>7, <1>9, <2>2, <2>3, Zenon
<1>11. KeyAt(v.pairs, 0) = Nil /\ CopiedPairs(v.pairs, 0) = << >>
  BY DEF KeyAt, CopiedPairs
<1> QED
  BY <1>8, <1>10, <1>11, Zenon DEF Within, c, src, todo

CopyTable(s, dst, v) ==
    script_copy_value(Append(s, v), dst) = CopyOver(s, Append(dst, CopyOf(v)), << >>)

\* A table is copied, and taken off the stack it was on.
LEMMA FlatCopied ==
    ASSUME NEW s, IsSeq(s), NEW v, Flat(v), NEW dst, IsSeq(dst)
    PROVE  CopyTable(s, dst, v)
<1> DEFINE src == Append(s, v)
           n == Len(v.pairs)
<1>1. PICK step, end : Runs(step, end, src, dst) /\ script_copy_value(src, dst) = end[0]
  BY CopyRuns
<1>2. /\ \A k \in Nat : step[k + 1] = CopyStep(step[k])
      /\ \A k \in Nat : end[k] = IF Copied(step[k]) THEN step[k] ELSE end[k + 1]
      /\ step[0] = CopyOver(src, dst, <<Copy(-1)>>)
  BY <1>1 DEF Runs
<1>3. \A a, b, t : t # << >> => ~Copied(CopyOver(a, b, t))
  BY DEF Copied, CopyOver
<1>4. n \in Nat
  <2>1. PICK V : v.pairs \in Seq(V)
    BY DEF Flat, IsSeq
  <2> QED
    BY ONLY <2>1
<1>5. step[1] = Within(s, v, dst, 0) /\ end[0] = end[1]
  <2>1. TodoList(Copy(-1), Pair, Pair, Pair)
    BY TodoIs
  <2>2. <<Copy(-1)>> # << >>
    BY <2>1, Zenon DEF TodoList
  <2>3. ~Copied(step[0])
    BY <1>2, <1>3, <2>2, Zenon
  <2>4. 0 \in Nat /\ 0 + 1 = 1
    OBVIOUS
  <2>5. step[1] = CopyStep(step[0]) /\ end[0] = end[1]
    BY <1>2, <2>3, <2>4
  <2>6. CopyStep(CopyOver(src, dst, <<Copy(-1)>>)) = Within(s, v, dst, 0)
    BY TableStep
  <2> QED
    BY <1>2, <2>5, <2>6, Zenon
<1> HIDE DEF n, src
<1> DEFINE G(j) == step[4 * j + 1] = Within(s, v, dst, j) /\ end[4 * j + 1] = end[0]
           T == {j \in 0..n : ~G(j)}
<1>6. ASSUME NEW j \in 0..n, j # n, G(j)
      PROVE  G(j + 1)
  <2> DEFINE m == 4 * j + 1
  <2>1. m \in Nat /\ m + 1 \in Nat /\ m + 2 \in Nat /\ m + 3 \in Nat
        /\ 4 * (j + 1) + 1 = m + 4 /\ (m + 1) + 1 = m + 2 /\ (m + 2) + 1 = m + 3
        /\ (m + 3) + 1 = m + 4
    BY <1>4
  <2>2. step[m] = Within(s, v, dst, j) /\ end[m] = end[0]
    BY <1>6
  <2> HIDE DEF m
  <2>3. /\ step[m + 4] = Within(s, v, dst, j + 1)
        /\ \A k \in {m, m + 1, m + 2, m + 3} : ~Copied(step[k])
    <3>1. j \in 0..Len(v.pairs) /\ j # Len(v.pairs)
      BY <1>6 DEF n
    <3> HIDE DEF G
    <3>2. PairTaken(step, m, s, v, dst, j)
      BY <1>2, <2>1, <2>2, <3>1, RoundTrip
    <3> QED
      BY <3>2, Zenon DEF PairTaken
  <2>4. end[m] = end[m + 1] /\ end[m + 1] = end[m + 2] /\ end[m + 2] = end[m + 3]
        /\ end[m + 3] = end[m + 4]
    <3>1. ~Copied(step[m]) /\ ~Copied(step[m + 1]) /\ ~Copied(step[m + 2]) /\ ~Copied(step[m + 3])
      BY <2>3
    <3> QED
      BY <1>2, <2>1, <3>1
  <2> QED
    BY <2>1, <2>2, <2>3, <2>4
<1>7. G(n)
  <2>1. SUFFICES ASSUME T # {} PROVE FALSE
    BY <1>4
  <2>2. T \subseteq Nat
    BY <1>4
  <2>3. PICK j \in T : \A l \in T : j <= l
    <3> HIDE DEF T
    <3> QED
      BY <2>1, <2>2, LeastOf
  <2>4. j \in 0..n /\ ~G(j)
    OBVIOUS
  <2>5. j # 0
    <3>1. 4 * 0 + 1 = 1
      OBVIOUS
    <3>2. G(0)
      BY <1>5, <3>1
    <3> QED
      BY <2>4, <3>2
  <2>6. j - 1 \in 0..n /\ j - 1 # n /\ ~(j <= j - 1) /\ (j - 1) + 1 = j
    BY <1>4, <2>4, <2>5
  <2> HIDE DEF G
  <2>7. G(j - 1)
    BY <2>3, <2>6
  <2>8. G((j - 1) + 1)
    BY <1>6, <2>6, <2>7
  <2> QED
    BY <2>4, <2>6, <2>8
<1>8. step[(4 * n + 1) + 1] = CopyOver(s, Append(dst, Table(CopiedPairs(v.pairs, n))), << >>)
  <2>1. 4 * n + 1 \in Nat
    BY <1>4
  <2> DEFINE d == Append(dst, Table(CopiedPairs(v.pairs, n)))
  <2>2. step[(4 * n + 1) + 1] = CopyStep(Within(s, v, dst, n))
    BY <1>2, <1>7, <2>1
  <2>3. CopyStep(CopyOver(Append(Append(s, v), KeyAt(v.pairs, n)), d, <<Loop(-2)>>)) =
          CopyOver(s, d, << >>)
    <3>1. n \in 0..Len(v.pairs) /\ n = Len(v.pairs)
      BY <1>4 DEF n
    <3> HIDE DEF d
    <3> QED
      BY <3>1, LoopStep
  <2> QED
    BY <2>2, <2>3, Zenon DEF Within
<1>9. ~Copied(step[4 * n + 1])
  <2>1. TodoList(Loop(-2), Pair, Pair, Pair)
    BY TodoIs
  <2>2. <<Loop(-2)>> # << >>
    BY <2>1, Zenon DEF TodoList
  <2> QED
    BY <1>3, <1>7, <2>2, Zenon DEF Within
<1>10. \A a, b : Copied(CopyOver(a, b, << >>))
  BY DEF Copied, CopyOver
<1>11. end[0] = step[(4 * n + 1) + 1]
  <2>1. 4 * n + 1 \in Nat /\ (4 * n + 1) + 1 \in Nat
    BY <1>4
  <2>2. Copied(step[(4 * n + 1) + 1])
    BY <1>8, <1>10, Zenon
  <2> QED
    BY <1>2, <1>7, <1>9, <2>1, <2>2
<1>12. CopyOf(v) = Table(CopiedPairs(v.pairs, n))
  <2>1. v.type = "table"
    BY TableIs DEF Flat
  <2> QED
    BY <2>1, Zenon DEF CopyOf, n
<1> QED
  BY <1>1, <1>8, <1>11, <1>12, Zenon DEF CopyTable, src
-----------------------------------------------------------------------------
(***************************************************************************)
(* What get and set do with values that are sent.                          *)
(***************************************************************************)
Sendable(v) == Plain(v) \/ Flat(v) \/ Rejected(v)

LEMMA StringIs ==
    ASSUME NEW text
    PROVE  String(text).type = "string" /\ String(text).text = text
<1> DEFINE v(pairs) == Value("string", text, pairs)
<1>1. \A pairs : v(pairs).type = "string" /\ v(pairs).text = text
  BY DEF Value
<1> QED
  BY <1>1, Zenon DEF String

LEMMA OneElement ==
    ASSUME NEW V, NEW s \in Seq(V), NEW k \in 1..Len(s)
    PROVE  SubSeq(s, k, k) = <<s[k]>>
<1> DEFINE t == SubSeq(s, k, k)
           u == <<s[k]>>
<1>1. t \in Seq(V) /\ Len(t) = 1 /\ t[1] = s[k]
  <2>1. t \in Seq(V)
    OBVIOUS
  <2>2. Len(t) = 1
    OBVIOUS
  <2>3. t[1] = s[k]
    OBVIOUS
  <2> QED
    BY <2>1, <2>2, <2>3
<1>2. u \in Seq(V) /\ Len(u) = 1 /\ u[1] = s[k]
  OBVIOUS
<1> HIDE DEF t, u
<1>3. \A i \in 1..Len(t) : t[i] = u[i]
  BY <1>1, <1>2
<1>4. t = u
  BY <1>1, <1>2, <1>3, SeqEqual
<1> QED
  BY <1>4 DEF t, u

\* A string is cut off at its first NUL byte.
LEMMA CStringIs ==
    ASSUME NEW text, IsSeq(text)
    PROVE  IsSeq(CString(text)) /\ NulIn(CString(text)) = {}
<1>1. PICK V : text \in Seq(V)
  BY DEF IsSeq
<1> DEFINE nul(k) == SubSeq(text, k, k) = "|"
           n == Len(text)
<1>2. n \in Nat /\ NulIn(text) = {k \in 1..n : nul(k)}
  <2>1. n \in Nat
    BY ONLY <1>1
  <2>2. NulIn(text) = {k \in 1..Len(text) : SubSeq(text, k, k) = "|"}
    BY DEF NulIn
  <2> QED
    BY <2>1, <2>2
<1>3. CASE NulIn(text) = {}
  BY <1>3 DEF CString
<1>4. CASE NulIn(text) # {}
  <2> DEFINE m == Min(NulIn(text))
             cut == SubSeq(text, 1, m - 1)
  <2>1. CString(text) = cut
    BY <1>4 DEF CString
  <2>2. m \in 1..n /\ \A k \in 1..n : nul(k) => m <= k
    <3>1. NulIn(text) \subseteq Nat
      BY <1>2
    <3>2. m \in NulIn(text) /\ \A k \in NulIn(text) : m <= k
      BY <1>4, <3>1, MinIs
    <3> QED
      BY <1>2, <3>2
  <2> HIDE DEF m
  <2>3. cut \in Seq(V) /\ Len(cut) = m - 1 /\ m - 1 \in Nat
        /\ \A k \in 1..(m - 1) : SubSeq(cut, k, k) = SubSeq(text, k, k)
    <3>1. cut \in Seq(V) /\ Len(cut) = m - 1 /\ m - 1 \in Nat
      BY <1>1, <2>2
    <3>2. ASSUME NEW k \in 1..(m - 1) PROVE SubSeq(cut, k, k) = SubSeq(text, k, k)
      <4>1. k \in 1..Len(cut) /\ k \in 1..n
        BY <1>2, <2>2, <3>1
      <4>2. cut[k] = text[k]
        BY <1>1, <2>2, <3>2
      <4> HIDE DEF cut
      <4>3. SubSeq(cut, k, k) = <<cut[k]>>
        BY <3>1, <4>1, OneElement
      <4>4. SubSeq(text, k, k) = <<text[k]>>
        BY <1>1, <4>1, OneElement
      <4> QED
        BY <4>2, <4>3, <4>4
    <3> QED
      BY <3>1, <3>2
  <2> HIDE DEF cut
  <2>4. NulIn(cut) = {}
    <3>1. \A k \in 1..(m - 1) : k \in 1..n /\ ~(m <= k)
      BY <1>2, <2>2
    <3>2. \A k \in 1..(m - 1) : SubSeq(cut, k, k) # "|"
      BY <2>2, <2>3, <3>1
    <3> QED
      BY <2>3, <3>2 DEF NulIn
  <2> QED
    BY <2>1, <2>3, <2>4 DEF IsSeq
<1> QED
  BY <1>3, <1>4

LEMMA PlainCopyIs ==
    ASSUME NEW v, Plain(v)
    PROVE  /\ Plain(PlainCopy(v)) /\ PlainCopy(PlainCopy(v)) = PlainCopy(v)
           /\ v.type # "table" /\ CopyOf(v) = PlainCopy(v)
           /\ NulIn(v.text) = {} => PlainCopy(v) = v
<1>1. v.type # "table"
  BY DEF Plain, Simple
<1>2. CopyOf(v) = PlainCopy(v)
  BY <1>1, Zenon DEF CopyOf
<1>3. CASE v.type # "string"
  <2>1. PlainCopy(v) = v
    BY <1>3, Zenon DEF PlainCopy
  <2> QED
    BY <1>1, <1>2, <2>1, Zenon
<1>4. CASE v.type = "string"
  <2> DEFINE t == CString(v.text)
  <2>1. PlainCopy(v) = String(t) /\ v = String(v.text)
    BY <1>4, Zenon DEF PlainCopy, Plain
  <2>2. IsSeq(t) /\ NulIn(t) = {}
    BY <1>4, CStringIs, Zenon DEF Plain
  <2>3. NulIn(v.text) = {} => t = v.text
    BY Zenon DEF CString
  <2> HIDE DEF t
  <2>4. String(t).type = "string" /\ String(t).text = t
    BY StringIs
  <2>5. "string" \in Simple
    BY DEF Simple
  <2>6. Plain(String(t))
    BY <2>2, <2>4, <2>5 DEF Plain
  <2>7. CString(t) = t
    BY <2>2, Zenon DEF CString
  <2>8. PlainCopy(String(t)) = String(t)
    BY <2>4, <2>7, Zenon DEF PlainCopy
  <2> QED
    BY <1>1, <1>2, <2>1, <2>3, <2>6, <2>8
<1> QED
  BY <1>3, <1>4

\* The pairs of a table in two copies are the pairs.
LEMMA FlatCopyIs ==
    ASSUME NEW v, Flat(v), ~HasNul(v)
    PROVE  CopyOf(v) = v
<1> DEFINE pairs == v.pairs
           n == Len(pairs)
<1>1. v = Table(pairs) /\ v.type = "table"
  BY TableIs DEF Flat
<1>2. PICK V : pairs \in Seq(V)
  BY DEF Flat, IsSeq
<1>3. \A k \in DOMAIN pairs : FlatPair(pairs[k])
  BY Zenon DEF Flat
<1>4. \A k \in DOMAIN pairs : \A w \in Range(pairs[k]) : NulIn(w.text) = {}
  BY Zenon DEF HasNul
<1>5. CopyOf(v) = Table(CopiedPairs(pairs, n))
  BY <1>1, Zenon DEF CopyOf
<1> HIDE DEF pairs
<1>6. ASSUME NEW k \in DOMAIN pairs
      PROVE  <<PlainCopy(pairs[k][1]), PlainCopy(pairs[k][2])>> = pairs[k]
  <2> DEFINE p == pairs[k]
  <2>1. Plain(p[1]) /\ Plain(p[2]) /\ p = <<p[1], p[2]>>
    BY <1>3 DEF FlatPair
  <2>2. p[1] \in Range(p) /\ p[2] \in Range(p)
    <3> HIDE DEF p
    <3>1. 1 \in DOMAIN p /\ 2 \in DOMAIN p
      BY <2>1
    <3> QED
      BY <3>1 DEF Range
  <2>3. NulIn(p[1].text) = {} /\ NulIn(p[2].text) = {}
    BY <1>4, <2>2
  <2> HIDE DEF p
  <2>4. PlainCopy(p[1]) = p[1] /\ PlainCopy(p[2]) = p[2]
    BY <2>1, <2>3, PlainCopyIs
  <2> QED
    BY <2>1, <2>4 DEF p
<1>7. DOMAIN pairs = 1..n /\ pairs = [k \in DOMAIN pairs |-> pairs[k]]
  BY ONLY <1>2
<1>8. CopiedPairs(pairs, n) = pairs
  <2> DEFINE e(k) == <<PlainCopy(pairs[k][1]), PlainCopy(pairs[k][2])>>
  <2>1. \A k \in DOMAIN pairs : e(k) = pairs[k]
    BY <1>6
  <2>2. CopiedPairs(pairs, n) = [k \in 1..n |-> e(k)]
    BY Zenon DEF CopiedPairs
  <2> HIDE DEF e, n
  <2> QED
    BY <1>7, <2>1, <2>2
<1> QED
  BY <1>1, <1>5, <1>8

LEMMA SentIs ==
    ASSUME NEW v, Sendable(v), ~HasNul(v)
    PROVE  CopyOf(v) = v
<1>1. CASE Plain(v)
  <2>1. NulIn(v.text) = {}
    BY Zenon DEF HasNul
  <2> QED
    BY <1>1, <2>1, PlainCopyIs
<1>2. CASE Flat(v)
  BY <1>2, FlatCopyIs
<1>3. CASE Rejected(v)
  <2>1. v.type # "string" /\ v.type # "table"
    BY <1>3 DEF Rejected, Simple
  <2> QED
    BY <2>1, Zenon DEF CopyOf, PlainCopy
<1> QED
  BY <1>1, <1>2, <1>3 DEF Sendable
\* The thread's addresses and its memory are left alone.
SameMemory(b, c) ==
    /\ DOMAIN c = DOMAIN b
    /\ c.heap = b.heap /\ c.text = b.text /\ c.want = b.want /\ SameOwners(b, c)

\* A global is the copy of what it was set to last, a value that was got is the
\* global it came from, and only what cannot be sent ends the program.
ValuesInv(b) ==
    /\ DOMAIN b = BridgeFields /\ DOMAIN b.given = DOMAIN b.globals
    /\ b.globals = [name \in DOMAIN b.globals |-> b.globals[name]]
    /\ b.given = [name \in DOMAIN b.given |-> b.given[name]]
    /\ \A name \in DOMAIN b.globals :
         Sendable(b.given[name]) /\ b.globals[name] = CopyOf(b.given[name])
    /\ b.got[1] = b.got[2]
    /\ IsSeq(b.stack)
    /\ b.status # "ok" => Rejected(b.last)

LEMMA RejectedIs ==
    ASSUME NEW v, Rejected(v)
    PROVE  ~Transferable(v) /\ CopyOf(v) = v /\ v.type # "table"
<1>1. v.type \notin Simple /\ v.type # "table" /\ v.type # "string"
  BY DEF Rejected, Simple
<1> QED
  BY <1>1, Zenon DEF Transferable, CopyOf, PlainCopy

\* A slot is popped again.
LEMMA PopIs ==
    ASSUME NEW s, IsSeq(s), NEW v, NEW dst
    PROVE  lua_pop(CopyOver(Append(s, v), dst, << >>), 1) = CopyOver(s, dst, << >>)
<1> DEFINE t == Append(s, v)
           f == CopyOver(t, dst, << >>)
<1>1. Len(t) \in Nat /\ Len(t) >= 1 /\ SubSeq(t, 1, Len(t) - 1) = s
  <2>1. Len(s) \in Nat /\ Len(t) = Len(s) + 1 /\ Front(t) = s
    BY Pushed
  <2> HIDE DEF t
  <2> QED
    BY <2>1 DEF Front
<1>2. f.src = t /\ \A u : [f EXCEPT !.src = u] = CopyOver(u, dst, << >>)
  <2> HIDE DEF t
  <2> QED
    BY DEF CopyOver
<1> HIDE DEF f, t
<1> QED
  BY <1>1, <1>2 DEF lua_pop, f, t

\* Values of a bridge b after a call with v.
GotIn(b, v, c) ==
    /\ SameMemory(b, c) /\ c.globals = b.globals /\ c.given = b.given /\ c.last = v
    /\ IF Rejected(v) THEN c.status = "panic" /\ c.got = b.got /\ IsSeq(c.stack)
       ELSE c.status = "ok" /\ c.stack = b.stack /\ c.got = <<v, v>>

LEMMA GetIs ==
    ASSUME NEW b, ValuesInv(b), NEW name \in DOMAIN b.globals, b.globals[name].type # "table"
    PROVE  GotIn(b, b.globals[name], script_thread_get(b, name))
<1> DEFINE v == b.globals[name]
           dst == <<Userdata, String(name)>>
           src == Append(b.stack, v)
           c == script_copy_value(src, dst)
           d == IF c.status = "ok" THEN lua_pop(c, 1) ELSE c
           status == IF d.status = "error" THEN "panic" ELSE d.status
           got == IF d.status = "ok" THEN <<Last(d.dst), v>> ELSE b.got
           e == [b EXCEPT !.stack = d.src, !.last = v, !.status = status, !.got = got]
<1>1. script_thread_get(b, name) = e
  BY Zenon DEF script_thread_get
<1>2. Sendable(b.given[name]) /\ v = CopyOf(b.given[name]) /\ IsSeq(b.stack) /\ DOMAIN b = BridgeFields
  BY DEF ValuesInv
<1>3. IsSeq(dst)
  <2>1. dst \in Seq({Userdata, String(name)})
    OBVIOUS
  <2> QED
    BY <2>1, Zenon DEF IsSeq
<1> HIDE DEF dst
<1>4. Rejected(v) \/ (Plain(v) /\ PlainCopy(v) = v)
  <2> DEFINE w == b.given[name]
  <2>1. CASE Plain(w)
    <3> HIDE DEF v, w
    <3>1. Plain(PlainCopy(w)) /\ PlainCopy(PlainCopy(w)) = PlainCopy(w) /\ CopyOf(w) = PlainCopy(w)
      BY <2>1, PlainCopyIs
    <3>2. v = PlainCopy(w)
      BY <1>2, <3>1 DEF w
    <3> QED
      BY <3>1, <3>2
  <2>2. CASE Flat(w)
    <3>1. w.type = "table"
      BY <2>2, TableIs DEF Flat
    <3>2. CopyOf(w) = Table(CopiedPairs(w.pairs, Len(w.pairs)))
      BY <3>1, Zenon DEF CopyOf
    <3>3. v.type = "table"
      BY <1>2, <3>2, TableIs
    <3> QED
      BY <3>3
  <2>3. CASE Rejected(w)
    BY <1>2, <2>3, RejectedIs
  <2> QED
    BY <1>2, <2>1, <2>2, <2>3 DEF Sendable
<1>5. CASE Rejected(v)
  <2>1. CopyRefused(src, dst)
    <3> HIDE DEF v
    <3> QED
      BY <1>2, <1>5, OtherRefused
  <2>2. c.status = "error" /\ c.src = src
    BY <2>1, Zenon DEF CopyRefused
  <2> HIDE DEF c, src
  <2>3. status = "panic" /\ got = b.got /\ d.src = src
    BY <2>2
  <2>4. IsSeq(src)
    BY <1>2, Pushed DEF src
  <2> HIDE DEF status, got, d, v
  <2>5. /\ DOMAIN e = DOMAIN b /\ e.stack = d.src /\ e.last = v /\ e.status = status /\ e.got = got
        /\ e.globals = b.globals /\ e.given = b.given /\ e.heap = b.heap /\ e.text = b.text
        /\ e.want = b.want /\ SameOwners(b, e)
    BY <1>2 DEF BridgeFields, SameOwners
  <2> HIDE DEF e
  <2>6. GotIn(b, v, e)
    BY <1>5, <2>3, <2>4, <2>5 DEF GotIn, SameMemory
  <2> QED
    BY <1>1, <2>6 DEF v
<1>6. CASE Plain(v) /\ PlainCopy(v) = v
  <2>1. ~Rejected(v)
    BY <1>6 DEF Plain, Rejected
  <2>2. c = CopyOver(src, Append(dst, v), << >>)
    <3>1. CopyOnce(src, dst, v)
      <4> HIDE DEF v
      <4> QED
        BY <1>2, <1>6, PlainCopied
    <3> QED
      BY <1>6, <3>1, Zenon DEF CopyOnce
  <2>3. c.status = "ok"
    <3> HIDE DEF src, v
    <3> QED
      BY <2>2 DEF CopyOver
  <2>4. d = CopyOver(b.stack, Append(dst, v), << >>)
    <3>1. lua_pop(CopyOver(Append(b.stack, v), Append(dst, v), << >>), 1)
            = CopyOver(b.stack, Append(dst, v), << >>)
      <4> DEFINE to == Append(dst, v)
      <4> HIDE DEF v, to
      <4> QED
        BY <1>2, PopIs
    <3> HIDE DEF c
    <3> QED
      BY <2>2, <2>3, <3>1
  <2>5. d.src = b.stack /\ d.status = "ok" /\ d.dst = Append(dst, v)
    <3> HIDE DEF d, v
    <3> QED
      BY <2>4 DEF CopyOver
  <2>6. Last(Append(dst, v)) = v
    <3> HIDE DEF v
    <3> QED
      BY <1>3, Pushed
  <2> HIDE DEF d, v
  <2>7. status = "ok" /\ got = <<v, v>>
    BY <2>5, <2>6
  <2> HIDE DEF status, got
  <2>8. /\ DOMAIN e = DOMAIN b /\ e.stack = d.src /\ e.last = v /\ e.status = status /\ e.got = got
        /\ e.globals = b.globals /\ e.given = b.given /\ e.heap = b.heap /\ e.text = b.text
        /\ e.want = b.want /\ SameOwners(b, e)
    BY <1>2 DEF BridgeFields, SameOwners
  <2> HIDE DEF e
  <2>9. GotIn(b, v, e)
    BY <2>1, <2>5, <2>7, <2>8 DEF GotIn, SameMemory
  <2> QED
    BY <1>1, <2>9 DEF v
<1> QED
  BY <1>4, <1>5, <1>6
SetIn(b, name, v, c) ==
    /\ SameMemory(b, c) /\ c.got = b.got /\ c.last = v /\ c.stack = b.stack
    /\ IF Rejected(v) THEN c.globals = b.globals /\ c.given = b.given
       ELSE /\ c.status = b.status
            /\ c.globals = [b.globals EXCEPT ![name] = CopyOf(v)]
            /\ c.given = [b.given EXCEPT ![name] = v]

LEMMA SetIs ==
    ASSUME NEW b, ValuesInv(b), NEW name \in DOMAIN b.globals, NEW v, Sendable(v), NEW caught
    PROVE  SetIn(b, name, v, script_thread_set(b, name, v, caught))
<1> DEFINE below == <<Userdata, String(name)>>
           src == <<Userdata, String(name), v>>
           c == script_copy_value(src, b.stack)
           called == [b EXCEPT !.last = v]
           set == [called EXCEPT !.globals[name] = Last(c.dst), !.given[name] = v, !.stack = Front(c.dst)]
           failed == [called EXCEPT !.stack = c.dst, !.status = IF caught THEN "ok" ELSE "panic"]
           lost == [called EXCEPT !.status = "undefined"]
<1>1. script_thread_set(b, name, v, caught) =
        CASE c.status = "ok" -> set [] c.status = "error" -> failed [] OTHER -> lost
  BY Zenon DEF script_thread_set
<1>2. IsSeq(b.stack) /\ DOMAIN b = BridgeFields
  BY DEF ValuesInv
<1>3. IsSeq(below) /\ src = Append(below, v)
  <2>1. below \in Seq({Userdata, String(name)})
    OBVIOUS
  <2>2. src = Append(below, v)
    <3> DEFINE u == Userdata
               w == String(name)
    <3> HIDE DEF u, w
    <3>1. <<u, w, v>> = Append(<<u, w>>, v)
      OBVIOUS
    <3> QED
      BY <3>1, Zenon DEF u, w
  <2> QED
    BY <2>1, <2>2, Zenon DEF IsSeq
<1> HIDE DEF below, src
<1>4. /\ DOMAIN called = BridgeFields /\ called.last = v /\ called.got = b.got
      /\ called.stack = b.stack /\ called.status = b.status
      /\ called.globals = b.globals /\ called.given = b.given
      /\ called.heap = b.heap /\ called.text = b.text /\ called.want = b.want
      /\ SameOwners(b, called)
  BY <1>2 DEF BridgeFields, SameOwners
<1>5. CASE Rejected(v)
  <2>1. CopyRefused(src, b.stack)
    BY <1>3, <1>5, OtherRefused
  <2>2. c.status = "error" /\ c.dst = b.stack
    BY <2>1, Zenon DEF CopyRefused
  <2> HIDE DEF c, called
  <2>3. /\ DOMAIN failed = BridgeFields /\ failed.last = v /\ failed.got = b.got
        /\ failed.stack = c.dst /\ failed.globals = b.globals /\ failed.given = b.given
        /\ failed.heap = b.heap /\ failed.text = b.text /\ failed.want = b.want
        /\ SameOwners(b, failed)
    BY <1>4 DEF BridgeFields, SameOwners
  <2> HIDE DEF set, failed, lost
  <2>4. script_thread_set(b, name, v, caught) = failed
    BY <1>1, <2>2
  <2>5. SetIn(b, name, v, failed)
    BY <1>2, <1>5, <2>2, <2>3 DEF SetIn, SameMemory
  <2> QED
    BY <2>4, <2>5
<1>6. CASE ~Rejected(v)
  <2>1. \E left : c = CopyOver(left, Append(b.stack, CopyOf(v)), << >>)
    <3>1. CASE Plain(v)
      <4>1. CopyOnce(src, b.stack, v)
        BY <1>3, <3>1, PlainCopied
      <4>2. CopyOf(v) = PlainCopy(v)
        BY <3>1, PlainCopyIs
      <4> QED
        BY <4>1, <4>2, Zenon DEF CopyOnce
    <3>2. CASE Flat(v)
      <4>1. CopyTable(below, b.stack, v)
        BY <1>2, <1>3, <3>2, FlatCopied
      <4> QED
        BY <1>3, <4>1, Zenon DEF CopyTable
    <3> QED
      BY <1>6, <3>1, <3>2 DEF Sendable
  <2>2. c.status = "ok" /\ c.dst = Append(b.stack, CopyOf(v))
    <3>1. PICK left : c = CopyOver(left, Append(b.stack, CopyOf(v)), << >>)
      BY <2>1
    <3> HIDE DEF c
    <3> QED
      BY <3>1 DEF CopyOver
  <2>3. Last(c.dst) = CopyOf(v) /\ Front(c.dst) = b.stack
    <3> HIDE DEF c
    <3>1. Last(Append(b.stack, CopyOf(v))) = CopyOf(v) /\ Front(Append(b.stack, CopyOf(v))) = b.stack
      BY <1>2, Pushed
    <3> QED
      BY <2>2, <3>1
  <2> HIDE DEF c, called
  <2> DEFINE l == Last(c.dst)
             f == Front(c.dst)
  <2>4. set = [called EXCEPT !.globals[name] = l, !.given[name] = v, !.stack = f]
    OBVIOUS
  <2> HIDE DEF l, f, set
  <2>5. /\ DOMAIN set = BridgeFields /\ set.last = v /\ set.got = b.got
        /\ set.stack = f /\ set.status = b.status
        /\ set.globals = [b.globals EXCEPT ![name] = l]
        /\ set.given = [b.given EXCEPT ![name] = v]
        /\ set.heap = b.heap /\ set.text = b.text /\ set.want = b.want
        /\ SameOwners(b, set)
    BY <1>4, <2>4 DEF BridgeFields, SameOwners
  <2> HIDE DEF failed, lost
  <2>6. script_thread_set(b, name, v, caught) = set
    BY <1>1, <2>2
  <2>7. SetIn(b, name, v, set)
    BY <1>2, <1>6, <2>3, <2>5 DEF SetIn, SameMemory, l, f
  <2> QED
    BY <2>6, <2>7
<1> QED
  BY <1>5, <1>6

LEMMA GetKeeps ==
    ASSUME NEW b, ValuesInv(b), b.status = "ok", NEW name \in DOMAIN b.globals,
           b.globals[name].type # "table"
    PROVE  LET c == script_thread_get(b, name)
           IN  ValuesInv(c) /\ SameMemory(b, c) /\ (c.status = "ok" => c.stack = b.stack)
<1> DEFINE c == script_thread_get(b, name)
           v == b.globals[name]
<1>1. GotIn(b, v, c)
  BY GetIs
<1> HIDE DEF c, v
<1>2. /\ SameMemory(b, c) /\ c.globals = b.globals /\ c.given = b.given /\ c.last = v
  BY <1>1 DEF GotIn
<1>3. CASE Rejected(v)
  <2>1. c.status = "panic" /\ c.got = b.got /\ IsSeq(c.stack)
    BY <1>1, <1>3 DEF GotIn
  <2> QED
    BY <1>2, <1>3, <2>1 DEF ValuesInv, SameMemory, c
<1>4. CASE ~Rejected(v)
  <2>1. c.status = "ok" /\ c.stack = b.stack /\ c.got = <<v, v>>
    BY <1>1, <1>4 DEF GotIn
  <2>2. c.got[1] = c.got[2]
    BY <2>1
  <2> QED
    BY <1>2, <2>1, <2>2 DEF ValuesInv, SameMemory, c
<1> QED
  BY <1>3, <1>4

LEMMA SetKeeps ==
    ASSUME NEW b, ValuesInv(b), b.status = "ok", NEW name \in DOMAIN b.globals,
           NEW v, Sendable(v), NEW caught
    PROVE  LET c == script_thread_set(b, name, v, caught)
           IN  ValuesInv(c) /\ SameMemory(b, c) /\ c.stack = b.stack
<1> DEFINE c == script_thread_set(b, name, v, caught)
<1>1. SetIn(b, name, v, c)
  BY SetIs
<1> HIDE DEF c
<1>2. /\ SameMemory(b, c) /\ c.got = b.got /\ c.last = v /\ c.stack = b.stack
  BY <1>1 DEF SetIn
<1>3. CASE Rejected(v)
  <2>1. c.globals = b.globals /\ c.given = b.given
    BY <1>1, <1>3 DEF SetIn
  <2> QED
    BY <1>2, <1>3, <2>1 DEF ValuesInv, SameMemory, c
<1>4. CASE ~Rejected(v)
  <2>1. /\ c.status = b.status
        /\ c.globals = [b.globals EXCEPT ![name] = CopyOf(v)]
        /\ c.given = [b.given EXCEPT ![name] = v]
    BY <1>1, <1>4 DEF SetIn
  <2>2. /\ DOMAIN c.globals = DOMAIN b.globals /\ DOMAIN c.given = DOMAIN b.given
        /\ c.globals = [n \in DOMAIN c.globals |-> c.globals[n]]
        /\ c.given = [n \in DOMAIN c.given |-> c.given[n]]
    BY <2>1 DEF ValuesInv
  <2>3. \A n \in DOMAIN b.globals :
          /\ c.globals[n] = IF n = name THEN CopyOf(v) ELSE b.globals[n]
          /\ c.given[n] = IF n = name THEN v ELSE b.given[n]
    BY <2>1 DEF ValuesInv
  <2>4. \A n \in DOMAIN b.globals : Sendable(c.given[n]) /\ c.globals[n] = CopyOf(c.given[n])
    BY <2>3 DEF ValuesInv
  <2> QED
    BY <1>2, <2>1, <2>2, <2>4 DEF ValuesInv, SameMemory, c
<1> QED
  BY <1>3, <1>4
-----------------------------------------------------------------------------
(***************************************************************************)
(* The addresses the resolver finds, and those that are kept.              *)
(***************************************************************************)
LookedUp(f, b, answer, n) ==
    f = [k \in 0..n |-> IF k = 0 THEN b ELSE script_wrk_lookup(f[k - 1], answer[k].text)]

LEMMA LookupsExist ==
    ASSUME NEW b, NEW answer, NEW n \in Nat
    PROVE  \E f : LookedUp(f, b, answer, n)
<1> DEFINE T == {m \in Nat : ~\E f : LookedUp(f, b, answer, m)}
           To(f, k) == script_wrk_lookup(f, answer[k].text)
<1>1. SUFFICES ASSUME T # {} PROVE FALSE
  OBVIOUS
<1>2. PICK m \in T : \A l \in T : m <= l
  BY <1>1, LeastOf
<1>3. m \in Nat /\ ~\E f : LookedUp(f, b, answer, m)
  OBVIOUS
<1>4. \A f, l : LookedUp(f, b, answer, l) <=>
        f = [k \in 0..l |-> IF k = 0 THEN b ELSE To(f[k - 1], k)]
  BY Zenon DEF LookedUp
<1> HIDE DEF To
<1>5. CASE m = 0
  <2> DEFINE g == [k \in 0..m |-> b]
  <2>1. \A k \in 0..m : b = IF k = 0 THEN b ELSE To(g[k - 1], k)
    BY <1>5
  <2>2. g = [k \in 0..m |-> IF k = 0 THEN b ELSE To(g[k - 1], k)]
    BY <2>1, Zenon
  <2> QED
    BY <1>3, <1>4, <2>2
<1>6. CASE m # 0
  <2>1. m - 1 \in Nat /\ m - 1 \notin T
    BY <1>2, <1>3, <1>6
  <2>2. PICK f : LookedUp(f, b, answer, m - 1)
    BY <2>1
  <2>3. \A k \in 0..(m - 1) : f[k] = IF k = 0 THEN b ELSE To(f[k - 1], k)
    BY <1>4, <2>2
  <2> DEFINE g == [k \in 0..m |-> IF k = m THEN To(f[m - 1], m) ELSE f[k]]
  <2>4. \A k \in 0..m : g[k] = IF k = m THEN To(f[m - 1], m) ELSE f[k]
    BY Zenon
  <2>5. \A k \in 0..m : k # m => k \in 0..(m - 1)
    BY <1>3
  <2>6. \A k \in 0..m : k # 0 => k - 1 \in 0..m /\ k - 1 # m
    BY <1>3
  <2>7. g = [k \in 0..m |-> g[k]]
    OBVIOUS
  <2> HIDE DEF g
  <2>8. \A k \in 0..m : g[k] = IF k = 0 THEN b ELSE To(g[k - 1], k)
    <3> TAKE k \in 0..m
    <3>1. CASE k = m
      BY <1>6, <2>4, <2>6, <3>1
    <3>2. CASE k # m
      BY <2>3, <2>4, <2>5, <2>6, <3>2
    <3> QED
      BY <3>1, <3>2
  <2>9. g = [k \in 0..m |-> IF k = 0 THEN b ELSE To(g[k - 1], k)]
    BY <2>7, <2>8
  <2> QED
    BY <1>3, <1>4, <2>9
<1> QED
  BY <1>5, <1>6

\* Every lookup leaves an address in Lua's hands, and only that; c is after k.
Found(b, c, k) ==
    /\ AddrInv(c) /\ c.addrs \in Seq(c.clones) /\ Len(c.addrs) = Len(b.addrs) + k
    /\ c.addr = NULL /\ SameValues(b, c)

LEMMA LookupsKeep ==
    ASSUME NEW b, AddrInv(b), b.addrs \in Seq(b.clones), b.addr = NULL,
           NEW answer, NEW n \in Nat, NEW f, LookedUp(f, b, answer, n)
    PROVE  Found(b, f[n], n)
<1> DEFINE T == {k \in 0..n : ~Found(b, f[k], k)}
<1>1. \A k \in 0..n : f[k] = IF k = 0 THEN b ELSE script_wrk_lookup(f[k - 1], answer[k].text)
  BY DEF LookedUp
<1>2. SUFFICES ASSUME T # {} PROVE FALSE
  OBVIOUS
<1>3. PICK k \in T : \A l \in T : k <= l
  <2>1. T \subseteq Nat
    OBVIOUS
  <2> HIDE DEF T
  <2> QED
    BY <1>2, <2>1, LeastOf
<1>4. k \in 0..n /\ ~Found(b, f[k], k)
  OBVIOUS
<1> DEFINE m == Len(b.addrs)
<1>5. m \in Nat
  OBVIOUS
<1>6. k # 0
  <2>1. Found(b, b, 0)
    BY <1>5 DEF Found, SameValues
  <2> QED
    BY <1>1, <1>4, <2>1
<1>7. k - 1 \in 0..n /\ ~(k <= k - 1)
  BY <1>4, <1>6
<1>8. Found(b, f[k - 1], k - 1)
  BY <1>3, <1>7
<1> DEFINE a == f[k - 1]
           c == script_wrk_lookup(a, answer[k].text)
<1>9. /\ AddrInv(c) /\ SameValues(a, c) /\ c.addr = a.addr
      /\ c.addrs \in Seq(c.clones) /\ Len(c.addrs) = Len(a.addrs) + 1
  <2>1. AddrInv(a) /\ a.addrs \in Seq(a.clones)
    BY <1>8 DEF Found
  <2> HIDE DEF a
  <2> QED
    BY <2>1, LookupKeeps
<1>10. f[k] = c
  BY <1>1, <1>4, <1>6
<1>11. Len(a.addrs) = m + (k - 1)
  BY <1>8 DEF Found
<1> HIDE DEF c, m
<1>12. Len(c.addrs) = m + k
  BY <1>4, <1>5, <1>9, <1>11
<1> QED
  BY <1>4, <1>8, <1>9, <1>10, <1>12 DEF Found, SameValues, m

Kept(f, addrs, answer, n) ==
    f = [k \in 0..n |-> IF k = 0 THEN addrs
                        ELSE IF answer[n + 1 - k].accepts THEN f[k - 1]
                        ELSE RemoveAt(f[k - 1], n + 1 - k)]

\* The first m of n removals.
KeptTo(f, addrs, answer, n, m) ==
    f = [k \in 0..m |-> IF k = 0 THEN addrs
                        ELSE IF answer[n + 1 - k].accepts THEN f[k - 1]
                        ELSE RemoveAt(f[k - 1], n + 1 - k)]

LEMMA KeptExists ==
    ASSUME NEW addrs, NEW answer, NEW n \in Nat
    PROVE  \E f : Kept(f, addrs, answer, n)
<1> DEFINE T == {m \in Nat : ~\E f : KeptTo(f, addrs, answer, n, m)}
           To(f, k) == IF answer[n + 1 - k].accepts THEN f ELSE RemoveAt(f, n + 1 - k)
<1>1. \A f, l : KeptTo(f, addrs, answer, n, l) <=>
        f = [k \in 0..l |-> IF k = 0 THEN addrs ELSE To(f[k - 1], k)]
  BY Zenon DEF KeptTo
<1> HIDE DEF To
<1>2. T = {}
  <2>1. SUFFICES ASSUME T # {} PROVE FALSE
    OBVIOUS
  <2>2. PICK m \in T : \A l \in T : m <= l
    BY <2>1, LeastOf
  <2>3. m \in Nat /\ ~\E f : KeptTo(f, addrs, answer, n, m)
    OBVIOUS
  <2>4. CASE m = 0
    <3> DEFINE g == [k \in 0..m |-> addrs]
    <3>1. \A k \in 0..m : addrs = IF k = 0 THEN addrs ELSE To(g[k - 1], k)
      BY <2>4
    <3>2. g = [k \in 0..m |-> IF k = 0 THEN addrs ELSE To(g[k - 1], k)]
      BY <3>1, Zenon
    <3> QED
      BY <1>1, <2>3, <3>2
  <2>5. CASE m # 0
    <3>1. m - 1 \in Nat /\ m - 1 \notin T
      BY <2>2, <2>3, <2>5
    <3>2. PICK f : KeptTo(f, addrs, answer, n, m - 1)
      BY <3>1
    <3>3. \A k \in 0..(m - 1) : f[k] = IF k = 0 THEN addrs ELSE To(f[k - 1], k)
      BY <1>1, <3>2
    <3> DEFINE g == [k \in 0..m |-> IF k = m THEN To(f[m - 1], m) ELSE f[k]]
    <3>4. \A k \in 0..m : g[k] = IF k = m THEN To(f[m - 1], m) ELSE f[k]
      BY Zenon
    <3>5. \A k \in 0..m : k # m => k \in 0..(m - 1)
      BY <2>3
    <3>6. \A k \in 0..m : k # 0 => k - 1 \in 0..m /\ k - 1 # m
      BY <2>3
    <3>7. g = [k \in 0..m |-> g[k]]
      OBVIOUS
    <3> HIDE DEF g
    <3>8. \A k \in 0..m : g[k] = IF k = 0 THEN addrs ELSE To(g[k - 1], k)
      <4> TAKE k \in 0..m
      <4>1. CASE k = m
        BY <2>5, <3>4, <3>6, <4>1
      <4>2. CASE k # m
        BY <3>3, <3>4, <3>5, <3>6, <4>2
      <4> QED
        BY <4>1, <4>2
    <3>9. g = [k \in 0..m |-> IF k = 0 THEN addrs ELSE To(g[k - 1], k)]
      BY <3>7, <3>8
    <3> QED
      BY <1>1, <2>3, <3>9
  <2> QED
    BY <2>4, <2>5
<1>3. PICK f : KeptTo(f, addrs, answer, n, n)
  BY <1>2
<1> QED
  BY <1>3, Zenon DEF KeptTo, Kept

LEMMA RemovedAt ==
    ASSUME NEW V, NEW s \in Seq(V), NEW i \in 1..Len(s)
    PROVE  RemoveAt(s, i) \in Seq(V) /\ Len(RemoveAt(s, i)) = Len(s) - 1
<1> DEFINE a == SubSeq(s, 1, i - 1)
           b == SubSeq(s, i + 1, Len(s))
<1>1. a \in Seq(V) /\ Len(a) = i - 1
  OBVIOUS
<1>2. b \in Seq(V) /\ Len(b) = Len(s) - i
  OBVIOUS
<1>3. RemoveAt(s, i) = a \o b
  BY Zenon DEF RemoveAt
<1> HIDE DEF a, b
<1>4. a \o b \in Seq(V) /\ Len(a \o b) = Len(a) + Len(b)
  BY <1>1, <1>2
<1> QED
  BY <1>1, <1>2, <1>3, <1>4

LEMMA KeptIs ==
    ASSUME NEW V, NEW addrs \in Seq(V), NEW answer, NEW n \in Nat, Len(addrs) >= n,
           NEW f, Kept(f, addrs, answer, n)
    PROVE  f[n] \in Seq(V)
<1> DEFINE Good(k) == f[k] \in Seq(V) /\ Len(f[k]) >= n - k
           T == {k \in 0..n : ~Good(k)}
<1>1. \A k \in 0..n : f[k] = IF k = 0 THEN addrs
                             ELSE IF answer[n + 1 - k].accepts THEN f[k - 1]
                             ELSE RemoveAt(f[k - 1], n + 1 - k)
  BY DEF Kept
<1>2. SUFFICES ASSUME T # {} PROVE FALSE
  OBVIOUS
<1>3. PICK k \in T : \A l \in T : k <= l
  <2>1. T \subseteq Nat
    OBVIOUS
  <2> HIDE DEF T
  <2> QED
    BY <1>2, <2>1, LeastOf
<1>4. k \in 0..n /\ ~Good(k)
  OBVIOUS
<1>5. k # 0
  BY <1>1, <1>4
<1>6. k - 1 \in 0..n /\ ~(k <= k - 1)
  BY <1>4, <1>5
<1> DEFINE s == f[k - 1]
           i == n + 1 - k
<1>7. s \in Seq(V) /\ Len(s) >= i /\ i \in 1..Len(s) /\ i \in Nat
  <2>1. s \in Seq(V) /\ Len(s) >= n - (k - 1)
    BY <1>3, <1>6
  <2> HIDE DEF s
  <2>2. Len(s) \in Nat
    BY <2>1
  <2> QED
    BY <1>4, <1>5, <2>1, <2>2
<1>8. f[k] = s \/ f[k] = RemoveAt(s, i)
  BY <1>1, <1>4, <1>5
<1> HIDE DEF s
<1>9. RemoveAt(s, i) \in Seq(V) /\ Len(RemoveAt(s, i)) = Len(s) - 1
  BY <1>7, RemovedAt
<1>10. Good(k)
  <2>1. Len(s) \in Nat /\ Len(s) >= n - k /\ Len(s) - 1 >= n - k
    BY <1>4, <1>7
  <2> QED
    BY <1>7, <1>8, <1>9, <2>1
<1> QED
  BY <1>4, <1>10
LEMMA NoBridgeIs ==
    ASSUME NEW leaves
    PROVE  LET b == [NoBridge EXCEPT !.stack = leaves]
           IN  /\ AddrInv(b) /\ b.addrs = << >> /\ b.addr = NULL /\ b.stack = leaves
               /\ b.globals = NoBridge.globals /\ b.given = NoBridge.given /\ b.got = NoBridge.got
               /\ b.last = NoBridge.last /\ b.status = NoBridge.status
<1> DEFINE b == [NoBridge EXCEPT !.stack = leaves]
<1>1. /\ DOMAIN b = BridgeFields /\ b.stack = leaves /\ b.heap = NoHeap /\ b.clones = {}
      /\ b.addrs = << >> /\ b.addr = NULL /\ b.data = NULL /\ b.text = NoBridge.text
      /\ b.globals = NoBridge.globals /\ b.given = NoBridge.given /\ b.got = NoBridge.got
      /\ b.last = NoBridge.last /\ b.status = NoBridge.status
  BY DEF NoBridge, BridgeFields
<1>2. DOMAIN NoBridge.text = {} /\ NoBridge.text = [p \in {} |-> NoBridge.text[p]]
  <2> DEFINE empty == ""
  <2> HIDE DEF empty
  <2>1. NoBridge.text = [p \in {} |-> empty]
    BY DEF NoBridge, empty
  <2> QED
    BY <2>1
<1>3. HeapInv(NoHeap) /\ DOMAIN NoHeap.live = {}
  BY EmptyHeap
<1> HIDE DEF b
<1>4. Owned(b) = {} /\ AddrBlocks(b) = {}
  BY <1>1 DEF Owned, AddrBlocks
<1>5. Memory(b, {}, {})
  BY <1>1, <1>2, <1>3 DEF Memory
<1>6. AddrInv(b)
  BY <1>1, <1>4, <1>5 DEF AddrInv, NULL
<1> QED
  BY <1>1, <1>6 DEF b

LEMMA NoBridgeEmpty == NoBridge = [NoBridge EXCEPT !.stack = << >>]
<1> DEFINE globals == [id |-> Value("number", "1", << >>), delay |-> Function]
           got == <<Nil, Nil>>
           text == [p \in {} |-> ""]
           none == ""
           empty == << >>
           made(t) == [stack |-> t, globals |-> globals, given |-> globals, got |-> got, last |-> Nil,
                       status |-> "ok", heap |-> NoHeap, text |-> text, clones |-> {}, addrs |-> empty,
                       addr |-> NULL, data |-> NULL, want |-> none]
<1>1. NoBridge = made(empty)
  BY Zenon DEF NoBridge
<1> HIDE DEF globals, got, text, none, empty
<1> DEFINE b == made(empty)
<1>2. b.stack = empty /\ b = [f \in DOMAIN b |-> b[f]]
  OBVIOUS
<1> HIDE DEF b
<1>3. b = [b EXCEPT !.stack = empty]
  BY <1>2
<1> QED
  BY <1>1, <1>3, Zenon DEF b, empty

\* What wrk.resolve makes of b.
Resolved(b, c) == AddrInv(c) /\ c.addrs \in Seq(c.clones) /\ SameValues(b, c)

LEMMA ResolveIs ==
    ASSUME NEW answer, IsSeq(answer), script_resolve(answer)
    PROVE  /\ Resolved([NoBridge EXCEPT !.stack = use.script.leaves], bridge')
           /\ mpc' = IF bridge'.addrs # << >> THEN "setup" ELSE "exit"
           /\ mpc = "resolve" /\ UNCHANGED <<use, report>>
<1> DEFINE n == Len(answer)
           leaves == use.script.leaves
           b == [NoBridge EXCEPT !.stack = leaves]
           found == CHOOSE f : f = [k \in 0..n |->
                      IF k = 0 THEN b ELSE script_wrk_lookup(f[k - 1], answer[k].text)]
           kept == CHOOSE f : f = [k \in 0..n |->
                      IF k = 0 THEN found[n].addrs
                      ELSE IF answer[n + 1 - k].accepts THEN f[k - 1]
                      ELSE RemoveAt(f[k - 1], n + 1 - k)]
           c == [found[n] EXCEPT !.addrs = kept[n]]
<1>1. n \in Nat
  BY DEF IsSeq
<1>2. /\ mpc = "resolve" /\ bridge' = c
      /\ IF kept[n] # << >> THEN mpc' = "setup" ELSE mpc' = "exit"
      /\ UNCHANGED <<use, report>>
  BY Zenon DEF script_resolve, Exit
<1> HIDE DEF n
<1>3. AddrInv(b) /\ b.addrs = << >> /\ b.addr = NULL /\ b.addrs \in Seq(b.clones)
  <2>1. AddrInv(b) /\ b.addrs = << >> /\ b.addr = NULL
    BY NoBridgeIs, Zenon
  <2> HIDE DEF b
  <2> QED
    BY <2>1
<1> HIDE DEF b
<1>4. LookedUp(found, b, answer, n)
  <2>1. \E f : LookedUp(f, b, answer, n)
    BY <1>1, LookupsExist
  <2> QED
    BY <2>1, Zenon DEF LookedUp
<1> HIDE DEF found
<1>5. Found(b, found[n], n)
  BY <1>1, <1>3, <1>4, LookupsKeep
<1>6. Kept(kept, found[n].addrs, answer, n)
  <2>1. \E f : Kept(f, found[n].addrs, answer, n)
    BY <1>1, KeptExists
  <2> QED
    BY <2>1, Zenon DEF Kept
<1> HIDE DEF kept
<1> DEFINE a == found[n]
<1>7. kept[n] \in Seq(a.clones)
  <2>1. a.addrs \in Seq(a.clones) /\ Len(a.addrs) >= n
    <3>1. Len(b.addrs) = 0
      BY <1>3
    <3>2. Len(a.addrs) = n
      BY <1>1, <1>5, <3>1 DEF Found
    <3> QED
      BY <1>1, <1>5, <3>2 DEF Found
  <2> DEFINE addrs == a.addrs
             V == a.clones
  <2>2. addrs \in Seq(V) /\ Len(addrs) >= n /\ Kept(kept, addrs, answer, n)
    BY <1>6, <2>1
  <2> HIDE DEF addrs, V
  <2>3. kept[n] \in Seq(V)
    BY <1>1, <2>2, KeptIs
  <2> QED
    BY <2>3 DEF V
<1> HIDE DEF a
<1>8. AddrInv(a) /\ SameValues(b, a) /\ DOMAIN a = BridgeFields
  BY <1>5 DEF Found, AddrInv, Memory, a
<1>9. /\ DOMAIN c = BridgeFields /\ c.addrs = kept[n] /\ SameValues(a, c) /\ c.heap = a.heap
      /\ c.text = a.text /\ c.clones = a.clones /\ c.addr = a.addr /\ c.data = a.data
      /\ c.want = a.want
  BY <1>8 DEF a, BridgeFields, SameValues
<1> HIDE DEF c
<1>10. Owned(c) = Owned(a) /\ AddrBlocks(c) = AddrBlocks(a)
  BY <1>9 DEF Owned, AddrBlocks
<1>11. AddrInv(c)
  BY <1>8, <1>9, <1>10 DEF AddrInv, Memory
<1>12. Resolved(b, c)
  BY <1>7, <1>8, <1>9, <1>11 DEF Resolved, SameValues
<1> QED
  BY <1>2, <1>9, <1>12 DEF b
-----------------------------------------------------------------------------
(***************************************************************************)
(* The steps of Main, by what they do to the bridge.                       *)
(***************************************************************************)
Early == {"args", "tls", "script", "resolve", "exit"}
Late == {"verify", "run", "correct", "report"}

\* A step that leaves the bridge alone, before the threads' states are created
\* or after the script's first request has been made.
Idle ==
    /\ UNCHANGED <<use, bridge>>
    /\ (mpc \in Early /\ mpc' \in Early) \/ (mpc \in Late /\ mpc' \in Late \cup {"exit", "done"})
    /\ mpc' = "done" =>
         /\ report'.summary = IF use.script.done THEN Summary ELSE NewTable
         /\ UNCHANGED <<complete, runtime_us>>

LEMMA StepKinds ==
    ASSUME Next
    PROVE  \/ Idle \/ wrk_setup \/ ScriptCalls \/ script_init
           \/ \E answer \in use.lookup : script_resolve(answer)
<1>1. ASSUME parse_option PROVE Idle
  <2>1. mpc = "args" /\ UNCHANGED <<use, bridge>> /\ (mpc' = mpc \/ mpc' = "exit")
    BY <1>1 DEF parse_option, run, lstates, NumberOption, FlagOption, HeaderOption, UnknownOption, Exit
  <2> QED
    BY <2>1 DEF Idle, Early
<1>2. ASSUME args_done PROVE Idle
  BY <1>2 DEF args_done, run, lstates, Exit, Idle, Early
<1>3. ASSUME init_tls PROVE Idle
  BY <1>3 DEF init_tls, run, lstates, Exit, Idle, Early
<1>4. ASSUME script_create PROVE Idle
  BY <1>4 DEF script_create, run, lstates, Idle, Early
<1>5. ASSUME VerifyByte PROVE Idle
  BY <1>5 DEF VerifyByte, run, lstates, Idle, Late
<1>6. ASSUME VerifyEnd PROVE Idle
  <2>1. mpc = "verify" /\ UNCHANGED <<use, bridge>> /\ (mpc' = "run" \/ mpc' = "exit")
    BY <1>6 DEF VerifyEnd, run, lstates, Exit
  <2> QED
    BY <2>1 DEF Idle, Late
<1>7. ASSUME NEW c, NEW n, Answered(c, n) PROVE Idle
  BY <1>7 DEF Answered, lstates, Idle, Late
<1>8. ASSUME NEW time, EndRun(time) PROVE Idle
  BY <1>8 DEF EndRun, lstates, Idle, Late
<1>9. ASSUME Correct PROVE Idle
  BY <1>9 DEF Correct, lstates, Idle, Late
<1>10. ASSUME Report PROVE Idle
  <2>1. /\ mpc = "report" /\ mpc' = "done" /\ UNCHANGED <<use, bridge, complete, runtime_us>>
        /\ report'.summary = IF use.script.done THEN Summary ELSE NewTable
    BY <1>10 DEF Report, run, lstates
  <2> QED
    BY <2>1 DEF Idle, Late
<1> QED
  BY <1>1, <1>2, <1>3, <1>4, <1>5, <1>6, <1>7, <1>8, <1>9, <1>10 DEF Next

LEMMA UseKept ==
    ASSUME [Next]_vars
    PROVE  use' = use
<1>1. CASE UNCHANGED vars
  BY <1>1, Zenon DEF vars
<1>2. CASE Idle
  BY <1>2, Zenon DEF Idle
<1>3. CASE \E answer \in use.lookup : script_resolve(answer)
  BY <1>3, Zenon DEF script_resolve
<1>4. CASE wrk_setup
  BY <1>4, Zenon DEF wrk_setup
<1>5. CASE ScriptCalls \/ script_init
  BY <1>5, Zenon DEF ScriptCalls, script_init
<1> QED
  BY <1>1, <1>2, <1>3, <1>4, <1>5, StepKinds

LEMMA GetSame ==
    ASSUME NEW b, DOMAIN b = BridgeFields, NEW name
    PROVE  SameMemory(b, script_thread_get(b, name))
BY DEF script_thread_get, SameMemory, SameOwners, BridgeFields

LEMMA SetSame ==
    ASSUME NEW b, DOMAIN b = BridgeFields, NEW name, NEW v, NEW caught
    PROVE  SameMemory(b, script_thread_set(b, name, v, caught))
BY DEF script_thread_set, SameMemory, SameOwners, BridgeFields

LEMMA SameStillOwned ==
    ASSUME NEW b, NEW c, AddrInv(b), SameMemory(b, c)
    PROVE  AddrInv(c) /\ c.addrs = b.addrs /\ c.clones = b.clones
<1>1. Owned(c) = Owned(b) /\ AddrBlocks(c) = AddrBlocks(b)
  BY DEF Owned, AddrBlocks, SameMemory, SameOwners
<1> QED
  BY <1>1 DEF AddrInv, Memory, SameMemory, SameOwners

-----------------------------------------------------------------------------
(***************************************************************************)
(* Addresses are owned, whatever the script calls.  A resolver's answer is *)
(* a sequence.                                                             *)
(***************************************************************************)
AnswersListed == \A u \in Uses : \A answer \in u.lookup : IsSeq(answer)

OwnersInv ==
    /\ use \in Uses
    /\ AddrInv(bridge) /\ bridge.addrs \in Seq(bridge.clones)
    /\ mpc = "setup" => bridge.addrs # << >>
    /\ mpc \notin Early \cup {"setup"} => bridge.addr # NULL

LEMMA OwnersInit ==
    ASSUME Init
    PROVE  OwnersInv
<1>1. use \in Uses /\ mpc = "args" /\ bridge = NoBridge
  BY DEF Init
<1>2. NoBridge = [NoBridge EXCEPT !.stack = << >>]
  BY NoBridgeEmpty
<1>3. AddrInv(NoBridge) /\ NoBridge.addrs = << >>
  <2> DEFINE b == [NoBridge EXCEPT !.stack = << >>]
  <2>1. AddrInv(b) /\ b.addrs = << >>
    BY NoBridgeIs, Zenon
  <2> QED
    BY <1>2, <2>1, Zenon
<1>4. << >> \in Seq(NoBridge.clones)
  OBVIOUS
<1> QED
  BY <1>1, <1>3, <1>4 DEF OwnersInv, Early

LEMMA OwnersAtCall ==
    ASSUME OwnersInv, ThreadCall, bridge.addr # NULL
    PROVE  AddrInv(bridge') /\ bridge'.addrs \in Seq(bridge'.clones) /\ bridge'.addr # NULL
<1>1. AddrInv(bridge) /\ bridge.addrs \in Seq(bridge.clones) /\ DOMAIN bridge = BridgeFields
  BY DEF OwnersInv, AddrInv, Memory
<1>2. CASE \E name \in DOMAIN bridge.globals : bridge' = script_thread_get(bridge, name)
  <2>1. SameMemory(bridge, bridge')
    BY <1>1, <1>2, GetSame
  <2> QED
    BY <1>1, <2>1, SameStillOwned DEF SameMemory, SameOwners
<1>3. CASE \E name \in DOMAIN bridge.globals, v \in use.lua.values, caught \in BOOLEAN :
             bridge' = script_thread_set(bridge, name, v, caught)
  <2>1. SameMemory(bridge, bridge')
    BY <1>1, <1>3, SetSame
  <2> QED
    BY <1>1, <2>1, SameStillOwned DEF SameMemory, SameOwners
<1>4. CASE bridge' = script_thread_index(bridge)
  <2>1. bridge.data \in AddrBlocks(bridge)
    BY <1>1 DEF AddrInv, AddrBlocks
  <2>2. /\ AddrInv(bridge') /\ bridge'.addrs = bridge.addrs /\ bridge.clones \subseteq bridge'.clones
        /\ bridge'.addr = bridge.addr
    BY <1>1, <1>4, <2>1, CloneKeeps DEF script_thread_index
  <2> QED
    BY <1>1, <2>2
<1>5. CASE \E ptr \in bridge.clones : bridge' = script_thread_newindex(bridge, ptr)
  <2>1. PICK ptr \in bridge.clones : bridge' = script_thread_newindex(bridge, ptr)
    BY <1>5
  <2>2. /\ AddrInv(bridge') /\ bridge'.clones = bridge.clones /\ bridge'.addrs = bridge.addrs
        /\ bridge'.addr # NULL
    BY <1>1, <2>1, AssignKeeps
  <2> QED
    BY <1>1, <2>2
<1>6. CASE \E ptr \in bridge.clones \ Range(bridge.addrs) : bridge' = script_addr_gc(bridge, ptr)
  <2>1. PICK ptr \in bridge.clones \ Range(bridge.addrs) : bridge' = script_addr_gc(bridge, ptr)
    BY <1>6
  <2>2. /\ AddrInv(bridge') /\ bridge'.addrs = bridge.addrs /\ bridge'.clones = bridge.clones \ {ptr}
        /\ bridge'.addr = bridge.addr
    BY <1>1, <2>1, CollectKeeps
  <2> DEFINE s == bridge.addrs
             V == bridge.clones
  <2>3. s \in Seq(V) /\ ptr \notin Range(s)
    BY <1>1, <2>1
  <2> HIDE DEF s, V
  <2>4. s \in Seq(V \ {ptr})
    <3>1. \A k \in 1..Len(s) : s[k] \in V \ {ptr}
      BY <2>3 DEF Range
    <3> QED
      BY <2>3, <3>1
  <2> QED
    BY <2>2, <2>4 DEF s, V
<1> QED
  BY <1>2, <1>3, <1>4, <1>5, <1>6 DEF ThreadCall
\* The stack is another.
LEMMA StackChanged ==
    ASSUME NEW b, DOMAIN b = BridgeFields, NEW s, NEW c, c = [b EXCEPT !.stack = s]
    PROVE  /\ SameMemory(b, c) /\ c.stack = s /\ c.globals = b.globals /\ c.given = b.given
           /\ c.got = b.got /\ c.last = b.last /\ c.status = b.status
BY DEF SameMemory, SameOwners, BridgeFields

\* The first address that is left becomes the thread's.
LEMMA SetupIs ==
    ASSUME OwnersInv, wrk_setup
    PROVE  \E c : /\ AddrInv(c) /\ SameValues(bridge, c) /\ c.addr # NULL
                  /\ c.addrs \in Seq(c.clones)
                  /\ bridge' = [c EXCEPT !.stack = Append(c.stack, Userdata)]
                  /\ mpc = "setup" /\ mpc' = "init" /\ UNCHANGED use
<1> DEFINE ptr == bridge.addrs[1]
           c == script_thread_newindex(bridge, ptr)
<1>1. mpc = "setup" /\ mpc' = "init" /\ UNCHANGED use
      /\ bridge' = [c EXCEPT !.stack = Append(c.stack, Userdata)]
  BY DEF wrk_setup
<1>2. AddrInv(bridge) /\ ptr \in bridge.clones
  <2> DEFINE s == bridge.addrs
             V == bridge.clones
  <2>1. s \in Seq(V) /\ s # << >> /\ AddrInv(bridge)
    BY <1>1 DEF OwnersInv
  <2> HIDE DEF s, V
  <2>2. s[1] \in V
    BY <2>1
  <2> QED
    BY <2>1, <2>2 DEF s, V
<1> HIDE DEF ptr
<1>3. /\ AddrInv(c) /\ SameValues(bridge, c) /\ c.addr # NULL
      /\ c.clones = bridge.clones /\ c.addrs = bridge.addrs
  BY <1>2, AssignKeeps
<1> HIDE DEF c
<1>4. c.addrs \in Seq(c.clones)
  BY <1>3 DEF OwnersInv
<1> QED
  BY <1>1, <1>3, <1>4

LEMMA OwnersStep ==
    ASSUME AnswersListed, OwnersInv, [Next]_vars
    PROVE  OwnersInv'
<1>1. CASE UNCHANGED vars
  BY <1>1 DEF vars, run, lstates, OwnersInv
<1>2. CASE Idle
  <2>1. UNCHANGED <<use, bridge>> /\ mpc' # "setup"
    BY <1>2 DEF Idle, Early, Late
  <2>2. mpc' \notin Early \cup {"setup"} => mpc \notin Early \cup {"setup"}
    BY <1>2 DEF Idle, Early, Late
  <2> QED
    BY <2>1, <2>2 DEF OwnersInv
<1>3. CASE \E answer \in use.lookup : script_resolve(answer)
  <2>1. PICK answer \in use.lookup : script_resolve(answer)
    BY <1>3
  <2>2. IsSeq(answer)
    BY <2>1 DEF AnswersListed, OwnersInv
  <2>3. /\ AddrInv(bridge') /\ bridge'.addrs \in Seq(bridge'.clones)
        /\ mpc' = IF bridge'.addrs # << >> THEN "setup" ELSE "exit"
        /\ UNCHANGED use
    BY <2>1, <2>2, ResolveIs DEF Resolved
  <2> QED
    BY <2>3 DEF OwnersInv, Early
<1>4. CASE wrk_setup
  <2>1. PICK c : /\ AddrInv(c) /\ c.addr # NULL /\ c.addrs \in Seq(c.clones)
                 /\ bridge' = [c EXCEPT !.stack = Append(c.stack, Userdata)]
                 /\ mpc' = "init" /\ UNCHANGED use
    BY <1>4, SetupIs
  <2>2. DOMAIN c = BridgeFields
    BY <2>1 DEF AddrInv, Memory
  <2>3. SameMemory(c, bridge')
    BY <2>1, <2>2, StackChanged
  <2>4. AddrInv(bridge') /\ bridge'.addrs = c.addrs /\ bridge'.clones = c.clones
    BY <2>1, <2>3, SameStillOwned
  <2> QED
    BY <2>1, <2>3, <2>4 DEF OwnersInv, SameMemory, SameOwners
<1>5. CASE ScriptCalls
  <2>1. /\ mpc = "init" \/ mpc = "done"
        /\ ThreadCall /\ UNCHANGED <<use, mpc>>
    BY <1>5 DEF ScriptCalls
  <2>2. bridge.addr # NULL
    BY <2>1 DEF OwnersInv, Early
  <2>3. AddrInv(bridge') /\ bridge'.addrs \in Seq(bridge'.clones) /\ bridge'.addr # NULL
    BY <2>1, <2>2, OwnersAtCall
  <2> QED
    BY <2>1, <2>3 DEF OwnersInv
<1>6. CASE script_init
  <2>1. /\ mpc = "init" /\ mpc' = "verify" /\ UNCHANGED use
        /\ bridge' = [bridge EXCEPT !.stack = Front(bridge.stack)]
    BY <1>6 DEF script_init
  <2>2. AddrInv(bridge) /\ DOMAIN bridge = BridgeFields /\ bridge.addr # NULL
    BY <2>1 DEF OwnersInv, Early, AddrInv, Memory
  <2>3. SameMemory(bridge, bridge')
    BY <2>1, <2>2, StackChanged
  <2>4. AddrInv(bridge') /\ bridge'.addrs = bridge.addrs /\ bridge'.clones = bridge.clones
    BY <2>2, <2>3, SameStillOwned
  <2> QED
    BY <2>1, <2>2, <2>3, <2>4 DEF OwnersInv, SameMemory, SameOwners
<1> QED
  BY <1>1, <1>2, <1>3, <1>4, <1>5, <1>6, StepKinds

LEMMA OwnersOwn ==
    ASSUME OwnersInv
    PROVE  AddressesOwned
<1>1. AddrInv(bridge)
  BY DEF OwnersInv
<1>2. /\ bridge.heap.wild = FALSE /\ bridge.heap.used = InUse(bridge.heap.live)
      /\ DOMAIN bridge.heap.live = Owned(bridge)
  BY <1>1 DEF AddrInv, Memory, HeapInv
<1>3. bridge.addr # NULL => AddrIn(bridge, bridge.data) = bridge.want
  <2>1. SUFFICES ASSUME bridge.addr # NULL
                 PROVE  AddrIn(bridge, bridge.data) = bridge.want
    OBVIOUS
  <2>2. bridge.data \in AddrBlocks(bridge) /\ bridge.text[bridge.data] = bridge.want
    BY <1>1, <2>1 DEF AddrInv, AddrBlocks
  <2>3. bridge.text = [p \in AddrBlocks(bridge) |-> bridge.text[p]]
    BY <1>1 DEF AddrInv, Memory
  <2>4. bridge.data \in DOMAIN bridge.text
    BY <2>2, <2>3, Zenon
  <2> QED
    BY <2>2, <2>4 DEF AddrIn
<1> QED
  BY <1>1, <1>2, <1>3 DEF AddressesOwned, Owned, AddrInv

\* Every block has one owner and none is used after it has been freed, so that
\* each thread connects to the address last assigned (script_addr_clone,
\* script_addr_gc, script_thread_newindex), for any heap, any answers of the
\* resolver and any calls of the script's functions.
THEOREM AddressesAreOwned ==
    ASSUME AnswersListed
    PROVE  Spec => []AddressesOwned
<1>1. Init => OwnersInv
  BY OwnersInit
<1>2. OwnersInv /\ [Next]_vars => OwnersInv'
  BY OwnersStep
<1>3. OwnersInv => AddressesOwned
  BY OwnersOwn
<1> QED
  BY <1>1, <1>2, <1>3, PTL DEF Spec
-----------------------------------------------------------------------------
(***************************************************************************)
(* Stacks are kept and values arrive.  The script sends what may be sent,  *)
(* tables with keys that differ, or what is refused; it gets no table      *)
(* (TableUses of MCMain do), and its file may leave values behind.         *)
(***************************************************************************)
ScriptsSend ==
    /\ AnswersListed
    /\ \A u \in Uses : /\ IsSeq(u.script.leaves) /\ ~u.lua.tables
                       /\ \A v \in u.lua.values : Sendable(v)

StacksInv == use \in Uses /\ ValuesInv(bridge) /\ StacksKept

LEMMA NoBridgeValues ==
    ASSUME NEW leaves, IsSeq(leaves)
    PROVE  ValuesInv([NoBridge EXCEPT !.stack = leaves]) /\ NoBridge.status = "ok"
<1> DEFINE b == [NoBridge EXCEPT !.stack = leaves]
           one == Value("number", "1", << >>)
           globals == [id |-> one, delay |-> Function]
<1>1. Sendable(one) /\ CopyOf(one) = one
  <2>1. \A t, p : Value("number", t, p).type = "number"
    BY DEF Value
  <2>2. one.type = "number"
    BY <2>1, Zenon
  <2> HIDE DEF one
  <2>3. Plain(one) /\ one.type # "table" /\ one.type # "string"
    BY <2>2 DEF Plain, Simple
  <2> QED
    BY <2>3, Zenon DEF Sendable, CopyOf, PlainCopy
<1>2. Sendable(Function) /\ CopyOf(Function) = Function
  <2>1. \A t, p : Value("function", t, p).type = "function"
    BY DEF Value
  <2>2. Function.type = "function"
    BY <2>1, Zenon DEF Function
  <2>3. Rejected(Function)
    BY <2>2 DEF Rejected, Simple
  <2> QED
    BY <2>3, RejectedIs DEF Sendable
<1> HIDE DEF one
<1>3. NoBridge.globals = globals /\ NoBridge.given = globals /\ NoBridge.got = <<Nil, Nil>>
      /\ NoBridge.status = "ok"
  <2> DEFINE got == <<Nil, Nil>>
             text == [p \in {} |-> ""]
             none == ""
             made == [stack |-> << >>, globals |-> globals, given |-> globals, got |-> got, last |-> Nil,
                      status |-> "ok", heap |-> NoHeap, text |-> text, clones |-> {}, addrs |-> << >>,
                      addr |-> NULL, data |-> NULL, want |-> none]
  <2>1. NoBridge = made
    BY Zenon DEF NoBridge, one
  <2> HIDE DEF globals, got, text, none
  <2>2. made.globals = globals /\ made.given = globals /\ made.got = got /\ made.status = "ok"
    OBVIOUS
  <2> QED
    BY <2>1, <2>2, Zenon DEF got
<1>4. /\ DOMAIN globals = {"id", "delay"} /\ globals["id"] = one /\ globals["delay"] = Function
      /\ globals = [name \in DOMAIN globals |-> globals[name]]
  OBVIOUS
<1>5. \A name \in DOMAIN globals : Sendable(globals[name]) /\ globals[name] = CopyOf(globals[name])
  BY <1>1, <1>2, <1>4
<1> HIDE DEF globals
<1>6. /\ DOMAIN b = BridgeFields /\ b.globals = globals /\ b.given = globals
      /\ b.got = <<Nil, Nil>> /\ b.status = "ok" /\ b.stack = leaves
  <2>1. AddrInv(b) /\ b.stack = leaves /\ b.globals = NoBridge.globals /\ b.given = NoBridge.given
        /\ b.got = NoBridge.got /\ b.status = NoBridge.status
    BY NoBridgeIs, Zenon
  <2> HIDE DEF b
  <2> QED
    BY <1>3, <2>1 DEF AddrInv, Memory
<1> HIDE DEF b
<1>7. b.got[1] = b.got[2]
  BY <1>6
<1>8. ValuesInv(b)
  BY <1>4, <1>5, <1>6, <1>7 DEF ValuesInv
<1> QED
  BY <1>3, <1>8 DEF b

LEMMA StacksInit ==
    ASSUME Init
    PROVE  StacksInv
<1>1. use \in Uses /\ mpc = "args" /\ bridge = NoBridge
  BY DEF Init
<1>2. NoBridge = [NoBridge EXCEPT !.stack = << >>]
  BY NoBridgeEmpty
<1>3. ValuesInv(NoBridge) /\ NoBridge.status = "ok"
  <2>1. << >> \in Seq({})
    OBVIOUS
  <2>2. IsSeq(<< >>)
    BY <2>1 DEF IsSeq
  <2> QED
    BY <1>2, <2>2, NoBridgeValues, Zenon
<1> QED
  BY <1>1, <1>3 DEF StacksInv, StacksKept

LEMMA SameValuesKeep ==
    ASSUME NEW b, NEW c, ValuesInv(b), SameValues(b, c), DOMAIN c = BridgeFields
    PROVE  ValuesInv(c) /\ c.stack = b.stack /\ c.status = b.status /\ c.last = b.last
BY DEF ValuesInv, SameValues

\* A call that goes well leaves the stack as it was.
LEMMA StackAtCall ==
    ASSUME ScriptsSend, OwnersInv, StacksInv, ThreadCall, bridge.addr # NULL, bridge.status = "ok"
    PROVE  ValuesInv(bridge') /\ (bridge'.status = "ok" => bridge'.stack = bridge.stack)
<1>1. AddrInv(bridge) /\ ValuesInv(bridge) /\ use \in Uses
  BY DEF OwnersInv, StacksInv
<1>2. CASE \E name \in DOMAIN bridge.globals :
             /\ bridge.globals[name].type # "table" \/ use.lua.tables
             /\ bridge' = script_thread_get(bridge, name)
  <2>1. PICK name \in DOMAIN bridge.globals :
              /\ bridge.globals[name].type # "table"
              /\ bridge' = script_thread_get(bridge, name)
    BY <1>1, <1>2 DEF ScriptsSend
  <2> QED
    BY <1>1, <2>1, GetKeeps
<1>3. CASE \E name \in DOMAIN bridge.globals, v \in use.lua.values, caught \in BOOLEAN :
             bridge' = script_thread_set(bridge, name, v, caught)
  <2>1. PICK name \in DOMAIN bridge.globals, v \in use.lua.values, caught \in BOOLEAN :
               bridge' = script_thread_set(bridge, name, v, caught)
    BY <1>3
  <2>2. Sendable(v)
    BY <1>1, <2>1 DEF ScriptsSend
  <2> QED
    BY <1>1, <2>1, <2>2, SetKeeps
<1>4. CASE bridge' = script_thread_index(bridge)
  <2>1. bridge.data \in AddrBlocks(bridge)
    BY <1>1 DEF AddrInv, AddrBlocks
  <2>2. AddrInv(bridge') /\ SameValues(bridge, bridge')
    BY <1>1, <1>4, <2>1, CloneKeeps DEF script_thread_index
  <2> QED
    BY <1>1, <2>2, SameValuesKeep DEF AddrInv, Memory
<1>5. CASE \E ptr \in bridge.clones : bridge' = script_thread_newindex(bridge, ptr)
  <2>1. PICK ptr \in bridge.clones : bridge' = script_thread_newindex(bridge, ptr)
    BY <1>5
  <2>2. AddrInv(bridge') /\ SameValues(bridge, bridge')
    BY <1>1, <2>1, AssignKeeps
  <2> QED
    BY <1>1, <2>2, SameValuesKeep DEF AddrInv, Memory
<1>6. CASE \E ptr \in bridge.clones \ Range(bridge.addrs) : bridge' = script_addr_gc(bridge, ptr)
  <2>1. PICK ptr \in bridge.clones : bridge' = script_addr_gc(bridge, ptr)
    BY <1>6
  <2>2. AddrInv(bridge') /\ SameValues(bridge, bridge')
    BY <1>1, <2>1, CollectKeeps
  <2> QED
    BY <1>1, <2>2, SameValuesKeep DEF AddrInv, Memory
<1> QED
  BY <1>2, <1>3, <1>4, <1>5, <1>6 DEF ThreadCall

LEMMA LastRejected ==
    ASSUME NEW b, ValuesInv(b), b.status # "ok"
    PROVE  ~Transferable(b.last)
BY RejectedIs DEF ValuesInv

LEMMA StacksStep ==
    ASSUME ScriptsSend, OwnersInv, StacksInv, [Next]_vars
    PROVE  StacksInv'
<1>1. CASE UNCHANGED vars
  BY <1>1 DEF vars, run, lstates, StacksInv, StacksKept
<1>2. CASE Idle
  <2>1. UNCHANGED <<use, bridge>>
        /\ ((mpc \in Early /\ mpc' \in Early) \/ (mpc \in Late /\ mpc' \in Late \cup {"exit", "done"}))
    BY <1>2 DEF Idle
  <2> QED
    BY <2>1 DEF StacksInv, StacksKept, Early, Late
<1>3. CASE \E answer \in use.lookup : script_resolve(answer)
  <2>1. PICK answer \in use.lookup : script_resolve(answer)
    BY <1>3
  <2>2. IsSeq(answer) /\ use \in Uses /\ IsSeq(use.script.leaves)
    BY <2>1 DEF ScriptsSend, AnswersListed, StacksInv
  <2> DEFINE b == [NoBridge EXCEPT !.stack = use.script.leaves]
  <2>3. /\ AddrInv(bridge') /\ SameValues(b, bridge') /\ (mpc' = "setup" \/ mpc' = "exit") /\ UNCHANGED use
    BY <2>1, <2>2, ResolveIs, Zenon DEF Resolved
  <2>4. ValuesInv(b) /\ b.stack = use.script.leaves /\ b.status = "ok"
    BY <2>2, NoBridgeValues, NoBridgeIs, Zenon
  <2> HIDE DEF b
  <2>5. ValuesInv(bridge') /\ bridge'.stack = use.script.leaves /\ bridge'.status = "ok"
    BY <2>3, <2>4, SameValuesKeep DEF AddrInv, Memory
  <2> QED
    BY <2>2, <2>3, <2>5 DEF StacksInv, StacksKept
<1>4. CASE wrk_setup
  <2>1. PICK c : /\ AddrInv(c) /\ SameValues(bridge, c)
                 /\ bridge' = [c EXCEPT !.stack = Append(c.stack, Userdata)]
                 /\ mpc = "setup" /\ mpc' = "init" /\ UNCHANGED use
    BY <1>4, SetupIs
  <2>2. ValuesInv(c) /\ c.stack = bridge.stack /\ c.status = bridge.status /\ c.last = bridge.last
        /\ DOMAIN c = BridgeFields
    BY <2>1, SameValuesKeep DEF AddrInv, Memory, StacksInv
  <2>3. IsSeq(Append(c.stack, Userdata))
    BY <2>2, Pushed DEF ValuesInv
  <2>4. /\ bridge'.stack = Append(c.stack, Userdata) /\ bridge'.globals = c.globals
        /\ bridge'.given = c.given /\ bridge'.got = c.got /\ bridge'.last = c.last
        /\ bridge'.status = c.status /\ DOMAIN bridge' = DOMAIN c
    BY <2>1, <2>2, StackChanged DEF SameMemory
  <2>5. ValuesInv(bridge')
    BY <2>2, <2>3, <2>4 DEF ValuesInv
  <2>6. bridge.status = "ok" => bridge.stack = use.script.leaves
    BY <2>1 DEF StacksInv, StacksKept
  <2> HIDE DEF ValuesInv
  <2> QED
    BY <2>1, <2>2, <2>4, <2>5, <2>6, LastRejected DEF StacksInv, StacksKept
<1>5. CASE ScriptCalls
  <2>1. /\ mpc = "init" \/ mpc = "done"
        /\ bridge.status = "ok" /\ ThreadCall /\ UNCHANGED <<use, mpc>>
    BY <1>5 DEF ScriptCalls
  <2>2. bridge.addr # NULL
    BY <2>1 DEF OwnersInv, Early
  <2>3. ValuesInv(bridge') /\ (bridge'.status = "ok" => bridge'.stack = bridge.stack)
    BY <2>1, <2>2, StackAtCall
  <2>4. bridge'.status # "ok" => ~Transferable(bridge'.last)
    BY <2>3, LastRejected
  <2> QED
    BY <2>1, <2>3, <2>4 DEF StacksInv, StacksKept
<1>6. CASE script_init
  <2>1. /\ mpc = "init" /\ mpc' = "verify" /\ UNCHANGED use /\ bridge.status = "ok"
        /\ bridge' = [bridge EXCEPT !.stack = Front(bridge.stack)]
    BY <1>6 DEF script_init
  <2>2. use \in Uses /\ ValuesInv(bridge) /\ bridge.stack = Append(use.script.leaves, Userdata)
    BY <2>1 DEF StacksInv, StacksKept
  <2>3. IsSeq(use.script.leaves)
    BY <2>2 DEF ScriptsSend
  <2>4. Front(bridge.stack) = use.script.leaves
    BY <2>2, <2>3, Pushed
  <2>5. /\ bridge'.stack = use.script.leaves /\ bridge'.globals = bridge.globals
        /\ bridge'.given = bridge.given /\ bridge'.got = bridge.got /\ bridge'.last = bridge.last
        /\ bridge'.status = "ok" /\ DOMAIN bridge' = DOMAIN bridge
    <3>1. DOMAIN bridge = BridgeFields
      BY <2>2 DEF ValuesInv
    <3> QED
      BY <2>1, <2>4, <3>1, StackChanged DEF SameMemory
  <2>6. ValuesInv(bridge')
    BY <2>2, <2>3, <2>5 DEF ValuesInv
  <2> QED
    BY <2>1, <2>2, <2>5, <2>6 DEF StacksInv, StacksKept
<1> QED
  BY <1>1, <1>2, <1>3, <1>4, <1>5, <1>6, StepKinds

\* Whatever the script's functions call, the stack of the thread's state is as
\* it was before, and only a value that must not be sent ends the program
\* (script_thread_index's get and set, script_copy_value, script_init).
THEOREM StacksAreKept ==
    ASSUME ScriptsSend
    PROVE  Spec => []StacksKept
<1>1. AnswersListed
  BY DEF ScriptsSend
<1>2. Init => OwnersInv /\ StacksInv
  BY OwnersInit, StacksInit
<1>3. OwnersInv /\ StacksInv /\ [Next]_vars => (OwnersInv /\ StacksInv)'
  BY <1>1, OwnersStep, StacksStep
<1>4. StacksInv => StacksKept
  BY DEF StacksInv
<1> QED
  BY <1>2, <1>3, <1>4, PTL DEF Spec
\* With done() there is nothing on the stack that main's would be below.
DoneIsFirst == \A u \in Uses : u.script.done => u.script.leaves = << >>

ToldRight ==
    /\ report.summary["requests"] = complete /\ report.summary["duration"] = runtime_us
    /\ report.summary["errors"] = Errors

SummaryInv == (mpc = "done" /\ use.script.done) => ToldRight

\* t has the fields in slot index, and what it had before.
FieldsIn(s, index, fields, t) ==
    /\ IsSeq(t) /\ Len(t) = Len(s) /\ \A k \in 1..Len(s) : k # index => t[k] = s[k]
    /\ DOMAIN t[index] = DOMAIN s[index] \cup DOMAIN fields
    /\ t[index] = [n \in DOMAIN t[index] |-> t[index][n]]
    /\ \A n \in DOMAIN fields : t[index][n] = fields[n]
    /\ \A n \in DOMAIN s[index] \ DOMAIN fields : t[index][n] = s[index][n]

LEMMA FieldsSet ==
    ASSUME NEW s, IsSeq(s), NEW index \in 1..Len(s), NEW fields
    PROVE  FieldsIn(s, index, fields, set_fields(s, index, fields))
<1>0. PICK V : s \in Seq(V)
  BY DEF IsSeq
<1> DEFINE e == [n \in DOMAIN s[index] \cup DOMAIN fields |->
                   IF n \in DOMAIN fields THEN fields[n] ELSE s[index][n]]
           t == [s EXCEPT ![index] = e]
<1>1. set_fields(s, index, fields) = t
  BY Zenon DEF set_fields
<1>2. /\ DOMAIN e = DOMAIN s[index] \cup DOMAIN fields /\ e = [n \in DOMAIN e |-> e[n]]
      /\ \A n \in DOMAIN fields : e[n] = fields[n]
      /\ \A n \in DOMAIN s[index] \ DOMAIN fields : e[n] = s[index][n]
  OBVIOUS
<1> HIDE DEF e
<1>3. t \in Seq(V \cup {e}) /\ Len(t) = Len(s) /\ t[index] = e
      /\ \A k \in 1..Len(s) : k # index => t[k] = s[k]
  <2> DEFINE W == V \cup {e}
  <2>1. s \in Seq(W) /\ e \in W
    BY <1>0
  <2> HIDE DEF W
  <2>2. t \in Seq(W) /\ Len(t) = Len(s) /\ t[index] = e
    BY <2>1
  <2>3. \A k \in 1..Len(s) : k # index => t[k] = s[k]
    BY <1>0
  <2> QED
    BY <2>2, <2>3 DEF W
<1> HIDE DEF t
<1>4. IsSeq(t)
  BY <1>3 DEF IsSeq
<1> QED
  BY <1>1, <1>2, <1>3, <1>4 DEF FieldsIn
LEMMA SummaryIs ==
    ASSUME use.script.leaves = << >>
    PROVE  /\ Summary["requests"] = complete /\ Summary["duration"] = runtime_us
           /\ Summary["errors"] = Errors
<1> DEFINE fields == [duration |-> runtime_us, requests |-> complete]
           s0 == Append(<< >>, NewTable)
           s1 == set_fields(s0, 1, fields)
           s2 == Append(s1, NewTable)
           t == set_fields(s2, 2, Errors)
           top == [n \in {"errors"} |-> Last(t)]
           u == set_fields(Front(t), 1, top)
<1>1. Summary = u[1]
  BY Zenon DEF Summary, script_done, script_errors, script_summary, lua_setfield
<1>2. /\ DOMAIN fields = {"duration", "requests"}
      /\ fields["duration"] = runtime_us /\ fields["requests"] = complete
  OBVIOUS
<1> HIDE DEF fields
<1>3. IsSeq(s0) /\ Len(s0) = 1 /\ s0[1] = NewTable /\ DOMAIN NewTable = {}
  <2>1. << >> \in Seq({})
    OBVIOUS
  <2>2. IsSeq(<< >>)
    BY <2>1 DEF IsSeq
  <2>3. IsSeq(s0) /\ Len(s0) = Len(<< >>) + 1 /\ s0[Len(<< >>) + 1] = NewTable
    BY <2>2, Pushed, Zenon
  <2>4. DOMAIN NewTable = {}
    BY DEF NewTable
  <2> HIDE DEF s0
  <2> QED
    BY <2>3, <2>4
<1> HIDE DEF s0
<1>4. /\ IsSeq(s1) /\ Len(s1) = 1 /\ DOMAIN s1[1] = {"duration", "requests"}
      /\ s1[1]["duration"] = runtime_us /\ s1[1]["requests"] = complete
  <2>1. 1 \in 1..Len(s0)
    BY <1>3
  <2>2. FieldsIn(s0, 1, fields, s1)
    BY <1>3, <2>1, FieldsSet
  <2> HIDE DEF s1
  <2> QED
    BY <1>2, <1>3, <2>2 DEF FieldsIn
<1> HIDE DEF s1
<1>5. IsSeq(s2) /\ Len(s2) = 2 /\ s2[1] = s1[1] /\ s2[2] = NewTable
  <2>1. IsSeq(s1)
    BY <1>4
  <2>2. IsSeq(s2) /\ Len(s2) = Len(s1) + 1 /\ s2[Len(s1) + 1] = NewTable
    BY <2>1, Pushed, Zenon
  <2>3. \A k \in 1..Len(s1) : s2[k] = s1[k]
    BY <2>1, Pushed, ZenonT(60)
  <2> HIDE DEF s2
  <2> QED
    BY <1>4, <2>2, <2>3
<1> HIDE DEF s2
<1>6. IsSeq(t) /\ Len(t) = 2 /\ t[1] = s1[1] /\ t[2] = Errors
  <2>1. 2 \in 1..Len(s2)
    BY <1>5
  <2>2. FieldsIn(s2, 2, Errors, t)
    BY <1>5, <2>1, FieldsSet
  <2> HIDE DEF t
  <2>3. Errors = [n \in DOMAIN Errors |-> Errors[n]]
    BY DEF Errors
  <2>4. IsSeq(t) /\ Len(t) = 2 /\ t[1] = s1[1]
    BY <1>5, <2>2 DEF FieldsIn
  <2>5. DOMAIN t[2] = DOMAIN Errors /\ t[2] = [n \in DOMAIN t[2] |-> t[2][n]]
        /\ \A n \in DOMAIN Errors : t[2][n] = Errors[n]
    BY <1>3, <1>5, <2>2 DEF FieldsIn
  <2> QED
    BY <2>3, <2>4, <2>5
<1> HIDE DEF t
<1>7. /\ IsSeq(Front(t)) /\ Len(Front(t)) = 1 /\ Front(t)[1] = s1[1] /\ Last(t) = Errors
  <2>1. PICK V : t \in Seq(V)
    BY <1>6 DEF IsSeq
  <2> DEFINE f == SubSeq(t, 1, 1)
  <2>2. f \in Seq(V) /\ Len(f) = 1 /\ f[1] = t[1]
    BY <1>6, <2>1
  <2>3. Front(t) = f /\ Last(t) = t[2]
    BY <1>6 DEF Front, Last
  <2> HIDE DEF f
  <2> QED
    BY <1>6, <2>2, <2>3 DEF IsSeq
<1>8. DOMAIN top = {"errors"} /\ top["errors"] = Errors
  BY <1>7
<1> DEFINE l == Front(t)
<1> HIDE DEF top, l
<1>9. FieldsIn(l, 1, top, u)
  <2>1. 1 \in 1..Len(l) /\ IsSeq(l)
    BY <1>7 DEF l
  <2>2. FieldsIn(l, 1, top, set_fields(l, 1, top))
    BY <2>1, FieldsSet
  <2> QED
    BY <2>2 DEF l
<1> HIDE DEF u
<1>10. u[1]["errors"] = Errors /\ u[1]["requests"] = complete /\ u[1]["duration"] = runtime_us
  <2>1. l[1] = s1[1]
    BY <1>7 DEF l
  <2>2. "requests" \in DOMAIN s1[1] \ DOMAIN top /\ "duration" \in DOMAIN s1[1] \ DOMAIN top
        /\ "errors" \in DOMAIN top
    BY <1>4, <1>8
  <2> QED
    BY <1>4, <1>8, <1>9, <2>1, <2>2 DEF FieldsIn
<1> QED
  BY <1>1, <1>10

LEMMA SummaryStep ==
    ASSUME DoneIsFirst, use \in Uses, SummaryInv, [Next]_vars
    PROVE  SummaryInv'
<1>1. CASE UNCHANGED vars
  BY <1>1 DEF vars, run, SummaryInv, ToldRight
<1>2. CASE Idle
  <2>1. SUFFICES ASSUME mpc' = "done", use.script.done
                 PROVE  ToldRight'
    BY <1>2 DEF SummaryInv, Idle
  <2>2. report'.summary = Summary /\ UNCHANGED <<complete, runtime_us>>
    BY <1>2, <2>1 DEF Idle
  <2>3. use.script.leaves = << >>
    BY <2>1 DEF DoneIsFirst
  <2> QED
    BY <2>2, <2>3, SummaryIs DEF ToldRight
<1>3. CASE \E answer \in use.lookup : script_resolve(answer)
  <2>1. mpc' = "setup" \/ mpc' = "exit"
    BY <1>3, Zenon DEF script_resolve, Exit
  <2> QED
    BY <2>1 DEF SummaryInv
<1>4. CASE wrk_setup
  BY <1>4 DEF wrk_setup, SummaryInv
<1>5. CASE ScriptCalls
  BY <1>5 DEF ScriptCalls, SummaryInv, ToldRight
<1>6. CASE script_init
  BY <1>6 DEF script_init, SummaryInv
<1> QED
  BY <1>1, <1>2, <1>3, <1>4, <1>5, <1>6, StepKinds

LEMMA ValuesAre ==
    ASSUME StacksInv, SummaryInv
    PROVE  ValuesArrive
<1>1. ValuesInv(bridge)
  BY DEF StacksInv
<1>2. \A name \in DOMAIN bridge.globals :
        ~HasNul(bridge.given[name]) => bridge.globals[name] = bridge.given[name]
  <2> TAKE name \in DOMAIN bridge.globals
  <2>1. Sendable(bridge.given[name]) /\ bridge.globals[name] = CopyOf(bridge.given[name])
    BY <1>1 DEF ValuesInv
  <2> QED
    BY <2>1, SentIs
<1>3. bridge.got[1] = bridge.got[2]
  BY <1>1 DEF ValuesInv
<1> QED
  BY <1>2, <1>3 DEF ValuesArrive, SummaryInv, ToldRight

\* A global is what it was last set to and get returns it, through the copies of
\* script_copy_value, and done() gets each counter under its own name
\* (script_summary, script_errors, script_done).
THEOREM ValuesDoArrive ==
    ASSUME ScriptsSend, DoneIsFirst
    PROVE  Spec => []ValuesArrive
<1>1. AnswersListed
  BY DEF ScriptsSend
<1>2. Init => OwnersInv /\ StacksInv /\ SummaryInv
  <2>1. ASSUME Init
        PROVE  SummaryInv
    <3>1. mpc = "args"
      BY <2>1 DEF Init
    <3> QED
      BY <3>1 DEF SummaryInv
  <2> QED
    BY <2>1, OwnersInit, StacksInit
<1>3. OwnersInv /\ StacksInv /\ SummaryInv /\ [Next]_vars => (OwnersInv /\ StacksInv /\ SummaryInv)'
  <2>1. OwnersInv => use \in Uses
    BY DEF OwnersInv
  <2> QED
    BY <1>1, <2>1, OwnersStep, StacksStep, SummaryStep
<1>4. StacksInv /\ SummaryInv => ValuesArrive
  BY ValuesAre
<1> QED
  BY <1>2, <1>3, <1>4, PTL DEF Spec

-----------------------------------------------------------------------------
(***************************************************************************)
(* The check of the request: the number of requests that the parser finds  *)
(* in a text is a number, whatever the text.                               *)
(***************************************************************************)
ParserFields == { "type", "state", "flags", "header_state", "cand", "index", "nread",
                  "content_length", "http_major", "http_minor", "status_code", "method",
                  "http_errno", "upgrade" }

RequestStates == {
    "s_dead", "s_header_field_start", "s_header_field", "s_header_value_discard_ws",
    "s_header_value_discard_ws_almost_done", "s_header_value_discard_lws",
    "s_header_value_start", "s_header_value", "s_header_value_lws", "s_header_almost_done",
    "s_headers_almost_done", "s_headers_done", "s_chunk_size_start", "s_chunk_size",
    "s_chunk_parameters", "s_chunk_size_almost_done", "s_chunk_data",
    "s_chunk_data_almost_done", "s_chunk_data_done", "s_body_identity",
    "s_body_identity_eof", "s_message_done", "s_start_req", "s_req_method",
    "s_req_spaces_before_url", "s_req_schema", "s_req_schema_slash",
    "s_req_schema_slash_slash", "s_req_server_start", "s_req_server",
    "s_req_server_with_at", "s_req_path", "s_req_query_string_start",
    "s_req_query_string", "s_req_fragment_start", "s_req_fragment", "s_req_http_start",
    "s_req_http_H", "s_req_http_HT", "s_req_http_HTT", "s_req_http_HTTP",
    "s_req_http_major", "s_req_http_dot", "s_req_http_minor", "s_req_http_end",
    "s_req_line_almost_done" }

InRequest(p) == DOMAIN p = ParserFields /\ p.type = HTTP_REQUEST /\ p.state \in RequestStates

Counts(u) == DOMAIN u = {"count", "seen", "url", "text"} /\ u.count \in Nat

Checking(call) ==
    /\ DOMAIN call = {"p", "u", "data", "i", "run", "fast", "again", "mark", "ret", "failed"}
    /\ InRequest(call.p) /\ Counts(call.u)

LEMMA GotoChecks ==
    ASSUME NEW call, Checking(call), NEW s \in RequestStates
    PROVE  Checking(P!Goto(call, s)) /\ Checking(P!Reexecute(call, s))
BY DEF Checking, InRequest, ParserFields, P!Goto, P!Reexecute

LEMMA MacrosCheck ==
    ASSUME NEW call, Checking(call)
    PROVE  /\ \A v : Checking(P!Return(call, v))
           /\ \A e : Checking(P!Fail(call, e))
           /\ \A f : Checking(P!Flag(call, f))
           /\ \A c : Checking(P!assert(call, c))
           /\ \A kind : Checking(P!MARK(call, kind))
           /\ \A v : Checking(P!COUNT_HEADER_SIZE(call, v))
           /\ Checking(P!BeginMessage(call))
<1> USE DEF Checking, InRequest, ParserFields
<1>1. \A v : Checking(P!Return(call, v))
  BY DEF P!Return
<1>2. ASSUME NEW y, Checking(y) PROVE \A e : Checking(P!Fail(y, e))
  BY <1>2 DEF P!Fail
<1>3. \A f : Checking(P!Flag(call, f))
  BY DEF P!Flag
<1>4. \A c : Checking(P!assert(call, c))
  BY DEF P!assert
<1>5. \A kind : Checking(P!MARK(call, kind))
  BY DEF P!MARK
<1>6. \A v : Checking(P!COUNT_HEADER_SIZE(call, v))
  <2> TAKE v
  <2> DEFINE y == [call EXCEPT !.p.nread = @ + v]
  <2>1. Checking(y)
    OBVIOUS
  <2>2. P!COUNT_HEADER_SIZE(call, v) \in {y, P!Fail(y, "HEADER_OVERFLOW")}
    BY DEF P!COUNT_HEADER_SIZE
  <2> HIDE DEF y, Checking
  <2> QED
    BY <1>2, <2>1, <2>2
<1>7. Checking(P!BeginMessage(call))
  BY DEF P!BeginMessage
<1> HIDE DEF Checking
<1> QED
  BY <1>1, <1>2, <1>3, <1>4, <1>5, <1>6, <1>7

LEMMA CountsByNotify ==
    ASSUME NEW u, Counts(u), NEW p, NEW kind
    PROVE  OnNotify(kind, p, u).p = p /\ Counts(OnNotify(kind, p, u).u)
BY DEF OnNotify, verify_request, Counts

LEMMA CountsByData ==
    ASSUME NEW u, Counts(u), NEW p, NEW kind, NEW text
    PROVE  OnData(kind, text, p, u).p = p /\ Counts(OnData(kind, text, p, u).u)
<1>1. CASE kind = "url"
  BY <1>1 DEF OnData, Counts
<1>2. CASE kind \in {"header_field", "header_value"}
  BY <1>2 DEF OnData, Counts
<1>3. CASE kind \notin {"url", "header_field", "header_value"}
  BY <1>3 DEF OnData, Counts
<1> QED
  BY <1>1, <1>2, <1>3

LEMMA CalledChecks ==
    ASSUME NEW call, Checking(call), NEW kind, NEW r, r.p = call.p, Counts(r.u), NEW er
    PROVE  Checking(P!Called(call, kind, r, er))
<1> DEFINE z == [call EXCEPT !.p = r.p, !.u = r.u]
           y == P!assert(z, call.p.http_errno = "OK")
           failed == [y EXCEPT !.p.http_errno = "CB_" \o kind]
<1>1. Checking(z)
  BY DEF Checking
<1> HIDE DEF z
<1>2. Checking(y)
  BY <1>1, MacrosCheck
<1>3. P!Called(call, kind, r, er) = IF r.rc # 0 THEN P!Return(failed, er) ELSE y
  BY DEF P!Called, z
<1> HIDE DEF y
<1>4. Checking(failed)
  BY <1>2 DEF Checking, InRequest, ParserFields
<1> HIDE DEF failed
<1> QED
  BY <1>2, <1>3, <1>4, MacrosCheck

LEMMA CallbacksCheck ==
    ASSUME NEW call, Checking(call), NEW kind
    PROVE  /\ \A er : Checking(P!CALLBACK_NOTIFY_(call, kind, er))
           /\ Checking(P!CALLBACK_NOTIFY(call, kind))
           /\ Checking(P!CALLBACK_NOTIFY_NOADVANCE(call, kind))
           /\ \A last, er : Checking(P!CALLBACK_DATA_(call, kind, last, er))
           /\ Checking(P!CALLBACK_DATA(call, kind))
           /\ Checking(P!CALLBACK_DATA_NOADVANCE(call, kind))
<1>1. \A er : Checking(P!CALLBACK_NOTIFY_(call, kind, er))
  BY CountsByNotify, CalledChecks DEF P!CALLBACK_NOTIFY_, Checking
<1>2. ASSUME NEW last, NEW er PROVE Checking(P!CALLBACK_DATA_(call, kind, last, er))
  <2> DEFINE w == [call EXCEPT !.mark[kind] = 0]
             text == SubSeq(call.data, call.mark[kind], last)
             r == OnData(kind, text, call.p, call.u)
  <2>1. Checking(w) /\ w.p = call.p
    BY DEF Checking
  <2>2. r.p = call.p /\ Counts(r.u)
    <3> HIDE DEF text
    <3> QED
      BY CountsByData DEF Checking
  <2>3. P!CALLBACK_DATA_(call, kind, last, er)
          = IF call.mark[kind] = 0 THEN P!assert(call, call.p.http_errno = "OK")
            ELSE P!Called(w, kind, r, er)
    BY Zenon DEF P!CALLBACK_DATA_
  <2> HIDE DEF w, r
  <2>4. Checking(P!Called(w, kind, r, er))
    BY <2>1, <2>2, CalledChecks
  <2>5. Checking(P!assert(call, call.p.http_errno = "OK"))
    BY MacrosCheck
  <2> QED
    BY <2>3, <2>4, <2>5
<1> QED
  BY <1>1, <1>2 DEF P!CALLBACK_NOTIFY, P!CALLBACK_NOTIFY_NOADVANCE, P!CALLBACK_DATA,
                    P!CALLBACK_DATA_NOADVANCE

\* A parser that differs only in what is neither its type nor its state.
LEMMA ParserChecks ==
    ASSUME NEW call, Checking(call), NEW q, InRequest(q)
    PROVE  Checking([call EXCEPT !.p = q])
BY DEF Checking

LEMMA FieldsCheck ==
    ASSUME NEW p, InRequest(p), NEW field \in ParserFields \ {"type", "state"}, NEW v
    PROVE  InRequest([p EXCEPT ![field] = v])
BY DEF InRequest, ParserFields

LEMMA MatchChecks ==
    ASSUME NEW p, InRequest(p), NEW c
    PROVE  /\ \A lost : InRequest(P!Match(p, c, lost))
           /\ InRequest(P!General(p)) /\ InRequest(P!OptionStart(p, c)) /\ InRequest(P!NextOption(p))
<1>1. ASSUME NEW lost PROVE InRequest(P!Match(p, c, lost))
  <2> DEFINE k == p.index + 1
             left == {w \in p.cand : k < Len(w[1]) /\ P!At(w[1], k + 1) = c}
             whole == {w \in left : Len(w[1]) = k + 1}
             next == IF whole # {} THEN (CHOOSE w \in whole : TRUE)[2]
                     ELSE IF left = {} THEN lost ELSE p.header_state
             rest == left \ whole
  <2>1. P!Match(p, c, lost) = [p EXCEPT !.index = k, !.cand = rest, !.header_state = next]
    BY Zenon DEF P!Match
  <2> HIDE DEF k, rest, next
  <2> QED
    BY <2>1 DEF InRequest, ParserFields
<1>2. InRequest(P!General(p)) /\ InRequest(P!NextOption(p))
  BY DEF P!General, P!NextOption, InRequest, ParserFields
<1>3. InRequest(P!OptionStart(p, c))
  <2> DEFINE words == P!Begin(P!OptionWords, c)
  <2>1. P!OptionStart(p, c)
          = IF words = {} THEN [p EXCEPT !.header_state = "h_matching_connection_token", !.cand = {}]
            ELSE [p EXCEPT !.header_state = "h_matching_connection_word", !.cand = words]
    BY Zenon DEF P!OptionStart
  <2> HIDE DEF words
  <2> QED
    BY <2>1 DEF InRequest, ParserFields
<1> QED
  BY <1>1, <1>2, <1>3

-----------------------------------------------------------------------------
\* One look at a byte, state by state.
LEMMA ExpectChecks ==
    ASSUME NEW call, Checking(call), call.p.state \in DOMAIN P!Expected, NEW ch
    PROVE  Checking(P!Expect(call, ch))
<1>1. P!Expected[call.p.state][2] \in RequestStates
  <2>1. call.p.state \in { "s_req_http_H", "s_req_http_HT", "s_req_http_HTT", "s_req_http_HTTP",
                        "s_req_http_dot", "s_req_line_almost_done", "s_header_almost_done",
                        "s_header_value_discard_ws_almost_done" }
    BY DEF P!Expected, Checking, InRequest, RequestStates
  <2>2. /\ P!Expected["s_req_http_H"][2] = "s_req_http_HT"
        /\ P!Expected["s_req_http_HT"][2] = "s_req_http_HTT"
        /\ P!Expected["s_req_http_HTT"][2] = "s_req_http_HTTP"
        /\ P!Expected["s_req_http_HTTP"][2] = "s_req_http_major"
        /\ P!Expected["s_req_http_dot"][2] = "s_req_http_minor"
        /\ P!Expected["s_req_line_almost_done"][2] = "s_header_field_start"
        /\ P!Expected["s_header_almost_done"][2] = "s_header_value_lws"
        /\ P!Expected["s_header_value_discard_ws_almost_done"][2] = "s_header_value_discard_lws"
    BY DEF P!Expected
  <2> QED
    BY <2>1, <2>2 DEF RequestStates
<1> DEFINE s == P!Expected[call.p.state][2]
           e == P!Expected[call.p.state][3]
<1>2. P!Expect(call, ch) = P!Goto(call, s) \/ P!Expect(call, ch) = P!Fail(call, e)
  BY DEF P!Expect
<1> HIDE DEF s, e
<1> QED
  BY <1>1, <1>2, GotoChecks, MacrosCheck DEF s

LEMMA VersionChecks ==
    ASSUME NEW call, Checking(call), call.p.state \in P!VersionStates, NEW ch
    PROVE  Checking(P!VersionDigit(call, ch))
<1> DEFINE s == call.p.state
           y == IF s \in {"s_res_http_major", "s_req_http_major"}
                THEN [call EXCEPT !.p.http_major = P!Unhex[ch]]
                ELSE [call EXCEPT !.p.http_minor = P!Unhex[ch]]
           next == IF s = "s_req_http_major" THEN "s_req_http_dot" ELSE "s_req_http_end"
<1>1. s = "s_req_http_major" \/ s = "s_req_http_minor"
  BY DEF P!VersionStates, Checking, InRequest, RequestStates
<1>2. Checking(y)
  BY DEF Checking, InRequest, ParserFields
<1>3. P!VersionDigit(call, ch) \in {P!Goto(y, next), P!Fail(call, "INVALID_VERSION")}
  BY <1>1 DEF P!VersionDigit
<1>4. next \in RequestStates
  BY DEF RequestStates
<1> HIDE DEF y, next
<1> QED
  BY <1>2, <1>3, <1>4, GotoChecks, MacrosCheck

LEMMA StartChecks ==
    ASSUME NEW call, Checking(call), NEW ch
    PROVE  Checking(P!StartRequest(call, ch))
<1> DEFINE y == P!BeginMessage(call)
           z == [y EXCEPT !.p.method = P!FirstMethod[ch], !.p.index = 1]
           w == P!Goto(z, "s_req_method")
<1>1. Checking(y)
  BY MacrosCheck
<1> HIDE DEF y
<1>2. Checking(z)
  BY <1>1 DEF Checking, InRequest, ParserFields
<1> HIDE DEF z
<1>3. Checking(w)
  BY <1>2, GotoChecks DEF RequestStates
<1>4. P!StartRequest(call, ch)
        \in {call, P!CALLBACK_NOTIFY(w, "message_begin"), P!Fail(y, "INVALID_METHOD")}
  BY DEF P!StartRequest, z, y
<1> HIDE DEF w
<1>5. Checking(P!CALLBACK_NOTIFY(w, "message_begin"))
  BY <1>3, CallbacksCheck
<1>6. Checking(P!Fail(y, "INVALID_METHOD"))
  BY <1>1, MacrosCheck
<1> QED
  BY <1>4, <1>5, <1>6

LEMMA MethodChecks ==
    ASSUME NEW call, Checking(call), NEW ch
    PROVE  Checking(P!Method(call, ch))
<1> DEFINE y == [call EXCEPT !.p.index = call.p.index + 1]
           switch == {w \in P!MethodSwitch : w[1] = call.p.method /\ w[2] = call.p.index /\ w[3] = ch}
           method == (CHOOSE w \in switch : TRUE)[4]
           z == [y EXCEPT !.p.method = method]
<1>1. Checking(y)
  BY DEF Checking, InRequest, ParserFields
<1>2. P!Method(call, ch)
        \in {P!Goto(y, "s_req_spaces_before_url"), y, z, P!Fail(call, "INVALID_METHOD")}
  BY Zenon DEF P!Method
<1> HIDE DEF y, method
<1>3. Checking(z)
  BY <1>1 DEF Checking, InRequest, ParserFields
<1>4. Checking(P!Goto(y, "s_req_spaces_before_url"))
  BY <1>1, GotoChecks DEF RequestStates
<1>5. Checking(P!Fail(call, "INVALID_METHOD"))
  BY MacrosCheck
<1> QED
  BY <1>1, <1>2, <1>3, <1>4, <1>5

LEMMA DeadChecks ==
    ASSUME NEW call, Checking(call), NEW ch
    PROVE  Checking(P!Dead(call, ch))
BY MacrosCheck DEF P!Dead

LEMMA VersionEndChecks ==
    ASSUME NEW call, Checking(call), NEW ch
    PROVE  Checking(P!RequestVersion(call, ch))
<1>1. \A s \in {"s_req_http_H", "s_req_line_almost_done", "s_header_field_start"} :
         Checking(P!Goto(call, s))
  BY GotoChecks DEF RequestStates
<1>2. \A e : Checking(P!Fail(call, e))
  BY MacrosCheck
<1> QED
  BY <1>1, <1>2 DEF P!RequestVersion

\* Where the table of the URL leads.
LEMMA RowsLead ==
    /\ DOMAIN P!UrlTable \subseteq RequestStates
    /\ \A s \in DOMAIN P!UrlTable : \A r \in P!UrlTable[s] : r[2] \in RequestStates
<1>1. \A r \in P!ServerRows : r[2] \in RequestStates
  BY DEF P!ServerRows, RequestStates
<1>2. \A r \in P!QueryRows : r[2] \in RequestStates
  BY DEF P!QueryRows, RequestStates
<1> DEFINE Starts == { <<{"/", "*"}, "s_req_path">>, <<P!Alpha, "s_req_schema">> }
           Schema == { <<P!Alpha, "s_req_schema">>, <<{":"}, "s_req_schema_slash">> }
           Slash == { <<{"/"}, "s_req_schema_slash_slash">> }
           SlashSlash == { <<{"/"}, "s_req_server_start">> }
           Path == { <<P!UrlChar, "s_req_path">>, <<{"?"}, "s_req_query_string_start">>,
                     <<{"#"}, "s_req_fragment_start">> }
           Frag == { <<P!UrlChar \cup {"?"}, "s_req_fragment">>, <<{"#"}, "s_req_fragment_start">> }
           More == { <<P!UrlChar \cup {"?", "#"}, "s_req_fragment">> }
           At1 == {r \in P!ServerRows : "@" \notin r[1]}
           Lead == {Starts, Schema, Slash, SlashSlash, Path, Frag, More, At1, P!ServerRows, P!QueryRows}
<1>3. \A r \in Starts \cup Schema \cup Slash \cup SlashSlash \cup Path \cup Frag \cup More :
         r[2] \in RequestStates
  BY DEF RequestStates
<1>4. \A r \in At1 : r[2] \in RequestStates
  BY <1>1
<1>5. \A s \in DOMAIN P!UrlTable : P!UrlTable[s] \in Lead /\ s \in RequestStates
  <2> HIDE DEF Starts, Schema, Slash, SlashSlash, Path, Frag, More, At1
  <2>1. P!UrlTable = [
            s_req_spaces_before_url |-> Starts, s_req_schema |-> Schema,
            s_req_schema_slash |-> Slash, s_req_schema_slash_slash |-> SlashSlash,
            s_req_server_start |-> P!ServerRows, s_req_server |-> P!ServerRows,
            s_req_server_with_at |-> At1, s_req_path |-> Path,
            s_req_query_string_start |-> P!QueryRows, s_req_query_string |-> P!QueryRows,
            s_req_fragment_start |-> Frag, s_req_fragment |-> More ]
    BY Zenon DEF P!UrlTable, Starts, Schema, Slash, SlashSlash, Path, Frag, More, At1
  <2> QED
    BY <2>1 DEF RequestStates
<1> HIDE DEF Starts, Schema, Slash, SlashSlash, Path, Frag, More, At1
<1>6. \A R \in Lead : \A r \in R : r[2] \in RequestStates
  BY <1>1, <1>2, <1>3, <1>4
<1> QED
  BY <1>5, <1>6

LEMMA UrlByteChecks ==
    ASSUME NEW call, Checking(call), NEW ch
    PROVE  Checking(P!UrlByte(call, ch))
<1> DEFINE s == P!parse_url_char(call.p.state, ch)
<1>1. s \in RequestStates
  <2> DEFINE t == call.p.state
             R == {r \in P!UrlTable[t] : ch \in r[1]}
  <2>1. s = P!Follow(P!UrlTable, t, ch, "s_dead")
    BY DEF P!parse_url_char
  <2>2. CASE t \in DOMAIN P!UrlTable /\ \E r \in P!UrlTable[t] : ch \in r[1]
    <3>1. PICK r \in P!UrlTable[t] : r = CHOOSE q \in P!UrlTable[t] : ch \in q[1]
      BY <2>2, Zenon
    <3>2. s = r[2]
      BY <2>1, <2>2, <3>1, Zenon DEF P!Follow
    <3> QED
      BY <2>2, <3>1, <3>2, RowsLead, Zenon
  <2>3. CASE ~(t \in DOMAIN P!UrlTable /\ \E r \in P!UrlTable[t] : ch \in r[1])
    <3>1. s = "s_dead"
      BY <2>1, <2>3, Zenon DEF P!Follow
    <3> QED
      BY <3>1 DEF RequestStates
  <2> QED
    BY <2>2, <2>3
<1>2. P!UrlByte(call, ch) = IF s = "s_dead" THEN P!Fail(P!Goto(call, s), "INVALID_URL") ELSE P!Goto(call, s)
  BY Zenon DEF P!UrlByte
<1> HIDE DEF s
<1>3. Checking(P!Goto(call, s))
  BY <1>1, GotoChecks
<1>4. Checking(P!Fail(P!Goto(call, s), "INVALID_URL"))
  BY <1>3, MacrosCheck
<1> QED
  BY <1>2, <1>3, <1>4

LEMMA UrlChecks ==
    ASSUME NEW call, Checking(call), NEW ch
    PROVE  Checking(P!RequestUrl(call, ch))
<1> DEFINE m == P!MARK(call, "url")
           s == IF ch = "\r" THEN "s_req_line_almost_done" ELSE "s_header_field_start"
           y == [call EXCEPT !.p.http_major = 0, !.p.http_minor = 9, !.p.state = s]
           v == P!Goto(m, "s_req_server_start")
           w == P!Goto(call, "s_req_http_start")
<1>1. Checking(m)
  BY MacrosCheck
<1>2. Checking(w)
  BY GotoChecks DEF RequestStates
<1>3. Checking(y)
  <2>1. s \in RequestStates
    BY DEF RequestStates
  <2> HIDE DEF s
  <2> QED
    BY <2>1 DEF Checking, InRequest, ParserFields
<1> HIDE DEF y, w, m
<1>4. Checking(v)
  BY <1>1, GotoChecks DEF RequestStates
<1> HIDE DEF v
<1>5. P!RequestUrl(call, ch) \in
        { call, P!UrlByte(v, ch), P!UrlByte(m, ch), P!UrlByte(call, ch), P!Fail(call, "INVALID_URL"),
          P!CALLBACK_DATA(w, "url"), P!CALLBACK_DATA(y, "url") }
  BY Zenon DEF P!RequestUrl, m, v, w, y
<1>6. Checking(P!UrlByte(v, ch)) /\ Checking(P!UrlByte(m, ch)) /\ Checking(P!UrlByte(call, ch))
  BY <1>1, <1>4, UrlByteChecks
<1>7. Checking(P!Fail(call, "INVALID_URL"))
  BY MacrosCheck
<1>8. Checking(P!CALLBACK_DATA(w, "url")) /\ Checking(P!CALLBACK_DATA(y, "url"))
  BY <1>2, <1>3, CallbacksCheck
<1> QED
  BY <1>5, <1>6, <1>7, <1>8

-----------------------------------------------------------------------------
\* What changes neither the type nor the state.
LEMMA RunChecks ==
    ASSUME NEW call, Checking(call)
    PROVE  /\ \A k : Checking([call EXCEPT !.run = k])
           /\ \A v : Checking([call EXCEPT !.fast = v])
           /\ \A v : Checking([call EXCEPT !.again = v])
           /\ \A v : Checking([call EXCEPT !.p.nread = v])
           /\ \A v : Checking([call EXCEPT !.p.content_length = v])
           /\ \A v : Checking([call EXCEPT !.p.header_state = v])
           /\ \A v : Checking([call EXCEPT !.p.upgrade = v])
BY DEF Checking, InRequest, ParserFields

LEMMA FieldStartChecks ==
    ASSUME NEW call, Checking(call), NEW ch
    PROVE  Checking(P!HeaderFieldStart(call, ch))
<1> DEFINE words == P!Begin(P!HeaderNames, P!tokens(ch))
           h == IF words = {} THEN "h_general" ELSE "h_matching"
           s == [call EXCEPT !.p.index = 0, !.p.state = "s_header_field"]
           y == P!MARK(s, "header_field")
           z == [y EXCEPT !.p.cand = words, !.p.header_state = h]
<1>1. P!HeaderFieldStart(call, ch) \in
        { P!Goto(call, "s_headers_almost_done"), P!Reexecute(call, "s_headers_almost_done"),
          P!Fail(call, "INVALID_HEADER_TOKEN"), z }
  BY Zenon DEF P!HeaderFieldStart
<1> HIDE DEF words, h
<1>2. Checking(s)
  BY DEF Checking, InRequest, ParserFields, RequestStates
<1> HIDE DEF s
<1>3. Checking(y)
  BY <1>2, MacrosCheck
<1> HIDE DEF y
<1>4. Checking(z)
  BY <1>3 DEF Checking, InRequest, ParserFields
<1> HIDE DEF z
<1>5. Checking(P!Goto(call, "s_headers_almost_done"))
      /\ Checking(P!Reexecute(call, "s_headers_almost_done"))
  BY GotoChecks DEF RequestStates
<1>6. Checking(P!Fail(call, "INVALID_HEADER_TOKEN"))
  BY MacrosCheck
<1> QED
  BY <1>1, <1>4, <1>5, <1>6

LEMMA EndRunChecks ==
    ASSUME NEW call, Checking(call)
    PROVE  Checking(P!EndRun(call))
<1> DEFINE a == [call EXCEPT !.run = 0]
           b == [a EXCEPT !.fast = FALSE]
<1>1. Checking(a)
  BY RunChecks
<1>2. P!EndRun(call) = P!COUNT_HEADER_SIZE(b, call.i - call.run)
  BY DEF P!EndRun
<1> HIDE DEF a
<1>3. Checking(b)
  BY <1>1, RunChecks
<1> HIDE DEF b
<1> QED
  BY <1>2, <1>3, MacrosCheck

LEMMA FieldChecks ==
    ASSUME NEW call, Checking(call), NEW ch
    PROVE  Checking(P!HeaderField(call, ch))
<1> DEFINE in == IF call.run = 0 THEN [call EXCEPT !.run = call.i] ELSE call
           out == P!EndRun(in)
           q == P!Match(in.p, P!tokens(ch), "h_general")
           g == P!General(in.p)
           c == P!Goto(out, "s_header_value_discard_ws")
<1>1. Checking(in)
  BY RunChecks
<1> HIDE DEF in
<1>2. Checking(out)
  BY <1>1, EndRunChecks
<1>3. InRequest(q) /\ InRequest(g)
  BY <1>1, MatchChecks DEF Checking
<1>4. P!HeaderField(call, ch) \in {[in EXCEPT !.p = q], [in EXCEPT !.p = g], out,
         P!CALLBACK_DATA(c, "header_field"), P!Fail(out, "INVALID_HEADER_TOKEN")}
  <2>1. [in EXCEPT !.p = IF @.header_state = "h_matching"
                         THEN P!Match(@, P!tokens(ch), "h_general") ELSE P!General(@)]
          \in {[in EXCEPT !.p = q], [in EXCEPT !.p = g]}
    BY <1>1 DEF Checking
  <2> QED
    BY <2>1, Zenon DEF P!HeaderField, in, out
<1> HIDE DEF out, q, g
<1>5. Checking(c)
  BY <1>2, GotoChecks DEF RequestStates
<1> HIDE DEF c
<1>6. Checking([in EXCEPT !.p = q]) /\ Checking([in EXCEPT !.p = g])
  BY <1>1, <1>3, ParserChecks
<1>7. Checking(P!CALLBACK_DATA(c, "header_field"))
  BY <1>5, CallbacksCheck
<1>8. Checking(P!Fail(out, "INVALID_HEADER_TOKEN"))
  BY <1>2, MacrosCheck
<1> QED
  BY <1>2, <1>4, <1>6, <1>7, <1>8

LEMMA ValueStartChecks ==
    ASSUME NEW call, Checking(call), NEW ch
    PROVE  Checking(P!HeaderValueStart(call, ch))
<1> DEFINE s == [call EXCEPT !.p.state = "s_header_value", !.p.index = 0]
           y == P!MARK(s, "header_value")
           f == P!Flag(y, "UPGRADE")
           n == P!Flag(y, "CONTENTLENGTH")
           m == [y EXCEPT !.p.header_state = "h_matching_chunked"]
           c == P!LOWER(ch)
<1>1. Checking(s)
  BY DEF Checking, InRequest, ParserFields, RequestStates
<1>2. P!HeaderValueStart(call, ch) \in
        { [f EXCEPT !.p = P!General(f.p)], [m EXCEPT !.p.cand = P!ChunkedWord],
          [y EXCEPT !.p = P!General(y.p)], P!Fail(y, "INVALID_CONTENT_LENGTH"),
          P!Fail(y, "UNEXPECTED_CONTENT_LENGTH"), [n EXCEPT !.p.content_length = P!Unhex[ch]],
          [y EXCEPT !.p = P!OptionStart(y.p, c)], y }
  <2> HIDE DEF c
  <2>1. m = [y EXCEPT !.p.header_state = "h_matching_chunked"]
    OBVIOUS
  <2>2. /\ [f EXCEPT !.p = P!General(@)] = [f EXCEPT !.p = P!General(f.p)]
        /\ [y EXCEPT !.p = P!General(@)] = [y EXCEPT !.p = P!General(y.p)]
        /\ [y EXCEPT !.p = P!OptionStart(@, c)] = [y EXCEPT !.p = P!OptionStart(y.p, c)]
        /\ [y EXCEPT !.p.header_state = "h_matching_chunked", !.p.cand = P!ChunkedWord]
             = [m EXCEPT !.p.cand = P!ChunkedWord]
    OBVIOUS
  <2> HIDE DEF m
  <2> QED
    BY <2>2, Zenon DEF P!HeaderValueStart, c, y, f, n, s
<1> HIDE DEF s, c
<1>3. Checking(y)
  BY <1>1, MacrosCheck
<1> HIDE DEF y
<1>4. Checking(f) /\ Checking(n)
  BY <1>3, MacrosCheck
<1> HIDE DEF f, n
<1>5. Checking(m)
  BY <1>3, RunChecks
<1> HIDE DEF m
<1>6. Checking([f EXCEPT !.p = P!General(f.p)]) /\ Checking([y EXCEPT !.p = P!General(y.p)])
      /\ Checking([y EXCEPT !.p = P!OptionStart(y.p, c)])
  <2>1. InRequest(P!General(f.p)) /\ InRequest(P!General(y.p)) /\ InRequest(P!OptionStart(y.p, c))
    BY <1>3, <1>4, MatchChecks DEF Checking
  <2> QED
    BY <1>3, <1>4, <2>1, ParserChecks
<1>7. Checking([m EXCEPT !.p.cand = P!ChunkedWord])
  BY <1>5 DEF Checking, InRequest, ParserFields
<1>8. Checking([n EXCEPT !.p.content_length = P!Unhex[ch]])
  BY <1>4, RunChecks
<1>9. Checking(P!Fail(y, "INVALID_CONTENT_LENGTH")) /\ Checking(P!Fail(y, "UNEXPECTED_CONTENT_LENGTH"))
  BY <1>3, MacrosCheck
<1> QED
  BY <1>2, <1>3, <1>6, <1>7, <1>8, <1>9

LEMMA DigitChecks ==
    ASSUME NEW call, Checking(call), NEW base, NEW digit, NEW e
    PROVE  Checking(P!AddDigit(call, base, digit, e))
<1> DEFINE t == (call.p.content_length * base + digit) % (UllongMax + 1)
<1>1. P!AddDigit(call, base, digit, e) \in {P!Fail(call, e), [call EXCEPT !.p.content_length = t]}
  BY Zenon DEF P!AddDigit
<1> HIDE DEF t
<1> QED
  BY <1>1, MacrosCheck, RunChecks

LEMMA ValueCharChecks ==
    ASSUME NEW call, Checking(call), NEW ch
    PROVE  Checking(P!ValueChar(call, ch))
<1> DEFINE c == P!LOWER(ch)
           h == call.p.header_state
           q1 == P!Match(call.p, c, "h_general")
           q2 == P!OptionStart(call.p, c)
           q3 == P!General(call.p)
           q4 == P!Match(call.p, c, "h_matching_connection_token")
           q5 == P!NextOption(call.p)
           f == P!Flag(call, P!FlagOf[h])
           t == [call EXCEPT !.p.header_state = "h_matching_connection_token"]
<1>1. P!ValueChar(call, ch) \in
        { P!assert(call, FALSE), call, P!Fail(call, "INVALID_CONTENT_LENGTH"),
          P!AddDigit(call, 10, P!Unhex[ch], "INVALID_CONTENT_LENGTH"), [call EXCEPT !.p = q1],
          [call EXCEPT !.p = q2], [call EXCEPT !.p = q3], [call EXCEPT !.p = q4], [call EXCEPT !.p = q5],
          [f EXCEPT !.p = P!NextOption(f.p)], t }
  <2>1. /\ [call EXCEPT !.p = P!Match(@, c, "h_general")] = [call EXCEPT !.p = q1]
        /\ [call EXCEPT !.p = P!OptionStart(@, c)] = [call EXCEPT !.p = q2]
        /\ [call EXCEPT !.p = P!General(@)] = [call EXCEPT !.p = q3]
        /\ [call EXCEPT !.p = P!Match(@, c, "h_matching_connection_token")] = [call EXCEPT !.p = q4]
        /\ [call EXCEPT !.p = P!NextOption(@)] = [call EXCEPT !.p = q5]
        /\ [f EXCEPT !.p = P!NextOption(@)] = [f EXCEPT !.p = P!NextOption(f.p)]
    BY DEF Checking
  <2> HIDE DEF q1, q2, q3, q4, q5
  <2> QED
    BY <2>1, Zenon DEF P!ValueChar
<1>2. \A q : InRequest(q) => Checking([call EXCEPT !.p = q])
  BY ParserChecks
<1>3. InRequest(q1) /\ InRequest(q2) /\ InRequest(q3) /\ InRequest(q4) /\ InRequest(q5)
  BY MatchChecks DEF Checking
<1>4. Checking(f)
  BY MacrosCheck
<1> HIDE DEF f, q1, q2, q3, q4, q5
<1>5. Checking([f EXCEPT !.p = P!NextOption(f.p)])
  <2>1. InRequest(P!NextOption(f.p))
    BY <1>4, MatchChecks DEF Checking
  <2> QED
    BY <1>4, <2>1, ParserChecks
<1>6. Checking(t)
  BY RunChecks
<1>7. Checking(P!assert(call, FALSE)) /\ Checking(P!Fail(call, "INVALID_CONTENT_LENGTH"))
  BY MacrosCheck
<1>8. Checking(P!AddDigit(call, 10, P!Unhex[ch], "INVALID_CONTENT_LENGTH"))
  BY DigitChecks
<1> HIDE DEF t
<1> QED
  BY <1>1, <1>2, <1>3, <1>5, <1>6, <1>7, <1>8

LEMMA ValueChecks ==
    ASSUME NEW call, Checking(call), NEW ch
    PROVE  Checking(P!HeaderValue(call, ch))
<1> DEFINE in == IF call.run = 0 THEN [call EXCEPT !.run = call.i] ELSE call
           out == P!EndRun(in)
           a == P!Goto(in, "s_header_almost_done")
           done == P!CALLBACK_DATA(a, "header_value")
           b == P!Goto(out, "s_header_almost_done")
           c == P!CALLBACK_DATA_NOADVANCE(b, "header_value")
<1>1. Checking(in)
  BY RunChecks
<1> HIDE DEF in
<1>2. Checking(out)
  BY <1>1, EndRunChecks
<1> HIDE DEF out
<1>3. Checking(a) /\ Checking(b)
  BY <1>1, <1>2, GotoChecks DEF RequestStates
<1> HIDE DEF a, b
<1>4. Checking(done) /\ Checking(c)
  BY <1>3, CallbacksCheck
<1> HIDE DEF done, c
<1>5. Checking(P!EndRun(done)) /\ Checking(P!Reexecute(c, "s_header_almost_done"))
  BY <1>4, EndRunChecks, GotoChecks DEF RequestStates
<1>6. P!HeaderValue(call, ch) \in
        { P!EndRun(done), done, out, P!Reexecute(c, "s_header_almost_done"), in,
          P!Fail(in, "INVALID_HEADER_TOKEN"), [in EXCEPT !.fast = TRUE], P!ValueChar(in, ch) }
  BY Zenon DEF P!HeaderValue, in, out, a, done, b, c
<1>7. Checking(P!Fail(in, "INVALID_HEADER_TOKEN"))
  BY <1>1, MacrosCheck
<1>8. Checking([in EXCEPT !.fast = TRUE])
  BY <1>1, RunChecks
<1>9. Checking(P!ValueChar(in, ch))
  BY <1>1, ValueCharChecks
<1> QED
  BY <1>1, <1>2, <1>4, <1>5, <1>6, <1>7, <1>8, <1>9

LEMMA NoteChecks ==
    ASSUME NEW call, Checking(call)
    PROVE  Checking(P!NoteValue(call))
<1>1. P!NoteValue(call) \in {P!Flag(call, P!FlagOf[call.p.header_state]), call}
  BY Zenon DEF P!NoteValue
<1> QED
  BY <1>1, MacrosCheck

LEMMA LwsChecks ==
    ASSUME NEW call, Checking(call), NEW ch
    PROVE  /\ Checking(P!HeaderValueLws(call, ch))
           /\ Checking(P!HeaderValueDiscardWs(call, ch))
           /\ Checking(P!HeaderValueDiscardLws(call, ch))
<1> DEFINE n == P!NoteValue(call)
           m == P!MARK(n, "header_value")
           y == P!Goto(m, "s_header_field_start")
           c == P!CALLBACK_DATA_NOADVANCE(y, "header_value")
<1>1. Checking(n)
  BY NoteChecks
<1>2. \A s \in {"s_header_value_discard_ws_almost_done", "s_header_value_discard_lws",
                "s_header_value_discard_ws"} : Checking(P!Goto(call, s))
  BY GotoChecks DEF RequestStates
<1>3. Checking(P!Reexecute(call, "s_header_value_start"))
  BY GotoChecks DEF RequestStates
<1> HIDE DEF n
<1>4. Checking(P!Reexecute(n, "s_header_field_start"))
  BY <1>1, GotoChecks DEF RequestStates
<1>5. Checking(m)
  BY <1>1, MacrosCheck
<1> HIDE DEF m
<1>6. Checking(y)
  BY <1>5, GotoChecks DEF RequestStates
<1> HIDE DEF y
<1>7. Checking(c)
  BY <1>6, CallbacksCheck
<1> HIDE DEF c
<1>8. Checking(P!Reexecute(c, "s_header_field_start"))
  BY <1>7, GotoChecks DEF RequestStates
<1>9. Checking(P!HeaderValueLws(call, ch))
  BY <1>3, <1>4 DEF P!HeaderValueLws, n
<1>10. Checking(P!HeaderValueDiscardWs(call, ch))
  <2>1. Checking(P!HeaderValueStart(call, ch))
    BY ValueStartChecks
  <2> QED
    BY <1>2, <2>1 DEF P!HeaderValueDiscardWs
<1>11. Checking(P!HeaderValueDiscardLws(call, ch))
  <2>1. P!HeaderValueDiscardLws(call, ch)
          \in {P!Goto(call, "s_header_value_discard_ws"), P!Reexecute(c, "s_header_field_start")}
    BY Zenon DEF P!HeaderValueDiscardLws, c, y, m, n
  <2> QED
    BY <1>2, <1>8, <2>1
<1> QED
  BY <1>9, <1>10, <1>11

-----------------------------------------------------------------------------
LEMMA HeadersEndChecks ==
    ASSUME NEW call, Checking(call), NEW ch
    PROVE  Checking(P!HeadersAlmostDone(call, ch))
<1> DEFINE upgrade == IF {"UPGRADE", "CONNECTION_UPGRADE"} \subseteq call.p.flags
                      THEN call.p.type = P!HTTP_REQUEST \/ call.p.status_code = 101
                      ELSE call.p.method = "CONNECT"
           g == P!Goto(call, "s_message_done")
           c == P!CALLBACK_NOTIFY_NOADVANCE(g, "chunk_complete")
           y == [call EXCEPT !.p.upgrade = upgrade]
<1>1. P!HeadersAlmostDone(call, ch) \in
        { P!Fail(call, "STRICT"), P!Reexecute(c, "s_message_done"),
          P!Fail(call, "UNEXPECTED_CONTENT_LENGTH"), P!Reexecute(y, "s_headers_done") }
  BY Zenon DEF P!HeadersAlmostDone
<1> HIDE DEF upgrade
<1>2. Checking(g)
  BY GotoChecks DEF RequestStates
<1> HIDE DEF g
<1>3. Checking(c)
  BY <1>2, CallbacksCheck
<1>4. Checking(y)
  BY RunChecks
<1> HIDE DEF c, y
<1>5. Checking(P!Reexecute(c, "s_message_done")) /\ Checking(P!Reexecute(y, "s_headers_done"))
  BY <1>3, <1>4, GotoChecks DEF RequestStates
<1>6. Checking(P!Fail(call, "STRICT")) /\ Checking(P!Fail(call, "UNEXPECTED_CONTENT_LENGTH"))
  BY MacrosCheck
<1> QED
  BY <1>1, <1>5, <1>6

LEMMA CompleteChecks ==
    ASSUME NEW call, Checking(call)
    PROVE  Checking(P!MessageComplete(call))
<1> DEFINE s == P!NEW_MESSAGE(call.p)
           g == P!Goto(call, s)
<1>1. s \in {"s_start_req", "s_dead"}
  BY DEF P!NEW_MESSAGE, P!start_state, Checking, InRequest, HTTP_REQUEST, P!HTTP_REQUEST
<1> HIDE DEF s
<1>2. Checking(g)
  BY <1>1, GotoChecks DEF RequestStates
<1>3. P!MessageComplete(call) = P!CALLBACK_NOTIFY(g, "message_complete")
  BY Zenon DEF P!MessageComplete, g, s
<1> HIDE DEF g
<1> QED
  BY <1>2, <1>3, CallbacksCheck

LEMMA HeadersDoneChecks ==
    ASSUME NEW call, Checking(call), NEW ch
    PROVE  Checking(P!HeadersDone(call, ch)) /\ Checking(P!MessageDone(call))
<1> DEFINE y == P!HeadersRead(call)
           done == P!MessageComplete(y)
           last == P!MessageComplete(call)
<1>1. Checking(y)
  BY RunChecks DEF P!HeadersRead
<1> HIDE DEF y
<1>2. Checking(done) /\ Checking(last)
  BY <1>1, CompleteChecks
<1> HIDE DEF done, last
<1>3. Checking(P!Return(done, done.i)) /\ Checking(P!Return(last, last.i))
      /\ Checking(P!Fail(call, "STRICT"))
  BY <1>2, MacrosCheck
<1>4. \A s \in {"s_chunk_size_start", "s_body_identity", "s_body_identity_eof"} :
         Checking(P!Goto(y, s))
  BY <1>1, GotoChecks DEF RequestStates
<1>5. P!HeadersDone(call, ch) \in
        { P!Fail(call, "STRICT"), P!Return(done, done.i), done, P!Goto(y, "s_chunk_size_start"),
          P!Goto(y, "s_body_identity"), P!Goto(y, "s_body_identity_eof") }
  BY Zenon DEF P!HeadersDone, done, y
<1>6. P!MessageDone(call) \in {P!Return(last, last.i), last}
  BY Zenon DEF P!MessageDone, last
<1> QED
  BY <1>2, <1>3, <1>4, <1>5, <1>6

LEMMA BodyByteChecks ==
    ASSUME NEW call, Checking(call), NEW c
    PROVE  Checking(P!OneByteLess(P!MARK(P!assert(call, c), "body")))
<1> DEFINE a == P!assert(call, c)
           m == P!MARK(a, "body")
<1>1. Checking(a)
  BY MacrosCheck
<1> HIDE DEF a
<1>2. Checking(m)
  BY <1>1, MacrosCheck
<1> HIDE DEF m
<1>3. P!OneByteLess(m) = [m EXCEPT !.p.content_length = @ - 1]
  BY DEF P!OneByteLess
<1>4. Checking([m EXCEPT !.p.content_length = @ - 1])
  BY <1>2 DEF Checking, InRequest, ParserFields
<1> QED
  BY <1>3, <1>4 DEF m, a

LEMMA BodyChecks ==
    ASSUME NEW call, Checking(call)
    PROVE  Checking(P!BodyIdentity(call)) /\ Checking(P!ChunkData(call))
<1> DEFINE y == P!OneByteLess(P!MARK(P!assert(call, P!LengthKnown(call.p)), "body"))
           g == P!Goto(y, "s_message_done")
           c == P!CALLBACK_DATA_(g, "body", y.i, y.i - 1)
<1>1. Checking(y)
  BY BodyByteChecks
<1>2. P!BodyIdentity(call) \in {y, P!Reexecute(c, "s_message_done")}
  BY Zenon DEF P!BodyIdentity
<1>3. P!ChunkData(call) \in {y, P!Goto(y, "s_chunk_data_almost_done")}
  BY Zenon DEF P!ChunkData
<1> HIDE DEF y
<1>4. Checking(g) /\ Checking(P!Goto(y, "s_chunk_data_almost_done"))
  BY <1>1, GotoChecks DEF RequestStates
<1> HIDE DEF g
<1>5. Checking(c)
  BY <1>4, CallbacksCheck
<1> HIDE DEF c
<1>6. Checking(P!Reexecute(c, "s_message_done"))
  BY <1>5, GotoChecks DEF RequestStates
<1> QED
  BY <1>1, <1>2, <1>3, <1>4, <1>6

LEMMA ChunkSizeChecks ==
    ASSUME NEW call, Checking(call), NEW ch
    PROVE  /\ Checking(P!ChunkSizeStart(call, ch)) /\ Checking(P!ChunkSize(call, ch))
           /\ Checking(P!ChunkParameters(call, ch))
<1> DEFINE y == P!assert(call, call.p.nread = 1)
           z == [y EXCEPT !.p.content_length = P!Unhex[ch]]
<1>1. Checking(y)
  BY MacrosCheck
<1>2. P!ChunkSizeStart(call, ch) \in {P!Fail(y, "INVALID_CHUNK_SIZE"), P!Goto(z, "s_chunk_size")}
  BY Zenon DEF P!ChunkSizeStart
<1> HIDE DEF y
<1>3. Checking(z)
  BY <1>1, RunChecks
<1> HIDE DEF z
<1>4. Checking(P!Goto(z, "s_chunk_size")) /\ Checking(P!Fail(y, "INVALID_CHUNK_SIZE"))
  BY <1>1, <1>3, GotoChecks, MacrosCheck DEF RequestStates
<1>5. \A s \in {"s_chunk_size_almost_done", "s_chunk_parameters"} : Checking(P!Goto(call, s))
  BY GotoChecks DEF RequestStates
<1>6. Checking(P!Fail(call, "INVALID_CHUNK_SIZE"))
      /\ Checking(P!AddDigit(call, 16, P!Unhex[ch], "INVALID_CONTENT_LENGTH"))
  BY MacrosCheck, DigitChecks
<1>7. Checking(P!ChunkSize(call, ch)) /\ Checking(P!ChunkParameters(call, ch))
  BY <1>5, <1>6 DEF P!ChunkSize, P!ChunkParameters
<1> QED
  BY <1>2, <1>4, <1>7

LEMMA ChunkEndsCheck ==
    ASSUME NEW call, Checking(call), NEW ch
    PROVE  /\ Checking(P!ChunkSizeAlmostDone(call, ch)) /\ Checking(P!ChunkDataAlmostDone(call, ch))
           /\ Checking(P!ChunkDataDone(call, ch))
<1> DEFINE y == [call EXCEPT !.p.nread = 0]
           f == P!Flag(y, "TRAILING")
           a == P!Goto(f, "s_header_field_start")
           b == P!Goto(y, "s_chunk_data")
           z == P!assert(call, call.p.content_length = 0)
           c == P!Goto(z, "s_chunk_data_done")
           d == P!Goto(y, "s_chunk_size_start")
<1>1. P!ChunkSizeAlmostDone(call, ch) \in
        {P!Fail(call, "STRICT"), P!CALLBACK_NOTIFY(a, "chunk_header"), P!CALLBACK_NOTIFY(b, "chunk_header")}
  BY Zenon DEF P!ChunkSizeAlmostDone
<1>2. P!ChunkDataAlmostDone(call, ch) \in {P!Fail(z, "STRICT"), P!CALLBACK_DATA(c, "body")}
  BY Zenon DEF P!ChunkDataAlmostDone
<1>3. P!ChunkDataDone(call, ch) \in {P!Fail(call, "STRICT"), P!CALLBACK_NOTIFY(d, "chunk_complete")}
  BY Zenon DEF P!ChunkDataDone
<1>4. Checking(y)
  BY RunChecks
<1>5. Checking(z)
  BY MacrosCheck
<1> HIDE DEF y, z
<1>6. Checking(f)
  BY <1>4, MacrosCheck
<1> HIDE DEF f
<1>7. Checking(a) /\ Checking(b) /\ Checking(c) /\ Checking(d)
  BY <1>4, <1>5, <1>6, GotoChecks DEF RequestStates
<1> HIDE DEF a, b, c, d
<1>8. Checking(P!CALLBACK_NOTIFY(a, "chunk_header")) /\ Checking(P!CALLBACK_NOTIFY(b, "chunk_header"))
      /\ Checking(P!CALLBACK_DATA(c, "body")) /\ Checking(P!CALLBACK_NOTIFY(d, "chunk_complete"))
  BY <1>7, CallbacksCheck
<1>9. Checking(P!Fail(call, "STRICT")) /\ Checking(P!Fail(z, "STRICT"))
  BY <1>5, MacrosCheck
<1> QED
  BY <1>1, <1>2, <1>3, <1>8, <1>9

LEMMA ChunkChecks ==
    ASSUME NEW call, Checking(call), call.p.state \in P!ChunkStates, NEW ch
    PROVE  Checking(P!ChunkByte(call, ch))
<1> DEFINE y == P!assert(call, "CHUNKED" \in call.p.flags)
<1>1. Checking(y)
  BY MacrosCheck
<1>2. y.p = call.p
  BY DEF P!assert, Checking
<1>3. P!ChunkByte(call, ch) \in
        { P!ChunkSizeStart(y, ch), P!ChunkSize(y, ch), P!ChunkParameters(y, ch),
          P!ChunkSizeAlmostDone(y, ch), P!ChunkData(y), P!ChunkDataAlmostDone(y, ch),
          P!ChunkDataDone(y, ch) }
  <2>1. y.p.state \in { "s_chunk_size_start", "s_chunk_size", "s_chunk_parameters",
                        "s_chunk_size_almost_done", "s_chunk_data", "s_chunk_data_almost_done",
                        "s_chunk_data_done" }
    BY <1>2 DEF P!ChunkStates, P!ChunkLineStates
  <2> HIDE DEF y
  <2> QED
    BY <2>1 DEF P!ChunkByte, y
<1> HIDE DEF y
<1> QED
  BY <1>1, <1>3, ChunkSizeChecks, ChunkEndsCheck, BodyChecks

-----------------------------------------------------------------------------
LEMMA DispatchChecks ==
    ASSUME NEW call, Checking(call)
    PROVE  Checking(P!Dispatch(call))
<1> DEFINE ch == P!At(call.data, call.i)
           s == call.p.state
<1>1. s \in RequestStates
  BY DEF Checking, InRequest
<1>2. /\ s \notin {"s_start_res", "s_res_first_status_code", "s_res_status_code",
                   "s_res_status_start", "s_res_status"}
      /\ \/ s \in DOMAIN P!Expected \/ s \in P!VersionStates \/ s \in DOMAIN P!UrlTable
         \/ s \in P!ChunkStates \/ s \in {"s_req_http_start", "s_req_http_end"}
         \/ s = "s_dead" \/ s = "s_start_req" \/ s = "s_req_method" \/ s = "s_header_field_start"
         \/ s = "s_header_field" \/ s = "s_header_value_discard_ws"
         \/ s = "s_header_value_start" \/ s = "s_header_value" \/ s = "s_header_value_lws"
         \/ s = "s_header_value_discard_lws" \/ s = "s_headers_almost_done"
         \/ s = "s_headers_done" \/ s = "s_body_identity" \/ s = "s_body_identity_eof"
         \/ s = "s_message_done"
  BY <1>1 DEF RequestStates, P!Expected, P!VersionStates, P!UrlTable, P!ChunkStates,
              P!ChunkLineStates
<1>3. /\ s \in DOMAIN P!Expected => Checking(P!Expect(call, ch))
      /\ s \in P!VersionStates => Checking(P!VersionDigit(call, ch))
      /\ Checking(P!Dead(call, ch)) /\ Checking(P!StartRequest(call, ch)) /\ Checking(P!Method(call, ch))
      /\ Checking(P!RequestUrl(call, ch)) /\ Checking(P!RequestVersion(call, ch))
  BY DeadChecks, ExpectChecks, VersionChecks, StartChecks, MethodChecks, UrlChecks,
     VersionEndChecks
<1>4. /\ Checking(P!HeaderFieldStart(call, ch)) /\ Checking(P!HeaderField(call, ch))
      /\ Checking(P!HeaderValueDiscardWs(call, ch)) /\ Checking(P!HeaderValueStart(call, ch))
      /\ Checking(P!HeaderValue(call, ch)) /\ Checking(P!HeaderValueLws(call, ch))
      /\ Checking(P!HeaderValueDiscardLws(call, ch)) /\ Checking(P!HeadersAlmostDone(call, ch))
  BY FieldStartChecks, FieldChecks, LwsChecks, ValueStartChecks, ValueChecks, HeadersEndChecks
<1>5. /\ Checking(P!HeadersDone(call, ch)) /\ Checking(P!MessageDone(call)) /\ Checking(P!BodyIdentity(call))
      /\ Checking(P!MARK(call, "body"))
      /\ s \in P!ChunkStates => Checking(P!ChunkByte(call, ch))
  BY HeadersDoneChecks, BodyChecks, MacrosCheck, ChunkChecks
<1> QED
  BY <1>2, <1>3, <1>4, <1>5 DEF P!Dispatch

LEMMA AgainChecks ==
    ASSUME NEW call, Checking(call)
    PROVE  Checking(P!Again(call))
<1> DEFINE y == [call EXCEPT !.again = FALSE]
<1>1. Checking(y)
  BY RunChecks
<1>2. P!Again(call) \in {P!Dispatch(y), call}
  BY Zenon DEF P!Again
<1> HIDE DEF y
<1> QED
  BY <1>1, <1>2, DispatchChecks

LEMMA ByteChecks ==
    ASSUME NEW call, Checking(call)
    PROVE  Checking(P!Byte(call))
<1> DEFINE v == IF call.run = 0 /\ P!PARSING_HEADER(call.p.state) THEN 1 ELSE 0
           c == P!COUNT_HEADER_SIZE(call, v)
           a == [c EXCEPT !.again = TRUE]
           a1 == P!Again(a)
           a2 == P!Again(a1)
           a3 == P!Again(a2)
           a4 == P!Again(a3)
           t == P!assert(a4, ~a4.again)
<1>1. P!Byte(call) \in {call, P!NextByte(a4)}
  BY Zenon DEF P!Byte
<1> HIDE DEF v
<1>2. Checking(c)
  BY MacrosCheck
<1> HIDE DEF c
<1>3. Checking(a)
  BY <1>2, RunChecks
<1> HIDE DEF a
<1>4. Checking(a4)
  <2>1. Checking(a1)
    BY <1>3, AgainChecks
  <2> HIDE DEF a1
  <2>2. Checking(a2)
    BY <2>1, AgainChecks
  <2> HIDE DEF a2
  <2>3. Checking(a3)
    BY <2>2, AgainChecks
  <2> HIDE DEF a3
  <2> QED
    BY <2>3, AgainChecks
<1>5. P!NextByte(a4) \in {a4, [t EXCEPT !.i = @ + 1]}
  BY Zenon DEF P!NextByte
<1> HIDE DEF a4
<1>6. Checking(t)
  BY <1>4, MacrosCheck
<1> HIDE DEF t
<1>7. Checking([t EXCEPT !.i = @ + 1])
  BY <1>6 DEF Checking
<1> QED
  BY <1>1, <1>4, <1>5, <1>7

LEMMA EndedChecks ==
    ASSUME NEW call, Checking(call)
    PROVE  Checking(P!Ended(call))
<1> DEFINE set == {kind \in P!MarkKinds : call.mark[kind] # 0}
           y == IF call.run # 0 THEN P!EndRun(call) ELSE call
           z == P!assert(y, \A k, l \in set : k = l)
           kind == CHOOSE k \in set : TRUE
           w == P!CALLBACK_DATA_NOADVANCE(z, kind)
           n == Len(call.data)
<1>1. P!Ended(call) \in {y, P!Return(z, n), w, P!Return(w, n), call}
  BY Zenon DEF P!Ended, P!Leftover
<1>2. Checking(y)
  BY EndRunChecks
<1> HIDE DEF y, set, kind, n
<1>3. Checking(z)
  BY <1>2, MacrosCheck
<1> HIDE DEF z
<1>4. Checking(w)
  BY <1>3, CallbacksCheck
<1> HIDE DEF w
<1>5. Checking(P!Return(z, n)) /\ Checking(P!Return(w, n))
  BY <1>3, <1>4, MacrosCheck
<1> QED
  BY <1>1, <1>2, <1>3, <1>4, <1>5

LEMMA CallChecks ==
    ASSUME NEW data
    PROVE  LET p == http_parser_init(HTTP_REQUEST)
           IN  Checking(P!Call(p, NoCount, data)) /\ Checking(P!ExecuteEof(p, NoCount))
<1> DEFINE p == http_parser_init(HTTP_REQUEST)
<1>1. InRequest(p) /\ p.state = "s_start_req"
  BY DEF http_parser_init, InRequest, ParserFields, RequestStates
<1> HIDE DEF p
<1>2. Counts(NoCount)
  BY DEF NoCount, Counts
<1>3. \A d : Checking(P!Call(p, NoCount, d))
  BY <1>1, <1>2 DEF P!Call, Checking
<1>4. P!ExecuteEof(p, NoCount) = P!Return(P!Call(p, NoCount, ""), 0)
  BY <1>1 DEF P!ExecuteEof
<1> QED
  BY <1>3, <1>4, MacrosCheck DEF p

-----------------------------------------------------------------------------
(***************************************************************************)
(* The latencies: what is recorded while the connections wait, and what    *)
(* its correction by the interval between two requests keeps.              *)
(***************************************************************************)
Starting == {"args", "tls", "script", "resolve", "setup", "init", "verify"}
Running == {"run", "correct"}
Ending == {"report", "done"}

ConfigFields == {"threads", "connections", "duration", "timeout", "latency", "use_offload", "tls",
                 "pipeline", "dynamic", "each"}

CheckInv == Checking(x) /\ DOMAIN cfg = ConfigFields /\ cfg.pipeline \in Nat

\* There is a connection for every thread, and no more are used than asked for.
ConnectionsInv ==
    /\ opt \in Nat
    /\ cfg.threads \in Nat /\ cfg.connections \in Nat /\ cfg.each \in Nat
    /\ mpc \in Starting \ {"verify"} => cfg.each = 0
    /\ mpc \notin {"args", "exit"} => cfg.threads # 0 /\ cfg.connections # 0
    /\ cfg.threads * cfg.each <= cfg.connections

\* With one request at a time a connection spends on each of its answers at
\* least the least latency recorded, or more than can be recorded.
Spending == [c \in 1..cfg.connections |-> SpentBy(c)]
AllSpent == SumOf(Spending, 1, cfg.connections)
Paced == \A b \in 0..(MaxLatency + 1) : b <= lat.min => complete * b <= AllSpent

Corrected ==
    /\ Histogram(sampled, MaxLatency)
    /\ lat.count = Total(lat.data)
    /\ cfg.pipeline = 1 => Histogram(lat, MaxLatency)
    /\ complete \div cfg.connections > 0 =>
         interval \in Nat \ {0} /\ lat = stats_correct(sampled, interval)
    /\ complete \div cfg.connections = 0 => lat = sampled

Reported ==
    /\ report.mean = stats_mean(lat)
    /\ report.within = stats_within_stdev(lat, stats_mean(lat), stats_stdev(lat, stats_mean(lat)))
    /\ report.percentile = [p \in Percentiles |-> stats_percentile(lat, p)]
    /\ report.entries = [k \in 1..stats_popcount(lat) |-> stats_value_at(lat, k - 1)]

TimesInv ==
    /\ complete \in Nat /\ runtime_us \in Nat
    /\ \A c \in DOMAIN spent : spent[c] \in Nat
    /\ mpc \in Starting => complete = 0
    /\ mpc \in Starting \cup Running => Histogram(lat, MaxLatency)
    /\ mpc \in Running /\ cfg.pipeline = 1 => Paced
    /\ mpc = "correct" => \A c \in DOMAIN spent : spent[c] <= runtime_us
    /\ mpc \in Ending => Corrected
    /\ mpc = "done" => Reported

-----------------------------------------------------------------------------
(* The numbers of the options -t and -c, and the connections of the threads. *)

Scales(f, s, k) == f = [j \in 0..k |-> IF j = 0 THEN 1 ELSE (f[j - 1] * s) % Word]

LEMMA ScalesExist ==
    ASSUME NEW s, NEW k \in Nat
    PROVE  \E f : Scales(f, s, k)
<1> DEFINE S == {n \in Nat : \E f : Scales(f, s, n)}
<1>1. 0 \in S
  <2> DEFINE f == [j \in 0..0 |-> 1]
  <2>1. \A j \in 0..0 : 1 = IF j = 0 THEN 1 ELSE (f[j - 1] * s) % Word
    OBVIOUS
  <2>2. f = [j \in 0..0 |-> IF j = 0 THEN 1 ELSE (f[j - 1] * s) % Word]
    BY <2>1, Zenon
  <2> QED
    BY <2>2 DEF Scales
<1>2. ASSUME NEW m \in 0..k, m # 0, m - 1 \in S
      PROVE  m \in S
  <2>1. PICK f : Scales(f, s, m - 1)
    BY <1>2
  <2>2. \A j \in 0..(m - 1) : f[j] = IF j = 0 THEN 1 ELSE (f[j - 1] * s) % Word
    BY <2>1 DEF Scales
  <2> DEFINE last == (f[m - 1] * s) % Word
             g == [j \in 0..m |-> IF j = m THEN last ELSE f[j]]
  <2>3. \A j \in 0..m : g[j] = IF j = m THEN last ELSE f[j]
    BY Zenon
  <2>4. \A j \in 0..m : /\ j # m => j \in 0..(m - 1)
                        /\ j # 0 => j - 1 \in 0..m /\ j - 1 # m
    OBVIOUS
  <2>5. g = [j \in 0..m |-> g[j]]
    OBVIOUS
  <2>6. last = (f[m - 1] * s) % Word
    OBVIOUS
  <2> HIDE DEF g, last
  <2>7. \A j \in 0..m : g[j] = IF j = 0 THEN 1 ELSE (g[j - 1] * s) % Word
    <3> TAKE j \in 0..m
    <3>1. CASE j = m
      BY <1>2, <2>3, <2>4, <2>6, <3>1
    <3>2. CASE j # m
      BY <2>2, <2>3, <2>4, <3>2
    <3> QED
      BY <3>1, <3>2
  <2>8. g = [j \in 0..m |-> IF j = 0 THEN 1 ELSE (g[j - 1] * s) % Word]
    BY <2>5, <2>7
  <2> QED
    BY <2>8 DEF Scales
<1> HIDE DEF S
<1>3. k \in S
  BY <1>1, <1>2, Rising
<1> QED
  BY <1>3 DEF S

LEMMA ScaleIsNat ==
    ASSUME NEW m, m.scale \in Nat, NEW k \in Nat
    PROVE  ScaleOf(m, k) \in Nat
<1> DEFINE s == m.scale
           f == CHOOSE f : f = [j \in 0..k |-> IF j = 0 THEN 1 ELSE (f[j - 1] * s) % Word]
<1>1. \E g : g = [j \in 0..k |-> IF j = 0 THEN 1 ELSE (g[j - 1] * s) % Word]
  <2>1. \E g : Scales(g, s, k)
    BY ScalesExist
  <2> QED
    BY <2>1, Zenon DEF Scales
<1>2. f = [j \in 0..k |-> IF j = 0 THEN 1 ELSE (f[j - 1] * s) % Word]
  BY <1>1, Zenon
<1>3. ScaleOf(m, k) = f[k]
  BY Zenon DEF ScaleOf
<1>4. s \in Nat
  OBVIOUS
<1> HIDE DEF f, s
<1>5. \A j \in 0..k : f[j] = IF j = 0 THEN 1 ELSE (f[j - 1] * s) % Word
  BY <1>2
<1> DEFINE S == {j \in 0..k : f[j] \in Nat}
<1>6. 0 \in S
  BY <1>5
<1>7. ASSUME NEW j \in 0..k, j # 0, j - 1 \in S PROVE j \in S
  <2>1. f[j - 1] \in Nat /\ f[j] = (f[j - 1] * s) % Word
    BY <1>5, <1>7
  <2> DEFINE product == f[j - 1] * s
  <2>2. product \in Nat
    BY <1>4, <2>1
  <2> HIDE DEF product
  <2>3. product % Word \in Nat
    BY <2>2, UnitsAssumption
  <2> QED
    BY <2>1, <2>3 DEF product
<1> HIDE DEF S
<1>8. k \in S
  BY <1>6, <1>7, Rising
<1> QED
  BY <1>3, <1>8 DEF S

LEMMA MetricIsNat ==
    ASSUME NEW arg, arg.n \in Nat \cup {NoNumber}
    PROVE  scan_metric(arg).n \in Nat
<1> DEFINE m == metric_units
           known == {k \in DOMAIN m.units : m.units[k] = arg.unit}
           k == CHOOSE k \in known : TRUE
           product == arg.n * ScaleOf(m, k)
<1>1. scan_metric(arg) = IF arg.n = NoNumber THEN Refused
                         ELSE IF arg.unit \in {"", m.base} THEN [ok |-> TRUE, n |-> arg.n]
                         ELSE IF known = {} THEN Refused
                         ELSE [ok |-> TRUE, n |-> product % Word]
  BY Zenon DEF scan_metric, scan_units
<1>2. m.scale \in Nat /\ \A j \in DOMAIN m.units : j \in Nat
  BY DEF metric_units
<1>3. ASSUME known # {}, arg.n \in Nat PROVE product % Word \in Nat
  <2>1. k \in known
    BY <1>3, Zenon
  <2>2. k \in Nat
    BY <1>2, <2>1
  <2> HIDE DEF m, k
  <2>3. ScaleOf(m, k) \in Nat
    BY <1>2, <2>2, ScaleIsNat
  <2> DEFINE n == ScaleOf(m, k)
  <2> HIDE DEF n
  <2>4. arg.n * n \in Nat
    BY <1>3, <2>3 DEF n
  <2>5. product \in Nat
    BY <2>4 DEF n
  <2> HIDE DEF product
  <2> QED
    BY <2>5, UnitsAssumption
<1> DEFINE rest == product % Word
           r == scan_metric(arg)
<1> SUFFICES r.n \in Nat
  OBVIOUS
<1>4. CASE arg.n = NoNumber \/ (arg.unit \notin {"", m.base} /\ known = {})
  <2>1. r = Refused
    BY <1>1, <1>4, Zenon
  <2> QED
    BY <2>1 DEF Refused
<1>5. CASE arg.n # NoNumber /\ arg.unit \in {"", m.base}
  <2>1. r = [ok |-> TRUE, n |-> arg.n]
    BY <1>1, <1>5, Zenon
  <2> HIDE DEF r
  <2> QED
    BY <1>5, <2>1
<1>6. CASE arg.n # NoNumber /\ arg.unit \notin {"", m.base} /\ known # {}
  <2>1. r = [ok |-> TRUE, n |-> rest]
    BY <1>1, <1>6, Zenon
  <2>2. rest \in Nat
    BY <1>3, <1>6
  <2> HIDE DEF r, rest
  <2> QED
    BY <2>1, <2>2
<1> QED
  BY <1>4, <1>5, <1>6

LEMMA ConnectionsInit ==
    ASSUME Init
    PROVE  ConnectionsInv
<1>1. opt = 0 /\ mpc = "args" /\ cfg.threads = 2 /\ cfg.connections = 10 /\ cfg.each = 0
  BY DEF Init
<1> QED
  BY <1>1 DEF ConnectionsInv

\* The steps that leave the numbers alone.
LEMMA ConnectionsIdle ==
    ASSUME ConnectionsInv, opt' = opt,
           cfg'.threads = cfg.threads, cfg'.connections = cfg.connections, cfg'.each = cfg.each,
           \/ mpc' \in {mpc, "exit"}
           \/ mpc = "args" /\ mpc' = "tls" /\ cfg.threads # 0 /\ cfg.connections # 0
           \/ mpc \notin {"args", "exit"} /\ mpc' \in Running \cup Ending
           \/ mpc \in {"tls", "script", "resolve", "setup"}
              /\ mpc' \in {"script", "resolve", "setup", "init"}
    PROVE  ConnectionsInv'
BY DEF ConnectionsInv, Starting, Running, Ending

LEMMA ConnectionsParsed ==
    ASSUME CheckInv, ConnectionsInv, use \in Uses, parse_option
    PROVE  ConnectionsInv'
<1> DEFINE o == use.opts[opt + 1]
<1>1. mpc = "args" /\ opt < Len(use.opts) /\ opt' = opt + 1 /\ opt \in Nat
  BY DEF parse_option, ConnectionsInv
<1>2. NumberOption(o) \/ FlagOption(o) \/ HeaderOption(o) \/ UnknownOption(o)
  BY Zenon DEF parse_option
<1>3. cfg.each = 0 /\ cfg.threads \in Nat /\ cfg.connections \in Nat
  BY <1>1 DEF ConnectionsInv, Starting
<1>4. SUFFICES /\ cfg'.threads \in Nat /\ cfg'.connections \in Nat /\ cfg'.each = 0
               /\ mpc' \in {"args", "exit"}
  BY <1>1 DEF ConnectionsInv
<1>5. o.opt \in {"t", "c"} => o.arg.n \in Nat \cup {NoNumber}
  <2>1. Len(use.opts) \in Nat
    BY MainAssumption
  <2>2. opt + 1 \in 1..Len(use.opts)
    BY <1>1, <2>1
  <2> QED
    BY <2>2, MainAssumption
<1> HIDE DEF o
<1>6. CASE NumberOption(o)
  <2> DEFINE k == Numeric[o.opt]
             r == Scan(o.opt, o.arg)
             n == IF o.opt = "T" THEN (r.n * 1000) % Word ELSE r.n
  <2>1. (cfg' = [cfg EXCEPT ![k] = n] /\ mpc' = mpc) \/ (cfg' = cfg /\ mpc' = "exit")
    BY <1>6, ZenonT(60) DEF NumberOption, Exit
  <2>2. o.opt \in {"t", "c", "d", "T"}
    BY <1>6 DEF NumberOption, Numeric
  <2>3. /\ o.opt \in {"t", "c"} /\ k \in {"threads", "connections"}
        \/ k \in {"duration", "timeout"}
    BY <2>2 DEF Numeric
  <2>4. o.opt \in {"t", "c"} => n \in Nat
    <3>1. SUFFICES ASSUME o.opt \in {"t", "c"} PROVE n \in Nat
      BY Zenon
    <3>2. r = scan_metric(o.arg)
      BY <3>1, Zenon DEF Scan
    <3>3. scan_metric(o.arg).n \in Nat
      BY <1>5, <3>1, MetricIsNat
    <3>4. n = r.n
      BY <3>1
    <3> QED
      BY <3>2, <3>3, <3>4
  <2> HIDE DEF k, n
  <2> QED
    BY <1>1, <1>3, <2>1, <2>3, <2>4 DEF CheckInv, ConfigFields
<1>7. CASE FlagOption(o)
  BY <1>1, <1>3, <1>7 DEF FlagOption, CheckInv, ConfigFields
<1>8. CASE HeaderOption(o) \/ UnknownOption(o)
  BY <1>1, <1>3, <1>8 DEF HeaderOption, UnknownOption, Exit
<1> QED
  BY <1>2, <1>6, <1>7, <1>8

\* Every thread gets its part, rounded down.
LEMMA ConnectionsShared ==
    ASSUME CheckInv, ConnectionsInv, script_init
    PROVE  ConnectionsInv'
<1> DEFINE part == cfg.connections \div cfg.threads
<1>1. /\ mpc = "init" /\ mpc' = "verify" /\ opt' = opt
      /\ cfg' = [cfg EXCEPT !.each = @ + part, !.dynamic = use.script.calls # << >>]
  BY Zenon DEF script_init
<1>2. /\ cfg.each = 0 /\ cfg.threads \in Nat \ {0} /\ cfg.connections \in Nat \ {0}
  BY <1>1 DEF ConnectionsInv, Starting
<1>3. part \in Nat /\ cfg.threads * part <= cfg.connections
  <2> DEFINE rest == cfg.connections % cfg.threads
             product == cfg.threads * part
  <2>1. part \in Nat /\ rest \in Nat /\ product \in Nat /\ cfg.connections = product + rest
    BY <1>2
  <2> HIDE DEF part, rest, product
  <2>2. product <= cfg.connections
    BY <1>2, <2>1
  <2> QED
    BY <2>1, <2>2 DEF product
<1> HIDE DEF part
<1>4. cfg'.each = part /\ cfg'.threads = cfg.threads /\ cfg'.connections = cfg.connections
  BY <1>1, <1>2, <1>3 DEF CheckInv, ConfigFields
<1> QED
  BY <1>1, <1>2, <1>3, <1>4 DEF ConnectionsInv, Starting

LEMMA ConnectionsStep ==
    ASSUME CheckInv, ConnectionsInv, use \in Uses, [Next]_vars
    PROVE  ConnectionsInv'
<1> DEFINE Same == /\ opt' = opt /\ cfg'.threads = cfg.threads
                   /\ cfg'.connections = cfg.connections /\ cfg'.each = cfg.each
                   /\ \/ mpc' \in {mpc, "exit"}
                      \/ mpc = "args" /\ mpc' = "tls" /\ cfg.threads # 0 /\ cfg.connections # 0
                      \/ mpc \notin {"args", "exit"} /\ mpc' \in Running \cup Ending
                      \/ mpc \in {"tls", "script", "resolve", "setup"}
                         /\ mpc' \in {"script", "resolve", "setup", "init"}
<1>1. Same => ConnectionsInv'
  BY ConnectionsIdle
<1>2. ASSUME args_done PROVE Same
  BY <1>2 DEF args_done, ArgsGood, Exit
<1>3. ASSUME init_tls PROVE Same
  BY <1>3 DEF init_tls, Exit, CheckInv, ConfigFields
<1>4. ASSUME script_create \/ wrk_setup PROVE Same
  BY <1>4 DEF script_create, wrk_setup, setup
<1>5. ASSUME NEW answer, script_resolve(answer) PROVE Same
  <2>1. opt' = opt /\ cfg' = cfg /\ mpc = "resolve" /\ mpc' \in {"setup", "exit"}
    BY <1>5, Zenon DEF script_resolve, setup, Exit
  <2> QED
    BY <2>1
<1>6. ASSUME ScriptCalls \/ VerifyByte \/ UNCHANGED vars PROVE Same
  <2>1. opt' = opt /\ cfg' = cfg /\ mpc' = mpc
    BY <1>6, Zenon DEF ScriptCalls, VerifyByte, setup, vars
  <2> QED
    BY <2>1
<1>7. ASSUME VerifyEnd PROVE Same
  <2>1. /\ mpc = "verify" /\ mpc' \in {"run", "exit"} /\ opt' = opt
        /\ \E n : cfg' = [cfg EXCEPT !.pipeline = n]
    BY <1>7, Zenon DEF VerifyEnd, Exit
  <2> QED
    BY <2>1 DEF CheckInv, ConfigFields, Running
<1>8. ASSUME NEW c, NEW n, Answered(c, n) PROVE Same
  BY <1>8 DEF Answered, setup
<1>9. ASSUME NEW time, EndRun(time) PROVE Same
  BY <1>9 DEF EndRun, setup, Running
<1>10. ASSUME Correct \/ Report PROVE Same
  BY <1>10 DEF Correct, Report, setup, Ending
<1> HIDE DEF Same
<1> QED
  BY <1>1, <1>2, <1>3, <1>4, <1>5, <1>6, <1>7, <1>8, <1>9, <1>10,
     ConnectionsParsed, ConnectionsShared DEF Next

-----------------------------------------------------------------------------
(* What the callbacks of the parser count, and the times. *)

LEMMA CheckInit ==
    ASSUME Init
    PROVE  CheckInv
<1>1. Checking(x)
  BY CallChecks DEF Init, NoCall
<1> QED
  BY <1>1 DEF Init, CheckInv, ConfigFields

LEMMA CheckStep ==
    ASSUME CheckInv, [Next]_vars
    PROVE  CheckInv'
<1> DEFINE CfgKept == DOMAIN cfg' = ConfigFields /\ cfg'.pipeline = cfg.pipeline
<1>1. CASE UNCHANGED <<cfg, x>>
  BY <1>1 DEF CheckInv
<1>2. CASE parse_option
  <2>1. x' = x
    BY <1>2 DEF parse_option, check
  <2> DEFINE o == use.opts[opt + 1]
  <2>2. NumberOption(o) \/ FlagOption(o) \/ HeaderOption(o) \/ UnknownOption(o)
    BY <1>2, Zenon DEF parse_option
  <2> HIDE DEF o
  <2>3. CASE NumberOption(o)
    <3>1. PICK n : cfg' = [cfg EXCEPT ![Numeric[o.opt]] = n] \/ cfg' = cfg
      BY <2>3, ZenonT(60) DEF NumberOption
    <3>2. Numeric[o.opt] \in ConfigFields \ {"pipeline"}
      BY <2>3 DEF NumberOption, Numeric, ConfigFields
    <3>3. DOMAIN cfg' = ConfigFields /\ cfg'.pipeline = cfg.pipeline
      <4> DEFINE k == Numeric[o.opt]
      <4>1. k # "pipeline"
        BY <3>2
      <4> HIDE DEF k
      <4>2. cfg' = [cfg EXCEPT ![k] = n] => DOMAIN cfg' = DOMAIN cfg /\ cfg'.pipeline = cfg.pipeline
        BY <4>1 DEF CheckInv, ConfigFields
      <4> QED
        BY <3>1, <4>2 DEF CheckInv, k
    <3> QED
      BY <2>1, <3>3 DEF CheckInv
  <2>4. CASE FlagOption(o)
    BY <2>1, <2>4 DEF FlagOption, CheckInv, ConfigFields
  <2>5. CASE HeaderOption(o) \/ UnknownOption(o)
    BY <2>1, <2>5 DEF HeaderOption, UnknownOption, CheckInv
  <2> QED
    BY <2>2, <2>3, <2>4, <2>5
<1>3. CASE init_tls
  BY <1>3 DEF init_tls, check, CheckInv, ConfigFields
<1>4. CASE script_init
  <2>1. DOMAIN cfg' = ConfigFields /\ cfg'.pipeline = cfg.pipeline
    BY <1>4 DEF script_init, CheckInv, ConfigFields
  <2>2. Checking(x')
    <3> DEFINE p == http_parser_init(HTTP_REQUEST)
    <3>1. x' \in {P!ExecuteEof(p, NoCount), P!Call(p, NoCount, req')}
      BY <1>4, Zenon DEF script_init
    <3> QED
      BY <3>1, CallChecks
  <2> QED
    BY <2>1, <2>2 DEF CheckInv
<1>5. CASE VerifyByte
  <2>1. x' = P!Byte(x) /\ cfg' = cfg
    BY <1>5 DEF VerifyByte, setup
  <2>2. Checking(P!Byte(x))
    BY ByteChecks DEF CheckInv
  <2> QED
    BY <2>1, <2>2 DEF CheckInv
<1>6. CASE VerifyEnd
  <2>1. x' = P!Ended(x) /\ cfg' = [cfg EXCEPT !.pipeline = x'.u.count]
    BY <1>6, Zenon DEF VerifyEnd
  <2>2. Checking(P!Ended(x))
    BY EndedChecks DEF CheckInv
  <2>3. Checking(x')
    BY <2>1, <2>2
  <2>4. x'.u.count \in Nat
    BY <2>3 DEF Checking, Counts
  <2> QED
    BY <2>1, <2>3, <2>4 DEF CheckInv, ConfigFields
<1>7. CASE UNCHANGED vars
  BY <1>1, <1>7 DEF vars, setup, check
<1>8. CASE args_done \/ script_create \/ wrk_setup \/ ScriptCalls \/ Correct \/ Report
           \/ (\E answer \in use.lookup : script_resolve(answer))
  <2>1. ASSUME NEW answer, script_resolve(answer) PROVE UNCHANGED <<cfg, x>>
    BY <2>1, Zenon DEF script_resolve, setup, check
  <2>2. args_done \/ script_create \/ wrk_setup \/ ScriptCalls \/ Correct \/ Report
          => UNCHANGED <<cfg, x>>
    BY Zenon DEF args_done, script_create, wrk_setup, ScriptCalls, Correct, Report, setup, check
  <2> QED
    BY <1>1, <1>8, <2>1, <2>2
<1>9. CASE \E c \in Connections, n \in 1..MaxRun : Answered(c, n)
  BY <1>1, <1>9 DEF Answered, setup, check
<1>10. CASE \E time \in 1..MaxRun : EndRun(time)
  BY <1>1, <1>10 DEF EndRun, setup, check
<1> QED
  BY <1>2, <1>3, <1>4, <1>5, <1>6, <1>7, <1>8, <1>9, <1>10 DEF Next

LEMMA TimesInit ==
    ASSUME Init
    PROVE  TimesInv
<1>1. Histogram(lat, MaxLatency)
  BY MainAssumption, AllocIs DEF Init
<1>2. complete = 0 /\ runtime_us = 0 /\ mpc = "args" /\ spent = << >>
  BY DEF Init
<1>3. DOMAIN spent = {}
  BY <1>2
<1> QED
  BY <1>1, <1>2, <1>3 DEF TimesInv, Starting, Running, Ending

\* Before the run, and whatever done() calls after it.
LEMMA TimesIdle ==
    ASSUME TimesInv, UNCHANGED <<lat, complete, spent, runtime_us, sampled>>,
           \/ mpc \in Starting /\ mpc' \in Starting \cup {"exit"}
           \/ UNCHANGED <<mpc, report, cfg>>
    PROVE  TimesInv'
<1>1. CASE mpc \in Starting /\ mpc' \in Starting \cup {"exit"}
  BY <1>1 DEF TimesInv, Starting, Running, Ending
<1>2. CASE UNCHANGED <<mpc, report, cfg>>
  <2>1. (Corrected <=> Corrected') /\ (Paced <=> Paced') /\ (Reported <=> Reported')
    BY <1>2 DEF Corrected, Paced, AllSpent, Spending, SpentBy, interval, Total, Reported
  <2> QED
    BY <1>2, <2>1 DEF TimesInv
<1> QED
  BY <1>1, <1>2

\* What all connections have spent is a sum of numbers.
LEMMA SpendingIs ==
    ASSUME cfg.connections \in Nat, \A c \in DOMAIN spent : spent[c] \in Nat
    PROVE  /\ \A c : SpentBy(c) \in Nat
           /\ Terms(Spending, 1, cfg.connections)
           /\ \A c \in 1..cfg.connections : Spending[c] = SpentBy(c)
           /\ AllSpent \in Nat
<1>1. \A c : SpentBy(c) \in Nat
  BY DEF SpentBy
<1>2. \A c \in 1..cfg.connections : Spending[c] = SpentBy(c)
  BY DEF Spending
<1>3. Terms(Spending, 1, cfg.connections)
  BY <1>1, <1>2 DEF Terms
<1>4. AllSpent \in Nat
  BY <1>3, SumNat DEF AllSpent
<1> QED
  BY <1>1, <1>2, <1>3, <1>4

LEMMA TimesVerified ==
    ASSUME ConnectionsInv', TimesInv, VerifyEnd
    PROVE  TimesInv'
<1>1. mpc \in Starting /\ mpc' \in {"run", "exit"}
      /\ UNCHANGED <<lat, complete, spent, runtime_us, sampled>>
  BY DEF VerifyEnd, run, Starting, Exit
<1>2. complete' = 0 /\ cfg'.connections \in Nat /\ \A c \in DOMAIN spent' : spent'[c] \in Nat
  BY <1>1 DEF TimesInv, ConnectionsInv
<1>3. AllSpent' \in Nat
  <2>1. Terms(Spending', 1, cfg'.connections)
    BY <1>2 DEF Terms, Spending, SpentBy
  <2> QED
    BY <1>2, <2>1, SumNat DEF AllSpent
<1>4. Paced'
  <2> SUFFICES ASSUME NEW b \in 0..(MaxLatency + 1)
               PROVE  complete' * b <= AllSpent'
    BY DEF Paced
  <2>1. b \in Nat
    BY MainAssumption
  <2> QED
    BY <1>2, <1>3, <2>1
<1> QED
  BY <1>1, <1>4 DEF TimesInv, Starting, Running, Ending

LEMMA TimesAnswered ==
    ASSUME CheckInv, ConnectionsInv, TimesInv, NEW c \in Connections, NEW n \in 1..MaxRun, Answered(c, n)
    PROVE  TimesInv'
<1>1. /\ mpc = "run" /\ mpc' = "run" /\ cfg' = cfg
      /\ spent' = [d \in DOMAIN spent \cup {c} |-> IF d = c THEN SpentBy(c) + n ELSE spent[d]]
      /\ lat' = stats_record(lat, n) /\ complete' = complete + cfg.pipeline
      /\ runtime_us' = runtime_us
  BY DEF Answered, setup
<1>2. n \in Nat /\ MaxLatency \in Nat /\ Histogram(lat, MaxLatency)
  BY <1>1, MainAssumption DEF TimesInv, Running
<1>3. /\ Histogram(lat', MaxLatency)
      /\ \A b \in Nat : b <= lat'.min /\ b <= MaxLatency + 1 => b <= lat.min /\ b <= n
  BY <1>1, <1>2, RecordIs
<1>4. cfg.connections \in Nat /\ \A d \in DOMAIN spent : spent[d] \in Nat
  BY DEF ConnectionsInv, TimesInv
<1>5. /\ \A d : SpentBy(d) \in Nat
      /\ Terms(Spending, 1, cfg.connections)
      /\ \A d \in 1..cfg.connections : Spending[d] = SpentBy(d)
      /\ AllSpent \in Nat
  BY <1>4, SpendingIs
<1>6. complete' \in Nat /\ \A d \in DOMAIN spent' : spent'[d] \in Nat
  <2>1. SpentBy(c) + n \in Nat
    BY <1>2, <1>5
  <2>2. \A d \in DOMAIN spent' : spent'[d] \in Nat
    BY <1>1, <1>4, <2>1
  <2> QED
    BY <1>1, <2>2 DEF TimesInv, CheckInv
<1>7. AllSpent' = AllSpent + n
  <2>1. c \in 1..cfg.connections
    <3> DEFINE used == cfg.threads * cfg.each
    <3>1. used \in Nat /\ used <= cfg.connections /\ c \in 1..used
      BY DEF ConnectionsInv, Connections
    <3> HIDE DEF used
    <3> QED
      BY <1>4, <3>1
  <2>2. \A d : SpentBy(d)' = IF d = c THEN SpentBy(c) + n ELSE SpentBy(d)
    BY <1>1 DEF SpentBy
  <2>3. \A d \in 1..cfg.connections : (Spending')[d] = Spending[d] + (IF d = c THEN n ELSE 0)
    <3>1. \A d \in 1..cfg.connections : (Spending')[d] = SpentBy(d)'
      BY <1>1 DEF Spending
    <3> QED
      BY <1>2, <1>5, <2>2, <3>1
  <2>4. Terms(Spending', 1, cfg.connections)
    BY <1>2, <1>5, <2>3 DEF Terms
  <2>5. Raised(Spending, Spending', 1, cfg.connections, c, n)
    BY <2>3 DEF Raised
  <2> DEFINE t == Spending
             u == Spending'
             k == cfg.connections
  <2>6. AllSpent = SumOf(t, 1, k) /\ AllSpent' = SumOf(u, 1, k)
    BY <1>1 DEF AllSpent
  <2>7. /\ Terms(t, 1, k) /\ Terms(u, 1, k) /\ Raised(t, u, 1, k, c, n) /\ c \in 1..k /\ k \in Nat
    BY <1>4, <1>5, <2>1, <2>4, <2>5
  <2> HIDE DEF t, u, k
  <2> QED
    BY <1>2, <2>6, <2>7, SumChanged
<1>8. ASSUME cfg.pipeline = 1 PROVE Paced'
  <2> SUFFICES ASSUME NEW b \in 0..(MaxLatency + 1), b <= lat'.min
               PROVE  complete' * b <= AllSpent'
    BY DEF Paced
  <2>1. b \in Nat /\ b <= lat.min /\ b <= n
    BY <1>2, <1>3
  <2>2. complete * b <= AllSpent
    BY <1>1, <1>8, <2>1 DEF TimesInv, Paced, Running
  <2>3. complete' = complete + 1 /\ complete \in Nat
    BY <1>1, <1>8 DEF TimesInv
  <2>4. complete' * b = complete * b + b
    BY <2>1, <2>3
  <2> DEFINE product == complete * b
  <2>5. product \in Nat
    BY <2>1, <2>3
  <2> HIDE DEF product
  <2> QED
    BY <1>2, <1>5, <1>7, <2>1, <2>2, <2>3, <2>4, <2>5 DEF product
<1> QED
  BY <1>1, <1>3, <1>6, <1>8 DEF TimesInv, Starting, Running, Ending

LEMMA TimesEnd ==
    ASSUME TimesInv, NEW time \in 1..MaxRun, EndRun(time)
    PROVE  TimesInv'
<1>1. /\ mpc = "run" /\ mpc' = "correct" /\ UNCHANGED <<cfg, lat, complete, spent>>
      /\ runtime_us' = time /\ time \in Nat /\ \A c \in DOMAIN spent : spent[c] <= time
  BY MainAssumption DEF EndRun, setup
<1>2. Paced <=> Paced'
  BY <1>1 DEF Paced, AllSpent, Spending, SpentBy
<1> QED
  BY <1>1, <1>2 DEF TimesInv, Starting, Running, Ending

\* No connection has spent more than the time of the run.
LEMMA SpentWithinRun ==
    ASSUME ConnectionsInv, TimesInv, mpc = "correct"
    PROVE  AllSpent <= cfg.connections * runtime_us
<1> DEFINE k == cfg.connections
           full == [c \in 1..k |-> runtime_us]
<1>1. k \in Nat /\ runtime_us \in Nat
      /\ \A c \in DOMAIN spent : spent[c] \in Nat /\ spent[c] <= runtime_us
  BY DEF ConnectionsInv, TimesInv
<1>2. /\ Terms(Spending, 1, k) /\ \A c \in 1..k : Spending[c] = SpentBy(c)
  BY <1>1, SpendingIs
<1>3. \A c \in 1..k : Spending[c] <= full[c]
  BY <1>1, <1>2 DEF SpentBy
<1>4. Terms(full, 1, k) /\ Counting(full, 1, k, 1..k, runtime_us)
  BY <1>1 DEF Terms, Counting
<1> HIDE DEF full, k
<1>5. SumOf(Spending, 1, k) <= SumOf(full, 1, k)
  BY <1>1, <1>2, <1>3, <1>4, SumLess
<1>6. SumOf(full, 1, k) = k * runtime_us
  <2>1. CASE k = 0
    BY <1>1, <2>1, SumNone
  <2>2. CASE k # 0
    <3>1. SumOf(full, 1, k) = runtime_us * Cardinality(1..k)
      BY <1>1, <1>4, <2>2, SumCounts
    <3>2. Cardinality(1..k) = k
      BY <1>1, FS_Interval
    <3>3. runtime_us * k = k * runtime_us
      BY <1>1
    <3> QED
      BY <3>1, <3>2, <3>3
  <2> QED
    BY <2>1, <2>2
<1> QED
  BY <1>5, <1>6 DEF AllSpent, k

\* With one request at a time, some latency is not above the interval: it is the
\* time of the run divided by what one connection was answered.
LEMMA LeastBelowInterval ==
    ASSUME ConnectionsInv, TimesInv, mpc = "correct", cfg.pipeline = 1,
           complete \div cfg.connections > 0, interval > 0, interval <= MaxLatency
    PROVE  lat.min <= interval
<1> DEFINE k == cfg.connections
           part == complete \div k
           e == runtime_us \div part
<1>1. complete \in Nat /\ runtime_us \in Nat /\ Paced
      /\ Histogram(lat, MaxLatency) /\ MaxLatency \in Nat
  BY MainAssumption DEF TimesInv, Running
<1>2. k \in Nat \ {0}
  BY DEF ConnectionsInv
<1>3. interval = e /\ part \in Nat \ {0} /\ k * part <= complete
  <2>1. interval = e /\ part > 0
    BY DEF interval
  <2> HIDE DEF k
  <2> DEFINE rest == complete % k
             product == k * part
  <2>2. part \in Nat /\ rest \in Nat /\ product \in Nat /\ complete = product + rest
    BY <1>1, <1>2
  <2> HIDE DEF part, e, rest, product
  <2>3. product <= complete
    BY <1>1, <2>2
  <2> QED
    BY <2>1, <2>2, <2>3 DEF product
<1>4. e \in Nat /\ runtime_us < (e + 1) * part
  <2> HIDE DEF part
  <2>1. runtime_us = part * e + (runtime_us % part) /\ runtime_us % part \in 0..(part - 1)
        /\ e \in Nat
    BY <1>1, <1>3
  <2> DEFINE r == runtime_us % part
  <2> HIDE DEF e, r
  <2>2. (e + 1) * part = part * e + part
    BY <1>3, <2>1
  <2> QED
    BY <1>3, <2>1, <2>2 DEF r
<1>5. lat.min \in Nat
  BY <1>1 DEF Histogram, Counted
<1>6. AllSpent <= k * runtime_us /\ AllSpent \in Nat
  <2>1. \A c \in DOMAIN spent : spent[c] \in Nat
    BY DEF TimesInv
  <2> QED
    BY <1>2, <2>1, SpentWithinRun, SpendingIs
<1> HIDE DEF k, part, e
<1>7. SUFFICES ASSUME e + 1 <= lat.min PROVE FALSE
  BY <1>3, <1>4, <1>5
<1>8. complete * (e + 1) <= AllSpent
  BY <1>1, <1>3, <1>4, <1>7 DEF Paced
<1>9. (k * part) * (e + 1) <= complete * (e + 1)
  <2> DEFINE a == k * part
             b == e + 1
             d == complete - a
  <2>1. a \in Nat /\ b \in Nat
    BY <1>2, <1>3, <1>4
  <2>2. d \in Nat /\ complete = a + d
    <3> HIDE DEF a
    <3> QED
      BY <1>1, <1>3, <2>1 DEF a
  <2> HIDE DEF a, b, d
  <2>3. complete * b = a * b + d * b
    BY <2>1, <2>2
  <2>4. a * b \in Nat /\ d * b \in Nat
    BY <2>1, <2>2
  <2> QED
    BY <2>3, <2>4 DEF a, b
<1> DEFINE p == (e + 1) * part
           q == complete * (e + 1)
<1>10. p \in Nat /\ q \in Nat
  BY <1>1, <1>3, <1>4
<1>11. (k * part) * (e + 1) = k * p
  BY <1>2, <1>3, <1>4
<1> HIDE DEF p, q
<1>12. k * runtime_us < k * p
  <2> DEFINE gap == p - runtime_us
  <2>1. gap \in Nat \ {0} /\ p = runtime_us + gap
    BY <1>1, <1>4, <1>10 DEF p
  <2> HIDE DEF gap
  <2>2. k * p = k * runtime_us + k * gap
    BY <1>1, <1>2, <2>1
  <2>3. k * gap \in Nat \ {0} /\ k * runtime_us \in Nat
    BY <1>1, <1>2, <2>1
  <2> QED
    BY <2>2, <2>3
<1> DEFINE a == k * runtime_us
           b == k * p
<1>13. a \in Nat /\ b \in Nat
  BY <1>1, <1>2, <1>10
<1> HIDE DEF a, b
<1>14. a < b /\ b <= q /\ q <= AllSpent /\ AllSpent <= a
  BY <1>6, <1>8, <1>9, <1>11, <1>12 DEF a, b, q
<1> QED
  BY <1>6, <1>10, <1>13, <1>14

LEMMA TimesCorrected ==
    ASSUME ConnectionsInv, TimesInv, Correct
    PROVE  TimesInv'
<1> DEFINE part == complete \div cfg.connections
<1>1. /\ mpc = "correct" /\ mpc' = "report" /\ sampled' = lat
      /\ UNCHANGED <<cfg, complete, spent, runtime_us>>
      /\ \/ part > 0 /\ interval > 0 /\ lat' = stats_correct(lat, interval)
         \/ part = 0 /\ lat' = lat
  BY DEF Correct, setup
<1>2. complete \in Nat /\ runtime_us \in Nat /\ Histogram(lat, MaxLatency) /\ MaxLatency \in Nat
  BY <1>1, MainAssumption DEF TimesInv, Running
<1>3. part \in Nat /\ (part > 0 => interval \in Nat) /\ interval' = interval
  <2>1. cfg.connections \in Nat \ {0}
    BY <1>1 DEF ConnectionsInv
  <2>2. part \in Nat
    BY <1>2, <2>1
  <2>3. interval = runtime_us \div part /\ interval' = interval
    BY <1>1 DEF interval
  <2> HIDE DEF part
  <2>4. part > 0 => runtime_us \div part \in Nat
    BY <1>2, <2>2
  <2> QED
    BY <2>2, <2>3, <2>4
<1>4. Corrected'
  <2>1. CASE part > 0
    <3>1. interval \in Nat \ {0} /\ lat' = stats_correct(lat, interval)
      BY <1>1, <1>3, <2>1
    <3> DEFINE e == interval
    <3> HIDE DEF e
    <3>2. PICK hi \in Nat : CorrectedUpto(stats_correct(lat, e), lat, MaxLatency, e, hi)
      BY <1>2, <3>1, CorrectIs DEF e
    <3>3. lat'.count = SumOf(lat'.data, 0, MaxLatency)
      BY <3>1, <3>2 DEF CorrectedUpto, Counted, e
    <3>4. ASSUME cfg.pipeline = 1 PROVE Histogram(lat', MaxLatency)
      <4>1. e <= MaxLatency => lat.min <= e
        BY <1>1, <2>1, <3>1, <3>4, LeastBelowInterval DEF e
      <4>2. Histogram(stats_correct(lat, e), MaxLatency)
        BY <1>2, <3>1, <4>1, CorrectBounded DEF e
      <4> QED
        BY <3>1, <4>2 DEF e
    <3> QED
      BY <1>1, <1>2, <1>3, <2>1, <3>1, <3>3, <3>4 DEF Corrected, Total
  <2>2. CASE part = 0
    <3>1. lat' = lat
      BY <1>1, <2>2
    <3>2. lat.count = SumOf(lat.data, 0, MaxLatency)
      BY <1>2 DEF Histogram, Counted
    <3> QED
      BY <1>1, <1>2, <2>2, <3>1, <3>2 DEF Corrected, Total
  <2> QED
    BY <1>3, <2>1, <2>2
<1> QED
  BY <1>1, <1>4 DEF TimesInv, Starting, Running, Ending

LEMMA TimesReported ==
    ASSUME TimesInv, Report
    PROVE  TimesInv'
<1>1. /\ mpc = "report" /\ mpc' = "done"
      /\ UNCHANGED <<cfg, lat, complete, spent, runtime_us, sampled>>
  BY DEF Report, setup, run
<1>2. Corrected <=> Corrected'
  BY <1>1 DEF Corrected, interval, Total
<1>3. Reported'
  BY <1>1 DEF Report, Reported
<1> QED
  BY <1>1, <1>2, <1>3 DEF TimesInv, Starting, Running, Ending

LEMMA TimesStep ==
    ASSUME CheckInv, ConnectionsInv, ConnectionsInv', TimesInv, [Next]_vars
    PROVE  TimesInv'
<1> DEFINE Same == /\ UNCHANGED <<lat, complete, spent, runtime_us, sampled>>
                   /\ \/ mpc \in Starting /\ mpc' \in Starting \cup {"exit"}
                      \/ UNCHANGED <<mpc, report, cfg>>
<1>1. Same => TimesInv'
  BY TimesIdle
<1>2. ASSUME parse_option PROVE Same
  <2> DEFINE o == use.opts[opt + 1]
  <2>1. UNCHANGED <<lat, complete, spent, runtime_us, sampled, report>> /\ mpc = "args"
    BY <1>2 DEF parse_option, run
  <2>2. NumberOption(o) \/ FlagOption(o) \/ HeaderOption(o) \/ UnknownOption(o)
    BY <1>2, Zenon DEF parse_option
  <2> HIDE DEF o
  <2>3. mpc' = mpc \/ mpc' = "exit"
    BY <2>2 DEF NumberOption, FlagOption, HeaderOption, UnknownOption, Exit
  <2> QED
    BY <2>1, <2>3 DEF Starting
<1>3. ASSUME args_done PROVE Same
  BY <1>3 DEF args_done, run, Starting, Exit
<1>4. ASSUME init_tls PROVE Same
  BY <1>4 DEF init_tls, run, Starting, Exit
<1>5. ASSUME script_create PROVE Same
  BY <1>5 DEF script_create, run, Starting
<1>6. ASSUME NEW answer, script_resolve(answer) PROVE Same
  <2>1. /\ UNCHANGED <<lat, complete, spent, runtime_us, sampled>>
        /\ mpc = "resolve" /\ mpc' \in {"setup", "exit"}
    BY <1>6, Zenon DEF script_resolve, Exit
  <2> QED
    BY <2>1 DEF Starting
<1>7. ASSUME wrk_setup PROVE Same
  BY <1>7 DEF wrk_setup, setup, Starting
<1>8. ASSUME ScriptCalls PROVE Same
  BY <1>8, Zenon DEF ScriptCalls, setup
<1>9. ASSUME script_init PROVE Same
  BY <1>9, Zenon DEF script_init, Starting
<1>10. ASSUME VerifyByte PROVE Same
  BY <1>10 DEF VerifyByte, setup, run, Starting
<1>11. ASSUME UNCHANGED vars PROVE Same
  BY <1>11 DEF vars, setup, run
<1> HIDE DEF Same
<1> QED
  BY <1>1, <1>2, <1>3, <1>4, <1>5, <1>6, <1>7, <1>8, <1>9, <1>10, <1>11,
     TimesVerified, TimesAnswered, TimesEnd, TimesCorrected, TimesReported DEF Next

LEMMA ReportIs ==
    ASSUME CheckInv, TimesInv
    PROVE  ReportAsSampled
<1> SUFFICES ASSUME mpc = "done"
             PROVE  /\ lat.count = Total(lat.data)
                    /\ complete \div cfg.connections > 0 =>
                         \A v \in 0..MaxLatency :
                           lat.data[v] = IF v > interval THEN Standing(v) ELSE sampled.data[v]
                    /\ cfg.pipeline = 1 /\ lat.count > 0 =>
                         /\ report.mean = [sum |-> Total([n \in 0..MaxLatency |-> lat.data[n] * n]),
                                           count |-> lat.count]
                         /\ \A p \in Percentiles : SplitBy(p, report.percentile[p])
                         /\ SumOf([k \in DOMAIN report.entries |-> report.entries[k].count], 1,
                                  Len(report.entries)) = lat.count
                         /\ report.within \in 1..lat.count
  BY DEF ReportAsSampled
<1>1. Corrected /\ Reported /\ MaxLatency \in Nat
  BY MainAssumption DEF TimesInv, Ending
<1>2. lat.count = Total(lat.data)
  BY <1>1 DEF Corrected
<1>3. ASSUME complete \div cfg.connections > 0, NEW v \in 0..MaxLatency
      PROVE  lat.data[v] = IF v > interval THEN Standing(v) ELSE sampled.data[v]
  <2>1. Histogram(sampled, MaxLatency) /\ interval \in Nat \ {0} /\ lat = stats_correct(sampled, interval)
    BY <1>1, <1>3 DEF Corrected
  <2>2. lat.data[v] = IF v > interval
                      THEN SumOf(AllLanded(sampled.data, MaxLatency, interval, v), 0, MaxLatency)
                      ELSE sampled.data[v]
    BY <1>1, <2>1, CorrectedAsSampled
  <2>3. Standing(v) = SumOf(AllLanded(sampled.data, MaxLatency, interval, v), 0, MaxLatency)
    BY Zenon DEF Standing, Total, AllLanded
  <2> QED
    BY <2>2, <2>3
<1>4. ASSUME cfg.pipeline = 1, lat.count > 0
      PROVE  /\ report.mean = [sum |-> Total([n \in 0..MaxLatency |-> lat.data[n] * n]),
                               count |-> lat.count]
             /\ \A p \in Percentiles : SplitBy(p, report.percentile[p])
             /\ SumOf([k \in DOMAIN report.entries |-> report.entries[k].count], 1,
                      Len(report.entries)) = lat.count
             /\ report.within \in 1..lat.count
  <2>1. Filled(lat, MaxLatency)
    BY <1>1, <1>4 DEF Corrected, Filled
  <2>2. report.mean = [sum |-> Total([n \in 0..MaxLatency |-> lat.data[n] * n]), count |-> lat.count]
    BY <1>1, <2>1, MeanIs DEF Reported, Total
  <2>3. ASSUME NEW p \in Percentiles PROVE SplitBy(p, report.percentile[p])
    <3> DEFINE v == report.percentile[p]
    <3>1. p \in 1..99 /\ v = stats_percentile(lat, p)
      BY <1>1 DEF Percentiles, Reported
    <3> HIDE DEF v
    <3>2. /\ SumOf(BelowOf(lat.data, MaxLatency, v), 0, MaxLatency) * 100 <= p * lat.count
          /\ p * lat.count
               < (SumOf(BelowOf(lat.data, MaxLatency, v), 0, MaxLatency) + lat.data[v]) * 100
      BY <1>1, <2>1, <3>1, PercentileIs
    <3> QED
      BY <3>2, Zenon DEF SplitBy, Total, BelowOf, v
  <2>4. SumOf([k \in DOMAIN report.entries |-> report.entries[k].count], 1, Len(report.entries))
          = lat.count
    <3> DEFINE m == stats_popcount(lat)
               t == [k \in DOMAIN report.entries |-> report.entries[k].count]
    <3>1. m \in Nat
      BY <1>1, <2>1, EntriesIs
    <3>2. report.entries = [k \in 1..m |-> stats_value_at(lat, k - 1)]
      BY <1>1 DEF Reported
    <3> HIDE DEF m
    <3>3. Len(report.entries) = m /\ DOMAIN report.entries = 1..m
      BY <3>1, <3>2
    <3>4. \A k \in 1..m : t[k] = stats_value_at(lat, k - 1).count
      BY <3>2, <3>3
    <3> HIDE DEF t
    <3>5. SumOf(t, 1, m) = lat.count
      BY <1>1, <2>1, <3>4, EntriesAdd DEF m
    <3> QED
      BY <3>3, <3>5 DEF t
  <2>5. report.within \in 1..lat.count
    BY <1>1, <2>1, WithinIs DEF Reported
  <2> QED
    BY <2>2, <2>3, <2>4, <2>5
<1> QED
  BY <1>2, <1>3, <1>4

\* The correction counts for each latency above the interval the recorded ones
\* that are a number of intervals larger, and what is reported of a run with one
\* request at a time agrees with the whole corrected histogram: none of it lies
\* outside min and max (stats_correct, print_stats, print_stats_latency, wrk.c).
THEOREM LatenciesAreReported == Spec => []ReportAsSampled
<1> DEFINE Inv == CheckInv /\ ConnectionsInv /\ use \in Uses /\ TimesInv
<1>1. Init => Inv
  <2> SUFFICES ASSUME Init PROVE Inv
    OBVIOUS
  <2>1. use \in Uses
    BY DEF Init
  <2> QED
    BY <2>1, CheckInit, ConnectionsInit, TimesInit
<1>2. Inv /\ [Next]_vars => Inv'
  <2> SUFFICES ASSUME Inv, [Next]_vars PROVE Inv'
    OBVIOUS
  <2>1. CheckInv' /\ ConnectionsInv'
    BY CheckStep, ConnectionsStep
  <2>2. TimesInv'
    BY <2>1, TimesStep
  <2>3. use' = use
    BY UseKept
  <2> QED
    BY <2>1, <2>2, <2>3
<1>3. Inv => ReportAsSampled
  BY ReportIs
<1> QED
  BY <1>1, <1>2, <1>3, PTL DEF Spec
=============================================================================
