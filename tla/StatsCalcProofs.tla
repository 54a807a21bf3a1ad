--------------------------- MODULE StatsCalcProofs ---------------------------
(***************************************************************************)
(* Proofs about what stats.c computes from a histogram at rest, for any    *)
(* size and content of the histogram.                                      *)
(***************************************************************************)
EXTENDS StatsCalc, FiniteSetTheorems, WellFoundedInduction, TLAPS

-----------------------------------------------------------------------------
(***************************************************************************)
(* Numbers.                                                                *)
(***************************************************************************)
LEMMA LeastOf ==
    ASSUME NEW S, S \subseteq Nat, S # {}
    PROVE  \E k \in S : \A l \in S : k <= l
<1>1. PICK Q : IsWellFoundedOn(Q, Nat) /\ \A k, l \in Nat : <<l, k>> \in Q <=> l < k
  <2>1. \A k, l \in Nat : <<l, k>> \in OpToRel(<, Nat) <=> l < k
    BY DEF OpToRel
  <2> WITNESS OpToRel(<, Nat)
  <2> QED
    BY <2>1, NatLessThanWellFounded, Zenon
<1>2. PICK k \in S : \A l \in S : ~(<<l, k>> \in Q)
  BY <1>1, WFMin
<1>3. ASSUME NEW l \in S PROVE k <= l
  <2>1. ~(<<l, k>> \in Q) /\ k \in Nat /\ l \in Nat
    BY <1>2
  <2>2. ~(l < k)
    BY <1>1, <2>1, Zenon
  <2> QED
    BY <2>1, <2>2
<1> QED
  BY <1>3

\* What is true of a and passes from a number to the next is true up to b.
LEMMA Rising ==
    ASSUME NEW a \in Nat, NEW b \in Nat, NEW S, a \in S,
           \A n \in a..b : n # a /\ n - 1 \in S => n \in S
    PROVE  \A n \in a..b : n \in S
<1> DEFINE T == {n \in a..b : n \notin S}
<1>1. SUFFICES ASSUME T # {} PROVE FALSE
  OBVIOUS
<1>2. PICK n \in T : \A m \in T : n <= m
  <2>1. T \subseteq Nat
    OBVIOUS
  <2> HIDE DEF T
  <2> QED
    BY <1>1, <2>1, LeastOf
<1>3. n \in a..b /\ n \notin S /\ n # a
  OBVIOUS
<1>4. n - 1 \in a..b /\ ~(n <= n - 1)
  BY <1>3
<1> QED
  BY <1>2, <1>3, <1>4

-----------------------------------------------------------------------------
(***************************************************************************)
(* Sums.                                                                   *)
(***************************************************************************)
PartialSums(f, t, a, b) == f = [n \in a..b |-> t[n] + (IF n = a THEN 0 ELSE f[n - 1])]

LEMMA PartialSumsExist ==
    ASSUME NEW t, NEW a \in Nat, NEW b \in Nat, a <= b
    PROVE  \E f : PartialSums(f, t, a, b)
<1> DEFINE S == {n \in Nat : \E f : PartialSums(f, t, a, n)}
<1>1. a \in S
  <2> DEFINE f == [n \in a..a |-> t[n] + 0]
  <2>1. \A n \in a..a : t[n] + 0 = t[n] + (IF n = a THEN 0 ELSE f[n - 1])
    OBVIOUS
  <2>2. f = [n \in a..a |-> t[n] + (IF n = a THEN 0 ELSE f[n - 1])]
    BY <2>1, Zenon
  <2> QED
    BY <2>2 DEF PartialSums
<1>2. ASSUME NEW m \in a..b, m # a, m - 1 \in S
      PROVE  m \in S
  <2>1. PICK f : PartialSums(f, t, a, m - 1)
    BY <1>2
  <2>2. \A n \in a..(m - 1) : f[n] = t[n] + (IF n = a THEN 0 ELSE f[n - 1])
    BY <2>1 DEF PartialSums
  <2> DEFINE g == [n \in a..m |-> IF n = m THEN t[m] + f[m - 1] ELSE f[n]]
  <2>3. \A n \in a..m : g[n] = IF n = m THEN t[m] + f[m - 1] ELSE f[n]
    BY Zenon
  <2>4. \A n \in a..m : n # m => n \in a..(m - 1)
    OBVIOUS
  <2>5. \A n \in a..m : n # a => n - 1 \in a..m /\ n - 1 # m
    OBVIOUS
  <2>6. g = [n \in a..m |-> g[n]]
    OBVIOUS
  <2> HIDE DEF g
  <2>7. \A n \in a..m : g[n] = t[n] + (IF n = a THEN 0 ELSE g[n - 1])
    <3> TAKE n \in a..m
    <3>1. CASE n = m
      BY <1>2, <2>3, <2>5, <3>1
    <3>2. CASE n # m
      BY <2>2, <2>3, <2>4, <2>5, <3>2
    <3> QED
      BY <3>1, <3>2
  <2>8. g = [n \in a..m |-> t[n] + (IF n = a THEN 0 ELSE g[n - 1])]
    BY <2>6, <2>7
  <2> QED
    BY <2>8 DEF PartialSums
<1> HIDE DEF S
<1>3. b \in S
  BY <1>1, <1>2, Rising
<1> QED
  BY <1>3 DEF S

LEMMA SumIsPartial ==
    ASSUME NEW t, NEW a \in Nat, NEW b \in Nat, a <= b
    PROVE  \E f : PartialSums(f, t, a, b) /\ SumOf(t, a, b) = f[b]
<1> DEFINE f == CHOOSE f : f = [n \in a..b |-> t[n] + (IF n = a THEN 0 ELSE f[n - 1])]
<1>1. \E g : g = [n \in a..b |-> t[n] + (IF n = a THEN 0 ELSE g[n - 1])]
  <2>1. \E g : PartialSums(g, t, a, b)
    BY PartialSumsExist
  <2> QED
    BY <2>1, Zenon DEF PartialSums
<1>2. f = [n \in a..b |-> t[n] + (IF n = a THEN 0 ELSE f[n - 1])]
  BY <1>1, Zenon
<1>3. SumOf(t, a, b) = f[b]
  <2>1. ~(b < a)
    OBVIOUS
  <2> QED
    BY <2>1, Zenon DEF SumOf
<1> HIDE DEF f
<1> QED
  BY <1>2, <1>3 DEF PartialSums

\* The terms of a sum.
Terms(t, a, b) == \A n \in a..b : t[n] \in Nat

LEMMA SumNone ==
    ASSUME NEW t, NEW a \in Nat, NEW b \in Nat, b < a
    PROVE  SumOf(t, a, b) = 0
  BY Zenon DEF SumOf

LEMMA SumOne ==
    ASSUME NEW t, NEW a \in Nat, t[a] \in Nat
    PROVE  SumOf(t, a, a) = t[a]
<1>1. PICK f : PartialSums(f, t, a, a) /\ SumOf(t, a, a) = f[a]
  BY SumIsPartial
<1>2. a \in a..a
  OBVIOUS
<1>3. f[a] = t[a] + 0
  BY <1>1, <1>2 DEF PartialSums
<1> QED
  BY <1>1, <1>3

LEMMA SumLast ==
    ASSUME NEW t, NEW a \in Nat, NEW b \in Nat, a < b
    PROVE  SumOf(t, a, b) = t[b] + SumOf(t, a, b - 1)
<1>1. PICK f : PartialSums(f, t, a, b) /\ SumOf(t, a, b) = f[b]
  BY SumIsPartial
<1>2. PICK g : PartialSums(g, t, a, b - 1) /\ SumOf(t, a, b - 1) = g[b - 1]
  BY SumIsPartial
<1>3. \A n \in a..b : f[n] = t[n] + (IF n = a THEN 0 ELSE f[n - 1])
  BY <1>1 DEF PartialSums
<1>4. \A n \in a..(b - 1) : g[n] = t[n] + (IF n = a THEN 0 ELSE g[n - 1])
  BY <1>2 DEF PartialSums
<1> DEFINE S == {n \in Nat : f[n] = g[n]}
<1>5. a \in S
  BY <1>3, <1>4
<1>6. ASSUME NEW n \in a..(b - 1), n # a, n - 1 \in S
      PROVE  n \in S
  <2>1. n \in a..b /\ f[n - 1] = g[n - 1]
    BY <1>6
  <2> QED
    BY <1>3, <1>4, <1>6, <2>1
<1> HIDE DEF S
<1>7. b - 1 \in S
  BY <1>5, <1>6, Rising
<1>8. f[b - 1] = g[b - 1] /\ b \in a..b /\ b # a
  BY <1>7 DEF S
<1> QED
  BY <1>1, <1>2, <1>3, <1>8

LEMMA SumNat ==
    ASSUME NEW t, NEW a \in Nat, NEW b \in Nat, Terms(t, a, b)
    PROVE  SumOf(t, a, b) \in Nat
<1>1. CASE b < a
  BY <1>1, SumNone
<1>2. CASE a <= b
  <2> DEFINE S == {n \in Nat : SumOf(t, a, n) \in Nat}
  <2>1. a \in S
    BY <1>2, SumOne DEF Terms
  <2>2. ASSUME NEW n \in a..b, n # a, n - 1 \in S
        PROVE  n \in S
    <3>1. SumOf(t, a, n) = t[n] + SumOf(t, a, n - 1) /\ t[n] \in Nat
      BY <2>2, SumLast DEF Terms
    <3> QED
      BY <2>2, <3>1
  <2> HIDE DEF S
  <2>3. \A n \in a..b : n \in S
    BY <2>1, <2>2, Rising
  <2>4. b \in S
    BY <1>2, <2>3
  <2> QED
    BY <2>4 DEF S
<1> QED
  BY <1>1, <1>2

\* Sums of the same terms.
LEMMA SumSame ==
    ASSUME NEW t, NEW u, NEW a \in Nat, NEW b \in Nat, Terms(t, a, b),
           \A n \in a..b : u[n] = t[n]
    PROVE  SumOf(u, a, b) = SumOf(t, a, b)
<1> DEFINE S == {n \in Nat : SumOf(u, a, n) = SumOf(t, a, n)}
<1>1. CASE b < a
  BY <1>1, SumNone
<1>2. CASE a <= b
  <2>1. a \in S
    BY <1>2, SumOne DEF Terms
  <2>2. ASSUME NEW n \in a..b, n # a, n - 1 \in S
        PROVE  n \in S
    <3>1. SumOf(t, a, n) = t[n] + SumOf(t, a, n - 1) /\ SumOf(u, a, n) = u[n] + SumOf(u, a, n - 1)
      BY <2>2, SumLast
    <3> QED
      BY <2>2, <3>1
  <2> HIDE DEF S
  <2>3. \A n \in a..b : n \in S
    BY <2>1, <2>2, Rising
  <2>4. b \in S
    BY <1>2, <2>3
  <2> QED
    BY <2>4 DEF S
<1> QED
  BY <1>1, <1>2

\* Sums of smaller terms.
LEMMA SumLess ==
    ASSUME NEW t, NEW u, NEW a \in Nat, NEW b \in Nat, Terms(t, a, b), Terms(u, a, b),
           \A n \in a..b : u[n] <= t[n]
    PROVE  SumOf(u, a, b) <= SumOf(t, a, b)
<1> DEFINE S == {n \in Nat : SumOf(u, a, n) <= SumOf(t, a, n)}
<1>1. CASE b < a
  BY <1>1, SumNone
<1>2. CASE a <= b
  <2>1. a \in S
    BY <1>2, SumOne DEF Terms
  <2>2. ASSUME NEW n \in a..b, n # a, n - 1 \in S
        PROVE  n \in S
    <3>1. SumOf(t, a, n) = t[n] + SumOf(t, a, n - 1) /\ SumOf(u, a, n) = u[n] + SumOf(u, a, n - 1)
      BY <2>2, SumLast
    <3>2. Terms(t, a, n - 1) /\ Terms(u, a, n - 1) /\ t[n] \in Nat /\ u[n] \in Nat
      BY <2>2 DEF Terms
    <3>3. SumOf(t, a, n - 1) \in Nat /\ SumOf(u, a, n - 1) \in Nat
      BY <2>2, <3>2, SumNat
    <3> QED
      BY <2>2, <3>1, <3>2, <3>3
  <2> HIDE DEF S
  <2>3. \A n \in a..b : n \in S
    BY <2>1, <2>2, Rising
  <2>4. b \in S
    BY <1>2, <2>3
  <2> QED
    BY <2>4 DEF S
<1> QED
  BY <1>1, <1>2

\* Sums of multiples.
LEMMA SumScaled ==
    ASSUME NEW t, NEW u, NEW a \in Nat, NEW b \in Nat, Terms(t, a, b), NEW c \in Nat,
           \A n \in a..b : u[n] = c * t[n]
    PROVE  SumOf(u, a, b) = c * SumOf(t, a, b)
<1> DEFINE S == {n \in Nat : SumOf(u, a, n) = c * SumOf(t, a, n)}
<1>1. CASE b < a
  BY <1>1, SumNone
<1>2. CASE a <= b
  <2>1. a \in S
    <3>1. t[a] \in Nat /\ u[a] = c * t[a] /\ u[a] \in Nat
      BY <1>2 DEF Terms
    <3> QED
      BY <3>1, SumOne
  <2>2. ASSUME NEW n \in a..b, n # a, n - 1 \in S
        PROVE  n \in S
    <3>1. SumOf(t, a, n) = t[n] + SumOf(t, a, n - 1) /\ SumOf(u, a, n) = u[n] + SumOf(u, a, n - 1)
      BY <2>2, SumLast
    <3>2. Terms(t, a, n - 1) /\ t[n] \in Nat
      BY <2>2 DEF Terms
    <3>3. SumOf(t, a, n - 1) \in Nat
      BY <2>2, <3>2, SumNat
    <3>4. u[n] = c * t[n] /\ SumOf(u, a, n - 1) = c * SumOf(t, a, n - 1)
      BY <2>2
    <3> DEFINE x == t[n]
               y == SumOf(t, a, n - 1)
    <3>5. c * (x + y) = c * x + c * y
      <4> HIDE DEF x, y
      <4> SUFFICES ASSUME x \in Nat, y \in Nat PROVE c * (x + y) = c * x + c * y
        BY <3>2, <3>3 DEF x, y
      <4> QED
        OBVIOUS
    <3> QED
      BY <3>1, <3>4, <3>5
  <2> HIDE DEF S
  <2>3. \A n \in a..b : n \in S
    BY <2>1, <2>2, Rising
  <2>4. b \in S
    BY <1>2, <2>3
  <2> QED
    BY <2>4 DEF S
<1> QED
  BY <1>1, <1>2

\* A sum of which one term changes.
Raised(t, u, a, b, p, d) == \A n \in a..b : u[n] = t[n] + (IF n = p THEN d ELSE 0)

LEMMA SumChanged ==
    ASSUME NEW t, NEW u, NEW a \in Nat, NEW b \in Nat, Terms(t, a, b), Terms(u, a, b),
           NEW p \in a..b, NEW d \in Nat, Raised(t, u, a, b, p, d)
    PROVE  SumOf(u, a, b) = SumOf(t, a, b) + d
<1> USE DEF Raised
<1> DEFINE S == {n \in Nat : SumOf(u, a, n) = SumOf(t, a, n) + (IF p <= n THEN d ELSE 0)}
<1>1. a \in S
  BY SumOne DEF Terms
<1>2. ASSUME NEW n \in a..b, n # a, n - 1 \in S
      PROVE  n \in S
  <2>1. SumOf(t, a, n) = t[n] + SumOf(t, a, n - 1) /\ SumOf(u, a, n) = u[n] + SumOf(u, a, n - 1)
    BY <1>2, SumLast
  <2>2. Terms(t, a, n - 1) /\ Terms(u, a, n - 1) /\ t[n] \in Nat /\ u[n] \in Nat
    BY <1>2 DEF Terms
  <2>3. SumOf(t, a, n - 1) \in Nat /\ SumOf(u, a, n - 1) \in Nat
    BY <1>2, <2>2, SumNat
  <2>4. u[n] = t[n] + (IF n = p THEN d ELSE 0)
    BY <1>2
  <2>5. SumOf(u, a, n - 1) = SumOf(t, a, n - 1) + (IF p <= n - 1 THEN d ELSE 0)
    BY <1>2
  <2> QED
    BY <2>1, <2>2, <2>3, <2>4, <2>5
<1> HIDE DEF S
<1>3. b \in S
  BY SMTT(60), <1>1, <1>2, Rising
<1> QED
  BY <1>3 DEF S

\* A sum of the same number for each element of a set.
Counting(t, a, b, C, d) == \A n \in a..b : t[n] = IF n \in C THEN d ELSE 0

LEMMA SumCounts ==
    ASSUME NEW t, NEW a \in Nat, NEW b \in Nat, NEW C, C \subseteq a..b, NEW d \in Nat, a <= b,
           Counting(t, a, b, C, d)
    PROVE  SumOf(t, a, b) = d * Cardinality(C) /\ Cardinality(C) \in Nat
<1> USE DEF Counting
<1> DEFINE Low(n) == {m \in C : m <= n}
           S == {n \in Nat : SumOf(t, a, n) = d * Cardinality(Low(n))
                             /\ Cardinality(Low(n)) \in Nat /\ IsFiniteSet(Low(n))}
<1>0. /\ \A n \in Nat : \A m : m \in Low(n) <=> m \in C /\ m <= n
      /\ \A m \in C : m \in Nat /\ a <= m /\ m <= b
  OBVIOUS
<1>1. a \in S
  <2>1. t[a] = (IF a \in C THEN d ELSE 0) /\ t[a] \in Nat
    OBVIOUS
  <2> HIDE DEF Low
  <2>5. \A m : m \in Low(a) <=> m \in C /\ m = a
    <3>1. \A m : m \in Low(a) <=> m \in C /\ m <= a
      BY <1>0
    <3>2. \A m \in C : m <= a <=> m = a
      BY <1>0
    <3> QED
      BY <3>1, <3>2, Zenon
  <2>2. SumOf(t, a, a) = t[a]
    BY <2>1, SumOne
  <2>3. CASE a \in C
    <3>1. Low(a) = {a}
      <4>1. \A m : m \in Low(a) <=> m = a
        BY <2>3, <2>5, Zenon
      <4> QED
        BY <4>1, Zenon
    <3>2. Cardinality(Low(a)) = 1 /\ IsFiniteSet(Low(a))
      BY <3>1, FS_Singleton
    <3> QED
      BY <2>1, <2>2, <2>3, <3>2
  <2>4. CASE a \notin C
    <3>1. Low(a) = {}
      <4>1. \A m : m \notin Low(a)
        BY <2>4, <2>5, Zenon
      <4> QED
        BY <4>1, Zenon
    <3>2. Cardinality(Low(a)) = 0 /\ IsFiniteSet(Low(a))
      BY <3>1, FS_EmptySet
    <3> QED
      BY <2>1, <2>2, <2>4, <3>2
  <2> QED
    BY <2>3, <2>4
<1>2. ASSUME NEW n \in a..b, n # a, n - 1 \in S
      PROVE  n \in S
  <2>1. t[n] = (IF n \in C THEN d ELSE 0) /\ SumOf(t, a, n) = t[n] + SumOf(t, a, n - 1)
    BY <1>2, SumLast
  <2>0. n \in Nat /\ n - 1 \in Nat /\ \A m \in Nat : m <= n <=> m <= n - 1 \/ m = n
    BY <1>2
  <2> DEFINE c == Cardinality(Low(n - 1))
  <2>2. SumOf(t, a, n - 1) = d * c /\ c \in Nat /\ IsFiniteSet(Low(n - 1))
    BY <1>2
  <2> HIDE DEF Low
  <2>3. CASE n \in C
    <3>1. Low(n) = Low(n - 1) \cup {n} /\ n \notin Low(n - 1)
      <4>1. \A m : m \in Low(n) <=> m \in Low(n - 1) \/ m = n
        BY <1>0, <2>0, <2>3
      <4>2. n \notin Low(n - 1)
        BY <1>0, <2>0
      <4> QED
        BY <4>1, <4>2, Zenon
    <3>2. Cardinality(Low(n)) = c + 1 /\ IsFiniteSet(Low(n))
      BY <2>2, <3>1, FS_AddElement
    <3> HIDE DEF c
    <3>3. d + d * c = d * (c + 1)
      BY <2>2
    <3> QED
      BY <2>1, <2>2, <2>3, <3>2, <3>3
  <2>4. CASE n \notin C
    <3>1. Low(n) = Low(n - 1)
      <4>1. \A m : m \in Low(n) <=> m \in Low(n - 1)
        BY <1>0, <2>0, <2>4
      <4> QED
        BY <4>1, Zenon
    <3> QED
      BY <2>1, <2>2, <2>4, <3>1
  <2> QED
    BY <2>3, <2>4
<1> HIDE DEF S
<1>3. b \in S
  BY <1>1, <1>2, Rising
<1>4. Low(b) = C
  <2> HIDE DEF Low
  <2>1. \A m : m \in Low(b) <=> m \in C
    BY <1>0
  <2> QED
    BY <2>1, Zenon
<1> QED
  BY <1>3, <1>4 DEF S

\* A sum of terms each of which is that of two sums.
LEMMA SumAdded ==
    ASSUME NEW t, NEW u, NEW w, NEW a \in Nat, NEW b \in Nat, Terms(t, a, b), Terms(u, a, b),
           Terms(w, a, b), a <= b, \A n \in a..b : w[n] = t[n] + u[n]
    PROVE  SumOf(w, a, b) = SumOf(t, a, b) + SumOf(u, a, b)
<1> DEFINE S == {n \in Nat : SumOf(w, a, n) = SumOf(t, a, n) + SumOf(u, a, n)}
<1>1. a \in S
  BY SumOne DEF Terms
<1>2. ASSUME NEW n \in a..b, n # a, n - 1 \in S
      PROVE  n \in S
  <2>1. /\ SumOf(t, a, n) = t[n] + SumOf(t, a, n - 1)
        /\ SumOf(u, a, n) = u[n] + SumOf(u, a, n - 1)
        /\ SumOf(w, a, n) = w[n] + SumOf(w, a, n - 1)
    BY <1>2, SumLast
  <2>2. Terms(t, a, n - 1) /\ Terms(u, a, n - 1) /\ t[n] \in Nat /\ u[n] \in Nat
    BY <1>2 DEF Terms
  <2>3. SumOf(t, a, n - 1) \in Nat /\ SumOf(u, a, n - 1) \in Nat
    BY <1>2, <2>2, SumNat
  <2>4. w[n] = t[n] + u[n] /\ SumOf(w, a, n - 1) = SumOf(t, a, n - 1) + SumOf(u, a, n - 1)
    BY <1>2
  <2> QED
    BY <2>1, <2>2, <2>3, <2>4
<1> HIDE DEF S
<1>3. b \in S
  BY SMTT(60), <1>1, <1>2, Rising
<1> QED
  BY <1>3 DEF S

\* Terms that are 0 need not be added.
LEMMA SumWithin ==
    ASSUME NEW t, NEW M \in Nat, Terms(t, 0, M), NEW lo \in 0..M, NEW hi \in lo..M,
           \A n \in 0..M : t[n] # 0 => n \in lo..hi
    PROVE  SumOf(t, 0, M) = SumOf(t, lo, hi)
<1>1. SumOf(t, lo, hi) \in Nat /\ \A n \in lo..hi : SumOf(t, lo, n) \in Nat
  BY SumNat DEF Terms
<1> DEFINE S == {n \in Nat : SumOf(t, 0, n) = IF n < lo THEN 0
                                              ELSE IF n <= hi THEN SumOf(t, lo, n)
                                              ELSE SumOf(t, lo, hi)}
<1>2. 0 \in S
  <2>1. SumOf(t, 0, 0) = t[0] /\ t[0] \in Nat
    BY SumOne DEF Terms
  <2> QED
    BY <2>1
<1>3. ASSUME NEW n \in 0..M, n # 0, n - 1 \in S
      PROVE  n \in S
  <2>1. SumOf(t, 0, n) = t[n] + SumOf(t, 0, n - 1) /\ t[n] \in Nat
    BY <1>3, SumLast DEF Terms
  <2>2. CASE n < lo
    BY <1>3, <2>1, <2>2
  <2>3. CASE n = lo
    <3>1. SumOf(t, lo, lo) = t[lo]
      BY <2>1, <2>3, SumOne
    <3> QED
      BY <1>3, <2>1, <2>3, <3>1
  <2>4. CASE n > lo /\ n <= hi
    <3>1. SumOf(t, lo, n) = t[n] + SumOf(t, lo, n - 1)
      BY <2>4, SumLast
    <3> QED
      BY <1>3, <2>1, <2>4, <3>1
  <2>5. CASE n > hi
    <3>1. t[n] = 0 /\ SumOf(t, 0, n - 1) = SumOf(t, lo, hi)
      BY <1>3, <2>5
    <3> QED
      BY <1>1, <2>1, <2>5, <3>1
  <2> QED
    BY <2>2, <2>3, <2>4, <2>5
<1> HIDE DEF S
<1>4. M \in S
  BY <1>2, <1>3, Rising
<1> QED
  BY <1>1, <1>4 DEF S

LEMMA SumZero ==
    ASSUME NEW t, NEW a \in Nat, NEW b \in Nat, \A n \in a..b : t[n] = 0
    PROVE  SumOf(t, a, b) = 0
<1>1. Terms(t, a, b) /\ \A n \in a..b : t[n] = 0 * t[n]
  BY DEF Terms
<1>2. SumOf(t, a, b) = 0 * SumOf(t, a, b)
  BY <1>1, SumScaled
<1>3. SumOf(t, a, b) \in Nat
  BY <1>1, SumNat
<1> QED
  BY <1>2, <1>3

\* Each term is at most the sum.
LEMMA TermWithin ==
    ASSUME NEW t, NEW M \in Nat, Terms(t, 0, M), NEW n \in 0..M
    PROVE  t[n] <= SumOf(t, 0, M) /\ t[n] \in Nat
<1> DEFINE u == [k \in 0..M |-> IF k = n THEN t[n] ELSE 0]
<1>1. \A k \in 0..M : u[k] = IF k = n THEN t[n] ELSE 0
  OBVIOUS
<1>2. \A k \in 0..M : t[k] \in Nat
  BY DEF Terms
<1> HIDE DEF u
<1>3. Terms(u, 0, M) /\ \A k \in 0..M : u[k] <= t[k]
  BY <1>1, <1>2 DEF Terms
<1>4. SumOf(u, 0, M) <= SumOf(t, 0, M)
  BY <1>3, SumLess
<1>5. SumOf(u, 0, M) = t[n] * Cardinality({n})
  <2>1. Counting(u, 0, M, {n}, t[n]) /\ {n} \subseteq 0..M /\ t[n] \in Nat
    BY <1>1, <1>2 DEF Counting
  <2> QED
    BY <2>1, SumCounts
<1>6. Cardinality({n}) = 1
  BY FS_Singleton
<1> QED
  BY <1>2, <1>4, <1>5, <1>6

-----------------------------------------------------------------------------
(***************************************************************************)
(* Histograms of the values 0..M: the count is the sum of the entries, and *)
(* none of these lies outside min and max.                                 *)
(***************************************************************************)
Counted(s, M) ==
    /\ DOMAIN s = {"limit", "data", "count", "min", "max"}
    /\ s.limit = M + 1 /\ s.data \in [0..M -> Nat] /\ s.max \in 0..M /\ s.min \in Nat
    /\ s.count = SumOf(s.data, 0, M)

Bounded(s, M) == \A n \in 0..M : s.data[n] # 0 => s.min <= n /\ n <= s.max

Histogram(s, M) == Counted(s, M) /\ Bounded(s, M)

LEMMA AllocIs ==
    ASSUME NEW M \in Nat
    PROVE  Histogram(stats_alloc(M), M)
<1> DEFINE zeros == [n \in 0..M |-> 0]
<1>1. zeros \in [0..M -> Nat] /\ \A n \in 0..M : zeros[n] = 0
  OBVIOUS
<1>2. SumOf(zeros, 0, M) = 0
  BY <1>1, SumZero
<1>3. UINT64_MAX \in Nat
  BY DEF UINT64_MAX
<1>4. stats_alloc(M) = [limit |-> M + 1, data |-> zeros, count |-> 0, min |-> UINT64_MAX, max |-> 0]
  BY Zenon DEF stats_alloc
<1> HIDE DEF zeros
<1> QED
  BY <1>1, <1>2, <1>3, <1>4 DEF Histogram, Counted, Bounded

LEMMA RecordIs ==
    ASSUME NEW M \in Nat, NEW s, Histogram(s, M), NEW n \in Nat
    PROVE  /\ Histogram(stats_record(s, n), M)
           /\ \A b \in Nat : b <= stats_record(s, n).min /\ b <= M + 1 => b <= s.min /\ b <= n
<1> USE DEF Histogram, Counted, Bounded
<1>1. CASE n >= s.limit
  BY <1>1 DEF stats_record
<1>2. CASE n < s.limit
  <2> DEFINE data == [s.data EXCEPT ![n] = s.data[n] + 1]
             min == IF n < s.min THEN n ELSE s.min
             max == IF n > s.max THEN n ELSE s.max
             r == [s EXCEPT !.data = data, !.count = s.count + 1, !.min = min, !.max = max]
  <2>1. stats_record(s, n) = r
    BY <1>2, ~(n >= s.limit) DEF stats_record
  <2>2. n \in 0..M
    BY <1>2
  <2>3. data \in [0..M -> Nat] /\ \A k \in 0..M : data[k] = s.data[k] + (IF k = n THEN 1 ELSE 0)
    BY <2>2
  <2>4. SumOf(data, 0, M) = SumOf(s.data, 0, M) + 1
    <3>1. Terms(s.data, 0, M) /\ Terms(data, 0, M)
      BY <2>3 DEF Terms
    <3>2. Raised(s.data, data, 0, M, n, 1)
      BY <2>3 DEF Raised
    <3> HIDE DEF data
    <3> QED
      BY <2>2, <3>1, <3>2, SumChanged
  <2>5. min \in Nat /\ min <= n /\ min <= s.min /\ max \in 0..M /\ n <= max /\ s.max <= max
    BY <2>2
  <2>6. /\ DOMAIN r = {"limit", "data", "count", "min", "max"} /\ r.limit = s.limit
        /\ r.data = data /\ r.count = s.count + 1 /\ r.min = min /\ r.max = max
    OBVIOUS
  <2> HIDE DEF data, min, max, r
  <2>7. Bounded(r, M)
    <3> SUFFICES ASSUME NEW k \in 0..M, data[k] # 0
                 PROVE  min <= k /\ k <= max
      BY <2>6
    <3>1. CASE k = n
      BY <2>5, <3>1
    <3>2. CASE k # n
      <4>1. s.data[k] # 0
        BY <2>3, <3>2
      <4>2. s.min <= k /\ k <= s.max
        BY <4>1
      <4> QED
        BY <2>5, <4>2
    <3> QED
      BY <3>1, <3>2
  <2> QED
    BY <2>1, <2>3, <2>4, <2>5, <2>6, <2>7
<1>3. n >= s.limit \/ n < s.limit
  OBVIOUS
<1> QED
  BY <1>1, <1>2, <1>3

-----------------------------------------------------------------------------
(***************************************************************************)
(* stats_correct.  What stands for a value v above the interval after k    *)
(* values have been scanned, from 2 * e upwards: its own entry, and those  *)
(* of the scanned values that are a number of intervals above it.          *)
(***************************************************************************)
Landed(data, M, e, v, hi) ==
    [n \in 0..M |-> IF n >= v /\ (n - v) % e = 0 /\ (n = v \/ n < hi) THEN data[n] ELSE 0]

\* The histogram r, made from s, when the values below hi have been scanned.
CorrectedUpto(r, s, M, e, hi) ==
    /\ Counted(r, M) /\ r.max = s.max /\ r.min = s.min
    /\ \A v \in 0..M :
         r.data[v] = IF v > e THEN SumOf(Landed(s.data, M, e, v, hi), 0, M) ELSE s.data[v]

LEMMA LandedIs ==
    ASSUME NEW M \in Nat, NEW data \in [0..M -> Nat], NEW e \in Nat \ {0}, NEW v \in 0..M, NEW hi \in Nat
    PROVE  /\ Terms(Landed(data, M, e, v, hi), 0, M)
           /\ SumOf(Landed(data, M, e, v, hi), 0, M) \in Nat
<1>1. Terms(Landed(data, M, e, v, hi), 0, M)
  BY DEF Landed, Terms
<1> QED
  BY <1>1, SumNat

LEMMA ModSmall ==
    ASSUME NEW e \in Nat \ {0}, NEW d \in 0..(e - 1)
    PROVE  d % e = d
<1>1. d % e \in 0..(e - 1) /\ d = e * (d \div e) + (d % e) /\ d \div e \in Int
  OBVIOUS
<1>2. d \div e = 0
  <2>1. CASE d \div e >= 1
    <3>1. e * (d \div e) >= e
      BY <1>1, <2>1
    <3> QED
      BY <1>1, <3>1
  <2>2. CASE d \div e <= -1
    <3>1. e * (d \div e) <= -e
      BY <1>1, <2>2
    <3> QED
      BY <1>1, <3>1
  <2> QED
    BY <1>1, <2>1, <2>2
<1> QED
  BY <1>1, <1>2

\* Before 2 * e, and before the value itself, nothing but the value.
LEMMA LandedAlone ==
    ASSUME NEW M \in Nat, NEW data \in [0..M -> Nat], NEW e \in Nat \ {0}, NEW v \in 0..M, v > e,
           NEW hi \in Nat, hi <= 2 * e \/ hi <= v
    PROVE  SumOf(Landed(data, M, e, v, hi), 0, M) = data[v]
<1> DEFINE t == Landed(data, M, e, v, hi)
<1>1. Counting(t, 0, M, {v}, data[v])
  <2> SUFFICES ASSUME NEW n \in 0..M PROVE t[n] = IF n = v THEN data[v] ELSE 0
    BY DEF Counting
  <2>1. t[n] = IF n >= v /\ (n - v) % e = 0 /\ (n = v \/ n < hi) THEN data[n] ELSE 0
    BY DEF Landed
  <2>2. CASE n = v
    <3>1. (n - v) % e = 0
      BY <2>2
    <3> QED
      BY <2>1, <2>2, <3>1
  <2>3. CASE n > v /\ n < hi
    <3>1. n - v \in 1..(e - 1)
      <4>1. v \in Nat /\ n \in Nat /\ e \in Nat /\ n < 2 * e
        BY <2>3
      <4> QED
        BY <2>3, <4>1
    <3>0. n - v \in 0..(e - 1)
      BY <3>1
    <3>2. (n - v) % e = n - v
      BY <3>0, ModSmall
    <3> QED
      BY <2>1, <2>3, <3>1, <3>2
  <2> QED
    BY <2>1, <2>2, <2>3
<1>2. {v} \subseteq 0..M /\ data[v] \in Nat
  OBVIOUS
<1> HIDE DEF t
<1>3. SumOf(t, 0, M) = data[v] * Cardinality({v})
  BY <1>1, <1>2, SumCounts
<1>4. Cardinality({v}) = 1
  BY FS_Singleton
<1> QED
  BY <1>2, <1>3, <1>4 DEF t

\* The value hi is scanned.
LEMMA LandedNext ==
    ASSUME NEW M \in Nat, NEW data \in [0..M -> Nat], NEW e \in Nat \ {0}, NEW v \in 0..M, v > e,
           NEW hi \in 0..M
    PROVE  SumOf(Landed(data, M, e, v, hi + 1), 0, M)
             = SumOf(Landed(data, M, e, v, hi), 0, M)
               + (IF v < hi /\ (hi - v) % e = 0 THEN data[hi] ELSE 0)
<1> DEFINE t == Landed(data, M, e, v, hi)
           u == Landed(data, M, e, v, hi + 1)
           d == IF v < hi /\ (hi - v) % e = 0 THEN data[hi] ELSE 0
<1>1. Terms(t, 0, M) /\ Terms(u, 0, M)
  <2>1. hi \in Nat /\ hi + 1 \in Nat
    OBVIOUS
  <2> QED
    BY <2>1, LandedIs
<1>2. \A n \in 0..M :
         /\ t[n] = IF n >= v /\ (n - v) % e = 0 /\ (n = v \/ n < hi) THEN data[n] ELSE 0
         /\ u[n] = IF n >= v /\ (n - v) % e = 0 /\ (n = v \/ n < hi + 1) THEN data[n] ELSE 0
  BY DEF Landed
<1>3. d \in Nat
  OBVIOUS
<1> HIDE DEF t, u
<1>4. Raised(t, u, 0, M, hi, d)
  <2> SUFFICES ASSUME NEW n \in 0..M PROVE u[n] = t[n] + (IF n = hi THEN d ELSE 0)
    BY DEF Raised
  <2>1. data[n] \in Nat /\ t[n] \in Nat
    BY <1>1 DEF Terms
  <2>2. CASE n # hi
    <3>1. n < hi <=> n < hi + 1
      BY <2>2
    <3>2. u[n] = t[n]
      BY <1>2, <3>1
    <3> QED
      BY <2>1, <2>2, <3>2
  <2>3. CASE n = hi
    <3>1. CASE v < hi /\ (hi - v) % e = 0
      BY <1>2, <2>1, <2>3, <3>1
    <3>2. CASE ~(v < hi /\ (hi - v) % e = 0)
      <4>1. u[n] = t[n]
        BY <1>2, <2>3, <3>2
      <4> QED
        BY <2>1, <2>3, <3>2, <4>1
    <3> QED
      BY <3>1, <3>2
  <2> QED
    BY <2>2, <2>3
<1> HIDE DEF d
<1> QED
  BY <1>1, <1>3, <1>4, SumChanged DEF t, u, d

\* Past the largest entry everything has been scanned.
AllLanded(data, M, e, v) == [n \in 0..M |-> IF n >= v /\ (n - v) % e = 0 THEN data[n] ELSE 0]

Below(data, M, hi) == \A n \in 0..M : data[n] # 0 => n < hi

LEMMA LandedLast ==
    ASSUME NEW M \in Nat, NEW data \in [0..M -> Nat], NEW e \in Nat \ {0}, NEW v \in 0..M, NEW hi \in Nat,
           Below(data, M, hi)
    PROVE  SumOf(Landed(data, M, e, v, hi), 0, M) = SumOf(AllLanded(data, M, e, v), 0, M)
<1>1. \A n \in 0..M : AllLanded(data, M, e, v)[n] = Landed(data, M, e, v, hi)[n]
  BY DEF Landed, AllLanded, Below
<1>2. Terms(Landed(data, M, e, v, hi), 0, M)
  BY LandedIs
<1> QED
  BY <1>1, <1>2, SumSame

\* The values that stand for the requests not sent while one took n.
Copies(n, e) == {m \in 1..(n - 1) : m > e /\ (n - m) % e = 0}

LEMMA AddCopiesIs ==
    ASSUME NEW M \in Nat, NEW s, Counted(s, M), NEW n \in 0..M, NEW e \in Nat \ {0}
    PROVE  /\ Counted(AddCopies(s, n, e), M)
           /\ AddCopies(s, n, e).max = s.max /\ AddCopies(s, n, e).min = s.min
           /\ \A m \in 0..M : AddCopies(s, n, e).data[m]
                                = IF m \in Copies(n, e) THEN s.data[m] + s.data[n] ELSE s.data[m]
<1> USE DEF Counted
<1> DEFINE count == s.data[n]
           data == [m \in 0..M |-> IF m \in Copies(n, e) THEN s.data[m] + count ELSE s.data[m]]
           added == [m \in 0..M |-> IF m \in Copies(n, e) THEN count ELSE 0]
           total == s.count + count * Cardinality(Copies(n, e))
           r == [s EXCEPT !.data = data, !.count = total]
<1>1. AddCopies(s, n, e) = r
  <2>1. DOMAIN s.data = 0..M
    OBVIOUS
  <2> QED
    BY <2>1 DEF AddCopies, Copies
<1>2. count \in Nat /\ Copies(n, e) \subseteq 0..M
  <2>1. count \in Nat
    OBVIOUS
  <2>2. n \in Nat /\ n <= M
    OBVIOUS
  <2>3. ASSUME NEW m \in Copies(n, e) PROVE m \in 0..M
    <3>1. m \in 1..(n - 1)
      BY DEF Copies
    <3> QED
      BY <2>2, <3>1
  <2> QED
    BY <2>1, <2>3
<1>3. data \in [0..M -> Nat] /\ \A m \in 0..M : added[m] \in Nat /\ data[m] = s.data[m] + added[m]
  <2> HIDE DEF count
  <2> SUFFICES ASSUME NEW m \in 0..M
               PROVE  data[m] \in Nat /\ added[m] \in Nat /\ data[m] = s.data[m] + added[m]
    OBVIOUS
  <2>1. s.data[m] \in Nat
    OBVIOUS
  <2> QED
    BY <1>2, <2>1
<1>4. Counting(added, 0, M, Copies(n, e), count)
  BY DEF Counting
<1>5. Terms(s.data, 0, M) /\ Terms(data, 0, M) /\ Terms(added, 0, M)
  BY <1>3 DEF Terms
<1> HIDE DEF added, data, count
<1>6. SumOf(added, 0, M) = count * Cardinality(Copies(n, e))
  BY <1>2, <1>4, SumCounts
<1>7. SumOf(data, 0, M) = SumOf(s.data, 0, M) + SumOf(added, 0, M)
  <2>1. 0 <= M /\ 0 \in Nat /\ \A m \in 0..M : data[m] = s.data[m] + added[m]
    BY <1>3
  <2> DEFINE old == s.data
  <2>2. Terms(old, 0, M) /\ \A m \in 0..M : data[m] = old[m] + added[m]
    BY <1>5, <2>1
  <2> HIDE DEF old
  <2>3. SumOf(data, 0, M) = SumOf(old, 0, M) + SumOf(added, 0, M)
    BY <1>5, <2>1, <2>2, SumAdded
  <2> QED
    BY <2>3 DEF old
<1>8. /\ DOMAIN r = {"limit", "data", "count", "min", "max"} /\ r.limit = s.limit
      /\ r.data = data /\ r.count = total /\ r.min = s.min /\ r.max = s.max
  <2> HIDE DEF total
  <2> QED
    OBVIOUS
<1>9. total = SumOf(data, 0, M)
  BY <1>6, <1>7
<1> HIDE DEF r, total
<1>10. \A m \in 0..M : data[m] = IF m \in Copies(n, e) THEN s.data[m] + s.data[n] ELSE s.data[m]
  BY DEF data, count
<1> QED
  BY <1>1, <1>3, <1>8, <1>9, <1>10

LEMMA ScanOne ==
    ASSUME NEW M \in Nat, NEW s, Counted(s, M), NEW e \in Nat \ {0}, NEW hi \in (2 * e)..(s.max),
           NEW r, CorrectedUpto(r, s, M, e, hi)
    PROVE  CorrectedUpto(AddCopies(r, hi, e), s, M, e, hi + 1)
<1>1. hi \in 0..M /\ hi \in Nat /\ hi > e /\ s.data \in [0..M -> Nat]
  BY DEF Counted
<1> DEFINE q == AddCopies(r, hi, e)
<1>2. /\ Counted(q, M) /\ q.max = r.max /\ q.min = r.min
      /\ \A m \in 0..M : q.data[m] = IF m \in Copies(hi, e) THEN r.data[m] + r.data[hi] ELSE r.data[m]
  <2>1. Counted(r, M)
    BY DEF CorrectedUpto
  <2> QED
    BY <1>1, <2>1, AddCopiesIs
<1> HIDE DEF q
<1>3. r.data[hi] = s.data[hi]
  <2>1. SumOf(Landed(s.data, M, e, hi, hi), 0, M) = s.data[hi]
    BY SMTT(60), <1>1, LandedAlone
  <2> QED
    BY <1>1, <2>1 DEF CorrectedUpto
<1>4. ASSUME NEW v \in 0..M
      PROVE  q.data[v] = IF v > e THEN SumOf(Landed(s.data, M, e, v, hi + 1), 0, M) ELSE s.data[v]
  <2>1. v \in Copies(hi, e) <=> v > e /\ v < hi /\ (hi - v) % e = 0
    BY <1>1 DEF Copies
  <2>2. CASE ~(v > e)
    BY <1>2, <2>1, <2>2 DEF CorrectedUpto
  <2>3. CASE v > e
    <3>1. SumOf(Landed(s.data, M, e, v, hi + 1), 0, M)
            = SumOf(Landed(s.data, M, e, v, hi), 0, M)
              + (IF v < hi /\ (hi - v) % e = 0 THEN s.data[hi] ELSE 0)
      BY <1>1, <2>3, LandedNext
    <3>2. r.data[v] = SumOf(Landed(s.data, M, e, v, hi), 0, M) /\ r.data[v] \in Nat
      BY <2>3 DEF CorrectedUpto, Counted
    <3>3. CASE v < hi /\ (hi - v) % e = 0
      BY <1>2, <1>3, <2>1, <2>3, <3>1, <3>2, <3>3
    <3>4. CASE ~(v < hi /\ (hi - v) % e = 0)
      <4>1. q.data[v] = r.data[v]
        BY <1>2, <2>1, <3>4
      <4>2. SumOf(Landed(s.data, M, e, v, hi + 1), 0, M) = r.data[v]
        BY <3>1, <3>2, <3>4
      <4> QED
        BY <2>3, <4>1, <4>2
    <3> QED
      BY <3>3, <3>4
  <2> QED
    BY <2>2, <2>3
<1> QED
  BY <1>2, <1>4 DEF CorrectedUpto, q

\* The histogram after each of the scanned values.
Scans(f, s, order, e, n) ==
    f = [k \in 0..n |-> IF k = 0 THEN s ELSE AddCopies(f[k - 1], order[k], e)]

LEMMA ScansExist ==
    ASSUME NEW s, NEW order, NEW e, NEW b \in Nat
    PROVE  \E f : Scans(f, s, order, e, b)
<1> DEFINE S == {n \in Nat : \E f : Scans(f, s, order, e, n)}
<1>1. 0 \in S
  <2> DEFINE f == [k \in 0..0 |-> s]
  <2>1. \A k \in 0..0 : s = IF k = 0 THEN s ELSE AddCopies(f[k - 1], order[k], e)
    OBVIOUS
  <2>2. f = [k \in 0..0 |-> IF k = 0 THEN s ELSE AddCopies(f[k - 1], order[k], e)]
    BY <2>1, Zenon
  <2> QED
    BY <2>2 DEF Scans
<1>2. ASSUME NEW m \in 0..b, m # 0, m - 1 \in S
      PROVE  m \in S
  <2>1. PICK f : Scans(f, s, order, e, m - 1)
    BY <1>2
  <2>2. \A k \in 0..(m - 1) : f[k] = IF k = 0 THEN s ELSE AddCopies(f[k - 1], order[k], e)
    BY <2>1 DEF Scans
  <2> DEFINE last == AddCopies(f[m - 1], order[m], e)
             g == [k \in 0..m |-> IF k = m THEN last ELSE f[k]]
  <2>3. \A k \in 0..m : g[k] = IF k = m THEN last ELSE f[k]
    BY Zenon
  <2>4. \A k \in 0..m : k # m => k \in 0..(m - 1)
    OBVIOUS
  <2>5. \A k \in 0..m : k # 0 => k - 1 \in 0..m /\ k - 1 # m
    OBVIOUS
  <2>6. g = [k \in 0..m |-> g[k]]
    OBVIOUS
  <2> HIDE DEF g
  <2>7. \A k \in 0..m : g[k] = IF k = 0 THEN s ELSE AddCopies(g[k - 1], order[k], e)
    <3> TAKE k \in 0..m
    <3>1. CASE k = m
      <4>1. g[k - 1] = f[m - 1] /\ k # 0
        BY <1>2, <2>3, <2>5, <3>1
      <4> QED
        BY <2>3, <3>1, <4>1
    <3>2. CASE k # m
      <4>1. k # 0 => g[k - 1] = f[k - 1]
        BY <2>3, <2>5
      <4> QED
        BY <2>2, <2>3, <2>4, <3>2, <4>1
    <3> QED
      BY <3>1, <3>2
  <2>8. g = [k \in 0..m |-> IF k = 0 THEN s ELSE AddCopies(g[k - 1], order[k], e)]
    BY <2>6, <2>7
  <2> QED
    BY <2>8 DEF Scans
<1> HIDE DEF S
<1>3. b \in S
  BY <1>1, <1>2, Rising
<1> QED
  BY <1>3 DEF S

LEMMA CorrectScans ==
    ASSUME NEW s, NEW e, Len(Scanned(s, e)) \in Nat
    PROVE  \E f : /\ Scans(f, s, Scanned(s, e), e, Len(Scanned(s, e)))
                  /\ stats_correct(s, e) = f[Len(Scanned(s, e))]
<1> DEFINE order == Scanned(s, e)
           L == Len(order)
           f == CHOOSE f : f = [k \in 0..L |-> IF k = 0 THEN s ELSE AddCopies(f[k - 1], order[k], e)]
<1>1. \E g : g = [k \in 0..L |-> IF k = 0 THEN s ELSE AddCopies(g[k - 1], order[k], e)]
  <2>1. \E g : Scans(g, s, order, e, L)
    BY ScansExist
  <2> QED
    BY <2>1, Zenon DEF Scans
<1>2. f = [k \in 0..L |-> IF k = 0 THEN s ELSE AddCopies(f[k - 1], order[k], e)]
  BY <1>1, Zenon
<1>3. stats_correct(s, e) = f[L]
  BY Zenon DEF stats_correct
<1> HIDE DEF f
<1> QED
  BY <1>2, <1>3 DEF Scans

\* The correction keeps the count true and leaves min and max; above the interval
\* a value counts whatever is a number of intervals above it.
LEMMA CorrectIs ==
    ASSUME NEW M \in Nat, NEW s, Histogram(s, M), NEW e \in Nat \ {0}
    PROVE  \E hi \in Nat : /\ CorrectedUpto(stats_correct(s, e), s, M, e, hi)
                           /\ hi = 2 * e \/ hi = s.max + 1
                           /\ hi > s.max
<1> DEFINE order == Scanned(s, e)
           L == IF s.max < 2 * e THEN 0 ELSE s.max - 2 * e + 1
<1>0. s.max \in 0..M /\ Counted(s, M) /\ s.data \in [0..M -> Nat]
  BY DEF Histogram, Counted
<1>1. L \in Nat /\ Len(order) = L /\ \A k \in 1..L : order[k] = 2 * e + k - 1
  <2>1. order = [k \in 1..L |-> e * 2 + k - 1]
    BY <1>0 DEF Scanned, Upto
  <2>2. L \in Nat
    BY <1>0
  <2> HIDE DEF order, L
  <2>3. order \in Seq(Int)
    BY <2>1, <2>2
  <2> QED
    BY <2>1, <2>2, <2>3
<1>2. PICK f : Scans(f, s, order, e, L) /\ stats_correct(s, e) = f[L]
  BY <1>1, CorrectScans
<1>3. \A k \in 0..L : f[k] = IF k = 0 THEN s ELSE AddCopies(f[k - 1], order[k], e)
  BY <1>2 DEF Scans
<1> DEFINE S == {k \in Nat : CorrectedUpto(f[k], s, M, e, 2 * e + k)}
<1>4. 0 \in S
  <2>1. f[0] = s
    BY <1>1, <1>3
  <2>2. \A v \in 0..M : v > e => SumOf(Landed(s.data, M, e, v, 2 * e), 0, M) = s.data[v]
    <3>1. 2 * e \in Nat
      OBVIOUS
    <3> DEFINE hi == 2 * e
               data == s.data
    <3>2. hi \in Nat /\ hi <= 2 * e /\ data \in [0..M -> Nat]
      BY <1>0, <3>1
    <3> HIDE DEF hi, data
    <3>3. \A v \in 0..M : v > e => SumOf(Landed(data, M, e, v, hi), 0, M) = data[v]
      BY <3>2, LandedAlone
    <3> QED
      BY <3>3 DEF hi, data
  <2> QED
    BY <1>0, <2>1, <2>2 DEF CorrectedUpto
<1>5. ASSUME NEW k \in 0..L, k # 0, k - 1 \in S
      PROVE  k \in S
  <2>1. f[k] = AddCopies(f[k - 1], order[k], e) /\ order[k] = 2 * e + (k - 1)
    BY <1>1, <1>3, <1>5
  <2>2. 2 * e + (k - 1) \in (2 * e)..(s.max)
    BY <1>0, <1>1, <1>5
  <2>3. CorrectedUpto(f[k - 1], s, M, e, 2 * e + (k - 1))
    BY <1>5
  <2>4. CorrectedUpto(AddCopies(f[k - 1], 2 * e + (k - 1), e), s, M, e, 2 * e + (k - 1) + 1)
    BY <1>0, <2>2, <2>3, ScanOne
  <2>5. 2 * e + (k - 1) + 1 = 2 * e + k /\ k \in Nat
    BY <1>1, <1>5
  <2> QED
    BY <2>1, <2>4, <2>5
<1> HIDE DEF S
<1>6. L \in S
  <2>1. L \in Nat /\ 0 \in Nat /\ 0 <= L
    BY <1>1
  <2> HIDE DEF L
  <2>2. \A k \in 0..L : k # 0 /\ k - 1 \in S => k \in S
    BY <1>5
  <2>3. \A k \in 0..L : k \in S
    BY <1>4, <2>1, <2>2, Rising
  <2> QED
    BY <2>1, <2>3
<1>7. CorrectedUpto(stats_correct(s, e), s, M, e, 2 * e + L)
  BY <1>2, <1>6 DEF S
<1>8. 2 * e + L \in Nat /\ (2 * e + L = 2 * e \/ 2 * e + L = s.max + 1) /\ 2 * e + L > s.max
  BY <1>0
<1> HIDE DEF L
<1> QED
  BY <1>7, <1>8

\* As ReportAsSampled says it, of the corrected histogram.
LEMMA CorrectedAsSampled ==
    ASSUME NEW M \in Nat, NEW s, Histogram(s, M), NEW e \in Nat \ {0}, NEW v \in 0..M
    PROVE  stats_correct(s, e).data[v]
             = IF v > e THEN SumOf(AllLanded(s.data, M, e, v), 0, M) ELSE s.data[v]
<1>1. PICK hi \in Nat : CorrectedUpto(stats_correct(s, e), s, M, e, hi) /\ hi > s.max
  BY CorrectIs
<1> DEFINE data == s.data
<1>2. data \in [0..M -> Nat]
  BY DEF Histogram, Counted
<1>3. Below(data, M, hi)
  BY <1>1 DEF Histogram, Counted, Bounded, Below
<1> HIDE DEF data
<1>4. SumOf(Landed(data, M, e, v, hi), 0, M) = SumOf(AllLanded(data, M, e, v), 0, M)
  BY <1>2, <1>3, LandedLast
<1> QED
  BY <1>1, <1>4 DEF CorrectedUpto, data

\* If no entry lies below the interval and none of the copies does, the corrected
\* histogram has nothing outside min and max either.
LEMMA CorrectBounded ==
    ASSUME NEW M \in Nat, NEW s, Histogram(s, M), NEW e \in Nat \ {0}, e <= M => s.min <= e
    PROVE  Histogram(stats_correct(s, e), M)
<1> DEFINE r == stats_correct(s, e)
<1>1. PICK hi \in Nat : /\ CorrectedUpto(r, s, M, e, hi)
                        /\ hi = 2 * e \/ hi = s.max + 1
  BY CorrectIs
<1>2. s.max \in 0..M /\ s.min \in Nat /\ s.data \in [0..M -> Nat] /\ Bounded(s, M)
  BY DEF Histogram, Counted
<1>3. Counted(r, M) /\ r.min = s.min /\ r.max = s.max
  BY <1>1 DEF CorrectedUpto
<1>4. ASSUME NEW v \in 0..M, r.data[v] # 0
      PROVE  s.min <= v /\ v <= s.max
  <2>1. CASE ~(v > e)
    <3>1. s.data[v] # 0
      BY <1>1, <1>4, <2>1 DEF CorrectedUpto
    <3> QED
      BY <1>2, <3>1 DEF Bounded
  <2>2. CASE v > e
    <3> DEFINE t == Landed(s.data, M, e, v, hi)
    <3>1. SumOf(t, 0, M) # 0
      BY <1>1, <1>4, <2>2 DEF CorrectedUpto
    <3>2. \E n \in 0..M : t[n] # 0
      <4> HIDE DEF t
      <4>1. (\A n \in 0..M : t[n] = 0) => SumOf(t, 0, M) = 0
        BY SumZero
      <4> QED
        BY <3>1, <4>1
    <3>3. PICK n \in 0..M : s.data[n] # 0 /\ n >= v
      BY <3>2 DEF Landed
    <3>4. n <= s.max
      BY <1>2, <3>3 DEF Bounded
    <3>5. s.min <= e
      BY <2>2
    <3> QED
      BY <1>2, <2>2, <3>3, <3>4, <3>5
  <2> QED
    BY <2>1, <2>2
<1> HIDE DEF r
<1>5. Bounded(r, M)
  BY <1>3, <1>4 DEF Bounded
<1> QED
  BY <1>3, <1>5 DEF Histogram, r

-----------------------------------------------------------------------------
(***************************************************************************)
(* What is read from a histogram that is not empty.                        *)
(***************************************************************************)
Filled(s, M) == Histogram(s, M) /\ s.count > 0

LEMMA FilledIs ==
    ASSUME NEW M \in Nat, NEW s, Filled(s, M)
    PROVE  /\ s.data \in [0..M -> Nat] /\ DOMAIN s.data = 0..M /\ Terms(s.data, 0, M)
           /\ s.min \in 0..M /\ s.max \in s.min..M /\ s.max \in Nat
           /\ s.count \in Nat \ {0} /\ s.count = SumOf(s.data, 0, M)
           /\ \A n \in 0..M : s.data[n] # 0 => n \in s.min..s.max
           /\ \E n \in 0..M : s.data[n] # 0
<1>1. /\ s.data \in [0..M -> Nat] /\ DOMAIN s.data = 0..M /\ s.max \in 0..M /\ s.min \in Nat
      /\ s.count = SumOf(s.data, 0, M) /\ s.count > 0
      /\ \A n \in 0..M : s.data[n] # 0 => s.min <= n /\ n <= s.max
  BY DEF Filled, Histogram, Counted, Bounded
<1>2. Terms(s.data, 0, M)
  BY <1>1 DEF Terms
<1>3. s.count \in Nat
  BY <1>1, <1>2, SumNat
<1>4. PICK n \in 0..M : s.data[n] # 0
  <2> DEFINE t == s.data
  <2> HIDE DEF t
  <2>1. (\A n \in 0..M : t[n] = 0) => SumOf(t, 0, M) = 0
    BY SumZero
  <2> QED
    BY <1>1, <2>1 DEF t
<1>5. s.min <= n /\ n <= s.max
  BY <1>1, <1>4
<1> QED
  BY <1>1, <1>2, <1>3, <1>4, <1>5

\* Where there is no value there is nothing to add.
LEMMA OverIs ==
    ASSUME NEW M \in Nat, NEW s, Filled(s, M), NEW t, Terms(t, 0, M),
           \A n \in 0..M : s.data[n] = 0 => t[n] = 0
    PROVE  Over(s, t) = SumOf(t, 0, M)
<1>1. s.min \in 0..M /\ s.max \in s.min..M /\ \A n \in 0..M : s.data[n] # 0 => n \in s.min..s.max
  BY FilledIs
<1>2. \A n \in 0..M : t[n] # 0 => n \in s.min..s.max
  BY <1>1
<1> DEFINE lo == s.min
           hi == s.max
<1>3. lo \in 0..M /\ hi \in lo..M /\ \A n \in 0..M : t[n] # 0 => n \in lo..hi
  BY <1>1, <1>2
<1> HIDE DEF lo, hi
<1>4. SumOf(t, 0, M) = SumOf(t, lo, hi)
  BY <1>3, SumWithin
<1> QED
  BY <1>4 DEF Over, lo, hi

LEMMA Product ==
    ASSUME NEW a \in Nat, NEW b \in Nat
    PROVE  a * b \in Nat /\ (a = 0 => a * b = 0) /\ (b = 0 => a * b = 0)
  OBVIOUS

\* The mean is that of all values.
LEMMA MeanIs ==
    ASSUME NEW M \in Nat, NEW s, Filled(s, M)
    PROVE  /\ stats_mean(s) = [sum |-> SumOf([n \in 0..M |-> s.data[n] * n], 0, M), count |-> s.count]
           /\ stats_mean(s).sum \in Nat
<1> DEFINE t == [n \in 0..M |-> s.data[n] * n]
<1>1. DOMAIN s.data = 0..M /\ \A n \in 0..M : s.data[n] \in Nat
  BY FilledIs
<1>2. \A n \in 0..M : t[n] \in Nat /\ (s.data[n] = 0 => t[n] = 0)
  BY <1>1, Product
<1>3. stats_mean(s) = [sum |-> Over(s, t), count |-> s.count]
  BY <1>1 DEF stats_mean
<1> HIDE DEF t
<1>4. Terms(t, 0, M)
  BY <1>2 DEF Terms
<1>5. Over(s, t) = SumOf(t, 0, M) /\ SumOf(t, 0, M) \in Nat
  BY <1>2, <1>4, OverIs, SumNat
<1> QED
  BY <1>3, <1>5 DEF t

\* The values below v.
BelowOf(data, M, v) == [n \in 0..M |-> IF n < v THEN data[n] ELSE 0]

LEMMA BelowIs ==
    ASSUME NEW M \in Nat, NEW s, Filled(s, M), NEW v \in s.min..s.max
    PROVE  SumOf(BelowOf(s.data, M, v), 0, M) = IF v = s.min THEN 0 ELSE SumOf(s.data, s.min, v - 1)
<1> DEFINE t == BelowOf(s.data, M, v)
           lo == s.min
           hi == v - 1
           data == s.data
<1>1. /\ lo \in 0..M /\ v \in 0..M /\ lo <= v /\ data \in [0..M -> Nat]
      /\ \A n \in 0..M : data[n] # 0 => lo <= n
  BY FilledIs
<1>2. \A n \in 0..M : t[n] = (IF n < v THEN data[n] ELSE 0) /\ t[n] \in Nat
  BY <1>1 DEF BelowOf
<1>3. Terms(t, 0, M)
  BY <1>2 DEF Terms
<1>4. CASE v = lo
  <2> HIDE DEF lo, t, data
  <2>1. \A n \in 0..M : t[n] = 0
    BY <1>1, <1>2, <1>4
  <2>2. SumOf(t, 0, M) = 0
    BY <2>1, SumZero
  <2> QED
    BY <1>4, <2>2 DEF lo, t
<1>5. CASE v # lo
  <2>1. hi \in lo..M /\ hi \in Nat
    BY <1>1, <1>5
  <2>2. \A n \in 0..M : t[n] # 0 => n \in lo..hi
    BY SMTT(60), <1>1, <1>2
  <2>4. \A n \in lo..hi : data[n] \in Nat /\ t[n] = data[n]
    BY <1>1, <1>2
  <2> HIDE DEF lo, hi, t, data
  <2>3. SumOf(t, 0, M) = SumOf(t, lo, hi)
    BY <1>1, <1>3, <2>1, <2>2, SumWithin
  <2>5. Terms(data, lo, hi)
    BY <2>4 DEF Terms
  <2>6. SumOf(t, lo, hi) = SumOf(data, lo, hi)
    BY <1>1, <2>1, <2>4, <2>5, SumSame
  <2> QED
    BY <1>5, <2>3, <2>6 DEF lo, hi, t, data
<1> QED
  BY <1>4, <1>5

LEMMA RankIs ==
    ASSUME NEW count \in Nat \ {0}, NEW p \in 1..99
    PROVE  /\ (p * count) \div 100 + 1 \in 1..count
           /\ p * count \in Nat
           /\ \A b \in Nat : b < (p * count) \div 100 + 1 => b * 100 <= p * count
           /\ \A b \in Nat : b >= (p * count) \div 100 + 1 => p * count < b * 100
<1>1. p * count \in Nat /\ p * count < 100 * count
  <2>1. p * count <= 99 * count
    <3>1. 99 * count = p * count + (99 - p) * count /\ (99 - p) * count >= 0
      OBVIOUS
    <3> QED
      BY <3>1
  <2> QED
    BY <2>1
<1> DEFINE c == p * count
           q == c \div 100
<1>2. q \in Int /\ c = 100 * q + (c % 100) /\ c % 100 \in 0..99
  BY <1>1
<1> HIDE DEF c, q
<1>3. q \in Nat /\ q < count
  BY <1>1, <1>2 DEF c
<1> QED
  BY <1>1, <1>2, <1>3 DEF c, q

\* A p-th part is below, and no more than that up to the percentile.
LEMMA PercentileIs ==
    ASSUME NEW M \in Nat, NEW s, Filled(s, M), NEW p \in 1..99, NEW v, v = stats_percentile(s, p)
    PROVE  /\ v \in 0..M
           /\ SumOf(BelowOf(s.data, M, v), 0, M) * 100 <= p * s.count
           /\ p * s.count < (SumOf(BelowOf(s.data, M, v), 0, M) + s.data[v]) * 100
<1> DEFINE lo == s.min
           hi == s.max
           data == s.data
           rank == Rank(s, p)
           S == {i \in lo..hi : SumOf(data, lo, i) >= rank}
<1>1. /\ lo \in 0..M /\ hi \in lo..M /\ lo \in Nat /\ hi \in Nat /\ data \in [0..M -> Nat]
      /\ s.count \in Nat \ {0} /\ s.count = SumOf(data, 0, M)
      /\ \A n \in 0..M : data[n] # 0 => n \in lo..hi
      /\ Terms(data, 0, M)
  BY FilledIs
<1>2. /\ rank \in 1..s.count
      /\ \A b \in Nat : b < rank => b * 100 <= p * s.count
      /\ \A b \in Nat : b >= rank => p * s.count < b * 100
  BY <1>1, RankIs DEF Rank
<1>3. v = First(S)
  BY DEF stats_percentile
<1> HIDE DEF lo, hi, data, rank
<1>4. hi \in S
  <2>1. SumOf(data, lo, hi) = s.count
    BY <1>1, SumWithin
  <2> QED
    BY <1>1, <1>2, <2>1
<1>5. v \in S /\ \A m \in S : v <= m
  <2>1. S \subseteq Nat /\ S # {}
    BY <1>1, <1>4
  <2> HIDE DEF S
  <2>2. \E n \in S : \A m \in S : n <= m
    BY <2>1, LeastOf
  <2>3. v = CHOOSE n \in S : \A m \in S : n <= m
    BY <1>3, <2>1 DEF First
  <2> QED
    BY <2>2, <2>3, Zenon
<1>6. v \in lo..hi /\ v \in 0..M /\ v \in Nat /\ data[v] \in Nat
  BY <1>1, <1>5
<1>7. SumOf(data, lo, v) >= rank /\ SumOf(data, lo, v) \in Nat
  <2>1. Terms(data, lo, v)
    BY <1>1, <1>6 DEF Terms
  <2>2. SumOf(data, lo, v) >= rank
    BY <1>5
  <2> QED
    BY <1>1, <1>6, <2>1, <2>2, SumNat
<1> DEFINE below == SumOf(BelowOf(data, M, v), 0, M)
<1>8. below = IF v = lo THEN 0 ELSE SumOf(data, lo, v - 1)
  BY <1>6, BelowIs DEF lo, hi, data
<1>9. below + data[v] = SumOf(data, lo, v) /\ below \in Nat /\ below < rank
  <2>1. CASE v = lo
    BY <1>1, <1>2, <1>6, <1>8, <2>1, SumOne
  <2>2. CASE v # lo
    <3>1. v - 1 \in lo..hi /\ v - 1 \in Nat /\ lo < v /\ ~(v <= v - 1)
      BY SMTT(60), <1>1, <1>6, <2>2
    <3>2. SumOf(data, lo, v) = data[v] + SumOf(data, lo, v - 1)
      BY ZenonT(60), <1>1, <1>6, <3>1, SumLast
    <3>3. v - 1 \notin S
      BY <1>5, <3>1
    <3>4. Terms(data, lo, v - 1)
      BY SMTT(60), <1>1, <1>6 DEF Terms
    <3>5. SumOf(data, lo, v - 1) \in Nat
      BY <1>1, <3>1, <3>4, SumNat
    <3>6. SumOf(data, lo, v - 1) < rank
      BY <1>2, <3>1, <3>3, <3>5
    <3> QED
      BY <1>6, <1>8, <2>2, <3>2, <3>5, <3>6
  <2> QED
    BY <2>1, <2>2
<1> HIDE DEF below, S
<1>10. below * 100 <= p * s.count /\ p * s.count < (below + data[v]) * 100
  BY <1>2, <1>7, <1>9
<1> QED
  BY <1>6, <1>10 DEF below, data

LEMMA Square ==
    ASSUME NEW a \in Int
    PROVE  a * a \in Nat /\ (a = 0 => a * a = 0)
<1>1. CASE a >= 0
  BY <1>1
<1>2. CASE a < 0
  <2>1. (-a) * (-a) = a * a /\ (-a) \in Nat
    BY <1>2
  <2>2. \A b \in Nat : b * b \in Nat
    OBVIOUS
  <2> QED
    BY <1>2, <2>1, <2>2
<1> QED
  BY <1>1, <1>2

LEMMA DeviationIs ==
    ASSUME NEW s, s.count \in Nat, NEW mean, mean.sum \in Nat, NEW n \in Nat
    PROVE  Deviation(s, mean, n) \in Nat
<1>1. n * s.count \in Nat
  BY Product
<1>2. n * s.count - mean.sum \in Int
  BY <1>1
<1> QED
  BY <1>2, Square DEF Deviation

LEMMA SumSingle ==
    ASSUME NEW t, NEW M \in Nat, NEW n \in 0..M, NEW d \in Nat, Counting(t, 0, M, {n}, d)
    PROVE  SumOf(t, 0, M) = d
<1>1. {n} \subseteq 0..M /\ 0 <= M
  OBVIOUS
<1>2. SumOf(t, 0, M) = d * Cardinality({n})
  BY <1>1, SumCounts
<1>3. Cardinality({n}) = 1
  BY FS_Singleton
<1> QED
  BY <1>2, <1>3

\* One value is its own mean.
LEMMA OneValue ==
    ASSUME NEW M \in Nat, NEW s, Filled(s, M), s.count = 1, NEW n \in 0..M, s.data[n] # 0
    PROVE  s.data[n] = 1 /\ Deviation(s, stats_mean(s), n) = 0
<1> DEFINE data == s.data
           t == [k \in 0..M |-> data[k] * k]
           rest == [k \in 0..M |-> IF k = n THEN 0 ELSE data[k]]
<1>1. data \in [0..M -> Nat] /\ Terms(data, 0, M) /\ SumOf(data, 0, M) = 1 /\ data[n] # 0
  BY FilledIs
<1> HIDE DEF data
<1>2. data[n] = 1
  BY <1>1, TermWithin
<1>3. Terms(rest, 0, M) /\ \A k \in 0..M : rest[k] = (IF k = n THEN 0 ELSE data[k])
  BY <1>1 DEF Terms
<1> HIDE DEF rest
<1>4. Raised(rest, data, 0, M, n, 1)
  BY <1>1, <1>2, <1>3 DEF Raised
<1>5. SumOf(rest, 0, M) = 0
  <2>1. SumOf(data, 0, M) = SumOf(rest, 0, M) + 1
    BY <1>1, <1>3, <1>4, SumChanged
  <2>2. SumOf(rest, 0, M) \in Nat
    BY <1>3, SumNat
  <2> QED
    BY <1>1, <2>1, <2>2
<1>6. \A k \in 0..M : k # n => data[k] = 0
  <2> TAKE k \in 0..M
  <2>1. rest[k] <= 0 /\ rest[k] \in Nat
    BY <1>3, <1>5, TermWithin
  <2> QED
    BY <1>3, <2>1
<1>7. Counting(t, 0, M, {n}, n) /\ {n} \subseteq 0..M /\ n \in Nat
  <2> SUFFICES ASSUME NEW k \in 0..M PROVE t[k] = IF k \in {n} THEN n ELSE 0
    BY DEF Counting
  <2>1. t[k] = data[k] * k /\ data[k] \in Nat
    BY <1>1
  <2>2. CASE k = n
    BY <1>2, <2>1, <2>2
  <2>3. CASE k # n
    BY <1>6, <2>1, <2>3
  <2> QED
    BY <2>2, <2>3
<1>8. SumOf(t, 0, M) = n
  <2> HIDE DEF t
  <2> QED
    BY <1>7, SumSingle
<1>9. stats_mean(s).sum = SumOf(t, 0, M)
  BY MeanIs DEF data
<1> HIDE DEF t
<1>10. n * s.count - stats_mean(s).sum = 0
  BY <1>7, <1>8, <1>9
<1> QED
  BY <1>2, <1>10 DEF Deviation, data

\* Not all values can be further from the mean than the deviation.
LEMMA SomeNear ==
    ASSUME NEW M \in Nat, NEW s, Filled(s, M), s.count >= 2
    PROVE  \E n \in 0..M : /\ s.data[n] # 0
                           /\ Deviation(s, stats_mean(s), n) * (s.count - 1)
                                <= stats_stdev(s, stats_mean(s))
<1> DEFINE mean == stats_mean(s)
           dev == [n \in 0..M |-> Deviation(s, mean, n)]
           data == s.data
           d == [n \in 0..M |-> dev[n] * data[n]]
           c == s.count
           stdev == SumOf(d, 0, M)
<1>1. /\ data \in [0..M -> Nat] /\ Terms(data, 0, M) /\ c = SumOf(data, 0, M) /\ c \in Nat /\ c >= 2
      /\ DOMAIN s.data = 0..M
  BY FilledIs
<1>2. \A n \in 0..M : dev[n] \in Nat
  <2>1. mean.sum \in Nat /\ s.count \in Nat
    BY <1>1, MeanIs
  <2> HIDE DEF mean
  <2>2. \A n \in 0..M : Deviation(s, mean, n) \in Nat
    <3>1. \A n \in Nat : Deviation(s, mean, n) \in Nat
      BY <2>1, DeviationIs
    <3> QED
      BY <3>1
  <2> QED
    BY <2>2
<1>3. Terms(d, 0, M) /\ \A n \in 0..M : d[n] = dev[n] * data[n] /\ d[n] \in Nat
                                        /\ (data[n] = 0 => d[n] = 0)
  <2> HIDE DEF dev, data
  <2> SUFFICES ASSUME NEW n \in 0..M PROVE d[n] \in Nat /\ (data[n] = 0 => d[n] = 0)
    BY DEF Terms
  <2> QED
    BY <1>1, <1>2, Product
<1>4. stats_stdev(s, mean) = stdev
  <2>1. stats_stdev(s, mean) = Over(s, d)
    BY <1>1 DEF stats_stdev
  <2> HIDE DEF d
  <2>2. Over(s, d) = SumOf(d, 0, M)
    BY <1>3, OverIs
  <2> QED
    BY <2>1, <2>2
<1>5. stdev \in Nat
  <2> HIDE DEF d
  <2> QED
    BY <1>3, SumNat
<1>6. SUFFICES ASSUME \A n \in 0..M : data[n] # 0 => dev[n] * (c - 1) > stdev
               PROVE  FALSE
  <2>1. PICK n \in 0..M : data[n] # 0 /\ ~(dev[n] * (c - 1) > stdev)
    BY <1>6
  <2>2. dev[n] * (c - 1) \in Nat
    <3>1. c - 1 \in Nat
      BY <1>1
    <3> HIDE DEF c, dev
    <3> QED
      BY <1>2, <3>1, Product
  <2>3. dev[n] * (c - 1) <= stdev
    BY <1>5, <2>1, <2>2
  <2> QED
    BY <1>4, <2>1, <2>3
<1> HIDE DEF mean, dev, data, d, c, stdev
<1> DEFINE more == [n \in 0..M |-> (c - 1) * d[n]]
           less == [n \in 0..M |-> (stdev + 1) * data[n]]
<1>7. /\ c - 1 \in Nat /\ stdev + 1 \in Nat
      /\ \A n \in 0..M : more[n] = (c - 1) * d[n] /\ less[n] = (stdev + 1) * data[n]
  BY <1>1, <1>5
<1>8. \A n \in 0..M : more[n] \in Nat /\ less[n] \in Nat /\ less[n] <= more[n]
  <2> HIDE DEF more, less
  <2> TAKE n \in 0..M
  <2>0. dev[n] \in Nat /\ data[n] \in Nat /\ d[n] \in Nat /\ d[n] = dev[n] * data[n]
    BY <1>1, <1>2, <1>3
  <2>1. more[n] \in Nat /\ less[n] \in Nat
    BY <1>7, <2>0, Product
  <2>2. CASE data[n] = 0
    BY <1>7, <2>0, <2>1, <2>2, Product
  <2>3. CASE data[n] # 0
    <3>1. dev[n] * (c - 1) >= stdev + 1
      <4>1. dev[n] * (c - 1) \in Nat /\ dev[n] * (c - 1) > stdev
        BY <1>6, <1>7, <2>0, <2>3, Product
      <4> QED
        BY <1>5, <4>1
    <3>2. \A x, y, k \in Nat : x >= y => x * k >= y * k
      <4> TAKE x, y, k \in Nat
      <4> HAVE x >= y
      <4>1. x * k = y * k + (x - y) * k /\ x - y \in Nat
        OBVIOUS
      <4>2. (x - y) * k \in Nat /\ y * k \in Nat
        BY <4>1, Product
      <4> QED
        BY <4>1, <4>2
    <3>3. dev[n] * (c - 1) \in Nat
      BY <1>7, <2>0, Product
    <3>4. (dev[n] * (c - 1)) * data[n] >= (stdev + 1) * data[n]
      BY <1>7, <2>0, <3>1, <3>2, <3>3
    <3>5. (dev[n] * (c - 1)) * data[n] = (c - 1) * (dev[n] * data[n])
      <4>1. \A x, y, k \in Nat : (x * y) * k = y * (x * k)
        OBVIOUS
      <4> QED
        BY <1>7, <2>0, <4>1
    <3> QED
      BY <1>7, <2>0, <2>1, <3>4, <3>5
  <2> QED
    BY <2>0, <2>2, <2>3
<1> HIDE DEF more, less
<1>9. Terms(more, 0, M) /\ Terms(less, 0, M)
  BY <1>8 DEF Terms
<1>10. SumOf(less, 0, M) <= SumOf(more, 0, M)
  BY <1>8, <1>9, SumLess
<1>11. SumOf(less, 0, M) = (stdev + 1) * c
  BY <1>1, <1>7, SumScaled
<1>12. SumOf(more, 0, M) = (c - 1) * stdev
  BY <1>3, <1>7, SumScaled DEF stdev
<1>13. (stdev + 1) * c = stdev * c + c /\ (c - 1) * stdev = stdev * c - stdev
  BY <1>1, <1>5
<1> DEFINE product == stdev * c
<1>14. product \in Nat
  BY <1>1, <1>5, Product
<1>15. product + c <= product - stdev
  BY <1>10, <1>11, <1>12, <1>13
<1> HIDE DEF product
<1> QED
  BY <1>1, <1>5, <1>14, <1>15

\* The values near the mean are some of the values, and not none.
LEMMA WithinIs ==
    ASSUME NEW M \in Nat, NEW s, Filled(s, M), NEW mean, mean = stats_mean(s),
           NEW within, within = stats_within_stdev(s, mean, stats_stdev(s, mean))
    PROVE  within \in 1..s.count
<1> DEFINE stdev == stats_stdev(s, mean)
           Near(n) == Deviation(s, mean, n) * (IF s.count < 2 THEN 1 ELSE s.count - 1) <= stdev
           data == s.data
           t == [n \in 0..M |-> IF Near(n) THEN data[n] ELSE 0]
<1>1. /\ data \in [0..M -> Nat] /\ DOMAIN data = 0..M /\ Terms(data, 0, M)
      /\ s.count = SumOf(data, 0, M) /\ s.count \in Nat \ {0}
      /\ \E n \in 0..M : data[n] # 0
  BY FilledIs
<1>2. within = Over(s, t)
  BY <1>1 DEF stats_within_stdev
<1>3. \E n \in 0..M : data[n] # 0 /\ Near(n)
  <2>1. CASE s.count = 1
    <3>1. PICK n \in 0..M : data[n] # 0
      BY <1>1
    <3>2. Deviation(s, mean, n) = 0
      BY <2>1, <3>1, OneValue
    <3>3. stdev = 0
      BY <2>1 DEF stats_stdev
    <3>4. Near(n)
      BY <2>1, <3>2, <3>3
    <3> QED
      BY <3>1, <3>4
  <2>2. CASE s.count >= 2
    <3>1. PICK n \in 0..M : data[n] # 0 /\ Deviation(s, mean, n) * (s.count - 1) <= stdev
      BY <2>2, SomeNear
    <3>2. ~(s.count < 2)
      BY <1>1, <2>2
    <3>3. Near(n)
      BY <3>1, <3>2
    <3> QED
      BY <3>1, <3>3
  <2> QED
    BY <1>1, <2>1, <2>2
<1> HIDE DEF Near, data, stdev
<1>4. \A n \in 0..M : t[n] = (IF Near(n) THEN data[n] ELSE 0) /\ data[n] \in Nat
  BY <1>1
<1> HIDE DEF t
<1>5. Terms(t, 0, M) /\ \A n \in 0..M : t[n] <= data[n] /\ (data[n] = 0 => t[n] = 0)
  <2>1. ASSUME NEW n \in 0..M PROVE t[n] \in Nat /\ t[n] <= data[n] /\ (data[n] = 0 => t[n] = 0)
    BY <1>4
  <2> QED
    BY <2>1 DEF Terms
<1>6. Over(s, t) = SumOf(t, 0, M)
  <2>1. \A n \in 0..M : s.data[n] = 0 => t[n] = 0
    BY <1>5 DEF data
  <2> QED
    BY <1>5, <2>1, OverIs
<1>7. SumOf(t, 0, M) <= s.count /\ SumOf(t, 0, M) \in Nat
  BY <1>1, <1>5, SumLess, SumNat
<1>8. SumOf(t, 0, M) # 0
  <2>1. PICK n \in 0..M : data[n] # 0 /\ Near(n)
    BY <1>3
  <2>2. t[n] # 0 /\ t[n] \in Nat
    BY <1>4, <2>1
  <2>3. t[n] <= SumOf(t, 0, M)
    BY <1>5, TermWithin
  <2> QED
    BY <1>7, <2>2, <2>3
<1> QED
  BY <1>1, <1>2, <1>6, <1>7, <1>8

\* How many elements of a set of numbers are smaller than a number.
Smaller(E, n) == {m \in E : m < n}
Position(E, n) == Cardinality(Smaller(E, n))

LEMMA PlacesAre ==
    ASSUME NEW M \in Nat, NEW E, E \subseteq 0..M
    PROVE  /\ IsFiniteSet(E) /\ Cardinality(E) \in Nat
           /\ \A n \in E : Position(E, n) \in 0..(Cardinality(E) - 1)
           /\ \A m, n \in E : m < n => Position(E, m) < Position(E, n)
           /\ \A i \in 0..(Cardinality(E) - 1) : \E n \in E : Position(E, n) = i
<1>1. IsFiniteSet(E) /\ Cardinality(E) \in Nat
  <2>1. E \in SUBSET Nat /\ \A n \in E : n <= M
    OBVIOUS
  <2> QED
    BY <2>1, FS_BoundedSetOfNaturals, FS_CardinalityType
<1>0. \A n : \A m : m \in Smaller(E, n) <=> m \in E /\ m < n
  BY DEF Smaller
<1>00. \A m \in E : m \in Nat /\ m <= M
  OBVIOUS
<1>2. \A n : Smaller(E, n) \in SUBSET E /\ IsFiniteSet(Smaller(E, n)) /\ Position(E, n) \in Nat
  <2> TAKE n
  <2>1. Smaller(E, n) \in SUBSET E
    BY DEF Smaller
  <2>2. IsFiniteSet(Smaller(E, n))
    BY <1>1, <2>1, FS_Subset
  <2> QED
    BY <2>1, <2>2, FS_CardinalityType DEF Position
<1>3. ASSUME NEW n \in E, NEW T, T \in SUBSET E, Smaller(E, n) \cup {n} \in SUBSET T
      PROVE  Position(E, n) < Cardinality(T)
  <2> DEFINE U == Smaller(E, n)
  <2>1. n \notin U /\ n \in Int
    BY DEF Smaller
  <2>2. IsFiniteSet(T) /\ Cardinality(T) \in Nat
    BY <1>1, <1>3, FS_Subset, FS_CardinalityType
  <2>3. IsFiniteSet(U)
    BY <1>2
  <2> HIDE DEF U
  <2>4. Cardinality(U \cup {n}) = Cardinality(U) + 1
    BY <2>1, <2>3, FS_AddElement
  <2>5. Cardinality(U \cup {n}) <= Cardinality(T)
    BY <1>3, <2>2, FS_Subset DEF U
  <2>6. Position(E, n) = Cardinality(U) /\ Position(E, n) \in Nat
    BY <1>2 DEF Position, U
  <2> QED
    BY <2>2, <2>4, <2>5, <2>6
<1>4. ASSUME NEW n \in E PROVE Position(E, n) \in 0..(Cardinality(E) - 1)
  <2>1. E \in SUBSET E /\ Smaller(E, n) \cup {n} \in SUBSET E
    BY DEF Smaller
  <2>2. Position(E, n) < Cardinality(E)
    BY <1>3, <2>1
  <2> QED
    BY <1>1, <1>2, <2>2
<1>5. ASSUME NEW m \in E, NEW n \in E, m < n PROVE Position(E, m) < Position(E, n)
  <2>1. Smaller(E, n) \in SUBSET E /\ Smaller(E, m) \cup {m} \in SUBSET Smaller(E, n)
    <3>1. \A k \in E : k < m => k < n
      BY <1>5, <1>00
    <3> QED
      BY <1>0, <1>5, <3>1
  <2> QED
    BY <1>3, <2>1 DEF Position
<1> DEFINE S == {b \in Nat : \A i \in Nat : i < Position(E, b) => \E n \in E : Position(E, n) = i}
<1>6. 0 \in S
  <2>1. Smaller(E, 0) = {}
    <3>1. \A m \in E : ~(m < 0)
      BY <1>00
    <3> QED
      BY <1>0, <3>1
  <2>2. Position(E, 0) = 0
    BY <2>1, FS_EmptySet DEF Position
  <2> QED
    BY <2>2
<1>7. ASSUME NEW b \in 0..(M + 1), b # 0, b - 1 \in S
      PROVE  b \in S
  <2>1. b \in Nat /\ b - 1 \in Nat
    BY <1>7
  <2> SUFFICES ASSUME NEW i \in Nat, i < Position(E, b)
               PROVE  \E n \in E : Position(E, n) = i
    BY <2>1
  <2>2. i < Position(E, b - 1) => \E n \in E : Position(E, n) = i
    BY <1>7
  <2>3. CASE b - 1 \notin E
    <3>1. \A m \in E : m < b <=> m < b - 1
      BY <2>1, <2>3
    <3>2. Smaller(E, b) = Smaller(E, b - 1)
      BY <3>1 DEF Smaller
    <3> QED
      BY <2>2, <3>2 DEF Position
  <2>4. CASE b - 1 \in E
    <3>1. \A m \in E : m < b <=> m < b - 1 \/ m = b - 1
      BY <2>1
    <3>2. Smaller(E, b) = Smaller(E, b - 1) \cup {b - 1} /\ b - 1 \notin Smaller(E, b - 1)
      <4> DEFINE a == b - 1
      <4>1. a \in E /\ ~(a < a) /\ \A m \in E : m < b <=> m < a \/ m = a
        BY <2>1, <2>4, <3>1
      <4> HIDE DEF a
      <4>2. \A m : m \in Smaller(E, b) <=> m \in Smaller(E, a) \cup {a}
        BY <1>0, <4>1
      <4>3. Smaller(E, b) = Smaller(E, a) \cup {a} /\ a \notin Smaller(E, a)
        BY <1>0, <4>1, <4>2
      <4> QED
        BY <4>3 DEF a
    <3>3. Position(E, b) = Position(E, b - 1) + 1
      BY <1>2, <3>2, FS_AddElement DEF Position
    <3>4. i < Position(E, b - 1) \/ i = Position(E, b - 1)
      BY <1>2, <3>3
    <3> QED
      BY <2>2, <2>4, <3>4
  <2> QED
    BY <2>3, <2>4
<1> HIDE DEF S
<1>8. M + 1 \in S
  <2>1. M + 1 \in Nat /\ 0 \in Nat
    OBVIOUS
  <2>2. \A b \in 0..(M + 1) : b \in S
    BY <1>6, <1>7, <2>1, Rising
  <2> QED
    BY <2>2
<1>9. Position(E, M + 1) = Cardinality(E)
  <2>1. Smaller(E, M + 1) = E
    <3>1. \A m \in E : m < M + 1
      BY <1>00
    <3> QED
      BY <1>0, <3>1
  <2> QED
    BY <2>1 DEF Position
<1>10. ASSUME NEW i \in 0..(Cardinality(E) - 1) PROVE \E n \in E : Position(E, n) = i
  <2>1. i \in Nat /\ i < Position(E, M + 1)
    BY <1>1, <1>9
  <2> QED
    BY <1>8, <2>1 DEF S
<1> QED
  BY <1>1, <1>4, <1>5, <1>10

LEMMA EntriesIs ==
    ASSUME NEW M \in Nat, NEW s, Filled(s, M)
    PROVE  /\ Entries(s) \subseteq 0..M
           /\ \A n \in 0..M : n \in Entries(s) <=> s.data[n] # 0
           /\ stats_popcount(s) = Cardinality(Entries(s)) /\ stats_popcount(s) \in Nat \ {0}
<1>1. /\ s.min \in 0..M /\ s.max \in s.min..M
      /\ \A n \in 0..M : s.data[n] # 0 => n \in s.min..s.max
      /\ \E n \in 0..M : s.data[n] # 0
  BY FilledIs
<1>2. Entries(s) \subseteq 0..M
  BY <1>1 DEF Entries
<1>3. \A n \in 0..M : n \in Entries(s) <=> s.data[n] # 0
  BY <1>1 DEF Entries
<1>4. IsFiniteSet(Entries(s)) /\ Cardinality(Entries(s)) \in Nat /\ Entries(s) # {}
  BY <1>1, <1>2, <1>3, PlacesAre
<1>5. Cardinality(Entries(s)) # 0
  BY <1>4, FS_EmptySet
<1> QED
  BY <1>2, <1>3, <1>4, <1>5 DEF stats_popcount

\* The entry that done() gets for an index has that many below it.
LEMMA ValueAtIs ==
    ASSUME NEW M \in Nat, NEW s, Filled(s, M), NEW i \in 0..(stats_popcount(s) - 1)
    PROVE  \E n \in Entries(s) : Position(Entries(s), n) = i /\ stats_value_at(s, i).count = s.data[n]
<1> DEFINE n == CHOOSE n \in Entries(s) : Cardinality({m \in Entries(s) : m < n}) = i
<1>1. \E k \in Entries(s) : Cardinality({m \in Entries(s) : m < k}) = i
  <2>1. \E k \in Entries(s) : Position(Entries(s), k) = i
    BY EntriesIs, PlacesAre
  <2> QED
    BY <2>1, Zenon DEF Position, Smaller
<1>2. n \in Entries(s) /\ Cardinality({m \in Entries(s) : m < n}) = i
  BY <1>1, Zenon
<1>3. stats_value_at(s, i) = [value |-> n, count |-> s.data[n]]
  BY Zenon DEF stats_value_at
<1> HIDE DEF n
<1>4. stats_value_at(s, i).count = s.data[n]
  BY <1>3
<1>5. Position(Entries(s), n) = i
  BY <1>2, Zenon DEF Position, Smaller
<1> QED
  BY <1>2, <1>4, <1>5

\* The entries with fewer than i below them.
LowEntries(s, M, i) ==
    [n \in 0..M |-> IF n \in Entries(s) /\ Position(Entries(s), n) < i THEN s.data[n] ELSE 0]

\* The counts of the entries that done() gets add up to the count.
LEMMA EntriesAdd ==
    ASSUME NEW M \in Nat, NEW s, Filled(s, M), NEW t,
           \A k \in 1..stats_popcount(s) : t[k] = stats_value_at(s, k - 1).count
    PROVE  SumOf(t, 1, stats_popcount(s)) = s.count
<1> DEFINE L == stats_popcount(s)
           E == Entries(s)
           data == s.data
<1>1. /\ L = Cardinality(E) /\ L \in Nat \ {0} /\ E \subseteq 0..M
      /\ \A n \in 0..M : n \in E <=> data[n] # 0
  BY EntriesIs
<1>2. /\ \A n \in E : Position(E, n) \in 0..(L - 1)
      /\ \A m, n \in E : m < n => Position(E, m) < Position(E, n)
  BY <1>1, PlacesAre
<1>3. data \in [0..M -> Nat] /\ s.count = SumOf(data, 0, M) /\ Terms(data, 0, M)
  BY FilledIs
<1>4. \A k \in 1..L : \E n \in E : Position(E, n) = k - 1 /\ t[k] = data[n]
  <2> TAKE k \in 1..L
  <2>1. k - 1 \in 0..(L - 1)
    BY <1>1
  <2>2. t[k] = stats_value_at(s, k - 1).count
    OBVIOUS
  <2> QED
    BY <2>1, <2>2, ValueAtIs
<1>5. \A i, n : n \in 0..M => LowEntries(s, M, i)[n] = IF n \in E /\ Position(E, n) < i THEN data[n] ELSE 0
  BY DEF LowEntries
<1> HIDE DEF L, E, data
<1>6. \A i : Terms(LowEntries(s, M, i), 0, M)
  BY <1>3, <1>5 DEF Terms
<1> DEFINE S == {i \in Nat : SumOf(t, 1, i) = SumOf(LowEntries(s, M, i), 0, M)}
<1>7. 0 \in S
  <2>1. \A n \in 0..M : LowEntries(s, M, 0)[n] = 0
    BY <1>1, <1>2, <1>5
  <2>2. SumOf(LowEntries(s, M, 0), 0, M) = 0
    BY <2>1, SumZero
  <2>3. SumOf(t, 1, 0) = 0
    BY SumNone
  <2> QED
    BY <2>2, <2>3
<1>8. ASSUME NEW i \in 0..L, i # 0, i - 1 \in S
      PROVE  i \in S
  <2>0. i \in 1..L /\ i \in Nat /\ i - 1 \in Nat
    BY <1>1, <1>8
  <2>1. PICK n \in E : Position(E, n) = i - 1 /\ t[i] = data[n]
    BY <1>4, <2>0
  <2>2. n \in 0..M /\ data[n] \in Nat
    BY <1>1, <1>3
  <2>3. Raised(LowEntries(s, M, i - 1), LowEntries(s, M, i), 0, M, n, data[n])
    <3> SUFFICES ASSUME NEW m \in 0..M
                 PROVE  LowEntries(s, M, i)[m]
                          = LowEntries(s, M, i - 1)[m] + (IF m = n THEN data[n] ELSE 0)
      BY DEF Raised
    <3>0. data[m] \in Nat
      BY <1>3
    <3>1. CASE m = n
      BY <1>5, <2>0, <2>1, <2>2, <3>1
    <3>2. CASE m # n /\ m \in E
      <4>1. Position(E, m) # i - 1 /\ Position(E, m) \in Nat
        BY <1>1, <1>2, <2>1, <2>2, <3>2
      <4>2. Position(E, m) < i <=> Position(E, m) < i - 1
        BY <2>0, <4>1
      <4> QED
        BY <1>5, <3>0, <3>2, <4>2
    <3>3. CASE m \notin E
      <4>1. m # n
        BY <3>3
      <4> QED
        BY <1>5, <3>3, <4>1
    <3> QED
      BY <3>1, <3>2, <3>3
  <2>4. SumOf(LowEntries(s, M, i), 0, M) = SumOf(LowEntries(s, M, i - 1), 0, M) + data[n]
    BY <1>6, <2>2, <2>3, SumChanged
  <2>5. SumOf(t, 1, i) = t[i] + SumOf(t, 1, i - 1)
    <3>1. CASE i = 1
      BY <2>1, <2>2, <3>1, SumOne, SumNone
    <3>2. CASE i # 1
      BY <2>0, <3>2, SumLast
    <3> QED
      BY <3>1, <3>2
  <2>6. SumOf(t, 1, i - 1) = SumOf(LowEntries(s, M, i - 1), 0, M)
    BY <1>8
  <2>7. SumOf(LowEntries(s, M, i - 1), 0, M) \in Nat
    BY <1>6, SumNat
  <2> QED
    BY <2>0, <2>1, <2>2, <2>4, <2>5, <2>6, <2>7
<1> HIDE DEF S
<1>9. L \in S
  BY <1>1, <1>7, <1>8, Rising
<1>10. \A n \in 0..M : LowEntries(s, M, L)[n] = data[n]
  BY <1>1, <1>2, <1>5
<1>11. SumOf(LowEntries(s, M, L), 0, M) = SumOf(data, 0, M)
  BY <1>3, <1>10, SumSame
<1> QED
  BY <1>3, <1>9, <1>11 DEF S, L
=============================================================================
