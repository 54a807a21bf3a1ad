------------------------------ MODULE StatsCalc ------------------------------
(***************************************************************************)
(* What stats.c computes from a histogram that nobody writes any more.  A  *)
(* histogram is struct stats: data, count, limit, min and max.  Recording  *)
(* into it from many threads is the subject of Stats; here one step.       *)
(*                                                                         *)
(* The long doubles are exact: a mean is the pair of a sum and a count,    *)
(* and comparisons are multiplied out.                                     *)
(***************************************************************************)
EXTENDS Integers, FiniteSets, Sequences, SequencesExt

UINT64_MAX == 99999999  \* more than any value recorded

stats_alloc(max) ==
    [limit |-> max + 1, data |-> [n \in 0..max |-> 0], count |-> 0, min |-> UINT64_MAX, max |-> 0]

stats_record(s, n) ==
    IF n >= s.limit THEN s
    ELSE [s EXCEPT !.data[n] = @ + 1, !.count = @ + 1,
                   !.min = IF n < @ THEN n ELSE @, !.max = IF n > @ THEN n ELSE @]

Upto(a, b) == [k \in 1..(IF b < a THEN 0 ELSE b - a + 1) |-> a + k - 1]

\* term[a] + ... + term[b].
SumOf(term, a, b) ==
    LET upto[n \in a..b] == term[n] + (IF n = a THEN 0 ELSE upto[n - 1])
    IN  IF b < a THEN 0 ELSE upto[b]

-----------------------------------------------------------------------------
(***************************************************************************)
(* stats_correct: a latency n well above the expected interval stands for  *)
(* requests that were not sent meanwhile; they are added as latencies      *)
(* n - expected, n - 2 * expected and so on, while above expected.  The    *)
(* histogram is written while it is read, from 2 * expected upwards.       *)
(***************************************************************************)
AddCopies(s, n, expected) ==
    LET copies == {m \in 1..(n - 1) : m > expected /\ (n - m) % expected = 0}
        count  == s.data[n]
    IN  [s EXCEPT !.data = [m \in DOMAIN s.data |->
                               IF m \in copies THEN s.data[m] + count ELSE s.data[m]],
                  !.count = @ + count * Cardinality(copies)]

Scanned_Down(s, expected) == Reverse(Upto(expected * 2, s.max))
Scanned(s, expected) == Upto(expected * 2, s.max)

\* With expected = 0 the code does not come to an end: the caller's business.
stats_correct(s, expected) ==
    LET order == Scanned(s, expected)
        after[k \in 0..Len(order)] ==
            IF k = 0 THEN s ELSE AddCopies(after[k - 1], order[k], expected)
    IN  after[Len(order)]

-----------------------------------------------------------------------------
\* The readers go from min to max, as stats_record left them.
Over(s, term) == SumOf(term, s.min, s.max)

stats_mean(s) == [sum |-> Over(s, [n \in DOMAIN s.data |-> s.data[n] * n]), count |-> s.count]

\* The deviation of a value, times count, squared.
Deviation(s, mean, n) == (n * s.count - mean.sum) * (n * s.count - mean.sum)

\* The square of the deviation, times count^2 * (count - 1).
stats_stdev(s, mean) ==
    IF s.count < 2 THEN 0
    ELSE Over(s, [n \in DOMAIN s.data |-> Deviation(s, mean, n) * s.data[n]])

\* How many values are no further from the mean than the deviation; the code
\* divides by count, also when that is 0.
stats_within_stdev(s, mean, stdev) ==
    LET near(n) == Deviation(s, mean, n) * (IF s.count < 2 THEN 1 ELSE s.count - 1) <= stdev
    IN  Over(s, [n \in DOMAIN s.data |-> IF near(n) THEN s.data[n] ELSE 0])

\* round(p / 100 * count + 0.5), halves away from zero.
Rank(s, p) == (p * s.count) \div 100 + 1

First(S) == IF S = {} THEN 0 ELSE CHOOSE n \in S : \A m \in S : n <= m

stats_percentile(s, p) ==
    First({i \in s.min..s.max : SumOf(s.data, s.min, i) >= Rank(s, p)})

Entries(s) == {n \in s.min..s.max : s.data[n] # 0}

stats_popcount(s) == Cardinality(Entries(s))

\* The entry with index others below it.  Past the last entry: 0, and the number
\* of entries instead of a count.
stats_value_at(s, index) ==
    IF index \in 0..(stats_popcount(s) - 1)
    THEN LET n == CHOOSE n \in Entries(s) : Cardinality({m \in Entries(s) : m < n}) = index
         IN  [value |-> n, count |-> s.data[n]]
    ELSE [value |-> 0, count |-> stats_popcount(s)]
=============================================================================
