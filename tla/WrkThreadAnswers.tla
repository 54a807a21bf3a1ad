--------------------------- MODULE WrkThreadAnswers ---------------------------
(***************************************************************************)
(* Requests, answers and responses of the worker thread, for any number of *)
(* connections and descriptors, any pipeline and any length of a request,  *)
(* any partial writes and reads.                                           *)
(*                                                                         *)
(* Accounting, under failures: the answers on their way to a connection    *)
(* never outnumber c->pending, and a request cycle starts with none on its *)
(* way.  The premises are those of WrkThreadProofs for failures, on whose  *)
(* invariant this rests: there, a socket whose handlers are                *)
(* socket_connected was not used yet, and the socket that is read is that  *)
(* of the connection that reads.                                           *)
(*                                                                         *)
(* Responses, without failures: the script sees each with its own headers. *)
(* This needs none of those premises, so delay(), TLS and the sockets of   *)
(* other threads are included.                                             *)
(***************************************************************************)
EXTENDS WrkThreadProofs

-----------------------------------------------------------------------------
(***************************************************************************)
(* Answers in a sequence.                                                  *)
(***************************************************************************)
Ended(s) == {i \in DOMAIN s : s[i] \in {"keep", "close"}}
Count(s) == Cardinality(Ended(s))

LEMMA CountType ==
  ASSUME NEW S, NEW s \in Seq(S)
  PROVE  IsFiniteSet(Ended(s)) /\ Count(s) \in Nat
<1>1. Len(s) \in Nat /\ DOMAIN s = 1..Len(s)
  OBVIOUS
<1>2. IsFiniteSet(1..Len(s))
  BY <1>1, FS_Interval
<1>3. Ended(s) \in SUBSET (1..Len(s))
  BY <1>1 DEF Ended
<1>4. IsFiniteSet(Ended(s))
  BY <1>2, <1>3, FS_Subset
<1> QED
  BY <1>4, FS_CardinalityType DEF Count

\* A sequence in two parts.
LEMMA CountParts ==
  ASSUME NEW S, NEW s \in Seq(S), NEW b \in Seq(S), NEW r \in Seq(S),
         Len(s) = Len(b) + Len(r),
         \A i \in 1..Len(b) : s[i] = b[i],
         \A i \in 1..Len(r) : s[Len(b) + i] = r[i]
  PROVE  Count(s) = Count(b) + Count(r)
<1>1. /\ Len(b) \in Nat /\ Len(r) \in Nat
      /\ DOMAIN s = 1..Len(s) /\ DOMAIN b = 1..Len(b) /\ DOMAIN r = 1..Len(r)
  OBVIOUS
<1> DEFINE n == Len(b)
           f == [i \in Ended(r) |-> n + i]
           R == {i \in Ended(s) : i > n}
<1>2. n \in Nat /\ Ended(r) \subseteq 1..Len(r)
  BY <1>1 DEF Ended
<1>3. f \in Bijection(Ended(r), R)
  <2>1. ASSUME NEW i \in Ended(r) PROVE n + i \in R
    <3>1. i \in 1..Len(r) /\ r[i] \in {"keep", "close"}
      BY <1>2 DEF Ended
    <3>2. n + i \in 1..Len(s) /\ n + i > n
      BY <1>1, <3>1
    <3>3. s[n + i] = r[i]
      BY <3>1
    <3> QED
      BY <1>1, <3>1, <3>2, <3>3 DEF Ended
  <2>2. ASSUME NEW j \in R PROVE j - n \in Ended(r) /\ n + (j - n) = j
    <3>1. j \in 1..Len(s) /\ j > n /\ s[j] \in {"keep", "close"}
      BY <1>1 DEF Ended
    <3>2. j - n \in 1..Len(r) /\ n + (j - n) = j
      BY <1>1, <3>1
    <3>3. s[n + (j - n)] = r[j - n]
      BY <3>2
    <3> QED
      BY <1>1, <3>1, <3>2, <3>3 DEF Ended
  <2>3. \A i, j \in Ended(r) : n + i = n + j => i = j
    BY <1>2
  <2> HIDE DEF n, R
  <2>4. f \in [Ended(r) -> R]
    BY <2>1
  <2>5. \A i, j \in Ended(r) : f[i] = f[j] => i = j
    BY <2>3
  <2>6. \A j \in R : \E i \in Ended(r) : f[i] = j
    BY <2>2
  <2> HIDE DEF f
  <2> QED
    BY <2>4, <2>5, <2>6 DEF Bijection, Injection, IsInjective, Surjection
<1>4. Ended(s) = Ended(b) \cup R /\ Ended(b) \cap R = {}
  <2>1. Ended(b) \subseteq Ended(s) /\ \A i \in Ended(b) : ~(i > n)
    BY <1>1 DEF Ended
  <2>2. \A i \in Ended(s) : ~(i > n) => i \in Ended(b)
    BY <1>1 DEF Ended
  <2> QED
    BY <2>1, <2>2
<1>5. IsFiniteSet(Ended(b)) /\ IsFiniteSet(Ended(r))
  BY CountType
<1>6. IsFiniteSet(R) /\ Cardinality(R) = Cardinality(Ended(r))
  <2> HIDE DEF f, R
  <2>1. ExistsBijection(Ended(r), R)
    BY <1>3 DEF ExistsBijection
  <2> QED
    BY <1>5, <2>1, FS_Bijection
<1>7. Cardinality(Ended(s)) = Cardinality(Ended(b)) + Cardinality(R)
  <2> HIDE DEF R
  <2>1. Cardinality(Ended(b) \cup R) =
           Cardinality(Ended(b)) + Cardinality(R) - Cardinality(Ended(b) \cap R)
    BY <1>5, <1>6, FS_Union
  <2>2. Cardinality(Ended(b)) \in Nat /\ Cardinality(R) \in Nat
    BY <1>5, <1>6, FS_CardinalityType
  <2>3. Cardinality(Ended(b) \cap R) = 0
    BY <1>4, FS_EmptySet
  <2> QED
    BY <1>4, <2>1, <2>2, <2>3
<1> QED
  BY <1>6, <1>7 DEF Count

\* The sequences that are added and taken.
LEMMA CountShort ==
  ASSUME NEW x
  PROVE  /\ Count(<< >>) = 0
         /\ x \in {"keep", "close"} => Count(<<x>>) = 1
         /\ x \notin {"keep", "close"} => Count(<<x>>) = 0
<1>1. Ended(<< >>) = {}
  BY DEF Ended
<1>2. x \in {"keep", "close"} => Ended(<<x>>) = {1}
  BY DEF Ended
<1>3. x \notin {"keep", "close"} => Ended(<<x>>) = {}
  BY DEF Ended
<1> QED
  BY <1>1, <1>2, <1>3, FS_EmptySet, FS_Singleton DEF Count

\* Reading, and what the parser consumes.
LEMMA CountSplit ==
  ASSUME NEW S, NEW s \in Seq(S), NEW n \in 0..Len(s)
  PROVE  Count(s) = Count(SubSeq(s, 1, n)) + Count(SubSeq(s, n + 1, Len(s)))
<1> DEFINE b == SubSeq(s, 1, n)
           m == Len(s)
           r == SubSeq(s, n + 1, m)
<1>1. m \in Nat /\ n \in Nat /\ n <= m
  OBVIOUS
<1>2. b \in Seq(S) /\ Len(b) = n /\ \A i \in 1..n : b[i] = s[i]
  BY <1>1
<1>3. r \in Seq(S) /\ Len(r) = m - n /\ \A i \in 1..(m - n) : r[i] = s[n + i]
  <2>1. \A i \in (n + 1)..m : s[i] \in S
    BY <1>1
  <2>2. /\ r \in Seq(S)
        /\ Len(r) = IF n + 1 <= m THEN m - (n + 1) + 1 ELSE 0
        /\ \A i \in 1..(m - (n + 1) + 1) : r[i] = s[(n + 1) + i - 1]
    BY <1>1, <2>1, SubSeqProperties
  <2> HIDE DEF r, m
  <2>3. m - (n + 1) + 1 = m - n /\ \A i \in Int : (n + 1) + i - 1 = n + i
    BY <1>1, Shift
  <2>4. ~(n + 1 <= m) => m - n = 0
    BY <1>1
  <2>5. \A i \in 1..(m - n) : i \in Int
    OBVIOUS
  <2> QED
    BY <2>2, <2>3, <2>4, <2>5
<1> HIDE DEF b, r
<1>4. Len(s) = Len(b) + Len(r)
  <2> HIDE DEF m
  <2>1. Len(b) + Len(r) = m
    BY <1>1, <1>2, <1>3
  <2> QED
    BY <2>1 DEF m
<1>5. /\ \A i \in 1..Len(b) : s[i] = b[i]
      /\ \A i \in 1..Len(r) : s[Len(b) + i] = r[i]
  BY <1>2, <1>3
<1>6. Count(s) = Count(b) + Count(r)
  <2> HIDE DEF m
  <2> QED
    BY <1>2, <1>3, <1>4, <1>5, CountParts
<1> QED
  BY <1>6 DEF b, r

LEMMA CountTail ==
  ASSUME NEW S, NEW s \in Seq(S), s # << >>
  PROVE  Count(s) = Count(<<Head(s)>>) + Count(Tail(s))
<1> DEFINE t == Tail(s)
           h == Head(s)
<1>1. Len(s) \in Nat /\ Len(s) >= 1 /\ h = s[1] /\ h \in S
  OBVIOUS
<1>2. t \in Seq(S) /\ Len(t) = Len(s) - 1 /\ \A i \in 1..Len(t) : t[i] = s[i + 1]
  BY HeadTailProperties
<1>3. <<h>> \in Seq(S) /\ Len(<<h>>) = 1 /\ <<h>>[1] = h
  BY <1>1
<1> HIDE DEF t, h
<1>4. Len(s) = Len(<<h>>) + Len(t)
  BY <1>1, <1>2, <1>3
<1>5. \A i \in 1..Len(t) : s[Len(<<h>>) + i] = t[i]
  <2>1. \A i \in 1..Len(t) : Len(<<h>>) + i = i + 1
    BY <1>3
  <2> QED
    BY <1>2, <2>1
<1>6. \A i \in 1..Len(<<h>>) : s[i] = <<h>>[i]
  BY <1>1, <1>3
<1>7. Count(s) = Count(<<h>>) + Count(t)
  BY <1>2, <1>3, <1>4, <1>5, <1>6, CountParts
<1> QED
  BY <1>7 DEF t, h

\* The server's answers, and a stream that is cut.
LEMMA CountAnswer ==
  ASSUME NEW rx \in Seq(Item), NEW kind \in {"keep", "close"}
  PROVE  Count(rx \o (IF kind = "keep" THEN <<"head", "keep">>
                      ELSE <<"head", kind, "fin">>)) = Count(rx) + 1
<1> DEFINE a == IF kind = "keep" THEN <<"head", "keep">> ELSE <<"head", kind, "fin">>
           new == rx \o a
<1>1. a \in Seq(Item) /\ Ended(a) = {2}
  <2>1. CASE kind = "keep"
    <3>1. <<"head", "keep">> \in Seq(Item)
      BY DEF Item, Data, AllKinds
    <3>2. Ended(<<"head", "keep">>) = {2}
      BY DEF Ended
    <3> QED
      BY <2>1, <3>1, <3>2
  <2>2. CASE kind = "close"
    <3>1. <<"head", "close", "fin">> \in Seq(Item)
      BY DEF Item, Data, AllKinds, Ends
    <3>2. Ended(<<"head", "close", "fin">>) = {2}
      BY DEF Ended
    <3> QED
      BY <2>2, <3>1, <3>2
  <2> QED
    BY <2>1, <2>2
<1>3. Count(a) = 1
  BY <1>1, FS_Singleton, Zenon DEF Count
<1> HIDE DEF a
<1>4. /\ new \in Seq(Item) /\ Len(new) = Len(rx) + Len(a)
      /\ \A i \in 1..Len(rx) : new[i] = rx[i]
      /\ \A i \in 1..Len(a) : new[Len(rx) + i] = a[i]
  BY <1>1
<1> HIDE DEF new
<1>5. Count(new) = Count(rx) + Count(a)
  BY <1>1, <1>4, CountParts
<1> QED
  BY <1>3, <1>5 DEF new, a

LEMMA CountCut ==
  ASSUME NEW rx \in Seq(Item), NEW n \in 0..Len(rx), NEW e \in Ends
  PROVE  Count(Append(SubSeq(rx, 1, n), e)) <= Count(rx)
<1> DEFINE b == SubSeq(rx, 1, n)
           r == SubSeq(rx, n + 1, Len(rx))
           new == Append(b, e)
<1>1. Count(rx) = Count(b) + Count(r)
  BY CountSplit
<1>2. b \in Seq(Item) /\ r \in Seq(Item)
  BY SubSeqProperties
<1>3. <<e>> \in Seq(Item) /\ Len(<<e>>) = 1 /\ <<e>>[1] = e
  BY DEF Item
<1> HIDE DEF b, r
<1>4. /\ new \in Seq(Item) /\ Len(new) = Len(b) + 1
      /\ \A i \in 1..Len(b) : new[i] = b[i]
      /\ \A i \in 1..Len(<<e>>) : new[Len(b) + i] = <<e>>[i]
  BY <1>2, <1>3 DEF Item
<1> HIDE DEF new
<1>5. Count(new) = Count(b) + Count(<<e>>)
  BY <1>2, <1>3, <1>4, CountParts
<1>6. Count(<<e>>) = 0
  BY CountShort DEF Ends
<1>7. Count(b) \in Nat /\ Count(r) \in Nat
  BY <1>2, CountType
<1> QED
  BY <1>1, <1>5, <1>6, <1>7 DEF new, b

\* Framed answers: no body ends with the stream.
LEMMA AnswersIs ==
  ASSUME NEW S, NEW s \in Seq(S), \A i \in DOMAIN s : s[i] # "eof"
  PROVE  Answers(s) = Count(s) /\ Answers(s) \in Nat
<1>1. Count(s) \in Nat
  BY CountType
<1>2. ~\E i \in DOMAIN s : s[i] = "eof"
  OBVIOUS
<1>3. Answers(s) = Count(s) + 0
  BY <1>2 DEF Answers, Count, Ended
<1> QED
  BY <1>1, <1>3

\* A read of data from a stream that is framed.
LEMMA ReadParts ==
  ASSUME NEW rx \in Seq(Item), \A i \in DOMAIN rx : rx[i] # "eof", NEW n \in 1..Len(rx),
         \A i \in 1..n : rx[i] \in Data
  PROVE  LET b == SubSeq(rx, 1, n)
             r == SubSeq(rx, n + 1, Len(rx))
         IN  /\ Count(rx) = Count(b) + Count(r) /\ Count(b) \in Nat /\ Count(r) \in Nat
             /\ Answers(b) = Count(b) /\ Answers(r) = Count(r)
             /\ Finished(rx) => Finished(r)
<1> DEFINE b == SubSeq(rx, 1, n)
           m == Len(rx)
           r == SubSeq(rx, n + 1, m)
<1>1. m \in Nat /\ n \in Nat /\ 1 <= n /\ n <= m /\ DOMAIN rx = 1..m
  OBVIOUS
<1>2. Count(rx) = Count(b) + Count(r)
  <2>1. n \in 0..Len(rx)
    BY <1>1
  <2> QED
    BY <2>1, CountSplit
<1>3. b \in Seq(Item) /\ DOMAIN b = 1..n /\ \A i \in 1..n : b[i] = rx[i]
  BY <1>1
<1>4. r \in Seq(Item) /\ DOMAIN r = 1..(m - n) /\ \A i \in 1..(m - n) : r[i] = rx[n + i]
  <2>1. \A i \in (n + 1)..m : rx[i] \in Item
    BY <1>1
  <2>2. /\ r \in Seq(Item)
        /\ Len(r) = IF n + 1 <= m THEN m - (n + 1) + 1 ELSE 0
        /\ \A i \in 1..(m - (n + 1) + 1) : r[i] = rx[(n + 1) + i - 1]
    BY <1>1, <2>1, SubSeqProperties
  <2> HIDE DEF r, m
  <2>3. m - (n + 1) + 1 = m - n /\ \A i \in Int : (n + 1) + i - 1 = n + i
    BY <1>1, Shift
  <2>4. ~(n + 1 <= m) => m - n = 0
    BY <1>1
  <2>5. \A i \in 1..(m - n) : i \in Int
    OBVIOUS
  <2>6. DOMAIN r = 1..Len(r)
    BY <2>2
  <2> QED
    BY <2>2, <2>3, <2>4, <2>5, <2>6
<1> HIDE DEF b, r, m
<1>5. \A i \in DOMAIN b : b[i] # "eof"
  BY <1>1, <1>3
<1>6. \A i \in DOMAIN r : r[i] # "eof"
  <2>1. \A i \in 1..(m - n) : n + i \in 1..m
    BY <1>1
  <2> QED
    BY <1>1, <1>4, <2>1
<1>7. ASSUME Finished(rx) PROVE Finished(r)
  <2>1. PICK i \in 1..m : rx[i] \in Ends
    BY <1>1, <1>7 DEF Finished
  <2>2. ~(i <= n)
    BY <1>1, <2>1 DEF Data, AllKinds, Ends
  <2>3. i - n \in 1..(m - n) /\ n + (i - n) = i
    BY <1>1, <2>2
  <2> QED
    BY <1>4, <2>1, <2>3 DEF Finished
<1>8. /\ Count(b) \in Nat /\ Count(r) \in Nat
      /\ Answers(b) = Count(b) /\ Answers(r) = Count(r)
  BY <1>3, <1>4, <1>5, <1>6, CountType, AnswersIs
<1> QED
  BY <1>2, <1>7, <1>8 DEF b, r, m

-----------------------------------------------------------------------------
(***************************************************************************)
(* Requests in what was written.  The length of a request is a parameter,  *)
(* so the quotients by it are stated here, once.                           *)
(***************************************************************************)
LEMMA Product ==
  ASSUME NEW a \in Int, NEW b \in Int
  PROVE  /\ a * ReqLen \in Int /\ (a + b) * ReqLen = a * ReqLen + b * ReqLen
         /\ 0 * ReqLen = 0
         /\ a < b => a * ReqLen + ReqLen <= b * ReqLen
  BY WrkThreadAssumption

LEMMA Division ==
  ASSUME NEW a \in Int
  PROVE  /\ a \div ReqLen \in Int /\ a % ReqLen \in 0..(ReqLen - 1)
         /\ a = (a \div ReqLen) * ReqLen + (a % ReqLen)
  BY WrkThreadAssumption

LEMMA Quotient ==
  ASSUME NEW a \in Int, NEW q \in Int, NEW r \in 0..(ReqLen - 1), a = q * ReqLen + r
  PROVE  a \div ReqLen = q /\ a % ReqLen = r
<1> DEFINE p == a \div ReqLen
           t == a % ReqLen
<1>1. p \in Int /\ t \in 0..(ReqLen - 1) /\ a = p * ReqLen + t
  BY Division
<1> HIDE DEF p, t
<1>2. p * ReqLen \in Int /\ q * ReqLen \in Int /\ ReqLen \in Nat
  BY <1>1, Product, WrkThreadAssumption
<1>3. ~(p < q)
  <2>1. p < q => p * ReqLen + ReqLen <= q * ReqLen
    BY <1>1, Product
  <2> QED
    BY <1>1, <1>2, <2>1
<1>4. ~(q < p)
  <2>1. q < p => q * ReqLen + ReqLen <= p * ReqLen
    BY <1>1, Product
  <2> QED
    BY <1>1, <1>2, <2>1
<1>5. p = q
  BY <1>1, <1>3, <1>4
<1>6. t = r
  BY <1>1, <1>2, <1>5
<1> QED
  BY <1>5, <1>6 DEF p, t

\* With w units written and n more, the server has ((w % ReqLen) + n) \div ReqLen
\* more requests in full.
LEMMA Requests ==
  ASSUME NEW w \in 0..(Length - 1), NEW n \in 1..(Length - w)
  PROVE  /\ w \div ReqLen \in 0..(Pipeline - 1) /\ w % ReqLen \in 0..(ReqLen - 1)
         /\ ((w % ReqLen) + n) \div ReqLen \in Nat
         /\ (w + n) \div ReqLen = w \div ReqLen + ((w % ReqLen) + n) \div ReqLen
         /\ (w + n) % ReqLen = ((w % ReqLen) + n) % ReqLen
         /\ w + n = Length => (w + n) \div ReqLen = Pipeline /\ (w + n) % ReqLen = 0
         /\ w = 0 => w \div ReqLen = 0 /\ w % ReqLen = 0
<1> DEFINE q == w \div ReqLen
           r == w % ReqLen
           p == (r + n) \div ReqLen
           t == (r + n) % ReqLen
<1>0. /\ Length \in Nat /\ Length = Pipeline * ReqLen /\ ReqLen \in Nat /\ ReqLen > 0
      /\ Pipeline \in Nat
  BY LengthType, WrkThreadAssumption DEF Length
<1>1. w \in Int /\ n \in Int /\ w >= 0 /\ n >= 1 /\ w < Length
  BY <1>0
<1>2. q \in Int /\ r \in 0..(ReqLen - 1) /\ w = q * ReqLen + r
  BY <1>1, Division
<1>3. p \in Int /\ t \in 0..(ReqLen - 1) /\ r + n = p * ReqLen + t
  <2>1. r + n \in Int
    BY <1>1, <1>2
  <2> QED
    BY <2>1, Division
<1> HIDE DEF q, r, p, t
<1>4. /\ q * ReqLen \in Int /\ p * ReqLen \in Int
      /\ (q + p) * ReqLen = q * ReqLen + p * ReqLen /\ 0 * ReqLen = 0
  BY <1>2, <1>3, Product
<1>5. w + n = (q + p) * ReqLen + t
  BY <1>1, <1>2, <1>3, <1>4
<1>6. (w + n) \div ReqLen = q + p /\ (w + n) % ReqLen = t
  BY <1>1, <1>2, <1>3, <1>5, Quotient
<1>7. q \in 0..(Pipeline - 1)
  <2>1. q < 0 => q * ReqLen + ReqLen <= 0 * ReqLen
    BY <1>2, Product
  <2>2. Pipeline < q => Pipeline * ReqLen + ReqLen <= q * ReqLen
    BY <1>0, <1>2, Product
  <2>3. ~(q < 0)
    BY <1>0, <1>1, <1>2, <1>4, <2>1
  <2>4. ~(Pipeline < q) /\ q # Pipeline
    BY <1>0, <1>1, <1>2, <1>4, <2>2
  <2> QED
    BY <1>0, <1>2, <2>3, <2>4
<1>8. p \in Nat
  <2>1. p < 0 => p * ReqLen + ReqLen <= 0 * ReqLen
    BY <1>3, Product
  <2> QED
    BY <1>0, <1>1, <1>2, <1>3, <1>4, <2>1
<1>9. w + n = Length => (w + n) \div ReqLen = Pipeline /\ (w + n) % ReqLen = 0
  <2>1. Pipeline * ReqLen \in Int /\ Pipeline * ReqLen = Pipeline * ReqLen + 0
    BY <1>0, Product
  <2>2. 0 \in 0..(ReqLen - 1)
    BY <1>0
  <2> QED
    BY <1>0, <1>1, <2>1, <2>2, Quotient
<1>10. w = 0 => q = 0 /\ r = 0
  <2>1. 0 \in 0..(ReqLen - 1) /\ 0 = 0 * ReqLen + 0
    BY <1>0, Product
  <2>2. 0 \div ReqLen = 0 /\ 0 % ReqLen = 0
    BY <2>1, Quotient
  <2> QED
    BY <2>2 DEF q, r
<1> QED
  BY <1>2, <1>6, <1>7, <1>8, <1>9, <1>10 DEF q, r, p, t

-----------------------------------------------------------------------------
(***************************************************************************)
(* The account of a connection: w, c->written; p, c->pending; mask, what   *)
(* its socket is watched for; x, the answers on their way.  A new cycle    *)
(* may only start with none, and otherwise they and the requests that are  *)
(* still to be sent are covered by c->pending.                             *)
(***************************************************************************)
ToSend(w) == IF w = 0 THEN 0 ELSE Pipeline - w \div ReqLen

Balance(w, p, mask, x) ==
    IF w = 0 /\ "W" \in mask THEN x = 0 ELSE x + ToSend(w) <= p

\* A write: the server has q more requests, or takes none any more.
LEMMA BalanceWrite ==
  ASSUME NEW w \in 0..(Length - 1), NEW n \in 1..(Length - w), NEW p \in Nat, NEW x \in Nat,
         NEW mask, "W" \in mask, Balance(w, p, mask, x),
         NEW q \in {0, ((w % ReqLen) + n) \div ReqLen}
  PROVE  Balance(WrittenNow(w + n), IF w = 0 THEN Pipeline ELSE p,
                 IF w + n = Length THEN mask \ {"W"} ELSE mask, x + q)
<1> DEFINE P == IF w = 0 THEN Pipeline ELSE p
           a == w \div ReqLen
           d == ((w % ReqLen) + n) \div ReqLen
           b == (w + n) \div ReqLen
<1>1. /\ a \in 0..(Pipeline - 1) /\ d \in Nat /\ b = a + d
      /\ w + n = Length => b = Pipeline
      /\ w = 0 => a = 0
  BY Requests
<1>2. Pipeline \in Nat /\ Length \in Nat /\ w \in Nat /\ n \in Nat /\ n > 0
  BY LengthType, WrkThreadAssumption
<1>3. q \in Nat /\ q <= d
  BY <1>1
<1>4. ToSend(w) = IF w = 0 THEN 0 ELSE Pipeline - a
  BY DEF ToSend
<1>5. ToSend(w + n) = Pipeline - b
  BY <1>2 DEF ToSend
<1> HIDE DEF a, d, b
<1>6. P \in Nat /\ x + Pipeline - a <= P
  BY <1>1, <1>2, <1>4 DEF Balance
<1>7. CASE w + n = Length
  <2>1. WrittenNow(w + n) = 0 /\ ToSend(0) = 0
    BY <1>7 DEF WrittenNow, ToSend
  <2>2. x + q <= P
    BY <1>1, <1>2, <1>3, <1>6, <1>7
  <2>3. x + q + 0 <= P
    BY <1>3, <1>6, <2>2
  <2> QED
    BY <1>7, <2>1, <2>3 DEF Balance
<1>8. CASE w + n # Length
  <2>1. WrittenNow(w + n) = w + n /\ w + n # 0
    BY <1>2, <1>8 DEF WrittenNow
  <2>2. x + q + (Pipeline - b) <= P
    BY <1>1, <1>2, <1>3, <1>6
  <2> QED
    BY <1>5, <1>8, <2>1, <2>2 DEF Balance
<1> QED
  BY <1>7, <1>8

\* An answer is parsed: pending does not wrap, and after the last there is
\* nothing to send and nothing on its way.
LEMMA BalanceAnswer ==
  ASSUME NEW w \in 0..(Length - 1), NEW p \in 0..(PendingMod - 1), NEW x \in Nat,
         NEW mask, Balance(w, p, mask, x + 1)
  PROVE  LET left == (p - 1) % PendingMod
         IN  /\ left = p - 1
             /\ Balance(w, left, IF left = 0 THEN mask \cup {"W"} ELSE mask, x)
<1>1. PendingMod \in Nat /\ Pipeline \in Nat
  BY WrkThreadAssumption
<1>2. ToSend(w) \in Nat /\ (ToSend(w) = 0 => w = 0)
  <2>1. w = 0 => ToSend(w) = 0
    BY DEF ToSend
  <2>2. ASSUME w # 0 PROVE ToSend(w) \in Nat /\ ToSend(w) > 0
    <3>1. Length - w >= 1
      BY LengthType
    <3>2. 1 \in 1..(Length - w)
      BY <3>1, LengthType
    <3>3. w \div ReqLen \in 0..(Pipeline - 1)
      BY <3>2, Requests
    <3> DEFINE a == w \div ReqLen
    <3>4. ToSend(w) = Pipeline - a
      BY <2>2 DEF ToSend
    <3> HIDE DEF a
    <3>5. a \in 0..(Pipeline - 1)
      BY <3>3 DEF a
    <3> QED
      BY <1>1, <3>4, <3>5
  <2> QED
    BY <2>1, <2>2
<1>3. ~(w = 0 /\ "W" \in mask) /\ x + 1 + ToSend(w) <= p
  BY DEF Balance
<1>4. p - 1 \in 0..(PendingMod - 1)
  BY <1>1, <1>2, <1>3
<1>5. (p - 1) % PendingMod = p - 1
  BY <1>1, <1>4
<1>6. x + ToSend(w) <= p - 1
  BY <1>1, <1>2, <1>3
<1>7. p - 1 = 0 => x = 0 /\ w = 0
  BY <1>2, <1>6
<1>8. Balance(w, p - 1, IF p - 1 = 0 THEN mask \cup {"W"} ELSE mask, x)
  BY <1>3, <1>6, <1>7 DEF Balance
<1> QED
  BY <1>5, <1>8

\* Fewer answers than were asked for.
LEMMA BalanceLess ==
  ASSUME NEW w \in 0..(Length - 1), NEW p \in Nat, NEW x \in Nat, NEW y \in Nat, NEW mask,
         y <= x, Balance(w, p, mask, x)
  PROVE  Balance(w, p, mask, y)
<1>1. ToSend(w) \in Int
  <2>1. w \in Int /\ Pipeline \in Int
    BY WrkThreadAssumption
  <2>2. w \div ReqLen \in Int
    BY <2>1, Division
  <2> QED
    BY <2>1, <2>2 DEF ToSend
<1> QED
  BY <1>1 DEF Balance

-----------------------------------------------------------------------------
(***************************************************************************)
(* The invariant, by descriptor.  A new socket has received nothing; one   *)
(* of an established connection has the account of its connection, and     *)
(* the part of a request the server has is the part that was written,      *)
(* unless the socket failed or the server takes no more.                   *)
(***************************************************************************)
Awaited(fd) == IF pc = "parse" /\ cur = fd THEN Answers(buf) ELSE 0
Expected(fd) == sock[fd].due + Answers(sock[fd].rx) + Awaited(fd)

InStep(s, w) == s.st = "refused" \/ Finished(s.rx) \/ s.got = w % ReqLen

Owed(fd, k) == /\ Balance(k.written, k.pending, events[fd].mask, Expected(fd))
               /\ InStep(sock[fd], k.written)

Account(fd) ==
    events[fd].mask # {} =>
       /\ events[fd].rproc = "socket_connected" => sock[fd].got = 0
       /\ events[fd].rproc = "socket_readable" => Owed(fd, conn[events[fd].data])

OwedInv == (pc # "parse" => buf = << >>) /\ \A fd \in Fds : Account(fd)

\* The answers in a socket and in the buffer are framed.
LEMMA Framed ==
  ASSUME StateInv, OwedInv, NEW fd \in Fds
  PROVE  /\ sock[fd].rx \in Seq(Item) /\ \A i \in DOMAIN sock[fd].rx : sock[fd].rx[i] # "eof"
         /\ buf \in Seq(Item \cup {"notfinal"}) /\ \A i \in DOMAIN buf : buf[i] # "eof"
         /\ Answers(sock[fd].rx) = Count(sock[fd].rx) /\ Answers(sock[fd].rx) \in Nat
         /\ Answers(buf) = Count(buf) /\ Answers(buf) \in Nat
         /\ sock[fd].due \in Nat /\ Expected(fd) \in Nat
<1>1. sock[fd].rx \in Seq(Item) /\ sock[fd].due \in Nat /\ buf \in Seq(Item \cup {"notfinal"})
  BY DEF StateInv, TypeOK, SockTable
<1>2. \A i \in DOMAIN sock[fd].rx : sock[fd].rx[i] # "eof"
  BY DEF StateInv, Good, Socket, Stream
<1>3. \A i \in DOMAIN buf : buf[i] # "eof"
  <2>1. CASE buf = << >>
    BY <2>1
  <2>2. CASE buf # << >>
    <3>1. Dispatched(reader)
      BY <2>2 DEF OwedInv, StateInv, Loop, Replaced
    <3> QED
      BY <3>1 DEF Dispatched, BufferOf
  <2> QED
    BY <2>1, <2>2
<1>4. /\ Answers(sock[fd].rx) = Count(sock[fd].rx) /\ Answers(sock[fd].rx) \in Nat
      /\ Answers(buf) = Count(buf) /\ Answers(buf) \in Nat
  BY <1>1, <1>2, <1>3, AnswersIs
<1> QED
  BY <1>1, <1>2, <1>3, <1>4 DEF Expected, Awaited

\* What a handler knows of the account of its connection.
LEMMA AccountOf ==
  ASSUME StateInv, OwedInv, NEW fd \in Fds, NEW c \in Conns, events[fd].mask # {},
         events[fd].data = c
  PROVE  /\ TypeOK' => Calm
         /\ conn[c].written \in 0..(Length - 1) /\ conn[c].pending \in 0..(PendingMod - 1)
         /\ conn[c].pending \in Nat /\ conn[c].fd = fd
         /\ events[fd].rproc = "socket_connected" => sock[fd].got = 0 /\ Unused(sock[fd])
         /\ events[fd].rproc = "socket_readable" => Owed(fd, conn[c])
         /\ events[fd].rproc \in {"socket_connected", "socket_readable"}
         /\ sock[fd].got \in Nat
<1>1. conn[c].written \in 0..(Length - 1) /\ conn[c].pending \in 0..(PendingMod - 1)
      /\ sock[fd].got \in 0..(ReqLen - 1)
  BY DEF StateInv, TypeOK, ConnTable, SockTable
<1>2. conn[c].fd = fd /\ (Connecting(events, sock, fd) \/ Reading(events, fd))
  BY RegisteredGood DEF StateInv
<1>3. Account(fd)
  BY DEF OwedInv
<1>4. TypeOK' => Calm
  BY DEF StateInv, Calm
<1> QED
  BY <1>1, <1>2, <1>3, <1>4, WrkThreadAssumption DEF Account, Connecting, Reading

\* A change of the descriptor of one connection.
Others(c) == \A d \in Conns \ {c} : conn'[d] = conn[d]

LEMMA OwedStep ==
  ASSUME StateInv, OwedInv, NEW fd \in Fds, NEW c \in Conns,
         events[fd].mask # {}, events[fd].data = c, Local(fd), Others(c),
         pc = "parse" => cur = fd, pc' = "parse" => cur' = fd,
         pc' # "parse" => buf' = << >>, Account(fd)'
  PROVE  OwedInv'
<1>1. ASSUME NEW g \in Fds \ {fd}
      PROVE  Account(g)'
  <2>1. CASE Quiet(g)
    BY <2>1 DEF Quiet, Account
  <2>2. CASE Same(events, sock, g)
    <3>1. Account(g)
      BY DEF OwedInv
    <3>2. Expected(g)' = Expected(g)
      BY <1>1, <2>2 DEF Expected, Awaited, Same
    <3>3. events[g].mask # {} => events[g].data \in Conns \ {c}
      BY RegisteredGood, OneDescriptor DEF StateInv
    <3>4. events[g].mask # {} => conn'[events[g].data] = conn[events[g].data]
      BY <3>3 DEF Others
    <3> QED
      BY <2>2, <3>1, <3>2, <3>4 DEF Account, Owed, Same
  <2> QED
    BY <2>1, <2>2 DEF Local
<1> QED
  BY <1>1 DEF OwedInv

\* A socket that was replaced.
LEMMA QuietAccount == ASSUME NEW fd \in Fds, Quiet(fd) PROVE Account(fd)'
  BY DEF Quiet, Account

-----------------------------------------------------------------------------
(* The handlers *)

LEMMA ConnectedAccount ==
  ASSUME StateInv, OwedInv, TypeOK', NEW fd \in Fds, NEW c \in Conns, events[fd].mask # {},
         events[fd].data = c, Connecting(events, sock, fd), pc # "parse", pc' # "parse",
         socket_connected(c, fd)
  PROVE  Account(fd)' /\ Others(c)
<1>1. Calm /\ sock[fd].got = 0 /\ Unused(sock[fd]) /\ conn[c].fd = fd /\ Registered(c, fd)
      /\ conn \in ConnTable /\ Attended(c, fd)
  BY AccountOf, CalledFor DEF Connecting
<1>2. CASE ConnectedOk(c, fd)
  <2>1. Opened(c, fd)
    BY <1>1, <1>2, ConnectedTables
  <2>2. conn'[c].written = 0 /\ Others(c)
    BY <1>1, <1>2 DEF ConnectedOk, ConnTable, Others
  <2>3. Answers(sock[fd].rx) = 0
    <3>1. Ended(sock[fd].rx) = {}
      BY <1>1 DEF Unused, NoData, Ended, Ends
    <3> QED
      BY <3>1, Framed, FS_EmptySet DEF Count
  <2>4. Expected(fd)' = 0
    BY <1>1, <2>1, <2>3 DEF Opened, Expected, Awaited, Unused
  <2>5. 0 % ReqLen = 0
    <3>1. 0 \in 0..(Length - 1) /\ 1 \in 1..(Length - 0)
      BY LengthType
    <3> QED
      BY <3>1, Requests
  <2>6. Owed(fd, conn[c])'
    BY <1>1, <2>1, <2>2, <2>4, <2>5 DEF Opened, Owed, Balance, InStep
  <2> QED
    BY <2>1, <2>2, <2>6 DEF Opened, Account
<1>3. CASE ConnectedRetry(c)
  <2>1. Account(fd)
    BY DEF OwedInv
  <2> QED
    BY <1>3, <2>1 DEF ConnectedRetry, Account, Owed, Expected, Awaited, Others
<1>4. CASE ConnectedError(c)
  <2>1. ~conn[c].delayed /\ conn[c].parser # "body_eof" /\ UNCHANGED timers
    BY DEF StateInv, Undelayed, socket_connected
  <2>2. Quiet(fd) /\ Others(c)
    BY <1>1, <1>4, <2>1, ReconnectKept DEF ConnectedError, Others
  <2> QED
    BY <2>2, QuietAccount
<1> QED
  BY <1>2, <1>3, <1>4 DEF socket_connected

\* What the server makes of n units.
LEMMA DeliverAccount ==
  ASSUME NEW fd \in Fds, sock \in SockTable, NEW w \in 0..(Length - 1),
         NEW n \in 1..(Length - w), InStep(sock[fd], w), sock[fd].st # "refused"
  PROVE  LET s == Deliver(sock[fd], n)
         IN  /\ \E q \in {0, ((w % ReqLen) + n) \div ReqLen} : s.due = sock[fd].due + q
             /\ Finished(sock[fd].rx) \/ sock[fd].st # "up"
                   \/ s.got = WrittenNow(w + n) % ReqLen
<1>1. sock[fd].due \in Nat /\ sock[fd] \in SockRecord
  BY DEF SockTable, SockRecord
<1>2. CASE sock[fd].st # "up" \/ Finished(sock[fd].rx)
  <2>1. Deliver(sock[fd], n) = sock[fd]
    BY <1>2 DEF Deliver
  <2>2. sock[fd].due = sock[fd].due + 0
    BY <1>1
  <2> QED
    BY <1>2, <2>1, <2>2
<1>3. CASE ~(sock[fd].st # "up" \/ Finished(sock[fd].rx))
  <2>1. sock[fd].got = w % ReqLen
    BY <1>3 DEF InStep
  <2>2. /\ Deliver(sock[fd], n).got = ((w % ReqLen) + n) % ReqLen
        /\ Deliver(sock[fd], n).due = sock[fd].due + ((w % ReqLen) + n) \div ReqLen
    BY <1>1, <1>3, <2>1 DEF Deliver, SockRecord
  <2>3. ((w % ReqLen) + n) % ReqLen = WrittenNow(w + n) % ReqLen
    <3>1. (w + n) % ReqLen = ((w % ReqLen) + n) % ReqLen
          /\ (w + n = Length => (w + n) % ReqLen = 0)
      BY Requests
    <3>2. 0 % ReqLen = 0
      <4>1. 0 \in 0..(Length - 1) /\ 1 \in 1..(Length - 0)
        BY LengthType
      <4> QED
        BY <4>1, Requests
    <3> QED
      BY <3>1, <3>2 DEF WrittenNow
  <2> QED
    BY <2>2, <2>3
<1> QED
  BY <1>2, <1>3

LEMMA WriteableAccount ==
  ASSUME StateInv, OwedInv, TypeOK', NEW fd \in Fds, NEW c \in Conns, events[fd].mask # {},
         events[fd].data = c, Reading(events, fd), "W" \in events[fd].mask,
         pc # "parse", pc' # "parse", socket_writeable(c, fd)
  PROVE  Account(fd)' /\ Others(c)
<1> DEFINE w == conn[c].written
           p == conn[c].pending
           mask == events[fd].mask
<1>1. /\ Calm /\ w \in 0..(Length - 1) /\ p \in Nat /\ conn[c].fd = fd
      /\ Owed(fd, conn[c]) /\ Registered(c, fd) /\ SocketOf(c) = sock[fd]
      /\ sock[fd].st \in Live /\ conn \in ConnTable /\ sock \in SockTable
      /\ Attended(c, fd)
  BY AccountOf, CalledFor DEF Reading
<1>2. ~conn[c].delayed /\ conn[c].parser # "body_eof"
  BY DEF StateInv, Undelayed
<1>3. /\ Started(c) \in ConnTable /\ Started(c)[c].written = w
      /\ Started(c)[c].pending = (IF w = 0 THEN Pipeline ELSE p)
      /\ \A d \in Conns : /\ Started(c)[d].fd = conn[d].fd
                          /\ Started(c)[d].parser = conn[d].parser
                          /\ Started(c)[d].delayed = conn[d].delayed
      /\ \A d \in Conns \ {c} : Started(c)[d] = conn[d]
  <2>1. Started(c) \in ConnTable
    BY StartedType DEF StateInv
  <2> QED
    BY <1>1, <2>1 DEF Started, ConnTable
<1>4. /\ Expected(fd) = sock[fd].due + Answers(sock[fd].rx) + 0
      /\ Expected(fd)' = sock'[fd].due + Answers(sock'[fd].rx) + 0
      /\ sock[fd].due \in Nat /\ Answers(sock[fd].rx) \in Nat /\ Expected(fd) \in Nat
  BY Framed DEF Expected, Awaited
<1>5. CASE WriteOk(c, fd)
  <2>1. PICK n \in 1..(Length - w) : Wrote(c, fd, n)
    BY <1>1, <1>5, WriteTables
  <2>2. sock[fd].st = "up"
    <3>1. \E n0 \in sock_write(c, Length - w) : n0 > 0
      BY <1>5 DEF WriteOk
    <3> QED
      BY <1>1, <3>1 DEF sock_write, Live
  <2>3. /\ conn'[c].written = WrittenNow(w + n)
        /\ conn'[c].pending = (IF w = 0 THEN Pipeline ELSE p)
        /\ Others(c)
    BY <1>3, <2>1 DEF Wrote, ConnTable, Others
  <2>4. /\ \E q \in {0, ((w % ReqLen) + n) \div ReqLen} : sock'[fd].due = sock[fd].due + q
        /\ InStep(sock'[fd], WrittenNow(w + n))
    <3>1. InStep(sock[fd], w)
      BY <1>1 DEF Owed
    <3>2. /\ sock'[fd].due = Deliver(sock[fd], n).due /\ sock'[fd].rx = sock[fd].rx
          /\ sock'[fd].got = Deliver(sock[fd], n).got
      BY <2>1 DEF Wrote
    <3> QED
      BY <1>1, <2>2, <3>1, <3>2, DeliverAccount DEF InStep
  <2>5. PICK q \in {0, ((w % ReqLen) + n) \div ReqLen} : sock'[fd].due = sock[fd].due + q
    BY <2>4
  <2>6. q \in Nat
    BY <1>1, <2>5, Requests
  <2>7. Expected(fd)' = Expected(fd) + q
    BY <1>4, <2>1, <2>5, <2>6 DEF Wrote
  <2>8. Balance(WrittenNow(w + n), IF w = 0 THEN Pipeline ELSE p,
                IF w + n = Length THEN mask \ {"W"} ELSE mask, Expected(fd) + q)
    <3>1. Balance(w, p, mask, Expected(fd))
      BY <1>1 DEF Owed
    <3> HIDE DEF w, p, mask
    <3>2. "W" \in mask
      BY DEF mask
    <3> QED
      BY <1>1, <1>4, <2>5, <3>1, <3>2, BalanceWrite
  <2>9. events'[fd].mask = (IF w + n = Length THEN mask \ {"W"} ELSE mask)
        /\ events'[fd].rproc = "socket_readable" /\ events'[fd].data = c
    BY <2>1 DEF Wrote, Reading
  <2>10. Owed(fd, conn[c])'
    <3> HIDE DEF w, p, mask
    <3> QED
      BY <2>3, <2>4, <2>7, <2>8, <2>9 DEF Owed
  <2> QED
    BY <2>3, <2>9, <2>10 DEF Account
<1>6. CASE WriteRetry(c)
  <2>1. conn' = Started(c) /\ UNCHANGED <<events, sock>>
    BY <1>6 DEF WriteRetry
  <2>2. /\ conn'[c].written = w /\ Others(c) /\ Expected(fd)' = Expected(fd)
        /\ conn'[c].pending = (IF w = 0 THEN Pipeline ELSE p)
    BY <1>3, <1>4, <2>1 DEF Others
  <2>3. Owed(fd, conn[c])'
    BY <1>1, <2>1, <2>2 DEF Owed, Balance
  <2> QED
    BY <2>1, <2>2, <2>3 DEF Account, Reading
<1>7. CASE WriteError(c)
  <2>1. UNCHANGED timers
    BY <1>7 DEF WriteError
  <2>2. ~Started(c)[c].delayed /\ Started(c)[c].parser # "body_eof"
    BY <1>2, <1>3
  <2>3. Quiet(fd) /\ \A d \in Conns \ {c} : conn'[d] = Started(c)[d]
    BY <1>1, <1>3, <1>7, <2>1, <2>2, ReconnectKept DEF WriteError
  <2> QED
    BY <1>3, <2>3, QuietAccount DEF Others
<1>8. CASE WriteDelayed(c, fd)
  BY <1>2, <1>8 DEF WriteDelayed
<1> QED
  BY <1>5, <1>6, <1>7, <1>8 DEF socket_writeable

LEMMA ReadableAccount ==
  ASSUME StateInv, OwedInv, TypeOK', NEW fd \in Fds, NEW c \in Conns, events[fd].mask # {},
         events[fd].data = c, events[fd].rproc = "socket_readable",
         pc = "parse" => buf = << >>, socket_readable(c, fd)
  PROVE  /\ Account(fd)' /\ Others(c)
         /\ cur' = fd /\ (pc' # "parse" => buf' = << >>)
<1> DEFINE rx == sock[fd].rx
<1>1. /\ Calm /\ conn[c].fd = fd /\ Owed(fd, conn[c]) /\ Registered(c, fd)
      /\ SocketOf(c) = sock[fd] /\ sock \in SockTable /\ conn \in ConnTable
      /\ conn[c].written \in 0..(Length - 1) /\ conn[c].pending \in Nat
  BY AccountOf, CalledFor
<1>2. /\ rx \in Seq(Item) /\ \A i \in DOMAIN rx : rx[i] # "eof"
      /\ Answers(rx) = Count(rx) /\ Count(rx) \in Nat /\ sock[fd].due \in Nat
      /\ Expected(fd) \in Nat
  BY Framed
<1>3. Expected(fd) = sock[fd].due + Count(rx)
  <2>1. buf = << >>
    BY DEF OwedInv
  <2>2. Answers(buf) = 0
    BY <2>1, Framed, CountShort
  <2> QED
    BY <1>2, <2>2 DEF Expected, Awaited
<1>4. CASE ReadData(c, fd)
  <2>1. PICK n \in 1..Len(rx) :
           /\ \A i \in 1..n : rx[i] \in Data
           /\ buf' = SubSeq(rx, 1, n)
           /\ sock' = [sock EXCEPT ![fd].rx = SubSeq(rx, n + 1, Len(rx))]
    BY <1>1, <1>4 DEF ReadData
  <2> DEFINE b == SubSeq(rx, 1, n)
             r == SubSeq(rx, n + 1, Len(rx))
  <2>2. UNCHANGED <<events, conn>> /\ pc' = "parse" /\ cur' = fd
    BY <1>4 DEF ReadData, StartParse
  <2>3. /\ Count(rx) = Count(b) + Count(r) /\ Count(b) \in Nat /\ Count(r) \in Nat
        /\ Answers(b) = Count(b) /\ Answers(r) = Count(r)
        /\ Finished(rx) => Finished(r)
    BY <1>2, <2>1, ReadParts
  <2> HIDE DEF b, r
  <2>4. /\ sock'[fd].rx = r /\ sock'[fd].st = sock[fd].st /\ sock'[fd].got = sock[fd].got
        /\ sock'[fd].due = sock[fd].due /\ buf' = b
    BY <1>1, <2>1 DEF SockTable, r, b
  <2>5. Expected(fd)' = Expected(fd)
    <3>1. Expected(fd)' = sock[fd].due + Count(r) + Count(b)
      BY <2>2, <2>3, <2>4 DEF Expected, Awaited
    <3> HIDE DEF rx
    <3> QED
      BY <1>2, <1>3, <2>3, <3>1
  <2>6. InStep(sock[fd], conn[c].written) => InStep(sock'[fd], conn[c].written)
    BY <2>3, <2>4 DEF InStep
  <2> QED
    BY <1>1, <2>2, <2>5, <2>6 DEF Account, Owed, Others
<1>5. CASE ReadEof(c, fd)
  <2>1. UNCHANGED <<events, conn, sock>> /\ pc' = "parse" /\ cur' = fd /\ buf' = <<"fin">>
    BY <1>5 DEF ReadEof, StartParse
  <2>2. Answers(<<"fin">>) = 0
    <3>1. <<"fin">> \in Seq(Item) /\ \A i \in DOMAIN <<"fin">> : <<"fin">>[i] # "eof"
      BY DEF Item, Ends
    <3>2. Answers(<<"fin">>) = Count(<<"fin">>)
      BY <3>1, AnswersIs
    <3>3. Count(<<"fin">>) = 0
      BY "fin" \notin {"keep", "close"}, CountShort
    <3> QED
      BY <3>2, <3>3
  <2>3. Expected(fd)' = Expected(fd)
    <3>1. Expected(fd)' = sock[fd].due + Answers(rx) + 0
      BY <2>1, <2>2 DEF Expected, Awaited
    <3> HIDE DEF rx
    <3> QED
      BY <1>2, <1>3, <3>1
  <2> QED
    BY <1>1, <2>1, <2>3 DEF Account, Owed, Others
<1>6. CASE ReadError(c, fd)
  <2>1. /\ cur' = fd /\ pc' = "file_w" /\ buf' = << >> /\ UNCHANGED timers
        /\ reconnect_socket(c, events, sock, conn, Raise(errors, "read"))
    BY <1>6 DEF ReadError, AfterR, socket_readable
  <2>2. ~conn[c].delayed /\ conn[c].parser # "body_eof"
    BY DEF StateInv, Undelayed
  <2>3. Quiet(fd) /\ Others(c)
    BY <1>1, <2>1, <2>2, ReconnectKept DEF Others
  <2> QED
    BY <2>1, <2>3, QuietAccount
<1>7. CASE ReadRetry(c, fd)
  <2>1. UNCHANGED <<events, conn, sock>> /\ pc' = "file_w" /\ cur' = fd /\ buf' = << >>
    BY <1>7 DEF ReadRetry, AfterR
  <2>2. Expected(fd)' = Expected(fd)
    <3>1. Expected(fd)' = sock[fd].due + Answers(rx) + 0
      BY <2>1 DEF Expected, Awaited
    <3> HIDE DEF rx
    <3> QED
      BY <1>2, <1>3, <3>1
  <2> QED
    BY <1>1, <2>1, <2>2 DEF Account, Owed, Others
<1> QED
  BY <1>4, <1>5, <1>6, <1>7 DEF socket_readable

LEMMA ParseAccount ==
  ASSUME Premises, StateInv, OwedInv, TypeOK', NEW c \in Conns, Dispatched(c), Parse(c)
  PROVE  Account(cur)' /\ Others(c)
<1>0. UNCHANGED <<pc, cur, timers>> /\ pc = "parse" /\ buf # << >>
  BY DEF Parse
<1>1. /\ cur \in Fds /\ conn[c].fd = cur /\ events[cur].mask # {} /\ events[cur].data = c
      /\ events[cur].rproc = "socket_readable"
  BY DEF Dispatched, Registered
<1>2. /\ Calm /\ Owed(cur, conn[c]) /\ conn \in ConnTable
      /\ conn[c].written \in 0..(Length - 1) /\ conn[c].pending \in 0..(PendingMod - 1)
  BY <1>1, AccountOf, CalledFor
<1>3. /\ buf \in Seq(Item \cup {"notfinal"}) /\ \A i \in DOMAIN buf : buf[i] # "eof"
      /\ Answers(buf) = Count(buf) /\ Count(buf) \in Nat
      /\ Answers(sock[cur].rx) \in Nat /\ sock[cur].due \in Nat
      /\ Expected(cur) = sock[cur].due + Answers(sock[cur].rx) + Count(buf)
  BY <1>0, <1>1, Framed DEF Expected, Awaited
<1>4. /\ Answers(Tail(buf)) = Count(Tail(buf)) /\ Count(Tail(buf)) \in Nat
      /\ Count(buf) = Count(<<Head(buf)>>) + Count(Tail(buf))
  <2> DEFINE t == Tail(buf)
  <2>1. t \in Seq(Item \cup {"notfinal"}) /\ \A i \in DOMAIN t : t[i] # "eof"
    BY <1>0, <1>3, BufferTail
  <2>2. Answers(t) = Count(t) /\ Count(t) \in Nat
    <3> HIDE DEF t
    <3> QED
      BY <2>1, AnswersIs, CountType
  <2> QED
    BY <1>0, <1>3, <2>2, CountTail
<1>5. CASE Head(buf) = "head" /\ header_field(c) /\ buf' = Tail(buf)
  <2>1. /\ conn'[c].written = conn[c].written /\ conn'[c].pending = conn[c].pending
        /\ Others(c) /\ UNCHANGED <<events, sock>>
    <3>1. ASSUME NEW h, conn' = [conn EXCEPT ![c].parser = "head", ![c].hdrs = h]
          PROVE  /\ conn'[c].written = conn[c].written /\ conn'[c].pending = conn[c].pending
                 /\ Others(c)
      BY <1>2, <3>1 DEF ConnTable, Others
    <3>2. UNCHANGED <<events, sock>>
      BY <1>5 DEF header_field
    <3>3. conn'[c].written = conn[c].written /\ conn'[c].pending = conn[c].pending /\ Others(c)
      BY <1>5, <3>1, Zenon DEF header_field
    <3> QED
      BY <3>2, <3>3
  <2>2. Count(<<Head(buf)>>) = 0
    BY <1>5, "head" \notin {"keep", "close"}, CountShort
  <2>3. Expected(cur)' = Expected(cur)
    BY <1>0, <1>3, <1>4, <1>5, <2>1, <2>2 DEF Expected, Awaited
  <2> QED
    BY <1>0, <1>1, <1>2, <2>1, <2>3 DEF Account, Owed
<1>6. CASE Head(buf) = "keep" /\ response_complete(c, TRUE) /\ buf' = Tail(buf)
  <2> DEFINE left == (conn[c].pending - 1) % PendingMod
             x == sock[cur].due + Answers(sock[cur].rx) + Count(Tail(buf))
  <2>1. /\ Others(c) /\ Answered(c) /\ events'[cur].data = c
        /\ events'[cur].rproc = "socket_readable"
        /\ sock'[cur].st = sock[cur].st /\ sock'[cur].rx = sock[cur].rx
    BY <1>0, <1>2, <1>6, ResponseGood DEF Others
  <2>2. Count(<<Head(buf)>>) = 1
    BY <1>6, CountShort
  <2>3. x \in Nat /\ Expected(cur) = x + 1
    <3>1. Count(buf) = 1 + Count(Tail(buf))
      BY <1>4, <2>2
    <3> QED
      BY <1>3, <1>4, <3>1
  <2>4. Expected(cur)' = x
    BY <1>0, <1>4, <1>6, <2>1 DEF Expected, Awaited, Answered
  <2> HIDE DEF x
  <2>5. Balance(conn[c].written, left,
                IF left = 0 THEN events[cur].mask \cup {"W"} ELSE events[cur].mask, x)
    BY <1>2, <2>3, BalanceAnswer DEF Owed
  <2>6. Owed(cur, conn[c])'
    <3>1. /\ conn'[c].pending = left /\ conn'[c].written = conn[c].written
          /\ events'[cur].mask = IF left = 0 THEN events[cur].mask \cup {"W"}
                                 ELSE events[cur].mask
          /\ sock'[cur].got = sock[cur].got
      BY <2>1 DEF Answered, CycleOver
    <3>2. InStep(sock'[cur], conn[c].written)
      BY <1>2, <2>1, <3>1 DEF Owed, InStep
    <3> HIDE DEF left
    <3> QED
      BY <1>0, <2>4, <2>5, <3>1, <3>2 DEF Owed
  <2> QED
    BY <1>0, <2>1, <2>6 DEF Account
<1>7. CASE Head(buf) = "close" /\ response_complete(c, FALSE) /\ buf' = Tail(buf)
  <2>1. Quiet(cur) /\ Others(c)
    BY <1>0, <1>2, <1>7, ResponseGood DEF Others
  <2> QED
    BY <1>0, <1>1, <2>1, QuietAccount
<1> QED
  BY <1>2, <1>5, <1>6, <1>7, ParseCases

-----------------------------------------------------------------------------
(* Steps *)

\* The handlers the loop calls for an event.
LEMMA DispatchOwed ==
  ASSUME StateInv, OwedInv, TypeOK', NEW fd \in Fds, NEW c \in Conns,
         DispatchR(fd, c) \/ DispatchW(fd, c)
  PROVE  OwedInv'
<1>0. /\ Calm /\ (pc \notin {"parse", "file_w"} => cur = NoFd)
      /\ events[fd].mask # {} => Connecting(events, sock, fd) \/ Reading(events, fd)
      /\ pc # "parse" => buf = << >>
  BY RegisteredGood DEF StateInv, Calm, Loop, OwedInv
<1>1. CASE CallsR(fd, "socket_connected", c) /\ socket_connected(c, fd) /\ AfterR(fd)
  <2>1. /\ pc = "fetch" /\ events[fd].mask # {} /\ events[fd].data = c
        /\ events[fd].rproc = "socket_connected" /\ pc' = "file_w" /\ buf' = buf
    BY <1>1 DEF CallsR, FiresR, AfterR, socket_connected
  <2>2. Connecting(events, sock, fd)
    BY <1>0, <2>1 DEF Reading
  <2>3. Local(fd) /\ Account(fd)' /\ Others(c)
    BY <1>0, <1>1, <2>1, <2>2, ConnectedGood, ConnectedAccount
  <2> QED
    BY <1>0, <2>1, <2>3, OwedStep
<1>2. CASE CallsR(fd, "socket_readable", c) /\ socket_readable(c, fd)
  <2>1. /\ pc = "fetch" /\ events[fd].mask # {} /\ events[fd].data = c
        /\ events[fd].rproc = "socket_readable" /\ "R" \in fired[fd]
    BY <1>2 DEF CallsR, FiresR, socket_readable
  <2>2. cur = NoFd /\ fd # NoFd
    BY <1>0, <2>1, WrkThreadAssumption
  <2>3. sock[fd].rx # << >> \/ sock[fd].st = "refused"
    BY <2>1, <2>2 DEF StateInv, Fresh
  <2>4. Local(fd)
    BY <1>0, <1>2, <2>1, <2>3, ReadableGood
  <2>5. Account(fd)' /\ Others(c) /\ cur' = fd /\ (pc' # "parse" => buf' = << >>)
    BY <1>2, <2>1, ReadableAccount
  <2> QED
    BY <2>1, <2>4, <2>5, OwedStep
<1>3. CASE CallsW(fd, "socket_connected", c) /\ socket_connected(c, fd) /\ AfterW(fd)
  <2>1. /\ pc = "file_w" /\ events[fd].mask # {} /\ events[fd].data = c
        /\ events[fd].wproc = "socket_connected" /\ "W" \in events[fd].mask
        /\ pc' = "fetch" /\ buf' = buf
    BY <1>3 DEF CallsW, FiresW, AfterW, socket_connected
  <2>2. Connecting(events, sock, fd)
    BY <1>0, <2>1 DEF Reading
  <2>3. Local(fd) /\ Account(fd)' /\ Others(c)
    BY <1>0, <1>3, <2>1, <2>2, ConnectedGood, ConnectedAccount
  <2> QED
    BY <1>0, <2>1, <2>3, OwedStep
<1>4. CASE CallsW(fd, "socket_writeable", c) /\ socket_writeable(c, fd) /\ AfterW(fd)
  <2>1. /\ pc = "file_w" /\ events[fd].mask # {} /\ events[fd].data = c
        /\ events[fd].wproc = "socket_writeable" /\ "W" \in events[fd].mask
        /\ pc' = "fetch" /\ buf' = buf
    BY <1>4 DEF CallsW, FiresW, AfterW, socket_writeable
  <2>2. Reading(events, fd)
    BY <1>0, <2>1 DEF Connecting
  <2>3. Local(fd) /\ Account(fd)' /\ Others(c)
    BY <1>0, <1>4, <2>1, <2>2, WriteableGood, WriteableAccount
  <2> QED
    BY <1>0, <2>1, <2>3, OwedStep
<1> QED
  BY <1>1, <1>2, <1>3, <1>4 DEF DispatchR, DispatchW

\* Steps that change neither the tables nor what the buffer holds.
LEMMA IdleOwed ==
  ASSUME StateInv, OwedInv, UNCHANGED <<events, conn, sock, buf>>,
         buf = << >> \/ UNCHANGED <<pc, cur>>
  PROVE  OwedInv'
<1>1. ASSUME NEW fd \in Fds PROVE Account(fd)'
  <2>1. Awaited(fd)' = Awaited(fd)
    <3>1. buf = << >> => Answers(buf) = 0
      BY Framed, CountShort
    <3> QED
      BY <3>1 DEF Awaited
  <2>2. Expected(fd)' = Expected(fd) /\ Account(fd)
    BY <2>1 DEF Expected, OwedInv
  <2> QED
    BY <2>2 DEF Account, Owed
<1> QED
  BY <1>1 DEF OwedInv

\* The parser's steps.
LEMMA ReaderOwed ==
  ASSUME Premises, StateInv, OwedInv, TypeOK', NEW c \in Conns,
         Parse(c) \/ ParseError(c) \/ ReadAgain(c) \/ ReadDone(c)
  PROVE  OwedInv'
<1>0. Calm /\ pc = "parse" /\ reader = c /\ (Dispatched(c) \/ Replaced(c))
  BY DEF StateInv, Calm, Loop, Parse, ParseError, ReadAgain, ReadDone
<1>1. Dispatched(c) =>
         /\ cur \in Fds /\ events[cur].mask # {} /\ events[cur].data = c
         /\ events[cur].rproc = "socket_readable" /\ conn[c].fd = cur /\ Registered(c, cur)
  BY DEF Dispatched, Registered
<1>2. CASE Parse(c)
  <2>1. Dispatched(c) /\ UNCHANGED <<pc, cur>>
    BY <1>0, <1>2 DEF Parse, Replaced
  <2>2. Local(cur) /\ Account(cur)' /\ Others(c)
    BY <1>0, <1>2, <2>1, ParseGood, ParseAccount
  <2> QED
    BY <1>0, <1>1, <2>1, <2>2, OwedStep
<1>3. CASE ParseError(c)
  <2>1. Dispatched(c)
    BY <1>0, <1>3 DEF ParseError, Replaced
  <2>2. /\ pc' = "file_w" /\ buf' = << >> /\ UNCHANGED timers
        /\ reconnect_socket(c, events, sock, conn, Raise(errors, "read"))
    BY <1>3 DEF ParseError, AfterR
  <2>3. ~conn[c].delayed /\ conn[c].parser # "body_eof" /\ conn \in ConnTable
    BY DEF StateInv, Undelayed, TypeOK
  <2>4. Local(cur) /\ Quiet(cur) /\ Others(c)
    BY <1>0, <1>1, <2>1, <2>2, <2>3, ReconnectKept DEF Others
  <2>5. pc' # "parse" /\ cur' = cur
    BY <1>3, <2>2 DEF ParseError, AfterR
  <2>6. Account(cur)'
    <3>1. \A fd \in Fds : Quiet(fd) => Account(fd)'
      BY QuietAccount
    <3> QED
      BY <1>1, <2>1, <2>4, <2>5, <3>1
  <2> QED
    BY <1>0, <1>1, <2>1, <2>2, <2>4, <2>5, <2>6, OwedStep
<1>4. CASE ReadAgain(c)
  <2>1. buf = << >> /\ sock_readable(c) /\ socket_readable(c, cur)
    BY <1>4 DEF ReadAgain
  <2>2. ~Replaced(c)
    BY <2>1, SpareUnreadable DEF Replaced
  <2>3. Dispatched(c)
    BY <1>0, <2>2
  <2>4. sock[cur].rx # << >>
    BY <1>1, <2>1, <2>3 DEF sock_readable, SocketOf
  <2>5. Local(cur) /\ cur' = cur
    BY <1>0, <1>1, <2>1, <2>3, <2>4, ReadableGood
  <2>6. Account(cur)' /\ Others(c) /\ (pc' # "parse" => buf' = << >>)
    BY <1>1, <2>1, <2>3, ReadableAccount
  <2> QED
    BY <1>0, <1>1, <2>3, <2>5, <2>6, OwedStep
<1>5. CASE ReadDone(c)
  <2>1. buf = << >> /\ UNCHANGED <<events, conn, sock, buf>>
    BY <1>5 DEF ReadDone
  <2> QED
    BY <2>1, IdleOwed
<1> QED
  BY <1>2, <1>3, <1>4, <1>5

\* thread_main's connects.
LEMMA SetupOwed ==
  ASSUME StateInv, OwedInv, TypeOK', NEW c \in Conns, thread_main(c)
  PROVE  OwedInv'
<1>1. /\ conn[c].fd = NoFd /\ NoFd \notin Fds /\ pc = "setup" /\ buf = << >>
      /\ UNCHANGED <<pc, cur, buf>>
      /\ connect_socket(c, events, sock, conn, errors)
  BY WrkThreadAssumption DEF thread_main, loopVars, StateInv, Setup, OwedInv
<1>2. \A f \in Fds : events[f].mask # {} => events[f].data \in Conns \ {c}
  BY <1>1, RegisteredGood DEF StateInv
<1>3. Spare(sock, conn, c) /\ Alive(Conns \ {c}, events, conn)
  BY <1>1 DEF Spare, StateInv, Alive
<1>4. (\A g \in Fds : Same(events, sock, g) \/ Quiet(g)) /\ Moved(c, conn)
  BY <1>1, <1>2, <1>3, ConnectGood DEF StateInv
<1>5. Others(c)
  <2>1. conn \in ConnTable
    BY DEF StateInv, TypeOK
  <2> QED
    BY <1>4, <2>1 DEF Moved, Others, ConnTable
<1>6. ASSUME NEW g \in Fds PROVE Account(g)'
  <2>1. CASE Quiet(g)
    BY <2>1, QuietAccount
  <2>2. CASE Same(events, sock, g)
    <3>1. Account(g) /\ Expected(g)' = Expected(g)
      BY <1>1, <2>2 DEF OwedInv, Expected, Awaited, Same
    <3>2. events[g].mask # {} => conn'[events[g].data] = conn[events[g].data]
      BY <1>2, <1>5 DEF Others
    <3> QED
      BY <2>2, <3>1, <3>2 DEF Account, Owed, Same
  <2> QED
    BY <1>4, <2>1, <2>2
<1> QED
  BY <1>1, <1>6 DEF OwedInv

\* The environment answers what is due, or less, on one socket.
Less(fd) ==
    /\ EnvUnchanged
    /\ \A f \in Fds \ {fd} : sock'[f] = sock[f]
    /\ sock'[fd].due \in Nat /\ Answers(sock'[fd].rx) \in Nat
    /\ sock'[fd].due + Answers(sock'[fd].rx) <= sock[fd].due + Answers(sock[fd].rx)
    /\ sock'[fd].got \in {0, sock[fd].got}
    /\ \/ sock'[fd].st = "refused" \/ Finished(sock'[fd].rx)
       \/ /\ sock[fd].st # "refused" /\ ~Finished(sock[fd].rx)
          /\ sock'[fd].got = sock[fd].got

LEMMA LessOwed ==
  ASSUME StateInv, OwedInv, NEW fd \in Fds, Less(fd)
  PROVE  OwedInv'
<1>1. /\ UNCHANGED <<pc, cur, buf, events, conn>>
      /\ \A f \in Fds \ {fd} : sock'[f] = sock[f]
  BY DEF Less, EnvUnchanged
<1>2. ASSUME NEW g \in Fds, g # fd PROVE Account(g)'
  <2>1. Account(g) /\ sock'[g] = sock[g]
    BY <1>1, <1>2 DEF OwedInv
  <2>2. Expected(g)' = Expected(g)
    BY <1>1, <2>1 DEF Expected, Awaited
  <2> QED
    BY <1>1, <2>1, <2>2 DEF Account, Owed
<1>3. ASSUME events[fd].mask # {}, events[fd].rproc = "socket_readable"
      PROVE  Owed(fd, conn[events[fd].data])'
  <2> DEFINE d == events[fd].data
             w == conn[d].written
             a == Awaited(fd)
             x == sock[fd].due + Answers(sock[fd].rx)
             y == sock'[fd].due + Answers(sock'[fd].rx)
  <2>1. d \in Conns
    BY <1>3, RegisteredGood DEF StateInv
  <2>2. Owed(fd, conn[d]) /\ w \in 0..(Length - 1) /\ conn[d].pending \in Nat
    BY <1>3, <2>1, AccountOf
  <2>3. a \in Nat /\ x \in Nat /\ Expected(fd) = x + a
    <3>1. sock[fd].due \in Nat /\ Answers(sock[fd].rx) \in Nat /\ Answers(buf) \in Nat
      BY Framed
    <3> QED
      BY <3>1 DEF Expected, Awaited
  <2>4. Expected(fd)' = y + a /\ y \in Nat /\ y <= x
    BY <1>1 DEF Expected, Awaited, Less
  <2>5. Balance(w, conn[d].pending, events[fd].mask, Expected(fd))
    BY <2>2 DEF Owed
  <2> HIDE DEF x, y, a
  <2>6. y + a \in Nat /\ x + a \in Nat /\ y + a <= x + a
    BY <2>3, <2>4
  <2>7. Balance(w, conn[d].pending, events[fd].mask, y + a)
    BY <2>2, <2>3, <2>5, <2>6, BalanceLess
  <2>8. InStep(sock'[fd], w)
    BY <2>2 DEF Owed, InStep, Less
  <2> QED
    BY <1>1, <2>4, <2>7, <2>8 DEF Owed
<1>4. events[fd].mask # {} /\ events[fd].rproc = "socket_connected" => sock'[fd].got = 0
  BY DEF OwedInv, Account, Less
<1>5. Account(fd)'
  BY <1>1, <1>3, <1>4 DEF Account
<1> QED
  BY <1>1, <1>2, <1>5 DEF OwedInv

\* The network and the server.
LEMMA NetworkOwed ==
  ASSUME Premises, StateInv, OwedInv, NEW fd \in Fds,
         \/ Establish(fd) \/ Refuse(fd) \/ ServerFails(fd)
         \/ \E kind \in Kinds : Respond(fd, kind)
  PROVE  OwedInv'
<1> DEFINE rx == sock[fd].rx
<1>1. /\ sock \in SockTable /\ rx \in Seq(Item) /\ Stream(rx) /\ Len(rx) \in Nat
      /\ Answers(rx) = Count(rx) /\ Count(rx) \in Nat /\ sock[fd].due \in Nat
  BY Framed DEF StateInv, TypeOK, Good, Socket
<1>2. CASE Establish(fd) \/ Refuse(fd)
  <2>1. sock[fd].st = "connecting" /\ EnvUnchanged
    BY <1>2 DEF Establish, Refuse
  <2>2. PICK st \in {"up", "refused"} : sock' = [sock EXCEPT ![fd].st = st]
    BY <1>2 DEF Establish, Refuse
  <2>3. /\ sock'[fd].rx = rx /\ sock'[fd].due = sock[fd].due /\ sock'[fd].got = sock[fd].got
        /\ \A f \in Fds \ {fd} : sock'[f] = sock[f]
    BY <1>1, <2>2 DEF SockTable
  <2>4. ~Finished(rx)
    <3>1. rx = << >>
      BY <2>1 DEF StateInv, Good, Socket
    <3> QED
      BY <3>1 DEF Finished
  <2>5. Less(fd)
    BY <1>1, <2>1, <2>3, <2>4 DEF Less
  <2> QED
    BY <2>5, LessOwed
<1>3. CASE ServerFails(fd)
  <2>1. PICK n \in 0..Len(rx), e \in Ends :
           sock' = [sock EXCEPT ![fd].rx = Append(SubSeq(@, 1, n), e),
                                ![fd].due = 0, ![fd].got = 0]
    BY <1>3 DEF ServerFails
  <2> DEFINE b   == SubSeq(rx, 1, n)
             new == Append(b, e)
  <2>2. ~Finished(rx) /\ EnvUnchanged
    BY <1>3 DEF ServerFails
  <2>3. Stream(new) /\ Count(new) <= Count(rx)
    <3> HIDE DEF rx
    <3> QED
      BY <1>1, <2>2, StreamCut, CountCut
  <2>4. new \in Seq(Item) /\ Finished(new)
    <3>1. b \in Seq(Item)
      BY <1>1
    <3> HIDE DEF b
    <3>2. Len(b) \in Nat /\ new \in Seq(Item) /\ new[Len(b) + 1] = e
          /\ DOMAIN new = 1..(Len(b) + 1)
      BY <3>1 DEF Item
    <3> HIDE DEF new
    <3>3. Len(b) + 1 \in 1..(Len(b) + 1)
      BY <3>2
    <3> QED
      BY <3>2, <3>3 DEF Finished
  <2> HIDE DEF b, new
  <2>5. Answers(new) = Count(new) /\ Answers(new) \in Nat
    BY <2>3, <2>4, AnswersIs DEF Stream
  <2>6. /\ sock'[fd].rx = new /\ sock'[fd].due = 0 /\ sock'[fd].got = 0
        /\ \A f \in Fds \ {fd} : sock'[f] = sock[f]
    BY <1>1, <2>1 DEF SockTable, new, b
  <2> HIDE DEF rx
  <2>7. 0 + Count(new) <= sock[fd].due + Count(rx)
    BY <1>1, <2>3, <2>5
  <2>8. Less(fd)
    BY <1>1, <2>2, <2>4, <2>5, <2>6, <2>7 DEF Less, rx
  <2> QED
    BY <2>8, LessOwed
<1>4. CASE \E kind \in Kinds : Respond(fd, kind)
  <2>1. PICK kind \in {"keep", "close"} : Respond(fd, kind)
    BY <1>4 DEF Premises
  <2> DEFINE a   == IF kind = "keep" THEN <<"head", "keep">> ELSE <<"head", kind, "fin">>
             new == rx \o a
             due == IF kind = "keep" THEN sock[fd].due - 1 ELSE 0
             got == IF kind = "keep" THEN sock[fd].got ELSE 0
  <2>2. /\ sock[fd].st = "up" /\ sock[fd].due > 0 /\ ~Finished(rx) /\ EnvUnchanged
        /\ sock' = [sock EXCEPT ![fd].rx = new, ![fd].due = due, ![fd].got = got]
    BY <2>1 DEF Respond
  <2>3. Stream(new) /\ Count(new) = Count(rx) + 1
    <3> HIDE DEF rx
    <3> QED
      BY <1>1, <2>2, StreamAnswer, CountAnswer
  <2>4. a \in Seq(Item) /\ (kind = "close" => Len(a) = 3 /\ a[3] = "fin")
    <3>1. CASE kind = "keep"
      <4>1. <<"head", "keep">> \in Seq(Item)
        BY DEF Item, Data, AllKinds
      <4> QED
        BY <3>1, <4>1
    <3>2. CASE kind = "close"
      <4>1. <<"head", "close", "fin">> \in Seq(Item)
        BY DEF Item, Data, AllKinds, Ends
      <4>2. Len(<<"head", "close", "fin">>) = 3 /\ <<"head", "close", "fin">>[3] = "fin"
        OBVIOUS
      <4> QED
        BY <3>2, <4>1, <4>2
    <3> QED
      BY <3>1, <3>2
  <2>5. new \in Seq(Item) /\ (kind = "close" => Finished(new))
    <3> HIDE DEF a
    <3>1. /\ new \in Seq(Item) /\ Len(new) = Len(rx) + Len(a)
          /\ \A i \in 1..Len(a) : new[Len(rx) + i] = a[i]
      BY <1>1, <2>4
    <3> HIDE DEF new, rx
    <3>2. ASSUME NEW k \in 1..Len(a), a[k] = "fin" PROVE Finished(new)
      <4>1. Len(rx) + k \in 1..Len(new)
        BY <1>1, <2>4, <3>1
      <4>2. new[Len(rx) + k] = "fin"
        BY <3>1, <3>2
      <4>3. DOMAIN new = 1..Len(new)
        BY <3>1
      <4> QED
        BY <4>1, <4>2, <4>3 DEF Finished, Ends
    <3>3. ASSUME kind = "close" PROVE 3 \in 1..Len(a) /\ a[3] = "fin"
      <4>1. Len(a) = 3 /\ a[3] = "fin"
        BY <2>4, <3>3, Zenon
      <4>2. 3 \in 1..3
        OBVIOUS
      <4> QED
        BY <4>1, <4>2, Zenon
    <3> QED
      BY <3>1, <3>2, <3>3
  <2> HIDE DEF a, new
  <2>6. Answers(new) = Count(new) /\ Answers(new) \in Nat
    BY <2>3, <2>5, AnswersIs DEF Stream
  <2> HIDE DEF due, got
  <2>7. /\ sock'[fd].rx = new /\ sock'[fd].due = due /\ sock'[fd].got = got
        /\ sock'[fd].st = sock[fd].st
        /\ \A f \in Fds \ {fd} : sock'[f] = sock[f]
    BY <1>1, <2>2 DEF SockTable
  <2>8. due \in Nat /\ due + Count(new) <= sock[fd].due + Count(rx)
    <3> HIDE DEF rx
    <3> QED
      BY <1>1, <2>2, <2>3 DEF due
  <2>9. got \in {0, sock[fd].got} /\ (kind # "close" => got = sock[fd].got)
    BY DEF got
  <2>10. Less(fd)
    BY <1>1, <2>2, <2>5, <2>6, <2>7, <2>8, <2>9 DEF Less
  <2> QED
    BY <2>10, LessOwed
<1> QED
  BY <1>2, <1>3, <1>4

LEMMA EnvironmentOwed ==
  ASSUME Premises, StateInv, OwedInv, Environment
  PROVE  OwedInv'
<1>1. CASE SetStop
  BY <1>1, IdleOwed DEF SetStop, EnvUnchanged
<1>2. ASSUME NEW fd \in Fds, ForeignOpen(fd) \/ ForeignClose(fd)
      PROVE  FALSE
  <2>1. Socket(sock[fd])
    BY DEF StateInv, Good
  <2> QED
    BY <1>2, <2>1 DEF ForeignOpen, ForeignClose, Premises, Socket
<1> QED
  BY <1>1, <1>2, NetworkOwed DEF Environment

\* Every step.
LEMMA OwedNext ==
  ASSUME Premises, StateInv, OwedInv, TypeOK', [Next]_vars
  PROVE  OwedInv'
<1>0. pc # "parse" => buf = << >>
  BY DEF OwedInv
<1>1. CASE UNCHANGED vars
  BY <1>1, IdleOwed DEF vars
<1>2. CASE Environment
  BY <1>2, EnvironmentOwed
<1>3. ASSUME NEW c \in Conns, thread_main(c) PROVE OwedInv'
  BY <1>3, SetupOwed
<1>4. ASSUME NEW c \in Conns, Parse(c) \/ ParseError(c) \/ ReadAgain(c) \/ ReadDone(c)
      PROVE  OwedInv'
  BY <1>4, ReaderOwed
<1>5. ASSUME NEW c \in Conns, delay_request(c) PROVE OwedInv'
  BY <1>5 DEF delay_request, StateInv, Undelayed
<1>6. ASSUME NEW fd \in Fds, NEW c \in Conns, DispatchR(fd, c) \/ DispatchW(fd, c)
      PROVE  OwedInv'
  BY <1>6, DispatchOwed
<1>7. ASSUME NEW fd \in Fds, SkipR(fd) \/ SkipW(fd) PROVE OwedInv'
  <2>1. UNCHANGED <<events, conn, sock, buf>> /\ pc # "parse"
    BY <1>7 DEF SkipR, SkipW
  <2> QED
    BY <1>0, <2>1, IdleOwed
<1>8. CASE aeMain \/ aeApiPoll \/ FiredDone \/ record_rate \/ EndTime
  <2>1. UNCHANGED <<events, conn, sock, buf>> /\ pc # "parse"
    BY <1>8 DEF aeMain, aeApiPoll, FiredDone, record_rate, EndTime, loopVars
  <2> QED
    BY <1>0, <2>1, IdleOwed
<1> QED
  BY <1>1, <1>2, <1>3, <1>4, <1>5, <1>6, <1>7, <1>8 DEF Next, Thread

\* Initially nothing is registered and nothing was read.
LEMMA OwedInit == ASSUME Init PROVE OwedInv
<1>1. \A fd \in Fds : events[fd].mask = {}
  BY DEF Init, NoEvent
<1> QED
  BY <1>1 DEF Init, OwedInv, Account

\* What is outstanding for a connection is what is expected on its socket.
LEMMA OutstandingIs ==
  ASSUME StateInv, OwedInv, NEW c \in Conns, InUse(c)
  PROVE  /\ Outstanding(c) = Expected(conn[c].fd) /\ Outstanding(c) \in Nat
         /\ Owed(conn[c].fd, conn[c])
<1> DEFINE fd == conn[c].fd
<1>1. /\ fd \in Fds /\ events[fd].mask # {} /\ events[fd].data = c
      /\ events[fd].rproc = "socket_readable"
  BY DEF InUse
<1>2. Owed(fd, conn[c])
  BY <1>1, AccountOf
<1>3. /\ sock[fd].due \in Nat /\ Answers(sock[fd].rx) \in Nat /\ Answers(buf) \in Nat
      /\ Expected(fd) \in Nat /\ (buf = << >> => Answers(buf) = 0)
  BY <1>1, Framed, CountShort
<1>4. conn[c].parser # "body_eof"
  BY DEF StateInv, Undelayed
<1>5. (IF reader = c THEN Answers(buf) ELSE 0) = Awaited(fd)
  <2>1. CASE buf = << >>
    BY <1>3, <2>1 DEF Awaited
  <2>2. CASE buf # << >>
    <3>1. pc = "parse" /\ Registered(reader, cur) /\ reader \in Conns
      BY <2>2 DEF OwedInv, StateInv, Loop, Replaced, Dispatched
    <3>2. reader = c <=> cur = fd
      BY <1>1, <3>1 DEF Registered
    <3> QED
      BY <3>1, <3>2 DEF Awaited
  <2> QED
    BY <2>1, <2>2
<1>6. Outstanding(c) = sock[fd].due + Answers(sock[fd].rx) + Awaited(fd) + 0
  BY <1>4, <1>5 DEF Outstanding
<1>7. Outstanding(c) = Expected(fd)
  <2>1. Expected(fd) = sock[fd].due + Answers(sock[fd].rx) + Awaited(fd)
    BY DEF Expected
  <2>2. Expected(fd) + 0 = Expected(fd)
    BY <1>3
  <2> QED
    BY <1>6, <2>1, <2>2
<1> QED
  BY <1>2, <1>3, <1>7

LEMMA OwedAnswers ==
  ASSUME StateInv, OwedInv PROVE AnswersOwed
<1> SUFFICES ASSUME NEW c \in Conns, InUse(c)
             PROVE  IF conn[c].written = 0 /\ "W" \in events[conn[c].fd].mask
                    THEN Outstanding(c) = 0
                    ELSE Outstanding(c) + Unsent(c) <= conn[c].pending
  BY DEF AnswersOwed
<1>1. Balance(conn[c].written, conn[c].pending, events[conn[c].fd].mask, Outstanding(c))
  BY OutstandingIs DEF Owed
<1>2. Unsent(c) = ToSend(conn[c].written)
  BY DEF Unsent, ToSend
<1> QED
  BY <1>1, <1>2 DEF Balance

LEMMA OwedStarts ==
  ASSUME StateInv, OwedInv PROVE CycleStartsClean
<1> SUFFICES ASSUME NEW c \in Conns, NEW fd \in Fds, CallsW(fd, "socket_writeable", c),
                    conn[c].written = 0, conn[c].fd = fd
             PROVE  Outstanding(c) = 0
  BY DEF CycleStartsClean
<1>1. /\ events[fd].mask # {} /\ "W" \in events[fd].mask /\ events[fd].data = c
      /\ events[fd].wproc = "socket_writeable"
  BY DEF CallsW, FiresW
<1>2. "R" \in events[fd].mask /\ events[fd].rproc = "socket_readable"
  BY <1>1, RegisteredGood DEF StateInv, Connecting, Reading
<1>3. InUse(c)
  BY <1>1, <1>2 DEF InUse
<1>4. Balance(conn[c].written, conn[c].pending, events[fd].mask, Outstanding(c))
  BY <1>3, OutstandingIs DEF Owed
<1> QED
  BY <1>1, <1>4 DEF Balance

\* The accounting of a request cycle, socket_writeable and response_complete of
\* wrk.c: the answers on their way to a connection never outnumber c->pending,
\* so that --c->pending reaches 0 and never wraps below it, and the connection
\* is only watched for writing a new cycle when the last one has no answer left
\* anywhere (owed by the server, in the socket, in the buffer of the parser);
\* whatever the pipeline, the partial writes and reads, and the failures.
THEOREM AnswersNeverOutnumberPending ==
  ASSUME Premises, IsFiniteSet(Fds)
  PROVE  Spec => []AnswersOwed
<1>1. Init => FaultInv /\ OwedInv
  BY FaultInit, OwedInit
<1>2. FaultInv /\ OwedInv /\ TypeOK' /\ [Next]_vars => FaultInv' /\ OwedInv'
  <2>1. FaultInv => StateInv
    BY DEF FaultInv
  <2> QED
    BY <2>1, FaultNext, OwedNext
<1>3. FaultInv /\ OwedInv => AnswersOwed
  BY OwedAnswers DEF FaultInv
<1>4. Spec => []TypeOK
  BY ThreadTypeCorrect
<1> QED
  BY <1>1, <1>2, <1>3, <1>4, PTL DEF Spec

\* Under the same premises a request cycle starts clean ("a call to request()
\* and response() for each request cycle", SCRIPTING): when socket_writeable
\* begins to send, every answer to the last cycle has been parsed.
THEOREM CyclesStartClean ==
  ASSUME Premises, IsFiniteSet(Fds)
  PROVE  Spec => []CycleStartsClean
<1>1. Init => FaultInv /\ OwedInv
  BY FaultInit, OwedInit
<1>2. FaultInv /\ OwedInv /\ TypeOK' /\ [Next]_vars => FaultInv' /\ OwedInv'
  <2>1. FaultInv => StateInv
    BY DEF FaultInv
  <2> QED
    BY <2>1, FaultNext, OwedNext
<1>3. FaultInv /\ OwedInv => CycleStartsClean
  BY OwedStarts DEF FaultInv
<1>4. Spec => []TypeOK
  BY ThreadTypeCorrect
<1> QED
  BY <1>1, <1>2, <1>3, <1>4, PTL DEF Spec

-----------------------------------------------------------------------------
(***************************************************************************)
(* Responses are whole.  Without failures, but with delay() or not, with   *)
(* TLS or not and with numbers shared with other threads, the script sees  *)
(* each response with its own headers.  (A response that is cut off leaves *)
(* its headers to the next one, see the run stale_headers.)                *)
(***************************************************************************)
Faultless ==
    /\ ~ConnectMayFail /\ MaxFaults = 0
    /\ Registrable = Fds
    /\ Kinds \subseteq {"keep", "close"}

\* What may follow an item in a stream of whole responses, and "nothing" the
\* last.  last is the item before the first.
Follows == {<<"head", "keep">>, <<"head", "close">>, <<"keep", "head">>,
            <<"keep", "nothing">>, <<"close", "fin">>, <<"fin", "nothing">>}
At(last, s, i) == IF i = 0 THEN last ELSE IF i <= Len(s) THEN s[i] ELSE "nothing"
Whole(last, s) == \A i \in 0..Len(s) : <<At(last, s, i), At(last, s, i + 1)>> \in Follows

\* The parser has taken the head of a response and not its end, or neither.
Last(parser) == IF parser = "head" THEN "head" ELSE "keep"

\* What the parser has still to be given of descriptor fd.
Coming(fd) == IF pc = "parse" /\ cur = fd THEN buf \o sock[fd].rx ELSE sock[fd].rx

\* A registered descriptor goes on where the parser of its connection is, which
\* is between two responses until the connection is there.
Sound(e, parser, st, s) ==
    /\ Whole(Last(parser), s)
    /\ st # "refused"
    /\ \/ e.rproc = "socket_connected" /\ parser # "head"
       \/ /\ e.rproc = "socket_readable" /\ parser \notin {"dead", "body_eof"}
          /\ "W" \in e.mask => e.wproc = "socket_writeable"
Intact(fd) ==
    events[fd].mask # {} =>
       Sound(events[fd], conn[events[fd].data].parser, sock[fd].st, Coming(fd))

\* Headers are kept from the head of a response to its end only.
Told(c) == /\ conn[c].hdrs <= 1
           /\ conn[c].parser # "head" => conn[c].hdrs = 0
           /\ conn[c].fd \notin Fds => conn[c].parser # "head"

\* The connection whose socket_readable runs reads the descriptor that is
\* dispatched, or has a new one on which nothing was sent.
Reads(c) ==
    /\ conn[c].fd \in Fds
    /\ \/ conn[c].fd = cur /\ events[cur].rproc = "socket_readable"
       \/ buf = << >> /\ sock[conn[c].fd].rx = << >> /\ sock[conn[c].fd].due = 0

Parsing == IF pc = "parse" THEN reader \in Conns /\ Reads(reader) ELSE buf = << >>

WholeInv ==
    /\ \A fd \in Fds : Intact(fd)
    /\ \A c \in Conns : Told(c)
    /\ \A i \in DOMAIN buf : buf[i] \in {"head", "keep", "close"}
    /\ Parsing

Steady == Faultless /\ OwnershipInv /\ WholeInv /\ OwnershipInv'

\* Streams of whole responses: taking an item, the end, one more response.
LEMMA WholeTail ==
  ASSUME NEW S, NEW s \in Seq(S), s # << >>, NEW last, Whole(last, s)
  PROVE  <<last, Head(s)>> \in Follows /\ Whole(Head(s), Tail(s))
<1> DEFINE t == Tail(s)
           n == Len(s)
<1>1. /\ n \in Nat /\ n >= 1 /\ Len(t) = n - 1 /\ Head(s) = s[1]
      /\ \A i \in 1..(n - 1) : t[i] = s[i + 1]
  BY HeadTailProperties, LenProperties, EmptySeq
<1> HIDE DEF t, n
<1>2. ASSUME NEW i \in 0..n
      PROVE  At(Head(s), t, i) = At(last, s, i + 1)
  <2>1. CASE i = 0
    BY <1>1, <2>1 DEF At, n
  <2>2. CASE i \in 1..(n - 1)
    BY <1>1, <2>2 DEF At, n
  <2>3. CASE i = n
    BY <1>1, <2>3 DEF At, n
  <2> QED
    BY <1>1, <2>1, <2>2, <2>3
<1>3. <<last, Head(s)>> \in Follows
  <2>1. <<At(last, s, 0), At(last, s, 0 + 1)>> \in Follows
    BY <1>1 DEF Whole, n
  <2>2. At(last, s, 0) = last /\ At(last, s, 0 + 1) = Head(s)
    BY <1>1 DEF At, n
  <2> QED
    BY <2>1, <2>2
<1>4. ASSUME NEW i \in 0..(n - 1)
      PROVE  <<At(Head(s), t, i), At(Head(s), t, i + 1)>> \in Follows
  <2>1. i \in 0..n /\ i + 1 \in 0..n
    BY <1>1
  <2>2. <<At(last, s, i + 1), At(last, s, (i + 1) + 1)>> \in Follows
    BY <2>1 DEF Whole, n
  <2> QED
    BY <1>2, <2>1, <2>2
<1>5. Whole(Head(s), t)
  BY <1>1, <1>4 DEF Whole
<1> QED
  BY <1>3, <1>5 DEF t

\* A stream ends behind the end of a response that keeps the connection, or
\* with the end of the connection.
LEMMA WholeEnd ==
  ASSUME NEW S, NEW s \in Seq(S), NEW last \in {"head", "keep"}, Whole(last, s),
         \A i \in DOMAIN s : s[i] # "fin"
  PROVE  At(last, s, Len(s)) = "keep"
<1>1. Len(s) \in Nat /\ DOMAIN s = 1..Len(s)
  BY LenProperties
<1>2. <<At(last, s, Len(s)), At(last, s, Len(s) + 1)>> \in Follows
  BY <1>1 DEF Whole
<1>3. At(last, s, Len(s) + 1) = "nothing"
  BY <1>1 DEF At
<1>4. At(last, s, Len(s)) # "fin"
  BY <1>1 DEF At
<1> QED
  BY <1>2, <1>3, <1>4 DEF Follows

LEMMA WholeParts ==
  ASSUME NEW S, NEW s \in Seq(S), NEW t \in Seq(S), NEW last, Whole(last, s),
         At(last, s, Len(s)) = "keep", Whole("keep", t)
  PROVE  Whole(last, s \o t)
<1> DEFINE u == s \o t
           m == Len(s)
           n == Len(t)
<1>1. /\ m \in Nat /\ n \in Nat /\ Len(u) = m + n
      /\ \A i \in 1..(m + n) : u[i] = IF i <= m THEN s[i] ELSE t[i - m]
  BY ConcatProperties, LenProperties
<1> HIDE DEF u, m, n
<1>2. ASSUME NEW i \in 0..m
      PROVE  At(last, u, i) = At(last, s, i)
  BY <1>1 DEF At, m
<1>3. ASSUME NEW i \in 0..(n + 1)
      PROVE  At(last, u, m + i) = At("keep", t, i)
  <2>1. CASE i = 0
    <3>1. At(last, u, m) = "keep"
      BY <1>1, <1>2 DEF m
    <3> QED
      BY <1>1, <2>1, <3>1 DEF At
  <2>2. CASE i \in 1..n
    <3>1. m + i \in 1..(m + n) /\ ~(m + i <= m) /\ (m + i) - m = i
      BY <1>1, <2>2
    <3>2. u[m + i] = t[i]
      BY <1>1, <3>1
    <3> QED
      BY <1>1, <2>2, <3>1, <3>2 DEF At, n
  <2>3. CASE i = n + 1
    BY <1>1, <2>3 DEF At, n
  <2> QED
    BY <1>1, <2>1, <2>2, <2>3
<1>4. ASSUME NEW i \in 0..(m + n)
      PROVE  <<At(last, u, i), At(last, u, i + 1)>> \in Follows
  <2>1. CASE i < m
    <3>1. i \in 0..m /\ i + 1 \in 0..m
      BY <1>1, <2>1
    <3> QED
      BY <1>2, <3>1 DEF Whole, m
  <2>2. CASE ~(i < m)
    <3> DEFINE j == i - m
    <3>1. j \in 0..n /\ j \in 0..(n + 1) /\ j + 1 \in 0..(n + 1)
          /\ m + j = i /\ m + (j + 1) = i + 1
      BY <1>1, <2>2
    <3> HIDE DEF j
    <3>2. At(last, u, i) = At("keep", t, j) /\ At(last, u, i + 1) = At("keep", t, j + 1)
      BY <1>3, <3>1
    <3> QED
      BY <3>1, <3>2 DEF Whole, n
  <2> QED
    BY <2>1, <2>2
<1>5. Whole(last, u)
  BY <1>1, <1>4 DEF Whole
<1> QED
  BY <1>5 DEF u

LEMMA WholeShort ==
  /\ Whole("keep", << >>)
  /\ Whole("keep", <<"head", "keep">>) /\ Whole("keep", <<"head", "close", "fin">>)
<1>1. Whole("keep", << >>)
  BY DEF Whole, At, Follows
<1>2. Whole("keep", <<"head", "keep">>)
  BY DEF Whole, At, Follows
<1>3. Whole("keep", <<"head", "close", "fin">>)
  BY DEF Whole, At, Follows
<1> QED
  BY <1>1, <1>2, <1>3

\* The items of a stream of whole responses.
LEMMA WholeItems ==
  ASSUME NEW S, NEW s \in Seq(S), NEW last, Whole(last, s), NEW i \in DOMAIN s
  PROVE  /\ s[i] \in {"head", "keep", "close", "fin"}
         /\ s[i] = "close" => i + 1 \in DOMAIN s /\ s[i + 1] = "fin"
<1>1. Len(s) \in Nat /\ DOMAIN s = 1..Len(s)
  BY LenProperties
<1>2. /\ i \in 0..Len(s) /\ i # 0 /\ i <= Len(s) /\ i + 1 \in Nat /\ i + 1 # 0
      /\ i + 1 <= Len(s) => i + 1 \in DOMAIN s
  BY <1>1
<1>3. <<s[i], At(last, s, i + 1)>> \in Follows
  BY <1>2 DEF Whole, At
<1>4. At(last, s, i + 1) = IF i + 1 <= Len(s) THEN s[i + 1] ELSE "nothing"
  BY <1>2 DEF At
<1> QED
  BY <1>2, <1>3, <1>4 DEF Follows

-----------------------------------------------------------------------------
(* What ownership says of a descriptor, now and after a step. *)
LEMMA AttendedIs ==
  ASSUME Registrable = Fds, OwnershipInv, NEW fd \in Fds, events[fd].mask # {}
  PROVE  /\ events[fd].data \in Conns /\ Attended(events[fd].data, fd)
         /\ sock[fd].rx \in Seq(Item)
         /\ conn[events[fd].data].parser \in {"start", "head", "body_eof", "dead"}
<1>1. events \in EventTable /\ sock \in SockTable /\ conn \in ConnTable
  BY DEF OwnershipInv, Owned, OwnedBy, Tables
<1>2. /\ events[fd].data \in Conns /\ conn[events[fd].data].fd = fd
      /\ "R" \in events[fd].mask /\ sock[fd].st \in Live /\ sock[fd].ep = events[fd].mask
  BY DEF OwnershipInv, Owned, OwnedBy, EventsOwned, Synced
<1> QED
  BY <1>1, <1>2 DEF Attended, SockTable, ConnTable

LEMMA OwnerIs ==
  ASSUME Registrable = Fds, OwnershipInv, NEW c \in Conns, conn[c].fd \in Fds
  PROVE  Attended(c, conn[c].fd) /\ events[conn[c].fd].mask # {}
<1>1. events[conn[c].fd].mask # {} /\ events[conn[c].fd].data = c
  BY DEF OwnershipInv, Owned, OwnedBy, FdsOwned
<1> QED
  BY <1>1, AttendedIs

LEMMA ComingIs ==
  ASSUME TypeOK, NEW fd \in Fds
  PROVE  /\ buf = << >> => Coming(fd) = sock[fd].rx
         /\ ~(pc = "parse" /\ cur = fd) => Coming(fd) = sock[fd].rx
<1>1. sock[fd].rx \in Seq(Item)
  BY DEF TypeOK, SockTable
<1>2. << >> \o sock[fd].rx = sock[fd].rx
  BY <1>1, ConcatEmptySeq
<1> QED
  BY <1>2 DEF Coming

\* A step that goes on with a descriptor.
Undisturbed(fd) ==
    /\ events[fd].mask # {}
    /\ events'[fd].data = events[fd].data /\ events'[fd].rproc = events[fd].rproc
    /\ "W" \in events'[fd].mask =>
          \/ "W" \in events[fd].mask /\ events'[fd].wproc = events[fd].wproc
          \/ events'[fd].wproc = "socket_writeable"
    /\ sock'[fd].st = "refused" => sock[fd].st = "refused"
    /\ Coming(fd)' = Coming(fd)
    /\ conn'[events[fd].data].parser = conn[events[fd].data].parser

LEMMA StaysIntact ==
  ASSUME NEW fd \in Fds, Intact(fd), events'[fd].mask # {} => Undisturbed(fd)
  PROVE  Intact(fd)'
  BY DEF Intact, Undisturbed, Sound

\* A step that leaves what is kept of the connections and reads nothing.
SameFields(c) ==
    /\ conn'[c].parser = conn[c].parser /\ conn'[c].hdrs = conn[c].hdrs
    /\ conn'[c].fd = conn[c].fd

LEMMA IdleWhole ==
  ASSUME Steady, \A c \in Conns : SameFields(c), pc' # "parse", buf = << >>, buf' = << >>,
         \A fd \in Fds :
            /\ events'[fd].mask # {} => events[fd].mask # {}
            /\ events'[fd].data = events[fd].data /\ events'[fd].rproc = events[fd].rproc
            /\ "W" \in events'[fd].mask =>
                  \/ "W" \in events[fd].mask /\ events'[fd].wproc = events[fd].wproc
                  \/ events'[fd].wproc = "socket_writeable"
            /\ sock'[fd].st = sock[fd].st /\ sock'[fd].rx = sock[fd].rx
  PROVE  WholeInv'
<1>1. TypeOK /\ TypeOK' /\ Registrable = Fds
  BY DEF Steady, OwnershipInv, Faultless
<1>2. ASSUME NEW fd \in Fds
      PROVE  Intact(fd)'
  <2>1. Coming(fd)' = Coming(fd)
    <3>1. Coming(fd) = sock[fd].rx
      BY <1>1, ComingIs
    <3>2. Coming(fd)' = sock'[fd].rx
      BY DEF Coming
    <3> QED
      BY <3>1, <3>2
  <2>2. ASSUME events[fd].mask # {}
        PROVE  conn'[events[fd].data].parser = conn[events[fd].data].parser
    BY <1>1, <2>2, AttendedIs DEF SameFields, Steady
  <2>3. Intact(fd) /\ (events'[fd].mask # {} => Undisturbed(fd))
    BY <2>1, <2>2 DEF Undisturbed, Steady, WholeInv
  <2> QED
    BY <2>3, StaysIntact
<1>3. \A c \in Conns : Told(c)'
  BY DEF Told, SameFields, Steady, WholeInv
<1>4. \A i \in DOMAIN buf' : buf'[i] \in {"head", "keep", "close"}
  OBVIOUS
<1>5. Parsing'
  BY DEF Parsing
<1> QED
  BY <1>2, <1>3, <1>4, <1>5 DEF WholeInv

\* connect_socket, which succeeds: the connection has a new descriptor, and what
\* else is registered is as it was.
NewAt(f) == /\ f \in Fds /\ events'[f].rproc = "socket_connected"
            /\ sock'[f].st = "connecting" /\ sock'[f].rx = << >> /\ sock'[f].due = 0

SameAt(g) == events'[g] = events[g] /\ sock'[g].rx = sock[g].rx /\ sock'[g].st = sock[g].st

Renewed(c, cn) ==
    \E f \in Fds : /\ NewAt(f) /\ conn' = [cn EXCEPT ![c].fd = f]
                   /\ \A g \in Fds \ {f} : events'[g].mask # {} => SameAt(g)

LEMMA ConnectRenews ==
  ASSUME Faultless, TypeOK, NEW c \in Conns,
         NEW ev \in EventTable, NEW sk \in SockTable, NEW cn \in ConnTable, NEW er,
         \A g \in Fds : ev[g].mask # {} => ev[g] = events[g] /\ sk[g] = sock[g],
         connect_socket(c, ev, sk, cn, er)
  PROVE  Renewed(c, cn)
<1>1. ~ConnectError(c, ev, sk, cn, er)
  <2>1. faults \in 0..0
    BY DEF Faultless, TypeOK
  <2> QED
    BY <2>1 DEF ConnectError
<1>2. PICK f \in Free(sk) :
        /\ events' = AddEvent(ev, f, Mask, "socket_connected", c)
        /\ sock'   = AddInterest(ev, [sk EXCEPT ![f] = [FreeSock EXCEPT !.st = "connecting"]],
                                 f, Mask)
        /\ conn'   = [cn EXCEPT ![c].fd = f]
  BY <1>1 DEF connect_socket, ConnectOk
<1>3. f \in Fds
  BY DEF Free
<1>4. events'[f].rproc = "socket_connected" /\ \A g \in Fds \ {f} : events'[g] = ev[g]
  BY <1>2, <1>3 DEF AddEvent, EventTable, Mask
<1>5. /\ sock'[f].st = "connecting" /\ sock'[f].rx = << >> /\ sock'[f].due = 0
      /\ \A g \in Fds \ {f} : sock'[g] = sk[g]
  <2> DEFINE new == [FreeSock EXCEPT !.st = "connecting"]
             open == [sk EXCEPT ![f] = new]
  <2>1. new.st = "connecting" /\ new.rx = << >> /\ new.due = 0
    BY DEF FreeSock
  <2>2. new \in SockRecord
    BY FreeSockType DEF FreeSock, SockRecord, Live
  <2> HIDE DEF new
  <2>3. open[f] = new /\ (\A g \in Fds \ {f} : open[g] = sk[g]) /\ open \in SockTable
    BY <1>3, <2>2 DEF SockTable, SockRecord
  <2>4. sock' = [open EXCEPT ![f].ep = ev[f].mask \cup Mask]
    BY <1>2 DEF AddInterest, new
  <2> HIDE DEF open
  <2> QED
    BY <1>3, <2>1, <2>3, <2>4 DEF SockTable
<1>6. NewAt(f)
  BY <1>3, <1>4, <1>5 DEF NewAt
<1>7. ASSUME NEW g \in Fds \ {f}, events'[g].mask # {} PROVE SameAt(g)
  BY <1>4, <1>5, <1>7 DEF SameAt
<1> QED
  BY <1>2, <1>3, <1>6, <1>7 DEF Renewed

LEMMA ReconnectRenews ==
  ASSUME Faultless, TypeOK, NEW c \in Conns, NEW fd \in Fds,
         NEW ev \in EventTable, NEW sk \in SockTable, NEW cn \in ConnTable, NEW er,
         \A g \in Fds \ {fd} : ev[g] = events[g] /\ sk[g] = sock[g],
         cn[c].fd = fd, reconnect_socket(c, ev, sk, cn, er)
  PROVE  Renewed(c, cn)
<1> DEFINE del == aeDeleteFileEvent(ev, sk, fd, Mask)
           sk2 == CloseFd(del.sk, fd)
<1>1. connect_socket(c, del.ev, sk2, cn, er)
  BY DEF reconnect_socket
<1>2. del.ev \in EventTable /\ sk2 \in SockTable
  BY DeleteType, CloseType
<1>3. fd \in Registrable
  BY DEF Faultless
<1>4. del.ev[fd].mask = {} /\ \A g \in Fds \ {fd} : del.ev[g] = ev[g]
  <2>1. ev[fd].mask \subseteq Mask
    BY DEF EventTable
  <2>2. CASE ev[fd].mask # {}
    BY <1>3, <2>1, <2>2 DEF aeDeleteFileEvent, EventTable
  <2>3. CASE ev[fd].mask = {}
    BY <2>3 DEF aeDeleteFileEvent
  <2> QED
    BY <2>2, <2>3
<1>5. \A g \in Fds \ {fd} : sk2[g] = sk[g]
  BY DEF aeDeleteFileEvent, CloseFd, SockTable
<1> HIDE DEF del, sk2
<1>6. \A g \in Fds : del.ev[g].mask # {} => del.ev[g] = events[g] /\ sk2[g] = sock[g]
  BY <1>4, <1>5
<1> QED
  BY <1>1, <1>2, <1>6, ConnectRenews

\* A connection that is renewed between two responses, with nothing left to parse.
LEMMA RenewedWhole ==
  ASSUME Steady, NEW c \in Conns, NEW cn \in ConnTable, Renewed(c, cn),
         cn[c].hdrs = 0, cn[c].parser # "head", \A d \in Conns \ {c} : cn[d] = conn[d],
         buf' = << >>, pc' = "parse" => reader' = c,
         buf = << >> \/ (conn[c].fd \in Fds /\ cur = conn[c].fd)
  PROVE  WholeInv'
<1>1. /\ TypeOK /\ TypeOK' /\ Registrable = Fds /\ OwnershipInv /\ OwnershipInv'
      /\ \A d \in Conns : Told(d) /\ \A g \in Fds : Intact(g)
  BY DEF Steady, OwnershipInv, Faultless, WholeInv
<1>2. PICK f \in Fds : /\ NewAt(f) /\ conn' = [cn EXCEPT ![c].fd = f]
                       /\ \A g \in Fds \ {f} : events'[g].mask # {} => SameAt(g)
  BY DEF Renewed
<1>3. /\ conn'[c].fd = f /\ conn'[c].hdrs = 0 /\ conn'[c].parser # "head"
      /\ \A d \in Conns \ {c} : conn'[d] = conn[d]
  BY <1>2 DEF ConnTable
<1>4. \A g \in Fds : events'[g].mask # {} =>
         events'[g].data \in Conns /\ conn'[events'[g].data].fd = g
  BY <1>1 DEF OwnershipInv, Owned, OwnedBy, EventsOwned
<1>5. events'[f].mask # {} /\ events'[f].data = c
  BY <1>1, <1>3 DEF OwnershipInv, Owned, OwnedBy, FdsOwned
<1>6. \A g \in Fds : Coming(g)' = sock'[g].rx
  <2> SUFFICES ASSUME NEW g \in Fds PROVE Coming(g)' = sock'[g].rx
    OBVIOUS
  <2>1. sock'[g].rx \in Seq(Item)
    BY <1>1 DEF TypeOK, SockTable
  <2>2. << >> \o sock'[g].rx = sock'[g].rx
    BY <2>1, ConcatEmptySeq
  <2> QED
    BY <2>2 DEF Coming
<1>7. Intact(f)'
  <2>1. Coming(f)' = << >>
    BY <1>2, <1>6 DEF NewAt
  <2>2. Whole(Last(conn'[c].parser), << >>)
    BY <1>3, WholeShort DEF Last
  <2> QED
    BY <1>2, <1>3, <1>5, <2>1, <2>2 DEF Intact, Sound, NewAt
<1>8. ASSUME NEW g \in Fds, g # f
      PROVE  Intact(g)'
  <2>1. ASSUME events'[g].mask # {} PROVE Undisturbed(g)
    <3>1. SameAt(g)
      BY <1>2, <1>8, <2>1
    <3> DEFINE d == events[g].data
    <3>2. events[g].mask # {} /\ d \in Conns /\ conn'[d].fd = g /\ d # c
      BY <1>3, <1>4, <1>8, <2>1, <3>1 DEF SameAt
    <3>3. conn'[d] = conn[d] /\ conn[c].fd # g
      <4>1. conn'[d] = conn[d]
        BY <1>3, <3>2
      <4>2. conn[c].fd = g => events[g].data = c
        BY <1>1 DEF OwnershipInv, Owned, OwnedBy, FdsOwned
      <4> QED
        BY <3>2, <4>1, <4>2
    <3>4. Coming(g) = sock[g].rx
      BY <1>1, <3>3, ComingIs
    <3> QED
      BY <1>6, <3>1, <3>2, <3>3, <3>4 DEF Undisturbed, SameAt
  <2> QED
    BY <1>1, <2>1, StaysIntact
<1>9. \A d \in Conns : Told(d)'
  BY <1>1, <1>2, <1>3 DEF Told
<1>10. Parsing'
  BY <1>2, <1>3 DEF Parsing, Reads, NewAt
<1> QED
  BY <1>7, <1>8, <1>9, <1>10 DEF WholeInv

\* A handler that changes the descriptor and the connection it is called for.
LEMMA OneWhole ==
  ASSUME Steady, NEW fd \in Fds, NEW c \in Conns, Attended(c, fd),
         \A g \in Fds \ {fd} : SameAt(g), \A d \in Conns \ {c} : conn'[d] = conn[d],
         buf = << >> \/ cur = fd, buf' = << >> \/ cur' = fd,
         Intact(fd)', Told(c)', Parsing',
         \A i \in DOMAIN buf' : buf'[i] \in {"head", "keep", "close"}
  PROVE  WholeInv'
<1>1. /\ TypeOK /\ TypeOK' /\ Registrable = Fds /\ OwnershipInv
      /\ \A d \in Conns : Told(d) /\ \A g \in Fds : Intact(g)
  BY DEF Steady, OwnershipInv, Faultless, WholeInv
<1>2. ASSUME NEW g \in Fds, g # fd
      PROVE  Intact(g)'
  <2>1. ASSUME events'[g].mask # {} PROVE Undisturbed(g)
    <3>1. SameAt(g)
      BY <1>2
    <3>2. Coming(g) = sock[g].rx
      BY <1>1, <1>2, ComingIs
    <3>3. Coming(g)' = sock'[g].rx
      <4>1. sock'[g].rx \in Seq(Item)
        BY <1>1 DEF TypeOK, SockTable
      <4>2. << >> \o sock'[g].rx = sock'[g].rx
        BY <4>1, ConcatEmptySeq
      <4> QED
        BY <1>2, <4>2 DEF Coming
    <3>4. events[g].data \in Conns /\ conn[events[g].data].fd = g
      BY <1>1, <2>1, <3>1, AttendedIs DEF SameAt, Attended
    <3>5. events[g].data # c
      BY <1>2, <3>4 DEF Attended
    <3> QED
      BY <2>1, <3>1, <3>2, <3>3, <3>4, <3>5 DEF Undisturbed, SameAt
  <2> QED
    BY <1>1, <2>1, StaysIntact
<1>3. \A d \in Conns : Told(d)'
  BY <1>1 DEF Told
<1> QED
  BY <1>2, <1>3 DEF WholeInv

\* What a descriptor in use is like before it is read or written.
LEMMA InUseSound ==
  ASSUME Steady, NEW fd \in Fds, NEW c \in Conns, Attended(c, fd)
  PROVE  /\ Sound(events[fd], conn[c].parser, sock[fd].st, Coming(fd)) /\ Told(c)
         /\ SocketOf(c) = sock[fd] /\ conn[c].fd = fd
         /\ sock[fd].st \in {"connecting", "up"}
         /\ buf = << >> => Coming(fd) = sock[fd].rx
         /\ \A i \in DOMAIN sock[fd].rx : sock[fd].rx[i] # "rst"
         /\ sock[fd].rx \in Seq(Item)
<1>1. /\ conn[c].fd = fd /\ events[fd].mask # {} /\ events[fd].data = c /\ sock[fd].st \in Live
      /\ sock \in SockTable
  BY DEF Attended
<1>2. Sound(events[fd], conn[c].parser, sock[fd].st, Coming(fd)) /\ Told(c)
  BY <1>1 DEF Steady, WholeInv, Intact
<1>3. sock[fd].st \in {"connecting", "up"}
  BY <1>1, <1>2 DEF Sound, Live
<1>4. sock[fd].rx \in Seq(Item) /\ buf \in Seq(Item \cup {"notfinal"}) /\ TypeOK
  BY <1>1 DEF SockTable, TypeOK, Steady, OwnershipInv
<1>5. \A i \in DOMAIN sock[fd].rx : sock[fd].rx[i] # "rst"
  <2> DEFINE T == Item \cup {"notfinal"}
             rx == sock[fd].rx
             l == Last(conn[c].parser)
  <2>1. rx \in Seq(T) /\ buf \in Seq(T)
    BY <1>4
  <2>2. Whole(l, Coming(fd))
    BY <1>2 DEF Sound
  <2> SUFFICES \A i \in DOMAIN rx : rx[i] # "rst"
    OBVIOUS
  <2> HIDE DEF T, rx, l
  <2>3. CASE Coming(fd) = rx
    BY <2>1, <2>2, <2>3, WholeItems
  <2>4. CASE Coming(fd) = buf \o rx
    <3> DEFINE s == buf \o rx
               m == Len(buf)
               n == Len(rx)
    <3>1. /\ s \in Seq(T) /\ m \in Nat /\ n \in Nat /\ Len(s) = m + n
          /\ \A j \in 1..(m + n) : s[j] = IF j <= m THEN buf[j] ELSE rx[j - m]
      BY <2>1, ConcatProperties, LenProperties
    <3>2. DOMAIN rx = 1..n /\ DOMAIN s = 1..Len(s)
      BY <2>1, <3>1
    <3> HIDE DEF s, m, n
    <3>3. ASSUME NEW i \in 1..n PROVE rx[i] # "rst"
      <4>1. m + i \in 1..(m + n) /\ ~(m + i <= m) /\ (m + i) - m = i
        BY <3>1
      <4>2. s[m + i] = rx[i]
        BY <3>1, <4>1
      <4>3. s[m + i] \in {"head", "keep", "close", "fin"}
        <5>1. Whole(l, s)
          BY <2>2, <2>4 DEF s
        <5>2. m + i \in DOMAIN s
          BY <3>1, <3>2, <4>1
        <5> QED
          BY <3>1, <5>1, <5>2, WholeItems
      <4> QED
        BY <4>2, <4>3
    <3> QED
      BY <3>2, <3>3
  <2>5. Coming(fd) = rx \/ Coming(fd) = buf \o rx
    BY DEF Coming, rx
  <2> QED
    BY <2>3, <2>4, <2>5
<1> QED
  BY <1>1, <1>2, <1>3, <1>4, <1>5, ComingIs DEF SocketOf

\* socket_connected.
LEMMA ConnectedWhole ==
  ASSUME Steady, NEW fd \in Fds, NEW c \in Conns, Attended(c, fd),
         conn[c].parser # "head", buf = << >>, buf' = << >>, pc' # "parse",
         socket_connected(c, fd)
  PROVE  WholeInv'
<1>1. /\ TypeOK /\ Faultless /\ conn[c].fd = fd /\ conn[c].hdrs = 0
      /\ events \in EventTable /\ sock \in SockTable /\ conn \in ConnTable
      /\ events[fd].mask # {}
  BY InUseSound DEF Steady, OwnershipInv, Attended, Told
<1>2. CASE ConnectedOk(c, fd)
  <2>1. Opened(c, fd)
    BY <1>2, ConnectedTables
  <2>2. conn' = [conn EXCEPT ![c].parser = "start", ![c].written = 0]
    BY <1>2 DEF ConnectedOk
  <2>3. /\ conn'[c].parser = "start" /\ conn'[c].hdrs = 0 /\ conn'[c].fd = fd
        /\ \A d \in Conns \ {c} : conn'[d] = conn[d]
    BY <1>1, <2>2 DEF ConnTable
  <2>4. \A g \in Fds \ {fd} : SameAt(g)
    BY <2>1 DEF Opened, SameAt
  <2>5. Coming(fd)' = Coming(fd)
    <3>1. Coming(fd)' = sock'[fd].rx /\ sock'[fd].rx = sock[fd].rx
      BY <2>1 DEF Coming, Opened
    <3> QED
      BY <3>1, InUseSound
  <2>6. Intact(fd)'
    <3>1. Whole("keep", Coming(fd)) /\ sock[fd].st # "refused"
      BY InUseSound DEF Sound, Last
    <3> QED
      BY <2>1, <2>3, <2>5, <3>1 DEF Intact, Sound, Last, Opened
  <2>7. Told(c)'
    BY <2>3 DEF Told
  <2>8. Parsing' /\ \A i \in DOMAIN buf' : buf'[i] \in {"head", "keep", "close"}
    BY DEF Parsing
  <2> QED
    BY <2>3, <2>4, <2>6, <2>7, <2>8, OneWhole
<1>3. CASE ConnectedRetry(c)
  <2>1. UNCHANGED <<events, sock, conn>>
    BY <1>3 DEF ConnectedRetry
  <2>2. \A d \in Conns : SameFields(d)
    BY <2>1 DEF SameFields
  <2>3. \A g \in Fds :
           /\ events'[g].mask # {} => events[g].mask # {}
           /\ events'[g].data = events[g].data /\ events'[g].rproc = events[g].rproc
           /\ "W" \in events'[g].mask =>
                 \/ "W" \in events[g].mask /\ events'[g].wproc = events[g].wproc
                 \/ events'[g].wproc = "socket_writeable"
           /\ sock'[g].st = sock[g].st /\ sock'[g].rx = sock[g].rx
    BY <2>1
  <2> QED
    BY <2>2, <2>3, IdleWhole
<1>4. CASE ConnectedError(c)
  <2>1. Renewed(c, conn)
    BY <1>1, <1>4, ReconnectRenews DEF ConnectedError
  <2> QED
    BY <1>1, <2>1, RenewedWhole
<1> QED
  BY <1>2, <1>3, <1>4 DEF socket_connected

\* socket_writeable, which meets no error.
LEMMA WriteableWhole ==
  ASSUME Steady, NEW fd \in Fds, NEW c \in Conns, Attended(c, fd),
         buf = << >>, buf' = << >>, pc' # "parse", socket_writeable(c, fd)
  PROVE  WholeInv'
<1>1. /\ TypeOK /\ Faultless /\ conn[c].fd = fd /\ SocketOf(c) = sock[fd]
      /\ events \in EventTable /\ sock \in SockTable /\ conn \in ConnTable
      /\ events[fd].mask # {} /\ events[fd].data = c /\ fd \in Registrable
      /\ sock[fd].ep = events[fd].mask
      /\ sock[fd].st \in {"connecting", "up"}
      /\ \A i \in DOMAIN sock[fd].rx : sock[fd].rx[i] # "rst"
  BY InUseSound DEF Steady, OwnershipInv, Attended
<1>2. Started(c) \in ConnTable /\ \A d \in Conns : /\ Started(c)[d].fd = conn[d].fd
                                                   /\ Started(c)[d].parser = conn[d].parser
                                                   /\ Started(c)[d].hdrs = conn[d].hdrs
  <2>1. Started(c) \in ConnTable
    BY <1>1, StartedType
  <2> QED
    BY <1>1, <2>1 DEF Started, ConnTable
<1>3. ASSUME \A d \in Conns : SameFields(d),
             \A g \in Fds \ {fd} : events'[g] = events[g] /\ sock'[g] = sock[g],
             events'[fd].mask \subseteq events[fd].mask,
             events'[fd].data = c, events'[fd].rproc = events[fd].rproc,
             events'[fd].wproc = events[fd].wproc,
             sock'[fd].st = sock[fd].st, sock'[fd].rx = sock[fd].rx
      PROVE  WholeInv'
  <2>1. ASSUME NEW g \in Fds
        PROVE  /\ events'[g].mask # {} => events[g].mask # {}
               /\ events'[g].data = events[g].data /\ events'[g].rproc = events[g].rproc
               /\ "W" \in events'[g].mask =>
                     \/ "W" \in events[g].mask /\ events'[g].wproc = events[g].wproc
                     \/ events'[g].wproc = "socket_writeable"
               /\ sock'[g].st = sock[g].st /\ sock'[g].rx = sock[g].rx
    <3>1. CASE g = fd
      BY <1>1, <1>3, <3>1
    <3>2. CASE g # fd
      BY <1>3, <3>2
    <3> QED
      BY <3>1, <3>2
  <2> QED
    BY <1>3, <2>1, IdleWhole
<1>4. CASE WriteDelayed(c, fd)
  <2> DEFINE del == aeDeleteFileEvent(events, sock, fd, {"W"})
  <2>1. Deleted(fd, events, sock, del.ev, del.sk)
    BY <1>1, DeleteWorks, Zenon
  <2> HIDE DEF del
  <2>2. events' = del.ev /\ sock' = del.sk /\ conn' = conn
    BY <1>4 DEF WriteDelayed, del
  <2> QED
    BY <1>1, <1>3, <2>1, <2>2 DEF Deleted, SameFields
<1>5. CASE WriteOk(c, fd)
  <2>1. PICK n \in 1..(Length - conn[c].written) : Wrote(c, fd, n)
    BY <1>5, WriteTables
  <2>2. \A d \in Conns : SameFields(d)
    BY <1>2, <2>1 DEF Wrote, SameFields, ConnTable
  <2>3. events'[fd].mask \subseteq events[fd].mask
    BY <2>1 DEF Wrote
  <2> QED
    BY <1>3, <2>1, <2>2, <2>3 DEF Wrote
<1>6. CASE WriteRetry(c)
  <2>1. \A d \in Conns : SameFields(d)
    BY <1>2, <1>6 DEF WriteRetry, SameFields
  <2>2. events' = events /\ sock' = sock
    BY <1>6 DEF WriteRetry
  <2> QED
    BY <1>1, <1>3, <2>1, <2>2
<1>7. ~WriteError(c)
  <2>1. -1 \notin sock_write(c, Length - conn[c].written)
    <3> DEFINE n == Length - conn[c].written
    <3>1. -1 \notin {0} /\ -1 \notin (1..n) \cup (IF Tls THEN {0} ELSE {})
      OBVIOUS
    <3>2. SocketOf(c).st \notin {"free", "refused"}
          /\ ~\E i \in DOMAIN SocketOf(c).rx : SocketOf(c).rx[i] = "rst"
      BY <1>1
    <3> QED
      BY <3>1, <3>2, Zenon DEF sock_write
  <2> QED
    BY <2>1 DEF WriteError
<1> QED
  BY <1>4, <1>5, <1>6, <1>7 DEF socket_writeable

\* socket_readable: what is read moves from the socket to the buffer.
LEMMA ReadableWhole ==
  ASSUME Steady, NEW fd \in Fds, NEW c \in Conns, Attended(c, fd),
         events[fd].rproc = "socket_readable", buf = << >>, socket_readable(c, fd)
  PROVE  WholeInv'
<1> DEFINE rx == sock[fd].rx
           l  == Last(conn[c].parser)
<1>1. /\ TypeOK /\ Faultless /\ conn[c].fd = fd /\ SocketOf(c) = sock[fd] /\ Told(c)
      /\ events \in EventTable /\ sock \in SockTable /\ conn \in ConnTable
      /\ events[fd].mask # {} /\ events[fd].data = c
      /\ rx \in Seq(Item) /\ Coming(fd) = rx
      /\ sock[fd].st \in {"connecting", "up"}
      /\ \A i \in DOMAIN rx : rx[i] # "rst"
      /\ Sound(events[fd], conn[c].parser, sock[fd].st, rx)
  BY InUseSound DEF Steady, OwnershipInv, Attended
<1>2. Whole(l, rx) /\ l \in {"head", "keep"}
  BY <1>1 DEF Sound, Last
<1> HIDE DEF l
<1>3. rx # << >> => Head(rx) = rx[1] /\ 1 \in DOMAIN rx /\ Head(rx) \notin {"fin", "rst"}
  <2>1. rx # << >> => Head(rx) = rx[1] /\ 1 \in DOMAIN rx
    BY <1>1
  <2>2. rx # << >> => <<l, Head(rx)>> \in Follows
    BY <1>1, <1>2, WholeTail
  <2> QED
    BY <1>1, <1>2, <2>1, <2>2 DEF Follows
<1>4. CASE ReadData(c, fd)
  <2>1. PICK n \in 1..Len(rx) :
          /\ \A i \in 1..n : rx[i] \in Data
          /\ buf' = SubSeq(rx, 1, n)
          /\ sock' = [sock EXCEPT ![fd].rx = SubSeq(rx, n + 1, Len(rx))]
    BY ZenonT(60), <1>1, <1>4 DEF ReadData
  <2>2. UNCHANGED <<events, conn>> /\ pc' = "parse" /\ cur' = fd /\ reader' = c
    BY <1>4 DEF ReadData, StartParse
  <2>3. /\ \A g \in Fds \ {fd} : SameAt(g)
        /\ sock'[fd].rx = SubSeq(rx, n + 1, Len(rx)) /\ sock'[fd].st = sock[fd].st
    BY <1>1, <2>1, <2>2 DEF SameAt, SockTable
  <2>4. Coming(fd)' = rx
    <3>1. Len(rx) \in Nat /\ 1 \in 1..(Len(rx) + 1) /\ n \in (1 - 1)..Len(rx)
          /\ Len(rx) \in n..Len(rx)
      BY <1>1
    <3>2. SubSeq(rx, 1, n) \o SubSeq(rx, n + 1, Len(rx)) = SubSeq(rx, 1, Len(rx))
      BY <1>1, <3>1, ConcatAdjacentSubSeq
    <3>3. SubSeq(rx, 1, Len(rx)) = rx
      BY <1>1, SubSeqFull
    <3>4. Coming(fd)' = buf' \o sock'[fd].rx
      BY <2>2 DEF Coming
    <3> QED
      BY <2>1, <2>3, <3>2, <3>3, <3>4
  <2>5. Intact(fd)'
    BY <1>1, <2>2, <2>3, <2>4 DEF Intact, Sound
  <2>6. Told(c)' /\ \A d \in Conns \ {c} : conn'[d] = conn[d]
    BY <1>1, <2>2 DEF Told
  <2>7. Parsing'
    BY <1>1, <2>2 DEF Parsing, Reads
  <2>8. \A i \in DOMAIN buf' : buf'[i] \in {"head", "keep", "close"}
    <3>1. DOMAIN buf' = 1..n /\ \A i \in 1..n : buf'[i] = rx[i] /\ i \in DOMAIN rx
      BY <1>1, <2>1
    <3>2. \A i \in DOMAIN rx : rx[i] \in {"head", "keep", "close", "fin"}
      BY <1>1, <1>2, WholeItems
    <3>3. "fin" \notin Data
      BY DEF Data, AllKinds
    <3> QED
      BY <2>1, <3>1, <3>2, <3>3
  <2> QED
    BY <2>2, <2>3, <2>5, <2>6, <2>7, <2>8, OneWhole
<1>5. ~ReadEof(c, fd)
  BY <1>1, <1>3 DEF ReadEof
<1>6. CASE ReadError(c, fd)
  <2>1. rx = << >>
    BY <1>1, <1>3, <1>6 DEF ReadError, ReadFails
  <2>2. l = "keep"
    <3>1. rx \in Seq(Item) /\ \A i \in DOMAIN rx : rx[i] # "fin"
      BY <1>1, <2>1
    <3>2. At(l, rx, Len(rx)) = "keep"
      BY <1>2, <3>1, WholeEnd
    <3> QED
      BY <2>1, <3>2 DEF At
  <2>3. conn[c].parser # "head" /\ conn[c].hdrs = 0
    BY <1>1, <2>2 DEF l, Last, Told
  <2>4. Renewed(c, conn)
    BY <1>1, <1>6, ReconnectRenews DEF ReadError
  <2>5. buf' = << >> /\ pc' # "parse"
    BY <1>6 DEF ReadError, AfterR
  <2> QED
    BY <1>1, <2>3, <2>4, <2>5, RenewedWhole
<1>7. CASE ReadRetry(c, fd)
  <2>1. UNCHANGED <<events, sock, conn>> /\ buf' = << >> /\ pc' # "parse"
    BY <1>7 DEF ReadRetry, AfterR
  <2>2. \A d \in Conns : SameFields(d)
    BY <2>1 DEF SameFields
  <2> QED
    BY <2>1, <2>2, IdleWhole
<1> QED
  BY <1>4, <1>5, <1>6, <1>7 DEF socket_readable

LEMMA ConcatTail ==
  ASSUME NEW S, NEW s \in Seq(S), NEW t \in Seq(S), s # << >>
  PROVE  Head(s \o t) = Head(s) /\ Tail(s \o t) = Tail(s) \o t /\ s \o t # << >>
<1> DEFINE u == s \o t
           r == Tail(s)
           m == Len(s)
           n == Len(t)
           v == r \o t
           w == Tail(u)
<1>1. /\ m \in Nat /\ n \in Nat /\ m >= 1 /\ u \in Seq(S) /\ Len(u) = m + n
      /\ \A i \in 1..(m + n) : u[i] = IF i <= m THEN s[i] ELSE t[i - m]
  BY ConcatProperties, LenProperties, EmptySeq
<1>2. r \in Seq(S) /\ Len(r) = m - 1 /\ \A i \in 1..(m - 1) : r[i] = s[i + 1]
  BY HeadTailProperties
<1> HIDE DEF u, m, n, r
<1>3. u # << >>
  BY <1>1
<1>4. w \in Seq(S) /\ Len(w) = m + n - 1 /\ \A i \in 1..(m + n - 1) : w[i] = u[i + 1]
  BY <1>1, <1>3, HeadTailProperties
<1>5. /\ v \in Seq(S) /\ Len(v) = (m - 1) + n
      /\ \A i \in 1..((m - 1) + n) : v[i] = IF i <= m - 1 THEN r[i] ELSE t[i - (m - 1)]
  <2>1. /\ v \in Seq(S) /\ Len(v) = Len(r) + Len(t)
        /\ \A i \in 1..(Len(r) + Len(t)) : v[i] = IF i <= Len(r) THEN r[i] ELSE t[i - Len(r)]
    BY <1>2, ConcatProperties
  <2> HIDE DEF v
  <2> QED
    BY <1>2, <2>1 DEF n
<1> HIDE DEF v, w
<1>6. ASSUME NEW i \in 1..(m + n - 1)
      PROVE  w[i] = v[i]
  <2>1. w[i] = IF i + 1 <= m THEN s[i + 1] ELSE t[(i + 1) - m]
    BY <1>1, <1>4
  <2>2. (m - 1) + n = m + n - 1 /\ (i + 1) - m = i - (m - 1) /\ (i + 1 <= m <=> i <= m - 1)
    BY <1>1
  <2> QED
    BY <1>1, <1>2, <1>5, <2>1, <2>2
<1>7. w = v
  <2>1. Len(w) = Len(v)
    BY <1>1, <1>4, <1>5
  <2> QED
    BY <1>4, <1>5, <1>6, <2>1, SeqEqual
<1>8. Head(u) = Head(s)
  BY <1>1, <1>3 DEF m
<1> QED
  BY <1>3, <1>7, <1>8 DEF u, v, w, r

\* The parser, for the connection that reads the descriptor that is dispatched.
LEMMA ParseAt ==
  ASSUME Steady, NEW fd \in Fds, NEW c \in Conns, Attended(c, fd), cur = fd,
         events[fd].rproc = "socket_readable", Parse(c)
  PROVE  WholeInv'
<1> DEFINE T    == Item \cup {"notfinal"}
           rx   == sock[fd].rx
           tail == Tail(buf)
           l    == Last(conn[c].parser)
<1>1. /\ TypeOK /\ Faultless /\ conn[c].fd = fd /\ Told(c)
      /\ events \in EventTable /\ sock \in SockTable /\ conn \in ConnTable
      /\ events[fd].mask # {} /\ events[fd].data = c /\ fd \in Registrable
      /\ sock[fd].ep = events[fd].mask /\ sock[fd].st \in Live /\ sock[fd].st # "refused"
      /\ Sound(events[fd], conn[c].parser, sock[fd].st, Coming(fd))
      /\ \A i \in DOMAIN buf : buf[i] \in {"head", "keep", "close"}
  BY InUseSound DEF Steady, OwnershipInv, Attended, WholeInv, Sound
<1>2. UNCHANGED <<pc, cur, reader>> /\ pc = "parse" /\ reader = c /\ buf # << >>
  BY DEF Parse
<1>3. rx \in Seq(T) /\ buf \in Seq(T)
  BY <1>1, InUseSound DEF TypeOK
<1> HIDE DEF T
<1>4. <<l, Head(buf)>> \in Follows /\ Whole(Head(buf), tail \o rx)
  <2>1. Coming(fd) = buf \o rx
    BY <1>2 DEF Coming
  <2>2. Whole(l, buf \o rx)
    BY <1>1, <2>1 DEF Sound
  <2> DEFINE s == buf \o rx
  <2>3. s \in Seq(T) /\ s # << >> /\ Head(s) = Head(buf) /\ Tail(s) = tail \o rx
    BY <1>2, <1>3, ConcatTail, ConcatProperties
  <2>4. Whole(l, s)
    BY <2>2
  <2> HIDE DEF s, rx, tail, l
  <2> QED
    BY <2>3, <2>4, WholeTail
<1>5. /\ Head(buf) \in {"head", "keep", "close"}
      /\ \A i \in DOMAIN tail : tail[i] \in {"head", "keep", "close"}
  <2>1. /\ Len(buf) \in Nat /\ Len(buf) >= 1 /\ DOMAIN buf = 1..Len(buf) /\ Head(buf) = buf[1]
        /\ tail \in Seq(T) /\ Len(tail) = Len(buf) - 1
        /\ \A i \in 1..(Len(buf) - 1) : tail[i] = buf[i + 1]
    BY <1>2, <1>3, HeadTailProperties, LenProperties, EmptySeq
  <2>2. DOMAIN tail = 1..(Len(buf) - 1)
    BY <2>1
  <2>3. \A i \in 1..Len(buf) : buf[i] \in {"head", "keep", "close"}
    BY <1>1, <2>1
  <2> DEFINE n == Len(buf)
  <2>4. n \in Nat /\ n >= 1 /\ \A i \in 1..(n - 1) : i + 1 \in 1..n
    BY <2>1
  <2> HIDE DEF tail, n
  <2> QED
    BY <2>1, <2>2, <2>3, <2>4 DEF n
<1>6. conn[c].parser \notin {"dead", "body_eof"}
  BY <1>1 DEF Sound
<1>7. \/ Head(buf) = "head" /\ header_field(c) /\ buf' = tail
      \/ Head(buf) = "keep" /\ response_complete(c, TRUE) /\ buf' = tail
      \/ Head(buf) = "close" /\ response_complete(c, FALSE) /\ buf' = tail
  BY <1>5, <1>6, ParseChoices
<1> HIDE DEF tail, rx, l
<1>8. ASSUME buf' = tail, conn'[c].fd = fd, Told(c)', \A d \in Conns \ {c} : conn'[d] = conn[d],
             \A g \in Fds \ {fd} : SameAt(g),
             events'[fd].mask # {}, events'[fd].data = c,
             events'[fd].rproc = "socket_readable",
             "W" \in events'[fd].mask =>
                \/ "W" \in events[fd].mask /\ events'[fd].wproc = events[fd].wproc
                \/ events'[fd].wproc = "socket_writeable",
             sock'[fd].st = sock[fd].st, sock'[fd].rx = sock[fd].rx,
             conn'[c].parser \notin {"dead", "body_eof"},
             Last(conn'[c].parser) = Head(buf)
      PROVE  WholeInv'
  <2>1. Coming(fd)' = tail \o rx
    BY <1>2, <1>8 DEF Coming, rx
  <2>2. "W" \in events'[fd].mask => events'[fd].wproc = "socket_writeable"
    BY <1>1, <1>8 DEF Sound
  <2>3. Intact(fd)'
    BY <1>1, <1>4, <1>8, <2>1, <2>2 DEF Intact, Sound
  <2>4. Parsing'
    BY <1>2, <1>8 DEF Parsing, Reads
  <2> QED
    BY <1>2, <1>5, <1>8, <2>3, <2>4, OneWhole
<1>9. CASE Head(buf) = "head" /\ header_field(c) /\ buf' = tail
  <2>1. UNCHANGED <<events, sock>>
        /\ conn' = [conn EXCEPT ![c].parser = "head",
                                ![c].hdrs = IF WantResponse /\ @ < 2 THEN @ + 1 ELSE @]
    BY <1>9 DEF header_field
  <2>2. conn[c].parser # "head" /\ conn[c].hdrs = 0
    <3>1. <<l, "head">> \in Follows
      BY <1>4, <1>9
    <3> QED
      BY <1>1, <3>1 DEF Follows, l, Last, Told
  <2>3. /\ conn'[c].parser = "head" /\ conn'[c].hdrs \in {0, 1} /\ conn'[c].fd = fd
        /\ \A d \in Conns \ {c} : conn'[d] = conn[d]
    <3>1. ASSUME NEW h, conn' = [conn EXCEPT ![c].parser = "head", ![c].hdrs = h]
          PROVE  /\ conn'[c].parser = "head" /\ conn'[c].hdrs = h /\ conn'[c].fd = fd
                 /\ \A d \in Conns \ {c} : conn'[d] = conn[d]
      BY <1>1, <3>1 DEF ConnTable
    <3> DEFINE h == IF WantResponse /\ conn[c].hdrs < 2 THEN conn[c].hdrs + 1
                    ELSE conn[c].hdrs
    <3>2. h \in {0, 1}
      BY <2>2
    <3>3. conn' = [conn EXCEPT ![c].parser = "head", ![c].hdrs = h]
      BY <2>1
    <3> HIDE DEF h
    <3> QED
      BY <3>1, <3>2, <3>3
  <2>4. Told(c)'
    BY <2>3 DEF Told
  <2>5. \A g \in Fds \ {fd} : SameAt(g)
    BY <2>1 DEF SameAt
  <2> QED
    BY <1>1, <1>8, <1>9, <2>1, <2>3, <2>4, <2>5 DEF Last
<1> DEFINE left == (conn[c].pending - 1) % PendingMod
           reg  == IF CycleOver(left)
                   THEN aeCreateFileEvent(events, sock, fd, {"W"}, "socket_writeable", c)
                   ELSE [ev |-> events, sk |-> sock]
           cn(alive) == [conn EXCEPT ![c].hdrs    = script_response(@),
                                     ![c].pending = left,
                                     ![c].delayed = IF CycleOver(left) THEN Delay ELSE @,
                                     ![c].parser  = IF alive THEN "start" ELSE "dead"]
<1>10. Created(fd, {"W"}, "socket_writeable", c, events, sock, reg.ev, reg.sk)
       \/ (reg.ev = events /\ reg.sk = sock)
  <2> DEFINE r == aeCreateFileEvent(events, sock, fd, {"W"}, "socket_writeable", c)
  <2>1. Created(fd, {"W"}, "socket_writeable", c, events, sock, r.ev, r.sk)
    BY <1>1, CreateWorks, Zenon DEF Mask, Procs
  <2>2. reg = r \/ (reg.ev = events /\ reg.sk = sock)
    OBVIOUS
  <2> HIDE DEF r, reg
  <2> QED
    BY <2>1, <2>2
<1>11. ASSUME NEW alive \in BOOLEAN
       PROVE  /\ cn(alive)[c].hdrs = 0 /\ cn(alive)[c].fd = fd
              /\ cn(alive)[c].parser = (IF alive THEN "start" ELSE "dead")
              /\ \A d \in Conns \ {c} : cn(alive)[d] = conn[d]
              /\ cn(alive) \in ConnTable
  <2>1. /\ cn(alive)[c].hdrs = 0 /\ cn(alive)[c].fd = fd
        /\ cn(alive)[c].parser = (IF alive THEN "start" ELSE "dead")
        /\ \A d \in Conns \ {c} : cn(alive)[d] = conn[d]
    BY <1>1 DEF ConnTable, script_response
  <2>2. cn(alive) \in ConnTable
    BY <1>1, ResponseConnType DEF ConnTable
  <2> QED
    BY <2>1, <2>2
<1> HIDE DEF reg
<1>12. CASE Head(buf) = "keep" /\ response_complete(c, TRUE) /\ buf' = tail
  <2>1. conn' = cn(TRUE) /\ events' = reg.ev /\ sock' = reg.sk
    BY <1>1, <1>12 DEF response_complete, reg
  <2> HIDE DEF cn
  <2>2. /\ conn'[c].hdrs = 0 /\ conn'[c].fd = fd /\ conn'[c].parser = "start"
        /\ \A d \in Conns \ {c} : conn'[d] = conn[d]
    BY <1>11, <2>1
  <2>3. Told(c)'
    BY <2>2 DEF Told
  <2>4. /\ \A g \in Fds \ {fd} : SameAt(g)
        /\ events'[fd].mask # {} /\ events'[fd].data = c
        /\ events'[fd].rproc = "socket_readable"
        /\ "W" \in events'[fd].mask =>
              \/ "W" \in events[fd].mask /\ events'[fd].wproc = events[fd].wproc
              \/ events'[fd].wproc = "socket_writeable"
        /\ sock'[fd].st = sock[fd].st /\ sock'[fd].rx = sock[fd].rx
    BY <1>1, <1>10, <2>1 DEF Created, SameAt
  <2> QED
    BY <1>8, <1>12, <2>2, <2>3, <2>4 DEF Last
<1>13. CASE Head(buf) = "close" /\ response_complete(c, FALSE) /\ buf' = tail
  <2>1. reconnect_socket(c, reg.ev, reg.sk, cn(FALSE), errors)
    BY <1>1, <1>13 DEF response_complete, reg
  <2>2. /\ reg.ev \in EventTable /\ reg.sk \in SockTable
        /\ \A g \in Fds \ {fd} : reg.ev[g] = events[g] /\ reg.sk[g] = sock[g]
    BY <1>1, <1>10 DEF Created
  <2> DEFINE new == cn(FALSE)
  <2>3. /\ new[c].hdrs = 0 /\ new[c].fd = fd /\ new[c].parser = "dead"
        /\ \A d \in Conns \ {c} : new[d] = conn[d]
        /\ new \in ConnTable
    <3> HIDE DEF cn
    <3>1. FALSE \in BOOLEAN /\ (IF FALSE THEN "start" ELSE "dead") = "dead"
      OBVIOUS
    <3> QED
      BY <1>11, <3>1
  <2>4. reconnect_socket(c, reg.ev, reg.sk, new, errors)
    BY <2>1
  <2> HIDE DEF new
  <2>5. Renewed(c, new)
    BY <1>1, <2>2, <2>3, <2>4, ReconnectRenews
  <2>6. buf' = << >>
    <3>1. tail \in Seq(T)
      BY <1>2, <1>3, HeadTailProperties DEF tail
    <3>2. ASSUME tail # << >> PROVE FALSE
      <4>1. Len(tail) \in Nat /\ Len(tail) >= 1 /\ 1 \in DOMAIN tail
        BY <3>1, <3>2, LenProperties, EmptySeq
      <4>2. (tail \o rx)[1] = tail[1] /\ Len(tail \o rx) >= 1 /\ Len(tail \o rx) \in Nat
        BY <1>3, <3>1, <4>1, ConcatProperties, LenProperties
      <4>3. <<At("close", tail \o rx, 0), At("close", tail \o rx, 0 + 1)>> \in Follows
        BY <1>4, <1>13, <4>2 DEF Whole
      <4>4. At("close", tail \o rx, 0) = "close" /\ At("close", tail \o rx, 0 + 1) = tail[1]
        BY <4>2 DEF At
      <4>5. tail[1] \in {"head", "keep", "close"}
        BY <1>5, <4>1
      <4> QED
        BY <4>3, <4>4, <4>5 DEF Follows
    <3> QED
      BY <1>13, <3>2
  <2> QED
    BY <1>1, <1>2, <2>3, <2>5, <2>6, RenewedWhole
<1> QED
  BY <1>7, <1>9, <1>12, <1>13

\* delay_request, which may find its connection replaced.
LEMMA DelayWhole ==
  ASSUME Steady, NEW c \in Conns, delay_request(c)
  PROVE  WholeInv'
<1> DEFINE w == aeCreateFileEvent(events, sock, conn[c].fd, {"W"}, "socket_writeable", c)
<1>1. /\ TypeOK /\ OwnershipInv /\ Registrable = Fds /\ conn \in ConnTable
      /\ pc = "time" /\ pc' = "time" /\ buf' = buf
      /\ conn' = [conn EXCEPT ![c].delayed = FALSE] /\ events' = w.ev /\ sock' = w.sk
  BY DEF delay_request, loopVars, Steady, OwnershipInv, Faultless, TypeOK
<1>2. buf = << >>
  BY <1>1 DEF Steady, WholeInv, Parsing
<1>3. \A d \in Conns : SameFields(d)
  BY <1>1 DEF SameFields, ConnTable
<1> HIDE DEF w
<1>4. ASSUME NEW g \in Fds
      PROVE  /\ events'[g].mask # {} => events[g].mask # {}
             /\ events'[g].data = events[g].data /\ events'[g].rproc = events[g].rproc
             /\ "W" \in events'[g].mask =>
                   \/ "W" \in events[g].mask /\ events'[g].wproc = events[g].wproc
                   \/ events'[g].wproc = "socket_writeable"
             /\ sock'[g].st = sock[g].st /\ sock'[g].rx = sock[g].rx
  <2>1. CASE conn[c].fd \in Fds
    <3> DEFINE fd == conn[c].fd
    <3>1. Attended(c, fd) /\ events[fd].mask # {}
      BY <1>1, <2>1, OwnerIs
    <3>2. Created(fd, {"W"}, "socket_writeable", c, events, sock, w.ev, w.sk)
      BY <2>1, <3>1, CreateWorks, Zenon DEF Attended, Mask, Procs, w
    <3> HIDE DEF fd
    <3>3. CASE g = fd
      BY <1>1, <3>1, <3>2, <3>3 DEF Created, Attended
    <3>4. CASE g # fd
      BY <1>1, <3>2, <3>4 DEF Created
    <3> QED
      BY <3>3, <3>4
  <2>2. CASE conn[c].fd \notin Fds
    BY <1>1, <2>2 DEF aeCreateFileEvent, w
  <2> QED
    BY <2>1, <2>2
<1> QED
  BY <1>1, <1>2, <1>3, <1>4, IdleWhole

\* The steps of the loop that change none of the tables.
LEMMA QuietWhole ==
  ASSUME Steady, UNCHANGED <<events, sock, conn, buf>>, buf = << >>, pc' # "parse"
  PROVE  WholeInv'
<1>1. \A d \in Conns : SameFields(d)
  BY DEF SameFields
<1> QED
  BY <1>1, IdleWhole

\* The handlers of the loop.  socket_connected finds the parser between two
\* responses, whichever event calls it.
LEMMA DispatchWhole ==
  ASSUME Steady, NEW fd \in Fds, NEW c \in Conns, DispatchR(fd, c) \/ DispatchW(fd, c)
  PROVE  WholeInv'
<1>1. pc \in {"fetch", "file_w"} /\ buf = << >> /\ Registrable = Fds /\ OwnershipInv
  BY DEF DispatchR, DispatchW, CallsR, CallsW, Steady, WholeInv, Parsing, Faultless
<1>2. events[fd].mask # {} /\ events[fd].data = c
  BY DEF DispatchR, DispatchW, CallsR, CallsW, FiresR, FiresW
<1>3. Attended(c, fd)
  BY <1>1, <1>2, AttendedIs
<1>4. /\ \/ events[fd].rproc = "socket_connected" /\ conn[c].parser # "head"
         \/ events[fd].rproc = "socket_readable"
      /\ events[fd].rproc = "socket_readable" /\ "W" \in events[fd].mask =>
            events[fd].wproc = "socket_writeable"
  BY <1>3, InUseSound DEF Sound
<1>5. CASE CallsR(fd, "socket_connected", c) /\ socket_connected(c, fd) /\ AfterR(fd)
  <2>1. conn[c].parser # "head"
    BY <1>4, <1>5 DEF CallsR
  <2>2. buf' = << >> /\ pc' # "parse"
    BY <1>1, <1>5 DEF socket_connected, AfterR
  <2> QED
    BY <1>1, <1>3, <1>5, <2>1, <2>2, ConnectedWhole
<1>6. CASE CallsW(fd, "socket_connected", c) /\ socket_connected(c, fd) /\ AfterW(fd)
  <2>1. conn[c].parser # "head"
    BY <1>4, <1>6 DEF CallsW, FiresW
  <2>2. buf' = << >> /\ pc' # "parse"
    BY <1>1, <1>6 DEF socket_connected, AfterW
  <2> QED
    BY <1>1, <1>3, <1>6, <2>1, <2>2, ConnectedWhole
<1>7. CASE CallsR(fd, "socket_readable", c) /\ socket_readable(c, fd)
  BY <1>1, <1>3, <1>7, ReadableWhole DEF CallsR
<1>8. CASE CallsW(fd, "socket_writeable", c) /\ socket_writeable(c, fd) /\ AfterW(fd)
  <2>1. buf' = << >> /\ pc' # "parse"
    BY <1>1, <1>8 DEF socket_writeable, AfterW
  <2> QED
    BY <1>1, <1>3, <1>8, <2>1, WriteableWhole
<1> QED
  BY <1>5, <1>6, <1>7, <1>8 DEF DispatchR, DispatchW

\* The connection that reads, when there is something to read or to parse.
LEMMA ReaderIs ==
  ASSUME Steady, NEW c \in Conns, pc = "parse", reader = c,
         buf # << >> \/ sock_readable(c)
  PROVE  cur \in Fds /\ conn[c].fd = cur /\ Attended(c, cur)
         /\ events[cur].rproc = "socket_readable"
<1>1. Reads(c) /\ Registrable = Fds /\ OwnershipInv
  BY DEF Steady, WholeInv, Parsing, Faultless
<1>2. ~(buf = << >> /\ sock[conn[c].fd].rx = << >>)
  BY <1>1 DEF sock_readable, SocketOf, Reads
<1> QED
  BY <1>1, <1>2, OwnerIs DEF Reads

\* The other steps of the thread.
LEMMA ThreadWhole ==
  ASSUME Steady, Thread
  PROVE  WholeInv'
<1>1. ASSUME NEW c \in Conns, thread_main(c) PROVE WholeInv'
  <2>1. /\ TypeOK /\ Faultless /\ events \in EventTable /\ sock \in SockTable
        /\ conn \in ConnTable /\ OwnershipInv
    BY DEF Steady, OwnershipInv, TypeOK
  <2>2. pc = "setup" /\ pc' = pc /\ buf' = buf /\ conn[c].fd = NoFd
    BY <1>1, <2>1 DEF thread_main, loopVars, OwnershipInv
  <2>3. buf = << >> /\ Told(c)
    BY <2>2 DEF Steady, WholeInv, Parsing
  <2>4. conn[c].hdrs = 0 /\ conn[c].parser # "head"
    BY <2>2, <2>3, WrkThreadAssumption DEF Told
  <2>5. Renewed(c, conn)
    BY <1>1, <2>1, ConnectRenews DEF thread_main
  <2> QED
    BY <2>1, <2>2, <2>3, <2>4, <2>5, RenewedWhole
<1>2. ASSUME NEW c \in Conns, Parse(c) PROVE WholeInv'
  <2>1. pc = "parse" /\ reader = c /\ buf # << >>
    BY <1>2 DEF Parse
  <2>2. cur \in Fds /\ Attended(c, cur) /\ events[cur].rproc = "socket_readable"
    BY <2>1, ReaderIs
  <2> QED
    BY <1>2, <2>2, ParseAt
<1>3. ASSUME NEW c \in Conns PROVE ~ParseError(c)
  <2> SUFFICES ASSUME ParseError(c) PROVE FALSE
    OBVIOUS
  <2>1. pc = "parse" /\ reader = c /\ buf # << >> /\ Rejects(c)
    BY DEF ParseError
  <2>2. cur \in Fds /\ Attended(c, cur) /\ events[cur].rproc = "socket_readable"
    BY <2>1, ReaderIs
  <2>3. conn[c].parser \notin {"dead", "body_eof"}
    BY <2>2, InUseSound DEF Sound
  <2>4. Head(buf) \in {"head", "keep", "close"}
    <3>1. buf \in Seq(Item \cup {"notfinal"})
      BY DEF Steady, OwnershipInv, TypeOK
    <3>2. 1 \in DOMAIN buf /\ Head(buf) = buf[1]
      BY <2>1, <3>1
    <3> QED
      BY <3>2 DEF Steady, WholeInv
  <2> QED
    BY <2>1, <2>3, <2>4 DEF Rejects
<1>4. ASSUME NEW c \in Conns, ReadAgain(c) PROVE WholeInv'
  <2>1. pc = "parse" /\ reader = c /\ buf = << >> /\ sock_readable(c) /\ socket_readable(c, cur)
    BY <1>4 DEF ReadAgain
  <2>2. cur \in Fds /\ Attended(c, cur) /\ events[cur].rproc = "socket_readable"
    BY <2>1, ReaderIs
  <2> QED
    BY <2>1, <2>2, ReadableWhole
<1>5. ASSUME NEW c \in Conns, ReadDone(c) PROVE WholeInv'
  BY <1>5, QuietWhole DEF ReadDone, AfterR
<1>6. CASE \/ aeMain \/ aeApiPoll \/ FiredDone \/ record_rate \/ EndTime
           \/ \E fd \in Fds : SkipR(fd) \/ SkipW(fd)
  <2>1. /\ UNCHANGED <<events, sock, conn, buf>> /\ pc # "parse" /\ pc' # "parse"
    BY <1>6 DEF aeMain, aeApiPoll, FiredDone, record_rate, EndTime, SkipR, SkipW, AfterW,
                loopVars
  <2>2. buf = << >>
    BY <2>1 DEF Steady, WholeInv, Parsing
  <2> QED
    BY <2>1, <2>2, QuietWhole
<1> QED
  BY <1>1, <1>2, <1>3, <1>4, <1>5, <1>6, DelayWhole, DispatchWhole DEF Thread


-----------------------------------------------------------------------------
(* The server adds whole responses, and other sockets are not registered. *)
Goes(fd) ==
    /\ sock'[fd].st = "refused" => sock[fd].st = "refused"
    /\ Whole(Last(conn[events[fd].data].parser), Coming(fd)')
    /\ sock[fd].rx = << >> /\ sock[fd].due = 0 => sock'[fd].rx = << >> /\ sock'[fd].due = 0

LEMMA EnvironmentGoes ==
  ASSUME Steady, EnvUnchanged, \A fd \in Fds : events[fd].mask # {} => Goes(fd)
  PROVE  WholeInv'
<1>1. Registrable = Fds /\ OwnershipInv /\ UNCHANGED <<pc, cur, reader, buf, events, conn>>
  BY DEF Steady, Faultless, EnvUnchanged
<1>2. ASSUME NEW fd \in Fds
      PROVE  Intact(fd)'
  BY <1>1 DEF Intact, Goes, Sound, Steady, WholeInv
<1>3. \A c \in Conns : Told(c)'
  BY <1>1 DEF Told, Steady, WholeInv
<1>4. Parsing'
  <2>1. CASE pc = "parse"
    <3>1. reader \in Conns /\ Reads(reader)
      BY <2>1 DEF Steady, WholeInv, Parsing
    <3>2. Goes(conn[reader].fd)
      BY <1>1, <3>1, OwnerIs DEF Reads
    <3>3. Reads(reader)'
      BY <1>1, <3>1, <3>2 DEF Reads, Goes
    <3> QED
      BY <1>1, <2>1, <3>1, <3>3 DEF Parsing
  <2>2. CASE pc # "parse"
    BY <1>1, <2>2 DEF Parsing, Steady, WholeInv
  <2> QED
    BY <2>1, <2>2
<1>5. \A i \in DOMAIN buf' : buf'[i] \in {"head", "keep", "close"}
  BY <1>1 DEF Steady, WholeInv
<1> QED
  BY <1>2, <1>3, <1>4, <1>5 DEF WholeInv

\* A registered descriptor with nothing new.
LEMMA SameGoes ==
  ASSUME Steady, EnvUnchanged, NEW fd \in Fds, events[fd].mask # {},
         sock'[fd].st = "refused" => sock[fd].st = "refused",
         sock'[fd].rx = sock[fd].rx, sock'[fd].due = sock[fd].due
  PROVE  Goes(fd)
<1>1. Coming(fd)' = Coming(fd)
  BY DEF Coming, EnvUnchanged
<1> QED
  BY <1>1 DEF Goes, Steady, WholeInv, Intact, Sound

LEMMA RespondGoes ==
  ASSUME Steady, NEW fd \in Fds, NEW kind \in Kinds, Respond(fd, kind), events[fd].mask # {}
  PROVE  Goes(fd)
<1> DEFINE T   == Item \cup {"notfinal"}
           rx  == sock[fd].rx
           l   == Last(conn[events[fd].data].parser)
           new == IF kind = "keep" THEN <<"head", "keep">> ELSE <<"head", kind, "fin">>
           due == IF kind = "keep" THEN sock[fd].due - 1 ELSE 0
           got == IF kind = "keep" THEN sock[fd].got ELSE 0
           all == rx \o new
<1>1. /\ TypeOK /\ kind \in {"keep", "close"} /\ sock \in SockTable
      /\ UNCHANGED <<pc, cur, buf>>
      /\ \A i \in DOMAIN buf : buf[i] \in {"head", "keep", "close"}
      /\ rx \in Seq(T) /\ buf \in Seq(T) /\ new \in Seq(T)
  <2>1. kind \in {"keep", "close"} /\ UNCHANGED <<pc, cur, buf>>
    BY DEF Steady, Faultless, Respond, EnvUnchanged
  <2>2. TypeOK /\ sock \in SockTable /\ \A i \in DOMAIN buf : buf[i] \in {"head", "keep", "close"}
    BY DEF Steady, OwnershipInv, TypeOK, WholeInv
  <2>3. rx \in Seq(T) /\ buf \in Seq(T)
    BY <2>2 DEF SockTable, TypeOK
  <2>4. new \in Seq(T)
    <3>1. "head" \in T /\ "keep" \in T /\ "close" \in T /\ "fin" \in T
      BY DEF Item, Data, AllKinds, Ends
    <3> HIDE DEF T
    <3>2. <<"head", "keep">> \in Seq(T) /\ <<"head", "close", "fin">> \in Seq(T)
      BY <3>1
    <3>3. new = <<"head", "keep">> \/ new = <<"head", "close", "fin">>
      BY <2>1
    <3> QED
      BY <3>2, <3>3
  <2> QED
    BY <2>1, <2>2, <2>3, <2>4
<1>2. sock[fd].due > 0 /\ \A i \in DOMAIN rx : rx[i] # "fin"
  BY DEF Respond, Finished, Ends
<1>3. Whole("keep", new)
  BY <1>1, WholeShort
<1>4. Whole(l, Coming(fd)) /\ l \in {"head", "keep"}
  BY DEF Steady, WholeInv, Intact, Sound, Last
<1>5. sock'[fd].rx = all /\ sock'[fd].st = sock[fd].st
  <2>1. sock' = [sock EXCEPT ![fd].rx = all, ![fd].due = due, ![fd].got = got]
    BY DEF Respond
  <2> HIDE DEF all, due, got
  <2>2. sock \in [Fds -> SockRecord]
    BY <1>1 DEF SockTable, SockRecord
  <2> QED
    BY <2>1, <2>2 DEF SockRecord
<1> HIDE DEF T, new, l, due, got
<1>6. CASE pc = "parse" /\ cur = fd
  <2> DEFINE s == buf \o rx
  <2>1. Coming(fd) = s /\ Coming(fd)' = buf \o all
    BY <1>1, <1>5, <1>6 DEF Coming
  <2>2. buf \o all = s \o new
    <3> HIDE DEF rx
    <3> QED
      BY <1>1, ConcatAssociative
  <2>3. s \in Seq(T) /\ \A i \in DOMAIN s : s[i] # "fin"
    <3> HIDE DEF rx
    <3> DEFINE m == Len(buf)
               n == Len(rx)
    <3>1. /\ s \in Seq(T) /\ m \in Nat /\ n \in Nat /\ Len(s) = m + n
          /\ \A i \in 1..(m + n) : s[i] = IF i <= m THEN buf[i] ELSE rx[i - m]
      BY <1>1, ConcatProperties, LenProperties
    <3>2. DOMAIN s = 1..Len(s) /\ DOMAIN rx = 1..n /\ DOMAIN buf = 1..m
      BY <1>1, <3>1, LenProperties
    <3> HIDE DEF s, m, n
    <3>3. ASSUME NEW i \in 1..(m + n) PROVE s[i] # "fin"
      <4>1. CASE i <= m
        <5>1. s[i] = buf[i] /\ i \in DOMAIN buf
          BY <3>1, <3>2, <3>3, <4>1
        <5> QED
          BY <1>1, <5>1
      <4>2. CASE ~(i <= m)
        <5>1. i - m \in DOMAIN rx
          BY <3>1, <3>2, <3>3, <4>2
        <5> QED
          BY <1>2, <3>1, <3>3, <4>2, <5>1
      <4> QED
        BY <4>1, <4>2
    <3> QED
      BY <3>1, <3>2, <3>3
  <2> HIDE DEF s, all
  <2>4. Whole(l, s)
    BY <1>4, <2>1
  <2>5. Whole(l, s \o new)
    BY <1>1, <1>3, <1>4, <2>3, <2>4, WholeEnd, WholeParts
  <2> QED
    BY <1>2, <1>5, <2>1, <2>2, <2>5 DEF Goes, l
<1>7. CASE ~(pc = "parse" /\ cur = fd)
  <2>1. Coming(fd) = rx /\ Coming(fd)' = all
    BY <1>1, <1>5, <1>7 DEF Coming
  <2> HIDE DEF rx
  <2>2. Whole(l, rx \o new)
    BY <1>1, <1>2, <1>3, <1>4, <2>1, WholeEnd, WholeParts
  <2> QED
    BY <1>2, <1>5, <2>1, <2>2 DEF Goes, l
<1> QED
  BY <1>6, <1>7

LEMMA EnvironmentWhole ==
  ASSUME Steady, Environment
  PROVE  WholeInv'
<1>1. /\ sock \in SockTable /\ sock \in [Fds -> SockRecord] /\ faults = 0 /\ Registrable = Fds
      /\ OwnershipInv
  <2>1. sock \in SockTable /\ faults \in 0..0 /\ Registrable = Fds /\ OwnershipInv
    BY DEF Steady, OwnershipInv, TypeOK, Faultless
  <2> QED
    BY <2>1 DEF SockTable, SockRecord
<1>2. ASSUME NEW f \in Fds, events[f].mask # {} PROVE sock[f].st \in Live
  BY <1>1, <1>2, AttendedIs DEF Attended
<1>3. ASSUME NEW fd \in Fds, Establish(fd) PROVE WholeInv'
  <2>1. EnvUnchanged /\ sock' = [sock EXCEPT ![fd].st = "up"]
    BY <1>3 DEF Establish
  <2>2. \A f \in Fds : /\ sock'[f].rx = sock[f].rx /\ sock'[f].due = sock[f].due
                       /\ sock'[f].st = "refused" => sock[f].st = "refused"
    BY <1>1, <2>1 DEF SockRecord
  <2> QED
    BY <2>1, <2>2, SameGoes, EnvironmentGoes
<1>4. ASSUME NEW fd \in Fds PROVE ~Refuse(fd) /\ ~ServerFails(fd)
  BY <1>1 DEF Refuse, ServerFails
<1>5. ASSUME NEW fd \in Fds, NEW kind \in Kinds, Respond(fd, kind) PROVE WholeInv'
  <2>1. EnvUnchanged
    BY <1>5 DEF Respond
  <2>2. \A f \in Fds \ {fd} : sock'[f] = sock[f]
    BY <1>1, <1>5 DEF Respond, SockTable
  <2>3. \A f \in Fds : events[f].mask # {} => Goes(f)
    BY <1>5, <2>1, <2>2, SameGoes, RespondGoes
  <2> QED
    BY <2>1, <2>3, EnvironmentGoes
<1>6. ASSUME NEW fd \in Fds, ForeignOpen(fd) \/ ForeignClose(fd) PROVE WholeInv'
  <2>1. EnvUnchanged /\ sock[fd].st \notin Live
    BY <1>6 DEF ForeignOpen, ForeignClose, Live
  <2>2. \A f \in Fds \ {fd} : sock'[f] = sock[f]
    BY <1>1, <1>6 DEF ForeignOpen, ForeignClose, SockTable
  <2>3. \A f \in Fds : events[f].mask # {} => sock'[f] = sock[f]
    BY <1>2, <2>1, <2>2
  <2>4. \A f \in Fds : events[f].mask # {} => Goes(f)
    BY <2>1, <2>3, SameGoes
  <2> QED
    BY <2>1, <2>4, EnvironmentGoes
<1>7. CASE SetStop
  <2>1. EnvUnchanged /\ sock' = sock
    BY <1>7 DEF SetStop
  <2>2. \A f \in Fds : events[f].mask # {} => Goes(f)
    BY <2>1, SameGoes
  <2> QED
    BY <2>1, <2>2, EnvironmentGoes
<1> QED
  BY <1>3, <1>4, <1>5, <1>6, <1>7 DEF Environment

\* The invariant is one.
LEMMA WholeInit ==
  ASSUME Init
  PROVE  WholeInv
<1>1. \A fd \in Fds : Intact(fd)
  BY DEF Init, Intact, NoEvent
<1>2. \A c \in Conns : Told(c)
  BY DEF Init, Told
<1>3. Parsing /\ \A i \in DOMAIN buf : buf[i] \in {"head", "keep", "close"}
  BY DEF Init, Parsing
<1> QED
  BY <1>1, <1>2, <1>3 DEF WholeInv

LEMMA WholeNext ==
  ASSUME Faultless, OwnershipInv, WholeInv, OwnershipInv', [Next]_vars
  PROVE  WholeInv'
<1>1. Steady
  BY DEF Steady
<1>2. CASE UNCHANGED vars
  BY <1>2 DEF vars, WholeInv, Intact, Sound, Coming, Told, Parsing, Reads
<1>3. CASE Next
  BY <1>1, <1>3, ThreadWhole, EnvironmentWhole DEF Next
<1> QED
  BY <1>2, <1>3

\* When connecting does not fail and the server does not (it may close behind a
\* response), the script's response() is given the headers of one response and
\* no others, for any number of connections and requests in a buffer, with or
\* without delay() and TLS, and although descriptor numbers are used again and
\* shared with other threads: connection's headers buffer is begun by the head
\* of a response, emptied by its end, and a connection is only replaced between.
THEOREM ResponsesAreWhole ==
  ASSUME Faultless
  PROVE  Spec => []ResponseIsWhole
<1>1. ~ConnectMayFail /\ Registrable = Fds
  BY DEF Faultless
<1>2. Spec => []OwnershipInv
  BY <1>1, OwnershipInvariant
<1>3. Init => WholeInv
  BY WholeInit
<1>4. OwnershipInv /\ WholeInv /\ OwnershipInv' /\ [Next]_vars => WholeInv'
  BY WholeNext
<1>5. WholeInv => ResponseIsWhole
  BY DEF WholeInv, Told, ResponseIsWhole
<1> QED
  BY <1>2, <1>3, <1>4, <1>5, PTL DEF Spec

=============================================================================
