------------------------- MODULE CandleSeriesProofs -------------------------
(***************************************************************************)
(* Proofs about CandleSeries, for any length of the market, look-back,     *)
(* overlap and number of trades: the candles stay in their order, one for  *)
(* a bar, keep what they were told, and what a download was begun for is   *)
(* shown or on its way.                                                    *)
(*                                                                         *)
(* The argument is about the set of bars of a series.  Three lemmas say    *)
(* what mergeCandle, upsertCandle and the trim do to it.                   *)
(***************************************************************************)
EXTENDS CandleSeries, SequenceTheorems, WellFoundedInduction, TLAPS

Candle == [time : Int, volume : Nat]
Bars(c) == {c[i] : i \in DOMAIN c}

-----------------------------------------------------------------------------
(* Series *)

\* A set of numbers has a least one.
LEMMA LeastNumber ==
  ASSUME NEW T \in SUBSET Nat, T # {}
  PROVE  \E x \in T : \A y \in T : x <= y
<1> DEFINE R == {ss \in Nat \X Nat : ss[1] < ss[2]}
<1>1. IsWellFoundedOn(R, Nat)
  BY NatLessThanWellFounded, Zenon DEF OpToRel
<1>2. PICK x \in T : \A y \in T : ~ (<<y, x>> \in R)
  <2> HIDE DEF R
  <2> QED
    BY <1>1, WFMin
<1>3. \A y \in T : ~ (y < x)
  BY <1>2
<1> QED
  BY <1>3

LEMMA Elements ==
  ASSUME NEW c \in Seq(Candle)
  PROVE  /\ Len(c) \in Nat /\ DOMAIN c = 1..Len(c)
         /\ \A i \in 1..Len(c) : c[i] \in Candle /\ c[i].time \in Int /\ c[i].volume \in Nat
<1>1. \A x \in Candle : x.time \in Int /\ x.volume \in Nat
  BY DEF Candle
<1> HIDE DEF Candle
<1>2. Len(c) \in Nat /\ DOMAIN c = 1..Len(c) /\ \A i \in 1..Len(c) : c[i] \in Candle
  BY ElementOfSeq, LenProperties
<1> QED
  BY <1>1, <1>2

\* A series has one candle for a time.
LEMMA OneForATime ==
  ASSUME NEW c \in Seq(Candle), Ascending(c), NEW a \in Bars(c), NEW b \in Bars(c), a.time = b.time
  PROVE  a = b
<1>1. PICK i \in DOMAIN c : a = c[i]
  BY DEF Bars
<1>2. PICK j \in DOMAIN c : b = c[j]
  BY DEF Bars
<1>3. i \in Nat /\ j \in Nat /\ c[i].time \in Int /\ c[j].time \in Int
  BY <1>1, <1>2, Elements
<1>4. ~(i < j) /\ ~(j < i)
  BY <1>1, <1>2, <1>3 DEF Ascending
<1> QED
  BY <1>1, <1>2, <1>3, <1>4

LEMMA TimesAreOfBars ==
  ASSUME NEW c
  PROVE  Times(c) = {b.time : b \in Bars(c)}
BY DEF Times, Bars

\* lower_bound splits a series.
LEMMA BeforeSplits ==
  ASSUME NEW c \in Seq(Candle), Ascending(c), NEW t \in Int
  PROVE  /\ Before(c, t) \in 0..Len(c) /\ Before(c, t) \in Nat
         /\ \A i \in 1..Before(c, t) : c[i].time < t
         /\ \A i \in Before(c, t) + 1..Len(c) : c[i].time >= t
<1> DEFINE Splits(m) == m = Len(c) \/ c[m + 1].time >= t
           T == {m \in 0..Len(c) : Splits(m)}
<1>1. Len(c) \in Nat /\ DOMAIN c = 1..Len(c) /\ \A i \in 1..Len(c) : c[i].time \in Int
  BY Elements
<1>2. T \in SUBSET Nat /\ Len(c) \in T
  <2>1. Splits(Len(c)) /\ Len(c) \in 0..Len(c)
    BY <1>1
  <2> HIDE DEF Splits
  <2> QED
    BY <1>1, <2>1
<1>3. \E n \in 0..Len(c) : Splits(n) /\ \A m \in 0..Len(c) : Splits(m) => n <= m
  <2>1. \A m : m \in T <=> m \in 0..Len(c) /\ Splits(m)
    OBVIOUS
  <2> HIDE DEF T, Splits
  <2>2. PICK n \in T : \A m \in T : n <= m
    BY <1>2, LeastNumber
  <2> QED
    BY <2>1, <2>2
<1> HIDE DEF T, Splits
<1>4. PICK n \in 0..Len(c) : Splits(n) /\ \A m \in 0..Len(c) : Splits(m) => n <= m
  BY <1>3
<1>5. ASSUME NEW i \in 1..n PROVE c[i].time < t
  <2>1. i - 1 \in 0..Len(c) /\ ~(n <= i - 1) /\ i \in 1..Len(c) /\ (i - 1) + 1 = i
    BY <1>1
  <2>2. ~Splits(i - 1)
    BY <1>4, <2>1
  <2>3. ~(c[i].time >= t)
    BY <2>1, <2>2 DEF Splits
  <2> QED
    BY <1>1, <2>1, <2>3
<1>6. Before(c, t) \in 0..Len(c) /\ (\A i \in 1..Before(c, t) : c[i].time < t)
      /\ (Before(c, t) = Len(c) \/ c[Before(c, t) + 1].time >= t)
  <2> DEFINE P(m) == (\A i \in 1..m : c[i].time < t) /\ (m = Len(c) \/ c[m + 1].time >= t)
  <2>1. n \in 0..Len(c) /\ P(n)
    BY <1>4, <1>5 DEF Splits
  <2>2. Before(c, t) = CHOOSE m \in 0..Len(c) : P(m)
    BY DEF Before
  <2> HIDE DEF P
  <2>3. Before(c, t) \in 0..Len(c) /\ P(Before(c, t))
    BY <2>1, <2>2
  <2> QED
    BY <2>3 DEF P
<1>7. ASSUME NEW b \in Nat, b = Before(c, t), NEW i \in b + 1..Len(c) PROVE c[i].time >= t
  <2>1. b \in 0..Len(c) /\ (b = Len(c) \/ c[b + 1].time >= t)
    BY <1>6, <1>7
  <2>2. b + 1 \in 1..Len(c) /\ i \in 1..Len(c) /\ (b + 1 = i \/ b + 1 < i) /\ c[b + 1].time >= t
    <3> DEFINE l == Len(c)
    <3>1. l \in Nat /\ i \in b + 1..l /\ b \in 0..l /\ (b = l \/ c[b + 1].time >= t)
      BY <1>1, <2>1
    <3> HIDE DEF l
    <3>2. b # l /\ b + 1 \in 1..l /\ i \in 1..l /\ (b + 1 = i \/ b + 1 < i)
      BY <3>1
    <3> QED
      BY <3>1, <3>2 DEF l
  <2>3. b + 1 < i => c[b + 1].time < c[i].time
    BY <1>1, <2>2 DEF Ascending
  <2>4. c[b + 1].time \in Int /\ c[i].time \in Int
    BY <1>1, <2>2
  <2> QED
    BY <2>2, <2>3, <2>4, SMTT(30)
<1>8. Before(c, t) \in Nat
  BY <1>1, <1>6
<1> QED
  BY <1>6, <1>7, <1>8

\* What SubSeq leaves after the first n candles.
LEMMA RestOfSeries ==
  ASSUME NEW c \in Seq(Candle), NEW n \in 0..Len(c)
  PROVE  LET z == SubSeq(c, n + 1, Len(c))
         IN  z \in Seq(Candle) /\ Len(z) = Len(c) - n /\ \A i \in 1..(Len(c) - n) : z[i] = c[n + i]
<1> DEFINE z == SubSeq(c, n + 1, Len(c))
<1>0. Len(c) \in Nat /\ n \in Nat /\ n <= Len(c) /\ DOMAIN c = 1..Len(c)
  OBVIOUS
<1> HIDE DEF Candle
<1>1. n + 1 \in Int /\ Len(c) \in Int /\ \A i \in n + 1..Len(c) : c[i] \in Candle
  BY <1>0, Elements
<1>2. /\ z \in Seq(Candle)
      /\ Len(z) = IF n + 1 <= Len(c) THEN Len(c) - (n + 1) + 1 ELSE 0
      /\ \A i \in 1..Len(c) - (n + 1) + 1 : z[i] = c[(n + 1) + i - 1]
  BY <1>1, SubSeqProperties
<1> DEFINE l == Len(c)
<1>3. l \in Nat /\ n \in 0..l /\ z \in Seq(Candle)
      /\ Len(z) = (IF n + 1 <= l THEN l - (n + 1) + 1 ELSE 0)
      /\ \A i \in 1..l - (n + 1) + 1 : z[i] = c[(n + 1) + i - 1]
  BY <1>0, <1>2
<1> HIDE DEF l, z
<1>4. Len(z) = l - n /\ \A i \in 1..(l - n) : z[i] = c[n + i]
  <2>1. l - (n + 1) + 1 = l - n /\ (~(n + 1 <= l) => l - n = 0)
    BY <1>3
  <2>2. \A i \in 1..(l - n) : (n + 1) + i - 1 = n + i
    BY <1>3
  <2> QED
    BY <1>3, <2>1, <2>2
<1> QED
  BY <1>3, <1>4 DEF l, z

\* trimCandlesToActiveWindow drops the bars before the window.
LEMMA TrimKeeps ==
  ASSUME NEW c \in Seq(Candle), Ascending(c), now \in Int
  PROVE  /\ Trim(c) \in Seq(Candle) /\ Ascending(Trim(c))
         /\ Bars(Trim(c)) = {b \in Bars(c) : b.time >= now - Lookback - 1}
<1> DEFINE cut == now - Lookback - 1
           n == Before(c, cut)
           s == SubSeq(c, n + 1, Len(c))
<1>1. cut \in Int
  BY BoundsAssumption
<1>2. /\ n \in 0..Len(c) /\ \A i \in 1..n : c[i].time < cut
      /\ \A i \in n + 1..Len(c) : c[i].time >= cut
  <2> HIDE DEF cut
  <2> QED
    BY <1>1, BeforeSplits
<1>3. Trim(c) = s
  BY DEF Trim
<1>4. Len(c) \in Nat /\ DOMAIN c = 1..Len(c) /\ \A i \in DOMAIN c : c[i] \in Candle /\ c[i].time \in Int
  BY Elements
<1> HIDE DEF n, cut
<1>5. /\ s \in Seq(Candle) /\ Len(s) = Len(c) - n /\ DOMAIN s = 1..(Len(c) - n)
      /\ \A i \in 1..(Len(c) - n) : s[i] = c[n + i] /\ n + i \in DOMAIN c /\ n + i \in n + 1..Len(c)
  <2>1. s \in Seq(Candle) /\ Len(s) = Len(c) - n /\ \A i \in 1..(Len(c) - n) : s[i] = c[n + i]
    BY <1>2, RestOfSeries
  <2> HIDE DEF s, Candle
  <2>2. DOMAIN s = 1..(Len(c) - n)
    BY <2>1, LenProperties
  <2>3. \A i \in 1..(Len(c) - n) : n + i \in DOMAIN c /\ n + i \in n + 1..Len(c)
    BY <1>2, <1>4
  <2> QED
    BY <2>1, <2>2, <2>3
<1> HIDE DEF s
<1>6. Ascending(s)
  <2> SUFFICES ASSUME NEW i \in 1..(Len(c) - n), NEW j \in 1..(Len(c) - n), i < j
               PROVE  s[i].time < s[j].time
    BY <1>5 DEF Ascending
  <2>1. n + i \in DOMAIN c /\ n + j \in DOMAIN c /\ n + i < n + j
    BY <1>2, <1>4, <1>5
  <2>2. c[n + i].time < c[n + j].time
    BY <2>1 DEF Ascending
  <2> QED
    BY <1>5, <2>2
<1>7. \A b \in Bars(s) : b \in Bars(c) /\ b.time >= cut
  BY <1>2, <1>5 DEF Bars
<1>8. ASSUME NEW b \in Bars(c), b.time >= cut PROVE b \in Bars(s)
  <2>1. PICK i \in DOMAIN c : b = c[i]
    BY DEF Bars
  <2>2. ~(i \in 1..n)
    BY <1>1, <1>2, <1>4, <1>8, <2>1
  <2>3. i - n \in 1..(Len(c) - n) /\ n + (i - n) = i
    BY <1>2, <1>4, <2>1, <2>2
  <2>4. b = s[i - n]
    BY <1>5, <2>1, <2>3
  <2> QED
    BY <1>5, <2>3, <2>4 DEF Bars
<1> QED
  BY <1>3, <1>5, <1>6, <1>7, <1>8 DEF cut

\* A bar put between those before and those after it.
LEMMA InsertedBetween ==
  ASSUME NEW c \in Seq(Candle), NEW n \in 0..Len(c), NEW bar \in Candle
  PROVE  LET s == Inserted(c, n, bar)
         IN  /\ s \in Seq(Candle) /\ Len(s) = Len(c) + 1 /\ DOMAIN s = 1..(Len(c) + 1)
             /\ \A i \in 1..n : s[i] = c[i]
             /\ s[n + 1] = bar
             /\ \A i \in n + 1..Len(c) : s[i + 1] = c[i]
<1> DEFINE a == SubSeq(c, 1, n)
           z == SubSeq(c, n + 1, Len(c))
<1>1. Len(c) \in Nat /\ n \in Nat /\ n <= Len(c) /\ DOMAIN c = 1..Len(c)
  OBVIOUS
<1>2. a \in Seq(Candle) /\ Len(a) = n /\ \A i \in 1..n : a[i] = c[i]
  BY <1>1
<1>3. z \in Seq(Candle) /\ Len(z) = Len(c) - n /\ \A i \in 1..(Len(c) - n) : z[i] = c[n + i]
  BY RestOfSeries
<1> DEFINE m == a \o <<bar>>
           s == m \o z
<1> HIDE DEF a, z
<1>4. m \in Seq(Candle) /\ Len(m) = n + 1 /\ m[n + 1] = bar /\ \A i \in 1..n : m[i] = c[i]
  BY <1>1, <1>2
<1> HIDE DEF m
<1>5. /\ s \in Seq(Candle) /\ Len(s) = Len(c) + 1 /\ DOMAIN s = 1..(Len(c) + 1)
      /\ \A i \in 1..(n + 1) : s[i] = m[i]
      /\ \A i \in n + 2..Len(c) + 1 : s[i] = z[i - (n + 1)]
  BY <1>1, <1>3, <1>4
<1> HIDE DEF s
<1>6. ASSUME NEW i \in n + 1..Len(c) PROVE s[i + 1] = c[i]
  <2>1. i + 1 \in n + 2..Len(c) + 1 /\ (i + 1) - (n + 1) = i - n /\ i - n \in 1..(Len(c) - n) /\ n + (i - n) = i
    BY <1>1
  <2> QED
    BY <1>3, <1>5, <2>1
<1>7. Inserted(c, n, bar) = s
  BY DEF Inserted, s, m, a, z
<1>8. \A i \in 1..n : s[i] = c[i]
  BY <1>1, <1>4, <1>5
<1>9. s[n + 1] = bar
  BY <1>1, <1>4, <1>5
<1> QED
  BY <1>5, <1>6, <1>7, <1>8, <1>9

\* mergeCandle puts the bar in the place of the one of its time.
LEMMA MergePuts ==
  ASSUME NEW c \in Seq(Candle), Ascending(c), NEW bar \in Candle
  PROVE  /\ Merge(c, bar) \in Seq(Candle) /\ Ascending(Merge(c, bar))
         /\ Bars(Merge(c, bar)) = {b \in Bars(c) : b.time # bar.time} \cup {bar}
<1> DEFINE n == Before(c, bar.time)
           l == Len(c)
           s == Merge(c, bar)
           found == n < l /\ c[n + 1].time = bar.time
<1>1. /\ l \in Nat /\ DOMAIN c = 1..l /\ bar.time \in Int
      /\ \A i \in 1..l : c[i] \in Candle /\ c[i].time \in Int
  BY Elements DEF Candle
<1>2. /\ n \in 0..l /\ n \in Nat /\ \A i \in 1..n : c[i].time < bar.time
      /\ \A i \in n + 1..l : c[i].time >= bar.time
  <2> HIDE DEF Candle
  <2> QED
    BY <1>1, BeforeSplits
<1>3. \A i, j \in 1..l : i < j => c[i].time < c[j].time
  BY <1>1 DEF Ascending
<1>4. s = IF found THEN [c EXCEPT ![n + 1] = bar] ELSE Inserted(c, n, bar)
  BY DEF Merge
<1>5. CASE found
  <2>1. n + 1 \in 1..l /\ c[n + 1].time = bar.time
    BY <1>1, <1>2, <1>5
  <2>2. s = [c EXCEPT ![n + 1] = bar]
    BY <1>4, <1>5
  <2> HIDE DEF n, l, s, found, Candle
  <2>3. /\ s \in Seq(Candle) /\ Len(s) = l
        /\ \A j \in 1..l : s[j] = IF j = n + 1 THEN bar ELSE c[j]
    BY <2>1, <2>2, ExceptSeq DEF l
  <2>4. DOMAIN s = 1..l /\ \A j \in 1..l : s[j].time = c[j].time
    BY <2>1, <2>3, Elements
  <2>5. Ascending(s)
    BY <1>3, <2>4 DEF Ascending
  <2>6. ASSUME NEW b \in Bars(s) PROVE b = bar \/ (b \in Bars(c) /\ b.time # bar.time)
    <3>1. PICK j \in 1..l : b = s[j]
      BY <2>4 DEF Bars
    <3>2. CASE j = n + 1
      BY <2>3, <3>1, <3>2
    <3>3. CASE j # n + 1
      <4>1. b = c[j] /\ b \in Bars(c)
        BY <1>1, <2>3, <3>1, <3>3 DEF Bars
      <4>2. j < n + 1 \/ n + 1 < j
        BY <1>2, <3>3
      <4>3. c[j].time < c[n + 1].time \/ c[n + 1].time < c[j].time
        BY <1>3, <2>1, <4>2
      <4>4. c[j].time \in Int /\ c[n + 1].time \in Int
        BY <1>1, <2>1
      <4> QED
        BY <2>1, <4>1, <4>3, <4>4
    <3> QED
      BY <3>2, <3>3
  <2>7. bar \in Bars(s)
    BY <2>1, <2>3, <2>4 DEF Bars
  <2>8. ASSUME NEW b \in Bars(c), b.time # bar.time PROVE b \in Bars(s)
    <3>1. PICK j \in 1..l : b = c[j]
      BY <1>1 DEF Bars
    <3>2. j # n + 1
      BY <2>1, <2>8, <3>1
    <3> QED
      BY <2>3, <2>4, <3>1, <3>2 DEF Bars
  <2>9. Bars(s) = {b \in Bars(c) : b.time # bar.time} \cup {bar}
    BY <2>6, <2>7, <2>8
  <2> QED
    BY <2>3, <2>5, <2>9 DEF s
<1>6. CASE ~found
  <2>1. s = Inserted(c, n, bar)
    BY <1>4, <1>6
  <2>2. /\ s \in Seq(Candle) /\ DOMAIN s = 1..(l + 1)
        /\ \A i \in 1..n : s[i] = c[i]
        /\ s[n + 1] = bar
        /\ \A i \in n + 1..l : s[i + 1] = c[i]
    <3> HIDE DEF n, s, Candle
    <3> QED
      BY <1>2, <2>1, InsertedBetween
  <2>3. ~(n < l) \/ c[n + 1].time # bar.time
    BY <1>6
  <2> HIDE DEF n, l, s, found, Candle
  <2>4. ASSUME NEW i \in n + 1..l PROVE c[i].time > bar.time /\ i \in 1..l
    <3>1. n < l /\ n + 1 \in n + 1..l /\ i \in 1..l /\ n + 1 \in 1..l /\ (i = n + 1 \/ n + 1 < i)
      BY <1>1, <1>2
    <3>2. c[n + 1].time \in Int /\ c[i].time \in Int
      BY <1>1, <3>1
    <3>3. c[n + 1].time > bar.time
      BY <1>1, <1>2, <2>3, <3>1, <3>2
    <3>4. i = n + 1 \/ c[n + 1].time < c[i].time
      BY <1>3, <3>1
    <3> QED
      BY <1>1, <3>1, <3>2, <3>3, <3>4
  <2>5. ASSUME NEW i \in 1..(l + 1)
        PROVE  \/ i \in 1..n /\ i \in 1..l /\ s[i] = c[i]
               \/ i = n + 1 /\ s[i] = bar
               \/ /\ i - 1 \in n + 1..l /\ i - 1 \in 1..l /\ i > n + 1
                  /\ s[i] = c[i - 1]
    <3>1. (i \in 1..n /\ i \in 1..l) \/ i = n + 1 \/ (i - 1 \in n + 1..l /\ i - 1 \in 1..l /\ i > n + 1 /\ (i - 1) + 1 = i)
      BY <1>1, <1>2
    <3> QED
      BY <2>2, <3>1
  <2>6. Ascending(s)
    <3> SUFFICES ASSUME NEW i \in 1..(l + 1), NEW j \in 1..(l + 1), i < j
                 PROVE  s[i].time < s[j].time
      BY <2>2 DEF Ascending
    <3>1. CASE i \in 1..n
      <4>1. s[i] = c[i] /\ i \in 1..l /\ c[i].time < bar.time
        BY <1>1, <1>2, <2>2, <3>1
      <4>2. CASE j \in 1..n
        BY <1>1, <1>2, <1>3, <2>2, <4>1, <4>2
      <4>3. CASE j = n + 1
        BY <2>2, <4>1, <4>3
      <4>4. CASE j - 1 \in n + 1..l
        <5>1. s[j] = c[j - 1] /\ c[j - 1].time > bar.time /\ j - 1 \in 1..l
          BY <1>2, <2>4, <2>5, <4>4
        <5>2. c[i].time \in Int /\ c[j - 1].time \in Int
          BY <1>1, <4>1, <5>1
        <5> QED
          BY <1>1, <4>1, <5>1, <5>2
      <4> QED
        BY <2>5, <4>2, <4>3, <4>4
    <3>2. CASE i = n + 1
      <4>1. j - 1 \in n + 1..l /\ s[i] = bar
        BY <1>1, <1>2, <2>2, <3>2
      <4>2. s[j] = c[j - 1] /\ c[j - 1].time > bar.time /\ j - 1 \in 1..l
        BY <1>2, <2>4, <2>5, <4>1
      <4>3. c[j - 1].time \in Int
        BY <1>1, <4>2
      <4> QED
        BY <1>1, <4>1, <4>2, <4>3
    <3>3. CASE i - 1 \in n + 1..l
      <4>1. j - 1 \in n + 1..l /\ j - 1 \in 1..l /\ i - 1 \in 1..l /\ i - 1 < j - 1
        BY <1>1, <1>2, <3>3
      <4>2. s[i] = c[i - 1] /\ s[j] = c[j - 1]
        BY <1>2, <2>5, <3>3, <4>1
      <4> QED
        BY <1>3, <4>1, <4>2
    <3> QED
      BY <2>5, <3>1, <3>2, <3>3
  <2>7. ASSUME NEW b \in Bars(s) PROVE b = bar \/ (b \in Bars(c) /\ b.time # bar.time)
    <3>1. PICK i \in 1..(l + 1) : b = s[i]
      BY <2>2 DEF Bars
    <3>2. ASSUME NEW j \in 1..l, b = c[j], j \in 1..n \/ j \in n + 1..l
          PROVE  b \in Bars(c) /\ b.time # bar.time
      <4>1. c[j].time \in Int /\ (c[j].time < bar.time \/ c[j].time > bar.time)
        BY <1>1, <1>2, <2>4, <3>2
      <4> QED
        BY <1>1, <3>2, <4>1 DEF Bars
    <3> QED
      BY <2>5, <3>1, <3>2
  <2>8. bar \in Bars(s)
    <3>1. n + 1 \in 1..(l + 1)
      BY <1>1, <1>2
    <3> QED
      BY <2>2, <3>1 DEF Bars
  <2>9. ASSUME NEW b \in Bars(c), b.time # bar.time PROVE b \in Bars(s)
    <3>1. PICK j \in 1..l : b = c[j]
      BY <1>1 DEF Bars
    <3>2. (j \in 1..n /\ j \in 1..(l + 1)) \/ (j \in n + 1..l /\ j + 1 \in 1..(l + 1))
      BY <1>1, <1>2
    <3> QED
      BY <2>2, <3>1, <3>2 DEF Bars
  <2>10. Bars(s) = {b \in Bars(c) : b.time # bar.time} \cup {bar}
    BY <2>7, <2>8, <2>9
  <2> QED
    BY <2>2, <2>6, <2>10 DEF s
<1> QED
  BY <1>5, <1>6

\* upsertCandle merges a bar that has one lot more than the one of its time.
LEMMA UpsertMerges ==
  ASSUME NEW c \in Seq(Candle), Ascending(c), NEW t \in Int
  PROVE  \E v \in Nat : /\ Upsert(c, t) = Merge(c, Bar(t, v))
                        /\ \A b \in Bars(c) : b.time = t => v = b.volume + 1
                        /\ v > 0
<1> DEFINE n == Before(c, t)
           l == Len(c)
           found == n < l /\ c[n + 1].time = t
<1>1. /\ l \in Nat /\ DOMAIN c = 1..l
      /\ \A i \in 1..l : c[i] \in Candle /\ c[i].time \in Int /\ c[i].volume \in Nat
  BY Elements
<1>2. /\ n \in 0..l /\ n \in Nat /\ \A i \in 1..n : c[i].time < t
      /\ \A i \in n + 1..l : c[i].time >= t
  <2> HIDE DEF Candle
  <2> QED
    BY BeforeSplits
<1>3. CASE found
  <2>1. n + 1 \in 1..l /\ c[n + 1].time = t
    BY <1>1, <1>2, <1>3
  <2> DEFINE v == c[n + 1].volume + 1
  <2>2. v \in Nat /\ v > 0 /\ c[n + 1] \in Candle
    BY <1>1, <2>1
  <2>3. [c[n + 1] EXCEPT !.volume = c[n + 1].volume + 1] = Bar(t, v)
    BY <2>1, <2>2 DEF Candle, Bar
  <2>4. Upsert(c, t) = [c EXCEPT ![n + 1].volume = @ + 1]
    BY <1>3 DEF Upsert
  <2>5. [c EXCEPT ![n + 1].volume = @ + 1] = [c EXCEPT ![n + 1] = Bar(t, v)]
    BY <2>3
  <2>6. Merge(c, Bar(t, v)) = [c EXCEPT ![n + 1] = Bar(t, v)]
    BY <1>3 DEF Merge, Bar
  <2>7. \A b \in Bars(c) : b.time = t => v = b.volume + 1
    <3>1. c[n + 1] \in Bars(c)
      BY <1>1, <2>1 DEF Bars
    <3> QED
      BY <2>1, <3>1, OneForATime
  <2> QED
    BY <2>2, <2>4, <2>5, <2>6, <2>7
<1>4. CASE ~found
  <2>1. Upsert(c, t) = Inserted(c, n, Bar(t, 1)) /\ Merge(c, Bar(t, 1)) = Inserted(c, n, Bar(t, 1))
    BY <1>4 DEF Upsert, Merge, Bar
  <2>2. ~(n < l) \/ c[n + 1].time # t
    BY <1>4
  <2> HIDE DEF n, l, found, Candle
  <2>3. ASSUME NEW b \in Bars(c), b.time = t PROVE FALSE
    <3>1. PICK i \in 1..l : b = c[i]
      BY <1>1 DEF Bars
    <3>2. ~(i \in 1..n)
      BY <1>1, <1>2, <2>3, <3>1
    <3>3. i \in n + 1..l /\ n + 1 \in 1..l /\ n < l
      BY <1>1, <1>2, <3>1, <3>2
    <3>4. c[n + 1].time >= t /\ c[n + 1].time \in Int
      BY <1>1, <1>2, <3>3
    <3>5. n + 1 < i => c[n + 1].time < c[i].time
      BY <1>1, <3>1, <3>3 DEF Ascending
    <3>6. i = n + 1 \/ n + 1 < i
      BY <1>2, <3>3
    <3> QED
      BY <2>2, <2>3, <3>1, <3>3, <3>4, <3>5, <3>6
  <2> QED
    BY <2>1, <2>3
<1> QED
  BY <1>3, <1>4

-----------------------------------------------------------------------------
(* The inductive invariant *)

Cut == now - Lookback - 1

Good(c) ==
  /\ c \in Seq(Candle) /\ Ascending(c)
  /\ \A b \in Bars(c) : b.time \in 1..now /\ traded[b.time] > 0

MarketInv ==
  /\ now \in 1..MaxTime /\ traded \in [1..MaxTime -> Nat] /\ told \in [1..MaxTime -> Nat]
  /\ wire \in Seq(1..MaxTime) /\ \A i \in DOMAIN wire : wire[i] \in 1..now /\ traded[wire[i]] > 0

AnswerInv ==
  /\ answer \in Seq(SUBSET Candle)
  /\ \A r \in DOMAIN answer : \A bar \in answer[r] : bar.time \in 1..now /\ traded[bar.time] > 0

FlagsInv ==
  /\ chart \in {"unasked", "open", "away"} /\ historyStage \in {"Idle", "Backfilling", "Active"}
  /\ building \in BOOLEAN /\ complete \in BOOLEAN /\ dirty \in BOOLEAN /\ loaded \in BOOLEAN

\* What is shown is what is remembered; a file of this instrument that is not
\* another's is a series too.
CopiesInv ==
  /\ Good(memory) /\ candles = IF chart = "open" THEN memory ELSE <<>>
  /\ disk # None /\ disk.own => Good(disk.candles)

\* A bar that was told of is remembered until it leaves the window: so a series
\* that is restored from the disk lacks nothing that was told.
ToldInv ==
  \A t \in 1..MaxTime :
    /\ \A b \in Bars(memory) : b.time = t => b.volume >= told[t]
    /\ told[t] > 0 /\ t >= Cut => \E b \in Bars(memory) : b.time = t

OnItsWay(t) == \E r \in DOMAIN answer : \E bar \in answer[r] : bar.time = t

\* What a download was begun for is shown or on its way.
GapInv ==
  /\ gap # {} => chart = "open"
  /\ \A t \in gap : t \in 1..MaxTime /\
       (t >= now - Lookback => (\E b \in Bars(candles) : b.time = t) \/ OnItsWay(t))

CInv == MarketInv /\ AnswerInv /\ FlagsInv /\ CopiesInv /\ ToldInv /\ GapInv

LEMMA EmptySeries == Bars(<<>>) = {} /\ Ascending(<<>>) /\ <<>> \in Seq(Candle)
<1>1. DOMAIN <<>> = {} /\ <<>> \in Seq(Candle)
  <2> HIDE DEF Candle
  <2> QED
    OBVIOUS
<1> QED
  BY <1>1 DEF Bars, Ascending

LEMMA ShownIsGood ==
  ASSUME CInv
  PROVE  Good(candles) /\ (candles # <<>> => chart = "open" /\ memory = candles)
BY EmptySeries DEF CInv, CopiesInv, Good

LEMMA InvHolds == CInv => SeriesIsSound /\ BarsStay /\ GapIsCovered
<1> SUFFICES ASSUME CInv PROVE SeriesIsSound /\ BarsStay /\ GapIsCovered
  OBVIOUS
<1>1. Good(candles) /\ Good(memory) /\ (candles # <<>> => memory = candles)
  BY ShownIsGood DEF CInv, CopiesInv
<1>2. TypeOK
  <2>1. /\ candles \in Seq([time : Int, volume : Nat]) /\ memory \in Seq([time : Int, volume : Nat])
        /\ answer \in Seq(SUBSET [time : Int, volume : Nat])
    BY <1>1 DEF CInv, AnswerInv, Good, Candle
  <2> QED
    BY <2>1 DEF CInv, MarketInv, FlagsInv, TypeOK
<1>3. \A c \in {candles, memory} : Ascending(c) /\ \A t \in Times(c) : t \in 1..now /\ traded[t] > 0
  BY <1>1, TimesAreOfBars DEF Good
<1>4. ASSUME NEW i \in DOMAIN candles PROVE candles[i].volume >= told[candles[i].time]
  <2>1. candles = memory
    BY <1>1, <1>4
  <2>2. memory[i] \in Bars(memory)
    BY <1>4, <2>1 DEF Bars
  <2>3. memory[i].time \in 1..MaxTime
    <3>1. memory[i].time \in 1..now /\ now \in 1..MaxTime
      BY <1>1, <2>2 DEF CInv, MarketInv, Good
    <3>2. MaxTime \in Nat
      BY BoundsAssumption
    <3> QED
      BY <3>1, <3>2
  <2> QED
    BY <2>1, <2>2, <2>3 DEF CInv, ToldInv
<1>5. ASSUME NEW t \in gap, t >= now - Lookback
      PROVE  t \in Times(candles) \/ \E r \in DOMAIN answer : t \in {bar.time : bar \in answer[r]}
  BY <1>5, TimesAreOfBars DEF CInv, GapInv, OnItsWay
<1> QED
  BY <1>1, <1>2, <1>3, <1>4, <1>5 DEF SeriesIsSound, BarsStay, GapIsCovered

LEMMA InitInv == Init => CInv
<1> SUFFICES ASSUME Init PROVE CInv
  OBVIOUS
<1>1. MaxTime \in Nat \ {0} /\ 1 \in 1..MaxTime
  BY BoundsAssumption
<1>2. MarketInv
  BY <1>1 DEF Init, MarketInv
<1>3. FlagsInv
  BY DEF Init, FlagsInv
<1>4. AnswerInv
  BY DEF Init, AnswerInv
<1>5. CopiesInv /\ ToldInv /\ GapInv
  BY EmptySeries DEF Init, CopiesInv, Good, ToldInv, GapInv
<1> QED
  BY <1>2, <1>3, <1>4, <1>5 DEF CInv

-----------------------------------------------------------------------------
(* A download begins *)

LEMMA TrimOfGood ==
  ASSUME CInv, NEW c, Good(c)
  PROVE  /\ Good(Trim(c))
         /\ Bars(Trim(c)) = {b \in Bars(c) : b.time >= Cut}
<1>1. now \in Int
  BY DEF CInv, MarketInv
<1>2. c \in Seq(Candle) /\ Ascending(c) /\ \A b \in Bars(c) : b.time \in 1..now /\ traded[b.time] > 0
  BY DEF Good
<1> HIDE DEF Candle
<1>3. /\ Trim(c) \in Seq(Candle) /\ Ascending(Trim(c))
      /\ Bars(Trim(c)) = {b \in Bars(c) : b.time >= Cut}
  BY <1>1, <1>2, TrimKeeps DEF Cut
<1> QED
  BY <1>2, <1>3 DEF Good

\* The bars asked for reach back to the last candle.
LEMMA GapIsAskedFor ==
  ASSUME CInv, NEW c, Good(c), NEW t \in 1..now, t >= now - Lookback,
         c = <<>> \/ t > LastTime(c)
  PROVE  GapBars(c) \in Nat /\ t \in now - GapBars(c)..now
<1>1. Lookback \in Nat /\ Lookback > 0 /\ Overlap \in Nat /\ now \in Nat /\ t \in Nat /\ t <= now
  BY BoundsAssumption DEF CInv, MarketInv
<1>2. CASE c = <<>>
  <2>1. GapBars(c) = Lookback
    BY <1>2 DEF GapBars
  <2> QED
    BY <1>1, <2>1
<1>3. CASE c # <<>>
  <2>1. LastTime(c) \in Nat
    <3>1. c \in Seq(Candle)
      BY DEF Good
    <3>2. Len(c) \in DOMAIN c
      BY <1>3, <3>1, EmptySeq, LenProperties
    <3>3. c[Len(c)] \in Bars(c)
      BY <3>2 DEF Bars
    <3> QED
      BY <1>1, <3>3 DEF Good, LastTime, Last
  <2> DEFINE missing == IF now > LastTime(c) + 1 THEN now - (LastTime(c) + 1) ELSE 0
             asked == missing + Overlap
  <2>2. GapBars(c) = CASE asked > Lookback -> Lookback
                       [] asked < 1 -> 1
                       [] OTHER -> asked
    BY <1>3 DEF GapBars
  <2> QED
    BY <1>1, <1>3, <2>1, <2>2
<1> QED
  BY <1>2, <1>3

\* A replay more: what was on its way still is.
LEMMA AnswerAppended ==
  ASSUME CInv, NEW S \in SUBSET Candle, answer' = Append(answer, S)
  PROVE  /\ answer' \in Seq(SUBSET Candle)
         /\ DOMAIN answer' = DOMAIN answer \cup {Len(answer) + 1}
         /\ answer'[Len(answer) + 1] = S
         /\ \A r \in DOMAIN answer : answer'[r] = answer[r]
<1>1. answer \in Seq(SUBSET Candle)
  BY DEF CInv, AnswerInv
<1> HIDE DEF Candle
<1>2. Len(answer) \in Nat /\ DOMAIN answer = 1..Len(answer)
  BY <1>1
<1>3. /\ answer' \in Seq(SUBSET Candle) /\ Len(answer') = Len(answer) + 1
      /\ DOMAIN answer' = 1..(Len(answer) + 1)
      /\ answer'[Len(answer) + 1] = S
      /\ \A r \in 1..Len(answer) : answer'[r] = answer[r]
  BY <1>1, AppendProperties
<1> QED
  BY <1>2, <1>3

LEMMA BackfillStarts ==
  ASSUME CInv, StartChartBackfill(candles, memory, refreshed),
         UNCHANGED <<now, traded, told, disk, dirty>>, chart' = "open",
         wire' = wire \/ wire' = <<>>
  PROVE  CInv'
<1> DEFINE cached == IF memory # <<>> THEN memory ELSE Loaded
           known == Trim(cached)
           asked == {Bar(t, traded[t]) : t \in
                       {t \in now - GapBars(known) .. now : t > 0 /\ traded[t] > 0}}
           new == {t \in now - Lookback .. now :
                     /\ known = <<>> \/ t > LastTime(known)
                     /\ t > 0 /\ traded[t] > 0}
<1>1. Good(cached)
  <2>1. Good(<<>>)
    BY EmptySeries DEF Good
  <2> QED
    BY <2>1 DEF CInv, CopiesInv, Loaded
<1> HIDE DEF cached
<1>2. Good(known) /\ Bars(known) = {b \in Bars(cached) : b.time >= Cut}
  BY <1>1, TrimOfGood
<1>3. candles' = known /\ memory' = known
  <2>1. memory' = known /\ candles' = IF cached # <<>> THEN known ELSE candles
    BY DEF StartChartBackfill, cached
  <2>2. CASE cached = <<>>
    <3>1. memory = <<>> /\ candles = <<>>
      BY <2>2 DEF cached, CInv, CopiesInv
    <3>2. known = <<>>
      <4>1. known \in Seq(Candle) /\ Bars(known) = {}
        BY <1>2, <2>2, EmptySeries DEF Good
      <4> HIDE DEF known, Candle
      <4>2. DOMAIN known = {}
        BY <4>1 DEF Bars
      <4> QED
        BY <4>1, <4>2
    <3> QED
      BY <2>1, <2>2, <3>1, <3>2
  <2> QED
    BY <2>1, <2>2
<1>4. \A t \in 1..MaxTime :
        /\ \A b \in Bars(known) : b.time = t => b.volume >= told[t]
        /\ told[t] > 0 /\ t >= Cut => \E b \in Bars(known) : b.time = t
  <2>1. CASE memory # <<>>
    <3>1. cached = memory
      BY <2>1 DEF cached
    <3> HIDE DEF known
    <3> QED
      BY <1>2, <3>1 DEF CInv, ToldInv
  <2>2. CASE memory = <<>>
    <3>1. Bars(memory) = {}
      BY <2>2, EmptySeries
    <3>2. \A t \in 1..MaxTime : told[t] \in Nat /\ (t >= Cut => told[t] = 0)
      BY <3>1 DEF CInv, ToldInv, MarketInv
    <3> HIDE DEF known, Candle
    <3>3. ASSUME NEW b \in Bars(known) PROVE b.volume \in Nat /\ b.time >= Cut
      <4>1. PICK i \in DOMAIN known : b = known[i]
        BY DEF Bars
      <4> QED
        BY <1>2, <4>1, Elements DEF Good
    <3> QED
      BY <3>2, <3>3
  <2> QED
    BY <2>1, <2>2
\* What was shown and is in the window still is.
<1>5. ASSUME NEW b \in Bars(candles), b.time >= Cut PROVE b \in Bars(known)
  <2>1. candles # <<>>
    BY <1>5, EmptySeries
  <2>2. candles = cached
    BY <2>1, ShownIsGood DEF cached
  <2> HIDE DEF known
  <2> QED
    BY <1>2, <1>5, <2>2
<1> HIDE DEF known
<1>6. CopiesInv' /\ ToldInv'
  BY <1>2, <1>3, <1>4 DEF CInv, CopiesInv, ToldInv, Good, Cut
<1>7. \/ building' = FALSE /\ complete' = TRUE /\ UNCHANGED <<answer, historyStage, loaded, gap>>
      \/ /\ building' = TRUE /\ complete' = FALSE
         /\ gap' = gap \cup new
         /\ answer' = Append(answer, asked)
         /\ historyStage' = "Backfilling" /\ loaded' = FALSE
  BY Zenon DEF StartChartBackfill, cached, known, history
<1>8. now \in Nat /\ Lookback \in Nat /\ now <= MaxTime /\ MaxTime \in Nat /\ traded \in [1..MaxTime -> Nat]
  BY BoundsAssumption DEF CInv, MarketInv
<1>9. ASSUME NEW bar \in asked PROVE bar \in Candle /\ bar.time \in 1..now /\ traded[bar.time] > 0
  <2>1. PICK t \in now - GapBars(known) .. now : t > 0 /\ traded[t] > 0 /\ bar = Bar(t, traded[t])
    BY <1>9
  <2>2. t \in 1..now /\ t \in 1..MaxTime /\ traded[t] \in Nat /\ t \in Int
    BY <1>8, <2>1
  <2> QED
    BY <2>1, <2>2 DEF Bar, Candle
<1>10. MarketInv'
  <2>1. wire' \in Seq(1..MaxTime) /\ \A i \in DOMAIN wire' : wire'[i] \in 1..now /\ traded[wire'[i]] > 0
    <3>1. CASE wire' = wire
      BY <3>1 DEF CInv, MarketInv
    <3>2. CASE wire' = <<>>
      BY <3>2
    <3> QED
      BY <3>1, <3>2
  <2> QED
    BY <2>1 DEF CInv, MarketInv
<1>11. FlagsInv'
  BY <1>7 DEF CInv, FlagsInv
<1>12. ASSUME NEW t \in new
       PROVE  t \in 1..MaxTime /\ \E bar \in asked : bar.time = t
  <2>1. t \in now - Lookback .. now /\ t > 0 /\ traded[t] > 0 /\ (known = <<>> \/ t > LastTime(known))
    BY <1>12
  <2>2. t \in 1..now /\ t \in 1..MaxTime /\ t >= now - Lookback
    BY <1>8, <2>1
  <2>3. t \in now - GapBars(known)..now
    BY <1>2, <2>1, <2>2, GapIsAskedFor
  <2>4. Bar(t, traded[t]) \in asked /\ Bar(t, traded[t]).time = t
    BY <2>1, <2>3 DEF Bar
  <2> QED
    BY <2>2, <2>4
<1>13. asked \in SUBSET Candle
  BY <1>9
<1> HIDE DEF asked, new, Candle
<1>14. answer' = Append(answer, asked) =>
         /\ answer' \in Seq(SUBSET Candle)
         /\ DOMAIN answer' = DOMAIN answer \cup {Len(answer) + 1}
         /\ answer'[Len(answer) + 1] = asked
         /\ \A r \in DOMAIN answer : answer'[r] = answer[r]
  BY <1>13, AnswerAppended
<1>15. AnswerInv'
  <2>1. CASE UNCHANGED answer
    BY <2>1 DEF CInv, AnswerInv
  <2>2. CASE answer' = Append(answer, asked)
    BY <1>9, <1>14, <2>2 DEF CInv, AnswerInv
  <2> QED
    BY <1>7, <2>1, <2>2
<1>16. \A t : OnItsWay(t) => OnItsWay(t)'
  <2>1. CASE UNCHANGED answer
    BY <2>1 DEF OnItsWay
  <2>2. CASE answer' = Append(answer, asked)
    BY <1>14, <2>2 DEF OnItsWay
  <2> QED
    BY <1>7, <2>1, <2>2
<1>17. ASSUME NEW t \in gap'
       PROVE  /\ t \in 1..MaxTime
              /\ t >= now - Lookback => (\E b \in Bars(candles') : b.time = t) \/ OnItsWay(t)'
  <2>1. CASE t \in gap
    <3>1. /\ t \in 1..MaxTime
          /\ t >= now - Lookback => (\E b \in Bars(candles) : b.time = t) \/ OnItsWay(t)
      BY <2>1 DEF CInv, GapInv
    <3>2. t >= now - Lookback => t >= Cut
      BY <1>8, <3>1 DEF Cut
    <3>3. (t >= Cut /\ \E b \in Bars(candles) : b.time = t) => \E b \in Bars(candles') : b.time = t
      BY <1>3, <1>5
    <3> QED
      BY <1>16, <3>1, <3>2, <3>3
  <2>2. CASE t \notin gap
    <3>1. t \in new /\ answer' = Append(answer, asked)
      BY <1>7, <1>17, <2>2
    <3>2. OnItsWay(t)'
      BY <1>12, <1>14, <3>1 DEF OnItsWay
    <3> QED
      BY <1>12, <3>1, <3>2
  <2> QED
    BY <2>1, <2>2
<1>18. GapInv'
  BY <1>17 DEF GapInv
<1> QED
  BY <1>6, <1>10, <1>11, <1>15, <1>18 DEF CInv

-----------------------------------------------------------------------------
(* A bar is shown: a trade's, or one that was replayed *)

\* The window of a series that has just got a bar: what was told of its time
\* is now the lots of the bar, and nothing else is lost that is in the window.
LEMMA BarIsShown ==
  ASSUME CInv, NEW bar \in Candle, bar.time \in 1..now, traded[bar.time] > 0
  PROVE  LET c == Trim(Merge(candles, bar))
         IN  /\ Good(c)
             /\ \A b \in Bars(c) : b.time >= Cut /\ (b = bar \/ (b \in Bars(candles) /\ b.time # bar.time))
             /\ \A b \in Bars(candles) : b.time >= Cut => \E x \in Bars(c) : x.time = b.time
             /\ bar.time >= Cut => bar \in Bars(c)
<1> DEFINE m == Merge(candles, bar)
           c == Trim(m)
<1>1. candles \in Seq(Candle) /\ Ascending(candles)
      /\ \A b \in Bars(candles) : b.time \in 1..now /\ traded[b.time] > 0
  BY ShownIsGood DEF Good
<1> HIDE DEF Candle
<1>2. /\ m \in Seq(Candle) /\ Ascending(m)
      /\ Bars(m) = {b \in Bars(candles) : b.time # bar.time} \cup {bar}
  BY <1>1, MergePuts
<1> HIDE DEF m
<1>3. Good(m)
  BY <1>1, <1>2 DEF Good
<1>4. Good(c) /\ Bars(c) = {b \in Bars(m) : b.time >= Cut}
  BY <1>3, TrimOfGood
<1> HIDE DEF c
<1>5. \A b \in Bars(candles) : b.time >= Cut => \E x \in Bars(c) : x.time = b.time
  BY <1>2, <1>4
<1> QED
  BY <1>2, <1>4, <1>5 DEF c, m

\* What follows for the invariant when told is set to at most the bar's lots,
\* or the bar has left the window.
LEMMA ShownIsKept ==
  ASSUME CInv, NEW bar \in Candle, bar.time \in 1..now, traded[bar.time] > 0,
         chart = "open", chart' = "open",
         candles' = Trim(Merge(candles, bar)), memory' = candles', UNCHANGED <<now, traded>>,
         NEW n \in Nat, n <= bar.volume \/ ~(bar.time >= Cut), told' = [told EXCEPT ![bar.time] = n],
         disk' # None /\ disk'.own => disk' = disk \/ disk'.candles = candles'
  PROVE  /\ CopiesInv' /\ ToldInv' /\ told' \in [1..MaxTime -> Nat]
         /\ \A b \in Bars(candles) : b.time >= Cut => \E x \in Bars(candles') : x.time = b.time
         /\ bar.time >= Cut => bar \in Bars(candles')
<1>1. /\ Good(candles')
      /\ \A b \in Bars(candles') : b.time >= Cut /\ (b = bar \/ (b \in Bars(candles) /\ b.time # bar.time))
      /\ \A b \in Bars(candles) : b.time >= Cut => \E x \in Bars(candles') : x.time = b.time
      /\ bar.time >= Cut => bar \in Bars(candles')
  BY BarIsShown
<1>2. told \in [1..MaxTime -> Nat] /\ now \in 1..MaxTime /\ MaxTime \in Nat /\ candles = memory
  BY BoundsAssumption DEF CInv, MarketInv, CopiesInv
<1>3. bar.time \in 1..MaxTime /\ told' \in [1..MaxTime -> Nat] /\ told'[bar.time] = n
      /\ \A t \in 1..MaxTime : t # bar.time => told'[t] = told[t]
  BY <1>2
<1>4. CopiesInv'
  <2>1. Good(memory)'
    BY <1>1 DEF Good
  <2>2. disk' # None /\ disk'.own => Good(disk.candles)'
    <3> SUFFICES ASSUME disk' # None /\ disk'.own PROVE Good(disk.candles)'
      OBVIOUS
    <3>1. CASE disk' = disk
      BY <3>1 DEF CInv, CopiesInv, Good
    <3>2. CASE disk'.candles = candles'
      BY <2>1, <3>2 DEF Good
    <3> QED
      BY <3>1, <3>2
  <2> QED
    BY <2>1, <2>2 DEF CopiesInv
<1>5. ToldInv'
  <2> SUFFICES ASSUME NEW t \in 1..MaxTime
               PROVE  /\ \A b \in Bars(memory') : b.time = t => b.volume >= told'[t]
                      /\ told'[t] > 0 /\ t >= Cut => \E b \in Bars(memory') : b.time = t
    BY DEF ToldInv, Cut
  <2>1. CASE t = bar.time
    BY <1>1, <1>3, <2>1
  <2>2. CASE t # bar.time
    <3>1. \A b \in Bars(memory') : b.time = t => b \in Bars(memory)
      BY <1>1, <1>2, <2>2
    <3>2. told'[t] = told[t]
      BY <1>3, <2>2
    <3> QED
      BY <1>1, <1>2, <3>1, <3>2 DEF CInv, ToldInv
  <2> QED
    BY <2>1, <2>2
<1> QED
  BY <1>1, <1>3, <1>4, <1>5

-----------------------------------------------------------------------------
(* Steps *)

LEMMA BarVolumes ==
  ASSUME CInv, NEW b \in Bars(candles)
  PROVE  b.volume \in Nat
<1>1. candles \in Seq(Candle)
  BY DEF CInv, CopiesInv, Good
<1> QED
  BY <1>1, Elements DEF Bars

LEMMA WindowReaches ==
  ASSUME CInv, NEW t \in 1..MaxTime, t >= now - Lookback
  PROVE  t >= Cut
BY BoundsAssumption DEF CInv, MarketInv, Cut

LEMMA HandleTradeInv ==
  ASSUME CInv, NEW save \in BOOLEAN, HandleTrade(save)
  PROVE  CInv'
<1>1. /\ wire # <<>> /\ wire' = Tail(wire)
      /\ UNCHANGED <<now, traded, answer, historyStage, loaded, gap>>
  BY DEF HandleTrade, market, history
<1>2. /\ wire' \in Seq(1..MaxTime) /\ \A i \in DOMAIN wire' : wire'[i] \in 1..now /\ traded[wire'[i]] > 0
      /\ Head(wire) \in 1..now /\ traded[Head(wire)] > 0
  <2>1. /\ wire \in Seq(1..MaxTime) /\ Len(wire) \in Nat \ {0} /\ DOMAIN wire = 1..Len(wire)
        /\ \A i \in DOMAIN wire : wire[i] \in 1..now /\ traded[wire[i]] > 0
    BY <1>1, EmptySeq DEF CInv, MarketInv
  <2>2. /\ Tail(wire) \in Seq(1..MaxTime) /\ Head(wire) = wire[1] /\ 1 \in DOMAIN wire
        /\ \A i \in DOMAIN Tail(wire) : Tail(wire)[i] = wire[i + 1] /\ i + 1 \in DOMAIN wire
    BY <1>1, <2>1
  <2> QED
    BY <1>1, <2>1, <2>2
<1>3. AnswerInv'
  BY <1>1 DEF CInv, AnswerInv
<1>4. CASE UNCHANGED <<series, disk, told>>
  <2>1. MarketInv'
    BY <1>1, <1>2, <1>4 DEF CInv, MarketInv
  <2>2. FlagsInv' /\ CopiesInv' /\ ToldInv' /\ GapInv'
    BY <1>1, <1>4 DEF CInv, FlagsInv, CopiesInv, ToldInv, GapInv, OnItsWay, Good, Cut, series
  <2> QED
    BY <1>3, <2>1, <2>2 DEF CInv
<1>5. CASE ~UNCHANGED <<series, disk, told>>
  <2> DEFINE t == Head(wire)
  <2>1. /\ candles' = Trim(Upsert(candles, t)) /\ memory' = candles'
        /\ disk' = disk \/ Saved(candles')
        /\ dirty' \in BOOLEAN /\ chart = "open" /\ UNCHANGED <<chart, building, complete>>
        /\ told' = [told EXCEPT ![t] = @ + 1]
    BY <1>5, Zenon DEF HandleTrade
  <2>2. t \in Int /\ candles \in Seq(Candle) /\ Ascending(candles) /\ t \in 1..MaxTime
        /\ told[t] \in Nat /\ told \in [1..MaxTime -> Nat] /\ candles = memory
    BY <1>2, <2>1, BoundsAssumption DEF CInv, CopiesInv, Good, MarketInv
  <2> HIDE DEF t, Candle
  <2>3. PICK v \in Nat : /\ Upsert(candles, t) = Merge(candles, Bar(t, v))
                         /\ \A b \in Bars(candles) : b.time = t => v = b.volume + 1
                         /\ v > 0
    BY <2>2, UpsertMerges
  <2> DEFINE bar == Bar(t, v)
  <2>4. bar \in Candle /\ bar.time = t /\ bar.volume = v
    BY <2>2, <2>3 DEF Bar, Candle
  <2> HIDE DEF bar
  <2>5. candles' = Trim(Merge(candles, bar))
    BY <2>1, <2>3 DEF bar
  <2>6. bar.time \in 1..now /\ traded[bar.time] > 0
    BY <1>2, <2>4 DEF t
  <2>7. disk' # None /\ disk'.own => disk' = disk \/ disk'.candles = candles'
    BY <2>1 DEF Saved
  \* A trade of a bar that has left the window is told of but not shown.
  <2>8. told[t] + 1 <= v \/ ~(t >= Cut)
    <3>1. CASE \E b \in Bars(candles) : b.time = t
      BY <2>2, <2>3, <3>1, BarVolumes DEF CInv, ToldInv
    <3>2. CASE ~\E b \in Bars(candles) : b.time = t
      BY <2>2, <2>3, <3>2 DEF CInv, ToldInv
    <3> QED
      BY <3>1, <3>2
  <2>9. told' = [told EXCEPT ![bar.time] = told[t] + 1] /\ told[t] + 1 \in Nat
        /\ (told[t] + 1 <= bar.volume \/ ~(bar.time >= Cut))
    BY <2>1, <2>2, <2>4, <2>8
  <2>10. UNCHANGED <<now, traded>> /\ chart = "open" /\ chart' = "open"
    BY <1>1, <2>1
  <2>11. /\ CopiesInv' /\ ToldInv' /\ told' \in [1..MaxTime -> Nat]
         /\ \A b \in Bars(candles) : b.time >= Cut => \E x \in Bars(candles') : x.time = b.time
    BY <2>1, <2>4, <2>5, <2>6, <2>7, <2>9, <2>10, ShownIsKept
  <2>12. GapInv'
    <3>1. \A x : OnItsWay(x)' <=> OnItsWay(x)
      BY <1>1 DEF OnItsWay
    <3> SUFFICES ASSUME NEW x \in gap
                 PROVE  /\ x \in 1..MaxTime
                        /\ x >= now - Lookback => (\E b \in Bars(candles') : b.time = x) \/ OnItsWay(x)
      BY <1>1, <2>10, <3>1 DEF GapInv
    <3>2. /\ x \in 1..MaxTime
          /\ x >= now - Lookback => (\E b \in Bars(candles) : b.time = x) \/ OnItsWay(x)
      BY DEF CInv, GapInv
    <3>3. x >= now - Lookback => x >= Cut
      BY <3>2, WindowReaches
    <3> QED
      BY <2>11, <3>2, <3>3
  <2>13. MarketInv'
    BY <1>1, <1>2, <2>11 DEF CInv, MarketInv
  <2>14. FlagsInv'
    BY <1>1, <2>1 DEF CInv, FlagsInv
  <2> QED
    BY <1>3, <2>11, <2>12, <2>13, <2>14 DEF CInv
<1> QED
  BY <1>4, <1>5

LEMMA HandleHistoricalBarInv ==
  ASSUME CInv, NEW r \in DOMAIN answer, NEW bar \in answer[r], HandleHistoricalBar(r, bar)
  PROVE  CInv'
<1>1. /\ answer' = [answer EXCEPT ![r] = @ \ {bar}] /\ building' = TRUE /\ loaded' = TRUE
      /\ UNCHANGED <<now, traded, wire, chart, complete, disk, historyStage, gap>>
  BY DEF HandleHistoricalBar, market
<1>2. answer \in Seq(SUBSET Candle) /\ bar \in Candle /\ bar.time \in 1..now /\ traded[bar.time] > 0
  <2>1. answer \in Seq(SUBSET Candle) /\ bar.time \in 1..now /\ traded[bar.time] > 0
    BY DEF CInv, AnswerInv
  <2> HIDE DEF Candle
  <2>2. answer[r] \in SUBSET Candle
    BY <2>1, ElementOfSeq
  <2> QED
    BY <2>1, <2>2
<1>3. bar.volume \in Nat /\ bar.volume <= bar.volume
  BY <1>2 DEF Candle
<1>4. /\ answer' \in Seq(SUBSET Candle) /\ DOMAIN answer' = DOMAIN answer
      /\ answer'[r] = answer[r] \ {bar}
      /\ \A q \in DOMAIN answer : q # r => answer'[q] = answer[q]
  <2> HIDE DEF Candle
  <2>1. answer[r] \ {bar} \in SUBSET Candle
    BY <1>2, ElementOfSeq
  <2>2. DOMAIN answer = 1..Len(answer)
    BY <1>2
  <2>3. answer' = [answer EXCEPT ![r] = answer[r] \ {bar}]
    BY <1>1
  <2> QED
    BY <1>2, <2>1, <2>2, <2>3, ExceptSeq
<1>5. AnswerInv'
  BY <1>1, <1>4 DEF CInv, AnswerInv
\* Only the bar is not on its way any more.
<1>6. \A t : OnItsWay(t) => OnItsWay(t)' \/ t = bar.time
  <2> SUFFICES ASSUME NEW t, NEW q \in DOMAIN answer, NEW b \in answer[q], b.time = t, t # bar.time
               PROVE  OnItsWay(t)'
    BY DEF OnItsWay
  <2>1. b \in answer'[q] /\ q \in DOMAIN answer'
    BY <1>4
  <2> QED
    BY <2>1 DEF OnItsWay
<1>7. FlagsInv'
  <2>1. dirty' \in BOOLEAN
    BY DEF HandleHistoricalBar, Remember, CInv, FlagsInv
  <2> QED
    BY <1>1, <2>1 DEF CInv, FlagsInv
<1>8. CASE chart = "open"
  <2>1. /\ candles' = Trim(Merge(candles, bar)) /\ memory' = candles'
        /\ told' = [told EXCEPT ![bar.time] = bar.volume]
    BY <1>8 DEF HandleHistoricalBar, Remember
  <2>2. disk' # None /\ disk'.own => disk' = disk \/ disk'.candles = candles'
    BY <1>1
  <2>3. /\ CopiesInv' /\ ToldInv' /\ told' \in [1..MaxTime -> Nat]
        /\ \A b \in Bars(candles) : b.time >= Cut => \E x \in Bars(candles') : x.time = b.time
        /\ bar.time >= Cut => bar \in Bars(candles')
    <3>1. chart' = "open" /\ UNCHANGED <<now, traded>>
      BY <1>1, <1>8
    <3> HIDE DEF Candle
    <3> QED
      BY <1>2, <1>3, <1>8, <2>1, <2>2, <3>1, ShownIsKept
  <2>4. MarketInv'
    BY <1>1, <2>3 DEF CInv, MarketInv
  <2>5. GapInv'
    <3> SUFFICES ASSUME NEW t \in gap
                 PROVE  /\ t \in 1..MaxTime
                        /\ t >= now - Lookback =>
                             (\E b \in Bars(candles') : b.time = t) \/ OnItsWay(t)'
      BY <1>1, <1>8 DEF GapInv
    <3>1. /\ t \in 1..MaxTime
          /\ t >= now - Lookback => (\E b \in Bars(candles) : b.time = t) \/ OnItsWay(t)
      BY DEF CInv, GapInv
    <3>2. t >= now - Lookback => t >= Cut
      BY <3>1, WindowReaches
    <3>3. CASE t = bar.time
      BY <2>3, <3>1, <3>2, <3>3
    <3>4. CASE t # bar.time
      BY <1>6, <2>3, <3>1, <3>2, <3>4
    <3> QED
      BY <3>3, <3>4
  <2> QED
    BY <1>5, <1>7, <2>3, <2>4, <2>5 DEF CInv
<1>9. CASE chart # "open"
  <2>1. UNCHANGED <<candles, memory, told>>
    BY <1>9 DEF HandleHistoricalBar
  <2>2. MarketInv' /\ CopiesInv' /\ ToldInv'
    BY <1>1, <2>1 DEF CInv, MarketInv, CopiesInv, ToldInv, Good, Cut
  <2>3. GapInv'
    BY <1>1, <1>9 DEF CInv, GapInv
  <2> QED
    BY <1>5, <1>7, <2>2, <2>3 DEF CInv
<1> QED
  BY <1>8, <1>9

\* Later a series is what it was: the window only moves on.
LEMMA TickInv ==
  ASSUME CInv, Tick
  PROVE  CInv'
<1>1. /\ now' = now + 1 /\ now' \in 1..MaxTime
      /\ UNCHANGED <<traded, wire, chart, candles, building, complete, dirty, memory, refreshed,
                     disk, answer, historyStage, loaded, gap, told>>
  BY BoundsAssumption DEF Tick, series, history, CInv, MarketInv
<1>2. now \in Nat /\ \A x \in 1..now : x \in 1..now'
  BY <1>1 DEF CInv, MarketInv
<1>3. MarketInv'
  BY <1>1, <1>2 DEF CInv, MarketInv
<1>4. FlagsInv' /\ AnswerInv'
  BY <1>1, <1>2 DEF CInv, FlagsInv, AnswerInv
<1>5. CopiesInv'
  BY <1>1, <1>2 DEF CInv, CopiesInv, Good
<1>6. \A t \in 1..MaxTime : t >= Cut' => t >= Cut
  BY <1>1, <1>2, BoundsAssumption DEF Cut
<1>7. ToldInv'
  BY <1>1, <1>6 DEF CInv, ToldInv
<1>8. \A t \in 1..MaxTime : t >= now' - Lookback => t >= now - Lookback
  BY <1>1, <1>2, BoundsAssumption
<1>9. GapInv'
  BY <1>1, <1>8 DEF CInv, GapInv, OnItsWay
<1> QED
  BY <1>3, <1>4, <1>5, <1>7, <1>9 DEF CInv

LEMMA TradeHappensInv ==
  ASSUME CInv, TradeHappens
  PROVE  CInv'
<1>1. /\ traded' = [traded EXCEPT ![now] = @ + 1]
      /\ wire' = (IF chart = "unasked" THEN wire ELSE Append(wire, now))
      /\ UNCHANGED <<now, chart, candles, building, complete, dirty, memory, refreshed,
                     disk, answer, historyStage, loaded, gap, told>>
  BY DEF TradeHappens, series, history
<1>2. now \in 1..MaxTime /\ traded \in [1..MaxTime -> Nat] /\ now \in Nat /\ now \in 1..now
  BY BoundsAssumption DEF CInv, MarketInv
<1>3. traded' \in [1..MaxTime -> Nat] /\ traded'[now] > 0
      /\ \A t \in 1..MaxTime : traded[t] > 0 => traded'[t] > 0
  BY <1>1, <1>2
<1>4. \A t \in 1..now : t \in 1..MaxTime
  BY <1>2, BoundsAssumption
<1>5. wire' \in Seq(1..MaxTime) /\ \A i \in DOMAIN wire' : wire'[i] \in 1..now /\ traded'[wire'[i]] > 0
  <2>1. wire \in Seq(1..MaxTime) /\ \A i \in DOMAIN wire : wire[i] \in 1..now /\ traded'[wire[i]] > 0
    BY <1>3, <1>4 DEF CInv, MarketInv
  <2>2. CASE wire' = wire
    BY <2>1, <2>2
  <2>3. CASE wire' = Append(wire, now)
    <3>1. /\ wire' \in Seq(1..MaxTime) /\ DOMAIN wire' = 1..(Len(wire) + 1) /\ DOMAIN wire = 1..Len(wire)
          /\ Len(wire) \in Nat /\ wire'[Len(wire) + 1] = now
          /\ \A i \in 1..Len(wire) : wire'[i] = wire[i]
      BY <1>2, <2>1, <2>3
    <3>2. ASSUME NEW i \in DOMAIN wire' PROVE i = Len(wire) + 1 \/ i \in DOMAIN wire
      BY <3>1, <3>2
    <3> QED
      BY <1>2, <1>3, <2>1, <3>1, <3>2
  <2> QED
    BY <1>1, <2>2, <2>3
<1>6. MarketInv'
  BY <1>1, <1>2, <1>3, <1>4, <1>5 DEF CInv, MarketInv
<1>7. FlagsInv' /\ ToldInv' /\ GapInv'
  BY <1>1 DEF CInv, FlagsInv, ToldInv, GapInv, OnItsWay, Cut
<1>8. CopiesInv' /\ AnswerInv'
  BY <1>1, <1>3, <1>4 DEF CInv, CopiesInv, AnswerInv, Good
<1> QED
  BY <1>6, <1>7, <1>8 DEF CInv

\* The end of what is shown as a download touches no candle.
LEMMA HandleHistoryFinishedInv ==
  ASSUME CInv, NEW ok \in BOOLEAN, NEW save \in BOOLEAN, HandleHistoryFinished(ok, save),
         loaded' \in BOOLEAN, historyStage' \in {"Idle", "Backfilling", "Active"}
  PROVE  MarketInv' /\ FlagsInv' /\ CopiesInv' /\ ToldInv' /\ UNCHANGED <<now, traded, chart, candles>>
<1>1. /\ building' = FALSE /\ complete' = ok
      /\ disk' = disk \/ Saved(candles)
      /\ dirty' = dirty \/ dirty' = FALSE
      /\ UNCHANGED <<now, traded, wire, chart, candles, memory, refreshed, told>>
  BY DEF HandleHistoryFinished, market
<1>2. MarketInv' /\ FlagsInv' /\ ToldInv'
  BY <1>1 DEF CInv, MarketInv, FlagsInv, ToldInv, Cut
<1>3. CopiesInv'
  <2>1. Good(candles) /\ (\A c : Good(c)' <=> Good(c))
    BY <1>1, ShownIsGood DEF Good
  <2>2. disk' # None /\ disk'.own => Good(disk'.candles)
    BY <1>1, <2>1 DEF CInv, CopiesInv, Saved
  <2>3. Good(memory) /\ candles = IF chart = "open" THEN memory ELSE <<>>
    BY DEF CInv, CopiesInv
  <2> QED
    BY <1>1, <2>1, <2>2, <2>3 DEF CopiesInv, Good
<1> QED
  BY <1>1, <1>2, <1>3

\* A replay that has no bar left ends: the others are as they were.
LEMMA AnswerRemoved ==
  ASSUME NEW S, NEW a \in Seq(S), NEW r \in DOMAIN a
  PROVE  LET z == RemoveAt(a, r)
         IN  /\ z \in Seq(S)
             /\ \A i \in DOMAIN z : \E j \in DOMAIN a : z[i] = a[j]
             /\ \A j \in DOMAIN a : j # r => \E i \in DOMAIN z : z[i] = a[j]
<1> DEFINE n == Len(a)
           x == SubSeq(a, 1, r - 1)
           y == SubSeq(a, r + 1, n)
           z == x \o y
<1>1. n \in Nat /\ DOMAIN a = 1..n /\ r \in 1..n /\ \A i \in 1..n : a[i] \in S
  OBVIOUS
<1>2. x \in Seq(S) /\ Len(x) = r - 1 /\ \A i \in 1..(r - 1) : x[i] = a[i]
  BY <1>1, SubSeqProperties
<1>3. y \in Seq(S) /\ Len(y) = n - r /\ \A i \in 1..(n - r) : y[i] = a[r + i]
  <2>1. r + 1 \in Int /\ n \in Int /\ \A i \in r + 1..n : a[i] \in S
    BY <1>1
  <2>2. /\ y \in Seq(S) /\ Len(y) = (IF r + 1 <= n THEN n - (r + 1) + 1 ELSE 0)
        /\ \A i \in 1..n - (r + 1) + 1 : y[i] = a[(r + 1) + i - 1]
    BY <2>1, SubSeqProperties
  <2> HIDE DEF n, y
  <2>3. n - (r + 1) + 1 = n - r /\ (~(r + 1 <= n) => n - r = 0)
    BY <1>1
  <2>4. \A i \in 1..(n - r) : (r + 1) + i - 1 = r + i
    BY <1>1
  <2> QED
    BY <2>2, <2>3, <2>4
<1> HIDE DEF n, x, y
<1>4. /\ z \in Seq(S) /\ Len(z) = (r - 1) + (n - r) /\ DOMAIN z = 1..((r - 1) + (n - r))
      /\ \A i \in 1..(r - 1) : z[i] = x[i]
      /\ \A i \in r..((r - 1) + (n - r)) : z[i] = y[i - (r - 1)]
  <2>1. /\ z \in Seq(S) /\ Len(z) = Len(x) + Len(y) /\ DOMAIN z = 1..Len(z)
        /\ \A i \in 1..Len(x) + Len(y) : z[i] = IF i <= Len(x) THEN x[i] ELSE y[i - Len(x)]
    BY <1>2, <1>3, ConcatProperties
  <2> HIDE DEF z
  <2>2. /\ \A i \in 1..(r - 1) : i \in 1..((r - 1) + (n - r)) /\ i <= r - 1
        /\ \A i \in r..((r - 1) + (n - r)) : i \in 1..((r - 1) + (n - r)) /\ ~(i <= r - 1)
    BY <1>1
  <2> QED
    BY <1>2, <1>3, <2>1, <2>2
<1> HIDE DEF z
<1>5. ASSUME NEW i \in DOMAIN z PROVE \E j \in DOMAIN a : z[i] = a[j]
  <2>1. CASE i \in 1..(r - 1)
    <3>1. i \in 1..n /\ z[i] = x[i]
      BY <1>1, <1>4, <2>1
    <3>2. x[i] = a[i]
      BY <1>2, <2>1
    <3> QED
      BY <1>1, <3>1, <3>2
  <2>2. CASE i \notin 1..(r - 1)
    <3>1. i \in r..((r - 1) + (n - r)) /\ i - (r - 1) \in 1..(n - r) /\ r + (i - (r - 1)) = i + 1 /\ i + 1 \in 1..n
      BY <1>1, <1>4, <2>2
    <3> QED
      BY <1>1, <1>3, <1>4, <3>1
  <2> QED
    BY <2>1, <2>2
<1>6. ASSUME NEW j \in DOMAIN a, j # r PROVE \E i \in DOMAIN z : z[i] = a[j]
  <2>1. CASE j < r
    <3>1. j \in 1..(r - 1) /\ j \in DOMAIN z
      BY <1>1, <1>4, <2>1
    <3> QED
      BY <1>2, <1>4, <3>1
  <2>2. CASE ~(j < r)
    <3>1. /\ j - 1 \in r..((r - 1) + (n - r)) /\ j - 1 \in DOMAIN z
          /\ (j - 1) - (r - 1) = j - r /\ j - r \in 1..(n - r) /\ r + (j - r) = j
      BY <1>1, <1>4, <1>6, <2>2
    <3> QED
      BY <1>3, <1>4, <3>1
  <2> QED
    BY <2>1, <2>2
<1>7. RemoveAt(a, r) = z
  BY DEF RemoveAt, z, x, y, n
<1> QED
  BY <1>4, <1>5, <1>6, <1>7

LEMMA EndOfReplayInv ==
  ASSUME CInv, NEW r \in DOMAIN answer, NEW save \in BOOLEAN, EndOfReplay(r, save)
  PROVE  CInv'
<1>1. /\ answer[r] = {} /\ answer' = RemoveAt(answer, r)
      /\ historyStage' = "Active" /\ UNCHANGED <<loaded, gap>>
      /\ HandleHistoryFinished(TRUE, save)
  BY DEF EndOfReplay
<1>2. MarketInv' /\ FlagsInv' /\ CopiesInv' /\ ToldInv' /\ UNCHANGED <<now, traded, chart, candles>>
  <2>1. loaded' \in BOOLEAN /\ historyStage' \in {"Idle", "Backfilling", "Active"}
    BY <1>1 DEF CInv, FlagsInv
  <2> QED
    BY <1>1, <2>1, HandleHistoryFinishedInv
<1>3. /\ answer' \in Seq(SUBSET Candle)
      /\ \A i \in DOMAIN answer' : \E j \in DOMAIN answer : answer'[i] = answer[j]
      /\ \A j \in DOMAIN answer : j # r => \E i \in DOMAIN answer' : answer'[i] = answer[j]
  <2>1. answer \in Seq(SUBSET Candle)
    BY DEF CInv, AnswerInv
  <2> HIDE DEF Candle
  <2> QED
    BY <1>1, <2>1, AnswerRemoved
<1>4. AnswerInv'
  BY <1>2, <1>3 DEF CInv, AnswerInv
<1>5. \A t : OnItsWay(t) => OnItsWay(t)'
  BY <1>1, <1>3 DEF OnItsWay
<1>6. GapInv'
  BY <1>1, <1>2, <1>5 DEF CInv, GapInv
<1> QED
  BY <1>2, <1>4, <1>6 DEF CInv

LEMMA HistoryTimeoutInv ==
  ASSUME CInv, NEW save \in BOOLEAN, HistoryTimeout(save)
  PROVE  CInv'
<1>1. /\ historyStage' = "Active" /\ UNCHANGED <<answer, loaded, gap>>
      /\ HandleHistoryFinished(loaded, save) /\ loaded \in BOOLEAN
  BY DEF HistoryTimeout, CInv, FlagsInv
<1>2. MarketInv' /\ FlagsInv' /\ CopiesInv' /\ ToldInv' /\ UNCHANGED <<now, traded, chart, candles>>
  BY <1>1, HandleHistoryFinishedInv
<1>3. AnswerInv' /\ GapInv'
  BY <1>1, <1>2 DEF CInv, AnswerInv, GapInv, OnItsWay
<1> QED
  BY <1>2, <1>3 DEF CInv

LEMMA FailHistoryInv ==
  ASSUME CInv, FailHistory
  PROVE  CInv'
<1>1. /\ historyStage' = "Idle" /\ answer' = <<>> /\ gap' = {} /\ UNCHANGED loaded
      /\ HandleHistoryFinished(FALSE, FALSE) /\ loaded \in BOOLEAN
  BY DEF FailHistory, CInv, FlagsInv
<1>2. MarketInv' /\ FlagsInv' /\ CopiesInv' /\ ToldInv'
  BY <1>1, HandleHistoryFinishedInv
<1>3. AnswerInv' /\ GapInv'
  BY <1>1 DEF AnswerInv, GapInv
<1> QED
  BY <1>2, <1>3 DEF CInv

\* A series that is left: it is remembered as it was, and nothing is shown.
LEMMA LeaveInv ==
  ASSUME CInv, NEW save \in BOOLEAN, Leave(save)
  PROVE  CInv'
<1>1. /\ chart = "open" /\ chart' = "away" /\ candles' = <<>> /\ gap' = {}
      /\ disk' = disk \/ Saved(candles)
      /\ dirty' = FALSE /\ complete' = FALSE
      /\ UNCHANGED <<now, traded, wire, building, memory, answer, historyStage, loaded, told>>
  BY DEF Leave, market, history
<1>2. MarketInv' /\ AnswerInv' /\ FlagsInv' /\ ToldInv' /\ GapInv'
  BY <1>1 DEF CInv, MarketInv, AnswerInv, FlagsInv, ToldInv, GapInv, Cut
<1>3. CopiesInv'
  <2>1. Good(candles) /\ Good(memory) /\ (\A c : Good(c)' <=> Good(c))
    BY <1>1, ShownIsGood DEF Good, CInv, CopiesInv
  <2>2. disk' # None /\ disk'.own => Good(disk'.candles)
    BY <1>1, <2>1 DEF CInv, CopiesInv, Saved
  <2> QED
    BY <1>1, <2>1, <2>2 DEF CopiesInv, Good
<1> QED
  BY <1>2, <1>3 DEF CInv

LEMMA RestartInv ==
  ASSUME CInv, NEW save \in BOOLEAN, Restart(save)
  PROVE  CInv'
<1>1. /\ disk' = disk \/ Saved(candles)
      /\ chart' = "unasked" /\ wire' = <<>> /\ answer' = <<>> /\ historyStage' = "Idle"
      /\ loaded' = FALSE /\ candles' = <<>> /\ memory' = <<>>
      /\ building' = FALSE /\ complete' = FALSE /\ dirty' = FALSE
      /\ gap' = {} /\ told' = [t \in 1..MaxTime |-> 0]
      /\ UNCHANGED <<now, traded>>
  BY DEF Restart, market
<1>2. FlagsInv'
  BY <1>1 DEF FlagsInv
<1>3. AnswerInv' /\ GapInv'
  BY <1>1 DEF AnswerInv, GapInv
<1>4. MarketInv'
  BY <1>1 DEF CInv, MarketInv
<1>5. ToldInv'
  BY <1>1, EmptySeries DEF ToldInv
<1>6. CopiesInv'
  <2>1. Good(candles) /\ Good(<<>>) /\ (\A c : Good(c)' <=> Good(c))
    BY <1>1, EmptySeries, ShownIsGood DEF Good
  <2>2. disk' # None /\ disk'.own => Good(disk'.candles)
    BY <1>1, <2>1 DEF CInv, CopiesInv, Saved
  <2> QED
    BY <1>1, <2>1, <2>2 DEF CopiesInv, Good
<1> QED
  BY <1>2, <1>3, <1>4, <1>5, <1>6 DEF CInv

LEMMA NextInv == CInv /\ [Next]_vars => CInv'
<1> SUFFICES ASSUME CInv, [Next]_vars PROVE CInv'
  OBVIOUS
<1>1. CASE Tick
  BY <1>1, TickInv
<1>2. CASE TradeHappens
  BY <1>2, TradeHappensInv
<1>3. CASE Open
  BY <1>3, BackfillStarts DEF Open, market
<1>4. CASE Reconnect
  BY <1>4, BackfillStarts DEF Reconnect, market
<1>5. CASE ReconnectAway
  <2>1. /\ chart = "away" /\ chart' = "unasked" /\ wire' = <<>>
        /\ UNCHANGED <<now, traded, candles, building, complete, dirty, memory, disk,
                       answer, historyStage, loaded, gap, told>>
    BY <1>5 DEF ReconnectAway, market, history
  <2>2. MarketInv' /\ AnswerInv' /\ FlagsInv'
    BY <2>1 DEF CInv, MarketInv, AnswerInv, FlagsInv
  <2>3. CopiesInv'
    BY <2>1 DEF CInv, CopiesInv, Good
  <2>4. ToldInv' /\ GapInv'
    BY <2>1 DEF CInv, ToldInv, GapInv, Cut
  <2> QED
    BY <2>2, <2>3, <2>4 DEF CInv
<1>6. CASE OtherSaves
  <2>1. disk'.own = FALSE
    BY <1>6 DEF OtherSaves
  <2>2. UNCHANGED <<now, traded, wire, chart, candles, building, complete, dirty, memory,
                    answer, historyStage, loaded, gap, told>>
    BY <1>6 DEF OtherSaves, market, series, history
  <2>3. CopiesInv'
    BY <2>1, <2>2 DEF CInv, CopiesInv, Good
  <2>4. MarketInv' /\ AnswerInv' /\ FlagsInv' /\ ToldInv' /\ GapInv'
    BY <2>2 DEF CInv, MarketInv, AnswerInv, FlagsInv, ToldInv, GapInv, OnItsWay, Cut
  <2> QED
    BY <2>3, <2>4 DEF CInv
<1>7. CASE FailHistory
  BY <1>7, FailHistoryInv
<1>8. ASSUME NEW r \in DOMAIN answer, NEW bar \in answer[r], HandleHistoricalBar(r, bar) PROVE CInv'
  BY <1>8, HandleHistoricalBarInv
<1>9. ASSUME NEW save \in BOOLEAN, HandleTrade(save) PROVE CInv'
  BY <1>9, HandleTradeInv
<1>10. ASSUME NEW save \in BOOLEAN, Leave(save) PROVE CInv'
  BY <1>10, LeaveInv
<1>11. ASSUME NEW save \in BOOLEAN, Restart(save) PROVE CInv'
  BY <1>11, RestartInv
<1>12. ASSUME NEW save \in BOOLEAN, HistoryTimeout(save) PROVE CInv'
  BY <1>12, HistoryTimeoutInv
<1>13. ASSUME NEW save \in BOOLEAN, NEW r \in DOMAIN answer, EndOfReplay(r, save) PROVE CInv'
  BY <1>13, EndOfReplayInv
<1>14. CASE UNCHANGED vars
  BY <1>14 DEF vars, market, series, history, CInv, MarketInv, AnswerInv, FlagsInv, CopiesInv,
     ToldInv, GapInv, OnItsWay, Good, Cut
<1> QED
  BY <1>1, <1>2, <1>3, <1>4, <1>5, <1>6, <1>7, <1>8, <1>9, <1>10, <1>11, <1>12, <1>13, <1>14 DEF Next

-----------------------------------------------------------------------------
(***************************************************************************)
(* The inductive invariant holds throughout.  Two parts are not stated by  *)
(* any property.  ToldInv: a bar that was told of stays remembered until   *)
(* it leaves the window, so that what restoreCachedCandles puts in its     *)
(* place has never less than was told.  OnItsWay in GapInv: no replay      *)
(* takes away what another has still to deliver.                           *)
(***************************************************************************)
THEOREM Invariance == Spec => []CInv
<1>1. Init => CInv
  BY InitInv
<1>2. CInv /\ [Next]_vars => CInv'
  BY NextInv
<1> QED
  BY <1>1, <1>2, PTL DEF Spec

(***************************************************************************)
(* The candles that are shown and those that are remembered are in order,  *)
(* one for a bar, each of a bar with trades, and the same, for any look-   *)
(* back, overlap and number of trades.                                     *)
(***************************************************************************)
THEOREM SeriesAreSound == Spec => []SeriesIsSound
<1>1. CInv => SeriesIsSound
  BY InvHolds
<1> QED
  BY <1>1, Invariance, PTL

(***************************************************************************)
(* mergeCandle, upsertCandle, trimCandlesToActiveWindow and the restores   *)
(* keep of a candle at least the bar replayed last for it and the trades   *)
(* taken since.                                                            *)
(***************************************************************************)
THEOREM BarsAlwaysStay == Spec => []BarsStay
<1>1. CInv => BarsStay
  BY InvHolds
<1> QED
  BY <1>1, Invariance, PTL

(***************************************************************************)
(* backfillBarsForCurrentGap asks for enough, and what was asked for comes *)
(* to the series or is on its way: neither the completion timer, nor the   *)
(* end of another replay, nor a reconnect in the middle, nor a trade or a  *)
(* trim takes a bar of the window away.                                    *)
(***************************************************************************)
THEOREM GapsAreCovered == Spec => []GapIsCovered
<1>1. CInv => GapIsCovered
  BY InvHolds
<1> QED
  BY <1>1, Invariance, PTL
=============================================================================
