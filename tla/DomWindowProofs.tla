--------------------------- MODULE DomWindowProofs ---------------------------
(***************************************************************************)
(* Proofs about DomWindow, for any prices, sizes and bounds: a big trade   *)
(* that is shown has the lots traded in its bucket, however late they came *)
(* and whatever was pruned, and is listed once; a price of the profile has *)
(* the lots its tape shows, and one left out is below a full profile; its  *)
(* value area covers 70 % of it and is tight; and the ladder ends up with  *)
(* what the adapter has.                                                   *)
(***************************************************************************)
EXTENDS DomWindow, FiniteSetTheorems, WellFoundedInduction, TLAPS

-----------------------------------------------------------------------------
(* Listed trades *)

\* A set of numbers has a least one.
LEMMA LeastNumber ==
  ASSUME NEW T \in SUBSET Nat, T # {}
  PROVE  \E x \in T : \A y \in T : x <= y
<1> DEFINE R == {ss \in Nat \X Nat : ss[1] < ss[2]}
<1>1. IsWellFoundedOn(R, Nat)
  BY NatLessThanWellFounded, Zenon DEF OpToRel
<1>2. PICK x \in T : \A y \in T : ~ (<<y, x>> \in R)
  <2> HIDE DEF R
  <2> QED
    BY <1>1, WFMin
<1>3. \A y \in T : ~ (y < x)
  BY <1>2
<1> QED
  BY <1>3

Key == [at : Nat, price : Prices, side : Sides]
Big == [key : Key, lots : Nat]

\* What SelectInSeq finds is a listed trade of the key; where it finds none
\* there is none.
ListedAt(s, k) == SelectInSeq(s, LAMBDA b : b.key = k)

LEMMA ListedAtFinds ==
  ASSUME NEW s \in Seq(Big), NEW k
  PROVE  /\ ListedAt(s, k) \in Nat
         /\ ListedAt(s, k) = 0 => \A i \in DOMAIN s : s[i].key # k
         /\ ListedAt(s, k) # 0 => ListedAt(s, k) \in DOMAIN s /\ s[ListedAt(s, k)].key = k
<1> DEFINE I == {i \in 1..Len(s) : s[i].key = k}
<1>1. I \in SUBSET Nat /\ I \subseteq DOMAIN s /\ \A i \in I : i # 0 /\ s[i].key = k
  OBVIOUS
<1>2. I = {} => \A i \in DOMAIN s : s[i].key # k
  OBVIOUS
<1>3. ListedAt(s, k) = IF I # {} THEN Min(I) ELSE 0
  BY DEF SelectInSeq, ListedAt
<1>4. I # {} => Min(I) \in I
  <2> HIDE DEF I
  <2> QED
    BY <1>1, LeastNumber DEF Min
<1> HIDE DEF I
<1>5. CASE I = {}
  BY <1>2, <1>3, <1>5
<1>6. CASE I # {}
  <2>1. ListedAt(s, k) = Min(I)
    BY <1>3, <1>6
  <2>2. Min(I) \in I
    BY <1>4, <1>6
  <2>3. /\ Min(I) \in Nat /\ Min(I) # 0
        /\ Min(I) \in DOMAIN s /\ s[Min(I)].key = k
    BY <1>1, <2>2
  <2> QED
    BY <2>1, <2>3
<1> QED
  BY <1>5, <1>6

-----------------------------------------------------------------------------
(* The inductive invariant *)

\* Lots are kept by keys of buckets that have begun.
Counts(f) == \A k \in DOMAIN f : k \in Key /\ f[k] \in Nat /\ k.at <= now

\* A bucket that a trade may still reach is not pruned, and no bucket
\* outlives what it has counted.
BucketsInv ==
  /\ now \in Nat /\ Counts(struck) /\ DOMAIN buckets \subseteq DOMAIN struck
  /\ \A k \in DOMAIN struck : k.at >= now - Retention =>
        k \in DOMAIN buckets /\ buckets[k] = struck[k]

ListInv ==
  /\ bigTrades \in Seq(Big)
  /\ \A i \in DOMAIN bigTrades :
        /\ bigTrades[i].key \in DOMAIN struck
        /\ bigTrades[i].lots = struck[bigTrades[i].key] /\ bigTrades[i].lots >= Threshold
        /\ \A j \in DOMAIN bigTrades : bigTrades[i].key = bigTrades[j].key => i = j

DInv == BucketsInv /\ ListInv

LEMMA InvHolds == DInv => BigTradesAreTrue
BY DEF DInv, ListInv, BigTradesAreTrue, At

-----------------------------------------------------------------------------
(* Steps *)

LEMMA InitInv == Init => DInv
<1> SUFFICES ASSUME Init PROVE DInv
  OBVIOUS
<1>1. DOMAIN struck = {} /\ DOMAIN buckets = {} /\ now = 0 /\ bigTrades = <<>>
  BY DEF Init, Empty
<1> QED
  BY <1>1 DEF DInv, BucketsInv, ListInv, Counts

\* Steps that clear the big trades, or leave them alone.
LEMMA OtherSteps ==
  ASSUME DInv, now' = now,
         \/ UNCHANGED <<bigTrades, buckets, struck>>
         \/ bigTrades' = <<>> /\ buckets' = Empty /\ struck' = Empty
  PROVE  DInv'
<1>1. CASE UNCHANGED <<bigTrades, buckets, struck>>
  BY <1>1 DEF DInv, BucketsInv, ListInv, Counts
<1>2. CASE bigTrades' = <<>> /\ buckets' = Empty /\ struck' = Empty
  <2>1. DOMAIN struck' = {} /\ DOMAIN buckets' = {}
    BY <1>2 DEF Empty
  <2> QED
    BY <1>2, <2>1 DEF DInv, BucketsInv, ListInv, Counts
<1> QED
  BY <1>1, <1>2

\* A trade reaches a bucket that still has all its lots.
LEMMA TradeCounts ==
  ASSUME DInv, NEW price \in Prices, NEW side \in Sides, NEW lots \in Lots,
         NEW at \in Late(now)..MaxNow, HandleTrade(at, price, side, lots)
  PROVE  LET key == [at |-> at, price |-> price, side |-> side]
         IN  /\ BucketsInv' /\ key \in Key /\ key \in DOMAIN struck'
             /\ buckets'[key] = struck'[key]
             /\ struck'[key] >= At(struck, key)
             /\ DOMAIN struck \subseteq DOMAIN struck'
             /\ \A k \in DOMAIN struck : k # key => struck'[k] = struck[k]
<1> DEFINE key == [at |-> at, price |-> price, side |-> side]
<1>1. /\ now \in Nat /\ at \in Nat /\ lots \in Nat \ {0} /\ Retention \in Nat
      /\ at >= now - Retention /\ at <= now' /\ now <= now' /\ now' \in Nat
      /\ at - Retention <= now' - Retention
  BY ConstantsAssumption DEF HandleTrade, DInv, BucketsInv, Late
<1>2. key \in Key /\ key.at = at
  BY <1>1 DEF Key
<1>3. struck' = Plus(struck, key, lots) /\ buckets' = Plus(Pruned(at), key, lots)
  BY DEF HandleTrade, UpdateBigTrades
<1> HIDE DEF key
<1>4. /\ DOMAIN struck' = DOMAIN struck \cup {key}
      /\ struck'[key] = At(struck, key) + lots
      /\ \A k \in DOMAIN struck : k # key => struck'[k] = struck[k]
  BY <1>3 DEF Plus
<1>5. /\ DOMAIN Pruned(at) = {k \in DOMAIN buckets : k.at >= at - Retention}
      /\ \A k \in DOMAIN Pruned(at) : Pruned(at)[k] = buckets[k]
  BY DEF Pruned, Restrict
<1>6. /\ DOMAIN buckets' = DOMAIN Pruned(at) \cup {key}
      /\ buckets'[key] = At(Pruned(at), key) + lots
      /\ \A k \in DOMAIN Pruned(at) : k # key => buckets'[k] = Pruned(at)[k]
  BY <1>3 DEF Plus
<1>7. \A k \in DOMAIN struck : k \in Key /\ k.at \in Nat /\ struck[k] \in Nat /\ k.at <= now
  BY DEF DInv, BucketsInv, Counts, Key
<1>8. At(Pruned(at), key) = At(struck, key) /\ At(struck, key) \in Nat
  <2>1. CASE key \in DOMAIN struck
    <3>1. key \in DOMAIN buckets /\ buckets[key] = struck[key]
      BY <1>1, <1>2, <2>1 DEF DInv, BucketsInv
    <3>2. key \in DOMAIN Pruned(at)
      BY <1>1, <1>2, <1>5, <3>1
    <3> QED
      BY <1>5, <1>7, <2>1, <3>1, <3>2 DEF At
  <2>2. CASE key \notin DOMAIN struck
    BY <1>5, <2>2 DEF DInv, BucketsInv, At
  <2> QED
    BY <2>1, <2>2
<1>9. BucketsInv'
  <2>1. Counts(struck)'
    <3> SUFFICES ASSUME NEW k \in DOMAIN struck'
                 PROVE  k \in Key /\ struck'[k] \in Nat /\ k.at <= now'
      BY DEF Counts
    <3>1. CASE k = key
      BY <1>1, <1>2, <1>4, <1>8, <3>1
    <3>2. CASE k # key
      BY <1>1, <1>4, <1>7, <3>2
    <3> QED
      BY <3>1, <3>2
  <2>2. DOMAIN buckets' \subseteq DOMAIN struck'
    BY <1>4, <1>5, <1>6 DEF DInv, BucketsInv
  <2>3. ASSUME NEW k \in DOMAIN struck', k.at >= now' - Retention
        PROVE  k \in DOMAIN buckets' /\ buckets'[k] = struck'[k]
    <3>1. CASE k = key
      BY <1>4, <1>6, <1>8, <3>1
    <3>2. CASE k # key
      <4>1. k \in DOMAIN struck /\ k.at \in Nat
        BY <1>4, <1>7, <3>2
      <4>2. k.at >= now - Retention /\ k.at >= at - Retention
        BY <1>1, <2>3, <4>1
      <4>3. k \in DOMAIN buckets /\ buckets[k] = struck[k]
        BY <4>1, <4>2 DEF DInv, BucketsInv
      <4>4. k \in DOMAIN Pruned(at)
        BY <1>5, <4>2, <4>3
      <4> QED
        BY <1>4, <1>5, <1>6, <3>2, <4>1, <4>3, <4>4
    <3> QED
      BY <3>1, <3>2
  <2> QED
    BY <1>1, <2>1, <2>2, <2>3 DEF BucketsInv
<1>10. buckets'[key] = struck'[key] /\ struck'[key] >= At(struck, key)
  BY <1>1, <1>4, <1>6, <1>8
<1> QED
  BY <1>2, <1>4, <1>9, <1>10 DEF key

\* What a trade makes of the list: nothing, another size of a listed trade,
\* or one more trade with perhaps the first given up.
LEMMA TradeLists ==
  ASSUME DInv, NEW price \in Prices, NEW side \in Sides, NEW lots \in Lots,
         NEW at \in Late(now)..MaxNow, HandleTrade(at, price, side, lots)
  PROVE  ListInv'
<1> DEFINE key == [at |-> at, price |-> price, side |-> side]
           big == [key |-> key, lots |-> buckets'[key]]
           pos == ListedAt(bigTrades, key)
           more == Append(bigTrades, big)
<1>1. /\ key \in Key /\ key \in DOMAIN struck' /\ buckets'[key] = struck'[key]
      /\ struck'[key] >= At(struck, key) /\ DOMAIN struck \subseteq DOMAIN struck'
      /\ struck'[key] \in Nat
      /\ \A k \in DOMAIN struck : struck[k] \in Nat /\ (k # key => struck'[k] = struck[k])
  BY TradeCounts DEF BucketsInv, DInv, Counts
<1>4. /\ bigTrades \in Seq(Big) /\ pos \in Nat /\ Threshold \in Nat /\ MaxBig \in Nat
      /\ pos = 0 => \A i \in DOMAIN bigTrades : bigTrades[i].key # key
      /\ pos # 0 => pos \in DOMAIN bigTrades /\ bigTrades[pos].key = key
  <2>1. bigTrades \in Seq(Big)
    BY DEF DInv, ListInv
  <2> HIDE DEF key
  <2> QED
    BY <2>1, ListedAtFinds, ConstantsAssumption
<1>5. big \in Big /\ big.key = key /\ big.lots = struck'[key]
  BY <1>1 DEF Big
<1>6. key.at = at /\ big.lots \in Nat /\ Len(more) \in Nat
  BY <1>1, <1>4, <1>5
<1>7. \A i \in DOMAIN bigTrades :
        /\ bigTrades[i] \in Big /\ bigTrades[i].key \in DOMAIN struck
        /\ bigTrades[i].lots = struck[bigTrades[i].key] /\ bigTrades[i].lots >= Threshold
        /\ \A j \in DOMAIN bigTrades : bigTrades[i].key = bigTrades[j].key => i = j
  BY DEF DInv, ListInv
\* A listed trade has its candle and stays big.
<1>8. ASSUME NEW i \in DOMAIN bigTrades, bigTrades[i].key = key
      PROVE  ~MayLackCandle(at) /\ big.lots >= Threshold /\ pos # 0 /\ i = pos
  <2>1. ~MayLackCandle(at)
    BY <1>6, <1>8 DEF MayLackCandle
  <2>2. big.lots >= Threshold
    <3>1. struck[key] \in Nat /\ struck[key] >= Threshold /\ At(struck, key) = struck[key]
      BY <1>1, <1>7, <1>8 DEF At
    <3> QED
      BY <1>1, <1>4, <1>5, <3>1
  <2> QED
    BY <1>4, <1>7, <1>8, <2>1, <2>2
\* The lots of the other listed trades stay.
<1>9. \A i \in DOMAIN bigTrades : bigTrades[i].key # key =>
        /\ bigTrades[i].key \in DOMAIN struck'
        /\ bigTrades[i].lots = struck'[bigTrades[i].key]
  BY <1>1, <1>7
<1>10. \/ bigTrades' = bigTrades /\ (big.lots < Threshold \/ MayLackCandle(at))
       \/ bigTrades' = [bigTrades EXCEPT ![pos] = big] /\ big.lots >= Threshold /\ pos > 0
       \/ /\ bigTrades' = IF Len(more) > MaxBig THEN Tail(more) ELSE more
          /\ big.lots >= Threshold /\ pos = 0
  <2>1. UpdateBigTrades(key, lots, TRUE) \/ UpdateBigTrades(key, lots, ~MayLackCandle(at))
    BY Zenon DEF HandleTrade
  <2>2. CASE UpdateBigTrades(key, lots, TRUE)
    <3>1. bigTrades' = CASE big.lots < Threshold \/ ~TRUE -> bigTrades
                         [] big.lots >= Threshold /\ TRUE /\ pos > 0 -> [bigTrades EXCEPT ![pos] = big]
                         [] OTHER -> IF Len(more) > MaxBig THEN Tail(more) ELSE more
      BY <2>2, Zenon DEF UpdateBigTrades, ListedAt
    <3> HIDE DEF key, big, pos, more
    <3> QED
      BY <1>4, <1>6, <3>1
  <2>3. CASE UpdateBigTrades(key, lots, ~MayLackCandle(at))
    <3>1. bigTrades' = CASE big.lots < Threshold \/ ~~MayLackCandle(at) -> bigTrades
                         [] big.lots >= Threshold /\ ~MayLackCandle(at) /\ pos > 0 -> [bigTrades EXCEPT ![pos] = big]
                         [] OTHER -> IF Len(more) > MaxBig THEN Tail(more) ELSE more
      BY <2>3, Zenon DEF UpdateBigTrades, ListedAt
    <3> HIDE DEF key, big, pos, more
    <3> QED
      BY <1>4, <1>6, <3>1
  <2> QED
    BY <2>1, <2>2, <2>3
<1>11. CASE bigTrades' = bigTrades /\ (big.lots < Threshold \/ MayLackCandle(at))
  <2>1. \A i \in DOMAIN bigTrades : bigTrades[i].key # key
    <3> HIDE DEF key, big, pos, more
    <3> QED
      BY <1>4, <1>6, <1>8, <1>11
  <2> HIDE DEF key, big
  <2> QED
    BY <1>4, <1>7, <1>9, <1>11, <2>1 DEF ListInv
<1>12. CASE bigTrades' = [bigTrades EXCEPT ![pos] = big] /\ big.lots >= Threshold /\ pos > 0
  <2> HIDE DEF key, big, pos
  <2>2. pos \in DOMAIN bigTrades /\ bigTrades[pos].key = key
    BY <1>4, <1>12
  <2>3. /\ bigTrades' \in Seq(Big) /\ DOMAIN bigTrades' = DOMAIN bigTrades /\ bigTrades'[pos] = big
        /\ \A i \in DOMAIN bigTrades : i # pos => bigTrades'[i] = bigTrades[i] /\ bigTrades[i].key # key
    BY <1>4, <1>5, <1>7, <1>12, <2>2
  <2> QED
    BY <1>1, <1>5, <1>7, <1>9, <1>12, <2>2, <2>3 DEF ListInv
<1>13. CASE /\ bigTrades' = IF Len(more) > MaxBig THEN Tail(more) ELSE more
            /\ big.lots >= Threshold /\ pos = 0
  <2> HIDE DEF key, big, pos
  <2>1. \A i \in DOMAIN bigTrades : bigTrades[i].key # key
    BY <1>4, <1>13
  <2> DEFINE n == Len(bigTrades)
  <2>2. /\ more \in Seq(Big) /\ n \in Nat /\ Len(more) = n + 1 /\ DOMAIN bigTrades = 1..n
        /\ DOMAIN more = 1..(n + 1) /\ more[n + 1] = big /\ \A i \in 1..n : more[i] = bigTrades[i]
    BY <1>4, <1>5
  <2>3. \A i \in DOMAIN more :
          /\ more[i].key \in DOMAIN struck'
          /\ more[i].lots = struck'[more[i].key] /\ more[i].lots >= Threshold
          /\ \A j \in DOMAIN more : more[i].key = more[j].key => i = j
    <3> SUFFICES ASSUME NEW i \in DOMAIN more
                 PROVE  /\ more[i].key \in DOMAIN struck'
                        /\ more[i].lots = struck'[more[i].key] /\ more[i].lots >= Threshold
                        /\ \A j \in DOMAIN more : more[i].key = more[j].key => i = j
      OBVIOUS
    <3> HIDE DEF more, n
    <3>1. CASE i = n + 1
      BY <1>1, <1>5, <1>13, <2>1, <2>2, <3>1
    <3>2. CASE i \in 1..n
      BY <1>5, <1>7, <1>9, <2>1, <2>2, <3>2
    <3> QED
      BY <2>2, <3>1, <3>2
  <2> HIDE DEF more, n
  <2>4. CASE bigTrades' = more
    BY <2>2, <2>3, <2>4 DEF ListInv
  <2>5. CASE bigTrades' = Tail(more)
    <3>1. /\ Tail(more) \in Seq(Big) /\ DOMAIN Tail(more) = 1..n
          /\ \A i \in 1..n : Tail(more)[i] = more[i + 1] /\ i + 1 \in DOMAIN more
      BY <2>2
    <3>2. \A i, j \in 1..n : i + 1 = j + 1 => i = j
      BY <2>2
    <3> QED
      BY <2>3, <2>5, <3>1, <3>2 DEF ListInv
  <2> QED
    BY <1>13, <2>4, <2>5
<1> QED
  BY <1>10, <1>11, <1>12, <1>13

LEMMA NextInv == DInv /\ [Next]_vars => DInv'
<1> SUFFICES ASSUME DInv, [Next]_vars PROVE DInv'
  OBVIOUS
<1>1. CASE HandleHistoryFinished
  BY <1>1, OtherSteps DEF HandleHistoryFinished
<1>2. CASE Subscribe
  BY <1>2, OtherSteps DEF Subscribe
<1>3. CASE HandleBook
  BY <1>3, OtherSteps DEF HandleBook
<1>4. ASSUME NEW p \in Prices, NEW n \in Lots, HandleHistoricalBar(p, n) PROVE DInv'
  BY <1>4, OtherSteps DEF HandleHistoricalBar
<1>5. ASSUME NEW p \in Prices, NEW n \in Lots, NEW s \in Sides, NEW t \in Late(now)..MaxNow,
             HandleTrade(t, p, s, n)
      PROVE  DInv'
  BY <1>5, TradeCounts, TradeLists DEF DInv
<1>6. ASSUME NEW c \in Cached, NEW r \in BOOLEAN, NEW k \in BOOLEAN, StartChartBackfill(r, k, c)
      PROVE  DInv'
  <2>1. now' = now /\ \/ UNCHANGED <<bigTrades, buckets, struck>>
                      \/ bigTrades' = <<>> /\ buckets' = Empty /\ struck' = Empty
    BY <1>6, Zenon DEF StartChartBackfill
  <2> QED
    BY <2>1, OtherSteps
<1>7. CASE Flush
  BY <1>7, OtherSteps DEF Flush, adapter
<1>8. CASE Recenter
  BY <1>8, OtherSteps DEF Recenter, adapter
<1>9. ASSUME NEW k \in {3, -3}, Wheel(k) PROVE DInv'
  BY <1>9, OtherSteps DEF Wheel, adapter
<1>10. CASE UNCHANGED vars
  BY <1>10, OtherSteps DEF vars, adapter
<1> QED
  BY <1>1, <1>2, <1>3, <1>4, <1>5, <1>6, <1>7, <1>8, <1>9, <1>10 DEF Next

(***************************************************************************)
(* The inductive invariant holds throughout: a bucket that a trade may     *)
(* still reach has every lot of its price and side, so pruneBigTradeState  *)
(* takes nothing that updateBigTradesFromTrade would count on.             *)
(***************************************************************************)
THEOREM Invariance == Spec => []DInv
<1>1. Init => DInv
  BY InitInv
<1>2. DInv /\ [Next]_vars => DInv'
  BY NextInv
<1> QED
  BY <1>1, <1>2, PTL DEF Spec

(***************************************************************************)
(* A big trade that is shown has all the lots traded in its bucket at its  *)
(* price and side, late ones too, and is listed once, for any prices,      *)
(* sizes, lateness up to the retention of the buckets, and limits.         *)
(***************************************************************************)
THEOREM BigTradesAreAlwaysTrue == Spec => []BigTradesAreTrue
<1>1. DInv => BigTradesAreTrue
  BY InvHolds
<1> QED
  BY <1>1, Invariance, PTL

-----------------------------------------------------------------------------
(* The ladder *)

\* A cache of which nothing is left makes an empty profile.
LEMMA FoldNone ==
  FoldLeft(LAMBDA f, d : Profiled(f, d.close, d.volume), Empty, <<>>) = Empty
<1> DEFINE c == <<>>
           Of(g, s) == IF s = {} THEN Empty
                       ELSE LET x == Max(s) IN Profiled(g[s \ {x}], c[x].close, c[x].volume)
           Body(g) == [s \in SUBSET DOMAIN c |-> Of(g, s)]
           iter == CHOOSE g : g = Body(g)
           none == [s \in SUBSET DOMAIN c |-> Empty]
<1>1. FoldLeft(LAMBDA f, d : Profiled(f, d.close, d.volume), Empty, c) = iter[DOMAIN c]
  BY Zenon DEF FoldLeft, MapThenFoldSet
<1>2. DOMAIN c = {} /\ SUBSET DOMAIN c = {{}}
  OBVIOUS
<1>3. \A g : Of(g, {}) = Empty
  OBVIOUS
<1> HIDE DEF Of, c
<1>4. none = Body(none)
  BY <1>2, <1>3
<1> HIDE DEF none
<1>5. iter = Body(iter)
  BY <1>4
<1> HIDE DEF iter
<1>6. iter[{}] = Of(iter, {})
  BY <1>2, <1>5
<1> QED
  BY <1>1, <1>2, <1>3, <1>6 DEF c

\* What was not drawn is on its way, but during a download; and what has volume has
\* a last price.
LadderInv ==
  /\ last \in Nat
  /\ ~building => pending = "present" \/ (pending = "none" /\ shown)
  /\ profile # Empty => last > 0

\* The last price is in the middle row.
LEMMA LastHasRow ==
  ASSUME last \in Nat, last > 0
  PROVE  \E i \in DOMAIN Rows(Snapshot, 0) : Rows(Snapshot, 0)[i].price = last
<1> DEFINE mid == VisibleRows \div 2 + 1
           Price(i) == Center(Snapshot) + 0 + VisibleRows \div 2 - i + 1
           rows == Rows(Snapshot, 0)
<1>1. Center(Snapshot) = last /\ Center(Snapshot) # 0
  BY DEF Center, Snapshot
<1>2. VisibleRows \in Nat \ {0}
  BY ConstantsAssumption
<1>3. mid \in 1..VisibleRows
  BY <1>2
<1>4. Price(mid) = last
  BY <1>1, <1>2
<1>5. rows = [i \in 1..VisibleRows |-> [price |-> Price(i), volume |-> At(Snapshot.profile, Price(i))]]
  BY <1>1, Zenon DEF Rows
<1> HIDE DEF mid, Price, rows
<1>6. DOMAIN rows = 1..VisibleRows /\ rows[mid].price = Price(mid)
  BY <1>3, <1>5
<1>7. \E i \in DOMAIN rows : rows[i].price = last
  BY <1>3, <1>4, <1>6
<1> QED
  BY <1>7 DEF rows

LEMMA LadderHolds == LadderInv => LadderIsCurrent
BY LastHasRow DEF LadderInv, LadderIsCurrent

\* Steps that report.
LEMMA EmitLadder ==
  ASSUME Emit, last' \in Nat, profile' # Empty => last' > 0
  PROVE  LadderInv'
BY DEF Emit, LadderInv

LEMMA InitLadder == Init => LadderInv
BY DEF Init, LadderInv

LEMMA NextLadder == LadderInv /\ [Next]_vars => LadderInv'
<1> SUFFICES ASSUME LadderInv, [Next]_vars PROVE LadderInv'
  OBVIOUS
<1>1. Prices \subseteq Nat \ {0}
  BY ConstantsAssumption
<1>2. CASE HandleHistoryFinished
  BY <1>2, EmitLadder DEF HandleHistoryFinished, LadderInv
<1>3. CASE Subscribe
  BY <1>3, EmitLadder DEF Subscribe
<1>4. CASE HandleBook
  BY <1>4, EmitLadder DEF HandleBook, LadderInv
<1>5. ASSUME NEW p \in Prices, NEW n \in Lots, HandleHistoricalBar(p, n) PROVE LadderInv'
  BY <1>1, <1>5 DEF HandleHistoricalBar, LadderInv
<1>6. ASSUME NEW p \in Prices, NEW n \in Lots, NEW s \in Sides, NEW t \in Late(now)..MaxNow,
             HandleTrade(t, p, s, n)
      PROVE  LadderInv'
  BY <1>1, <1>6, EmitLadder DEF HandleTrade
<1>7. ASSUME NEW c \in Cached, NEW r \in BOOLEAN, NEW k \in BOOLEAN, StartChartBackfill(r, k, c)
      PROVE  LadderInv'
  <2>1. CASE c = <<>>
    <3>1. last' = last /\ profile' \in {Empty, profile} /\ Emit
      BY <1>7, <2>1, FoldNone DEF StartChartBackfill
    <3> QED
      BY <3>1, EmitLadder DEF LadderInv
  <2>2. CASE c # <<>>
    <3>1. PICK p \in Prices, v \in Lots : c = <<[close |-> p, volume |-> v]>>
      BY <2>2 DEF Cached
    <3>2. c[Len(c)].close = p
      BY <3>1
    <3>3. last' = c[Len(c)].close /\ Emit
      BY <1>7, <2>2, Zenon DEF StartChartBackfill
    <3> QED
      BY <1>1, <3>2, <3>3, EmitLadder
  <2> QED
    BY <2>1, <2>2
<1>8. CASE Flush
  BY <1>8 DEF Flush, adapter, LadderInv
<1>9. CASE Recenter
  BY <1>9 DEF Recenter, adapter, LadderInv
<1>10. ASSUME NEW k \in {3, -3}, Wheel(k) PROVE LadderInv'
  BY <1>10 DEF Wheel, adapter, LadderInv
<1>11. CASE UNCHANGED vars
  BY <1>11 DEF vars, adapter, window, LadderInv
<1> QED
  BY <1>2, <1>3, <1>4, <1>5, <1>6, <1>7, <1>8, <1>9, <1>10, <1>11 DEF Next

(***************************************************************************)
(* The ladder is never left behind the adapter once a download is over:    *)
(* what was not reported by then is, and what is pending is drawn; and a   *)
(* price that has volume comes with rows around the last price.            *)
(***************************************************************************)
THEOREM LadderIsAlwaysCurrent == Spec => []LadderIsCurrent
<1>1. LadderInv /\ [Next]_vars => LadderInv'
  BY NextLadder
<1> QED
  BY InitLadder, LadderHolds, <1>1, PTL DEF Spec

-----------------------------------------------------------------------------
(* The profile *)

\* Of at most n + 1 prices the highest n are all, or all but the lowest.
LEMMA HighestAre ==
  ASSUME NEW D \in SUBSET Nat, IsFiniteSet(D), NEW n \in Nat \ {0}, Cardinality(D) <= n + 1
  PROVE  LET K == {p \in D : Cardinality({q \in D : q > p}) < n}
         IN  \/ K = D /\ Cardinality(D) <= n
             \/ /\ Cardinality(K) = n
                /\ \E m \in D : K = D \ {m} /\ \A p \in D : m <= p
<1> DEFINE Above(p) == {q \in D : q > p}
           K == {p \in D : Cardinality(Above(p)) < n}
           c == Cardinality(D)
<1>1. c \in Nat
  BY FS_CardinalityType
<1>2. \A p, q \in D : q \in Above(p) <=> q > p
  OBVIOUS
<1>3. \A p : Above(p) \subseteq D
  OBVIOUS
<1>4. K \subseteq D /\ \A p \in D : p \in K <=> Cardinality(Above(p)) < n
  OBVIOUS
<1> SUFFICES \/ K = D /\ c <= n
             \/ /\ Cardinality(K) = n
                /\ \E m \in D : K = D \ {m} /\ \A p \in D : m <= p
  OBVIOUS
<1> HIDE DEF Above, K
<1>5. ASSUME NEW p \in D, NEW B, B \subseteq D, p \in B
      PROVE  /\ IsFiniteSet(B) /\ IsFiniteSet(B \ {p}) /\ Cardinality(B) \in Nat
             /\ Cardinality(B \ {p}) = Cardinality(B) - 1
  <2>1. IsFiniteSet(B)
    BY <1>5, FS_Subset
  <2> QED
    BY <1>5, <2>1, FS_RemoveElement, FS_CardinalityType
<1>6. ASSUME NEW p \in D
      PROVE  Cardinality(Above(p)) \in Nat /\ Cardinality(Above(p)) <= c - 1
  <2>1. Above(p) \subseteq D \ {p}
    BY <1>2, <1>3
  <2>2. IsFiniteSet(D \ {p}) /\ Cardinality(D \ {p}) = c - 1
    BY <1>5
  <2> QED
    BY <2>1, <2>2, FS_Subset, FS_CardinalityType
<1> DEFINE a(p) == Cardinality(Above(p))
<1>7. \A p \in D : a(p) \in Nat /\ a(p) <= c - 1
  BY <1>6
<1>8. CASE c <= n
  <2> HIDE DEF a, c
  <2>1. \A p \in D : a(p) < n
    BY <1>1, <1>7, <1>8
  <2>2. K = D
    BY <1>4, <2>1 DEF a
  <2> QED
    BY <1>8, <2>2
<1>9. CASE c = n + 1
  <2>1. D # {}
    BY <1>9, FS_EmptySet
  <2>2. PICK m \in D : \A p \in D : m <= p
    BY <2>1, LeastNumber
  <2>3. Above(m) = D \ {m}
    <3>1. \A q \in D : q \in Above(m) <=> q # m
      BY <1>2, <2>2
    <3> QED
      BY <1>3, <3>1
  <2>4. a(m) = n
    BY <1>5, <1>9, <2>3
  <2>5. ASSUME NEW p \in D, p # m PROVE a(p) < n
    <3>1. Above(p) \subseteq (D \ {m}) \ {p}
      <4>1. p \notin Above(p) /\ m \notin Above(p)
        BY <1>2, <2>2
      <4> QED
        BY <1>3, <4>1
    <3>2. IsFiniteSet(D \ {m}) /\ Cardinality(D \ {m}) = n /\ p \in D \ {m}
      BY <1>5, <1>9, <2>5
    <3>3. IsFiniteSet((D \ {m}) \ {p}) /\ Cardinality((D \ {m}) \ {p}) = n - 1
      BY <3>2, FS_RemoveElement
    <3>4. Cardinality(Above(p)) <= n - 1
      BY <3>1, <3>3, FS_Subset
    <3> QED
      BY <1>6, <3>4
  <2> HIDE DEF a
  <2>6. ~(a(m) < n)
    BY <2>4
  <2>7. K = D \ {m}
    BY <1>4, <2>5, <2>6 DEF a
  <2>8. Cardinality(K) = n
    BY <1>5, <1>9, <2>7
  <2> QED
    BY <2>2, <2>7, <2>8
<1> QED
  BY <1>1, <1>8, <1>9

\* A volume by price, of at most MaxBins prices.
IsProfile(f) ==
  /\ IsFiniteSet(DOMAIN f) /\ DOMAIN f \subseteq Prices /\ Cardinality(DOMAIN f) <= MaxBins
  /\ \A p \in DOMAIN f : f[p] \in Nat
  /\ DOMAIN f = {} => f = Empty

LEMMA PlusIs ==
  ASSUME NEW f, NEW x, NEW n \in Nat, At(f, x) \in Nat
  PROVE  /\ DOMAIN Plus(f, x, n) = DOMAIN f \cup {x}
         /\ Plus(f, x, n)[x] = At(f, x) + n
         /\ \A p \in DOMAIN f \cup {x} : p # x => Plus(f, x, n)[p] = At(f, p)
<1>1. /\ DOMAIN Plus(f, x, n) = DOMAIN f \cup {x}
      /\ Plus(f, x, n)[x] = At(f, x) + n
      /\ \A p \in DOMAIN f \cup {x} : p # x => Plus(f, x, n)[p] = f[p]
  BY DEF Plus
<1>2. \A p \in DOMAIN f : At(f, p) = f[p]
  BY DEF At
<1> QED
  BY <1>1, <1>2

\* A bar or a trade adds its volume; when that makes a price too many the lowest goes.
LEMMA ProfiledIs ==
  ASSUME NEW f, IsProfile(f), NEW x \in Prices, NEW n \in Nat
  PROVE  LET r == Profiled(f, x, n)
             D == DOMAIN f \cup {x}
         IN  /\ IsProfile(r) /\ DOMAIN r \subseteq D
             /\ \A p \in DOMAIN r : r[p] = At(f, p) + (IF p = x THEN n ELSE 0)
             /\ \/ DOMAIN r = D
                \/ /\ Cardinality(DOMAIN r) = MaxBins
                   /\ \E m \in D : DOMAIN r = D \ {m} /\ \A p \in D : m <= p
<1> DEFINE r == Profiled(f, x, n)
           D == DOMAIN f \cup {x}
           g == Plus(f, x, n)
           K == {p \in D : Cardinality({q \in D : q > p}) < MaxBins}
<1>1. MaxBins \in Nat \ {0} /\ Prices \subseteq Nat
  BY ConstantsAssumption
<1>2. \A p \in D : At(f, p) \in Nat
  BY DEF At, IsProfile
<1>3. DOMAIN g = D /\ g[x] = At(f, x) + n /\ \A p \in D : p # x => g[p] = At(f, p)
  BY <1>2, PlusIs
<1>4. r = Restrict(g, K)
  BY <1>3 DEF Profiled, Highest
<1>5. DOMAIN r = K /\ \A p \in K : r[p] = g[p]
  <2> HIDE DEF g, K, r
  <2> QED
    BY <1>4 DEF Restrict
<1>6. IsFiniteSet(D) /\ Cardinality(D) <= MaxBins + 1 /\ D \subseteq Prices
  <2>1. IsFiniteSet(D) /\ Cardinality(D) \in {Cardinality(DOMAIN f), Cardinality(DOMAIN f) + 1}
    BY FS_AddElement DEF IsProfile
  <2>2. Cardinality(DOMAIN f) \in Nat /\ Cardinality(DOMAIN f) <= MaxBins
    BY FS_CardinalityType DEF IsProfile
  <2>3. Cardinality(D) <= MaxBins + 1
    BY <1>1, <2>1, <2>2
  <2> QED
    BY <2>1, <2>3 DEF IsProfile
<1>7. \/ K = D /\ Cardinality(D) <= MaxBins
      \/ /\ Cardinality(K) = MaxBins
         /\ \E m \in D : K = D \ {m} /\ \A p \in D : m <= p
  <2>1. D \in SUBSET Nat
    BY <1>1, <1>6
  <2> HIDE DEF D
  <2> QED
    BY <1>1, <1>6, <2>1, HighestAre
<1>8. K \subseteq D /\ IsFiniteSet(K) /\ Cardinality(K) <= MaxBins
  <2>1. K \subseteq D
    OBVIOUS
  <2> HIDE DEF K, D
  <2>2. IsFiniteSet(K)
    BY <1>6, <2>1, FS_Subset
  <2> QED
    BY <1>1, <1>7, <2>1, <2>2
<1> HIDE DEF D, K, g, r
<1>9. \A p \in DOMAIN r : r[p] = At(f, p) + (IF p = x THEN n ELSE 0) /\ r[p] \in Nat
  BY <1>2, <1>3, <1>5, <1>8
<1>10. IsProfile(r)
  <2>1. DOMAIN r # {}
    <3>1. Cardinality({}) = 0 /\ x \in D
      BY FS_EmptySet DEF D
    <3> QED
      BY <1>1, <1>5, <1>7, <3>1
  <2> QED
    BY <1>5, <1>6, <1>8, <1>9, <2>1 DEF IsProfile
<1> QED
  BY <1>5, <1>7, <1>8, <1>9, <1>10 DEF D, r

TapeInv ==
  /\ IsProfile(profile) /\ DOMAIN tape \subseteq Prices
  /\ \A p \in DOMAIN tape : tape[p] \in Nat
  /\ TapeIsKept

\* The profile takes at least what the tape does.
LEMMA TapeStep ==
  ASSUME TapeInv, NEW x \in Prices, NEW n \in Nat, profile' = Profiled(profile, x, n),
         tape' = tape \/ tape' = Plus(tape, x, n)
  PROVE  TapeInv'
<1> DEFINE D == DOMAIN profile \cup {x}
<1>1. /\ IsProfile(profile)' /\ DOMAIN profile' \subseteq D
      /\ \A p \in DOMAIN profile' : profile'[p] = At(profile, p) + (IF p = x THEN n ELSE 0)
      /\ \/ DOMAIN profile' = D
         \/ /\ Cardinality(DOMAIN profile') = MaxBins
            /\ \E m \in D : DOMAIN profile' = D \ {m} /\ \A p \in D : m <= p
  <2> DEFINE r == Profiled(profile, x, n)
  <2>1. /\ IsProfile(r) /\ DOMAIN r \subseteq D
        /\ \A p \in DOMAIN r : r[p] = At(profile, p) + (IF p = x THEN n ELSE 0)
        /\ \/ DOMAIN r = D
           \/ /\ Cardinality(DOMAIN r) = MaxBins
              /\ \E m \in D : DOMAIN r = D \ {m} /\ \A p \in D : m <= p
    BY ProfiledIs DEF TapeInv
  <2>2. profile' = r
    OBVIOUS
  <2> HIDE DEF r, D
  <2> QED
    BY <2>1, <2>2 DEF IsProfile
<1>2. /\ DOMAIN tape' \subseteq DOMAIN tape \cup {x}
      /\ \A p \in DOMAIN tape' : /\ tape'[p] \in Nat
                                 /\ tape'[p] <= At(tape, p) + (IF p = x THEN n ELSE 0)
  <2>1. \A p \in DOMAIN tape : tape[p] \in Nat
    BY DEF TapeInv
  <2>2. CASE tape' = tape
    BY <2>1, <2>2 DEF At
  <2>3. CASE tape' = Plus(tape, x, n)
    <3>1. \A p \in DOMAIN tape \cup {x} : At(tape, p) \in Nat
      BY <2>1 DEF At
    <3>2. /\ DOMAIN tape' = DOMAIN tape \cup {x}
          /\ tape'[x] = At(tape, x) + n
          /\ \A p \in DOMAIN tape' : p # x => tape'[p] = At(tape, p)
      <4> DEFINE r == Plus(tape, x, n)
      <4>1. /\ DOMAIN r = DOMAIN tape \cup {x} /\ r[x] = At(tape, x) + n
            /\ \A p \in DOMAIN tape \cup {x} : p # x => r[p] = At(tape, p)
        BY <3>1, PlusIs
      <4>2. tape' = r
        BY <2>3
      <4> HIDE DEF r
      <4> QED
        BY <4>1, <4>2
    <3> QED
      BY <3>1, <3>2
  <2> QED
    BY <2>2, <2>3
<1>3. /\ Prices \subseteq Nat /\ DOMAIN tape \subseteq Prices /\ DOMAIN profile \subseteq Prices
      /\ \A p \in DOMAIN profile : profile[p] \in Nat
      /\ \A p \in DOMAIN tape : tape[p] \in Nat
      /\ \A p \in DOMAIN tape : p \in DOMAIN profile => profile[p] >= tape[p]
      /\ \A p \in DOMAIN tape : p \notin DOMAIN profile =>
            Cardinality(DOMAIN profile) = MaxBins /\ \A q \in DOMAIN profile : q > p
  BY ConstantsAssumption DEF TapeInv, TapeIsKept, IsProfile
<1>4. ASSUME NEW p \in DOMAIN tape', p \in DOMAIN profile'
      PROVE  profile'[p] >= tape'[p]
  <2>1. At(profile, p) >= At(tape, p)
    <3>1. CASE p \in DOMAIN tape /\ p \in DOMAIN profile
      BY <1>3, <3>1 DEF At
    <3>2. CASE p \notin DOMAIN tape
      BY <1>3, <3>2 DEF At
    \* A price that was cut is below every other, and is cut again.
    <3>3. CASE p \in DOMAIN tape /\ p \notin DOMAIN profile
      <4>1. p = x /\ \A q \in DOMAIN profile : q > p
        BY <1>1, <1>3, <1>4, <3>3
      <4>2. Cardinality(D) = MaxBins + 1
        BY <1>3, <3>3, <4>1, FS_AddElement DEF TapeInv, IsProfile
      <4>3. DOMAIN profile' # D
        BY <4>2, ConstantsAssumption, <1>1 DEF IsProfile
      <4>4. PICK m \in D : DOMAIN profile' = D \ {m} /\ \A q \in D : m <= q
        BY <1>1, <4>3
      <4>5. m # p /\ m <= p /\ m \in DOMAIN profile
        BY <1>4, <4>1, <4>4
      <4>6. m \in Nat /\ p \in Nat /\ m > p
        BY <1>3, <3>3, <4>1, <4>5
      <4> QED
        BY <4>5, <4>6
    <3> QED
      BY <3>1, <3>2, <3>3
  <2>2. At(profile, p) \in Nat /\ At(tape, p) \in Nat
    BY <1>3 DEF At
  <2>3. /\ profile'[p] = At(profile, p) + (IF p = x THEN n ELSE 0)
        /\ tape'[p] <= At(tape, p) + (IF p = x THEN n ELSE 0) /\ tape'[p] \in Nat
    BY <1>1, <1>2, <1>4
  <2> QED
    BY <2>1, <2>2, <2>3
<1>5. ASSUME NEW p \in DOMAIN tape', p \notin DOMAIN profile'
      PROVE  Cardinality(DOMAIN profile') = MaxBins /\ \A q \in DOMAIN profile' : q > p
  <2>1. CASE p \in D
    <3>1. PICK m \in D : DOMAIN profile' = D \ {m} /\ \A q \in D : m <= q
      BY <1>1, <1>5, <2>1
    <3>2. p = m
      BY <1>5, <2>1, <3>1
    <3>3. Cardinality(DOMAIN profile') = MaxBins
      BY <1>1, <1>5, <2>1
    <3>4. D \subseteq Nat
      BY <1>3
    <3> HIDE DEF D
    <3>5. \A q \in DOMAIN profile' : q > p
      BY <2>1, <3>1, <3>2, <3>4
    <3> QED
      BY <3>3, <3>5
  <2>2. CASE p \notin D
    <3>1. /\ p \in DOMAIN tape /\ Cardinality(DOMAIN profile) = MaxBins
          /\ \A q \in DOMAIN profile : q > p
      BY <1>2, <1>3, <2>2
    <3>2. CASE x \in DOMAIN profile
      <4>1. D = DOMAIN profile
        BY <3>2
      <4>2. DOMAIN profile' = DOMAIN profile
        <5>1. CASE DOMAIN profile' = D
          BY <4>1, <5>1
        <5>2. CASE DOMAIN profile' # D
          <6>1. /\ Cardinality(DOMAIN profile') = MaxBins
                /\ \E m \in D : DOMAIN profile' = D \ {m}
            BY <1>1, <5>2
          <6>2. \A m \in DOMAIN profile :
                    Cardinality(DOMAIN profile \ {m}) = Cardinality(DOMAIN profile) - 1
            BY FS_RemoveElement DEF TapeInv, IsProfile
          <6> QED
            BY <3>1, <4>1, <6>1, <6>2, ConstantsAssumption
        <5> QED
          BY <5>1, <5>2
      <4> QED
        BY <3>1, <4>2
    <3>3. CASE x \notin DOMAIN profile
      <4>1. Cardinality(D) = MaxBins + 1
        BY <3>1, <3>3, FS_AddElement DEF TapeInv, IsProfile
      <4>2. DOMAIN profile' # D
        BY <4>1, ConstantsAssumption, <1>1 DEF IsProfile
      <4>3. Cardinality(DOMAIN profile') = MaxBins
        BY <1>1, <4>2
      <4>4. PICK m \in D : DOMAIN profile' = D \ {m} /\ \A q \in D : m <= q
        BY <1>1, <4>2
      <4>5. \A q \in DOMAIN profile' : q > p
        <5>1. CASE m = x
          BY <3>1, <4>4, <5>1
        <5>2. CASE m # x
          <6>1. m \in DOMAIN profile /\ m > p /\ m \in Nat /\ p \in Nat
            BY <1>3, <3>1, <5>2
          <6>2. \A q \in DOMAIN profile' : q \in Nat /\ m <= q
            BY <1>3, <4>4
          <6> QED
            BY <6>1, <6>2
        <5> QED
          BY <5>1, <5>2
      <4> QED
        BY <4>3, <4>5
    <3> QED
      BY <3>2, <3>3
  <2> QED
    BY <2>1, <2>2
<1>6. TapeIsKept'
  BY <1>4, <1>5 DEF TapeIsKept
<1>7. DOMAIN tape' \subseteq Prices
  BY <1>2, <1>3
<1> QED
  BY <1>1, <1>2, <1>6, <1>7 DEF TapeInv

LEMMA EmptyProfile == IsProfile(Empty)
<1>1. DOMAIN Empty = {}
  BY DEF Empty
<1>2. IsFiniteSet({}) /\ Cardinality({}) = 0
  BY FS_EmptySet
<1> QED
  BY <1>1, <1>2, ConstantsAssumption DEF IsProfile

\* A fold over one candle.
LEMMA FoldOne ==
  ASSUME NEW c, DOMAIN c = {1}
  PROVE  FoldLeft(LAMBDA f, d : Profiled(f, d.close, d.volume), Empty, c)
            = Profiled(Empty, c[1].close, c[1].volume)
<1> DEFINE Of(g, s) == IF s = {} THEN Empty
                       ELSE LET x == Max(s) IN Profiled(g[s \ {x}], c[x].close, c[x].volume)
           Body(g) == [s \in SUBSET DOMAIN c |-> Of(g, s)]
           iter == CHOOSE g : g = Body(g)
           one == Profiled(Empty, c[1].close, c[1].volume)
           only == [s \in SUBSET DOMAIN c |-> IF s = {} THEN Empty ELSE one]
<1>1. FoldLeft(LAMBDA f, d : Profiled(f, d.close, d.volume), Empty, c) = iter[DOMAIN c]
  BY Zenon DEF FoldLeft, MapThenFoldSet
<1>2. Max({1}) = 1 /\ {1} \ {1} = {}
  BY DEF Max
<1>3. SUBSET DOMAIN c = {{}, {1}}
  OBVIOUS
<1>4. \A g : Of(g, {}) = Empty /\ (g[{}] = Empty => Of(g, {1}) = one)
  BY <1>2
<1> HIDE DEF Of, one
<1>5. only[{}] = Empty /\ only[{1}] = one
  BY <1>3
<1>6. \A s \in SUBSET DOMAIN c : Of(only, s) = IF s = {} THEN Empty ELSE one
  BY <1>3, <1>4, <1>5
<1>7. only = Body(only)
  BY <1>6
<1> HIDE DEF only
<1>8. iter = Body(iter)
  BY <1>7
<1> HIDE DEF iter
<1>9. iter[{}] = Of(iter, {}) /\ iter[{1}] = Of(iter, {1})
  BY <1>3, <1>8
<1>10. iter[{1}] = one
  BY <1>4, <1>9
<1> QED
  BY <1>1, <1>10 DEF one

LEMMA NextTape == TapeInv /\ [Next]_vars => TapeInv'
<1> SUFFICES ASSUME TapeInv, [Next]_vars PROVE TapeInv'
  OBVIOUS
<1>1. ASSUME UNCHANGED <<profile, tape>> PROVE TapeInv'
  BY <1>1 DEF TapeInv, IsProfile, TapeIsKept
<1>2. ASSUME tape' = Empty, IsProfile(profile') PROVE TapeInv'
  <2>1. DOMAIN tape' = {}
    BY <1>2 DEF Empty
  <2> QED
    BY <1>2, <2>1 DEF TapeInv, TapeIsKept, IsProfile
<1>3. Lots \subseteq Nat
  BY ConstantsAssumption
<1>4. CASE HandleHistoryFinished
  BY <1>1, <1>4 DEF HandleHistoryFinished
<1>5. CASE Subscribe
  BY <1>2, <1>5, EmptyProfile DEF Subscribe
<1>6. CASE HandleBook
  BY <1>1, <1>6 DEF HandleBook
<1>7. ASSUME NEW p \in Prices, NEW n \in Lots, HandleHistoricalBar(p, n) PROVE TapeInv'
  BY <1>3, <1>7, TapeStep DEF HandleHistoricalBar
<1>8. ASSUME NEW p \in Prices, NEW n \in Lots, NEW s \in Sides, NEW t \in Late(now)..MaxNow,
             HandleTrade(t, p, s, n)
      PROVE  TapeInv'
  BY <1>3, <1>8, TapeStep DEF HandleTrade
<1>9. ASSUME NEW c \in Cached, NEW r \in BOOLEAN, NEW k \in BOOLEAN, StartChartBackfill(r, k, c)
      PROVE  TapeInv'
  <2>1. CASE c = <<>>
    <3>1. /\ profile' = IF r \/ k THEN Empty ELSE profile
          /\ tape' = IF r \/ k THEN Empty ELSE tape
      BY <1>9, <2>1, FoldNone DEF StartChartBackfill
    <3>2. CASE r \/ k
      BY <1>2, <3>1, <3>2, EmptyProfile
    <3> QED
      BY <1>1, <3>1, <3>2
  <2>2. CASE c # <<>>
    <3>1. PICK p \in Prices, v \in Lots : c = <<[close |-> p, volume |-> v]>>
      BY <2>2 DEF Cached
    <3>2. DOMAIN c = {1} /\ c[1].close = p /\ c[1].volume = v
      BY <3>1
    <3>3. /\ profile' = FoldLeft(LAMBDA f, d : Profiled(f, d.close, d.volume), Empty, c)
          /\ tape' = Empty
      BY <1>9, <2>2, Zenon DEF StartChartBackfill
    <3>4. profile' = Profiled(Empty, p, v)
      BY <3>2, <3>3, FoldOne
    <3>5. IsProfile(profile')
      BY <1>3, <3>4, EmptyProfile, ProfiledIs
    <3> QED
      BY <1>2, <3>3, <3>5
  <2> QED
    BY <2>1, <2>2
<1>10. CASE Flush
  BY <1>1, <1>10 DEF Flush, adapter
<1>11. CASE Recenter
  BY <1>1, <1>11 DEF Recenter, adapter
<1>12. ASSUME NEW k \in {3, -3}, Wheel(k) PROVE TapeInv'
  BY <1>1, <1>12 DEF Wheel, adapter
<1>13. CASE UNCHANGED vars
  BY <1>1, <1>13 DEF vars, adapter
<1> QED
  BY <1>4, <1>5, <1>6, <1>7, <1>8, <1>9, <1>10, <1>11, <1>12, <1>13 DEF Next

LEMMA TapeIsInvariant == Spec => []TapeInv
<1>1. Init => TapeInv
  <2> SUFFICES ASSUME Init PROVE TapeInv
    OBVIOUS
  <2>1. profile = Empty /\ DOMAIN tape = {}
    BY DEF Init, Empty
  <2> QED
    BY <2>1, EmptyProfile DEF TapeInv, TapeIsKept
<1>2. TapeInv /\ [Next]_vars => TapeInv'
  BY NextTape
<1> QED
  BY <1>1, <1>2, PTL DEF Spec

(***************************************************************************)
(* The profile never loses what was traded since it was made, but for      *)
(* prices below the lowest of a full one, whatever bars of a replay come   *)
(* between the trades and however often it is cut.                         *)
(***************************************************************************)
THEOREM TapeIsAlwaysKept == Spec => []TapeIsKept
<1>1. TapeInv => TapeIsKept
  BY DEF TapeInv
<1> QED
  BY <1>1, TapeIsInvariant, PTL

-----------------------------------------------------------------------------
(* The value area *)

\* Every bin has a price, and every price of the profile is in a bin.
LEMMA BinsAre ==
  ASSUME NEW f, IsProfile(f)
  PROVE  LET n == Cardinality(DOMAIN f)
         IN  /\ DOMAIN f # {} => n \in Nat \ {0}
             /\ DOMAIN Bins(f) = 1..n /\ Len(Bins(f)) = n
             /\ \A i \in 1..n : Bins(f)[i] \in DOMAIN f
             /\ {Bins(f)[i] : i \in 1..n} = DOMAIN f
<1> DEFINE D == DOMAIN f
           n == Cardinality(D)
           Above(p) == {q \in D : q > p}
           b == [i \in 1..n |-> CHOOSE p \in D : Cardinality(Above(p)) = i - 1]
           place == [p \in D |-> Cardinality(Above(p)) + 1]
<1>1. IsFiniteSet(D) /\ D \subseteq Nat /\ n \in Nat
  BY FS_CardinalityType, ConstantsAssumption DEF IsProfile
<1>2. Bins(f) = b
  BY DEF Bins
<1>3. \A p, q \in D : q \in Above(p) <=> q > p
  OBVIOUS
<1>4. \A p \in D : Above(p) \subseteq D
  OBVIOUS
<1> HIDE DEF D, Above
<1>5. \A p \in D : IsFiniteSet(Above(p)) /\ Cardinality(Above(p)) \in Nat
  BY <1>1, <1>4, FS_Subset, FS_CardinalityType
\* A price has fewer above it than a lower one, and fewer than there are.
<1>6. ASSUME NEW p \in D, NEW q \in D, p > q
      PROVE  Cardinality(Above(p)) < Cardinality(Above(q))
  <2>1. \A r \in D : r > p => r > q
    BY <1>1, <1>6
  <2>2. Above(p) \in SUBSET Above(q) /\ Above(p) # Above(q)
    <3>1. p \in Above(q) /\ ~ (p > p)
      BY <1>1, <1>3, <1>6
    <3> QED
      BY <1>3, <1>4, <2>1, <3>1
  <2> QED
    BY <1>5, <2>2, FS_Subset
<1>7. ASSUME NEW p \in D PROVE Cardinality(Above(p)) < n
  <2>1. Above(p) \in SUBSET D /\ Above(p) # D
    <3>1. ~ (p > p)
      BY <1>1
    <3> QED
      BY <1>3, <1>4, <3>1
  <2> QED
    BY <1>1, <1>5, <2>1, FS_Subset
<1>8. ASSUME NEW p \in D, NEW q \in D, Cardinality(Above(p)) = Cardinality(Above(q))
      PROVE  p = q
  BY <1>1, <1>5, <1>6, <1>8
<1>9. \A i \in 1..n : \E p \in D : Cardinality(Above(p)) = i - 1
  <2>1. place \in [D -> 1..n]
    BY <1>1, <1>5, <1>7
  <2>2. \A p, q \in D : place[p] = place[q] => p = q
    BY <1>5, <1>8
  <2>3. place \in Injection(D, 1..n)
    <3> HIDE DEF place
    <3> QED
      BY <2>1, <2>2 DEF Injection, IsInjective
  <2>4. IsFiniteSet(1..n) /\ Cardinality(1..n) = n
    BY <1>1, FS_Interval
  <2>5. place \in Surjection(D, 1..n)
    <3> HIDE DEF place
    <3> QED
      BY <1>1, <2>3, <2>4, FS_Injection
  <2>6. \A i \in 1..n : \E p \in D : place[p] = i
    BY <2>5 DEF Surjection
  <2> QED
    BY <1>1, <1>5, <2>6
<1>10. \A i \in 1..n : b[i] \in D /\ Cardinality(Above(b[i])) = i - 1
  BY <1>9
<1>11. DOMAIN b = 1..n
  OBVIOUS
<1>12. Len(b) = n
  BY <1>1, <1>11
<1> HIDE DEF b
<1>13. \A p \in D : \E i \in 1..n : b[i] = p
  <2> TAKE p \in D
  <2> DEFINE i == Cardinality(Above(p)) + 1
  <2>1. i \in 1..n
    BY <1>1, <1>5, <1>7
  <2>2. b[i] \in D /\ Cardinality(Above(b[i])) = Cardinality(Above(p))
    BY <1>5, <1>10, <2>1
  <2> QED
    BY <1>8, <2>1, <2>2
<1>14. {b[i] : i \in 1..n} = D
  BY <1>10, <1>13
<1>15. D # {} => n \in Nat \ {0}
  BY <1>1, FS_EmptySet
<1> QED
  BY <1>2, <1>10, <1>11, <1>12, <1>14, <1>15 DEF D

\* The sum of volumes is a number, of whatever prices.
LEMMA SumIsNat ==
  ASSUME NEW f, NEW T, IsFiniteSet(T), \A x \in T : f[x] \in Nat
  PROVE  SumFunctionOnSet(f, T) \in Nat
<1> DEFINE Pick(s) == CHOOSE x \in s : TRUE
           Of(g, s) == IF s = {} THEN 0 ELSE LET x == Pick(s) IN f[x] + g[s \ {x}]
           Body(g) == [s \in SUBSET T |-> Of(g, s)]
           iter == CHOOSE g : g = Body(g)
           Small(k) == {s \in SUBSET T : Cardinality(s) <= k}
           Solves(g, k) == \A s \in Small(k) : g[s] = Of(g, s)
<1>1. SumFunctionOnSet(f, T) = iter[T]
  BY Zenon DEF SumFunctionOnSet, FoldFunctionOnSet, MapThenFoldSet
<1>2. \A g : Of(g, {}) = 0
  OBVIOUS
<1>3. \A s \in SUBSET T : s # {} => /\ Pick(s) \in s
                                    /\ \A g : Of(g, s) = f[Pick(s)] + g[s \ {Pick(s)}]
  OBVIOUS
<1>4. \A s \in SUBSET T : s # {} => /\ IsFiniteSet(s) /\ Cardinality(s) \in Nat \ {0}
                                    /\ s \ {Pick(s)} \in SUBSET T
                                    /\ Cardinality(s \ {Pick(s)}) = Cardinality(s) - 1
  <2> SUFFICES ASSUME NEW s \in SUBSET T, s # {}
               PROVE  /\ IsFiniteSet(s) /\ Cardinality(s) \in Nat \ {0}
                      /\ s \ {Pick(s)} \in SUBSET T
                      /\ Cardinality(s \ {Pick(s)}) = Cardinality(s) - 1
    BY Zenon
  <2>1. IsFiniteSet(s) /\ Cardinality(s) \in Nat /\ Pick(s) \in s
    BY <1>3, FS_Subset, FS_CardinalityType
  <2> HIDE DEF Pick
  <2>2. Cardinality(s) # 0
    BY <2>1, FS_EmptySet
  <2>3. Cardinality(s \ {Pick(s)}) = Cardinality(s) - 1
    BY <2>1, FS_RemoveElement
  <2> QED
    BY <2>1, <2>2, <2>3
<1>5. IsFiniteSet({}) /\ Cardinality({}) = 0 /\ Cardinality(T) \in Nat
  BY FS_EmptySet, FS_CardinalityType
<1>6. \A g : \A s \in SUBSET T : Body(g)[s] = Of(g, s)
  OBVIOUS
<1>7. \A g, k : Solves(g, k) <=> \A s \in SUBSET T : Cardinality(s) <= k => g[s] = Of(g, s)
  OBVIOUS
<1>8. \A g : DOMAIN Body(g) = SUBSET T /\ Body(g) = [s \in SUBSET T |-> Body(g)[s]]
  OBVIOUS
<1> HIDE DEF Pick, Of, Solves, Small
\* Each round solves the equation for sets with one more element.
<1>9. ASSUME NEW k \in Nat, NEW g, Solves(g, k) PROVE Solves(Body(g), k + 1)
  <2> DEFINE h == Body(g)
  <2>1. SUFFICES ASSUME NEW s \in SUBSET T, Cardinality(s) <= k + 1
                 PROVE  h[s] = Of(h, s)
    BY <1>7
  <2>2. CASE s = {}
    BY <1>2, <1>6, <2>2
  <2>3. CASE s # {}
    <3> DEFINE t == s \ {Pick(s)}
    <3>1. t \in SUBSET T /\ Cardinality(t) <= k
      BY <1>4, <2>1, <2>3
    <3>2. h[t] = Of(g, t) /\ g[t] = Of(g, t) /\ h[s] = Of(g, s)
      BY <1>6, <1>7, <1>9, <3>1
    <3> HIDE DEF h
    <3> QED
      BY <1>3, <2>3, <3>2
  <2> QED
    BY <2>2, <2>3
<1>10. \E g : Solves(g, Cardinality(T))
  <2> DEFINE Unsolved == {k \in Nat : ~ \E g : Solves(g, k)}
  <2>1. SUFFICES ASSUME Unsolved # {} PROVE FALSE
    BY <1>5
  <2>2. PICK k \in Unsolved : \A m \in Unsolved : k <= m
    BY <2>1, LeastNumber
  <2>3. CASE k = 0
    <3>1. \A s \in SUBSET T : Cardinality(s) <= 0 => s = {}
      <4>1. \A s \in SUBSET T : s # {} => Cardinality(s) \in Nat \ {0}
        BY <1>4, Zenon
      <4> QED
        BY <4>1
    <3>2. Solves([s \in SUBSET T |-> 0], 0)
      BY <1>2, <1>7, <3>1
    <3> QED
      BY <2>3, <3>2
  <2>4. CASE k # 0
    <3>1. k - 1 \in Nat /\ k - 1 \notin Unsolved
      BY <2>2, <2>4
    <3>2. PICK g : Solves(g, k - 1)
      BY <3>1
    <3>3. Solves(Body(g), (k - 1) + 1) /\ (k - 1) + 1 = k
      <4> HIDE DEF Body
      <4> QED
        BY <1>9, <3>1, <3>2
    <3>4. k \notin Unsolved
      <4>1. \E h : Solves(h, k)
        <5> HIDE DEF Body
        <5> QED
          BY <3>3
      <4> QED
        BY <4>1
    <3> QED
      BY <2>2, <3>4
  <2> QED
    BY <2>3, <2>4
<1>11. iter = Body(iter)
  <2>1. PICK g : Solves(g, Cardinality(T))
    BY <1>10
  <2>2. \A s \in SUBSET T : Cardinality(s) <= Cardinality(T)
    BY FS_Subset
  <2> DEFINE h == Body(g)
  <2>3. Solves(h, Cardinality(T) + 1)
    BY <1>5, <1>9, <2>1
  <2>4. \A s \in SUBSET T : Cardinality(s) \in Nat
    BY FS_Subset, FS_CardinalityType
  <2>5. \A s \in SUBSET T : h[s] = Of(h, s)
    BY <1>5, <1>7, <2>2, <2>3, <2>4
  <2>6. h = Body(h)
    <3>1. h = [s \in SUBSET T |-> h[s]]
      BY <1>8
    <3> HIDE DEF h
    <3> QED
      BY <2>5, <3>1
  <2> HIDE DEF h
  <2> QED
    BY <2>6
<1>12. \A s \in SUBSET T : iter[s] = Of(iter, s)
  BY <1>6, <1>11
<1> HIDE DEF iter
<1> DEFINE Bad == {k \in Nat : \E s \in SUBSET T : Cardinality(s) = k /\ iter[s] \notin Nat}
<1>13. Bad = {}
  <2>1. SUFFICES ASSUME Bad # {} PROVE FALSE
    OBVIOUS
  <2>2. PICK k \in Bad : \A m \in Bad : k <= m
    BY <2>1, LeastNumber
  <2>3. PICK s \in SUBSET T : Cardinality(s) = k /\ iter[s] \notin Nat
    BY <2>2
  <2>4. s # {}
    <3>1. {} \in SUBSET T
      OBVIOUS
    <3>2. iter[{}] = 0
      BY <1>2, <1>12, <3>1, Zenon
    <3> QED
      BY <2>3, <3>2
  <2> DEFINE t == s \ {Pick(s)}
  <2>5. t \in SUBSET T /\ Cardinality(t) = k - 1 /\ k - 1 \in Nat
    BY <1>4, <2>3, <2>4
  <2>6. iter[t] \in Nat
    BY <2>2, <2>5
  <2>7. iter[s] = f[Pick(s)] + iter[t] /\ Pick(s) \in T
    BY <1>3, <1>12, <2>4
  <2> QED
    BY <2>3, <2>6, <2>7
<1> QED
  BY <1>1, <1>5, <1>13

\* The point of control is a bin with the most volume.
LEMMA PointOfControlIs ==
  ASSUME NEW f, IsProfile(f), DOMAIN f # {}
  PROVE  LET bins == Bins(f)
             poc == PointOfControl(f)
         IN  /\ poc \in DOMAIN bins
             /\ \A j \in DOMAIN bins : f[bins[poc]] >= f[bins[j]]
<1> DEFINE bins == Bins(f)
           D == DOMAIN bins
           Before(j, i) == f[bins[j]] > f[bins[i]] \/ (f[bins[j]] = f[bins[i]] /\ j < i)
           Ahead(i) == {j \in D : Before(j, i)}
           First(i) == \A j \in D : f[bins[i]] >= f[bins[j]] /\ (j < i => f[bins[i]] > f[bins[j]])
           Sizes == {Cardinality(Ahead(i)) : i \in D}
<1>1. D \subseteq Nat /\ D # {} /\ \A i \in D : f[bins[i]] \in Nat
  <2> DEFINE n == Cardinality(DOMAIN f)
  <2>1. n \in Nat \ {0} /\ D = 1..n /\ \A i \in 1..n : bins[i] \in DOMAIN f
    BY BinsAre
  <2>2. \A p \in DOMAIN f : f[p] \in Nat
    BY DEF IsProfile
  <2> HIDE DEF n, D, bins
  <2>3. D # {}
    <3>1. 1 \in 1..n
      BY <2>1
    <3> QED
      BY <2>1, <3>1
  <2>4. D \subseteq Nat
    BY <2>1
  <2> QED
    BY <2>1, <2>2, <2>3, <2>4
<1>2. IsFiniteSet(D)
  <2>1. Cardinality(DOMAIN f) \in Nat /\ D = 1..Cardinality(DOMAIN f)
    BY BinsAre
  <2> QED
    BY <2>1, FS_Interval
<1>3. PointOfControl(f) = CHOOSE i \in D : First(i)
  BY Zenon DEF PointOfControl
<1>4. \A i, j \in D : j \in Ahead(i) <=> Before(j, i)
  OBVIOUS
<1>5. \A i \in D : Ahead(i) \subseteq D
  OBVIOUS
<1>6. ASSUME NEW i \in D, Ahead(i) = {} PROVE First(i)
  <2>1. \A j \in D : ~ Before(j, i)
    BY <1>4, <1>6
  <2> HIDE DEF D, bins
  <2> QED
    BY <1>1, <2>1
<1>7. \A i, j, k \in D : Before(k, j) /\ Before(j, i) => Before(k, i)
  <2> HIDE DEF D, bins
  <2> QED
    BY <1>1
<1>8. \A i \in D : ~ Before(i, i)
  <2> HIDE DEF D, bins
  <2> QED
    BY <1>1
<1> HIDE DEF D, Ahead, Before
<1>9. \A i \in D : IsFiniteSet(Ahead(i)) /\ Cardinality(Ahead(i)) \in Nat
  BY <1>2, <1>5, FS_Subset, FS_CardinalityType
<1>10. PICK i \in D : \A j \in D : Cardinality(Ahead(i)) <= Cardinality(Ahead(j))
  <2>1. Sizes \in SUBSET Nat /\ Sizes # {}
    BY <1>1, <1>9
  <2>2. PICK n \in Sizes : \A k \in Sizes : n <= k
    BY <2>1, LeastNumber
  <2> QED
    BY <2>2
<1>11. Ahead(i) = {}
  <2>1. SUFFICES ASSUME NEW j \in D, Before(j, i) PROVE FALSE
    BY <1>4, <1>5
  <2>2. Ahead(j) \in SUBSET Ahead(i)
    BY <1>4, <1>5, <1>7, <2>1
  <2>3. Ahead(j) # Ahead(i)
    BY <1>4, <1>8, <2>1
  <2>4. Cardinality(Ahead(j)) < Cardinality(Ahead(i))
    BY <1>9, <2>2, <2>3, FS_Subset
  <2> QED
    BY <1>9, <1>10, <2>4
<1>12. PointOfControl(f) \in D /\ First(PointOfControl(f))
  <2>1. First(i)
    BY <1>6, <1>11
  <2> HIDE DEF First
  <2> QED
    BY <1>3, <2>1, Zenon
<1>13. \A j \in D : f[bins[PointOfControl(f)]] >= f[bins[j]]
  BY <1>12, Zenon
<1> QED
  BY <1>12, <1>13 DEF D

\* Where the growth from a bin ends, and how the last bin was taken in.
LEMMA ValueAreaIs ==
  ASSUME NEW f, IsProfile(f), DOMAIN f # {}
  PROVE  LET n == Cardinality(DOMAIN f)
             poc == PointOfControl(f)
             area == ValueArea(f)
         IN  /\ area.high \in 1..poc /\ area.low \in poc..n
             /\ Enough(f, area.high, area.low) \/ (area.high = 1 /\ area.low = n)
             /\ area.high # poc \/ area.low # poc =>
                    \/ area.high < poc /\ ~Enough(f, area.high + 1, area.low)
                    \/ area.low > poc /\ ~Enough(f, area.high, area.low - 1)
<1> DEFINE bins == Bins(f)
           n == Cardinality(DOMAIN f)
           D == 1..n
           Areas == [high : DOMAIN bins, low : DOMAIN bins]
           Volume(i) == IF i \in DOMAIN bins THEN f[bins[i]] ELSE -1
           Stop(a) == Enough(f, a.high, a.low) \/ (a.high = 1 /\ a.low = Len(bins))
           Up(a) == a.high > 1 /\ Volume(a.high - 1) >= Volume(a.low + 1)
           Higher(a) == [high |-> a.high - 1, low |-> a.low]
           Lower(a) == [high |-> a.high, low |-> a.low + 1]
           Of(g, a) == IF Stop(a) THEN a
                       ELSE IF Up(a) THEN g[Higher(a)] ELSE g[Lower(a)]
           Body(g) == [a \in Areas |-> Of(g, a)]
           grown == CHOOSE g : g = Body(g)
           poc == PointOfControl(f)
           start == [high |-> poc, low |-> poc]
           Left(a) == (a.high - 1) + (n - a.low)
           Solves(g, k) == \A a \in Areas : Left(a) <= k => g[a] = Of(g, a)
<1>1. ValueArea(f) = grown[start]
  BY Zenon DEF ValueArea
<1>2. /\ n \in Nat \ {0} /\ DOMAIN bins = D /\ Len(bins) = n /\ poc \in D
      /\ \A i \in D : f[bins[i]] \in Nat
  <2>1. /\ n \in Nat \ {0} /\ DOMAIN bins = D /\ Len(bins) = n
        /\ \A i \in D : bins[i] \in DOMAIN f
    BY BinsAre
  <2>2. poc \in DOMAIN bins
    BY PointOfControlIs
  <2>3. \A p \in DOMAIN f : f[p] \in Nat
    BY DEF IsProfile
  <2> HIDE DEF n, D, bins, poc
  <2> QED
    BY <2>1, <2>2, <2>3
<1>3. \A a \in Areas : /\ a = [high |-> a.high, low |-> a.low] /\ a.high \in D /\ a.low \in D
                       /\ Left(a) \in Nat /\ Left(a) <= 2 * n
  <2> HIDE DEF n, bins
  <2> QED
    BY <1>2
<1>4. \A i, j \in D : [high |-> i, low |-> j] \in Areas
  <2> HIDE DEF n, bins
  <2> QED
    BY <1>2
<1>5. \A a : Stop(a) => \A g : Of(g, a) = a
  OBVIOUS
<1>6. ASSUME NEW a \in Areas, ~Stop(a), Up(a)
      PROVE  /\ \A g : Of(g, a) = g[Higher(a)]
             /\ Higher(a) \in Areas /\ Left(Higher(a)) = Left(a) - 1
  <2>1. \A g : Of(g, a) = g[Higher(a)]
    BY <1>6, Zenon
  <2>2. a.high > 1
    BY <1>6
  <2> HIDE DEF n, bins, Stop, Of, Up
  <2>3. a.high \in D /\ a.low \in D
    BY <1>3
  <2>4. a.high - 1 \in D
    BY <1>2, <2>2, <2>3
  <2>5. Higher(a) \in Areas
    BY <1>4, <2>3, <2>4
  <2>6. Left(Higher(a)) = Left(a) - 1
    BY <1>2, <2>3
  <2> QED
    BY <2>1, <2>5, <2>6
\* Below the last bin there is nothing, so the growth goes up from there.
<1>7. ASSUME NEW a \in Areas, ~Stop(a), ~Up(a)
      PROVE  /\ \A g : Of(g, a) = g[Lower(a)]
             /\ Lower(a) \in Areas /\ Left(Lower(a)) = Left(a) - 1
  <2>1. \A g : Of(g, a) = g[Lower(a)]
    BY <1>7, Zenon
  <2>2. a.low # n
    <3>1. SUFFICES ASSUME a.low = n PROVE FALSE
      OBVIOUS
    <3> HIDE DEF n, bins
    <3>2. a.high > 1
      BY <1>2, <1>3, <1>7, <3>1
    <3>3. a.high - 1 \in D /\ a.low + 1 \notin D
      BY <1>2, <1>3, <3>1, <3>2
    <3>4. Volume(a.high - 1) \in Nat /\ Volume(a.low + 1) = -1
      BY <1>2, <3>3
    <3> HIDE DEF Volume
    <3> QED
      BY <1>7, <3>2, <3>4
  <2> HIDE DEF n, bins, Stop, Of, Up
  <2>3. a.high \in D /\ a.low \in D
    BY <1>3
  <2>4. a.low + 1 \in D
    BY <1>2, <2>2, <2>3
  <2>5. Lower(a) \in Areas
    BY <1>4, <2>3, <2>4
  <2>6. Left(Lower(a)) = Left(a) - 1
    BY <1>2, <2>3
  <2> QED
    BY <2>1, <2>5, <2>6
<1>8. \A g : \A a \in Areas : Body(g)[a] = Of(g, a)
  OBVIOUS
<1> HIDE DEF n, D, Areas, Stop, Up, Higher, Lower, Of, Left, Volume, bins
\* Each round solves the equation for growths of one more step.
<1>9. ASSUME NEW k \in Nat, NEW g, Solves(g, k) PROVE Solves(Body(g), k + 1)
  <2> DEFINE h == Body(g)
  <2>1. SUFFICES ASSUME NEW a \in Areas, Left(a) <= k + 1
                 PROVE  h[a] = Of(h, a)
    BY Zenon
  <2>2. \A b \in Areas : h[b] = Of(g, b)
    BY <1>8
  <2> HIDE DEF h
  <2>3. CASE Stop(a)
    BY <1>5, <2>2, <2>3
  <2>4. CASE ~Stop(a) /\ Up(a)
    <3>1. Higher(a) \in Areas /\ Left(Higher(a)) <= k
      BY <1>3, <1>6, <2>1, <2>4
    <3>2. /\ h[Higher(a)] = Of(g, Higher(a)) /\ g[Higher(a)] = Of(g, Higher(a))
          /\ h[a] = Of(g, a)
      BY <1>9, <2>2, <3>1
    <3> QED
      BY <1>6, <2>4, <3>2
  <2>5. CASE ~Stop(a) /\ ~Up(a)
    <3>1. Lower(a) \in Areas /\ Left(Lower(a)) <= k
      BY <1>3, <1>7, <2>1, <2>5
    <3>2. /\ h[Lower(a)] = Of(g, Lower(a)) /\ g[Lower(a)] = Of(g, Lower(a))
          /\ h[a] = Of(g, a)
      BY <1>9, <2>2, <3>1
    <3> QED
      BY <1>7, <2>5, <3>2
  <2> QED
    BY <2>3, <2>4, <2>5
<1>10. \A k \in Nat : \E g : Solves(g, k)
  <2> DEFINE Unsolved == {k \in Nat : ~ \E g : Solves(g, k)}
  <2>1. SUFFICES ASSUME Unsolved # {} PROVE FALSE
    OBVIOUS
  <2>2. PICK k \in Unsolved : \A m \in Unsolved : k <= m
    BY <2>1, LeastNumber
  <2> HIDE DEF Body
  <2>3. CASE k = 0
    <3> DEFINE g == [a \in Areas |-> a]
    <3>1. ASSUME NEW a \in Areas, Left(a) <= 0 PROVE Stop(a)
      <4>1. Left(a) = 0
        BY <1>3, <3>1
      <4>2. CASE Up(a) /\ ~Stop(a)
        BY <1>3, <1>6, <4>1, <4>2
      <4>3. CASE ~Up(a) /\ ~Stop(a)
        BY <1>3, <1>7, <4>1, <4>3
      <4> QED
        BY <4>2, <4>3
    <3>2. \A a \in Areas : g[a] = a
      OBVIOUS
    <3> HIDE DEF g
    <3>3. Solves(g, 0)
      BY <1>5, <3>1, <3>2
    <3> HIDE DEF Solves
    <3> QED
      BY <2>2, <2>3, <3>3
  <2>4. CASE k # 0
    <3>1. k - 1 \in Nat /\ k - 1 \notin Unsolved /\ (k - 1) + 1 = k
      BY <2>2, <2>4
    <3>2. PICK g : Solves(g, k - 1)
      BY <3>1
    <3> HIDE DEF Solves
    <3>3. Solves(Body(g), k)
      BY <1>9, <3>1, <3>2
    <3> QED
      BY <2>2, <3>3
  <2> QED
    BY <2>3, <2>4
<1>11. grown = Body(grown)
  <2>1. 2 * n \in Nat
    BY <1>2
  <2>2. PICK g : Solves(g, 2 * n)
    BY <1>10, <2>1
  <2> DEFINE h == Body(g)
  <2>3. Solves(h, 2 * n + 1)
    <3> HIDE DEF Solves, Body
    <3> QED
      BY <1>9, <2>1, <2>2
  <2>4. \A a \in Areas : h[a] = Of(h, a)
    <3> HIDE DEF h
    <3> QED
      BY <1>2, <1>3, <2>3
  <2>5. h = Body(h)
    <3>1. h = [a \in Areas |-> h[a]]
      OBVIOUS
    <3> HIDE DEF h
    <3> QED
      BY <2>4, <3>1
  <2> HIDE DEF h
  <2> QED
    BY <2>5
<1>12. \A a \in Areas : grown[a] = Of(grown, a)
  <2> HIDE DEF grown
  <2>1. \A a \in Areas : Body(grown)[a] = Of(grown, a)
    BY <1>8
  <2> HIDE DEF Body
  <2> QED
    BY <1>11, <2>1
<1> HIDE DEF grown
<1> DEFINE Grew(a, r) ==
             /\ r.high \in 1..a.high /\ r.low \in a.low..n
             /\ Enough(f, r.high, r.low) \/ (r.high = 1 /\ r.low = n)
             /\ r.high # a.high \/ r.low # a.low =>
                    \/ r.high < a.high /\ ~Enough(f, r.high + 1, r.low)
                    \/ r.low > a.low /\ ~Enough(f, r.high, r.low - 1)
           Bad == {k \in Nat : \E a \in Areas : Left(a) = k /\ ~Grew(a, grown[a])}
<1>13. Bad = {}
  <2>1. SUFFICES ASSUME Bad # {} PROVE FALSE
    OBVIOUS
  <2> HIDE DEF Grew
  <2>2. PICK k \in Bad : \A m \in Bad : k <= m
    BY <2>1, LeastNumber
  <2>3. PICK a \in Areas : Left(a) = k /\ ~Grew(a, grown[a])
    BY <2>2
  <2>4. a.high \in 1..n /\ a.low \in 1..n /\ n \in Nat
    BY <1>2, <1>3 DEF D
  <2>5. ASSUME NEW b \in Areas, Left(b) = k - 1 PROVE Grew(b, grown[b])
    BY <1>3, <2>2, <2>5
  <2>6. CASE Stop(a)
    <3>1. grown[a] = a
      BY <1>5, <1>12, <2>6
    <3>2. Enough(f, a.high, a.low) \/ (a.high = 1 /\ a.low = n)
      BY <1>2, <2>6 DEF Stop
    <3>3. Grew(a, a)
      BY <2>4, <3>2 DEF Grew
    <3> QED
      BY <2>3, <3>1, <3>3
  <2>7. ASSUME ~Stop(a) PROVE ~Enough(f, a.high, a.low)
    BY <2>7 DEF Stop
  <2>8. CASE ~Stop(a) /\ Up(a)
    <3> DEFINE r == grown[Higher(a)]
    <3>1. grown[a] = r
      BY <1>6, <1>12, <2>8
    <3>2. Grew(Higher(a), r)
      BY <1>6, <2>3, <2>5, <2>8
    <3>3. /\ ~Enough(f, Higher(a).high + 1, a.low)
          /\ Higher(a).high = a.high - 1 /\ Higher(a).low = a.low
      BY <2>4, <2>7, <2>8 DEF Higher
    <3> HIDE DEF r
    <3>4. Grew(a, r)
      BY <2>4, <3>2, <3>3 DEF Grew
    <3> QED
      BY <2>3, <3>1, <3>4
  <2>9. CASE ~Stop(a) /\ ~Up(a)
    <3> DEFINE r == grown[Lower(a)]
    <3>1. grown[a] = r
      BY <1>7, <1>12, <2>9
    <3>2. Grew(Lower(a), r)
      BY <1>7, <2>3, <2>5, <2>9
    <3>3. /\ ~Enough(f, a.high, Lower(a).low - 1)
          /\ Lower(a).high = a.high /\ Lower(a).low = a.low + 1
      BY <2>4, <2>7, <2>9 DEF Lower
    <3> HIDE DEF r
    <3>4. Grew(a, r)
      BY <2>4, <3>2, <3>3 DEF Grew
    <3> QED
      BY <2>3, <3>1, <3>4
  <2> QED
    BY <2>6, <2>8, <2>9
<1>14. Grew(start, grown[start])
  <2>1. start \in Areas
    BY <1>2, <1>4
  <2> HIDE DEF Grew, start
  <2> QED
    BY <1>3, <1>13, <2>1
<1> QED
  BY <1>1, <1>14 DEF n

\* The value area of a profile with volume is tight.
LEMMA ValueAreaIsTight ==
  ASSUME NEW f, IsProfile(f), DOMAIN f # {}
  PROVE  AreaIsTight(f)
<1> DEFINE n == Cardinality(DOMAIN f)
           poc == PointOfControl(f)
           high == ValueArea(f).high
           low == ValueArea(f).low
           Volume(bins) == SumFunctionOnSet(f, {Bins(f)[i] : i \in bins})
           IsEnough(bins) == 10 * Volume(bins) >= 7 * Volume(DOMAIN Bins(f))
<1>1. /\ n \in Nat \ {0} /\ DOMAIN Bins(f) = 1..n /\ {Bins(f)[i] : i \in 1..n} = DOMAIN f
  BY BinsAre
<1>2. poc \in 1..n
  BY <1>1, PointOfControlIs
<1>3. /\ high \in 1..poc /\ low \in poc..n
      /\ Enough(f, high, low) \/ (high = 1 /\ low = n)
      /\ high # poc \/ low # poc =>
            \/ high < poc /\ ~Enough(f, high + 1, low)
            \/ low > poc /\ ~Enough(f, high, low - 1)
  BY ValueAreaIs
<1>4. Volume(DOMAIN Bins(f)) = SumFunction(f) /\ SumFunction(f) \in Nat
  <2>1. SumFunctionOnSet(f, DOMAIN f) \in Nat
    BY SumIsNat DEF IsProfile
  <2> QED
    BY <1>1, <2>1, Zenon DEF SumFunction
<1>5. \A h, l : IsEnough(h..l) <=> Enough(f, h, l)
  BY <1>4, Zenon DEF Enough, Covered
<1>6. IsEnough(1..n)
  <2>1. Volume(1..n) = Volume(DOMAIN Bins(f))
    BY <1>1
  <2> HIDE DEF Volume
  <2> QED
    BY <1>4, <2>1
<1> SUFFICES /\ poc \in high..low /\ IsEnough(high..low)
             /\ high..low # {poc} => \E edge \in {high, low} \ {poc} : ~IsEnough((high..low) \ {edge})
  BY Zenon DEF AreaIsTight
<1> HIDE DEF IsEnough, n, poc, high, low
<1>7. poc \in high..low
  BY <1>1, <1>2, <1>3
<1>8. IsEnough(high..low)
  BY <1>3, <1>5, <1>6
<1>9. ASSUME high..low # {poc}
      PROVE  \E edge \in {high, low} \ {poc} : ~IsEnough((high..low) \ {edge})
  <2>1. high # poc \/ low # poc
    BY <1>1, <1>2, <1>9
  <2>2. CASE high < poc /\ ~Enough(f, high + 1, low)
    <3>1. (high..low) \ {high} = (high + 1)..low /\ high # poc
      BY <1>1, <1>2, <1>3, <2>2
    <3> QED
      BY <1>5, <2>2, <3>1
  <2>3. CASE low > poc /\ ~Enough(f, high, low - 1)
    <3>1. (high..low) \ {low} = high..(low - 1) /\ low # poc
      BY <1>1, <1>2, <1>3, <2>3
    <3> QED
      BY <1>5, <2>3, <3>1
  <2> QED
    BY <1>3, <2>1, <2>2, <2>3
<1> QED
  BY <1>7, <1>8, <1>9

(***************************************************************************)
(* What the profile says is so in every state, however trades, bars and    *)
(* restored candles come together and whatever was cut: it has all that    *)
(* was traded, and the value area that is flagged is around the point of   *)
(* control, covers 70 % of the volume and would not without one of its     *)
(* edges.                                                                  *)
(***************************************************************************)
THEOREM ProfileIsAlwaysSound == Spec => []ProfileIsSound
<1>1. TapeInv => ProfileIsSound
  <2> SUFFICES ASSUME TapeInv PROVE ProfileIsSound
    OBVIOUS
  <2>1. profile # Empty => AreaIsTight(profile)
    BY ValueAreaIsTight DEF TapeInv, IsProfile
  <2> QED
    BY <2>1 DEF ProfileIsSound, TapeInv
<1> QED
  BY <1>1, TapeIsInvariant, PTL
=============================================================================
