-------------------------- MODULE ChartWindowProofs --------------------------
(***************************************************************************)
(* Proofs about ChartWindow, for any snapshots, bars and sizes: the view   *)
(* lies on the data and shows it, painted and scaled as it is, a snapshot  *)
(* does not move it, no snapshot is left undrawn, and the bars drawn are   *)
(* the chosen ones.                                                        *)
(***************************************************************************)
EXTENDS ChartWindow, FiniteSetTheorems, WellFoundedInduction, TLAPS

-----------------------------------------------------------------------------
(* Least and greatest times *)

\* A set of numbers has a least one.
LEMMA NatLeast ==
  ASSUME NEW T \in SUBSET Nat, T # {}
  PROVE  \E x \in T : \A y \in T : x <= y
<1> DEFINE R == {ss \in Nat \X Nat : ss[1] < ss[2]}
<1>1. IsWellFoundedOn(R, Nat)
  BY NatLessThanWellFounded, Zenon DEF OpToRel
<1>2. PICK x \in T : \A y \in T : ~ (<<y, x>> \in R)
  <2> HIDE DEF R
  <2> QED
    BY <1>1, WFMin
<1>3. \A y \in T : ~ (y < x)
  BY <1>2
<1> QED
  BY <1>3

LEMMA LeastIs ==
  ASSUME NEW T \in SUBSET Nat, T # {}
  PROVE  Least(T) \in T /\ \A y \in T : Least(T) <= y
  BY NatLeast DEF Least

\* A finite one has a greatest: the element with the fewest above it.
LEMMA GreatestIs ==
  ASSUME NEW T \in SUBSET Nat, T # {}, IsFiniteSet(T)
  PROVE  Greatest(T) \in T /\ \A y \in T : Greatest(T) >= y
<1> DEFINE Above(x) == {y \in T : y > x}
           Sizes == {Cardinality(Above(x)) : x \in T}
<1>1. \A x \in T : IsFiniteSet(Above(x)) /\ Cardinality(Above(x)) \in Nat
  BY FS_Subset, FS_CardinalityType
<1>2. Sizes \in SUBSET Nat /\ Sizes # {}
  BY <1>1
<1>3. PICK x \in T : \A y \in T : Cardinality(Above(x)) <= Cardinality(Above(y))
  <2>1. PICK n \in Sizes : \A k \in Sizes : n <= k
    BY <1>2, NatLeast
  <2> QED
    BY <2>1
<1>4. ASSUME NEW y \in T, y > x PROVE FALSE
  <2>1. Above(y) \in SUBSET Above(x) /\ Above(y) # Above(x)
    <3>1. y \in Above(x) /\ y \notin Above(y)
      BY <1>4
    <3>2. \A z \in T : z > y => z > x
      BY <1>4
    <3>3. Above(y) \in SUBSET Above(x)
      BY <3>2
    <3> QED
      BY <3>1, <3>3, Zenon
  <2>2. Cardinality(Above(y)) <= Cardinality(Above(x))
    BY <1>1, <2>1, FS_Subset
  <2>3. Cardinality(Above(x)) = Cardinality(Above(y))
    BY <1>1, <1>3, <2>2
  <2> QED
    BY <1>1, <2>1, <2>3, FS_Subset
<1>5. \A y \in T : x >= y
  BY <1>4
<1> QED
  BY <1>5 DEF Greatest

-----------------------------------------------------------------------------
(* Sizes and places of a view *)

Size(v) == v.end - v.start

\* The data of a view: some times, whatever their prices.
Series(c) ==
    /\ c = [t \in DOMAIN c |-> c[t]]
    /\ DOMAIN c \in SUBSET Nat /\ IsFiniteSet(DOMAIN c)

OnData(v, c, m) ==
    /\ Least(DOMAIN c) <= v.start
    /\ v.end <= RightEdge(c, m)

Fits(v, m) == MinRange(m) <= Size(v) /\ Size(v) <= MaxRange(m)

\* The closest view is not wider than the widest, nor than the room right of the data.
LEMMA RangesOrdered ==
  ASSUME NEW m \in Timeframes
  PROVE  /\ MinRange(m) \in Nat \ {0} /\ MaxRange(m) \in Nat \ {0}
         /\ MinRange(m) <= MaxRange(m)
         /\ m * RightOffsetBars \in Nat /\ MinRange(m) <= m * RightOffsetBars
<1>1. m \in Nat \ {0}
  BY MinutesAssumption
<1>2. \A a, b \in Nat : a <= b => m * a \in Nat /\ m * b \in Nat /\ m * a <= m * b
  BY <1>1
<1>3. \A b \in Nat : b <= m * b
  BY <1>1
<1>4. /\ m * MinBars \in Nat /\ m * MaxBars \in Nat /\ m * RightOffsetBars \in Nat
      /\ m * MinBars <= m * MaxBars /\ m * MinBars <= m * RightOffsetBars
      /\ MinMinutes <= m * RightOffsetBars
  BY <1>2, <1>3, SizesAssumption
<1> QED
  BY <1>1, <1>4, SizesAssumption DEF MinRange, MaxRange, Bigger

\* setTimeRange gives a view a size between the closest and the widest, and leaves
\* one alone that has it.
LEMMA SizedFits ==
  ASSUME NEW m \in Timeframes, NEW v \in Ranges
  PROVE  /\ Sized(v, m) \in Ranges /\ Fits(Sized(v, m), m)
         /\ Fits(v, m) => Sized(v, m) = v
<1> DEFINE lo == MinRange(m)
           hi == MaxRange(m)
<1>1. lo \in Nat \ {0} /\ hi \in Nat \ {0} /\ lo <= hi
  BY RangesOrdered
<1>2. \A size \in Nat : Centred(v, size) \in Ranges /\ Size(Centred(v, size)) = size
  BY DEF Centred, Ranges, Size
<1>3. CASE v.end <= v.start
  <2>1. Sized(v, m) = [start |-> v.start, end |-> v.start + lo]
    BY <1>1, <1>3 DEF Sized, Ranges
  <2> QED
    BY <1>1, <1>3, <2>1 DEF Ranges, Fits, Size
<1>4. CASE v.start < v.end /\ Size(v) < lo
  <2>1. Sized(v, m) = Centred(v, lo)
    BY <1>1, <1>4 DEF Sized, Ranges, Size
  <2>2. ~Fits(v, m)
    BY <1>1, <1>4 DEF Fits, Ranges, Size
  <2> QED
    BY <1>1, <1>2, <2>1, <2>2 DEF Fits
<1>5. CASE Size(v) > hi
  <2>1. Sized(v, m) = Centred(v, hi)
    BY <1>1, <1>5 DEF Sized, Ranges, Size
  <2>2. ~Fits(v, m)
    BY <1>1, <1>5 DEF Fits, Ranges, Size
  <2> QED
    BY <1>1, <1>2, <2>1, <2>2 DEF Fits
<1>6. CASE Fits(v, m)
  <2>1. Sized(v, m) = v
    BY <1>1, <1>6 DEF Sized, Ranges, Size, Fits
  <2> QED
    BY <1>6, <2>1
<1> QED
  BY <1>1, <1>3, <1>4, <1>5, <1>6 DEF Ranges, Fits, Size

LEMMA HasCandles == ASSUME NEW c, Series(c), c # NoCandles PROVE DOMAIN c # {}
<1>1. NoCandles = [t \in {} |-> c[t]]
  BY DEF NoCandles, Only
<1>2. c = [t \in DOMAIN c |-> c[t]]
  BY DEF Series
<1>3. ASSUME DOMAIN c = {} PROVE c = NoCandles
  BY <1>1, <1>2, <1>3
<1> QED
  BY <1>3

\* The data begins before it ends, by the closest view at least.
LEMMA DataIsWide ==
  ASSUME NEW m \in Timeframes, NEW c, Series(c), c # NoCandles
  PROVE  /\ Least(DOMAIN c) \in Nat /\ RightEdge(c, m) \in Nat
         /\ RightEdge(c, m) - Least(DOMAIN c) >= MinRange(m)
<1>1. DOMAIN c # {}
  BY HasCandles
<1>2. Least(DOMAIN c) \in DOMAIN c /\ Greatest(DOMAIN c) \in DOMAIN c
  BY <1>1, LeastIs, GreatestIs DEF Series
<1>3. Least(DOMAIN c) <= Greatest(DOMAIN c)
  BY <1>1, <1>2, LeastIs DEF Series
<1> QED
  BY <1>2, <1>3, RangesOrdered DEF Series, RightEdge

\* ... puts it on the data, and leaves one alone that is there.
LEMMA PlacedIsOnData ==
  ASSUME NEW m \in Timeframes, NEW c, Series(c), c # NoCandles,
         NEW v \in Ranges, Fits(v, m)
  PROVE  /\ Placed(v, c, m) \in Ranges
         /\ Fits(Placed(v, c, m), m) /\ OnData(Placed(v, c, m), c, m)
         /\ OnData(v, c, m) => Placed(v, c, m) = v
<1> DEFINE first == Least(DOMAIN c)
           edge == RightEdge(c, m)
           size == v.end - v.start
<1>1. /\ first \in Nat /\ edge \in Nat /\ edge - first >= MinRange(m)
      /\ MinRange(m) \in Nat /\ MaxRange(m) \in Nat
      /\ Bigger(edge - first, MinRange(m)) = edge - first
  BY DataIsWide, RangesOrdered DEF Bigger
<1>2. /\ v = [start |-> v.start, end |-> v.end] /\ v.start \in Int /\ v.end \in Int
      /\ MinRange(m) <= size /\ size <= MaxRange(m)
  BY DEF Ranges, Fits, Size
<1>3. CASE size >= edge - first
  <2>1. Placed(v, c, m) = [start |-> first, end |-> edge]
    BY <1>1, <1>2, <1>3 DEF Placed
  <2>2. OnData(v, c, m) => v.start = first /\ v.end = edge
    BY <1>1, <1>2, <1>3 DEF OnData
  <2>3. edge - first <= MaxRange(m)
    BY <1>1, <1>2, <1>3
  <2>4. Fits([start |-> first, end |-> edge], m) /\ OnData([start |-> first, end |-> edge], c, m)
    BY <1>1, <2>3 DEF Fits, Size, OnData
  <2>5. OnData(v, c, m) => v = [start |-> first, end |-> edge]
    BY <1>2, <2>2
  <2> QED
    BY <1>1, <2>1, <2>4, <2>5 DEF Ranges
<1>4. CASE size < edge - first /\ v.start < first
  <2>1. Placed(v, c, m) = [start |-> first, end |-> first + size]
    BY <1>1, <1>2, <1>4 DEF Placed
  <2> QED
    BY <1>1, <1>2, <1>4, <2>1 DEF Fits, Size, OnData, Ranges
<1>5. CASE size < edge - first /\ v.start >= first /\ v.end > edge
  <2>1. Placed(v, c, m) = [start |-> edge - size, end |-> edge]
    BY <1>1, <1>2, <1>5 DEF Placed, Bigger
  <2> QED
    BY <1>1, <1>2, <1>5, <2>1 DEF Fits, Size, OnData, Ranges
<1>6. CASE size < edge - first /\ v.start >= first /\ v.end <= edge
  <2>1. Placed(v, c, m) = v
    BY <1>1, <1>2, <1>6 DEF Placed
  <2> QED
    BY <1>1, <1>2, <1>6, <2>1 DEF Fits, Size, OnData, Ranges
<1> QED
  BY <1>1, <1>2, <1>3, <1>4, <1>5, <1>6

\* Both together: the view of any data, and of a view that needs no change.
LEMMA ViewFits ==
  ASSUME NEW m \in Timeframes, NEW c, Series(c), NEW v \in Ranges
  PROVE  /\ View(v, c, m) \in Ranges /\ Fits(View(v, c, m), m)
         /\ c # NoCandles => OnData(View(v, c, m), c, m)
         /\ c # NoCandles /\ Fits(v, m) /\ OnData(v, c, m) => View(v, c, m) = v
<1>1. /\ Sized(v, m) \in Ranges /\ Fits(Sized(v, m), m)
      /\ Fits(v, m) => Sized(v, m) = v
  BY SizedFits
<1>2. CASE c = NoCandles
  BY <1>1, <1>2 DEF View
<1>3. CASE c # NoCandles
  <2>1. View(v, c, m) = Placed(Sized(v, m), c, m)
    BY <1>3 DEF View
  <2> QED
    BY <1>1, <1>3, <2>1, PlacedIsOnData
<1> QED
  BY <1>2, <1>3

\* The view that follows the data.
LEMMA FollowingIsRange ==
  ASSUME NEW m \in Timeframes, NEW c, Series(c), c # NoCandles
  PROVE  /\ Following(c, m) \in Ranges
         /\ Following(c, m).start \in DOMAIN c /\ Following(c, m).end = RightEdge(c, m)
<1> DEFINE T == DOMAIN c
<1>1. T # {}
  BY HasCandles
<1>2. Greatest(T) \in T /\ \A u \in T : Greatest(T) >= u
  BY <1>1, GreatestIs DEF Series
<1>3. {u \in T : u > Greatest(T)} = {}
  BY <1>2 DEF Series
<1>4. Greatest(T) \in Newest(T, ViewBars)
  <2>1. Cardinality({u \in T : u > Greatest(T)}) = 0
    BY <1>3, FS_EmptySet
  <2> QED
    BY <1>2, <2>1, SizesAssumption DEF Newest
<1>5. Least(Newest(T, ViewBars)) \in T
  <2>1. Newest(T, ViewBars) \in SUBSET T
    BY DEF Newest
  <2> QED
    BY <1>4, <2>1, LeastIs DEF Series
<1> QED
  BY <1>5, DataIsWide DEF Series, Ranges, Following

LEMMA RenderedIsSeries == ASSUME NEW ss \in Snapshots PROVE Series(Renderable(ss.candles))
<1> DEFINE cc == ss.candles
           S == {t \in DOMAIN cc : 0 < cc[t].low /\ cc[t].low <= cc[t].high}
<1>1. IsFiniteSet(DOMAIN cc) /\ DOMAIN cc \in SUBSET Nat
  BY SnapshotsAssumption
<1>2. S \in SUBSET DOMAIN cc /\ IsFiniteSet(S)
  <2>1. S \in SUBSET DOMAIN cc
    OBVIOUS
  <2> QED
    BY <1>1, <2>1, FS_Subset
<1>3. Renderable(cc) = [t \in S |-> cc[t]]
  BY DEF Renderable, Only
<1> HIDE DEF S, cc
<1>4. Series([t \in S |-> cc[t]])
  BY <1>1, <1>2 DEF Series
<1> QED
  BY <1>3, <1>4 DEF cc

-----------------------------------------------------------------------------
(* The invariant *)

\* What is pending, rendered and chosen agree.
DataSound ==
    /\ Series(candles)
    /\ PendingIsRendered
    /\ ~foreign => pending.minutes = selected
    /\ TimeframeAgrees

\* A view the user chose has a size it may have, and one of data is where it may be.
ViewSound ==
    /\ ~followRight => Fits(visible, selected)
    /\ candles # NoCandles => Fits(visible, selected) /\ OnData(visible, candles, selected)

IInv == TypeOK /\ DataSound /\ ViewSound

LEMMA InitSound == Init => IInv
<1> SUFFICES ASSUME Init PROVE IInv
  OBVIOUS
<1>1. Series(NoCandles) /\ NoCandles = candles
  BY FS_EmptySet DEF Init, Series, NoCandles, Only
<1>2. TypeOK
  <2>1. Nowhere \in Ranges
    BY DEF Nowhere, Ranges
  <2> QED
    BY <2>1 DEF Init, TypeOK
<1>3. DataSound
  BY <1>1 DEF Init, DataSound, PendingIsRendered, TimeframeAgrees
<1>4. ViewSound
  BY DEF Init, ViewSound
<1> QED
  BY <1>2, <1>3, <1>4 DEF IInv

-----------------------------------------------------------------------------
(* The steps *)

\* The user moves the view of the candles there are.
LEMMA MovedIsSound ==
  ASSUME IInv, NEW v \in Ranges, SetTimeRange(v, candles), UNCHANGED dataVars,
         dragStart' = dragStart, drag' = drag, followRight' \in BOOLEAN, userPrice' \in BOOLEAN
  PROVE  IInv'
<1>1. /\ selected \in Timeframes /\ Series(candles)
      /\ visible' = View(v, candles, selected)
  BY DEF IInv, TypeOK, DataSound, SetTimeRange
<1>2. /\ visible' \in Ranges /\ Fits(visible', selected)
      /\ candles # NoCandles => OnData(visible', candles, selected)
  BY <1>1, ViewFits
<1>3. TypeOK'
  BY <1>2 DEF IInv, TypeOK, dataVars
<1>4. DataSound'
  BY DEF IInv, DataSound, PendingIsRendered, TimeframeAgrees, Series, dataVars
<1>5. ViewSound'
  BY <1>2 DEF ViewSound, dataVars
<1> QED
  BY <1>3, <1>4, <1>5 DEF IInv

\* A step that leaves the view and the candles alone.
LEMMA StillSound ==
  ASSUME IInv, UNCHANGED viewVars, UNCHANGED <<selected, candles>>
  PROVE  ViewSound'
  BY DEF IInv, ViewSound, viewVars

\* updateVisibleRanges, for new candles.
LEMMA UpdatedIsSound ==
  ASSUME IInv, NEW c, Series(c), c # NoCandles, NEW preserve \in BOOLEAN,
         UpdateVisibleRanges(c, preserve), selected' = selected, candles' = c
  PROVE  visible' \in Ranges /\ followRight' \in BOOLEAN /\ ViewSound'
<1> DEFINE keep == preserve /\ visible.start < visible.end
           v == IF keep THEN visible ELSE Following(c, selected)
<1>1. selected \in Timeframes /\ visible \in Ranges /\ followRight \in BOOLEAN
  BY DEF IInv, TypeOK
<1>2. v \in Ranges
  BY <1>1, FollowingIsRange
<1>3. visible' = View(v, c, selected)
  BY DEF UpdateVisibleRanges, SetTimeRange
<1> HIDE DEF v
<1>4. /\ visible' \in Ranges /\ Fits(visible', selected)
      /\ OnData(visible', c, selected)
  BY <1>1, <1>2, <1>3, ViewFits
<1> QED
  BY <1>1, <1>4 DEF ViewSound, UpdateVisibleRanges

\* Snapshots arrive, are drawn, and are of the bars the user chooses.
LEMMA SnapshotIsSound ==
  ASSUME IInv, NEW ss \in Snapshots,
         \/ Emit(ss) \/ OtherWindow(ss)
         \/ \E m \in Timeframes : HandleTimeframeChanged(m, ss)
  PROVE  IInv'
<1> USE DEF QueueSnapshot
<1>1. CASE Emit(ss) \/ OtherWindow(ss)
  <2>1. TypeOK'
    BY <1>1 DEF Emit, OtherWindow, IInv, TypeOK, viewVars, dragVars
  <2>2. DataSound'
    BY <1>1 DEF Emit, OtherWindow, IInv, DataSound, Series, PendingIsRendered, TimeframeAgrees
  <2>3. ViewSound'
    BY <1>1, StillSound DEF Emit, OtherWindow
  <2> QED
    BY <2>1, <2>2, <2>3 DEF IInv
<1>2. ASSUME NEW m \in Timeframes, HandleTimeframeChanged(m, ss) PROVE IInv'
  <2> USE <1>2 DEF HandleTimeframeChanged
  <2>1. Series(NoCandles)
    BY FS_EmptySet DEF Series, NoCandles, Only
  <2>2. TypeOK'
    BY DEF IInv, TypeOK, dragVars
  <2>3. DataSound'
    BY <2>1 DEF DataSound, Series, PendingIsRendered, TimeframeAgrees
  <2>4. ViewSound'
    BY DEF ViewSound
  <2> QED
    BY <2>2, <2>3, <2>4 DEF IInv
<1> QED
  BY <1>1, <1>2

\* Candles that are not the ones on the chart differ from its fingerprint, and the
\* others are the same candles.
LEMMA FlushIsSound == ASSUME IInv, FlushPendingSnapshot PROVE IInv'
<1> DEFINE c == Renderable(pending.candles)
<1>1. pending \in Snapshots /\ selected \in Timeframes
  BY DEF IInv, TypeOK
<1>2. Series(c) /\ c # None
  BY <1>1, RenderedIsSeries, NoneAssumption
<1>3. /\ candles' = c /\ fingerprint' = c /\ drawn' = pending /\ pending' = pending
      /\ selected' = selected /\ foreign' = foreign /\ hasPending' = FALSE /\ armed' = FALSE
      /\ overlay' = OverlayOf(pending, c) /\ drag' = drag /\ dragStart' = dragStart
      /\ userPrice' = userPrice
  BY DEF FlushPendingSnapshot, RenderSnapshot, dragVars
<1> HIDE DEF c
<1>4. visible' \in Ranges /\ followRight' \in BOOLEAN /\ ViewSound'
  <2>1. CASE c = NoCandles
    <3>1. visible' = visible /\ followRight' = followRight
      BY <2>1 DEF FlushPendingSnapshot, RenderSnapshot, c
    <3> QED
      BY <1>3, <2>1, <3>1 DEF IInv, TypeOK, ViewSound
  <2>2. CASE c # NoCandles /\ c # fingerprint
    <3>1. UpdateVisibleRanges(c, ~followRight)
      BY <2>2 DEF FlushPendingSnapshot, RenderSnapshot, c
    <3> QED
      BY <1>2, <1>3, <2>2, <3>1, UpdatedIsSound
  <2>3. CASE c # NoCandles /\ c = fingerprint
    <3>1. visible' = visible /\ followRight' = followRight
      BY <2>3 DEF FlushPendingSnapshot, RenderSnapshot, c
    <3>2. c = candles
      BY <1>2, <2>3 DEF IInv, TypeOK
    <3> QED
      BY <1>3, <3>1, <3>2 DEF IInv, TypeOK, ViewSound
  <2> QED
    BY <2>1, <2>2, <2>3
<1>5. TypeOK'
  <2>1. OverlayOf(pending, c) \in {"hidden", "progress", "message"}
    BY <1>1, SnapshotsAssumption DEF OverlayOf
  <2>2. pending.minutes \in Timeframes
    BY <1>1, SnapshotsAssumption
  <2> QED
    BY <1>3, <1>4, <2>1, <2>2 DEF IInv, TypeOK
<1>6. DataSound'
  <2>1. Series(candles)'
    BY <1>2, <1>3 DEF Series
  <2>2. ~foreign => pending.minutes = selected
    BY DEF IInv, DataSound
  <2> QED
    BY <1>3, <2>1, <2>2 DEF DataSound, PendingIsRendered, TimeframeAgrees
<1> QED
  BY <1>4, <1>5, <1>6 DEF IInv

\* The wheel and the mouse.
LEMMA MoveIsSound ==
  ASSUME IInv, NEW v \in Ranges, MoveView(v)
  PROVE  IInv'
  BY MovedIsSound DEF IInv, TypeOK, MoveView, dragVars

LEMMA PanIsSound ==
  ASSUME IInv, NEW shift \in Shifts,
         WheelPan(shift) \/ \E chosen \in Scales : MoveChart(shift, chosen)
  PROVE  IInv'
<1>1. shift \in Int /\ visible \in Ranges /\ dragStart \in Ranges
  BY SizesAssumption DEF IInv, TypeOK
<1>2. CASE WheelPan(shift)
  <2>1. [start |-> visible.start + shift, end |-> visible.end + shift] \in Ranges
    BY <1>1 DEF Ranges
  <2> QED
    BY <1>2, <2>1, MoveIsSound DEF WheelPan
<1>3. ASSUME NEW chosen \in Scales, MoveChart(shift, chosen) PROVE IInv'
  <2>1. [start |-> dragStart.start + shift, end |-> dragStart.end + shift] \in Ranges
    BY <1>1 DEF Ranges
  <2> QED
    BY <1>3, <2>1, MovedIsSound DEF MoveChart, dragVars
<1> QED
  BY <1>2, <1>3

LEMMA ZoomIsSound ==
  ASSUME IInv, NEW percent \in {78, 128}, NEW half \in {0, 2}, WheelZoomTime(percent, half)
  PROVE  IInv'
<1> DEFINE range == Bigger(visible.end - visible.start, MinRange(selected))
           asked == (range * percent) \div 100
           next == IF asked > MaxRange(selected) THEN MaxRange(selected)
                   ELSE Bigger(asked, MinRange(selected))
           start == visible.start + (range * half) \div 2 - (next * half) \div 2
<1>1. /\ visible.start \in Int /\ visible.end \in Int
      /\ MinRange(selected) \in Int /\ MaxRange(selected) \in Int
  BY RangesOrdered DEF IInv, TypeOK, Ranges
<1>2. range \in Int
  BY <1>1 DEF Bigger
<1>3. asked \in Int
  <2> HIDE DEF range
  <2>1. range * percent \in Int
    BY <1>2
  <2> QED
    BY <2>1
<1>4. next \in Int
  <2> HIDE DEF asked
  <2> QED
    BY <1>1, <1>3 DEF Bigger
<1>5. start \in Int
  <2> HIDE DEF range, next
  <2>1. range * half \in Int /\ next * half \in Int
    BY <1>2, <1>4
  <2> QED
    BY <1>1, <2>1
<1>6. MoveView([start |-> start, end |-> start + next])
  BY DEF WheelZoomTime
<1>7. [start |-> start, end |-> start + next] \in Ranges
  <2> HIDE DEF start, next
  <2> QED
    BY <1>4, <1>5 DEF Ranges
<1> HIDE DEF start, next
<1> QED
  BY <1>6, <1>7, MoveIsSound

LEMMA DoubleClickIsSound ==
  ASSUME IInv, NEW now \in Nows, DoubleClick(now)
  PROVE  IInv'
<1>1. /\ UNCHANGED dataVars /\ drag' = drag /\ dragStart' = dragStart /\ userPrice' = FALSE
      /\ Series(candles) /\ dragStart \in Ranges
  BY DEF DoubleClick, dragVars, IInv, TypeOK, DataSound
<1>2. CASE candles = NoCandles
  <2>1. [start |-> now - Hour, end |-> now] \in Ranges
    BY SizesAssumption DEF Ranges
  <2>2. SetTimeRange([start |-> now - Hour, end |-> now], candles) /\ followRight' = TRUE
    BY <1>2 DEF DoubleClick
  <2> QED
    BY <1>1, <2>1, <2>2, MovedIsSound
<1>3. CASE candles # NoCandles
  <2>1. UpdateVisibleRanges(candles, FALSE)
    BY <1>3 DEF DoubleClick
  <2>2. visible' \in Ranges /\ followRight' \in BOOLEAN /\ ViewSound'
    BY <1>1, <1>3, <2>1, UpdatedIsSound DEF dataVars
  <2>3. TypeOK'
    BY <1>1, <2>2 DEF IInv, TypeOK, dataVars
  <2>4. DataSound'
    BY <1>1 DEF IInv, DataSound, PendingIsRendered, TimeframeAgrees, Series, dataVars
  <2> QED
    BY <2>2, <2>3, <2>4 DEF IInv
<1> QED
  BY <1>2, <1>3

\* Prices scaled, buttons pressed and released.
LEMMA OthersAreSound ==
  ASSUME IInv,
         \/ \E chosen \in Scales : WheelZoomPrice(chosen) \/ MovePriceScale(chosen)
         \/ \E on \in {"chart", "scale"} : Press(on)
         \/ Release
         \/ UNCHANGED vars
  PROVE  IInv'
<1>1. UNCHANGED dataVars /\ visible' = visible /\ followRight' = followRight
  BY DEF WheelZoomPrice, MovePriceScale, Press, Release, vars, viewVars
<1>2. TypeOK'
  <2>1. /\ drag' \in {"none", "chart", "scale"} /\ dragStart' \in Ranges
        /\ userPrice' \in BOOLEAN
    <3>1. /\ drag \in {"none", "chart", "scale"} /\ userPrice \in BOOLEAN
          /\ visible \in Ranges /\ dragStart \in Ranges /\ Nowhere \in Ranges
      BY DEF IInv, TypeOK, Nowhere, Ranges
    <3>2. ASSUME NEW chosen \in Scales, WheelZoomPrice(chosen) \/ MovePriceScale(chosen)
          PROVE  drag' = drag /\ dragStart' = dragStart /\ userPrice' = TRUE
      BY <3>2 DEF WheelZoomPrice, MovePriceScale, dragVars
    <3>3. ASSUME NEW on \in {"chart", "scale"}, Press(on)
          PROVE  drag' = on /\ dragStart' \in {visible, Nowhere} /\ userPrice' = userPrice
      BY <3>3 DEF Press, viewVars
    <3>4. CASE Release
      BY <3>1, <3>4 DEF Release, viewVars
    <3>5. CASE UNCHANGED vars
      BY <3>1, <3>5 DEF vars, viewVars, dragVars
    <3> QED
      BY <3>1, <3>2, <3>3, <3>4, <3>5
  <2> QED
    BY <1>1, <2>1 DEF IInv, TypeOK, dataVars
<1>3. DataSound'
  BY <1>1 DEF IInv, DataSound, PendingIsRendered, TimeframeAgrees, Series, dataVars
<1>4. ViewSound'
  BY <1>1 DEF IInv, ViewSound, dataVars
<1> QED
  BY <1>2, <1>3, <1>4 DEF IInv

LEMMA StepSound == IInv /\ [Next]_vars => IInv'
  BY SnapshotIsSound, FlushIsSound, PanIsSound, ZoomIsSound, DoubleClickIsSound,
     OthersAreSound DEF Next

-----------------------------------------------------------------------------
(* What is seen *)

\* The newest n of more times are n, and all later than one that is not among them.
LEMMA NewestAre ==
  ASSUME NEW T \in SUBSET Nat, IsFiniteSet(T), NEW n \in Nat \ {0},
         NEW t \in T, t \notin Newest(T, n)
  PROVE  Cardinality({u \in Newest(T, n) : u > t}) = n
<1> DEFINE Above(x) == {y \in T : y > x}
           K == Newest(T, n)
           B == T \ K
<1>1. \A x, y \in T : y \in Above(x) <=> y > x
  OBVIOUS
<1>2. \A x \in T : Above(x) \subseteq T /\ IsFiniteSet(Above(x)) /\ Cardinality(Above(x)) \in Nat
  BY FS_Subset, FS_CardinalityType
<1>3. K \subseteq T /\ \A x \in T : x \in K <=> Cardinality(Above(x)) < n
  BY DEF Newest
<1> HIDE DEF Above, K
<1>4. \A x, y \in T : x <= y => Cardinality(Above(y)) <= Cardinality(Above(x))
  <2> SUFFICES ASSUME NEW x \in T, NEW y \in T, x <= y
               PROVE  Cardinality(Above(y)) <= Cardinality(Above(x))
    OBVIOUS
  <2>1. Above(y) \subseteq Above(x)
    <3> SUFFICES ASSUME NEW z \in Above(y) PROVE z \in Above(x)
      OBVIOUS
    <3>1. z \in T
      BY <1>2
    <3>2. z > y
      BY <1>1, <3>1
    <3>3. z > x
      BY <3>1, <3>2
    <3> QED
      BY <1>1, <3>1, <3>3
  <2> QED
    BY <1>2, <2>1, FS_Subset
<1>5. PICK m \in B : \A y \in B : m >= y
  <2>1. B \in SUBSET T /\ B # {} /\ B \in SUBSET Nat
    BY DEF K
  <2>2. IsFiniteSet(B)
    BY <2>1, FS_Subset
  <2> HIDE DEF B
  <2> QED
    BY <2>1, <2>2, GreatestIs
<1>6. m \in T /\ m \notin K /\ t <= m
  <2>1. t \in B
    BY DEF K
  <2> QED
    BY <1>5, <2>1
<1>7. \A u \in T : u \in K <=> u > m
  <2>1. ASSUME NEW u \in T, u \in K PROVE u > m
    <3>1. ~(u <= m)
      BY <1>2, <1>3, <1>4, <1>6, <2>1
    <3> QED
      BY <1>6, <3>1
  <2>2. ASSUME NEW u \in T, u > m PROVE u \in K
    BY <1>5, <1>6, <2>2
  <2> QED
    BY <2>1, <2>2
<1>8. K = Above(m)
  BY <1>1, <1>2, <1>3, <1>6, <1>7
<1>9. Cardinality(K) \in Nat /\ Cardinality(K) >= n
  BY <1>2, <1>3, <1>6, <1>8
<1>10. K # {}
  BY <1>9, FS_EmptySet
<1>11. PICK k \in K : \A u \in K : k <= u
  BY <1>3, <1>10, NatLeast
<1>12. K = Above(k) \cup {k} /\ k \notin Above(k)
  <2>1. \A u \in T : u \in K <=> u = k \/ u > k
    BY <1>3, <1>6, <1>7, <1>11
  <2>2. k \in T
    BY <1>3, <1>11
  <2>3. \A u \in T : u \in Above(k) <=> u > k
    BY <1>1, <2>2
  <2>4. Above(k) \subseteq T /\ K \subseteq T
    BY <1>2, <1>3, <2>2
  <2>5. k \notin Above(k)
    BY <2>2, <2>3
  <2>6. \A u : u \in K <=> u \in Above(k) \/ u = k
    BY <2>1, <2>2, <2>3, <2>4
  <2> QED
    BY <2>5, <2>6
<1>13. Cardinality(K) = Cardinality(Above(k)) + 1
  BY <1>2, <1>3, <1>11, <1>12, FS_AddElement
<1>14. Cardinality(K) = n
  BY <1>2, <1>3, <1>9, <1>11, <1>13
<1>15. {u \in K : u > t} = K
  <2>1. \A u \in K : u > t
    BY <1>3, <1>6, <1>7
  <2> QED
    BY <2>1
<1> QED
  BY <1>14, <1>15 DEF K

\* renderCandles paints the candles of the view as they are, all or the newest that
\* can be rendered.
LEMMA PaintedIs ==
  ASSUME NEW c, Series(c), NEW v \in Ranges
  PROVE  /\ \A t \in DOMAIN Painted(c, v) : t \in DOMAIN c /\ Painted(c, v)[t] = c[t]
         /\ \A t \in Within(c, v) :
              \/ t \in DOMAIN Painted(c, v)
              \/ Cardinality({u \in DOMAIN Painted(c, v) : u > t}) = MaxRendered
<1> DEFINE before == {t \in DOMAIN c : t < v.start}
           after == {t \in DOMAIN c : t > v.end}
           near == Newest(before, Margin) \cup (DOMAIN c \ (before \cup after)) \cup Oldest(after, Margin)
<1>1. near \subseteq DOMAIN c
  BY DEF Newest, Oldest
<1>2. Within(c, v) \subseteq near
  BY DEF Within, Series, Ranges
<1>3. Painted(c, v) = Only(c, Newest(near, MaxRendered))
  BY DEF Painted
<1> HIDE DEF near
<1>4. near \in SUBSET Nat /\ IsFiniteSet(near) /\ MaxRendered \in Nat \ {0}
  BY <1>1, FS_Subset, SizesAssumption DEF Series
<1>5. Newest(near, MaxRendered) \subseteq near
  BY DEF Newest
<1>6. /\ DOMAIN Painted(c, v) = Newest(near, MaxRendered)
      /\ \A t \in Newest(near, MaxRendered) : Painted(c, v)[t] = c[t]
  BY <1>3 DEF Only
<1>7. \A t \in DOMAIN Painted(c, v) : t \in DOMAIN c /\ Painted(c, v)[t] = c[t]
  BY <1>1, <1>5, <1>6
<1>8. ASSUME NEW t \in Within(c, v), t \notin DOMAIN Painted(c, v)
      PROVE  Cardinality({u \in DOMAIN Painted(c, v) : u > t}) = MaxRendered
  <2>1. t \in near /\ t \notin Newest(near, MaxRendered)
    BY <1>2, <1>6, <1>8
  <2>2. Cardinality({u \in Newest(near, MaxRendered) : u > t}) = MaxRendered
    BY <1>4, <2>1, NewestAre
  <2> QED
    BY <1>6, <2>2
<1> QED
  BY <1>7, <1>8

\* The prices of a series are numbers.
Priced(c) == \A t \in DOMAIN c : c[t].low \in Nat /\ c[t].high \in Nat

LEMMA HullFits ==
  ASSUME NEW c, Series(c), Priced(c), NEW v, NEW t \in Within(c, v)
  PROVE  Hull(c, v).low <= c[t].low /\ c[t].high <= Hull(c, v).high
<1> DEFINE W == Within(c, v)
           L == {c[u].low : u \in W}
           H == {c[u].high : u \in W}
<1>1. W \subseteq DOMAIN c /\ IsFiniteSet(W) /\ t \in W
  BY FS_Subset DEF Within, Series
<1>2. Hull(c, v) = [low |-> Least(L), high |-> Greatest(H)]
  BY <1>1 DEF Hull
<1> HIDE DEF W
<1>3. L \in SUBSET Nat /\ H \in SUBSET Nat /\ c[t].low \in L /\ c[t].high \in H
  BY <1>1 DEF Priced
<1>4. IsFiniteSet(H)
  <2> DEFINE f == [u \in W |-> c[u].high]
  <2>1. f \in [W -> H] /\ \A h \in H : \E u \in W : f[u] = h
    OBVIOUS
  <2> HIDE DEF f, H
  <2>2. f \in Surjection(W, H)
    BY <2>1 DEF Surjection
  <2> QED
    BY <1>1, <2>2, FS_Surjection
<1> HIDE DEF L, H
<1>5. Least(L) <= c[t].low
  BY <1>3, LeastIs
<1>6. Greatest(H) >= c[t].high /\ Greatest(H) \in Nat
  BY <1>3, <1>4, GreatestIs
<1> QED
  BY <1>2, <1>3, <1>5, <1>6

\* A view that follows the data shows the last candle, where the room right of it is
\* not wider than the widest view.
LEMMA FollowingShows ==
  ASSUME NEW m \in Timeframes, NEW c, Series(c), c # NoCandles, RoomFits(m),
         \A t, u \in DOMAIN c : t - u <= Lookback + m
  PROVE  Greatest(DOMAIN c) \in Within(c, View(Following(c, m), c, m))
<1> DEFINE v == Following(c, m)
           last == Greatest(DOMAIN c)
           room == m * RightOffsetBars
           lo == MinRange(m)
           hi == MaxRange(m)
           size == v.end - v.start
<1>1. /\ last \in DOMAIN c /\ last \in Nat /\ \A u \in DOMAIN c : last >= u
      /\ DOMAIN c # {} /\ DOMAIN c \in SUBSET Nat
  BY HasCandles, GreatestIs DEF Series
<1>2. /\ v \in Ranges /\ v.start \in DOMAIN c /\ v.start \in Nat
      /\ v.end = last + room /\ v.start <= last
  BY <1>1, FollowingIsRange DEF RightEdge
<1>3. /\ room \in Nat /\ lo \in Nat \ {0} /\ hi \in Nat \ {0}
      /\ lo <= hi /\ lo <= room /\ room <= hi
  BY RangesOrdered DEF RoomFits
<1>4. last - v.start <= hi
  <2>1. last - v.start <= Lookback + m
    BY <1>1, <1>2
  <2>2. Lookback + m <= hi
    BY SizesAssumption, MinutesAssumption DEF MaxRange, Bigger
  <2> HIDE DEF v, last, hi
  <2> QED
    BY <1>1, <1>2, <1>3, <2>1, <2>2, SizesAssumption, MinutesAssumption
<1>5. Least(DOMAIN c) <= v.start /\ RightEdge(c, m) = v.end
  <2>1. Least(DOMAIN c) <= v.start
    BY <1>1, <1>2, LeastIs
  <2> QED
    BY <1>2, <2>1 DEF RightEdge
<1>6. CASE size <= hi
  <2>1. Fits(v, m) /\ OnData(v, c, m)
    <3>1. lo <= size
      <4> HIDE DEF v, last, lo, room
      <4> QED
        BY <1>1, <1>2, <1>3
    <3>2. v.end \in Int
      BY <1>2 DEF Ranges
    <3> HIDE DEF v
    <3> QED
      BY <1>5, <1>6, <3>1, <3>2 DEF Fits, Size, OnData
  <2>2. View(v, c, m) = v
    BY <1>2, <2>1, ViewFits
  <2>3. v.start <= last /\ last <= v.end
    BY <1>1, <1>2, <1>3
  <2> HIDE DEF v
  <2> QED
    BY <1>1, <2>2, <2>3 DEF Within, v
<1>7. CASE size > hi
  <2> DEFINE a == size \div 2
             b == hi \div 2
             w == Centred(v, hi)
  <2>1. /\ size \in Nat /\ a \in Int /\ 2 * a <= size /\ size <= 2 * a + 1
        /\ b \in Int /\ 2 * b <= hi /\ hi <= 2 * b + 1
    BY <1>1, <1>2, <1>3
  <2>2. /\ w \in Ranges /\ w.start = v.start + a - b /\ w.end = w.start + hi
    BY <1>2, <1>3, <2>1 DEF Centred, Ranges
  <2> HIDE DEF a, b, w
  <2>3. v.start <= w.start /\ w.start <= last /\ last <= w.end /\ w.end <= v.end
    <3> DEFINE x == v.start
               y == v.end
    <3>1. /\ x \in Int /\ y \in Int /\ last \in Int /\ hi \in Int /\ room \in Int
          /\ y = last + room /\ x <= last /\ room <= hi /\ last - x <= hi
          /\ y - x > hi /\ 2 * a <= y - x /\ y - x <= 2 * a + 1
          /\ w.start = x + a - b /\ w.end = x + a - b + hi
      BY <1>1, <1>2, <1>3, <1>4, <1>7, <2>1, <2>2
    <3> HIDE DEF x, y, last, hi, room
    <3>2. x <= x + a - b
      BY <2>1, <3>1
    <3>3. x + a - b <= last
      BY <2>1, <3>1
    <3>4. last <= x + a - b + hi
      BY <2>1, <3>1, <3>2
    <3>5. x + a - b + hi <= y
      BY <2>1, <3>1
    <3>6. x <= w.start /\ w.start <= last /\ last <= w.end /\ w.end <= y
      BY <3>1, <3>2, <3>3, <3>4, <3>5
    <3> QED
      BY <3>6 DEF x, y
  <2>4. Sized(v, m) = w
    <3>1. ~(v.end <= v.start) /\ ~(v.end - v.start < MinRange(m)) /\ v.end - v.start > MaxRange(m)
      BY <1>1, <1>2, <1>3, <1>7
    <3> QED
      BY <3>1 DEF Sized, w
  <2>5. Fits(w, m) /\ OnData(w, c, m)
    <3>1. Fits(w, m)
      BY <1>3, <2>2 DEF Fits, Size, Ranges
    <3>2. Least(DOMAIN c) <= w.start
      BY <1>1, <1>2, <1>5, <2>2, <2>3, LeastIs DEF Ranges
    <3> QED
      BY <1>5, <2>3, <3>1, <3>2 DEF OnData
  <2>6. View(v, c, m) = w
    BY <2>2, <2>4, <2>5, PlacedIsOnData DEF View
  <2> HIDE DEF v, last
  <2> QED
    BY <1>1, <2>3, <2>6 DEF Within, v, last
<1> QED
  BY <1>2, <1>3, <1>6, <1>7 DEF Ranges

\* What is seen is made of the candles, the view and the choices there are.
Seen ==
    /\ candles # NoCandles => drawn \in Snapshots /\ candles = Renderable(drawn.candles)
    /\ painted = Painted(candles, visible)
    /\ candles # NoCandles /\ ~userPrice => scale = Hull(candles, visible)
    /\ candles # NoCandles /\ followRight =>
         visible = View(Following(candles, selected), candles, selected)

LEMMA NothingPainted == ASSUME NEW v PROVE Painted(NoCandles, v) = NoCandles
<1>1. DOMAIN NoCandles = {}
  BY DEF NoCandles, Only
<1>2. \A S, n : Newest({}, n) = {} /\ Oldest({}, n) = {}
  BY DEF Newest, Oldest
<1>3. Painted(NoCandles, v) = Only(NoCandles, {})
  BY <1>1, <1>2 DEF Painted
<1>4. Only(NoCandles, {}) = NoCandles
  BY DEF NoCandles, Only
<1> QED
  BY <1>3, <1>4

LEMMA InitSeen == Init => Seen
  BY NothingPainted DEF Init, Seen

\* The user moves the view.
LEMMA MovedIsSeen ==
  ASSUME Seen, NEW v, SetTimeRange(v, candles), UNCHANGED dataVars, followRight' = FALSE,
         \/ userPrice' = TRUE
         \/ scale' = Hull(candles, visible')
  PROVE  Seen'
  BY DEF Seen, SetTimeRange, dataVars

\* updateVisibleRanges
LEMMA UpdatedIsSeen ==
  ASSUME NEW c, NEW preserve \in BOOLEAN, preserve => ~followRight,
         UpdateVisibleRanges(c, preserve), selected' = selected, candles' = c,
         drawn' \in Snapshots, c = Renderable(drawn'.candles)
  PROVE  Seen'
<1>1. painted' = Painted(c, visible') /\ (~userPrice' => scale' = Hull(c, visible'))
  BY DEF UpdateVisibleRanges, SetTimeRange
<1>2. ASSUME followRight' PROVE visible' = View(Following(c, selected), c, selected)
  BY <1>2 DEF UpdateVisibleRanges, SetTimeRange
<1> QED
  BY <1>1, <1>2 DEF Seen

\* A snapshot is drawn.
LEMMA FlushIsSeen == ASSUME IInv, Seen, FlushPendingSnapshot PROVE Seen'
<1> DEFINE c == Renderable(pending.candles)
<1>1. /\ pending \in Snapshots /\ c # None /\ fingerprint \in {None, candles}
      /\ followRight \in BOOLEAN
  BY NoneAssumption DEF IInv, TypeOK
<1>2. /\ candles' = c /\ drawn' = pending /\ selected' = selected /\ userPrice' = userPrice
      /\ drawn' \in Snapshots /\ c = Renderable(drawn'.candles)
  BY <1>1 DEF FlushPendingSnapshot, RenderSnapshot
<1>3. CASE c = NoCandles
  <2>1. /\ painted' = IF c # fingerprint THEN NoCandles ELSE painted
        /\ visible' = visible
    BY <1>3 DEF FlushPendingSnapshot, RenderSnapshot
  <2> HIDE DEF c
  <2>2. CASE c # fingerprint
    BY <1>2, <1>3, <2>1, <2>2, NothingPainted DEF Seen
  <2>3. CASE c = fingerprint
    <3>1. c = candles
      BY <1>1, <2>3
    <3> QED
      BY <1>2, <1>3, <2>1, <2>3, <3>1 DEF Seen
  <2> QED
    BY <2>2, <2>3
<1>4. CASE c # NoCandles /\ c # fingerprint
  <2>1. UpdateVisibleRanges(c, ~followRight)
    BY <1>4 DEF FlushPendingSnapshot, RenderSnapshot
  <2> HIDE DEF c
  <2>2. (~followRight) \in BOOLEAN
    OBVIOUS
  <2>3. ~followRight => ~followRight
    OBVIOUS
  <2> QED
    BY <1>2, <2>1, <2>2, <2>3, UpdatedIsSeen
<1>5. CASE c # NoCandles /\ c = fingerprint
  <2>1. /\ painted' = painted /\ visible' = visible /\ scale' = scale
        /\ followRight' = followRight
    BY <1>5 DEF FlushPendingSnapshot, RenderSnapshot
  <2> HIDE DEF c
  <2>2. c = candles
    BY <1>1, <1>5
  <2> QED
    BY <1>2, <2>1, <2>2 DEF Seen
<1> QED
  BY <1>3, <1>4, <1>5

LEMMA SeenStep == IInv /\ Seen /\ [Next]_vars => Seen'
<1> SUFFICES ASSUME IInv, Seen, [Next]_vars PROVE Seen'
  OBVIOUS
<1>1. ASSUME NEW ss \in Snapshots, Emit(ss) \/ OtherWindow(ss) PROVE Seen'
  BY <1>1 DEF Emit, OtherWindow, viewVars, Seen
<1>2. ASSUME NEW ss \in Snapshots, NEW m \in Timeframes, HandleTimeframeChanged(m, ss) PROVE Seen'
  BY <1>2, NothingPainted DEF HandleTimeframeChanged, Seen
<1>3. CASE FlushPendingSnapshot
  BY <1>3, FlushIsSeen
<1>4. ASSUME NEW v, MoveView(v) PROVE Seen'
  <2>1. /\ SetTimeRange(v, candles) /\ UNCHANGED dataVars /\ followRight' = FALSE
        /\ userPrice' = userPrice /\ userPrice \in BOOLEAN
        /\ scale' = IF userPrice THEN scale ELSE Hull(candles, visible')
    BY <1>4 DEF MoveView, IInv, TypeOK
  <2> QED
    BY <2>1, MovedIsSeen
<1>5. ASSUME NEW shift \in Shifts, NEW chosen \in Scales, MoveChart(shift, chosen) PROVE Seen'
  BY <1>5, MovedIsSeen DEF MoveChart
<1>6. ASSUME NEW chosen \in Scales, WheelZoomPrice(chosen) \/ MovePriceScale(chosen) PROVE Seen'
  BY <1>6 DEF WheelZoomPrice, MovePriceScale, dataVars, Seen
<1>7. ASSUME NEW on \in {"chart", "scale"}, Press(on) PROVE Seen'
  BY <1>7 DEF Press, dataVars, viewVars, Seen
<1>8. CASE Release
  BY <1>8 DEF Release, dataVars, viewVars, Seen
<1>9. ASSUME NEW now \in Nows, DoubleClick(now) PROVE Seen'
  <2>1. UNCHANGED dataVars
    BY <1>9 DEF DoubleClick
  <2>2. CASE candles # NoCandles
    <3>1. /\ UpdateVisibleRanges(candles, FALSE) /\ candles' = candles /\ selected' = selected
          /\ drawn' \in Snapshots /\ candles = Renderable(drawn'.candles)
      BY <1>9, <2>1, <2>2 DEF DoubleClick, dataVars, Seen
    <3> QED
      BY <3>1, UpdatedIsSeen
  <2>3. CASE candles = NoCandles
    <3>1. painted' = Painted(candles, visible') /\ candles' = candles
      BY <1>9, <2>1, <2>3 DEF DoubleClick, SetTimeRange, dataVars
    <3> QED
      BY <2>3, <3>1 DEF Seen
  <2> QED
    BY <2>2, <2>3
<1>10. CASE UNCHANGED vars
  BY <1>10 DEF vars, dataVars, viewVars, Seen
<1> QED
  BY <1>1, <1>2, <1>3, <1>4, <1>5, <1>6, <1>7, <1>8, <1>9, <1>10
     DEF Next, WheelPan, WheelZoomTime

LEMMA SeenIsSound == IInv /\ Seen => ViewIsSound
<1> SUFFICES ASSUME IInv, Seen PROVE ViewIsSound
  OBVIOUS
<1>1. /\ TypeOK /\ Series(candles) /\ selected \in Timeframes /\ visible \in Ranges
      /\ TimeframeAgrees
  BY DEF IInv, TypeOK, DataSound
<1>2. ViewIsOnData
  BY DEF IInv, ViewSound, ViewIsOnData, OnData, Fits, Size
<1>3. PaintedAgrees
  BY <1>1, PaintedIs DEF Seen, PaintedAgrees
<1>4. ASSUME candles # NoCandles
      PROVE  /\ Priced(candles)
             /\ \A t, u \in DOMAIN candles : t - u <= Lookback + drawn.minutes
  <2>1. /\ drawn \in Snapshots /\ DOMAIN candles \subseteq DOMAIN drawn.candles
        /\ \A t \in DOMAIN candles : candles[t] = drawn.candles[t]
    BY <1>4 DEF Seen, Renderable, Only
  <2>2. Priced(candles)
    BY <2>1, SnapshotsAssumption DEF Priced
  <2> QED
    BY <2>1, <2>2, SpansAssumption
<1>5. ScaleFits
  <2> SUFFICES ASSUME candles # NoCandles, ~userPrice, NEW t \in Within(candles, visible)
               PROVE  scale.low <= candles[t].low /\ candles[t].high <= scale.high
    BY DEF ScaleFits
  <2>1. scale = Hull(candles, visible)
    BY DEF Seen
  <2> QED
    BY <1>1, <1>4, <2>1, HullFits
<1>6. LastIsShown
  <2> SUFFICES ASSUME candles # NoCandles, followRight, RoomFits(selected), ~foreign
               PROVE  Greatest(DOMAIN candles) \in Within(candles, visible)
    BY DEF LastIsShown
  <2>1. /\ visible = View(Following(candles, selected), candles, selected)
        /\ drawn.minutes = selected
    BY <1>1 DEF Seen, TimeframeAgrees
  <2>2. \A t, u \in DOMAIN candles : t - u <= Lookback + selected
    BY <1>4, <2>1
  <2> QED
    BY <1>1, <2>1, <2>2, FollowingShows
<1> QED
  BY <1>1, <1>2, <1>3, <1>5, <1>6 DEF ViewIsSound

-----------------------------------------------------------------------------
\* The invariant the theorems rest on.
THEOREM Invariance == Spec => []IInv
  BY InitSound, StepSound, PTL DEF Spec

\* A snapshot that is pending will be rendered by the timer, and with none pending
\* the chart shows the last.
THEOREM PendingsAreRendered == Spec => []PendingIsRendered
<1>1. IInv => PendingIsRendered
  BY DEF IInv, DataSound
<1> QED
  BY Invariance, <1>1, PTL

\* The bars of the chart are those of its label until another window chooses others.
THEOREM TimeframesAgree == Spec => []TimeframeAgrees
<1>1. IInv => TimeframeAgrees
  BY DEF IInv, DataSound
<1> QED
  BY Invariance, <1>1, PTL

\* A snapshot moves neither a view the user chose, where the data reaches around it,
\* nor prices the user scaled.
THEOREM SnapshotsKeepViews == Spec => SnapshotKeepsView
<1> DEFINE Kept == /\ drawn' # drawn /\ ~followRight /\ Covers(candles', visible) => visible' = visible
                   /\ drawn' # drawn /\ userPrice => scale' = scale
<1>1. IInv /\ [Next]_vars => [Kept]_vars
  <2> SUFFICES ASSUME IInv, [Next]_vars, drawn' # drawn PROVE Kept
    BY DEF vars, dataVars
  <2>1. FlushPendingSnapshot
    BY DEF Next, vars, dataVars, viewVars, dragVars, Emit, OtherWindow, HandleTimeframeChanged,
           WheelPan, WheelZoomTime, WheelZoomPrice, MovePriceScale, MoveChart, MoveView,
           Press, Release, DoubleClick
  <2> DEFINE c == Renderable(pending.candles)
  <2>2. /\ candles' = c /\ Series(c) /\ selected' = selected /\ selected \in Timeframes
        /\ visible \in Ranges /\ userPrice' = userPrice
    BY <2>1, RenderedIsSeries DEF FlushPendingSnapshot, RenderSnapshot, IInv, TypeOK
  <2>3. \/ visible' = visible /\ scale' = scale
        \/ c # NoCandles /\ UpdateVisibleRanges(c, ~followRight)
    BY <2>1 DEF FlushPendingSnapshot, RenderSnapshot
  <2> HIDE DEF c
  <2>4. CASE c # NoCandles /\ UpdateVisibleRanges(c, ~followRight)
    <3>1. userPrice => scale' = scale
      BY <2>2, <2>4 DEF UpdateVisibleRanges
    <3>2. ASSUME ~followRight, Covers(c, visible) PROVE visible' = visible
      <4>1. Fits(visible, selected) /\ OnData(visible, c, selected)
        BY <3>2 DEF IInv, ViewSound, Covers, OnData
      <4>2. visible.start < visible.end
        BY <2>2, <4>1, RangesOrdered DEF Fits, Size, Ranges
      <4>3. visible' = View(visible, c, selected)
        BY <2>4, <3>2, <4>2 DEF UpdateVisibleRanges, SetTimeRange
      <4> QED
        BY <2>2, <2>4, <4>1, <4>3, ViewFits
    <3>3. Covers(candles', visible) => Covers(c, visible)
      BY <2>2
    <3> QED
      BY <3>1, <3>2, <3>3
  <2> QED
    BY <2>3, <2>4
<1> QED
  BY Invariance, <1>1, PTL DEF Spec, SnapshotKeepsView

\* What is seen is the data: the view lies on it and shows its last candle while it
\* follows, the candles are painted as they are, and the prices scaled to them.
THEOREM ViewsAreSound == Spec => []ViewIsSound
<1>1. Spec => []Seen
  BY Invariance, InitSeen, SeenStep, PTL DEF Spec
<1> QED
  BY Invariance, <1>1, SeenIsSound, PTL
=============================================================================
