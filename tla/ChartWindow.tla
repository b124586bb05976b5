----------------------------- MODULE ChartWindow -----------------------------
(***************************************************************************)
(* tc::ChartWindow: the snapshots of the shared adapter queued, rendered   *)
(* by a timer, and the view of them that the user moves.                   *)
(*                                                                         *)
(* A time is a number of minutes and a candle its range of prices, so a    *)
(* series is a function from times.  The fingerprint of a series is the    *)
(* series.  What is drawn over the candles is left out.                    *)
(*                                                                         *)
(* External: the adapter.  It emits for every request, before the request  *)
(* returns, and from then on only series of the bars last asked for, by    *)
(* this window or by another.                                              *)
(***************************************************************************)
EXTENDS Integers, FiniteSets

CONSTANTS
    Timeframes,       \* minutes of a bar; kTimeframes
    Snapshots,        \* what the adapter may emit: [minutes, candles, building]
    None,             \* the fingerprint of nothing
    Lookback,         \* kHistoryLookbackDays, in minutes
    RightOffsetBars,  \* kRightOffsetBars
    MinBars,          \* bars of the closest view
    MinMinutes,       \* its minutes at least
    MaxBars,          \* bars of the widest view at least
    ViewBars,         \* bars of the view that follows the data
    Margin,           \* bars painted on each side of the view
    MaxRendered,      \* kMaxRenderedCandles
    Shifts,           \* how far the user moves the view
    Scales,           \* price ranges the user chooses
    Hour, Nows        \* the view of no data: its length and its ends

ASSUME MinutesAssumption == Timeframes \subseteq Nat \ {0}
ASSUME SnapshotsAssumption ==
    \A s \in Snapshots :
        /\ s.minutes \in Timeframes /\ s.building \in BOOLEAN
        /\ IsFiniteSet(DOMAIN s.candles) /\ DOMAIN s.candles \subseteq Nat
        /\ \A t \in DOMAIN s.candles : s.candles[t] \in [low : Nat, high : Nat]
\* The adapter cuts a series to the look-back and a bar: trimCandlesToActiveWindow.
ASSUME SpansAssumption ==
    \A s \in Snapshots : \A t, u \in DOMAIN s.candles : t - u <= Lookback + s.minutes
ASSUME SizesAssumption ==
    /\ {Lookback, RightOffsetBars, MinBars, MinMinutes, MaxBars, ViewBars, Hour}
         \subseteq Nat \ {0}
    /\ MinBars <= MaxBars /\ MinMinutes <= Lookback
    /\ MinBars <= RightOffsetBars /\ MinMinutes <= RightOffsetBars
    /\ MaxRendered \in Nat \ {0} /\ Margin \in Nat
    /\ Shifts \subseteq Int /\ Nows \subseteq Int
    /\ Scales \subseteq [low : Nat, high : Nat]

VARIABLES
    selected,      \* selectedBarMinutes_
    pending,       \* pendingSnapshot_
    hasPending,    \* hasPendingSnapshot_
    armed,         \* renderTimer_.isActive()
    candles,       \* candles_
    fingerprint,   \* renderedCandleFingerprint_
    painted,       \* what candleSeries_ holds
    visible,       \* visibleStartMs_, visibleEndMs_
    scale,         \* visiblePriceMin_, visiblePriceMax_ without their padding
    followRight,   \* followRightEdge_
    userPrice,     \* userPriceRange_
    overlay,       \* loadingPanel_: hidden, or with progress, or with a message
    drag,          \* draggingChart_, draggingPriceScale_
    dragStart,     \* the view when the button was pressed
    drawn,         \* history: the snapshot rendered last
    foreign        \* history: another window chose the bars since this one did

dataVars == <<selected, pending, hasPending, armed, candles, fingerprint, overlay, drawn, foreign>>
viewVars == <<painted, visible, scale, followRight, userPrice>>
dragVars == <<drag, dragStart>>
vars == <<dataVars, viewVars, dragVars>>

Bigger(a, b) == IF a > b THEN a ELSE b
Least(S) == CHOOSE x \in S : \A y \in S : x <= y
Greatest(S) == CHOOSE x \in S : \A y \in S : x >= y
Newest(S, n) == {t \in S : Cardinality({u \in S : u > t}) < n}
Oldest(S, n) == {t \in S : Cardinality({u \in S : u < t}) < n}
Only(c, S) == [t \in S |-> c[t]]
NoCandles == Only(<<>>, {})

\* isRenderableCandle
Renderable(c) == Only(c, {t \in DOMAIN c : 0 < c[t].low /\ c[t].low <= c[t].high})

ASSUME NoneAssumption == \A s \in Snapshots : Renderable(s.candles) # None

-----------------------------------------------------------------------------
(* The view.  c is a series, m the minutes of a bar, v a range of times. *)

RightEdge(c, m) == Greatest(DOMAIN c) + m * RightOffsetBars
MinRange(m) == Bigger(m * MinBars, MinMinutes)
MaxRange(m) == Bigger(Lookback + m, m * MaxBars)

Centred(v, size) ==
    LET start == v.start + (v.end - v.start) \div 2 - size \div 2
    IN  [start |-> start, end |-> start + size]

\* setTimeRange: the range is neither too close nor too wide ...
Sized(v, m) ==
    CASE v.end <= v.start -> [start |-> v.start, end |-> v.start + MinRange(m)]
      [] v.start < v.end /\ v.end - v.start < MinRange(m) -> Centred(v, MinRange(m))
      [] v.end - v.start > MaxRange(m) -> Centred(v, MaxRange(m))
      [] OTHER -> v

\* Faulty variant: the ends are cut without the range moving.
PlacedCut(v, c, m) ==
    [start |-> Bigger(v.start, Least(DOMAIN c)),
     end |-> IF v.end > RightEdge(c, m) THEN RightEdge(c, m) ELSE v.end]

\* ... and lies on the data.
Placed(v, c, m) ==
    LET first == Least(DOMAIN c)
        edge == RightEdge(c, m)
        size == v.end - v.start
        room == Bigger(edge - first, MinRange(m))
    IN  CASE size >= room -> [start |-> first, end |-> edge]
          [] size < room /\ v.start < first -> [start |-> first, end |-> first + size]
          [] size < room /\ v.start >= first /\ v.end > edge ->
               [start |-> Bigger(edge - size, first), end |-> edge]
          [] OTHER -> v

View(v, c, m) == IF c = NoCandles THEN Sized(v, m) ELSE Placed(Sized(v, m), c, m)

\* renderCandles
Painted(c, v) ==
    LET before == {t \in DOMAIN c : t < v.start}
        after == {t \in DOMAIN c : t > v.end}
        near == Newest(before, Margin) \cup (DOMAIN c \ (before \cup after)) \cup Oldest(after, Margin)
    IN  Only(c, Newest(near, MaxRendered))

Within(c, v) == {t \in DOMAIN c : v.start <= t /\ t <= v.end}

\* autoscalePriceForVisibleRange
Hull(c, v) ==
    LET in == IF Within(c, v) = {} THEN DOMAIN c ELSE Within(c, v)
    IN  [low |-> Least({c[t].low : t \in in}), high |-> Greatest({c[t].high : t \in in})]

\* The view that follows the data
Following(c, m) == [start |-> Least(Newest(DOMAIN c, ViewBars)), end |-> RightEdge(c, m)]

SetTimeRange(v, c) ==
    /\ visible' = View(v, c, selected)
    /\ painted' = Painted(c, visible')

\* Faulty variant: the view is moved whenever there is data.
RangesReset(c, preserve) ==
    /\ SetTimeRange(Following(c, selected), c)
    /\ followRight' = TRUE
    /\ scale' = IF userPrice' THEN scale ELSE Hull(c, visible')

\* updateVisibleRanges, where there is data
UpdateVisibleRanges(c, preserve) ==
    LET keep == preserve /\ visible.start < visible.end
    IN  /\ SetTimeRange(IF keep THEN visible ELSE Following(c, selected), c)
        /\ followRight' = (followRight \/ ~keep)
        /\ scale' = IF userPrice' THEN scale ELSE Hull(c, visible')

-----------------------------------------------------------------------------
(* Snapshots *)

\* Faulty variant: the timer is started for the first snapshot only.
QueuedUnarmed(s) ==
    /\ pending' = s /\ hasPending' = TRUE
    /\ armed' = (armed \/ candles = NoCandles)

QueueSnapshot(s) == pending' = s /\ hasPending' = TRUE /\ armed' = TRUE

\* The adapter emits.
Emit(s) ==
    /\ s.minutes = pending.minutes
    /\ QueueSnapshot(s)
    /\ UNCHANGED <<selected, candles, fingerprint, overlay, drawn, foreign, viewVars, dragVars>>

\* Another window asks for other bars.
OtherWindow(s) ==
    /\ s.minutes # pending.minutes
    /\ QueueSnapshot(s)
    /\ foreign' = TRUE
    /\ UNCHANGED <<selected, candles, fingerprint, overlay, drawn, viewVars, dragVars>>

\* Faulty variant: the snapshot that is pending is rendered for the new bars.
ChangedUnasked(m, s) ==
    /\ m # selected
    /\ selected' = m
    /\ userPrice' = FALSE /\ followRight' = TRUE
    /\ candles' = NoCandles /\ fingerprint' = None /\ painted' = NoCandles
    /\ overlay' = "message" /\ foreign' = FALSE
    /\ UNCHANGED <<pending, hasPending, armed, visible, scale, drawn, dragVars>>

\* handleTimeframeChanged, with the emission its request makes
HandleTimeframeChanged(m, s) ==
    /\ m # selected /\ s.minutes = m
    /\ selected' = m
    /\ userPrice' = FALSE /\ followRight' = TRUE
    /\ candles' = NoCandles /\ fingerprint' = None /\ painted' = NoCandles
    /\ overlay' = "message"
    /\ QueueSnapshot(s) /\ foreign' = FALSE
    /\ UNCHANGED <<visible, scale, drawn, dragVars>>

\* showLoadingState, showStatusMessage, hideLoadingState
OverlayOf(s, c) ==
    CASE s.building -> "progress"
      [] ~s.building /\ c = NoCandles -> "message"
      [] OTHER -> "hidden"

RenderSnapshot(s) ==
    LET c == Renderable(s.candles)
        changed == c # fingerprint
    IN  /\ candles' = c /\ fingerprint' = c
        /\ overlay' = OverlayOf(s, c)
        /\ drawn' = s
        /\ UNCHANGED userPrice
        /\ CASE c = NoCandles ->
                  /\ painted' = IF changed THEN NoCandles ELSE painted
                  /\ UNCHANGED <<visible, scale, followRight>>
             [] c # NoCandles /\ changed -> UpdateVisibleRanges(c, ~followRight)
             [] OTHER -> UNCHANGED <<painted, visible, scale, followRight>>

\* The timer: flushPendingSnapshot
FlushPendingSnapshot ==
    /\ armed /\ armed' = FALSE
    /\ hasPending /\ hasPending' = FALSE
    /\ RenderSnapshot(pending)
    /\ UNCHANGED <<selected, pending, foreign, dragVars>>

-----------------------------------------------------------------------------
(* The user *)

\* What follows a move of the view, for handleChartWheel.
MoveView(v) ==
    /\ followRight' = FALSE
    /\ SetTimeRange(v, candles)
    /\ scale' = IF userPrice THEN scale ELSE Hull(candles, visible')
    /\ UNCHANGED <<userPrice, dataVars, dragVars>>

\* panTimeRange
WheelPan(shift) ==
    /\ candles # NoCandles
    /\ MoveView([start |-> visible.start + shift, end |-> visible.end + shift])

\* zoomTimeRangeAt: by a factor, about a point of the view
WheelZoomTime(percent, half) ==
    LET range == Bigger(visible.end - visible.start, MinRange(selected))
        asked == (range * percent) \div 100
        next == IF asked > MaxRange(selected) THEN MaxRange(selected)
                ELSE Bigger(asked, MinRange(selected))
        start == visible.start + (range * half) \div 2 - (next * half) \div 2
    IN  /\ candles # NoCandles /\ visible.start < visible.end
        /\ MoveView([start |-> start, end |-> start + next])

\* zoomPriceRangeAt
WheelZoomPrice(chosen) ==
    /\ candles # NoCandles
    /\ userPrice' = TRUE /\ scale' = chosen
    /\ UNCHANGED <<painted, visible, followRight, dataVars, dragVars>>

Nowhere == [start |-> 0, end |-> 0]

\* handleChartMousePress, when the profile is not being drawn; where a drag of
\* the chart began is kept until it ends.
Press(on) ==
    /\ drag = "none"
    /\ drag' = on
    /\ dragStart' = IF on = "chart" THEN visible ELSE Nowhere
    /\ UNCHANGED <<dataVars, viewVars>>

\* handleChartMouseMove
MovePriceScale(chosen) ==
    /\ candles # NoCandles /\ drag = "scale"
    /\ userPrice' = TRUE /\ scale' = chosen
    /\ UNCHANGED <<painted, visible, followRight, dataVars, dragVars>>

MoveChart(shift, chosen) ==
    /\ candles # NoCandles /\ drag = "chart"
    /\ followRight' = FALSE
    /\ SetTimeRange([start |-> dragStart.start + shift, end |-> dragStart.end + shift], candles)
    /\ userPrice' = TRUE /\ scale' = chosen
    /\ UNCHANGED <<dataVars, dragVars>>

Release ==
    /\ drag # "none" /\ drag' = "none"
    /\ dragStart' = Nowhere
    /\ UNCHANGED <<dataVars, viewVars>>

\* handleChartDoubleClick
DoubleClick(now) ==
    /\ userPrice' = FALSE
    /\ IF candles # NoCandles
       THEN UpdateVisibleRanges(candles, FALSE)
       ELSE /\ SetTimeRange([start |-> now - Hour, end |-> now], candles)
            /\ scale' = [low |-> 0, high |-> 1] /\ followRight' = TRUE
    /\ UNCHANGED <<dataVars, dragVars>>

-----------------------------------------------------------------------------
\* The constructor, to the end of connectMarketData.
Init ==
    /\ selected \in Timeframes
    /\ pending \in {s \in Snapshots : s.minutes = selected}
    /\ hasPending = TRUE /\ armed = TRUE
    /\ candles = NoCandles /\ fingerprint = None /\ painted = NoCandles
    /\ visible = Nowhere /\ scale = [low |-> 0, high |-> 1]
    /\ followRight = TRUE /\ userPrice = FALSE
    /\ overlay = "message"
    /\ drag = "none" /\ dragStart = Nowhere
    /\ drawn = [minutes |-> selected, candles |-> NoCandles, building |-> FALSE]
    /\ foreign = FALSE

Next ==
    \/ \E s \in Snapshots :
        \/ Emit(s) \/ OtherWindow(s)
        \/ \E m \in Timeframes : HandleTimeframeChanged(m, s)
    \/ FlushPendingSnapshot
    \/ \E shift \in Shifts : WheelPan(shift) \/ \E chosen \in Scales : MoveChart(shift, chosen)
    \/ \E percent \in {78, 128}, half \in {0, 2} : WheelZoomTime(percent, half)
    \/ \E chosen \in Scales : WheelZoomPrice(chosen) \/ MovePriceScale(chosen)
    \/ \E on \in {"chart", "scale"} : Press(on)
    \/ Release
    \/ \E now \in Nows : DoubleClick(now)

Spec == Init /\ [][Next]_vars

-----------------------------------------------------------------------------
(* What holds *)

Ranges == [start : Int, end : Int]

TypeOK ==
    /\ selected \in Timeframes
    /\ pending \in Snapshots /\ drawn.minutes \in Timeframes
    /\ hasPending \in BOOLEAN /\ armed \in BOOLEAN
    /\ visible \in Ranges /\ dragStart \in Ranges
    /\ followRight \in BOOLEAN /\ userPrice \in BOOLEAN
    /\ overlay \in {"hidden", "progress", "message"}
    /\ drag \in {"none", "chart", "scale"}
    /\ foreign \in BOOLEAN
    /\ fingerprint \in {None, candles}

(***************************************************************************)
(* The view lies on the data, between the first candle and the room right  *)
(* of the last, and is never closer than the closest, whatever series      *)
(* replaced the one it was made for and whatever the user did meanwhile.   *)
(***************************************************************************)
ViewIsOnData ==
    candles # NoCandles =>
        /\ Least(DOMAIN candles) <= visible.start
        /\ visible.end <= RightEdge(candles, selected)
        /\ visible.end - visible.start >= MinRange(selected)

(***************************************************************************)
(* A chart that follows its data shows the newest candle.  (Not where the  *)
(* room right of it is wider than the widest view: there the view is cut   *)
(* to its middle, as it is for the bars of a day.  Nor where the bars are  *)
(* the longer ones of another window, which may be more than the widest    *)
(* view and that room hold.)                                               *)
(***************************************************************************)
RoomFits(m) == m * RightOffsetBars <= MaxRange(m)

LastIsShown ==
    candles # NoCandles /\ followRight /\ RoomFits(selected) /\ ~foreign =>
        Greatest(DOMAIN candles) \in Within(candles, visible)

(***************************************************************************)
(* The candles of the view are painted as they are now, but for the oldest *)
(* of a view with more than can be rendered.                               *)
(***************************************************************************)
PaintedAgrees ==
    /\ \A t \in DOMAIN painted : t \in DOMAIN candles /\ painted[t] = candles[t]
    /\ \A t \in Within(candles, visible) :
        t \in DOMAIN painted \/ Cardinality({u \in DOMAIN painted : u > t}) = MaxRendered

(***************************************************************************)
(* Until the user scales the prices, every candle in the view fits them.   *)
(***************************************************************************)
ScaleFits ==
    candles # NoCandles /\ ~userPrice =>
        \A t \in Within(candles, visible) :
            scale.low <= candles[t].low /\ candles[t].high <= scale.high

(***************************************************************************)
(* What is seen is the data: the four together, with the types.            *)
(***************************************************************************)
ViewIsSound == TypeOK /\ ViewIsOnData /\ LastIsShown /\ PaintedAgrees /\ ScaleFits

(***************************************************************************)
(* The bars of the chart are those of its label, although a snapshot of    *)
(* the bars before may have been pending when the user changed them; but   *)
(* not once another window chose the bars of the shared adapter.           *)
(***************************************************************************)
TimeframeAgrees ==
    candles # NoCandles /\ ~foreign => drawn.minutes = selected

(***************************************************************************)
(* A snapshot does not move a view the user chose, as long as the data     *)
(* reaches around it, nor prices the user scaled.                          *)
(***************************************************************************)
Covers(c, v) == c # NoCandles /\ Least(DOMAIN c) <= v.start /\ v.end <= RightEdge(c, selected)

SnapshotKeepsView ==
    [][/\ drawn' # drawn /\ ~followRight /\ Covers(candles', visible) => visible' = visible
       /\ drawn' # drawn /\ userPrice => scale' = scale]_vars

(***************************************************************************)
(* A snapshot that is pending has a timer that will render it, and with    *)
(* none pending the chart shows the last one.                              *)
(***************************************************************************)
PendingIsRendered == IF hasPending THEN armed ELSE drawn = pending
=============================================================================
