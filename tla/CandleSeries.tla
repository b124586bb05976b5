---------------------------- MODULE CandleSeries ----------------------------
(***************************************************************************)
(* The candles of one instrument in tc::RithmicMarketDataAdapter: made of  *)
(* the trades of the ticker connection and of the bars that the history    *)
(* connection replays, remembered by the adapter and saved by              *)
(* tc::ChartDataCache.                                                     *)
(*                                                                         *)
(* A time is a bar.  A candle is its time and its volume in lots; prices   *)
(* follow the volume.  RithmicMarketDataAdapter has the instruments, the   *)
(* bar lengths and the connections that are one action or none here.       *)
(***************************************************************************)
EXTENDS Integers, SequencesExt

CONSTANTS
    MaxTime,    \* bound: bars the market is open
    MaxLots,    \* bound: trades, of one lot each
    MaxWire,    \* bound: trades not delivered yet
    MaxReplays, \* bound: downloads whose end has not come yet
    Lookback,   \* activeLookbackDays, in bars
    Overlap,    \* kGapBackfillOverlapBars
    FreshFor,   \* kCacheFreshSeconds, in bars
    None        \* no file

ASSUME BoundsAssumption ==
    /\ {MaxTime, MaxLots, MaxWire, MaxReplays, Lookback, FreshFor} \subseteq Nat \ {0}
    /\ Overlap \in Nat

VARIABLES
    now,        \* the present bar
    traded,     \* lots traded in each bar, at the exchange
    wire,       \* trades the ticker connection has yet to deliver, by their bar
    candles,    \* snapshot_.candles
    building,   \* snapshot_.buildingChartData
    complete,   \* chartBackfillComplete_
    dirty,      \* candleCacheDirty_
    memory,     \* candleCache_
    refreshed,  \* candleCacheRefreshedAt_
    disk,       \* the file of the cache
    chart,      \* "open" when a chart asked for the instrument (chartDataRequested_),
                \* "away" when another instrument was chosen since, and "unasked"
                \* before, and when its trades are not sent any more
    answer,     \* for each replay that has not ended, the bars the history
                \* connection has yet to deliver
    historyStage, \* the client's: "Idle" without a history connection,
                \* "Backfilling" while its completion timer counts, or "Active"
    loaded,     \* whether a bar came since bars were asked for: historyBarsLoaded_
    gap,        \* history: bars with trades after the cached ones when downloads
                \* began that have not failed and were for the chart there is
    told        \* history: the lots of each bar since the program started, by the
                \* bar replayed last and the trades taken after it

market == <<now, traded>>
series == <<chart, candles, building, complete, dirty, memory, refreshed>>
history == <<answer, historyStage, loaded>>
vars == <<market, wire, series, disk, history, gap, told>>

Times(c) == {c[i].time : i \in DOMAIN c}
Bar(t, v) == [time |-> t, volume |-> v]
LastTime(c) == Last(c).time

\* How many candles are before t: what lower_bound finds.
Before(c, t) ==
    CHOOSE n \in 0..Len(c) :
        /\ \A i \in 1..n : c[i].time < t
        /\ n = Len(c) \/ c[n + 1].time >= t

Inserted(c, n, bar) == SubSeq(c, 1, n) \o <<bar>> \o SubSeq(c, n + 1, Len(c))

\* trimCandlesToActiveWindow
Trim(c) ==
    LET old == Before(c, now - Lookback - 1)
    IN  SubSeq(c, old + 1, Len(c))

\* Faulty variant: a bar is looked for at the end only.
MergedAtEnd(c, bar) ==
    IF c # <<>> /\ LastTime(c) = bar.time THEN [c EXCEPT ![Len(c)] = bar] ELSE Append(c, bar)

\* Faulty variant: a bar before the last candle is dropped.
MergedNewer(c, bar) ==
    IF c = <<>> \/ LastTime(c) < bar.time THEN Append(c, bar)
    ELSE IF LastTime(c) = bar.time THEN [c EXCEPT ![Len(c)] = bar] ELSE c

\* mergeCandle
Merge(c, bar) ==
    LET n == Before(c, bar.time)
    IN  IF n < Len(c) /\ c[n + 1].time = bar.time
        THEN [c EXCEPT ![n + 1] = bar]
        ELSE Inserted(c, n, bar)

\* Faulty variant: the trade makes a candle anew.
UpsertedAnew(c, t) == Merge(c, Bar(t, 1))

\* upsertCandle, for a trade of one lot
Upsert(c, t) ==
    LET n == Before(c, t)
    IN  IF n < Len(c) /\ c[n + 1].time = t
        THEN [c EXCEPT ![n + 1].volume = @ + 1]
        ELSE Inserted(c, n, Bar(t, 1))

\* candlesCoverCurrentTime: within a bar of the end of the last
CoversNow(c) == c # <<>> /\ now - (LastTime(c) + 1) <= 1

\* backfillBarsForCurrentGap
GapBars(c) ==
    LET missing == IF c # <<>> /\ now > LastTime(c) + 1 THEN now - (LastTime(c) + 1) ELSE 0
        asked == missing + Overlap
    IN  CASE c = <<>> \/ asked > Lookback -> Lookback
          [] c # <<>> /\ asked < 1 -> 1
          [] OTHER -> asked

-----------------------------------------------------------------------------
(* The cache *)

\* rememberCandleCache
Remember(c) == memory' = c /\ refreshed' = now /\ dirty' = TRUE

\* persistCandleCache and ChartDataCache::save; the file may not be written,
\* and between two saves time must pass.  normalizedCandles, which sorts the
\* candles and keeps one for each time, finds that done (SeriesIsSound).
CanPersist == complete /\ ~building /\ dirty /\ candles # <<>>
Saved(c) == disk' = [own |-> TRUE, candles |-> c, refreshed |-> now]

\* ChartDataCache::load; a file of another instrument has the same name when
\* the names differ only in what cacheToken replaces.
Loaded == IF disk # None /\ disk.own THEN disk.candles ELSE <<>>

\* restoreCachedCandles, then startChartBackfill, for a series that is shown
\* as c and remembered as m since r.  A download is asked for over the history
\* connection beside those that have not ended yet.
StartChartBackfill(c, m, r) ==
    LET cached == IF m # <<>> THEN m ELSE Loaded
        since == IF m = <<>> /\ cached # <<>> THEN disk.refreshed ELSE r
        known == Trim(cached)
    IN  /\ candles' = IF cached # <<>> THEN known ELSE c
        /\ memory' = known /\ refreshed' = since
        /\ IF known # <<>> /\ now - since < FreshFor /\ CoversNow(known)
           THEN /\ building' = FALSE /\ complete' = TRUE
                /\ UNCHANGED <<history, gap>>
           ELSE /\ building' = TRUE /\ complete' = FALSE
                /\ gap' = gap \cup {t \in now - Lookback .. now :
                            /\ known = <<>> \/ t > LastTime(known)
                            /\ t > 0 /\ traded[t] > 0}
                /\ answer' = Append(answer, {Bar(t, traded[t]) : t \in
                                {t \in now - GapBars(known) .. now : t > 0 /\ traded[t] > 0}})
                /\ historyStage' = "Backfilling" /\ loaded' = FALSE

-----------------------------------------------------------------------------
(* The market *)

Tick ==
    /\ now < MaxTime /\ now' = now + 1
    /\ UNCHANGED <<traded, wire, series, disk, history, gap, told>>

\* No subscription is given up: trades are sent until the connection is lost.
TradeHappens ==
    /\ FoldFunction(+, 0, traded) < MaxLots /\ Len(wire) < MaxWire
    /\ traded' = [traded EXCEPT ![now] = @ + 1]
    /\ wire' = IF chart = "unasked" THEN wire ELSE Append(wire, now)
    /\ UNCHANGED <<now, series, disk, history, gap, told>>

-----------------------------------------------------------------------------
(* The adapter *)

\* handleTrade: trades are dropped while a download has not reached the present,
\* and while another instrument is chosen.
HandleTrade(save) ==
    /\ wire # <<>> /\ wire' = Tail(wire)
    /\ IF chart # "open" \/ (building /\ candles # <<>> /\ ~CoversNow(candles))
       THEN UNCHANGED <<series, disk, told>>
       ELSE LET c == Trim(Upsert(candles, Head(wire)))
            IN  /\ candles' = c
                /\ memory' = c /\ refreshed' = now
                /\ IF save /\ complete /\ ~building /\ c # <<>>
                   THEN Saved(c) /\ dirty' = FALSE
                   ELSE dirty' = TRUE /\ UNCHANGED disk
                /\ told' = [told EXCEPT ![Head(wire)] = @ + 1]
                /\ UNCHANGED <<chart, building, complete>>
    /\ UNCHANGED <<market, history, gap>>

\* The bars of a replay come in their order.  They come after the completion
\* timer too, and when another instrument was chosen, whose candles they then join.
HandleHistoricalBar(r, bar) ==
    /\ bar \in answer[r] /\ \A other \in answer[r] : bar.time <= other.time
    /\ answer' = [answer EXCEPT ![r] = @ \ {bar}]
    /\ loaded' = TRUE
    /\ building' = TRUE
    /\ IF chart = "open"
       THEN /\ candles' = Trim(Merge(candles, bar))
            /\ Remember(candles')
            /\ told' = [told EXCEPT ![bar.time] = bar.volume]
       ELSE UNCHANGED <<candles, memory, refreshed, dirty, told>>
    /\ UNCHANGED <<market, wire, chart, complete, disk, historyStage, gap>>

\* handleHistoryFinished
HandleHistoryFinished(ok, save) ==
    /\ building' = FALSE
    /\ complete' = ok
    /\ IF ok /\ save /\ dirty /\ candles # <<>>
       THEN Saved(candles) /\ dirty' = FALSE
       ELSE UNCHANGED <<disk, dirty>>
    /\ UNCHANGED <<market, wire, chart, candles, memory, refreshed, told>>

\* The end marker of a replay: it ends what is shown as one download, also when
\* another replay has bars to come.
EndOfReplay(r, save) ==
    /\ answer[r] = {} /\ answer' = RemoveAt(answer, r)
    /\ historyStage' = "Active"
    /\ HandleHistoryFinished(TRUE, save)
    /\ UNCHANGED <<loaded, gap>>

\* The client's completion timer: no bar for some time.  The bars that did not
\* come may come later.
HistoryTimeout(save) ==
    /\ historyStage = "Backfilling" /\ historyStage' = "Active"
    /\ HandleHistoryFinished(loaded, save)
    /\ UNCHANGED <<answer, loaded, gap>>

\* failHistory: the history connection is lost, with the bars on it.
FailHistory ==
    /\ historyStage # "Idle" /\ historyStage' = "Idle"
    /\ answer' = <<>> /\ gap' = {}
    /\ HandleHistoryFinished(FALSE, FALSE)
    /\ UNCHANGED loaded

\* A chart asks for the instrument, first or again.
Open ==
    /\ Len(answer) < MaxReplays
    /\ chart # "open" /\ chart' = "open"
    /\ StartChartBackfill(candles, memory, refreshed)
    /\ UNCHANGED <<market, wire, dirty, disk, told>>

\* Another instrument is chosen: subscribe persists, and what is shown is cleared
\* but remembered.
Leave(save) ==
    /\ chart = "open" /\ chart' = "away"
    /\ IF save /\ CanPersist THEN Saved(candles) ELSE UNCHANGED disk
    /\ candles' = <<>> /\ dirty' = FALSE /\ complete' = FALSE
    /\ gap' = {}
    /\ UNCHANGED <<market, wire, building, memory, refreshed, history, told>>

\* The ticker connection is lost, with the trades on it and those made until it
\* is back: handleConnected asks for what is missing.
Reconnect ==
    /\ chart = "open" /\ Len(answer) < MaxReplays
    /\ wire' = <<>>
    /\ StartChartBackfill(candles, memory, refreshed)
    /\ UNCHANGED <<market, chart, dirty, disk, told>>

\* With another instrument chosen, that one alone is subscribed to again.
ReconnectAway ==
    /\ chart = "away" /\ chart' = "unasked"
    /\ wire' = <<>>
    /\ UNCHANGED <<market, candles, building, complete, dirty, memory, refreshed,
                   disk, history, gap, told>>

\* The program ends, persisting or not, and is started again.
Restart(save) ==
    /\ IF save /\ CanPersist THEN Saved(candles) ELSE UNCHANGED disk
    /\ chart' = "unasked"
    /\ wire' = <<>>
    /\ answer' = <<>> /\ historyStage' = "Idle" /\ loaded' = FALSE
    /\ candles' = <<>> /\ memory' = <<>> /\ refreshed' = 0
    /\ building' = FALSE /\ complete' = FALSE /\ dirty' = FALSE
    /\ gap' = {} /\ told' = [t \in 1..MaxTime |-> 0]
    /\ UNCHANGED market

\* Another instrument saves in the same file.
OtherSaves ==
    /\ disk' = [own |-> FALSE]
    /\ UNCHANGED <<market, wire, series, history, gap, told>>

-----------------------------------------------------------------------------
Init ==
    /\ chart = "unasked"
    /\ now = 1 /\ traded = [t \in 1..MaxTime |-> 0] /\ wire = <<>>
    /\ candles = <<>> /\ memory = <<>> /\ refreshed = 0
    /\ building = FALSE /\ complete = FALSE /\ dirty = FALSE
    /\ disk = None
    /\ answer = <<>> /\ historyStage = "Idle" /\ loaded = FALSE
    /\ gap = {} /\ told = [t \in 1..MaxTime |-> 0]

Next ==
    \/ Tick \/ TradeHappens
    \/ Open \/ Reconnect \/ ReconnectAway \/ OtherSaves \/ FailHistory
    \/ \E r \in DOMAIN answer : \E bar \in answer[r] : HandleHistoricalBar(r, bar)
    \/ \E save \in BOOLEAN :
        \/ HandleTrade(save) \/ Leave(save) \/ Restart(save) \/ HistoryTimeout(save)
        \/ \E r \in DOMAIN answer : EndOfReplay(r, save)

Spec == Init /\ [][Next]_vars

-----------------------------------------------------------------------------
(* What holds *)

Ascending(c) == \A i, j \in DOMAIN c : i < j => c[i].time < c[j].time

TypeOK ==
    /\ now \in 1..MaxTime /\ traded \in [1..MaxTime -> Nat]
    /\ \A c \in {candles, memory} : c \in Seq([time : Int, volume : Nat])
    /\ answer \in Seq(SUBSET [time : Int, volume : Nat])
    /\ chart \in {"unasked", "open", "away"} /\ historyStage \in {"Idle", "Backfilling", "Active"}
    /\ building \in BOOLEAN /\ complete \in BOOLEAN /\ dirty \in BOOLEAN /\ loaded \in BOOLEAN

(***************************************************************************)
(* However trades and bars interleave, and wherever the series was         *)
(* restored from, it has one candle for a bar, in their order, and each    *)
(* for a bar of this instrument that had trades; and what is shown is what *)
(* is remembered, so that a return to the instrument shows it again.       *)
(***************************************************************************)
SeriesIsSound ==
    /\ TypeOK
    /\ candles # <<>> => memory = candles
    /\ \A c \in {candles, memory} :
        /\ Ascending(c)
        /\ \A t \in Times(c) : t \in 1..now /\ traded[t] > 0

(***************************************************************************)
(* Through trims, restores, switches and replays a candle has at least the *)
(* volume of the bar replayed last for it and of the trades taken since.   *)
(***************************************************************************)
BarsStay ==
    \A i \in DOMAIN candles : candles[i].volume >= told[candles[i].time]

(***************************************************************************)
(* What a download was begun for is shown or still on its way, as long as  *)
(* it is in the window: whatever trades, other replays, reconnects and the *)
(* completion timer come between, until the connection fails or another    *)
(* instrument is chosen.  When all is delivered there is no hole after the *)
(* candles the download began with.                                        *)
(***************************************************************************)
GapIsCovered ==
    \A t \in gap : t >= now - Lookback =>
        \/ t \in Times(candles)
        \/ \E r \in DOMAIN answer : t \in {bar.time : bar \in answer[r]}
=============================================================================
