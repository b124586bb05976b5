----------------------------- MODULE DomWindow ------------------------------
(***************************************************************************)
(* What tc::RithmicMarketDataAdapter makes of trades, quotes, books and    *)
(* replayed bars besides candles (the volume profile, the big trades and   *)
(* the DOM levels of the selected instrument) and tc::DomWindow, which     *)
(* draws the profile and the levels as a ladder of prices.                 *)
(*                                                                         *)
(* A price is a whole number of ticks, a time the number of a 100 ms       *)
(* bucket; a candle of the cache or of a replay is its close and volume.   *)
(***************************************************************************)
EXTENDS Integers, SequencesExt

CONSTANTS
    Prices,     \* prices of trades and bars, in ticks
    MidPrice,   \* the middle of the DOM levels
    Sides,      \* sides of the aggressor
    Lots,       \* sizes of trades and bars
    MaxBins,    \* kMaxProfileBins
    MaxBig,     \* kMaxBigTrades
    Threshold,  \* kBigTradeLotsThreshold
    Retention,  \* kBigTradeBucketRetentionMs, in buckets
    Lag,        \* buckets by which a trade may come late
    VisibleRows,
    MaxNow,     \* bound: buckets
    MaxHeard,   \* bound: trades and bars
    MaxScroll   \* bound: ticks the ladder is scrolled by

ASSUME ConstantsAssumption ==
    /\ Prices \cup {MidPrice} \subseteq Nat \ {0} /\ Lots \subseteq Nat \ {0}
    /\ {MaxBins, MaxBig, Threshold, VisibleRows} \subseteq Nat \ {0}
    /\ Retention \in Nat /\ Lag \in 0..Retention
    /\ {MaxNow, MaxHeard, MaxScroll} \subseteq Nat

VARIABLES
    last,       \* snapshot_.last, 0 when there was no trade
    profile,    \* snapshot_.volumeProfile: volume by price
    dom,        \* whether snapshot_.dom has levels enough for a middle
    bigTrades,  \* snapshot_.bigTrades
    buckets,    \* bigTradeBuckets_: lots by time, price and side
    building,   \* snapshot_.buildingChartData
    pending,    \* pendingSnapshot_, which renderTimer_ runs for: none, the present
                \* snapshot of the adapter or a past one
    shown,      \* whether DomLadderWidget::snapshot_ is the present one
    scroll,     \* manualCenterOffset_
    now,        \* the bucket of the last trade, late ones aside
    heard,      \* how many trades and bars there were
    tape,       \* history: lots traded at each price since the profile was made
    struck      \* history: lots by time, price and side since the big trades were cleared

adapter == <<last, profile, dom, bigTrades, buckets, building>>
window == <<pending, shown, scroll>>
vars == <<adapter, window, now, heard, tape, struck>>

Empty == <<>>
At(f, x) == IF x \in DOMAIN f THEN f[x] ELSE 0
Plus(f, x, n) == [y \in DOMAIN f \cup {x} |-> IF y = x THEN At(f, x) + n ELSE f[y]]

\* Faulty variant: the highest prices are dropped.
Lowest(f, n) == Restrict(f, {p \in DOMAIN f : Cardinality({q \in DOMAIN f : q < p}) < n})

\* Sorted by falling price and cut to n from the end.
Highest(f, n) == Restrict(f, {p \in DOMAIN f : Cardinality({q \in DOMAIN f : q > p}) < n})

-----------------------------------------------------------------------------
(* The volume profile *)

\* The prices from the highest: the i-th has i - 1 others above it.
Bins(f) ==
    [i \in 1..Cardinality(DOMAIN f) |->
        CHOOSE p \in DOMAIN f : Cardinality({q \in DOMAIN f : q > p}) = i - 1]

\* The first of the bins with the most volume.
PointOfControl(f) ==
    LET bins == Bins(f)
    IN  CHOOSE i \in DOMAIN bins :
            \A j \in DOMAIN bins : f[bins[i]] >= f[bins[j]] /\ (j < i => f[bins[i]] > f[bins[j]])

Covered(f, high, low) == SumFunctionOnSet(f, {Bins(f)[i] : i \in high..low})

Enough(f, high, low) == 10 * Covered(f, high, low) >= 7 * SumFunction(f)

\* recomputeProfileFlags: from the point of control the bin above or below
\* with more volume is added until 70 % are covered.
ValueArea(f) ==
    LET bins == Bins(f)
        Volume(i) == IF i \in DOMAIN bins THEN f[bins[i]] ELSE -1
        grown[a \in [high : DOMAIN bins, low : DOMAIN bins]] ==
            IF Enough(f, a.high, a.low) \/ (a.high = 1 /\ a.low = Len(bins))
            THEN a
            ELSE IF a.high > 1 /\ Volume(a.high - 1) >= Volume(a.low + 1)
                 THEN grown[[high |-> a.high - 1, low |-> a.low]]
                 ELSE grown[[high |-> a.high, low |-> a.low + 1]]
    IN  grown[[high |-> PointOfControl(f), low |-> PointOfControl(f)]]

\* updateProfileFromTrade, updateProfileFromCandle
Profiled(f, price, volume) == Highest(Plus(f, price, volume), MaxBins)

-----------------------------------------------------------------------------
(* Big trades *)

\* Faulty variant: a bucket may be given up one too early.
PrunedEarly(at) == Restrict(buckets, {k \in DOMAIN buckets : k.at > at - Retention})

\* pruneBigTradeState
Pruned(at) == Restrict(buckets, {k \in DOMAIN buckets : k.at >= at - Retention})

\* updateBigTradesFromTrade; candled says whether candleIndexForTime finds the
\* candle of the trade.
UpdateBigTrades(key, lots, candled) ==
    /\ buckets' = Plus(Pruned(key.at), key, lots)
    /\ LET big == [key |-> key, lots |-> buckets'[key]]
           at == SelectInSeq(bigTrades, LAMBDA b : b.key = key)
           more == Append(bigTrades, big)
       IN  bigTrades' =
            CASE big.lots < Threshold \/ ~candled -> bigTrades
              [] big.lots >= Threshold /\ candled /\ at > 0 -> [bigTrades EXCEPT ![at] = big]
              [] OTHER -> IF Len(more) > MaxBig THEN Tail(more) ELSE more

-----------------------------------------------------------------------------
(* The ladder *)

Snapshot == [last |-> last, profile |-> profile, dom |-> dom]

\* bestCenterPrice: the open and the close are set with the last price.
Center(s) ==
    IF s.last > 0 THEN s.last
    ELSE IF s.dom THEN MidPrice
    ELSE IF s.profile # Empty THEN Bins(s.profile)[PointOfControl(s.profile)]
    ELSE 0

\* buildRows: the row of each price in sight, from the highest.
Rows(s, offset) ==
    IF Center(s) = 0 THEN <<>>
    ELSE [i \in 1..VisibleRows |->
            LET price == Center(s) + offset + VisibleRows \div 2 - i + 1
            IN  [price |-> price,
                 volume |-> At(s.profile, price)]]

\* emitSnapshot and DomWindow::queueSnapshot
Emit ==
    /\ pending' = "present" /\ shown' = (shown /\ Snapshot' = Snapshot)
    /\ UNCHANGED scroll

NoEmit ==
    /\ pending' = IF pending = "present" /\ Snapshot' # Snapshot THEN "past" ELSE pending
    /\ shown' = (shown /\ Snapshot' = Snapshot)
    /\ UNCHANGED scroll

-----------------------------------------------------------------------------
(* The adapter *)

\* While a download has not reached the present, upsertCandle makes no candle
\* of a trade; a big trade that is listed has its candle.
MayLackCandle(at) == building /\ \A i \in DOMAIN bigTrades : bigTrades[i].key.at # at

\* handleTrade
HandleTrade(at, price, side, lots) ==
    LET key == [at |-> at, price |-> price, side |-> side]
    IN  /\ heard < MaxHeard /\ heard' = heard + 1
        /\ last' = price
        /\ \E candled \in {TRUE, ~MayLackCandle(at)} : UpdateBigTrades(key, lots, candled)
        /\ profile' = Profiled(profile, price, lots)
        /\ tape' = Plus(tape, price, lots) /\ struck' = Plus(struck, key, lots)
        /\ now' = IF at > now THEN at ELSE now
        /\ UNCHANGED <<dom, building>>
        /\ Emit

\* handleHistoricalBar, of this download or of one given up: not every bar is
\* reported.
HandleHistoricalBar(close, volume) ==
    /\ heard < MaxHeard /\ heard' = heard + 1
    /\ building' = TRUE
    /\ profile' = Profiled(profile, close, volume)
    /\ last' = IF last = 0 THEN close ELSE last
    /\ UNCHANGED <<dom, bigTrades, buckets, now, tape, struck>>
    /\ Emit \/ NoEmit

\* Faulty variant: the last bars are not reported.
FinishedSilently ==
    /\ building /\ building' = FALSE
    /\ UNCHANGED <<last, profile, dom, bigTrades, buckets, window, now, heard, tape, struck>>

\* handleHistoryFinished, and handleError during a download
HandleHistoryFinished ==
    /\ building /\ building' = FALSE
    /\ UNCHANGED <<last, profile, dom, bigTrades, buckets, now, heard, tape, struck>>
    /\ Emit

\* requestChartData of a connected adapter, or handleConnected: what was
\* cached is restored, then the download starts, or need not.  A cache whose
\* candles are all too old is restored as none.  Another bar length clears what
\* the old one made.
StartChartBackfill(reshaped, restored, cached) ==
    /\ cached # <<>> => restored
    /\ profile' = IF restored
                  THEN FoldLeft(LAMBDA f, c : Profiled(f, c.close, c.volume), Empty, cached)
                  ELSE IF reshaped THEN Empty ELSE profile
    /\ last' = IF cached = <<>> THEN last ELSE cached[Len(cached)].close
    /\ tape' = IF reshaped \/ restored THEN Empty ELSE tape
    /\ IF reshaped
       THEN bigTrades' = <<>> /\ buckets' = Empty /\ struck' = Empty
       ELSE UNCHANGED <<bigTrades, buckets, struck>>
    /\ building' \in BOOLEAN
    /\ UNCHANGED <<dom, now, heard>>
    /\ Emit

\* subscribe
Subscribe ==
    /\ last' = 0 /\ profile' = Empty /\ dom' = FALSE
    /\ bigTrades' = <<>> /\ buckets' = Empty
    /\ tape' = Empty /\ struck' = Empty
    /\ UNCHANGED <<building, now, heard>>
    /\ Emit

\* handleBbo, handleOrderBook: a quote adds levels, a book replaces them.
HandleBook ==
    /\ dom' \in BOOLEAN
    /\ UNCHANGED <<last, profile, bigTrades, buckets, building, now, heard, tape, struck>>
    /\ Emit

-----------------------------------------------------------------------------
(* The window *)

\* flushPendingSnapshot and renderSnapshot
Flush ==
    /\ pending # "none" /\ pending' = "none"
    /\ shown' = (pending = "present")
    /\ UNCHANGED <<adapter, scroll, now, heard, tape, struck>>

\* wheelEvent, recenter
Wheel(steps) ==
    /\ scroll' = scroll + steps /\ scroll' \in 0..MaxScroll
    /\ UNCHANGED <<adapter, pending, shown, now, heard, tape, struck>>

Recenter ==
    /\ scroll # 0 /\ scroll' = 0
    /\ UNCHANGED <<adapter, pending, shown, now, heard, tape, struck>>

-----------------------------------------------------------------------------
\* DomWindow::connectMarketData: the instrument is subscribed and its
\* snapshot queued.
Init ==
    /\ last = 0 /\ profile = Empty /\ dom = FALSE
    /\ bigTrades = <<>> /\ buckets = Empty /\ building = FALSE
    /\ pending = "present" /\ shown = FALSE /\ scroll = 0
    /\ now = 0 /\ heard = 0 /\ tape = Empty /\ struck = Empty

Cached == {<<>>} \cup {<<[close |-> p, volume |-> v]>> : p \in Prices, v \in Lots}

\* The feed is in order but for trades late by Lag.
Late(t) == IF t < Lag THEN 0 ELSE t - Lag

Next ==
    \/ HandleHistoryFinished \/ Subscribe \/ HandleBook
    \/ \E p \in Prices, n \in Lots :
        \/ HandleHistoricalBar(p, n)
        \/ \E s \in Sides, t \in Late(now)..MaxNow : HandleTrade(t, p, s, n)
    \/ \E c \in Cached, reshaped, restored \in BOOLEAN : StartChartBackfill(reshaped, restored, c)
    \/ Flush \/ Wheel(3) \/ Wheel(-3) \/ Recenter

Spec == Init /\ [][Next]_vars

-----------------------------------------------------------------------------
(* What holds *)

(***************************************************************************)
(* The value area that is flagged is around the point of control, covers   *)
(* 70 % of the profile's volume, and would not without one of its edges.   *)
(***************************************************************************)
AreaIsTight(f) ==
    LET poc == PointOfControl(f)
        area == ValueArea(f)
        Volume(bins) == SumFunctionOnSet(f, {Bins(f)[i] : i \in bins})
        IsEnough(bins) == 10 * Volume(bins) >= 7 * Volume(DOMAIN Bins(f))
        flagged == area.high..area.low
    IN  /\ poc \in flagged /\ IsEnough(flagged)
        /\ flagged # {poc} => \E edge \in {area.high, area.low} \ {poc} : ~IsEnough(flagged \ {edge})

(***************************************************************************)
(* Bars and trades share the profile and it is cut to its highest prices:  *)
(* it still has all that was traded since it was made, except below the    *)
(* lowest price of a full profile.                                         *)
(***************************************************************************)
TapeIsKept ==
    \A p \in DOMAIN tape :
        IF p \in DOMAIN profile
        THEN profile[p] >= tape[p]
        ELSE Cardinality(DOMAIN profile) = MaxBins /\ \A q \in DOMAIN profile : q > p

(***************************************************************************)
(* The profile has what was traded, and its value area is as it should be. *)
(***************************************************************************)
ProfileIsSound ==
    /\ profile # Empty => AreaIsTight(profile)
    /\ TapeIsKept

(***************************************************************************)
(* A big trade that is shown has the lots traded in its bucket at its      *)
(* price and side, also by trades that came late, and is listed once.      *)
(***************************************************************************)
BigTradesAreTrue ==
    \A i \in DOMAIN bigTrades :
        /\ bigTrades[i].lots = At(struck, bigTrades[i].key) /\ bigTrades[i].lots >= Threshold
        /\ \A j \in DOMAIN bigTrades : bigTrades[i].key = bigTrades[j].key => i = j

(***************************************************************************)
(* Not every replayed bar is reported, and the window draws later than it  *)
(* is told: with no download on and nothing pending it draws the adapter's *)
(* snapshot.  As soon as a price has volume the ladder has rows, around    *)
(* the last price.                                                         *)
(***************************************************************************)
LadderIsCurrent ==
    /\ ~building /\ pending = "none" => shown
    /\ profile # Empty => last > 0 /\ \E i \in DOMAIN Rows(Snapshot, 0) : Rows(Snapshot, 0)[i].price = last
=============================================================================
