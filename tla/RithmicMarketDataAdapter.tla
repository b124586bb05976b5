---------------------- MODULE RithmicMarketDataAdapter ----------------------
(***************************************************************************)
(* tc::RithmicMarketDataAdapter: which instrument is attached to the live  *)
(* stream, which candles the chart shows, which of them are remembered and *)
(* persisted, and what the shared snapshot says about the connection and   *)
(* about a download.  The adapter is called by the chart and DOM windows   *)
(* that share it and called back by its RithmicProtocolClient.             *)
(*                                                                         *)
(* The record `m` holds the adapter, the chart-cache files, and the client *)
(* below it as the adapter sees it: the ticker session of TickerSession    *)
(* and a history plant that replays bars.  As in RithmicProtocolClient a   *)
(* handler is an operator from the record before to the record after, and  *)
(* an action is one call of a window or one callback of the client.        *)
(*                                                                         *)
(* A candle is the key it belongs to, contract and bar length: whose trade *)
(* or bar it is made of and for which chart.  A series of candles is the   *)
(* set of those keys.  Prices, times and the throttle of the cache are     *)
(* abstracted: covered says whether the cached candles reach the present   *)
(* minute, saved whether a save is due and the file could be written.      *)
(***************************************************************************)
EXTENDS Naturals, Functions

CONSTANTS
    Contracts,     \* dated contracts
    RemoteRoots,   \* instruments whose front month the gateway looks up
    LocalRoots,    \* those localFrontMonthContract knows
    FrontMonth,    \* the contract of each root
    None,          \* no instrument
    Shapes,        \* bar lengths a chart window offers
    DefaultShape,  \* the one it opens with
    ChartNames,    \* instruments a chart is opened for
    Rescaled,      \* those of them whose bar length the user changes
    DomNames,      \* instruments a DOM is opened for
    Writable,      \* can the files of the chart cache be written at all?
    MaxOwed        \* bound: lookups and replays the gateway owes

Roots == RemoteRoots \cup LocalRoots
Names == Roots \cup Contracts

ASSUME NamesAssumption ==
    /\ Roots \cap Contracts = {} /\ RemoteRoots \cap LocalRoots = {}
    /\ None \notin Names
    /\ FrontMonth \in [Roots -> Contracts]
ASSUME ShapesAssumption == DefaultShape \in Shapes /\ None \notin Shapes
ASSUME WindowsAssumption ==
    /\ ChartNames \subseteq Names /\ Rescaled \subseteq ChartNames
    /\ DomNames \subseteq Names /\ Writable \in BOOLEAN
ASSUME MaxOwedAssumption == MaxOwed \in Nat

VARIABLES
    m,      \* the adapter, its files and its client
    charts  \* the bar length each open chart window shows

vars == <<m, charts>>

Keys == Contracts \X Shapes
CacheKeys == Names \X Shapes

(***************************************************************************)
(* started .. memory are members of the class: connectionStarted_,         *)
(* pendingSymbol_, requestedRootSymbol_, resolvingFrontMonth_,             *)
(* chartDataRequested_, activeBarMinutes(), chartBackfillComplete_,        *)
(* candleCacheDirty_, candleCache_; connected, failed, building, candles   *)
(* and dom are fields of the snapshot, dom as the contracts whose levels   *)
(* it shows.  disk are the files of ChartDataCache.  The rest is the       *)
(* client: link, wanted and streamed as in TickerSession, lookups and      *)
(* replays what the gateway owes, history the history connection ("orphan" *)
(* when open but never logged in), pending its last request, backfilling   *)
(* and counted whether that request is unfinished and got bars.            *)
(***************************************************************************)
Adapter == [
    started: BOOLEAN, symbol: Names \cup {None}, root: Names \cup {None},
    resolving: BOOLEAN, chartWanted: BOOLEAN, shape: Shapes,
    complete: BOOLEAN, dirty: BOOLEAN, memory: [CacheKeys -> SUBSET Keys],
    connected: BOOLEAN, failed: BOOLEAN, building: BOOLEAN,
    candles: SUBSET Keys, dom: SUBSET Contracts,
    disk: [CacheKeys -> SUBSET Keys],
    link: {"Off", "Connecting", "Live", "Lost", "Failed", "Closed"},
    wanted: Contracts \cup {None}, streamed: SUBSET Contracts,
    lookups: [RemoteRoots -> Nat],
    history: {"off", "opening", "live", "orphan"}, pending: CacheKeys \cup {None},
    replays: [CacheKeys -> Nat], backfilling: BOOLEAN, counted: BOOLEAN ]

NewAdapter(files) == [
    started |-> FALSE, symbol |-> None, root |-> None,
    resolving |-> FALSE, chartWanted |-> FALSE, shape |-> DefaultShape,
    complete |-> FALSE, dirty |-> FALSE, memory |-> [key \in CacheKeys |-> {}],
    connected |-> FALSE, failed |-> FALSE, building |-> FALSE,
    candles |-> {}, dom |-> {}, disk |-> files,
    link |-> "Off", wanted |-> None, streamed |-> {},
    lookups |-> [r \in RemoteRoots |-> 0],
    history |-> "off", pending |-> None,
    replays |-> [key \in CacheKeys |-> 0], backfilling |-> FALSE, counted |-> FALSE ]

Owed(k) == SumFunction(k.lookups) + SumFunction(k.replays)

-----------------------------------------------------------------------------
(* Candles and their cache *)

\* protocol_ is there, started and connected.
Ready(k) == k.started /\ k.link = "Live"

Key(k) == <<k.symbol, k.shape>>

RememberCandleCache(k) ==
    IF k.chartWanted /\ k.symbol # None
    THEN [k EXCEPT !.memory[Key(k)] = k.candles, !.dirty = TRUE]
    ELSE k

PersistCandleCache(k, saved) ==
    IF /\ k.chartWanted /\ k.complete /\ ~k.building /\ k.dirty
       /\ k.symbol # None /\ k.candles # {}
       /\ Writable /\ saved
    THEN [k EXCEPT !.disk[Key(k)] = k.candles, !.dirty = FALSE]
    ELSE k

\* Without a cached series the snapshot keeps the candles it has.
RestoreCachedCandles(k) ==
    LET remembered == IF k.chartWanted /\ k.symbol # None THEN k.memory[Key(k)] ELSE {}
        cached == IF k.chartWanted /\ k.symbol # None /\ remembered = {}
                  THEN k.disk[Key(k)] ELSE remembered
    IN  IF cached = {} THEN k ELSE [k EXCEPT !.candles = cached, !.memory[Key(k)] = cached]

\* A bar or a trade becomes a candle, or part of one.
AddCandle(k, key) == RememberCandleCache([k EXCEPT !.candles = @ \cup {key}])

\* Faulty variant: a failure ends nothing.
FinishedOnlyWhenOk(k, ok, saved) ==
    IF ok
    THEN PersistCandleCache([k EXCEPT !.building = FALSE, !.complete = TRUE,
                                      !.backfilling = FALSE], saved)
    ELSE [k EXCEPT !.complete = FALSE, !.backfilling = FALSE]

HandleHistoryFinished(k, ok, saved) ==
    LET off == [k EXCEPT !.building = FALSE, !.complete = ok, !.backfilling = FALSE]
    IN  IF ok THEN PersistCandleCache(off, saved) ELSE off

\* The client is asked for bars.  Over a connection that is not logged in it
\* aborts the attempt, reports that as a failure before it returns, and is left
\* with a connection that is never logged in.  The status it publishes clears
\* connectionFailed.
RequestTimeBarBackfill(k) ==
    LET asked == [k EXCEPT !.pending = Key(k), !.counted = FALSE, !.failed = FALSE]
    IN  CASE k.history = "live" -> [asked EXCEPT !.replays[Key(k)] = @ + 1, !.backfilling = TRUE]
          [] k.history = "off" -> [asked EXCEPT !.history = "opening"]
          [] OTHER -> HandleHistoryFinished([asked EXCEPT !.history = "orphan"], FALSE, FALSE)

\* No window asks with allowCached off, and a restore just before this one, by
\* the caller, finds and leaves the same candles.
StartChartBackfill(k, covered) ==
    LET restored == RestoreCachedCandles(k)
        cached == restored.memory[Key(restored)]
    IN  CASE ~Ready(k) \/ k.symbol = None \/ k.resolving -> k
          [] OTHER ->
                IF cached # {} /\ covered
                THEN [restored EXCEPT !.building = FALSE, !.complete = TRUE]
                ELSE RequestTimeBarBackfill([restored EXCEPT !.complete = FALSE,
                                                             !.building = TRUE])

-----------------------------------------------------------------------------
(* The instrument *)

\* Faulty variant: every instrument gets its history.
AttachedWithHistory(k, covered) ==
    StartChartBackfill([k EXCEPT !.wanted = k.symbol, !.streamed = @ \cup {k.symbol}], covered)

\* subscribePendingSymbol and, when a chart asked, its bars.
Attach(k, covered) ==
    LET streaming == [k EXCEPT !.wanted = k.symbol, !.streamed = @ \cup {k.symbol}]
    IN  IF k.chartWanted THEN StartChartBackfill(streaming, covered) ELSE streaming

\* Faulty variant: subscribes to a root it could resolve itself.
ResolvedNothingLocally(k, covered) ==
    CASE ~Ready(k) \/ k.symbol = None -> k
      [] Ready(k) /\ k.symbol \notin RemoteRoots -> Attach(k, covered)
      [] OTHER -> IF k.resolving THEN k
                  ELSE [k EXCEPT !.resolving = TRUE, !.lookups[k.symbol] = @ + 1]

\* Faulty variant: does not wait for the session.
ResolvedTooSoon(k, covered) ==
    CASE k.symbol = None -> k
      [] k.symbol \in Contracts -> Attach(k, covered)
      [] k.symbol \in LocalRoots ->
            Attach([k EXCEPT !.root = k.symbol, !.symbol = FrontMonth[k.symbol]], covered)
      [] OTHER -> IF k.resolving THEN k
                  ELSE [k EXCEPT !.resolving = TRUE, !.lookups[k.symbol] = @ + 1]

ResolvePendingSymbol(k, covered) ==
    CASE ~Ready(k) \/ k.symbol = None -> k
      [] Ready(k) /\ k.symbol \in Contracts -> Attach(k, covered)
      [] Ready(k) /\ k.symbol \in LocalRoots ->
            Attach([k EXCEPT !.root = k.symbol, !.symbol = FrontMonth[k.symbol]], covered)
      [] Ready(k) /\ k.symbol \in RemoteRoots ->
            IF k.resolving THEN k
            ELSE [k EXCEPT !.resolving = TRUE, !.root = k.symbol, !.lookups[k.symbol] = @ + 1]

\* Faulty variant: keeps the candles of the instrument before.
SubscribedOverCandles(k, n, saved, covered) ==
    ResolvePendingSymbol(
        [PersistCandleCache(k, saved) EXCEPT
            !.symbol = n, !.root = n, !.resolving = FALSE, !.dom = {},
            !.dirty = FALSE, !.complete = FALSE,
            !.chartWanted = FALSE, !.shape = DefaultShape],
        covered)

Subscribe(k, n, saved, covered) ==
    ResolvePendingSymbol(
        [PersistCandleCache(k, saved) EXCEPT
            !.symbol = n, !.root = n, !.resolving = FALSE, !.candles = {}, !.dom = {},
            !.dirty = FALSE, !.complete = FALSE,
            !.chartWanted = FALSE, !.shape = DefaultShape],
        covered)

\* Faulty variant: still means to save the candles it dropped.
RequestedStillDirty(k, n, shape, saved, covered) ==
    LET changed == k.chartWanted /\ k.shape # shape
        kept == IF changed THEN PersistCandleCache(k, saved) ELSE k
        on == IF kept.root # n THEN Subscribe(kept, n, saved, covered) ELSE kept
        asked == [on EXCEPT !.chartWanted = TRUE, !.shape = shape]
    IN  StartChartBackfill(IF changed THEN [asked EXCEPT !.candles = {}, !.complete = FALSE]
                           ELSE asked, covered)

RequestChartData(k, n, shape, saved, covered) ==
    LET changed == k.chartWanted /\ k.shape # shape
        kept == IF changed THEN PersistCandleCache(k, saved) ELSE k
        on == IF kept.root # n THEN Subscribe(kept, n, saved, covered) ELSE kept
        asked == [on EXCEPT !.chartWanted = TRUE, !.shape = shape]
        cleared == IF changed
                   THEN [asked EXCEPT !.candles = {}, !.dirty = FALSE, !.complete = FALSE]
                   ELSE asked
    IN  StartChartBackfill(cleared, covered)

HandleFrontMonth(k, r, ok, covered) ==
    IF ok
    THEN Attach([k EXCEPT !.resolving = FALSE, !.symbol = FrontMonth[r]], covered)
    ELSE [k EXCEPT !.resolving = FALSE]

\* Faulty variant: leaves subscribing to the windows.
ConnectedOnly(k, covered) == [k EXCEPT !.connected = TRUE, !.failed = FALSE]

HandleConnected(k, covered) ==
    ResolvePendingSymbol([k EXCEPT !.connected = TRUE, !.failed = FALSE], covered)

HandleError(k) ==
    [k EXCEPT !.connected = FALSE, !.failed = TRUE, !.building = FALSE, !.started = FALSE]

HandleStatus(k) == [k EXCEPT !.failed = FALSE]

\* A trade, quote, book or bar that is taken shows the connection as up.
Shown(k) == [k EXCEPT !.connected = TRUE, !.failed = FALSE]

-----------------------------------------------------------------------------
(* Calls of the main window *)

\* Nothing the gateway held for the ticker connection is left.
Unlinked(k, link) ==
    [k EXCEPT !.link = link, !.streamed = {}, !.lookups = [r \in RemoteRoots |-> 0]]

\* A connection that fails inside the call is reported before started is set;
\* refused says that the call itself found the settings wanting.
ConnectAdapter(fails, refused) ==
    /\ m.link = "Off"
    /\ refused => fails
    /\ LET off == [m EXCEPT !.connected = FALSE, !.failed = FALSE, !.building = FALSE,
                            !.started = FALSE]
           tried == IF fails THEN HandleError([off EXCEPT !.link = "Failed"])
                    ELSE [off EXCEPT !.link = "Connecting"]
       IN  m' = [tried EXCEPT !.started = ~refused]
    /\ UNCHANGED charts

DisconnectAdapter(saved) ==
    /\ m.link \notin {"Off", "Closed"}
    /\ m' = [Unlinked(PersistCandleCache(m, saved), "Closed") EXCEPT
                !.history = "off", !.replays = [key \in CacheKeys |-> 0],
                !.backfilling = FALSE, !.connected = FALSE, !.failed = FALSE,
                !.building = FALSE, !.started = FALSE]
    /\ UNCHANGED charts

\* Another adapter over the same files: a new connection, or the program is
\* started again after an exit or a crash.
Restart ==
    /\ m.link # "Off"
    /\ m' = NewAdapter(m.disk)
    /\ charts' = [n \in ChartNames |-> None]

-----------------------------------------------------------------------------
(* Calls of the windows that share the adapter *)

\* A window may call at any time while there is an adapter that was connected;
\* Bounded keeps what the gateway owes within MaxOwed.
MayCall == m.link \notin {"Off", "Closed"}
Bounded == Owed(m) < MaxOwed

\* ChartWindow::connectMarketData
OpenChart(n, saved, covered) ==
    /\ MayCall /\ Bounded
    /\ charts[n] = None
    /\ m' = RequestChartData(Subscribe(m, n, saved, covered), n, DefaultShape, saved, covered)
    /\ charts' = [charts EXCEPT ![n] = DefaultShape]

\* ChartWindow::handleTimeframeChanged
ChooseTimeframe(n, shape, saved, covered) ==
    /\ MayCall /\ Bounded
    /\ charts[n] \notin {None, shape}
    /\ m' = RequestChartData(m, n, shape, saved, covered)
    /\ charts' = [charts EXCEPT ![n] = shape]

\* DomWindow::connectMarketData
OpenDom(n, saved, covered) ==
    /\ MayCall /\ Bounded
    /\ m' = Subscribe(m, n, saved, covered)
    /\ UNCHANGED charts

-----------------------------------------------------------------------------
(* Callbacks: the ticker session *)

\* The login: the adapter resubscribes or looks up, then the client sends the
\* subscription it was given last.
Connected(covered) ==
    /\ m.link = "Connecting"
    /\ Bounded
    /\ LET told == HandleConnected([m EXCEPT !.link = "Live"], covered)
       IN  m' = [told EXCEPT !.streamed = @ \cup ({told.wanted} \ {None})]
    /\ UNCHANGED charts

\* The session is lost; the client only publishes that it will reconnect.
Lost ==
    /\ m.link = "Live"
    /\ m' = HandleStatus(Unlinked(m, "Lost"))
    /\ UNCHANGED charts

Reconnecting ==
    /\ m.link = "Lost"
    /\ m' = HandleStatus([m EXCEPT !.link = "Connecting"])
    /\ UNCHANGED charts

Error ==
    /\ m.link \in {"Connecting", "Live"}
    /\ m' = HandleError(Unlinked(m, "Failed"))
    /\ UNCHANGED charts

\* The answer to a lookup of r, whatever is selected by now.
FrontMonthAnswer(r, ok, covered) ==
    /\ m.link = "Live" /\ m.lookups[r] > 0
    /\ m' = HandleFrontMonth([m EXCEPT !.lookups[r] = @ - 1], r, ok, covered)
    /\ UNCHANGED charts

-----------------------------------------------------------------------------
(* Callbacks: live data.  Trades and quotes of another instrument are        *)
(* dropped; a book carries no instrument.                                    *)

\* While bars are downloaded a trade does not extend candles that end before
\* the present minute.
Trade(covered, saved) ==
    /\ m.link = "Live" /\ m.symbol \in m.streamed
    /\ LET shown == Shown(m)
       IN  m' = IF shown.building /\ shown.candles # {} /\ ~covered
                THEN shown
                ELSE PersistCandleCache(AddCandle(shown, Key(m)), saved)
    /\ UNCHANGED charts

Bbo ==
    /\ m.link = "Live" /\ m.symbol \in m.streamed
    /\ m' = [Shown(m) EXCEPT !.dom = @ \cup {m.symbol}]
    /\ UNCHANGED charts

OrderBook(contract) ==
    /\ m.link = "Live" /\ contract \in m.streamed
    /\ m' = [Shown(m) EXCEPT !.dom = {contract}]
    /\ UNCHANGED charts

-----------------------------------------------------------------------------
(* Callbacks: history *)

HistoryOff(k) == [k EXCEPT !.history = "off", !.replays = [key \in CacheKeys |-> 0]]

\* The history plant logged in: the pending request is sent.
HistoryLoggedIn ==
    /\ m.history = "opening"
    /\ m' = HandleStatus([m EXCEPT !.history = "live", !.replays[m.pending] = @ + 1,
                                   !.counted = FALSE, !.backfilling = TRUE])
    /\ UNCHANGED charts

\* Bars are of a contract: a replay of a root, which the adapter asks for after
\* a failed lookup, yields none.
HistoricalBar(key) ==
    /\ m.history = "live" /\ m.replays[key] > 0
    /\ m' = AddCandle([Shown(m) EXCEPT !.building = TRUE, !.counted = TRUE], key)
    /\ UNCHANGED charts

EndOfReplay(key, saved) ==
    /\ m.history = "live" /\ m.replays[key] > 0
    /\ m' = HandleHistoryFinished([m EXCEPT !.replays[key] = @ - 1], TRUE, saved)
    /\ UNCHANGED charts

\* No bar for a while: whatever arrived is taken for the answer.
HistoryTimeout(saved) ==
    /\ m.history = "live" /\ m.backfilling
    /\ m' = HandleHistoryFinished(m, m.counted, saved)
    /\ UNCHANGED charts

\* Any error of the history plant or its socket.
HistoryFailed ==
    /\ m.history # "off"
    /\ m' = HandleHistoryFinished(HistoryOff(m), FALSE, FALSE)
    /\ UNCHANGED charts

\* The gateway closes it: not reported for a connection that was never used.
HistoryClosed ==
    /\ m.history \in {"live", "orphan"}
    /\ m' = IF m.history = "orphan" THEN HistoryOff(m)
            ELSE HandleHistoryFinished(HistoryOff(m), FALSE, FALSE)
    /\ UNCHANGED charts

-----------------------------------------------------------------------------
Init ==
    /\ m = NewAdapter([key \in CacheKeys |-> {}])
    /\ charts = [n \in ChartNames |-> None]

MainWindow ==
    \/ \E fails, refused \in BOOLEAN : ConnectAdapter(fails, refused)
    \/ \E saved \in BOOLEAN : DisconnectAdapter(saved)
    \/ Restart

Windows ==
    \E saved, covered \in BOOLEAN :
        \/ \E n \in ChartNames : OpenChart(n, saved, covered)
        \/ \E n \in Rescaled, shape \in Shapes : ChooseTimeframe(n, shape, saved, covered)
        \/ \E n \in DomNames : OpenDom(n, saved, covered)

Ticker ==
    \/ \E covered \in BOOLEAN : Connected(covered)
    \/ Lost \/ Reconnecting \/ Error
    \/ \E r \in RemoteRoots, ok, covered \in BOOLEAN : FrontMonthAnswer(r, ok, covered)
    \/ \E covered, saved \in BOOLEAN : Trade(covered, saved)
    \/ Bbo
    \/ \E contract \in Contracts : OrderBook(contract)

History ==
    \/ HistoryLoggedIn
    \/ \E key \in Keys : HistoricalBar(key)
    \/ \E key \in CacheKeys, saved \in BOOLEAN : EndOfReplay(key, saved)
    \/ \E saved \in BOOLEAN : HistoryTimeout(saved)
    \/ HistoryFailed \/ HistoryClosed

Next == MainWindow \/ Windows \/ Ticker \/ History

Spec == Init /\ [][Next]_vars

(***************************************************************************)
(* Fairness: a history connection that is opened logs in or fails, and a   *)
(* request that is not finished is finished by the gateway, by the         *)
(* completion timer or with the connection (BackfillReported of            *)
(* RithmicProtocolClient); a replay whose bars go on after the timer ends. *)
(***************************************************************************)
HistoryLoginEnds == HistoryLoggedIn \/ (m.history = "opening" /\ HistoryFailed)

ReplayEnds(key) ==
    /\ m.replays[key] > 0
    /\ (\E saved \in BOOLEAN : EndOfReplay(key, saved)) \/ HistoryFailed \/ HistoryClosed

Fairness ==
    /\ SF_vars(HistoryLoginEnds)
    /\ \A key \in CacheKeys : SF_vars(ReplayEnds(key))

FairSpec == Spec /\ Fairness

-----------------------------------------------------------------------------
(* What holds *)

TypeOK ==
    /\ m \in Adapter
    /\ charts \in [ChartNames -> Shapes \cup {None}]

(***************************************************************************)
(* The snapshot says that chart data is being built only while a report is *)
(* still owed that will end it, through timeouts, failures, switches of    *)
(* the instrument, reconnects and late bars.                               *)
(***************************************************************************)
BuildingIsServed ==
    m.building => \/ m.history = "opening"
                  \/ m.history = "live" /\ \E key \in CacheKeys : m.replays[key] > 0

(***************************************************************************)
(* Over a live session the contract the adapter stands for is streamed,    *)
(* whether it was subscribed now, looked up or kept over a reconnect, no   *)
(* root it can resolve itself is left unresolved, and the snapshot says    *)
(* that the feed is connected.                                             *)
(***************************************************************************)
LiveIsAttached ==
    m.link = "Live" => /\ m.symbol \in Contracts \cup LocalRoots => m.symbol \in m.streamed
                       /\ m.connected /\ ~m.failed

(***************************************************************************)
(* History is downloaded for charts only: opening a DOM, or coming back    *)
(* after a reconnect without a chart, asks for no bars.                    *)
(***************************************************************************)
Asks(k, l) ==
    \/ k.history # "opening" /\ l.history = "opening"
    \/ k.pending # l.pending
    \/ k.history = "live" /\ \E key \in CacheKeys : l.replays[key] > k.replays[key]

NoUnaskedHistory == [][m.link # "Off" /\ m'.link # "Off" /\ Asks(m, m') => m'.chartWanted]_vars

(***************************************************************************)
(* The end of a download is shown: the chart stops saying that it loads.   *)
(***************************************************************************)
BuildingEnds == m.building ~> ~m.building

(***************************************************************************)
(* The adapter uses the ticker session as TickerSession lets it: it wants  *)
(* an instrument only of a live session, and each adapter has one session. *)
(***************************************************************************)
Session == INSTANCE TickerSession
               WITH Instruments <- Contracts, phase <- m.link, wanted <- m.wanted,
                    streamed <- m.streamed

UsesSession == Session!Init /\ [][m'.link = "Off" \/ Session!Next]_<<m.link, m.wanted, m.streamed>>

-----------------------------------------------------------------------------
(* What the documents say and the code does not do *)

(***************************************************************************)
(* While the adapter says that it looks a contract up over a live session, *)
(* the gateway owes the answer.                                            *)
(***************************************************************************)
LookupIsServed == m.resolving /\ m.link = "Live" => m.lookups[m.root] > 0

(***************************************************************************)
(* The adapter stands for the instrument selected last, or for its front   *)
(* month, and the order book it shows is the book of that contract.        *)
(***************************************************************************)
SelectionIsKept ==
    /\ m.symbol \in {m.root} \cup {FrontMonth[r] : r \in Roots \cap {m.root}}
    /\ m.dom \subseteq {m.symbol}

=============================================================================
