# Tick Vector: formal models

TLA+ models of Tick Vector, a desktop futures-charting program (C++/Qt): how it
connects to Rithmic, subscribes instruments, downloads history and keeps it, what
its charts, ladders and dialogs show when answers come late, twice, in another
order or not at all, and what a crash leaves of its profiles. The models are checked
with TLC. The protocol client, its refinement of an abstract session, the adapter,
its candles and big trades, the main window, the chart window and the store of
connections are also the subject of proofs that TLAPS checks for all parameters.

All code runs on one thread, the Qt event loop. Concurrency is not of threads
but of *events*: two WebSockets, three timers, queued calls, modal dialogs that
run a loop of their own, several windows that share one adapter, and Qt signals
that re-enter a handler from inside the call it has just made. That is what the
models are about.

## The system

| Part | State it keeps | Operations | Talks to |
|---|---|---|---|
| `RithmicProtocolClient` | stage of the ticker connection, stage of the history connection, two sockets, heartbeat / reconnect / completion timer, pending subscription, pending history request | connect, disconnect, subscribe, request bars, request front month; socket, timer and payload handlers | gateway (two WebSockets); adapter by callbacks, called synchronously |
| `RithmicMarketDataAdapter` | selected instrument and its front month, active chart request, candle cache and its dirty/complete flags, the snapshot (connection and download fields, candles, profile, big trades, DOM) | connect, disconnect, subscribe, requestChartData, nine callbacks | client below it; all windows above it by snapshot handlers |
| `ChartDataCache` | one JSON file per exchange, symbol, bar length and look-back | load, save | file system |
| `SimulatedMarketDataAdapter`, factory | a random walk on a timer | as the other adapter | windows |
| `MainWindow` | connections, the selected one, the adapter, an attempt number, the state of the status pill, open windows | select, begin, disconnect, edit connections, open chart / DOM | stores, adapter, windows |
| `ChartWindow`, `DomWindow` | a pending snapshot, view range, tools, the loading overlay | subscribe, choose bar length, draw | the shared adapter (raw pointer) |
| `FeedSettingsDialog`, `ConnectionTestDialog`, `SelectInstrumentDialog` | a list of connections, its current row and the form; a test adapter and a 15 s timer | add, remove, select, save, test | `MainWindow` |
| `FeedConnectionStore`, `AccountStore`, `MacKeychain` | a plaintext JSON profile, a keychain backup | load, save | file system, keychain |

What is hard in each, and what makes it correct:

* **Client.** `abort()` emits `disconnected()` before it returns, so
  `openSocket`, `fail`, `openHistorySocket` and `failHistory` re-enter the
  disconnect handlers; one heartbeat timer serves two plants; a frame may hold
  several payloads, the first of which makes the client cut the connection the
  rest came over; a backfill may be asked for in any stage. Correct when flags,
  stages, timers and sockets agree with the session the gateway holds, every
  backfill is reported, a lost session comes back or is reported, and a
  disconnect is final.
* **Adapter.** Instruments change while lookups, replays and subscriptions of
  the one before are still being answered; one adapter serves charts and DOMs
  that each believe it is theirs; the snapshot's flags are written by eleven
  handlers; the candle cache is keyed by what is selected *when the data
  arrives*. Correct when a live session streams the selected contract, the
  download shown is one that will be reported, bars are asked for by charts
  only, and a series holds its own instrument's candles; the last it does not always,
  and the question is then how it comes to hold others and where they go.
* **Candles, profile, big trades.** Made of live trades and of replayed bars of the
  same minutes at once, restored from memory or from a file that may be old, missing
  or of another instrument, cut to a window that moves. Correct when a series is in
  order with one candle for a bar, a candle keeps the bar replayed last and the trades
  since, what a download was begun for is shown or on its way, a full profile keeps the
  right prices, and late trades are counted.
* **Main window.** Queued snapshots of an adapter that is gone, modal loops, and
  edits of the profile that is connected. Correct when the adapter is that of the
  selected profile and what is shown belongs to the present attempt.
* **Chart and DOM window.** Snapshots drawn later than they come, while the user
  drags the view of the series before. Correct when the last snapshot is drawn, the
  view lies on the data, and no snapshot takes a view from the user.
* **Dialogs.** A list widget that reports "no row" while it is rebuilt and a form
  that is saved by that report; a test whose timeout races its answer.
* **Stores.** A crash between the file and the Keychain, two copies of the program,
  a file that cannot be parsed and is then overwritten.

`PROJECT.json` lists the hazards line by line, with the properties that cover
each one or why none does.

## Modules

| Module | What it is | Proofs |
|---|---|---|
| `TickerSession` | abstract: the life of one ticker session, without sockets (Off, Connecting, Live, Lost, Failed, Closed), the instrument wanted and those streamed | |
| `RithmicProtocolClient` | the client: both plants, all handlers, timers and payloads | `RithmicProtocolClientProofs` |
| `RithmicMarketDataAdapter` | the adapter over a ticker session and a history plant as the client presents them, with its windows | `RithmicMarketDataAdapterProofs` |
| `AdapterSeries` | the same, with a record of the series that took another's candles | `RithmicMarketDataAdapterProofs` |
| `CandleSeries` | the candles of one instrument: trades, bars, memory and file | `CandleSeriesProofs` |
| `DomWindow` | volume profile, value area, big trades, and the ladder that shows them | `DomWindowProofs` |
| `MainWindow` | the main window over an adapter: selection, profiles, queued snapshots, status pill, menu, dialogs | `MainWindowProofs` |
| `ChartWindow` | the chart: queue of snapshots, render timer, bar lengths, view | `ChartWindowProofs` |
| `FeedSettingsDialog` | the settings dialog, with the test dialog it opens | `FeedSettingsDialogProofs` |
| `ConnectionTestDialog` | the test dialog and its adapter, instantiated by the settings dialog | `FeedSettingsDialogProofs` |
| `ProfileRegister` | abstract: what the store promises, one register | |
| `FeedConnectionStore` | the profile file, its Keychain copy, and the copies of the program that use them | `FeedConnectionStoreProofs` |

Each `MC` module instantiates the module in its name for TLC.

`TickerSession` ties client and adapter together: the client is checked, and but for
liveness proved, to *implement* it (`ImplementsSession`, a refinement by the operator
`Phase`), and the adapter's steps are checked and proved to be ones it *allows*
(`UsesSession`, with the adapter's `link`, `wanted` and `streamed` for its
variables). So the adapter is modelled over the session and not over sockets, and
what it assumes of the session is what the client was shown to give. `MainWindow` and
`ConnectionTestDialog` are over the same phases. `ProfileRegister` does for the store
what `TickerSession` does for the client.

### `RithmicProtocolClient`

`c` is the object: the fields `stage` to `pendingSubscription` and
`historyStage` to `barsLoaded` are its members (a timer is whether it is
active), `socket` and `historySocket` are the states of its `QWebSocket`s,
`wire`, `historyWire`, `streamed` and `replays` what the gateway holds and owes
for the present connection. `command`, `told` and `unreported` record the
adapter's last command, whether `errorHandler_` was called since, and whether a
backfill is still to be reported. `frame` and `hframe` say that a frame is being
decoded and which phase of a connection it came from.

A handler of the class is an operator from the record before to the record
after, of the same name (`OnSocketDisconnected`, `Fail`, `OpenHistorySocket`,
...). A call is a composition, and so is a re-entry: `Abort` applies
`OnSocketDisconnected` inside whatever called it. An action is one event: a call
of the adapter, a timer, a socket signal, one payload of a frame. While a frame
is decoded only its payloads and its end are enabled, which is what the loop
over the frame does. Payload contents are abstracted to what the code branches
on. The request for a front month changes no state of the client and is part of
the adapter's module.

`HangUps` says whether the gateway may close, without an error, a ticker
connection that is not logged in. `Next` is the same for either value but for
that one step.

### `RithmicMarketDataAdapter`

The record `m` is the adapter, its cache files and the client below it. A candle
is the key it belongs to, contract and bar length, and a series is the set of
those keys: `candles` is the one on the chart, `memory` is `candleCache_`, `disk`
the files. That makes "whose candles are these" a question of sets, and leaves
out prices and times, which `CandleSeries` and `DomWindow` have; `covered` stands for `candlesCoverCurrentTime`, `saved` for
a save that is due and succeeds. `charts` is the bar length each open chart shows.

A window does not wait for an answer: its calls come at any time. `Rescaled` are the
charts whose bar length the user changes. Instruments are `nq`, whose front month the
gateway looks up, `gc`, which `localFrontMonthContract` knows, and their contracts `nqz`
and `gcz`. The exchange is part of an instrument; charts always ask for ten days and
allow the cache, so `lookbackDays` and `allowCached` are not parameters.

The client below is coarser here than in its own module in one way: a history
connection is off, opening, live or orphaned. A request while it is opening
aborts the attempt, is reported failed before it returns and leaves an orphan, a
connection nobody logs in, as the client's `RequestHistoricalBars` does. The end of a replay,
the completion timer, an error and a close report as the client's handlers do. A
frame that holds a refusal and after it a bar of the same connection is not
modelled at this level.

### `AdapterSeries`

An adapter files what arrives under what is selected when it arrives, so a series may
come to hold another's candles. `AdapterSeries` has the actions of
`RithmicMarketDataAdapter` and one history variable, `spoiled`: the keys whose series
was shown when that happened. Three actions add to it, and they are the three ways the
code has: `LateBar`, a bar asked for before another instrument or bar length was chosen
(`handleHistoricalBar` does not look whose it is); `Resolve`, a front month that comes
while candles of another instrument are shown, left by late bars or by the answer to
another lookup (`handleFrontMonth` changes the contract and not the candles);
`RescaleUnasked`, a bar length chosen after a DOM's `subscribe` cleared
`chartDataRequested_`, without which `requestChartData` does not see a change. Every
other action leaves `spoiled` alone, so `SeriesArePure` says that no other call, save,
restore or restart mixes a series, and that a mixed one stays where it is.

### `CandleSeries`

One instrument and one bar length of the adapter, with times and volumes. A time is
a bar; a candle is its time and its lots. `candles` is the series on the chart,
`memory` its entry in `candleCache_`, `disk` the file, `refreshed`, `dirty` and
`complete` their flags. The market is part of the module: `traded` is what was really
traded, `wire` the trades the ticker connection has yet to deliver. The bars a
download returns are fixed when it is asked for, as a replay's are, and come in their
order, so trades made meanwhile are only on the wire. `answer` is a sequence with the
bars to come of each replay that has not ended: a second one may be asked for while the
first runs, by a reconnect or by leaving the instrument and coming back, and the client
does not know whose marker ends which. A download is reported finished by a marker
(`EndOfReplay`), by the completion timer (`HistoryTimeout`) whatever is outstanding, or
by a lost connection (`FailHistory`); bars that are still on the connection after the
timer come later, are merged, and set `building` again, as in the code. `chart` is
`"open"`, `"away"` after another instrument was chosen (`Leave`; trades still come, since
nothing is unsubscribed, and bars of this instrument join the other's candles, which is
`AdapterSeries`'s subject), or `"unasked"`.

`Merge`, `Upsert`, `Trim`, `GapBars` and `CoversNow` are the algorithms; `HandleTrade`,
`HandleHistoricalBar`, `HandleHistoryFinished`, `Leave`, `Reconnect`, `Open` and
`Restart` call them where the adapter does. `gap` and `told` are history variables: the
bars with trades that downloads were begun for, and for each bar the lots of the bar
replayed last and of the trades taken after it. A save may fail or be put off, and another
instrument may have overwritten the file (`OtherSaves`). The sort and the removal of
duplicates that `ChartDataCache` does at every save find nothing to do, which is a
part of `SeriesIsSound`.

### `DomWindow`

What the adapter makes of the same trades and bars besides candles. `profile` is a
function from prices to volumes; `ValueArea` is the loop of `recomputeProfileFlags`
as a recursive function; `buckets` is `bigTradeBuckets_`. `HandleTrade` may be late by
up to `Lag` buckets. That a trade makes no candle while a download has not reached the
present, and then no big trade either, is a choice (`candled`). `tape` and `struck`
record what was really traded. The window is its pending snapshot, whether what it
draws is the adapter's present one, and how far it is scrolled; `Rows` is `buildRows`.
Of the DOM levels only whether they give a middle price is kept.

### `MainWindow`

`w` is the window: `selected`, `active`, `fingerprint`, `pill` and `attempt` are
its members, `profiles` what `connections_` holds under each identity (nothing,
a profile that lacks something, or one of a few complete ones; two of them that
differ are what `connectionFingerprint` tells apart), `enabled` whether the
actions of the New menu are. The adapter is a session of `TickerSession` and the
two flags of its snapshot the window reads; every change of it appends to
`posted`, the calls `QMetaObject::invokeMethod` has queued, each with the attempt
and the connection its handler captured. `Deliver` runs the first of them. A
modal dialog is a state: the user's other actions wait for it, deliveries and the
adapter do not. Members of the class are operators of the same name, as in the
client. `MaxAttempts` bounds `connectionAttempt_`, and with it how often a user
switches; `MaxPosted` how far the event loop lags behind: a switch posts up to
three snapshots, and two older ones may still be on the way.

That a lost session keeps `connected` set, and that the history connection may
clear a failure or show the feed as connected again, is taken from the adapter
(`Lose`, `LateHistory`). Whether a saved connection is a simulated one is part of
its profile.

### `ChartWindow`

Times are minutes, and a candle is its range of prices, so a series is a function from
times and the fingerprint of a series is the series itself. `QueueSnapshot`,
`FlushPendingSnapshot` and `RenderSnapshot` are the way a snapshot takes; every way the
user moves the view (wheel, drag of the chart, drag of the price scale, double click,
bar length) is an action that ends in `SetTimeRange`, as in the code: `Sized` keeps the
range between its closest and widest, `Placed` lays it on the data. `painted` is what
`candleSeries_` holds, `scale` the price range.

The adapter is external here: it emits for each request before the request returns, and
from then on only series of the bars asked for last, by this window or by another one
(`OtherWindow`, since windows share the adapter). The assumptions relate the sizes as
the code's constants do (the closest view is 5 bars and 5 minutes, the room right of the
last candle 24 bars).

### `FeedSettingsDialog` and `ConnectionTestDialog`

`d` is the settings dialog: the connections, `selectedIndex_`, what the list widget shows
and which of its rows is current, what the fields show. A form is a name and the rest of
the fields taken together (`settings`), one value of which lacks a field (`Fresh`) and
one of which changes by being shown (`Legacy`). `SetCurrentRow` calls `SelectConnection`
when the row changes, and `RebuildConnectionList` begins by clearing the list, which
reports that no row is current: that call inside the call is where a form is saved into
another connection. An added or removed connection passes its form on in this way;
`spoiled` names those and `TypingIsKept` is about all others. The model starts with no
connection or with two, saved earlier.

`test` is the test dialog: the profile under test, its glyph, its adapter's phase and
flag, the snapshots posted to it and the timer of 15 seconds. While it is open only it
takes input.

### `FeedConnectionStore`

`file` and `backup` are the two copies, `connections[i]` what instance `i` of the
program has in memory, `step[i]` how far its save is: `QSaveFile` commits or fails, then
the Keychain item is updated or, if there was none, added. Between any two of those calls
the instance may be killed (`Stop`), another may save, and the file may be deleted or
damaged. `missed` remembers that an update of the Keychain failed, was cut off or
overlapped another, which is when the copies may differ.

## Runs

| Run | Shows |
|---|---|
| `client_safety` | types; flags, timers, stages and sockets agree (`SessionAgreed`, `HistoryAgreed`, `HeartbeatHasSession`, `ReconnectIsAlone`, `LoginIsValidated`); a backfill is always being served (`BackfillNeverForgotten`); a disconnect is final (`DisconnectIsFinal`) |
| `client_progress` | with a gateway that does not hang up in a handshake backfills are reported (`BackfillReported`), a lost session is resolved (`LostSessionResolved`), and the ticker side implements `TickerSession` with its liveness |
| `adapter_safety` | with windows that ask at any time: types; the chart says that it loads only while a report is owed (`BuildingIsServed`), and not for ever (`BuildingEnds`); a live session streams the selected contract (`LiveIsAttached`); only charts ask for bars (`NoUnaskedHistory`); the session is used as `TickerSession` allows |
| `adapter_series` | with windows that call at any time, a chart that changes its bar length and DOMs, a series takes the candles of another instrument or bar length in the three ways of `AdapterSeries` only, and a mixed one does not spread (`SeriesArePure`); candles still to be saved are those remembered (`DirtyIsRemembered`) |
| `adapter_late_front_month` | *violation*: a late lookup answer replaces the instrument selected since |
| `candle_series` | candles are in order, one for a bar, and those remembered are those shown (`SeriesIsSound`); a candle has at least the bar replayed last for it and the trades taken since (`BarsStay`); what a download was begun for is shown or on its way, through other replays, the completion timer and reconnects, until the connection fails or the instrument is left (`GapIsCovered`) |
| `dom_window` | a full profile keeps its highest prices with all their volume and a tight value area (`ProfileIsSound`); big trades have all their lots (`BigTradesAreTrue`); the ladder ends up with what the adapter has (`LadderIsCurrent`) |
| `main_window` | the adapter is that of the selected connection, as it is saved now (`AdapterIsSelected`); no snapshot of an earlier attempt shows a session or enables the menu (`ConnectedIsEarned`); with everything delivered the pill says what the adapter said last, or why there is none (`PillAgrees`); "Connecting" ends (`ConnectingEnds`) |
| `main_window_menu` | *violation*: the pill shows a live session and the chart menu stays disabled |
| `chart_window` | the view lies on the data, shows its newest candle while it follows, and paints and scales what it shows (`ViewIsSound`); its bars are those chosen (`TimeframeAgrees`); no snapshot is left undrawn (`PendingIsRendered`) and none moves a view the user chose (`SnapshotKeepsView`) |
| `feed_settings` | list, index and form agree (`RowIsSelected`); what was typed is kept (`TypingIsKept`); a test is of what is shown (`TestedIsShown`), succeeds only for a session (`GlyphIsEarned`) and ends (`TestEnds`) |
| `profile_store` | file and Keychain hold lists that were saved whole, and the same one unless something interfered (`BackupIsSound`); the store is a register (`ImplementsRegister`) |

Each violation states what a document of the repository says and what the code
does; the quotes are in `PROJECT.json` under `findings`. Every property of a passing
run has a faulty variant of a handler in the module, next to the handler, that
breaks it.

### Bounds

* Client: two instruments are enough for every confusion of "this one" and "the one
  before"; the code compares instruments for equality only, so the safety run uses
  symmetry. `MaxReplays = 2` lets two replays overlap, which is when an end marker is
  taken for the wrong request; `MaxBars = 2` tells none from some and lets the counter
  move again.
* Adapter: `MaxOwed = 2` lookups and replays, what it takes to answer one request with
  another's data. The safety run has one bar length and a
  directory that cannot be written; the series run has two, and one that can.
* Series of the adapter: a root the gateway resolves and one the adapter does, two bar
  lengths for the chart of the one, DOMs of both. The view leaves out what no action
  reads. Behaviours are followed until a series is mixed, and on from there until a file
  is written or a second series is mixed (`Followed`): that is far enough to see a mixed
  series shown, remembered, left, returned to and saved. What comes after is
  covered by the proof, which has no bounds.
* Candles: five bars of time over a look-back of two, so a series is trimmed and
  outlives its window; three trades, one on the wire; two replays at once, what it takes
  for a marker to end the wrong one; an overlap of one bar; freshness of two, less than
  the market's length, so restored series are both fresh and stale.
* Big trades and profile: four prices over a profile of three, so one is dropped; a
  list of one big trade of two lots; two buckets, with a retention of one and trades
  late by one. In so short a time only the faulty variant prunes a bucket that is
  still used; that the code never does is what the proof adds.
* Main window: `MaxAttempts` bounds `connectionAttempt_`, and with it how often a user
  switches; `MaxPosted` how far the event loop lags behind.
* Chart: bars of one and of two minutes and six snapshots (nothing, a few bars, a
  history with a candle that cannot be rendered and a new price of the last, a gap, the
  same for the other bars), a closest view of 2 bars, a widest of 5 minutes or 4 bars,
  at most 3 candles painted. That reaches every case of `Sized` and `Placed` and views
  that hold more candles than are painted.
* Settings: three identities, a name typed, emptied and defaulted, at most two
  snapshots on the way to the test. Store: two copies of the program, three lists, with
  the Keychain; without it the store is one step, and the proof covers both.

A closed client, a closed adapter and an accepted dialog rightly stop, and bounds stop
the main window, so deadlock is not checked in those runs. It is in `candle_series`,
`dom_window`, `chart_window` and `profile_store`.

### Restrictions, and what the models show without them

These are behaviours of the code that the modules have and the properties except, or
that a run leaves out by a constant; no document of the repository says otherwise, so
they are not runs of their own.

* A gateway that closes the connection without an error inside a handshake leaves the
  client waiting for nothing: `TickerNeverStalls` fails with `HangUps = TRUE`, and
  `client_progress` has `HangUps = FALSE`.
* A second backfill during the history login leaves an open connection that nobody logs
  in (`OpenHistoryIsInUse`).
* A session lost during a front-month lookup is not attached again (`LookupIsServed`).
* Bars of the instrument before arrive after a switch and are shown, remembered and
  saved as the new one's; with a DOM on the chart's instrument the adapter forgets that
  a chart asked (`chartDataRequested_`), and a change of the bar length then keeps live
  candles of the old one; a front month may be resolved under candles of another
  instrument. The model has all three, `spoiled` records them, and `SeriesArePure`
  excepts the keys recorded: what it says is that there is no fourth way and that mixed
  candles do not travel.
* A status of the history connection after the ticker session failed takes the failure
  back, and the pill says "Connecting" of a session nobody sets up: the exception in
  `ConnectingEnds`.
* A remembered series counts as fresh after one live trade and is then not downloaded,
  so it may have a hole. `GapIsCovered` is about downloads that were begun.
* A download that the completion timer ends with some bars is marked complete and saved
  although others are outstanding, and so is one that is ended by the marker of another
  replay; if the connection fails before they come, the hole stays, in the file too.
  `GapIsCovered` therefore says "shown or on its way", and nothing about a series that
  is complete by its flag.
* A replayed bar replaces the candle of its time whatever live trades that had: lots
  that were traded after the bar was made and delivered before it are lost.
  `BarsStay` counts from the bar replayed last.
* `CandleSeries` sends a request when it is made; that one may wait for the history
  connection, or be reported failed before it is sent, is in
  `RithmicMarketDataAdapter`.
* Bars of the overlap are added to the volume profile again: `ProfileIsSound` says at
  least, not exactly.
* For bars of a day the room right of the last candle (24 bars) is wider than the
  widest view, and a chart that follows its data may not show it: `LastIsShown` is about
  bars with which the room fits (`RoomFits`), and about charts whose bars no other
  window changed.
* Two charts share an adapter, and one that changes its bars changes the other's:
  `TimeframeAgrees` holds until then (`foreign`).
* Adding or removing a connection saves the form shown into the one that takes its
  place: `spoiled`.
* `ChartWindow::flushPendingSnapshot` starts again with a delay of 0 when the next
  snapshot came while it drew, without the throttle; the model has no delays.

### Fairness

`RithmicProtocolClient`: a frame being decoded ends (weak: nothing else is
enabled); a timer that stays armed fires, a connection attempt or a close of the
transport ends, and the gateway answers a request or its connection ends (strong:
frames of market data disable these events while they are decoded, again and
again, and the event loop is fair between them). Nothing is assumed of the
adapter, of a session ending or of a replay yielding bars: what ends a silent
replay is the completion timer.

`RithmicMarketDataAdapter`: a history connection that is being opened logs in or
fails, and a replay that is owed ends, with its marker or with the connection.
The first is the client's fairness, the second holds for replays that are still
sending bars; those of silent replays end by the timer, whose report does not
need the marker.

`TickerSession!Spec`: a retry happens, a set-up ends. The client is checked to
imply both, with a gateway that does not hang up in a handshake. `MainWindow`
assumes them of the session it is over, and that the event loop delivers what was
posted; strong fairness, because the model's bounded queue may hold the adapter up
for a moment. Nothing is assumed of the user.

`FeedSettingsDialog`: the event loop delivers what was posted to the test and runs its
posted start; weak, because nothing takes either back but closing the dialog. Nothing is
assumed of the gateway: that `TestEnds` holds is due to the first status.

## Proofs

Every proof module proves an inductive invariant as `Invariance`, from the assumptions
its model states by name, for every value of the constants: any instruments, lists and
profiles, any lengths and limits. None of the properties is inductive alone; what each
invariant adds is the reason the property holds.

| Module | Theorems (properties) |
|---|---|
| `RithmicProtocolClientProofs` | `TypesCorrect`, `SessionsAgree` (`SessionAgreed`), `HeartbeatsHaveSessions`, `ReconnectsAreAlone`, `BackfillsAreServed` (`BackfillNeverForgotten`), `HistoriesAgree`, `LoginsAreValidated`, `DisconnectsAreFinal`: all of `client_safety`; `SessionIsImplemented` (the safety part of `ImplementsSession`) |
| `RithmicMarketDataAdapterProofs` | `TypesHold`, `DownloadsAreServed` (`BuildingIsServed`), `LiveIsAlwaysAttached`, `HistoryIsAsked` (`NoUnaskedHistory`), `SessionIsUsed` (`UsesSession`); of `AdapterSeries`, without further assumptions, `SeriesAreAlwaysPure`, `DirtyIsAlwaysRemembered`: all of `adapter_series` |
| `CandleSeriesProofs` | `SeriesAreSound`, `BarsAlwaysStay`, `GapsAreCovered` (`GapIsCovered`): all of `candle_series` |
| `DomWindowProofs` | `ProfileIsAlwaysSound`, with its part `TapeIsAlwaysKept`; `BigTradesAreAlwaysTrue`, `LadderIsAlwaysCurrent`: all of `dom_window` |
| `MainWindowProofs` | `AdaptersAreSelected`, `ConnectedIsAlwaysEarned`, `PillAlwaysAgrees`: the safety properties of `main_window` |
| `ChartWindowProofs` | `ViewsAreSound`, `PendingsAreRendered`, `TimeframesAgree`, `SnapshotsKeepViews`: all of `chart_window` |
| `FeedSettingsDialogProofs` | `RowIsAlwaysSelected`, `TypingIsAlwaysKept`, `TestedIsAlwaysShown`, `GlyphIsAlwaysEarned`: the safety properties of `feed_settings` |
| `FeedConnectionStoreProofs` | `BackupsAreSound`, `StoreIsRegister` (`ImplementsRegister`): all of `profile_store` |

**Client.** That `connected_` is the gateway's session needs that an unanswered login
belongs to a connected socket in stage Login; that needs the stage an earlier abort left
behind; that an end of bars finds a session needs that only a session owes replays; that
the shared heartbeat has a session needs both halves at once. `IInv` collects this:
`TickerSound` and `HistorySound` for the two plants, `Beats` for the timer between them
(together `Sound`, which every handler preserves), `Streams` and `Served` (which the
login handler and `Backfill` break and mend inside), the frame types, and that a client
that was never used is a new one. One lemma per handler states what the record it
returns is like, given `Sound` (or, for handlers called on a socket that is about to go,
the weaker `Severable`), and that it leaves the other plant alone. One lemma per action
composes the handlers. `DisconnectIsFinal` has an invariant of its own, `ShutInv`: after
a disconnect both stages are Idle or Closing, no timer is armed, the gateway holds
nothing and no frame is open.

**Refinement.** Every event of the client is a step of `TickerSession` or leaves its
variables alone, for either value of `HangUps`. Beside `IInv` and `ShutInv` it needs
`SessionInv`: a connection under way has a gateway to be opened again, and a lost session
has its reconnect armed and no frame of it being decoded, without which a late payload
would revive it.

**Adapter.** `IInv` is `Sound` (types; `Served`: a download that is shown has a history
connection being opened or a replay owed; `OpensForOne`: one is opened only for a
request), `LinkSound` (only a live session streams) and `Attached`. Each callback is
shown to keep them, through the calls of the client that answer before they return.
Nothing is assumed of the windows.

**Series of the adapter.** `SeriesInv` is `Clean`, of the adapter and the keys in
`spoiled`: what is remembered and on disk is its own but for those keys (`Stored`), candles
still to be saved belong to a chart (`Wanted`), and what is shown is its own, and
remembered while it is to be saved, unless its key is spoiled (`Shows`). `Clean` without
`Shows` is `Loose`, which is what holds inside a handler between the choice of another key
and the candles that go with it. Lemmas give for each handler the record it returns:
`Clean`, or, for a front month and a bar length, `Loose` with the candles carried over
(`Carries`), in which case the action puts the new key into `spoiled`
(`CarriedStep`). A late bar is the third way. Nothing is assumed of
windows, DOMs or the gateway.

**Candles.** The argument is about the set of bars of a series. Lemmas say what
`Before`, `Trim`, `Merge` and `Upsert` do to it: an ordered series splits at a time, and
putting a bar in keeps the order and all other bars. `CInv` is then `MarketInv` and
`FlagsInv` (types), `AnswerInv` (what is on its way had trades), `CopiesInv` (all copies
are ordered series of bars that had trades, and memory is what is shown), `ToldInv` (a bar
that was told of is remembered, with at least the lots of its last replay and the trades
since, until the window leaves it: the part that makes restoring harmless) and `GapInv`
(what a download was begun for is shown or on its way, and nothing is without a chart).
That `GapBars` asks for enough is proved where the download begins (`GapIsAskedFor`);
that a trim drops nothing of the window keeps it.

**Big trades.** A bucket that a trade may still reach, one no older than the newest
trade by the retention, is kept with all lots of its price and side; the list has every
key once with its lots. Lateness up to the retention (`Lag <= Retention`) is assumed.

**Ladder and profile.** `LadderInv`: but during a download the present snapshot is drawn
or pending, and a price has volume only after there was a last price. `TapeInv`: the
profile is finite, no longer than its limit, holds at least what the tape of each price
says, and a price that is missing is below a full profile. That dropping the lowest of one
price too many leaves exactly the highest is the lemma `HighestAre`, by cardinalities. The rest
of `ProfileIsSound` follows for any profile with a price in it (`ValueAreaIsTight`).
`BinsAre`: the number of higher prices numbers the prices without a gap, so each bin has a
price and each price a bin. `PointOfControlIs`: a bin with the fewest bins ahead of it has
none ahead. `SumIsNat` and `ValueAreaIs`: the recursive functions behind a sum and behind
the growth of the area have a value, since a round of the equation solves it for one element,
or one step, more than the round before; where the growth ends, what is flagged is enough
or everything, and what it was before its last step was not enough. That no step leaves the
ladder is part of it: below the last bin the volume reads as -1, so the growth goes up.

**Main window.** `Good` is `Sound` (types; `AdapterSound`: an adapter was made by the
present attempt for a complete profile; every posted snapshot is `Earned`, of an earlier
attempt or of an adapter that was live), `ShownSound` and, but while the warning about
the store is up, `Chosen`; and what each modal dialog finds when it returns. `PInv`, for
the pill, is about the event loop: the last snapshot on its way is what the adapter says
now, and without an adapter none on its way counts (`QueueSound`); with nothing on its way
the pill agrees (`Shows`), and a menu still enabled over a failed link has a snapshot
coming that takes it away (`BadNews`).

**Chart window.** `DataSound`: what is pending is of the chosen bars until another
window chooses. `ViewSound`: a view has a size it may have (`Fits`), and one of data
lies on it (`OnData`). Lemmas on `Sized` and `Placed` do the arithmetic, and that a view
that fits and is covered stays where it is gives `SnapshotKeepsView`. `Seen`, the third
part, says what is painted: the candles of a snapshot the adapter may emit, those of the
view, on a scale that is their hull unless the user chose one, and for a chart that follows
its data the view `Following` computes. That this view holds the newest candle needs
`SpansAssumption`, that a series is no longer than the look-back and a bar, which
`trimCandlesToActiveWindow` sees to.

**Settings and test.** After every call of `FeedSettingsDialog` the whole dialog is given by
four values, list, row, form and result (`At`): its items are the names of the list, its
selection is the row, its form is enabled if there is a row. The lemmas compute each
operation to that form through the signals of the list it sets off, which is where rows and
forms could part. `Remembered` relates list and form to what the user typed. `TestInv`
holds of the test dialog: what is posted is in order, its last is the adapter's flag, and a
session that was posted was live (`Told`). Assumed is an identity to give (`Ids # {}`).

**Store.** While an undisturbed update of the Keychain is under way it is of the list in
the file (`AgreesMeanwhile`). With it every call of every instance, every crash and every
damage is a step of `ProfileRegister` or is hidden from it.

Only model-checked: liveness (`BackfillReported`, `LostSessionResolved`, `BuildingEnds`,
`ConnectingEnds`, `TestEnds`, the fairness of `TickerSession`), which the prover does not
reach. Every other property of a passing run is proved. Where a proof is about a recursive
function (sums, folds, the growth of the value area) the library's induction theorems
cannot be used: they take an operator as a parameter. The argument is then by a least
counterexample, from the well-foundedness of the naturals (`LeastNumber`).

## What is left

A composition of `ChartWindow` with the adapter, in place of the assumptions about what it
emits. The indicators and the anchored profile as algorithms against reference definitions; the DOM
levels, with their limit of 80.

## Not modelled

* The windows' pointers: `MainWindow` destroys its adapter at every switch while open
  charts and DOMs keep a raw pointer to it, which they use when the bar length is
  changed. That takes one step and needs no search.
* The path of `DomWindow` and `ChartWindow` for snapshots from another thread: every
  adapter emits on the event loop's.
* `SelectInstrumentDialog`, which filters a fixed list and keeps no state;
  `AccountStore`, which nothing uses; `SimulatedMarketDataAdapter`, beyond that it is
  connected at once, and the factory; the shared types.
* Painting, styles, animation and widget layout (the largest part of the windows' code),
  the indicators and the anchored profile; protobuf encoding and the vendored protocol
  definitions; JSON text; TLS; the Keychain's queries; command-line parsing and
  screenshots; order entry, which the code stubs.
