---------------------------- MODULE AdapterSeries ----------------------------
(***************************************************************************)
(* Whose candles the series of tc::RithmicMarketDataAdapter hold, with     *)
(* windows that call at any time.  An adapter files what arrives under     *)
(* what is selected when it arrives, so a late answer makes a series that  *)
(* is not pure.  The history variable spoiled has the keys for which one   *)
(* of the ways the code has to do this was taken; the properties say that  *)
(* there are no others, and that it does not spread.                       *)
(***************************************************************************)
EXTENDS RithmicMarketDataAdapter

VARIABLE spoiled   \* history: keys whose series took another's candles

seriesVars == <<vars, spoiled>>

\* The candles on the chart become those of another key.
Carried == Key(m') # Key(m) /\ m.candles # {} /\ m'.candles = m.candles

Spoil(key) == spoiled' = spoiled \cup {key}

-----------------------------------------------------------------------------
\* A bar asked for before another instrument or bar length was chosen.
LateBar(key) == HistoricalBar(key) /\ IF key = Key(m) THEN UNCHANGED spoiled ELSE Spoil(Key(m))

\* A chart changes its bar length after a DOM made the adapter forget that a
\* chart asked, so that the change is not seen as one.
RescaleUnasked(n, shape, saved, covered) ==
    /\ ChooseTimeframe(n, shape, saved, covered)
    /\ IF ~m.chartWanted /\ m.root = n /\ Carried
       THEN Spoil(Key(m')) ELSE UNCHANGED spoiled

\* A front month is resolved under candles that late bars, or the answer to a
\* lookup for another instrument, have left.
Resolve ==
    /\ \/ \E covered \in BOOLEAN : Connected(covered)
       \/ \E r \in RemoteRoots, ok, covered \in BOOLEAN : FrontMonthAnswer(r, ok, covered)
    /\ IF Carried THEN Spoil(Key(m')) ELSE UNCHANGED spoiled

SeriesInit == Init /\ spoiled = {}

SeriesNext ==
    \/ \E key \in Keys : LateBar(key)
    \/ \E n \in Rescaled, shape \in Shapes, saved, covered \in BOOLEAN :
            RescaleUnasked(n, shape, saved, covered)
    \/ Resolve
    \/ /\ UNCHANGED spoiled
       /\ \/ MainWindow
          \/ \E saved, covered \in BOOLEAN :
                \/ \E n \in ChartNames : OpenChart(n, saved, covered)
                \/ \E n \in DomNames : OpenDom(n, saved, covered)
          \/ Lost \/ Reconnecting \/ Error \/ Bbo
          \/ \E covered, saved \in BOOLEAN : Trade(covered, saved)
          \/ \E contract \in Contracts : OrderBook(contract)
          \/ HistoryLoggedIn \/ HistoryFailed \/ HistoryClosed
          \/ \E saved \in BOOLEAN :
                \/ HistoryTimeout(saved)
                \/ \E key \in CacheKeys : EndOfReplay(key, saved)

SeriesSpec == SeriesInit /\ [][SeriesNext]_seriesVars

-----------------------------------------------------------------------------
(* What holds *)

(***************************************************************************)
(* A series, shown, remembered or in a file, holds candles of its own      *)
(* contract and bar length only, unless it was shown when a late bar, a    *)
(* late front month or an unseen change of the bar length mixed it: no     *)
(* switch, trade, save, restore or restart mixes one, and none takes the   *)
(* candles of a mixed series to another.                                   *)
(***************************************************************************)
SeriesArePure ==
    /\ Key(m) \notin spoiled => m.candles \subseteq {Key(m)}
    /\ \A key \in CacheKeys \ spoiled :
            m.memory[key] \subseteq {key} /\ m.disk[key] \subseteq {key}

(***************************************************************************)
(* Candles still to be saved are the ones remembered, and a chart's: what  *)
(* is written to the file and what another request of this run finds are   *)
(* the same.                                                               *)
(***************************************************************************)
DirtyIsRemembered ==
    m.dirty => /\ m.chartWanted
               /\ Key(m) \in spoiled \/ m.memory[Key(m)] = m.candles
=============================================================================
