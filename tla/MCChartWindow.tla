--------------------------- MODULE MCChartWindow ---------------------------
(* Instances of ChartWindow for TLC. *)
EXTENDS ChartWindow

Bar(low, high) == [low |-> low, high |-> high]
Flat(times) == [t \in times |-> Bar(2, 3)]

(* Bars of one and of two minutes: none, a few of a replay, history before them
   with a candle that cannot be rendered and a new price of the last, a gap. *)
Snapshot(m, c, b) == [minutes |-> m, candles |-> c, building |-> b]
MCSnapshots ==
    {Snapshot(1, NoCandles, FALSE),
     Snapshot(1, Flat(11..12), TRUE),
     Snapshot(1, [Flat(9..12) EXCEPT ![9] = Bar(0, 0), ![12] = Bar(2, 4)], FALSE),
     Snapshot(1, [Flat({9, 14, 15}) EXCEPT ![9] = Bar(1, 5)], FALSE),
     Snapshot(2, NoCandles, TRUE),
     Snapshot(2, Flat({6, 8, 10, 12}), FALSE)}
MCShifts == {-3}
MCScales == {Bar(3, 3)}
=============================================================================
