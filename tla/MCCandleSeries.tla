--------------------------- MODULE MCCandleSeries ---------------------------
(* The instances of CandleSeries for TLC: their configurations give the
   constants their values. *)
EXTENDS CandleSeries
=============================================================================
