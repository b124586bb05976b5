--------------------- MODULE MCRithmicMarketDataAdapter ---------------------
(* Instances of RithmicMarketDataAdapter for TLC. *)
EXTENDS RithmicMarketDataAdapter, TLC

CONSTANTS nq, gc, nqz, gcz   \* two roots and their front months

MCContracts == {nqz, gcz}
MCFrontMonth == (nq :> nqz) @@ (gc :> gcz)
=============================================================================
