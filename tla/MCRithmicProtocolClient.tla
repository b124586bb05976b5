---------------------- MODULE MCRithmicProtocolClient ----------------------
(* Instances of RithmicProtocolClient for TLC. *)
EXTENDS RithmicProtocolClient, TLC

\* Instruments are only compared for equality; for the safety runs.
InstrumentSymmetry == Permutations(Instruments)
=============================================================================
