----------------------------- MODULE MCDomWindow ----------------------------
(* The instances of DomWindow for TLC: their configurations give the constants
   their values. *)
EXTENDS DomWindow
=============================================================================
