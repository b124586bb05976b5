-------------------------- MODULE MCAdapterSeries --------------------------
(* An instance of AdapterSeries for TLC. *)
EXTENDS AdapterSeries, FiniteSets, TLC

CONSTANTS nq, gc, nqz, gcz   \* two roots and their front months

MCContracts == {nqz, gcz}
MCFrontMonth == (nq :> nqz) @@ (gc :> gcz)

\* What no action reads is no part of a state.
View == <<[m EXCEPT !.dom = {}, !.connected = FALSE, !.failed = FALSE], charts, spoiled>>

\* Behaviours are followed until a series is mixed, and on until a file is written
\* or a second series is mixed.
Followed ==
    \/ spoiled = {}
    \/ Cardinality(spoiled) = 1 /\ \A key \in CacheKeys : m.disk[key] = {}
=============================================================================
