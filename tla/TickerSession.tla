--------------------------- MODULE TickerSession ---------------------------
(***************************************************************************)
(* What RithmicProtocolClient promises the adapter about the ticker plant, *)
(* without sockets, frames or handshakes.  One connection command leads to *)
(* a life of this kind: it is set up, it is live or lost and set up again, *)
(* until it fails (and says so) or is closed; neither end is ever left.    *)
(* While it is live the gateway streams the instrument wanted last.        *)
(***************************************************************************)
CONSTANTS Instruments, None

VARIABLES
    phase,      \* where the session stands
    wanted,     \* the instrument the adapter asked for last
    streamed    \* the instruments the gateway streams

vars == <<phase, wanted, streamed>>

Phases == {"Off", "Connecting", "Live", "Lost", "Failed", "Closed"}

TypeOK ==
    /\ phase \in Phases
    /\ wanted \in Instruments \cup {None}
    /\ streamed \in SUBSET Instruments

Init == phase = "Off" /\ wanted = None /\ streamed = {}

Connect ==
    /\ phase = "Off"
    /\ phase' \in {"Connecting", "Failed"}
    /\ UNCHANGED <<wanted, streamed>>

\* The adapter may choose another instrument when it hears of the session.
GoLive ==
    /\ phase = "Connecting"
    /\ phase' = "Live"
    /\ wanted' \in Instruments \cup {wanted}
    /\ streamed' = {wanted'} \ {None}

\* Nothing is unsubscribed: what was streamed before goes on.
Want ==
    /\ phase = "Live"
    /\ wanted' \in Instruments
    /\ streamed' = streamed \cup {wanted'}
    /\ UNCHANGED phase

Lose ==
    /\ phase = "Live"
    /\ phase' = "Lost"
    /\ streamed' = {}
    /\ UNCHANGED wanted

Retry ==
    /\ phase = "Lost"
    /\ phase' = "Connecting"
    /\ UNCHANGED <<wanted, streamed>>

Break ==
    /\ phase \in {"Connecting", "Live"}
    /\ phase' = "Failed"
    /\ streamed' = {}
    /\ UNCHANGED wanted

Shut ==
    /\ phase \in Phases \ {"Off", "Closed"}
    /\ phase' = "Closed"
    /\ streamed' = {}
    /\ UNCHANGED wanted

Next == Connect \/ GoLive \/ Want \/ Lose \/ Retry \/ Break \/ Shut

Safety == Init /\ [][Next]_vars

SetUpEnds == phase = "Connecting" /\ (GoLive \/ Break)

\* A lost session is retried, and a set-up comes to an end.
Spec == Safety /\ WF_vars(Retry) /\ WF_vars(SetUpEnds)

=============================================================================
