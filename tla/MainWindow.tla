----------------------------- MODULE MainWindow -----------------------------
(***************************************************************************)
(* tc::MainWindow: which saved connection is selected, the one adapter it  *)
(* owns for it, and what the status pill and the New menu show.            *)
(*                                                                         *)
(* The adapter tells the window of every change of its snapshot.  The      *)
(* snapshot is posted to the event loop and looked at later, when another  *)
(* connection may be selected and the adapter gone; posted are the ones on *)
(* the way.  Dialogs are modal: their event loop delivers snapshots and    *)
(* timers, but no other click of the user.                                 *)
(*                                                                         *)
(* The adapter is what RithmicMarketDataAdapter makes of a TickerSession:  *)
(* the phase of its session, and the two flags of its snapshot the window  *)
(* looks at.  Every snapshot has a label.                                  *)
(***************************************************************************)
EXTENDS Naturals, Sequences

CONSTANTS
    Ids,          \* identities of saved connections
    None,         \* no connection
    Absent,       \* what is saved under an identity: nothing,
    Incomplete,   \*   a profile that lacks something,
    Configs,      \*   or one of these complete ones
    Simulated,    \* those the factory gives the simulated adapter
    MaxAttempts,  \* bound: values of connectionAttempt_
    MaxPosted     \* bound: snapshots on the way

ASSUME IdsAssumption == None \notin Ids
ASSUME ProfilesAssumption ==
    /\ Absent # Incomplete /\ {Absent, Incomplete, None} \cap Configs = {}
    /\ Simulated \subseteq Configs
ASSUME BoundsAssumption == MaxAttempts \in Nat /\ MaxPosted \in Nat

VARIABLE w   \* the window, its adapter and the snapshots on the way

Profiles == {Absent, Incomplete} \cup Configs
Pills == {"idle", "connecting", "connected", "incomplete", "failed"}
Links == {"Off", "Connecting", "Live", "Lost", "Failed"}

Snapshots == [of: Nat, id: Ids, connected: BOOLEAN, failed: BOOLEAN]

(***************************************************************************)
(* profiles .. attempt are members (connections_, selectedConnectionId_,   *)
(* activeConnectionId_, activeConnectionFingerprint_, connectionState_,    *)
(* connectionAttempt_); enabled is whether the New menu is.  alive to      *)
(* failed are the adapter: whether there is one, the attempt that made it, *)
(* its session, its flags, whether it was ever live and whether a chart    *)
(* asked it for history.                                                   *)
(***************************************************************************)
Window == [
    modal: {"starting", "none", "settings", "warning", "instrument"},
    profiles: [Ids -> Profiles], selected: Ids \cup {None},
    active: Ids \cup {None}, fingerprint: Configs \cup {None},
    pill: Pills, attempt: Nat, enabled: BOOLEAN,
    alive: BOOLEAN, serial: Nat, link: Links, connected: BOOLEAN, failed: BOOLEAN,
    wasLive: BOOLEAN, charted: BOOLEAN,
    posted: Seq(Snapshots) ]

-----------------------------------------------------------------------------
(* Members of the class *)

\* selectedConnectionReady
Ready(k) ==
    /\ k.pill = "connected"
    /\ k.alive /\ k.link = "Live"
    /\ k.selected # None /\ k.profiles[k.selected] \in Configs

\* The menu is looked at again whenever the state is set, and only then.
SetConnectionState(k, state) ==
    LET set == [k EXCEPT !.pill = state]
    IN  [set EXCEPT !.enabled = Ready(set)]

\* A connection that is no longer saved is no longer selected.
RebuildConnectionSelector(k) ==
    IF k.selected # None /\ k.profiles[k.selected] # Absent
    THEN SetConnectionState(k, k.pill)
    ELSE SetConnectionState([k EXCEPT !.selected = None], "idle")

\* The handler of the adapter: its snapshot is posted.
Post(k) ==
    [k EXCEPT !.posted = Append(@, [of |-> k.serial, id |-> k.active,
                                    connected |-> k.connected, failed |-> k.failed])]

\* Faulty variant: the attempt goes on.
DisconnectedQuietly(k) ==
    IF ~k.alive /\ k.active = None THEN k
    ELSE LET told == Post([k EXCEPT !.connected = FALSE, !.failed = FALSE])
         IN  [told EXCEPT !.alive = FALSE, !.link = "Off",
                          !.active = None, !.fingerprint = None]

DisconnectActiveConnection(k) ==
    IF ~k.alive /\ k.active = None THEN k
    ELSE LET told == Post([k EXCEPT !.attempt = @ + 1, !.connected = FALSE, !.failed = FALSE])
         IN  [told EXCEPT !.alive = FALSE, !.link = "Off",
                          !.active = None, !.fingerprint = None]

\* A new adapter and its connectAdapter, which opens a connection, fails inside
\* the call, or refuses the settings; a simulated one is connected at once.
Connect(k, outcome) ==
    LET made == [k EXCEPT !.alive = TRUE, !.serial = k.attempt, !.link = "Connecting",
                          !.connected = k.fingerprint \in Simulated, !.failed = FALSE,
                          !.wasLive = k.fingerprint \in Simulated, !.charted = FALSE]
    IN  CASE k.fingerprint \in Simulated -> Post([made EXCEPT !.link = "Live"])
          [] k.fingerprint \notin Simulated /\ outcome = "opens" -> Post(made)
          [] OTHER -> Post([Post(made) EXCEPT !.link = "Failed", !.failed = TRUE])

Incompletely(k) ==
    RebuildConnectionSelector(SetConnectionState(DisconnectActiveConnection(k), "incomplete"))

\* Faulty variant: a connection that was edited stays as it was.
BegunById(k, id, outcome) ==
    CASE k.profiles[id] \notin Configs -> Incompletely([k EXCEPT !.selected = id])
      [] k.profiles[id] \in Configs /\ k.alive /\ k.active = id ->
            RebuildConnectionSelector([k EXCEPT !.selected = id])
      [] OTHER ->
            LET off == DisconnectActiveConnection([k EXCEPT !.selected = id])
                begun == SetConnectionState(
                            [off EXCEPT !.attempt = @ + 1, !.active = id,
                                        !.fingerprint = k.profiles[id]],
                            "connecting")
            IN  RebuildConnectionSelector(SetConnectionState(Connect(begun, outcome), "connecting"))

BeginConnection(k, id, outcome) ==
    CASE k.profiles[id] \notin Configs -> Incompletely([k EXCEPT !.selected = id])
      [] k.profiles[id] \in Configs /\ k.alive /\ k.active = id
            /\ k.fingerprint = k.profiles[id] ->
            RebuildConnectionSelector([k EXCEPT !.selected = id])
      [] OTHER ->
            LET off == DisconnectActiveConnection([k EXCEPT !.selected = id])
                begun == SetConnectionState(
                            [off EXCEPT !.attempt = @ + 1, !.active = id,
                                        !.fingerprint = k.profiles[id]],
                            "connecting")
                tried == Connect(begun, outcome)
                state == CASE outcome = "refused" /\ tried.link = "Failed" -> "failed"
                           [] tried.link = "Live" -> "connected"
                           [] OTHER -> "connecting"
            IN  RebuildConnectionSelector(SetConnectionState(tried, state))

\* The early return of selectConnectionById for the connection that is up is the
\* one beginConnection makes.
SelectConnectionById(k, id, outcome) ==
    CASE id # None -> BeginConnection(k, id, outcome)
      [] id = None /\ k.selected = None /\ ~k.alive -> RebuildConnectionSelector(k)
      [] OTHER -> RebuildConnectionSelector(
                      SetConnectionState(
                          DisconnectActiveConnection([k EXCEPT !.selected = None]), "idle"))

\* The end of showFeedSettings.
Reselect(k, outcome) ==
    IF k.selected # None /\ k.profiles[k.selected] # Absent
    THEN SelectConnectionById([k EXCEPT !.modal = "none"], k.selected, outcome)
    ELSE SelectConnectionById([k EXCEPT !.modal = "none"], None, outcome)

\* Faulty variant: only the connection is compared.
TakenFromAnyAttempt(k, s, news) ==
    LET state == CASE s.connected -> "connected"
                   [] ~s.connected /\ s.failed -> "failed"
                   [] OTHER -> "connecting"
    IN  IF s.id # k.selected \/ (k.pill = state /\ (s.connected \/ ~news)) THEN k
        ELSE RebuildConnectionSelector(SetConnectionState(k, state))

\* Faulty variant: a failure is not told from a status.
TakenWithoutFailure(k, s, news) ==
    LET state == IF s.connected THEN "connected" ELSE "connecting"
    IN  IF s.of # k.attempt \/ s.id # k.selected \/ (k.pill = state /\ (s.connected \/ ~news)) THEN k
        ELSE RebuildConnectionSelector(SetConnectionState(k, state))

\* The posted lambda.  With the state unchanged nothing is set again, unless the
\* label brings news of a feed that is not connected.
TakeSnapshot(k, s, news) ==
    LET state == CASE s.connected -> "connected"
                   [] ~s.connected /\ s.failed -> "failed"
                   [] OTHER -> "connecting"
    IN  IF s.of # k.attempt \/ s.id # k.selected \/ (k.pill = state /\ (s.connected \/ ~news)) THEN k
        ELSE RebuildConnectionSelector(SetConnectionState(k, state))

-----------------------------------------------------------------------------
(* The user *)

Outcomes == {"opens", "fails", "refused"}

\* Bounds on what one click may begin.
MayBegin == w.attempt + 2 <= MaxAttempts /\ Len(w.posted) + 3 <= MaxPosted
MayPost == Len(w.posted) < MaxPosted

\* The constructor: the selector, and the connection to begin with.
Startup(id, outcome) ==
    /\ w.modal = "starting"
    /\ id # None => w.profiles[id] # Absent
    /\ LET shown == RebuildConnectionSelector([w EXCEPT !.modal = "none", !.selected = id])
       IN  w' = IF id = None THEN shown ELSE BeginConnection(shown, id, outcome)

\* connectionSelector_ activated
ChooseConnection(id, outcome) ==
    /\ w.modal = "none" /\ MayBegin
    /\ id # None => w.profiles[id] # Absent
    /\ w' = SelectConnectionById(w, id, outcome)

OpenFeedSettings ==
    /\ w.modal = "none"
    /\ w' = [w EXCEPT !.modal = "settings"]

CancelFeedSettings ==
    /\ w.modal = "settings"
    /\ w' = RebuildConnectionSelector([w EXCEPT !.modal = "none"])

\* Connections that could not be stored are used, after a warning.
AcceptFeedSettings(profiles, stored, outcome) ==
    /\ w.modal = "settings" /\ MayBegin
    /\ LET edited == [w EXCEPT !.profiles = profiles]
       IN  w' = IF stored THEN Reselect(edited, outcome) ELSE [edited EXCEPT !.modal = "warning"]

DismissWarning(outcome) ==
    /\ w.modal = "warning" /\ MayBegin
    /\ w' = Reselect(w, outcome)

\* openPriceChart, openDom: the dialog is shown over a session that is ready.
OpenInstrumentDialog ==
    /\ w.modal = "none" /\ w.enabled
    /\ w' = IF Ready(w) THEN [w EXCEPT !.modal = "instrument"]
            ELSE SetConnectionState(w, IF w.selected # None /\ w.profiles[w.selected] \in Configs
                                       THEN "connecting" ELSE "incomplete")

CancelInstrumentDialog ==
    /\ w.modal = "instrument"
    /\ w' = [w EXCEPT !.modal = "none"]

\* A window is made over the adapter as it is by now, and subscribes.
AcceptInstrument(chart) ==
    /\ w.modal = "instrument" /\ MayPost
    /\ w' = Post([w EXCEPT !.modal = "none",
                           !.charted = @ \/ (chart /\ w.fingerprint \notin Simulated)])

-----------------------------------------------------------------------------
(* The adapter *)

Feed == w.alive /\ w.fingerprint \notin Simulated /\ MayPost

GoLive ==
    /\ Feed /\ w.link = "Connecting"
    /\ w' = Post([w EXCEPT !.link = "Live", !.connected = TRUE, !.failed = FALSE,
                           !.wasLive = TRUE])

\* Only a status is published; the flag stays.
Lose ==
    /\ Feed /\ w.link = "Live"
    /\ w' = Post([w EXCEPT !.link = "Lost", !.failed = FALSE])

Retry ==
    /\ Feed /\ w.link = "Lost"
    /\ w' = Post([w EXCEPT !.link = "Connecting", !.failed = FALSE])

Break ==
    /\ Feed /\ w.link \in {"Connecting", "Live"}
    /\ w' = Post([w EXCEPT !.link = "Failed", !.connected = FALSE, !.failed = TRUE])

\* Data, or a status, that changes no flag.
Publish ==
    /\ w.alive /\ MayPost
    /\ w' = Post(w)

\* The history connection outlives a failed session: a bar of it shows the feed
\* as connected, a status clears the failure.
LateHistory(bar) ==
    /\ Feed /\ w.link = "Failed" /\ w.charted
    /\ w' = Post([w EXCEPT !.connected = @ \/ bar, !.failed = FALSE])

-----------------------------------------------------------------------------
(* The event loop *)

Deliver ==
    /\ w.posted # <<>>
    /\ \E news \in BOOLEAN :
        w' = TakeSnapshot([w EXCEPT !.posted = Tail(@)], Head(w.posted), news)

Init ==
    w \in { [modal |-> "starting", profiles |-> p, selected |-> None,
             active |-> None, fingerprint |-> None, pill |-> "idle", attempt |-> 0,
             enabled |-> FALSE, alive |-> FALSE, serial |-> 0, link |-> "Off",
             connected |-> FALSE, failed |-> FALSE, wasLive |-> FALSE, charted |-> FALSE,
             posted |-> <<>>] : p \in [Ids -> Profiles] }

User ==
    \/ \E id \in Ids \cup {None}, outcome \in Outcomes :
        Startup(id, outcome) \/ ChooseConnection(id, outcome)
    \/ OpenFeedSettings \/ CancelFeedSettings
    \/ \E profiles \in [Ids -> Profiles], stored \in BOOLEAN, outcome \in Outcomes :
        AcceptFeedSettings(profiles, stored, outcome)
    \/ \E outcome \in Outcomes : DismissWarning(outcome)
    \/ OpenInstrumentDialog \/ CancelInstrumentDialog
    \/ \E chart \in BOOLEAN : AcceptInstrument(chart)

Adapter ==
    \/ GoLive \/ Lose \/ Retry \/ Break \/ Publish
    \/ \E bar \in BOOLEAN : LateHistory(bar)

Next == User \/ Adapter \/ Deliver

vars == <<w>>

Spec == Init /\ [][Next]_vars

(***************************************************************************)
(* Fairness: the event loop delivers what was posted, and the session      *)
(* keeps the promises of TickerSession (a lost one is retried, a set-up    *)
(* ends); strong, because a full queue of the model holds the adapter up.  *)
(* Nothing is assumed of the user.                                         *)
(***************************************************************************)
SetUpEnds == GoLive \/ (w.link = "Connecting" /\ Break)

FairSpec == Spec /\ WF_vars(Deliver) /\ SF_vars(Retry) /\ SF_vars(SetUpEnds)

-----------------------------------------------------------------------------
(* What holds *)

TypeOK == w \in Window

(***************************************************************************)
(* The adapter is the one of the connection that is selected, made from    *)
(* the profile as it is now, whatever was edited, removed or chosen since; *)
(* only while the warning about the store is up may they differ.  A window *)
(* that is about to be opened has an adapter to be given.                  *)
(***************************************************************************)
AdapterIsSelected ==
    /\ TypeOK
    /\ w.alive /\ w.modal # "warning" =>
            /\ w.active = w.selected
            /\ w.fingerprint = w.profiles[w.selected]
    /\ w.modal = "instrument" => w.alive /\ w.wasLive

(***************************************************************************)
(* "Connected" is shown, and a window can be opened, only for an adapter   *)
(* that is there and has reported a live session: no snapshot of an        *)
(* adapter before, also of the same connection, counts for this one.       *)
(***************************************************************************)
ConnectedIsEarned == w.pill = "connected" \/ w.enabled => w.alive /\ w.wasLive

(***************************************************************************)
(* When every snapshot has been delivered the pill shows what the adapter  *)
(* said last, or that it connects when a click found it without a session; *)
(* without an adapter it shows why there is none, whatever the one that    *)
(* was closed still says.                                                  *)
(***************************************************************************)
Said ==
    CASE w.connected -> "connected"
      [] ~w.connected /\ w.failed -> "failed"
      [] OTHER -> "connecting"

PillAgrees ==
    w.posted = <<>> /\ w.modal # "warning" =>
        IF w.alive
        THEN \/ w.pill = Said
             \/ w.pill = "connecting" /\ w.link \in {"Lost", "Connecting"}
        ELSE w.pill = IF w.selected = None THEN "idle" ELSE "incomplete"

(***************************************************************************)
(* "Connecting" comes to an end, unless the history connection of a failed *)
(* session takes the failure back.                                         *)
(***************************************************************************)
ConnectingEnds ==
    w.pill = "connecting" ~> (w.pill # "connecting" \/ (w.link = "Failed" /\ ~w.failed))

-----------------------------------------------------------------------------
(* What the documents say and the code does not do *)

(***************************************************************************)
(* With the feed shown as connected, a live session and nothing on the     *)
(* way, a chart can be opened.                                             *)
(***************************************************************************)
MenuFollows ==
    w.pill = "connected" /\ w.link = "Live" /\ w.posted = <<>> /\ w.modal = "none" => w.enabled

=============================================================================
