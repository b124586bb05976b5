------------------------ MODULE ConnectionTestDialog ------------------------
(***************************************************************************)
(* tc::ConnectionTestDialog: a modal dialog with an adapter of its own,    *)
(* which shows how an attempt to connect with one profile goes.  Snapshots *)
(* of the adapter are posted to the event loop and looked at later; a      *)
(* timer of 15 seconds looks at the session itself.                        *)
(*                                                                         *)
(* The adapter is what RithmicMarketDataAdapter makes of a TickerSession,  *)
(* as in MainWindow: the phase of its session and the connected flag of    *)
(* its snapshot.  Every snapshot has a label.                              *)
(***************************************************************************)
EXTENDS Naturals, Sequences

CONSTANTS
    Feeds,       \* profiles that can be tested
    Incomplete,  \* those that lack a field a session needs
    Simulated,   \* those the factory gives the simulated adapter
    Nothing,     \* no profile
    MaxPosted    \* bound: snapshots on the way

VARIABLE t   \* the dialog and its adapter

(***************************************************************************)
(* feed is the profile under test, Nothing while there is no dialog; shown *)
(* is the glyph; posted are the connected flags on the way; timer is that  *)
(* of 15 seconds; wasLive is whether the session ever was live.            *)
(***************************************************************************)
Dialog == [
    feed: Feeds \cup {Nothing},
    shown: {"connecting", "success", "error"},
    link: {"Off", "Connecting", "Live", "Lost", "Failed"},
    connected: BOOLEAN, wasLive: BOOLEAN,
    posted: Seq(BOOLEAN),
    timer: {"unset", "armed", "fired"} ]

Closed ==
    [feed |-> Nothing, shown |-> "connecting", link |-> "Off", connected |-> FALSE,
     wasLive |-> FALSE, posted |-> <<>>, timer |-> "unset"]

\* The constructor: without the fields it needs a test is over before it starts.
Opened(feed) ==
    [Closed EXCEPT !.feed = feed,
                   !.shown = IF feed \in Incomplete THEN "error" ELSE "connecting"]

Post(k) == [k EXCEPT !.posted = Append(@, k.connected)]

-----------------------------------------------------------------------------
\* startTest, posted by the constructor.  A simulated adapter is connected at
\* once; another opens a connection, fails inside the call, or refuses.
StartTest(outcome) ==
    /\ t.feed # Nothing /\ t.feed \notin Incomplete /\ t.link = "Off"
    /\ t' = CASE t.feed \in Simulated ->
                   [Post([t EXCEPT !.link = "Live", !.connected = TRUE, !.wasLive = TRUE])
                      EXCEPT !.shown = "success"]
              [] t.feed \notin Simulated /\ outcome = "opens" ->
                   [Post([t EXCEPT !.link = "Connecting"]) EXCEPT !.timer = "armed"]
              [] t.feed \notin Simulated /\ outcome = "fails" ->
                   [Post(Post([t EXCEPT !.link = "Failed"])) EXCEPT !.timer = "armed"]
              [] OTHER ->
                   [Post(Post([t EXCEPT !.link = "Failed"])) EXCEPT !.shown = "error"]

Feed == t.feed \in Feeds \ Simulated /\ Len(t.posted) < MaxPosted

GoLive ==
    /\ Feed /\ t.link = "Connecting"
    /\ t' = Post([t EXCEPT !.link = "Live", !.connected = TRUE, !.wasLive = TRUE])

\* Only a status is published; the flag stays.
Lose ==
    /\ Feed /\ t.link = "Live"
    /\ t' = Post([t EXCEPT !.link = "Lost"])

Retry ==
    /\ Feed /\ t.link = "Lost"
    /\ t' = Post([t EXCEPT !.link = "Connecting"])

Break ==
    /\ Feed /\ t.link \in {"Connecting", "Live"}
    /\ t' = Post([t EXCEPT !.link = "Failed", !.connected = FALSE])

\* Faulty variant: a snapshot with a label is taken for a session.
DeliverAny ==
    /\ t.posted # <<>>
    /\ t' = [t EXCEPT !.posted = Tail(@), !.shown = "success"]

\* Faulty variant: a status tells nothing.
DeliverConnected ==
    /\ t.posted # <<>>
    /\ t' = [t EXCEPT !.posted = Tail(@), !.shown = IF Head(t.posted) THEN "success" ELSE @]

\* The posted lambda: what is not a session is a failure, a set-up too.
Deliver ==
    /\ t.posted # <<>>
    /\ t' = [t EXCEPT !.posted = Tail(@),
                      !.shown = IF Head(t.posted) THEN "success" ELSE "error"]

\* The timer asks the session, not the snapshot.
TimeOut ==
    /\ t.timer = "armed"
    /\ t' = [t EXCEPT !.timer = "fired", !.shown = IF t.link = "Live" THEN @ ELSE "error"]

\* The dialog takes its adapter and what was posted to it along.
Close ==
    /\ t.feed # Nothing
    /\ t' = Closed

Init == t = Closed

Step ==
    \/ \E outcome \in {"opens", "fails", "refused"} : StartTest(outcome)
    \/ GoLive \/ Lose \/ Retry \/ Break
    \/ Deliver \/ TimeOut
    \/ Close

-----------------------------------------------------------------------------
TestTypeOK == t \in Dialog

(***************************************************************************)
(* Success is shown for a session that was live, and once every snapshot   *)
(* has been delivered failure is shown only when the adapter says so or    *)
(* the timer found the session down: a success that comes after the set-up *)
(* was called a failure, or after the timer, is still shown.               *)
(***************************************************************************)
GlyphIsEarned ==
    /\ t.shown = "success" => t.wasLive
    /\ t.shown = "error" /\ t.posted = <<>> /\ t.connected => t.timer = "fired"

(***************************************************************************)
(* A test that was started says how it went: the glyph does not stay at    *)
(* connecting.                                                             *)
(***************************************************************************)
TestEnds == (t.feed # Nothing) ~> (t.feed = Nothing \/ t.shown # "connecting")
=============================================================================
