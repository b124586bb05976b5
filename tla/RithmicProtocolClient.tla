----------------------- MODULE RithmicProtocolClient -----------------------
(***************************************************************************)
(* The connection logic of tc::RithmicProtocolClient: one Qt object on the *)
(* GUI thread that drives two WebSockets, one to the ticker plant and one  *)
(* to the history plant, three timers shared between them, and the         *)
(* callbacks into the market-data adapter that owns it.                    *)
(*                                                                         *)
(* The object is the record `c`.  A handler of the C++ class is an         *)
(* operator from the record before the call to the record after it, so     *)
(* that a handler that calls another one (or that Qt re-enters: abort()    *)
(* emits disconnected() before it returns) is written as the composition   *)
(* the code executes.  One action is one event of the Qt event loop; while *)
(* a frame of several payloads is being decoded nothing else can run.      *)
(*                                                                         *)
(* Qt's sockets and the gateway are external.  A socket is "Closing" from  *)
(* a close() that could not finish at once until its disconnected()        *)
(* signal; disconnected() is emitted whenever a socket becomes             *)
(* Unconnected.                                                            *)
(***************************************************************************)
EXTENDS Naturals

CONSTANTS
    Instruments,   \* the instruments the adapter may subscribe to
    None,          \* no instrument: an empty symbol or exchange
    MaxReplays,    \* bound: bar replays the gateway owes on one connection
    MaxBars,       \* bound: bars counted for one backfill request
    HangUps        \* may the gateway close a ticker connection that is not
                   \* logged in, without an error?

ASSUME NoneAssumption == None \notin Instruments
ASSUME BoundsAssumption == MaxReplays \in Nat /\ MaxBars \in Nat
ASSUME HangUpsAssumption == HangUps \in BOOLEAN

Stages == {"Idle", "SystemInfo", "AwaitingSystemInfoClose", "Login", "Active", "Closing"}
HistoryStages == {"Idle", "Login", "Active", "Backfilling", "Closing"}
SocketStates == {"Unconnected", "Connecting", "Connected", "Closing"}

VARIABLES
    c,        \* the client object, its sockets and what the gateway owes them
    frame,    \* the ticker frame being decoded: "none", or the phase of the
              \* connection it came from: "handshake" or "session"
    hframe    \* the same for a history frame

vars == <<c, frame, hframe>>

(***************************************************************************)
(* Fields of c.  stage .. pendingSubscription and historyStage ..          *)
(* historyTimer are the members of the class (timers as isActive()).  wire *)
(* and historyWire say what the gateway holds for the present connection:  *)
(* "nothing", a "sysinfo" or "login" request to answer, or a "session".    *)
(* streamed are the instruments it streams, replays the number of bar      *)
(* replays it still owes.  command is the last call of the adapter, told   *)
(* whether errorHandler_ was called since, and unreported whether a        *)
(* backfill request has not been reported to historyFinishedHandler_.      *)
(***************************************************************************)
Client == [
    command: {"none", "connect", "disconnect"},
    gateway: BOOLEAN,
    resolved: BOOLEAN,
    stage: Stages,
    socket: SocketStates,
    connected: BOOLEAN,
    heartbeat: BOOLEAN,
    retry: BOOLEAN,
    attempts: Nat,
    pendingSubscription: Instruments \cup {None},
    wire: {"nothing", "sysinfo", "login", "session"},
    streamed: SUBSET Instruments,
    told: BOOLEAN,
    historyStage: HistoryStages,
    historySocket: SocketStates,
    historyConnected: BOOLEAN,
    historyTimer: BOOLEAN,
    pendingHistory: Instruments \cup {None},
    barsLoaded: Nat,
    historyWire: {"nothing", "login", "session"},
    replays: Nat,
    unreported: BOOLEAN ]

NewClient == [
    command |-> "none", gateway |-> FALSE, resolved |-> FALSE,
    stage |-> "Idle", socket |-> "Unconnected", connected |-> FALSE,
    heartbeat |-> FALSE, retry |-> FALSE, attempts |-> 0,
    pendingSubscription |-> None, wire |-> "nothing", streamed |-> {}, told |-> FALSE,
    historyStage |-> "Idle", historySocket |-> "Unconnected",
    historyConnected |-> FALSE, historyTimer |-> FALSE, pendingHistory |-> None,
    barsLoaded |-> 0, historyWire |-> "nothing", replays |-> 0, unreported |-> FALSE ]

-----------------------------------------------------------------------------
(* The ticker plant: handlers *)

IsConnected(k) == k.connected /\ k.stage = "Active" /\ k.socket = "Connected"

\* Whatever the gateway held for the connection goes with it.
SocketGone(k) == [k EXCEPT !.socket = "Unconnected", !.wire = "nothing", !.streamed = {}]

SocketOpened(k) == [k EXCEPT !.socket = "Connecting", !.wire = "nothing", !.streamed = {}]

\* Faulty variant: counts down.
CountedDown(k) ==
    LET quiet == [k EXCEPT !.heartbeat = @ /\ k.historyConnected]
    IN  IF k.stage \in {"Closing", "Idle"}
        THEN quiet
        ELSE [quiet EXCEPT !.attempts = @ - 1, !.retry = TRUE]

ScheduleReconnect(k) ==
    LET quiet == [k EXCEPT !.heartbeat = @ /\ k.historyConnected]
    IN  IF k.stage \in {"Closing", "Idle"}
        THEN quiet
        ELSE [quiet EXCEPT !.attempts = @ + 1, !.retry = TRUE]

\* onSocketDisconnected; the socket is already Unconnected when it runs, so
\* the openSocket(Login) in it finds nothing to abort.
OnSocketDisconnected(k) ==
    CASE k.stage = "AwaitingSystemInfoClose" -> SocketOpened([k EXCEPT !.stage = "Login"])
      [] k.stage \in {"Closing", "Idle"} -> [k EXCEPT !.stage = "Idle", !.connected = FALSE]
      [] OTHER -> IF k.connected
                  THEN ScheduleReconnect([k EXCEPT !.connected = FALSE])
                  ELSE k

\* QAbstractSocket::abort(): disconnected() is emitted before it returns.
Abort(k) == IF k.socket = "Unconnected" THEN k ELSE OnSocketDisconnected(SocketGone(k))

\* QWebSocket::close(): either the transport closes at once and disconnected()
\* is emitted before it returns, or it drains first.
Close(k, atOnce) ==
    CASE k.socket = "Unconnected" -> k
      [] k.socket # "Unconnected" /\ atOnce -> OnSocketDisconnected(SocketGone(k))
      [] OTHER -> [k EXCEPT !.socket = "Closing", !.wire = "nothing", !.streamed = {}]

OpenSocket(k, stage) == SocketOpened(Abort([k EXCEPT !.stage = stage]))

\* Faulty variant: leaves the socket open.
FailedWithoutAbort(k) ==
    [k EXCEPT !.heartbeat = FALSE, !.retry = FALSE, !.connected = FALSE,
              !.stage = "Idle", !.told = TRUE]

Fail(k) ==
    LET off == [k EXCEPT !.heartbeat = FALSE, !.retry = FALSE, !.connected = FALSE]
        cut == IF off.stage = "Closing" THEN off ELSE Abort(off)
    IN  [cut EXCEPT !.stage = "Idle", !.told = TRUE]

SendPendingSubscription(k) ==
    IF IsConnected(k) /\ k.pendingSubscription # None
    THEN [k EXCEPT !.streamed = @ \cup {k.pendingSubscription}]
    ELSE k

Subscribe(k, i) ==
    LET asked == [k EXCEPT !.pendingSubscription = i]
    IN  IF i = None THEN Fail(asked) ELSE SendPendingSubscription(asked)

OnSocketConnected(k) ==
    CASE k.stage = "SystemInfo" -> [k EXCEPT !.wire = "sysinfo"]
      [] k.stage = "Login" -> [k EXCEPT !.wire = "login"]
      [] OTHER -> k

-----------------------------------------------------------------------------
(* The history plant: handlers *)

HistoryGone(k) == [k EXCEPT !.historySocket = "Unconnected", !.historyWire = "nothing", !.replays = 0]

\* historyFinishedHandler_ is called.
Report(k) == [k EXCEPT !.unreported = FALSE]

\* Faulty variant: reports nothing to the adapter.
DroppedSilently(k) ==
    LET off == [k EXCEPT !.historyTimer = FALSE, !.historyConnected = FALSE,
                         !.historyStage = "Idle"]
    IN  IF k.historyStage \in {"Closing", "Idle"}
        THEN off
        ELSE [off EXCEPT !.heartbeat = @ /\ k.connected]

\* Faulty variant: leaves the shared heartbeat running.
DroppedWithHeartbeat(k) ==
    LET off == [k EXCEPT !.historyTimer = FALSE, !.historyConnected = FALSE,
                         !.historyStage = "Idle"]
    IN  IF k.historyStage \in {"Closing", "Idle"} THEN off ELSE Report(off)

\* onHistorySocketDisconnected; the failHistory in it finds nothing to abort.
OnHistorySocketDisconnected(k) ==
    LET off == [k EXCEPT !.historyTimer = FALSE, !.historyConnected = FALSE,
                         !.historyStage = "Idle"]
    IN  IF k.historyStage \in {"Closing", "Idle"}
        THEN off
        ELSE Report([off EXCEPT !.heartbeat = @ /\ k.connected])

AbortHistory(k) ==
    IF k.historySocket = "Unconnected" THEN k ELSE OnHistorySocketDisconnected(HistoryGone(k))

CloseHistory(k, atOnce) ==
    CASE k.historySocket = "Unconnected" -> k
      [] k.historySocket # "Unconnected" /\ atOnce -> OnHistorySocketDisconnected(HistoryGone(k))
      [] OTHER -> [k EXCEPT !.historySocket = "Closing", !.historyWire = "nothing", !.replays = 0]

\* When the abort re-enters onHistorySocketDisconnected the stage set here is
\* lost: the socket then opens with historyStage Idle.
OpenHistorySocket(k) ==
    LET login == [k EXCEPT !.historyStage = "Login", !.historyConnected = FALSE,
                           !.historyTimer = FALSE]
    IN  [AbortHistory(login) EXCEPT !.historySocket = "Connecting",
                                    !.historyWire = "nothing", !.replays = 0]

FailHistory(k) ==
    LET off == [k EXCEPT !.historyTimer = FALSE, !.historyConnected = FALSE]
        cut == IF off.historyStage = "Closing" THEN off ELSE AbortHistory(off)
    IN  Report([cut EXCEPT !.historyStage = "Idle"])

\* Faulty variant: takes the connection for live.
FinishedOnDeadSocket(k) ==
    Report([k EXCEPT !.historyTimer = FALSE,
                     !.historyStage = IF @ = "Closing" THEN @ ELSE "Active"])

FinishHistoryRequest(k) ==
    Report([k EXCEPT !.historyTimer = FALSE,
                     !.historyStage = CASE @ = "Closing" -> @
                                        [] @ # "Closing" /\ k.historyConnected -> "Active"
                                        [] OTHER -> "Idle"])

SendPendingHistoryRequest(k) ==
    IF k.historyConnected /\ k.historySocket = "Connected" /\ k.pendingHistory # None
    THEN [k EXCEPT !.barsLoaded = 0, !.historyStage = "Backfilling",
                   !.historyTimer = TRUE, !.replays = @ + 1]
    ELSE k

Backfill(k, i) ==
    LET asked == [k EXCEPT !.pendingHistory = i, !.barsLoaded = 0, !.unreported = TRUE]
    IN  CASE i = None \/ ~k.gateway -> FailHistory(asked)
          [] i # None /\ k.gateway /\ k.historyConnected /\ k.historySocket = "Connected" ->
                SendPendingHistoryRequest(asked)
          [] OTHER -> OpenHistorySocket(asked)

OnHistorySocketConnected(k) ==
    IF k.historyStage = "Login" THEN [k EXCEPT !.historyWire = "login"] ELSE k

-----------------------------------------------------------------------------
(* Calls of the adapter *)

\* The event loop is not inside onBinaryMessageReceived.
Quiet == frame = "none" /\ hframe = "none"

\* Faulty variant: logs in without asking for the systems first.
ConnectedWithoutValidation(credentials, gateway) ==
    /\ Quiet
    /\ c.command = "none"
    /\ LET reset == [c EXCEPT !.command = "connect", !.gateway = gateway]
       IN  c' = IF credentials /\ gateway THEN OpenSocket(reset, "Login") ELSE Fail(reset)
    /\ UNCHANGED <<frame, hframe>>

\* The adapter builds a client for one connectToTickerPlant call.
ConnectToTickerPlant(credentials, gateway) ==
    /\ Quiet
    /\ c.command = "none"
    /\ LET reset == [c EXCEPT !.command = "connect", !.gateway = gateway, !.resolved = FALSE,
                              !.connected = FALSE, !.historyConnected = FALSE, !.attempts = 0,
                              !.heartbeat = FALSE, !.retry = FALSE, !.historyTimer = FALSE]
       IN  c' = IF credentials /\ gateway THEN OpenSocket(reset, "SystemInfo") ELSE Fail(reset)
    /\ UNCHANGED <<frame, hframe>>

\* Faulty variant: leaves the timers running.
DisconnectedWithTimers(atOnce, historyAtOnce) ==
    /\ Quiet
    /\ c.command = "connect"
    /\ LET closing == [c EXCEPT !.command = "disconnect", !.unreported = FALSE,
                                !.stage = "Closing", !.historyStage = "Closing",
                                !.connected = FALSE, !.historyConnected = FALSE]
       IN  c' = CloseHistory(Close(closing, atOnce), historyAtOnce)
    /\ UNCHANGED <<frame, hframe>>

DisconnectFromPlant(atOnce, historyAtOnce) ==
    /\ Quiet
    /\ c.command = "connect"
    /\ LET closing == [c EXCEPT !.command = "disconnect", !.unreported = FALSE,
                                !.stage = "Closing", !.historyStage = "Closing",
                                !.connected = FALSE, !.historyConnected = FALSE,
                                !.heartbeat = FALSE, !.retry = FALSE, !.historyTimer = FALSE]
       IN  c' = CloseHistory(Close(closing, atOnce), historyAtOnce)
    /\ UNCHANGED <<frame, hframe>>

\* subscribePendingSymbol and startChartBackfill call only a connected client.
SubscribeMarketData(i) ==
    /\ Quiet
    /\ IsConnected(c)
    /\ c' = Subscribe(c, i)
    /\ UNCHANGED <<frame, hframe>>

RequestTimeBarBackfill(i) ==
    /\ Quiet
    /\ IsConnected(c)
    /\ c.replays < MaxReplays
    /\ c' = Backfill(c, i)
    /\ UNCHANGED <<frame, hframe>>

-----------------------------------------------------------------------------
(* Timers *)

\* Faulty variant: fires into nothing.
ReconnectForgotten ==
    /\ Quiet
    /\ c.retry
    /\ c' = [c EXCEPT !.retry = FALSE]
    /\ UNCHANGED <<frame, hframe>>

ReconnectTimeout ==
    /\ Quiet
    /\ c.retry
    /\ LET fired == [c EXCEPT !.retry = FALSE]
       IN  c' = IF c.stage # "Closing" /\ c.gateway
                THEN OpenSocket(fired, IF c.resolved THEN "Login" ELSE "SystemInfo")
                ELSE fired
    /\ UNCHANGED <<frame, hframe>>

\* Faulty variant: gives up only on an empty replay.
HistoryTimeoutWhenEmpty ==
    /\ Quiet
    /\ c.historyTimer
    /\ LET fired == [c EXCEPT !.historyTimer = FALSE]
       IN  c' = IF c.historyStage = "Backfilling" /\ c.barsLoaded = 0
                THEN FinishHistoryRequest(fired) ELSE fired
    /\ UNCHANGED <<frame, hframe>>

HistoryCompletionTimeout ==
    /\ Quiet
    /\ c.historyTimer
    /\ LET fired == [c EXCEPT !.historyTimer = FALSE]
       IN  c' = IF c.historyStage = "Backfilling" THEN FinishHistoryRequest(fired) ELSE fired
    /\ UNCHANGED <<frame, hframe>>

-----------------------------------------------------------------------------
(* Socket signals *)

SocketConnected ==
    /\ Quiet
    /\ c.socket = "Connecting"
    /\ c' = OnSocketConnected([c EXCEPT !.socket = "Connected"])
    /\ UNCHANGED <<frame, hframe>>

\* errorOccurred: a refused or failed connection, a broken transport, a
\* transport the peer shuts without a close frame.
SocketError ==
    /\ Quiet
    /\ c.socket # "Unconnected"
    /\ c' = Fail(c)
    /\ UNCHANGED <<frame, hframe>>

\* disconnected without an error: the end of our own close(), or a close frame
\* of the gateway.
SocketDisconnected ==
    /\ Quiet
    /\ \/ c.socket = "Closing"
       \/ c.socket = "Connected" /\ (HangUps \/ c.wire \in {"session", "nothing"})
    /\ c' = OnSocketDisconnected(SocketGone(c))
    /\ UNCHANGED <<frame, hframe>>

HistorySocketConnected ==
    /\ Quiet
    /\ c.historySocket = "Connecting"
    /\ c' = OnHistorySocketConnected([c EXCEPT !.historySocket = "Connected"])
    /\ UNCHANGED <<frame, hframe>>

HistorySocketError ==
    /\ Quiet
    /\ c.historySocket # "Unconnected"
    /\ c' = FailHistory(c)
    /\ UNCHANGED <<frame, hframe>>

HistorySocketDisconnected ==
    /\ Quiet
    /\ c.historySocket \in {"Closing", "Connected"}
    /\ c' = OnHistorySocketDisconnected(HistoryGone(c))
    /\ UNCHANGED <<frame, hframe>>

-----------------------------------------------------------------------------
(* Frames.  onBinaryMessageReceived hands every payload of a frame to      *)
(* handlePayload and goes on with the next one whatever the last one did:  *)
(* a frame is therefore decoded to its end even when a payload in it made  *)
(* the client abort the socket it came from.                               *)

\* The first payload of a frame, from a gateway that holds what.
Opens(what) == Quiet /\ c.wire \in what

\* A system-info response that offers the configured system.
ReceiveSystemInfo(atOnce) ==
    /\ Opens({"sysinfo"})
    /\ c' = Close([c EXCEPT !.resolved = TRUE, !.stage = "AwaitingSystemInfoClose"], atOnce)
    /\ frame' = "handshake"
    /\ UNCHANGED hframe

\* Faulty variant: leaves resubscribing to the adapter.
LoggedInWithoutSubscribing(i, backfill) ==
    /\ Opens({"login"})
    /\ backfill => i # None /\ c.replays < MaxReplays
    /\ LET live == [c EXCEPT !.connected = TRUE, !.stage = "Active", !.heartbeat = TRUE,
                             !.attempts = 0, !.wire = "session"]
           attached == IF i = None THEN live ELSE Subscribe(live, i)
       IN  c' = IF backfill THEN Backfill(attached, i) ELSE attached
    /\ frame' = "session"
    /\ UNCHANGED hframe

\* Faulty variant: keeps counting attempts across sessions.
LoggedInStillCounting(i, backfill) ==
    /\ Opens({"login"})
    /\ backfill => i # None /\ c.replays < MaxReplays
    /\ LET live == [c EXCEPT !.connected = TRUE, !.stage = "Active", !.heartbeat = TRUE,
                             !.wire = "session"]
           attached == IF i = None THEN live ELSE Subscribe(live, i)
       IN  c' = SendPendingSubscription(IF backfill THEN Backfill(attached, i) ELSE attached)
    /\ frame' = "session"
    /\ UNCHANGED hframe

\* A login response without error code.  connectedHandler_ is the adapter,
\* which may subscribe to i and ask for its bars before the handler goes on.
ReceiveLogin(i, backfill) ==
    /\ Opens({"login"})
    /\ backfill => i # None /\ c.replays < MaxReplays
    /\ LET live == [c EXCEPT !.connected = TRUE, !.stage = "Active", !.heartbeat = TRUE,
                             !.attempts = 0, !.wire = "session"]
           attached == IF i = None THEN live ELSE Subscribe(live, i)
       IN  c' = SendPendingSubscription(IF backfill THEN Backfill(attached, i) ELSE attached)
    /\ frame' = "session"
    /\ UNCHANGED hframe

\* A payload handlePayload answers with fail(): an error response to the
\* request, a reject, a forced logout, bytes it cannot parse.
ReceiveRefusal ==
    /\ \/ Opens({"sysinfo", "login", "session"})
       \/ frame # "none"
    /\ c' = Fail(c)
    /\ frame' = CASE frame # "none" -> frame
                  [] frame = "none" /\ c.wire = "session" -> "session"
                  [] OTHER -> "handshake"
    /\ UNCHANGED hframe

\* Market data and acknowledgements: handed to the adapter or ignored.
ReceiveData ==
    /\ Opens({"session"}) \/ frame = "session"
    /\ frame' = "session"
    /\ UNCHANGED <<c, hframe>>

EndOfFrame ==
    /\ frame # "none"
    /\ frame' = "none"
    /\ UNCHANGED <<c, hframe>>

HistoryOpens(what) == Quiet /\ c.historyWire \in what

\* A payload of a replay: the first of a frame, or a further one; once the
\* connection it came from is cut nobody counts what the frame still holds.
ReplayPayload ==
    \/ HistoryOpens({"session"}) /\ c.replays > 0
    \/ hframe = "session" /\ (c.replays > 0 \/ c.historyWire = "nothing")

ReceiveHistoryLogin ==
    /\ HistoryOpens({"login"})
    /\ c' = SendPendingHistoryRequest(
                [c EXCEPT !.historyConnected = TRUE, !.historyStage = "Active",
                          !.heartbeat = TRUE, !.historyWire = "session"])
    /\ hframe' = "session"
    /\ UNCHANGED frame

ReceiveBar ==
    /\ ReplayPayload
    /\ c.barsLoaded < MaxBars
    /\ c' = [c EXCEPT !.barsLoaded = @ + 1, !.historyTimer = TRUE]
    /\ hframe' = "session"
    /\ UNCHANGED frame

ReceiveEndOfBars ==
    /\ ReplayPayload
    /\ c' = FinishHistoryRequest([c EXCEPT !.replays = IF @ > 0 THEN @ - 1 ELSE 0])
    /\ hframe' = "session"
    /\ UNCHANGED frame

ReceiveHistoryRefusal ==
    /\ \/ HistoryOpens({"login", "session"})
       \/ hframe # "none"
    /\ c' = FailHistory(c)
    /\ hframe' = CASE hframe # "none" -> hframe
                   [] hframe = "none" /\ c.historyWire = "session" -> "session"
                   [] OTHER -> "handshake"
    /\ UNCHANGED frame

EndOfHistoryFrame ==
    /\ hframe # "none"
    /\ hframe' = "none"
    /\ UNCHANGED <<c, frame>>

-----------------------------------------------------------------------------
Init ==
    /\ c = NewClient
    /\ frame = "none"
    /\ hframe = "none"

Adapter ==
    \/ \E credentials, gateway \in BOOLEAN : ConnectToTickerPlant(credentials, gateway)
    \/ \E atOnce, historyAtOnce \in BOOLEAN : DisconnectFromPlant(atOnce, historyAtOnce)
    \/ \E i \in Instruments : SubscribeMarketData(i)
    \/ \E i \in Instruments : RequestTimeBarBackfill(i)

Timers == ReconnectTimeout \/ HistoryCompletionTimeout

Sockets ==
    \/ SocketConnected \/ SocketError \/ SocketDisconnected
    \/ HistorySocketConnected \/ HistorySocketError \/ HistorySocketDisconnected

TickerPayloads ==
    \/ \E atOnce \in BOOLEAN : ReceiveSystemInfo(atOnce)
    \/ \E i \in Instruments \cup {None}, backfill \in BOOLEAN : ReceiveLogin(i, backfill)
    \/ ReceiveRefusal \/ ReceiveData \/ EndOfFrame

HistoryPayloads ==
    \/ ReceiveHistoryLogin \/ ReceiveBar \/ ReceiveEndOfBars
    \/ ReceiveHistoryRefusal \/ EndOfHistoryFrame

Next == Adapter \/ Timers \/ Sockets \/ TickerPayloads \/ HistoryPayloads

Spec == Init /\ [][Next]_vars

(***************************************************************************)
(* Fairness.  The Qt event loop ends a frame it decodes and fires a timer  *)
(* that stays armed; the transport ends a connection attempt or a close;   *)
(* the gateway answers a request or ends the connection it came over.  The *)
(* events that need the loop have strong fairness: frames of market data   *)
(* may keep it busy again and again, but each of them ends.                *)
(* Nothing is assumed of the adapter, nor that a session ends or a replay  *)
(* yields bars.                                                            *)
(***************************************************************************)
Answer ==
    /\ c.wire \in {"sysinfo", "login"}
    /\ TickerPayloads \/ SocketError \/ SocketDisconnected

HistoryAnswer ==
    /\ c.historyWire = "login"
    /\ HistoryPayloads \/ HistorySocketError \/ HistorySocketDisconnected

ConnectingEnds == c.socket = "Connecting" /\ (SocketConnected \/ SocketError)

HistoryConnectingEnds ==
    c.historySocket = "Connecting" /\ (HistorySocketConnected \/ HistorySocketError)

ClosingEnds == c.socket = "Closing" /\ (SocketDisconnected \/ SocketError)

Fairness ==
    /\ WF_vars(EndOfFrame) /\ WF_vars(EndOfHistoryFrame)
    /\ SF_vars(ReconnectTimeout) /\ SF_vars(HistoryCompletionTimeout)
    /\ SF_vars(ConnectingEnds) /\ SF_vars(HistoryConnectingEnds) /\ SF_vars(ClosingEnds)
    /\ SF_vars(Answer) /\ SF_vars(HistoryAnswer)

FairSpec == Spec /\ Fairness

-----------------------------------------------------------------------------
(* Safety *)

TypeOK ==
    /\ c \in Client
    /\ frame \in {"none", "handshake", "session"}
    /\ hframe \in {"none", "handshake", "session"}

(***************************************************************************)
(* The client's flag and the gateway's session are one: connected_ is set  *)
(* exactly while the gateway holds a session for the present connection,   *)
(* through aborts, closes and reconnects in any order; and such a session  *)
(* has been validated, is kept alive by heartbeats and streams the         *)
(* instrument the adapter asked for last, resubscribed after a reconnect.  *)
(***************************************************************************)
SessionAgreed ==
    /\ c.connected <=> c.wire = "session"
    /\ c.connected => /\ IsConnected(c)
                      /\ c.resolved
                      /\ c.heartbeat
                      /\ c.pendingSubscription \in c.streamed \cup {None}

(***************************************************************************)
(* heartbeatTimer_ is shared by the two plants: it runs only while one of  *)
(* them is logged in, whichever of them started it and whichever died.     *)
(***************************************************************************)
HeartbeatHasSession == c.heartbeat => c.connected \/ c.historyConnected

(***************************************************************************)
(* A reconnect is armed only over a dead socket, never beside a session or *)
(* a connection attempt, and always with the first delay: reconnectAttempts_ *)
(* is 1, so the back-off of scheduleReconnect never grows.                 *)
(***************************************************************************)
ReconnectIsAlone ==
    /\ c.retry => /\ c.socket = "Unconnected"
                  /\ c.stage = "Active"
                  /\ c.attempts = 1
                  /\ ~c.connected
    /\ c.attempts <= 1

(***************************************************************************)
(* The ticker connection never waits for an event that cannot come: in a   *)
(* handshake a socket is at work, in Active there is a session or an armed *)
(* reconnect, and Idle after a connect is always reported as an error.  A  *)
(* gateway that hangs up in the handshake (HangUps) breaks it.             *)
(***************************************************************************)
TickerNeverStalls ==
    c.command = "connect" =>
        /\ c.stage \in {"SystemInfo", "Login"} => c.socket \in {"Connecting", "Connected"}
        /\ c.stage = "AwaitingSystemInfoClose" => c.socket = "Closing"
        /\ c.stage = "Active" => c.connected \/ c.retry
        /\ c.stage = "Idle" => c.told
        /\ c.stage # "Closing"

(***************************************************************************)
(* A backfill the adapter waits for is always being served: its login is   *)
(* on the way over a live socket, or its replay is running under an armed  *)
(* completion timer, so historyFinishedHandler_ is still to be called.     *)
(***************************************************************************)
BackfillNeverForgotten ==
    c.unreported =>
        \/ c.historyStage = "Login" /\ c.historySocket \in {"Connecting", "Connected"}
        \/ c.historyStage = "Backfilling" /\ c.historyTimer

(***************************************************************************)
(* The history stage, its flag and its socket agree whatever a frame still *)
(* delivers after the connection was cut.                                  *)
(***************************************************************************)
HistoryAgreed ==
    /\ c.historyConnected <=> c.historyStage \in {"Active", "Backfilling"}
    /\ c.historyConnected <=> c.historyWire = "session"
    /\ c.historyConnected => c.historySocket = "Connected"

(***************************************************************************)
(* After disconnectFromPlant nothing comes back: no timer, handler or late *)
(* signal opens a socket, arms a timer or subscribes.                      *)
(***************************************************************************)
Revives(k, l) ==
    \/ l.socket \in {"Connecting", "Connected"}
    \/ l.historySocket \in {"Connecting", "Connected"}
    \/ l.retry \/ l.heartbeat \/ l.historyTimer
    \/ l.connected \/ l.historyConnected
    \/ l.streamed # {}

DisconnectIsFinal == [][c.command = "disconnect" => ~Revives(c, c')]_vars

(***************************************************************************)
(* An open history connection is in use: its login was sent or done.  The  *)
(* abort in OpenHistorySocket breaks it.                                   *)
(***************************************************************************)
OpenHistoryIsInUse == c.historySocket = "Connected" => c.historyStage # "Idle"

(***************************************************************************)
(* No login without validation: the client sends a login over the ticker   *)
(* socket only when the gateway has offered the configured system on an    *)
(* earlier connection.                                                     *)
(***************************************************************************)
LoginIsValidated == c.stage \in {"Login", "Active"} => c.resolved

-----------------------------------------------------------------------------
(* Liveness, and the abstract session *)

(***************************************************************************)
(* A backfill the adapter asked for is eventually reported back, finished  *)
(* or failed, or given up by a disconnect: the chart that shows "Download  *)
(* data" over it stops.                                                    *)
(***************************************************************************)
BackfillReported == c.unreported ~> ~c.unreported

(***************************************************************************)
(* A session that was lost is logged in again, or the adapter is told that *)
(* it is not, or closes it.                                                *)
(***************************************************************************)
LostSessionResolved == c.retry ~> (c.connected \/ c.told \/ c.command = "disconnect")

Phase ==
    CASE c.command = "none" -> "Off"
      [] c.command = "disconnect" -> "Closed"
      [] c.command = "connect" /\ c.stage = "Idle" -> "Failed"
      [] c.command = "connect" /\ c.stage = "Active" -> IF c.connected THEN "Live" ELSE "Lost"
      [] OTHER -> "Connecting"

Session == INSTANCE TickerSession
               WITH phase <- Phase, wanted <- c.pendingSubscription, streamed <- c.streamed

(***************************************************************************)
(* The client implements the abstract session: every event of its sockets, *)
(* timers and frames is a step of TickerSession or hidden from it, and its *)
(* set-ups and retries come to an end.                                     *)
(***************************************************************************)
ImplementsSession == Session!Spec

=============================================================================
