-------------------- MODULE RithmicProtocolClientProofs --------------------
(***************************************************************************)
(* Proofs about RithmicProtocolClient, for any set of instruments, any     *)
(* bounds and either value of HangUps.                                     *)
(*                                                                         *)
(* The inductive invariant IInv is a predicate of the client record.  Its  *)
(* proof follows the code: one lemma for each handler says what the record *)
(* it returns is like (a handler of one plant KeepsHistory or KeepsTicker  *)
(* of the other), one lemma for each action composes them, and a second    *)
(* invariant, ShutInv, says what a disconnect leaves behind.               *)
(*                                                                         *)
(* In the handler lemmas the record before an update is hidden before the  *)
(* next one is applied: the provers see one EXCEPT at a time.              *)
(***************************************************************************)
EXTENDS RithmicProtocolClient, TLAPS

-----------------------------------------------------------------------------
(* The inductive invariant *)

\* The ticker half: the flag is the gateway's session, whatever the gateway
\* still has to answer belongs to a connected socket in the stage that asked,
\* and an armed reconnect has neither.
TickerSound(k) ==
    /\ k.connected <=> k.wire = "session"
    /\ k.connected => k.stage = "Active" /\ k.heartbeat /\ k.attempts = 0
    /\ k.wire # "nothing" => k.socket = "Connected"
    /\ k.wire = "sysinfo" => k.stage = "SystemInfo"
    /\ k.wire = "login" => k.stage = "Login"
    /\ k.stage \in {"AwaitingSystemInfoClose", "Login", "Active"} => k.resolved
    /\ k.retry => k.socket = "Unconnected" /\ k.stage = "Active" /\ k.attempts = 1
    /\ k.attempts <= 1
    /\ k.wire # "session" => k.streamed = {}

\* The history half.  A replay is only owed by a session, so that an end of bars
\* never arrives while a login is unanswered.
HistorySound(k) ==
    /\ k.historyConnected <=> k.historyStage \in {"Active", "Backfilling"}
    /\ k.historyConnected <=> k.historyWire = "session"
    /\ k.historyWire # "nothing" => k.historySocket = "Connected"
    /\ k.historyWire = "login" => k.historyStage = "Login"
    /\ k.historyStage = "Login" => k.pendingHistory # None
    /\ k.replays > 0 => k.historyWire = "session"

\* The heartbeat the two halves share.
Beats(k) == k.heartbeat => k.connected \/ k.historyConnected

\* What the adapter asked for last is streamed.  It does not hold inside the
\* login handler, so it is kept apart from Sound.
Streams(k) == k.connected => k.pendingSubscription \in k.streamed \cup {None}

\* A backfill that is not reported has somebody to report it.  It does not hold
\* inside Backfill, between the request and its dispatch.
Served(k) ==
    k.unreported =>
        \/ k.historyStage = "Login" /\ k.historySocket \in {"Connecting", "Connected"}
        \/ k.historyStage = "Backfilling" /\ k.historyTimer

\* What every handler may rely on.
Sound(k) == k \in Client /\ TickerSound(k) /\ HistorySound(k) /\ Beats(k)

Good(k) == Sound(k) /\ Streams(k) /\ Served(k)

IInv ==
    /\ Good(c)
    /\ c.command = "none" => c = NewClient /\ Quiet
    /\ frame \in {"none", "handshake", "session"}
    /\ hframe \in {"none", "handshake", "session"}

-----------------------------------------------------------------------------
(* What a handler leaves alone *)

KeepsHistory(k, l) ==
    /\ l.command = k.command /\ l.gateway = k.gateway
    /\ l.historyStage = k.historyStage /\ l.historySocket = k.historySocket
    /\ l.historyConnected = k.historyConnected /\ l.historyTimer = k.historyTimer
    /\ l.pendingHistory = k.pendingHistory /\ l.historyWire = k.historyWire
    /\ l.replays = k.replays /\ l.unreported = k.unreported

KeepsTicker(k, l) ==
    /\ l.command = k.command /\ l.gateway = k.gateway
    /\ l.stage = k.stage /\ l.socket = k.socket /\ l.connected = k.connected
    /\ l.retry = k.retry /\ l.streamed = k.streamed /\ l.attempts = k.attempts
    /\ l.resolved = k.resolved
    /\ l.pendingSubscription = k.pendingSubscription
    /\ l.wire = k.wire

\* TickerSound, of a client whose socket is about to go: nothing is said of the
\* gateway, whose half goes with the socket.
Severable(k) ==
    /\ k \in Client
    /\ k.connected => k.stage = "Active" /\ k.heartbeat /\ k.attempts = 0
    /\ k.stage \in {"AwaitingSystemInfoClose", "Login", "Active"} => k.resolved
    /\ k.retry => k.stage = "Active" /\ k.attempts = 1
    /\ k.attempts <= 1

\* When the ticker socket dies, the gateway's half of the connection goes with it and
\* nothing else changes.
LEMMA SocketGoneEffect ==
  ASSUME NEW k \in Client
  PROVE  LET l == SocketGone(k) IN
         /\ l \in Client
         /\ l.socket = "Unconnected" /\ l.wire = "nothing" /\ l.streamed = {}
         /\ l.stage = k.stage /\ l.connected = k.connected /\ l.heartbeat = k.heartbeat
         /\ l.retry = k.retry /\ l.attempts = k.attempts /\ l.resolved = k.resolved
         /\ KeepsHistory(k, l)
  BY DEF SocketGone, Client, SocketStates, KeepsHistory

\* A fresh ticker socket is connecting and the gateway holds nothing for it.
LEMMA SocketOpenedEffect ==
  ASSUME NEW k \in Client
  PROVE  LET l == SocketOpened(k) IN
         /\ l \in Client
         /\ l.socket = "Connecting" /\ l.wire = "nothing" /\ l.streamed = {}
         /\ l.stage = k.stage /\ l.connected = k.connected /\ l.heartbeat = k.heartbeat
         /\ l.retry = k.retry /\ l.attempts = k.attempts /\ l.resolved = k.resolved
         /\ KeepsHistory(k, l)
  BY DEF SocketOpened, Client, SocketStates, KeepsHistory

\* scheduleReconnect arms the timer and counts unless the client is closing or idle;
\* it keeps the heartbeat for a live history session only.
LEMMA ReconnectEffect ==
  ASSUME NEW k \in Client
  PROVE  LET l == ScheduleReconnect(k) IN
         /\ l \in Client
         /\ l.heartbeat => k.heartbeat /\ k.historyConnected
         /\ k.stage \in {"Closing", "Idle"} => l.retry = k.retry /\ l.attempts = k.attempts
         /\ k.stage \notin {"Closing", "Idle"} => l.retry = TRUE /\ l.attempts = k.attempts + 1
         /\ l.stage = k.stage /\ l.connected = k.connected
         /\ l.socket = k.socket /\ l.wire = k.wire /\ l.streamed = k.streamed
         /\ l.resolved = k.resolved
         /\ KeepsHistory(k, l)
<1> DEFINE b == k.heartbeat /\ k.historyConnected
           l == ScheduleReconnect(k)
<1>1. k.attempts \in Nat /\ k.attempts + 1 \in Nat /\ k.retry \in BOOLEAN /\ b \in BOOLEAN
  BY DEF Client
<1>2. CASE k.stage \in {"Closing", "Idle"}
  <2>1. l = [k EXCEPT !.heartbeat = b, !.attempts = k.attempts, !.retry = k.retry]
    BY <1>2 DEF ScheduleReconnect, Client
  <2> HIDE DEF l
  <2>2. /\ l \in Client
        /\ l.heartbeat = b /\ l.retry = k.retry /\ l.attempts = k.attempts
        /\ l.stage = k.stage /\ l.connected = k.connected
        /\ l.socket = k.socket /\ l.wire = k.wire /\ l.streamed = k.streamed
        /\ l.resolved = k.resolved
        /\ KeepsHistory(k, l)
    <3> HIDE DEF b
    <3> QED BY <1>1, <2>1 DEF Client, KeepsHistory
  <2> QED BY <1>2, <2>2 DEF l
<1>3. CASE k.stage \notin {"Closing", "Idle"}
  <2>1. l = [k EXCEPT !.heartbeat = b, !.attempts = k.attempts + 1, !.retry = TRUE]
    BY <1>3 DEF ScheduleReconnect, Client
  <2> HIDE DEF l
  <2>2. /\ l \in Client
        /\ l.heartbeat = b /\ l.retry = TRUE /\ l.attempts = k.attempts + 1
        /\ l.stage = k.stage /\ l.connected = k.connected
        /\ l.socket = k.socket /\ l.wire = k.wire /\ l.streamed = k.streamed
        /\ l.resolved = k.resolved
        /\ KeepsHistory(k, l)
    <3> HIDE DEF b
    <3> QED BY <1>1, <2>1 DEF Client, KeepsHistory
  <2> QED BY <1>3, <2>2 DEF l
<1> QED BY <1>2, <1>3

\* Whatever the stage, onSocketDisconnected leaves the ticker half sound and logged out.
LEMMA DisconnectedEffect ==
  ASSUME NEW k, Severable(k)
  PROVE  LET l == OnSocketDisconnected(SocketGone(k)) IN
         /\ l \in Client /\ TickerSound(l) /\ l.connected = FALSE
         /\ l.wire = "nothing"
         /\ k.connected = FALSE => l.retry = k.retry
         /\ l.heartbeat => k.heartbeat /\ (k.connected => k.historyConnected)
         /\ KeepsHistory(k, l)
<1> DEFINE g == SocketGone(k)
           l == OnSocketDisconnected(g)
           Goal == /\ l \in Client /\ TickerSound(l) /\ l.connected = FALSE
                   /\ l.wire = "nothing"
                   /\ k.connected = FALSE => l.retry = k.retry
                   /\ l.heartbeat => k.heartbeat /\ (k.connected => k.historyConnected)
                   /\ KeepsHistory(k, l)
<1>1. /\ g \in Client
      /\ g.socket = "Unconnected" /\ g.wire = "nothing" /\ g.streamed = {}
      /\ g.stage = k.stage /\ g.connected = k.connected /\ g.heartbeat = k.heartbeat
      /\ g.retry = k.retry /\ g.attempts = k.attempts /\ g.resolved = k.resolved
      /\ KeepsHistory(k, g)
  BY SocketGoneEffect DEF Severable
<1>2. /\ k.connected => k.stage = "Active" /\ k.attempts = 0
      /\ k.stage \in {"AwaitingSystemInfoClose", "Login", "Active"} => k.resolved
      /\ k.retry => k.stage = "Active" /\ k.attempts = 1
      /\ k.attempts \in Nat /\ k.attempts <= 1
      /\ k.connected \in BOOLEAN /\ k.retry \in BOOLEAN
  BY DEF Severable, Client
<1> SUFFICES Goal
  OBVIOUS
<1> HIDE DEF g
<1>3. CASE g.stage = "AwaitingSystemInfoClose"
  <2> DEFINE m == [g EXCEPT !.stage = "Login"]
  <2>1. /\ m \in Client /\ m.stage = "Login" /\ m.connected = g.connected
        /\ m.heartbeat = g.heartbeat /\ m.retry = g.retry /\ m.streamed = g.streamed
        /\ m.attempts = g.attempts
        /\ m.resolved = g.resolved /\ KeepsHistory(g, m)
    BY <1>1 DEF Client, Stages, KeepsHistory
  <2>2. l = SocketOpened(m)
    BY <1>3 DEF OnSocketDisconnected
  <2> HIDE DEF l, m
  <2>3. /\ l \in Client /\ l.socket = "Connecting" /\ l.wire = "nothing"
        /\ l.stage = m.stage /\ l.connected = m.connected /\ l.heartbeat = m.heartbeat
        /\ l.retry = m.retry /\ l.streamed = {} /\ l.attempts = m.attempts
        /\ l.resolved = m.resolved
        /\ KeepsHistory(m, l)
    BY <2>1, <2>2, SocketOpenedEffect
  <2> QED BY <1>1, <1>2, <1>3, <2>1, <2>3 DEF TickerSound, KeepsHistory
<1>4. CASE g.stage \in {"Closing", "Idle"}
  <2>1. l = [g EXCEPT !.stage = "Idle", !.connected = FALSE]
    BY <1>4 DEF OnSocketDisconnected
  <2> HIDE DEF l
  <2>2. /\ l \in Client /\ l.stage = "Idle" /\ l.connected = FALSE
        /\ l.socket = g.socket /\ l.wire = g.wire /\ l.heartbeat = g.heartbeat
        /\ l.retry = g.retry /\ l.streamed = g.streamed /\ l.attempts = g.attempts
        /\ KeepsHistory(g, l)
    BY <1>1, <2>1 DEF Client, Stages, KeepsHistory
  <2> QED BY <1>1, <1>2, <1>4, <2>2 DEF TickerSound, KeepsHistory
<1>5. CASE g.stage \notin {"AwaitingSystemInfoClose", "Closing", "Idle"} /\ g.connected
  <2> DEFINE m == [g EXCEPT !.connected = FALSE]
  <2>1. /\ m \in Client /\ m.connected = FALSE /\ m.stage = g.stage
        /\ m.heartbeat = g.heartbeat /\ m.retry = g.retry /\ m.streamed = g.streamed
        /\ m.attempts = g.attempts
        /\ m.resolved = g.resolved /\ m.socket = g.socket /\ m.wire = g.wire
        /\ KeepsHistory(g, m)
    BY <1>1 DEF Client, KeepsHistory
  <2>2. l = ScheduleReconnect(m)
    BY <1>5 DEF OnSocketDisconnected
  <2> HIDE DEF l, m
  <2>3. /\ l \in Client
        /\ l.heartbeat => m.heartbeat /\ m.historyConnected
        /\ m.stage \notin {"Closing", "Idle"} => l.retry = TRUE /\ l.attempts = m.attempts + 1
        /\ l.stage = m.stage /\ l.connected = m.connected
        /\ l.streamed = m.streamed /\ l.socket = m.socket /\ l.wire = m.wire
        /\ l.resolved = m.resolved
        /\ KeepsHistory(m, l)
    BY <2>1, <2>2, ReconnectEffect
  <2> QED BY <1>1, <1>2, <1>5, <2>1, <2>3 DEF TickerSound, KeepsHistory
<1>6. CASE g.stage \notin {"AwaitingSystemInfoClose", "Closing", "Idle"} /\ ~g.connected
  <2>1. l = g
    BY <1>6 DEF OnSocketDisconnected
  <2> HIDE DEF l
  <2> QED BY <1>1, <1>2, <1>6, <2>1 DEF TickerSound, KeepsHistory
<1> QED BY <1>3, <1>4, <1>5, <1>6

\* fail() leaves the ticker half sound, logged out and silent, also when its abort
\* re-enters onSocketDisconnected.
LEMMA FailEffect ==
  ASSUME NEW k, Sound(k)
  PROVE  LET l == Fail(k) IN
         /\ l \in Client /\ TickerSound(l) /\ l.connected = FALSE /\ l.heartbeat = FALSE
         /\ KeepsHistory(k, l)
<1> DEFINE off == [k EXCEPT !.heartbeat = FALSE, !.retry = FALSE, !.connected = FALSE]
           cut == IF off.stage = "Closing" THEN off ELSE Abort(off)
           l == [cut EXCEPT !.stage = "Idle", !.told = TRUE]
           Goal == /\ l \in Client /\ TickerSound(l) /\ l.connected = FALSE
                   /\ l.heartbeat = FALSE /\ KeepsHistory(k, l)
<1> SUFFICES Goal
  BY DEF Fail
<1>1. /\ k \in Client /\ k.attempts \in Nat /\ k.attempts <= 1
      /\ k.stage = "Closing" => k.wire # "session"
      /\ k.wire # "session" => k.streamed = {}
      /\ k.wire = "sysinfo" => k.stage = "SystemInfo"
      /\ k.wire # "nothing" => k.socket = "Connected"
      /\ k.wire = "login" => k.stage = "Login"
      /\ k.wire \in {"nothing", "sysinfo", "login", "session"}
      /\ k.stage \in {"AwaitingSystemInfoClose", "Login", "Active"} => k.resolved
  BY DEF Sound, TickerSound, Client
<1>2. /\ off \in Client
      /\ off.heartbeat = FALSE /\ off.retry = FALSE /\ off.connected = FALSE
      /\ off.stage = k.stage /\ off.socket = k.socket /\ off.wire = k.wire
      /\ off.streamed = k.streamed
      /\ off.attempts = k.attempts /\ off.resolved = k.resolved
      /\ KeepsHistory(k, off)
  BY <1>1 DEF Client, KeepsHistory
<1> HIDE DEF off
<1>3. /\ cut \in Client /\ cut.connected = FALSE /\ cut.heartbeat = FALSE
      /\ cut.retry = FALSE /\ cut.wire = "nothing" /\ cut.streamed = {}
      /\ cut.attempts <= 1 /\ KeepsHistory(off, cut)
  <2>1. CASE off.stage = "Closing" \/ off.socket = "Unconnected"
    <3>1. cut = off
      BY <2>1 DEF Abort
    <3> HIDE DEF cut
    <3> QED BY <1>1, <1>2, <2>1, <3>1 DEF KeepsHistory
  <2>2. CASE off.stage # "Closing" /\ off.socket # "Unconnected"
    <3>1. cut = OnSocketDisconnected(SocketGone(off))
      BY <2>2 DEF Abort
    <3> HIDE DEF cut
    <3>2. Severable(off)
      BY <1>1, <1>2 DEF Severable
    <3>3. /\ cut \in Client /\ TickerSound(cut) /\ cut.connected = FALSE
          /\ cut.wire = "nothing" /\ (off.connected = FALSE => cut.retry = off.retry)
          /\ cut.heartbeat => off.heartbeat /\ (off.connected => off.historyConnected)
          /\ KeepsHistory(off, cut)
      BY <3>1, <3>2, DisconnectedEffect
    <3>4. cut.heartbeat \in BOOLEAN
      BY <3>3 DEF Client
    <3> QED BY <1>2, <3>3, <3>4 DEF TickerSound
  <2> QED BY <2>1, <2>2
<1> HIDE DEF cut
<1>4. /\ l \in Client /\ l.stage = "Idle" /\ l.connected = cut.connected
      /\ l.heartbeat = cut.heartbeat /\ l.retry = cut.retry /\ l.streamed = cut.streamed
      /\ l.socket = cut.socket
      /\ l.wire = cut.wire /\ l.attempts = cut.attempts /\ KeepsHistory(cut, l)
  BY <1>3 DEF Client, Stages, KeepsHistory
<1> HIDE DEF l
<1> QED BY <1>2, <1>3, <1>4 DEF TickerSound, KeepsHistory

\* close() of a logged-out client leaves the ticker half sound, whether the socket
\* ends at once or drains.
LEMMA CloseEffect ==
  ASSUME NEW k, Severable(k), NEW atOnce \in BOOLEAN,
         k.connected = FALSE, k.retry = FALSE, k.stage \notin {"Login", "Active"},
         k.socket = "Unconnected" => k.wire = "nothing" /\ k.streamed = {}
  PROVE  LET l == Close(k, atOnce) IN
         /\ l \in Client /\ TickerSound(l) /\ l.connected = FALSE
         /\ l.heartbeat => k.heartbeat
         /\ KeepsHistory(k, l)
<1> DEFINE l == Close(k, atOnce)
           Goal == /\ l \in Client /\ TickerSound(l) /\ l.connected = FALSE
                   /\ l.heartbeat => k.heartbeat
                   /\ KeepsHistory(k, l)
<1> SUFFICES Goal
  OBVIOUS
<1>1. CASE k.socket = "Unconnected"
  <2>1. l = k
    BY <1>1 DEF Close
  <2> HIDE DEF l
  <2> QED BY <1>1, <2>1 DEF Severable, TickerSound, KeepsHistory
<1>2. CASE k.socket # "Unconnected" /\ atOnce
  <2>1. l = OnSocketDisconnected(SocketGone(k))
    BY <1>2 DEF Close
  <2> HIDE DEF l
  <2> QED BY <2>1, DisconnectedEffect
<1>3. CASE k.socket # "Unconnected" /\ ~atOnce
  <2>1. l = [k EXCEPT !.socket = "Closing", !.wire = "nothing", !.streamed = {}]
    BY <1>3 DEF Close
  <2>2. k \in Client
    BY DEF Severable
  <2> HIDE DEF l
  <2>3. /\ l \in Client /\ l.socket = "Closing" /\ l.wire = "nothing"
        /\ l.connected = k.connected /\ l.stage = k.stage /\ l.heartbeat = k.heartbeat
        /\ l.retry = k.retry /\ l.streamed = {} /\ l.attempts = k.attempts
        /\ l.resolved = k.resolved
        /\ KeepsHistory(k, l)
    BY <2>1, <2>2 DEF Client, SocketStates, KeepsHistory
  <2> QED BY <2>3 DEF Severable, TickerSound
<1> QED BY <1>1, <1>2, <1>3

\* openSocket over a dead socket starts a handshake; a login needs validated systems.
LEMMA OpenSocketEffect ==
  ASSUME NEW k \in Client, NEW stage \in {"SystemInfo", "Login"},
         k.socket = "Unconnected", k.connected = FALSE, k.retry = FALSE, k.attempts <= 1,
         stage = "Login" => k.resolved
  PROVE  LET l == OpenSocket(k, stage) IN
         /\ l \in Client /\ TickerSound(l) /\ l.connected = FALSE
         /\ l.heartbeat = k.heartbeat
         /\ KeepsHistory(k, l)
<1> DEFINE m == [k EXCEPT !.stage = stage]
           l == OpenSocket(k, stage)
           Goal == /\ l \in Client /\ TickerSound(l) /\ l.connected = FALSE
                   /\ l.heartbeat = k.heartbeat
                   /\ KeepsHistory(k, l)
<1> SUFFICES Goal
  OBVIOUS
<1>1. /\ m \in Client /\ m.stage = stage /\ m.connected = k.connected
      /\ m.heartbeat = k.heartbeat /\ m.retry = k.retry /\ m.streamed = k.streamed
      /\ m.attempts = k.attempts
      /\ m.resolved = k.resolved /\ m.socket = k.socket /\ KeepsHistory(k, m)
  BY DEF Client, Stages, KeepsHistory
<1>2. l = SocketOpened(m)
  BY <1>1 DEF OpenSocket, Abort
<1> HIDE DEF l, m
<1>3. /\ l \in Client /\ l.socket = "Connecting" /\ l.wire = "nothing"
      /\ l.stage = m.stage /\ l.connected = m.connected /\ l.heartbeat = m.heartbeat
      /\ l.retry = m.retry /\ l.streamed = {} /\ l.attempts = m.attempts
      /\ l.resolved = m.resolved
      /\ KeepsHistory(m, l)
  BY <1>1, <1>2, SocketOpenedEffect
<1> QED BY <1>1, <1>3 DEF TickerSound, KeepsHistory

\* After sendPendingSubscription the pending instrument is streamed if logged in.
LEMMA SendPendingSubscriptionEffect ==
  ASSUME NEW k, Sound(k)
  PROVE  LET l == SendPendingSubscription(k) IN Sound(l) /\ Streams(l) /\ KeepsHistory(k, l)
<1> DEFINE l == SendPendingSubscription(k)
           Goal == Sound(l) /\ Streams(l) /\ KeepsHistory(k, l)
<1> SUFFICES Goal
  OBVIOUS
<1>1. k \in Client /\ (k.connected => IsConnected(k))
  BY DEF Sound, TickerSound, IsConnected
<1>2. CASE IsConnected(k) /\ k.pendingSubscription # None
  <2>1. k.pendingSubscription \in Instruments
    BY <1>1, <1>2 DEF Client
  <2>2. l = [k EXCEPT !.streamed = k.streamed \cup {k.pendingSubscription}]
    BY <1>1, <1>2 DEF SendPendingSubscription, Client
  <2> HIDE DEF l
  <2>3. /\ l \in Client /\ KeepsHistory(k, l) /\ l.heartbeat = k.heartbeat
        /\ l.streamed = k.streamed \cup {k.pendingSubscription}
        /\ l.pendingSubscription = k.pendingSubscription
        /\ l.socket = k.socket /\ l.wire = k.wire /\ l.stage = k.stage
        /\ l.connected = k.connected /\ l.retry = k.retry /\ l.attempts = k.attempts
        /\ l.resolved = k.resolved
    BY <1>1, <2>1, <2>2 DEF Client, KeepsHistory
  <2> QED BY <1>2, <2>3
           DEF Sound, TickerSound, HistorySound, Beats, Streams, KeepsHistory, IsConnected
<1>3. CASE ~(IsConnected(k) /\ k.pendingSubscription # None)
  <2>1. l = k
    BY <1>3 DEF SendPendingSubscription
  <2> HIDE DEF l
  <2> QED BY <1>1, <1>3, <2>1 DEF Streams, KeepsHistory
<1> QED BY <1>2, <1>3

\* subscribeMarketData keeps the invariant and streams the new instrument.
LEMMA SubscribeEffect ==
  ASSUME NEW k, Sound(k), NEW i \in Instruments
  PROVE  LET l == Subscribe(k, i) IN Sound(l) /\ Streams(l) /\ KeepsHistory(k, l)
<1> DEFINE m == [k EXCEPT !.pendingSubscription = i]
           l == Subscribe(k, i)
           Goal == Sound(l) /\ Streams(l) /\ KeepsHistory(k, l)
<1> SUFFICES Goal
  OBVIOUS
<1>1. l = SendPendingSubscription(m)
  BY NoneAssumption DEF Subscribe
<1>2. k \in Client
  BY DEF Sound
<1>3. /\ m \in Client /\ KeepsHistory(k, m) /\ m.heartbeat = k.heartbeat
      /\ m.socket = k.socket /\ m.wire = k.wire /\ m.stage = k.stage
      /\ m.connected = k.connected /\ m.retry = k.retry /\ m.streamed = k.streamed
      /\ m.attempts = k.attempts
      /\ m.resolved = k.resolved
  BY <1>2 DEF Client, KeepsHistory
<1> HIDE DEF l, m
<1>4. Sound(m)
  BY <1>3 DEF Sound, TickerSound, HistorySound, Beats, KeepsHistory
<1>5. Sound(l) /\ Streams(l) /\ KeepsHistory(m, l)
  BY <1>1, <1>4, SendPendingSubscriptionEffect
<1> QED BY <1>3, <1>5 DEF KeepsHistory

-----------------------------------------------------------------------------
(* The history plant *)

\* Whatever the stage, onHistorySocketDisconnected leaves the history half sound and
\* idle, and reports an open request unless it was closing or idle already.
LEMMA HistoryDroppedEffect ==
  ASSUME NEW k \in Client,
         k.historyStage \in {"Closing", "Idle"} => (k.heartbeat => k.connected)
  PROVE  LET l == OnHistorySocketDisconnected(HistoryGone(k)) IN
         /\ l \in Client /\ HistorySound(l)
         /\ l.historySocket = "Unconnected" /\ l.historyStage = "Idle"
         /\ l.historyWire = "nothing" /\ l.replays = 0 /\ l.historyConnected = FALSE
         /\ k.historyStage \notin {"Closing", "Idle"} \/ k.unreported = FALSE => l.unreported = FALSE
         /\ l.heartbeat = (k.heartbeat /\ k.connected)
         /\ KeepsTicker(k, l)
<1> DEFINE g == HistoryGone(k)
           off == [g EXCEPT !.historyTimer = FALSE, !.historyConnected = FALSE,
                            !.historyStage = "Idle"]
           b == g.heartbeat /\ g.connected
           m == [off EXCEPT !.heartbeat = b]
           l == OnHistorySocketDisconnected(g)
           Goal == /\ l \in Client /\ HistorySound(l)
                   /\ l.historySocket = "Unconnected" /\ l.historyStage = "Idle"
                   /\ l.historyWire = "nothing" /\ l.replays = 0 /\ l.historyConnected = FALSE
                   /\ (k.historyStage \notin {"Closing", "Idle"} \/ k.unreported = FALSE
                         => l.unreported = FALSE)
                   /\ l.heartbeat = (k.heartbeat /\ k.connected)
                   /\ KeepsTicker(k, l)
<1> SUFFICES Goal
  OBVIOUS
<1>1. /\ g \in Client /\ g.historySocket = "Unconnected" /\ g.historyWire = "nothing"
      /\ g.replays = 0 /\ g.historyStage = k.historyStage /\ g.unreported = k.unreported
      /\ g.heartbeat = k.heartbeat /\ KeepsTicker(k, g)
  BY DEF HistoryGone, Client, SocketStates, KeepsTicker
<1>2. l = IF g.historyStage \in {"Closing", "Idle"} THEN off ELSE Report(m)
  BY <1>1 DEF OnHistorySocketDisconnected, Client
<1> HIDE DEF l, g
<1>3. /\ off \in Client /\ off.historyTimer = FALSE /\ off.historyConnected = FALSE
      /\ off.historyStage = "Idle" /\ off.historySocket = g.historySocket
      /\ off.historyWire = g.historyWire /\ off.replays = g.replays
      /\ off.unreported = g.unreported /\ off.heartbeat = g.heartbeat /\ KeepsTicker(g, off)
  BY <1>1 DEF Client, HistoryStages, KeepsTicker
<1> HIDE DEF off
<1>4. k.heartbeat \in BOOLEAN /\ k.connected \in BOOLEAN /\ b \in BOOLEAN
  BY DEF Client
<1>5. CASE g.historyStage \in {"Closing", "Idle"}
  BY <1>1, <1>2, <1>3, <1>4, <1>5 DEF HistorySound, KeepsTicker
<1>6. CASE g.historyStage \notin {"Closing", "Idle"}
  <2>1. l = [m EXCEPT !.unreported = FALSE]
    BY <1>2, <1>6 DEF Report
  <2>2. /\ m \in Client /\ m.historyConnected = off.historyConnected
        /\ m.historyStage = off.historyStage /\ m.historySocket = off.historySocket
        /\ m.historyWire = off.historyWire /\ m.replays = off.replays
        /\ m.heartbeat = b /\ KeepsTicker(off, m)
    <3> HIDE DEF b
    <3> QED BY <1>3, <1>4 DEF Client, KeepsTicker
  <2> HIDE DEF m
  <2>3. /\ l \in Client /\ l.historyConnected = m.historyConnected
        /\ l.historyStage = m.historyStage /\ l.historySocket = m.historySocket
        /\ l.historyWire = m.historyWire /\ l.replays = m.replays
        /\ l.heartbeat = m.heartbeat /\ l.unreported = FALSE /\ KeepsTicker(m, l)
    BY <2>1, <2>2 DEF Client, KeepsTicker
  <2> QED BY <1>1, <1>3, <1>4, <2>2, <2>3 DEF HistorySound, KeepsTicker
<1> QED BY <1>5, <1>6

\* failHistory leaves the history half sound and reports the request.
LEMMA FailHistoryEffect ==
  ASSUME NEW k \in Client, HistorySound(k), Beats(k)
  PROVE  LET l == FailHistory(k) IN
         /\ l \in Client /\ HistorySound(l) /\ l.unreported = FALSE
         /\ l.heartbeat = (k.heartbeat /\ k.connected)
         /\ KeepsTicker(k, l)
<1> DEFINE off == [k EXCEPT !.historyTimer = FALSE, !.historyConnected = FALSE]
           cut == IF off.historyStage = "Closing" THEN off ELSE AbortHistory(off)
           m == [cut EXCEPT !.historyStage = "Idle"]
           l == FailHistory(k)
           Goal == /\ l \in Client /\ HistorySound(l) /\ l.unreported = FALSE
                   /\ l.heartbeat = (k.heartbeat /\ k.connected)
                   /\ KeepsTicker(k, l)
<1> SUFFICES Goal
  OBVIOUS
<1>1. l = [m EXCEPT !.unreported = FALSE]
  BY DEF FailHistory, Report
<1> HIDE DEF l
<1>2. /\ off \in Client /\ off.historyConnected = FALSE /\ off.historyStage = k.historyStage
      /\ off.historySocket = k.historySocket /\ off.historyWire = k.historyWire
      /\ off.replays = k.replays /\ off.heartbeat = k.heartbeat /\ KeepsTicker(k, off)
  BY DEF Client, KeepsTicker
<1>3. /\ k.heartbeat \in BOOLEAN /\ k.connected \in BOOLEAN /\ k.replays \in Nat
      /\ k.historyConnected \in BOOLEAN /\ k.historyWire \in {"nothing", "login", "session"}
  BY DEF Client
<1>4. k.historySocket # "Connected" => k.historyWire = "nothing" /\ k.historyConnected = FALSE
  BY <1>3 DEF HistorySound
<1>5. k.historyStage \in {"Closing", "Idle"} => k.historyWire = "nothing" /\ k.historyConnected = FALSE
  BY <1>3 DEF HistorySound
<1>6. k.historyWire = "nothing" => k.replays = 0
  BY <1>3 DEF HistorySound
<1>7. k.historyConnected = FALSE => k.heartbeat = (k.heartbeat /\ k.connected)
  BY <1>3 DEF Beats
<1> HIDE DEF off
<1>8. /\ cut \in Client /\ cut.historyConnected = FALSE /\ cut.historyWire = "nothing"
      /\ cut.replays = 0 /\ cut.heartbeat = (k.heartbeat /\ k.connected)
      /\ KeepsTicker(off, cut)
  <2>1. CASE off.historyStage = "Closing" \/ off.historySocket = "Unconnected"
    <3>1. cut = off
      BY <2>1 DEF AbortHistory
    <3> HIDE DEF cut
    <3>2. k.historyWire = "nothing" /\ k.historyConnected = FALSE
      BY <1>2, <1>4, <1>5, <2>1
    <3> QED BY <1>2, <1>6, <1>7, <3>1, <3>2 DEF KeepsTicker
  <2>2. CASE off.historyStage # "Closing" /\ off.historySocket # "Unconnected"
    <3>1. cut = OnHistorySocketDisconnected(HistoryGone(off))
      BY <2>2 DEF AbortHistory
    <3> HIDE DEF cut
    <3>2. off.connected = k.connected
      BY <1>2 DEF KeepsTicker
    <3>3. off.historyStage \in {"Closing", "Idle"} => (off.heartbeat => off.connected)
      BY <1>2, <1>3, <1>5, <1>7, <3>2
    <3>4. /\ cut \in Client /\ cut.historyWire = "nothing" /\ cut.replays = 0
          /\ cut.historyConnected = FALSE
          /\ cut.heartbeat = (off.heartbeat /\ off.connected)
          /\ KeepsTicker(off, cut)
      BY <1>2, <3>1, <3>3, HistoryDroppedEffect
    <3> QED BY <1>2, <3>2, <3>4
  <2> QED BY <2>1, <2>2
<1> HIDE DEF cut
<1>9. /\ m \in Client /\ m.historyStage = "Idle" /\ m.historyConnected = cut.historyConnected
      /\ m.historyWire = cut.historyWire /\ m.replays = cut.replays
      /\ m.heartbeat = cut.heartbeat /\ KeepsTicker(cut, m)
  BY <1>8 DEF Client, HistoryStages, KeepsTicker
<1> HIDE DEF m
<1>10. /\ l \in Client /\ l.historyStage = m.historyStage
       /\ l.historyConnected = m.historyConnected /\ l.historyWire = m.historyWire
       /\ l.replays = m.replays /\ l.heartbeat = m.heartbeat /\ l.unreported = FALSE
       /\ KeepsTicker(m, l)
  BY <1>1, <1>9 DEF Client, KeepsTicker
<1> QED BY <1>2, <1>8, <1>9, <1>10 DEF HistorySound, KeepsTicker

\* openHistorySocket leaves the request served: by the login it starts, or reported
\* by the disconnect its own abort re-enters.
LEMMA OpenHistorySocketEffect ==
  ASSUME NEW k \in Client, k.historyConnected = FALSE, Beats(k), k.pendingHistory # None
  PROVE  LET l == OpenHistorySocket(k) IN
         /\ l \in Client /\ HistorySound(l) /\ Served(l)
         /\ l.heartbeat = (k.heartbeat /\ k.connected)
         /\ KeepsTicker(k, l)
<1> DEFINE login == [k EXCEPT !.historyStage = "Login", !.historyConnected = FALSE,
                              !.historyTimer = FALSE]
           cut == AbortHistory(login)
           l == OpenHistorySocket(k)
           Goal == /\ l \in Client /\ HistorySound(l) /\ Served(l)
                   /\ l.heartbeat = (k.heartbeat /\ k.connected)
                   /\ KeepsTicker(k, l)
<1> SUFFICES Goal
  OBVIOUS
<1>1. l = [cut EXCEPT !.historySocket = "Connecting", !.historyWire = "nothing", !.replays = 0]
  BY DEF OpenHistorySocket
<1>2. /\ login \in Client /\ login.historyStage = "Login" /\ login.historyConnected = FALSE
      /\ login.pendingHistory = k.pendingHistory /\ login.heartbeat = k.heartbeat
      /\ KeepsTicker(k, login)
  BY DEF Client, HistoryStages, KeepsTicker
<1>3. /\ k.heartbeat \in BOOLEAN /\ k.connected \in BOOLEAN
      /\ k.heartbeat = (k.heartbeat /\ k.connected)
  BY DEF Client, Beats
<1> HIDE DEF l, login
<1>4. /\ cut \in Client /\ cut.heartbeat = (k.heartbeat /\ k.connected)
      /\ cut.historyConnected = FALSE /\ KeepsTicker(login, cut)
      /\ \/ cut.historyStage = "Login" /\ cut.pendingHistory # None
         \/ cut.historyStage = "Idle" /\ cut.unreported = FALSE
  <2>1. CASE login.historySocket = "Unconnected"
    <3>1. cut = login
      BY <2>1 DEF AbortHistory
    <3> HIDE DEF cut
    <3> QED BY <1>2, <1>3, <3>1 DEF KeepsTicker
  <2>2. CASE login.historySocket # "Unconnected"
    <3>1. cut = OnHistorySocketDisconnected(HistoryGone(login))
      BY <2>2 DEF AbortHistory
    <3> HIDE DEF cut
    <3>2. login.connected = k.connected
      BY <1>2 DEF KeepsTicker
    <3>3. /\ cut \in Client /\ cut.historyStage = "Idle" /\ cut.historyConnected = FALSE
          /\ login.historyStage \notin {"Closing", "Idle"} => cut.unreported = FALSE
          /\ cut.heartbeat = (login.heartbeat /\ login.connected)
          /\ KeepsTicker(login, cut)
      BY <1>2, <3>1, HistoryDroppedEffect
    <3> QED BY <1>2, <3>2, <3>3
  <2> QED BY <2>1, <2>2
<1> HIDE DEF cut
<1>5. /\ l \in Client /\ l.historySocket = "Connecting" /\ l.historyWire = "nothing"
      /\ l.replays = 0 /\ l.historyStage = cut.historyStage
      /\ l.historyConnected = cut.historyConnected /\ l.pendingHistory = cut.pendingHistory
      /\ l.unreported = cut.unreported /\ l.heartbeat = cut.heartbeat /\ KeepsTicker(cut, l)
  BY <1>1, <1>4 DEF Client, SocketStates, KeepsTicker
<1> QED BY <1>2, <1>4, <1>5 DEF HistorySound, Served, KeepsTicker

\* finishHistoryRequest reports the request and leaves the history half sound, live
\* exactly when it was live.
LEMMA FinishEffect ==
  ASSUME NEW k \in Client, HistorySound(k), k.historyWire # "login"
  PROVE  LET l == FinishHistoryRequest(k) IN
         /\ l \in Client /\ HistorySound(l) /\ l.unreported = FALSE
         /\ l.historyConnected = k.historyConnected
         /\ l.heartbeat = k.heartbeat /\ KeepsTicker(k, l)
<1> DEFINE s == CASE k.historyStage = "Closing" -> k.historyStage
                  [] k.historyStage # "Closing" /\ k.historyConnected -> "Active"
                  [] OTHER -> "Idle"
           l == FinishHistoryRequest(k)
           Goal == /\ l \in Client /\ HistorySound(l) /\ l.unreported = FALSE
                   /\ l.historyConnected = k.historyConnected
                   /\ l.heartbeat = k.heartbeat /\ KeepsTicker(k, l)
<1> SUFFICES Goal
  OBVIOUS
<1>1. /\ s \in HistoryStages
      /\ k.historyConnected <=> s \in {"Active", "Backfilling"}
      /\ s # "Login"
  BY DEF HistorySound, Client, HistoryStages
<1> DEFINE m == [k EXCEPT !.historyTimer = FALSE, !.historyStage = s]
<1>2. l = [m EXCEPT !.unreported = FALSE]
  BY DEF FinishHistoryRequest, Report, Client
<1> HIDE DEF l, s
<1>3. /\ m \in Client /\ m.historyStage = s /\ m.historyConnected = k.historyConnected
      /\ m.historySocket = k.historySocket /\ m.historyWire = k.historyWire
      /\ m.replays = k.replays /\ m.heartbeat = k.heartbeat /\ KeepsTicker(k, m)
  BY <1>1 DEF Client, KeepsTicker
<1> HIDE DEF m
<1>4. /\ l \in Client /\ l.historyStage = m.historyStage
      /\ l.historyConnected = m.historyConnected /\ l.historySocket = m.historySocket
      /\ l.historyWire = m.historyWire /\ l.replays = m.replays
      /\ l.heartbeat = m.heartbeat /\ l.unreported = FALSE /\ KeepsTicker(m, l)
  BY <1>2, <1>3 DEF Client, KeepsTicker
<1> QED BY <1>1, <1>3, <1>4 DEF HistorySound, KeepsTicker

\* On a live history session the pending request is sent under an armed timer.
LEMMA SendPendingHistoryEffect ==
  ASSUME NEW k \in Client, HistorySound(k), k.historyConnected = TRUE,
         k.historySocket = "Connected", k.pendingHistory # None
  PROVE  LET l == SendPendingHistoryRequest(k) IN
         /\ l \in Client /\ HistorySound(l) /\ Served(l)
         /\ l.historyConnected = TRUE
         /\ l.heartbeat = k.heartbeat /\ KeepsTicker(k, l)
<1> DEFINE l == SendPendingHistoryRequest(k)
           n == k.replays + 1
           Goal == /\ l \in Client /\ HistorySound(l) /\ Served(l)
                   /\ l.historyConnected = TRUE
                   /\ l.heartbeat = k.heartbeat /\ KeepsTicker(k, l)
<1> SUFFICES Goal
  OBVIOUS
<1>1. n \in Nat
  BY DEF Client
<1>2. l = [k EXCEPT !.barsLoaded = 0, !.historyStage = "Backfilling",
                    !.historyTimer = TRUE, !.replays = n]
  BY DEF SendPendingHistoryRequest, Client
<1> HIDE DEF l, n
<1>3. /\ l \in Client /\ l.historyStage = "Backfilling" /\ l.historyTimer = TRUE
      /\ l.historyConnected = k.historyConnected /\ l.historySocket = k.historySocket
      /\ l.historyWire = k.historyWire /\ l.pendingHistory = k.pendingHistory
      /\ l.heartbeat = k.heartbeat /\ KeepsTicker(k, l)
  BY <1>1, <1>2 DEF Client, HistoryStages, KeepsTicker
<1> QED BY <1>3 DEF HistorySound, Served

\* requestTimeBarBackfill, on each of its three paths, leaves the request served or
\* reported and the ticker half alone.
LEMMA BackfillEffect ==
  ASSUME NEW k, Sound(k), NEW i \in Instruments
  PROVE  LET l == Backfill(k, i) IN Sound(l) /\ Served(l) /\ KeepsTicker(k, l)
<1> DEFINE asked == [k EXCEPT !.pendingHistory = i, !.barsLoaded = 0, !.unreported = TRUE]
           l == Backfill(k, i)
           Goal == Sound(l) /\ Served(l) /\ KeepsTicker(k, l)
<1> SUFFICES Goal
  OBVIOUS
<1>1. l = CASE i = None \/ ~k.gateway -> FailHistory(asked)
            [] i # None /\ k.gateway /\ k.historyConnected /\ k.historySocket = "Connected" ->
                 SendPendingHistoryRequest(asked)
            [] OTHER -> OpenHistorySocket(asked)
  BY DEF Backfill
<1> HIDE DEF l
<1>2. /\ k \in Client /\ HistorySound(k) /\ Beats(k) /\ i # None
      /\ k.connected => k.heartbeat
      /\ k.historyConnected => k.historySocket = "Connected"
      /\ k.historyConnected \in BOOLEAN /\ k.heartbeat \in BOOLEAN /\ k.connected \in BOOLEAN
  BY NoneAssumption DEF Sound, TickerSound, HistorySound, Client
<1>3. /\ asked \in Client /\ asked.pendingHistory = i
      /\ asked.historyStage = k.historyStage /\ asked.historySocket = k.historySocket
      /\ asked.historyConnected = k.historyConnected /\ asked.historyWire = k.historyWire
      /\ asked.replays = k.replays /\ asked.heartbeat = k.heartbeat /\ KeepsTicker(k, asked)
  BY <1>2 DEF Client, KeepsTicker
<1> HIDE DEF asked
<1>4. HistorySound(asked) /\ Beats(asked) /\ asked.connected = k.connected
  BY <1>2, <1>3 DEF HistorySound, Beats, KeepsTicker
<1>5. /\ l \in Client /\ HistorySound(l) /\ Served(l) /\ KeepsTicker(asked, l)
      /\ \/ l.heartbeat = (k.heartbeat /\ k.connected)
         \/ l.heartbeat = k.heartbeat /\ l.historyConnected = TRUE
  <2>1. CASE ~k.gateway
    <3>1. l = FailHistory(asked)
      BY <1>1, <2>1
    <3> QED BY <1>3, <1>4, <3>1, FailHistoryEffect DEF Served
  <2>2. CASE k.gateway /\ k.historyConnected
    <3>1. l = SendPendingHistoryRequest(asked)
      BY <1>1, <1>2, <2>2
    <3>2. asked.historyConnected = TRUE
      BY <1>2, <1>3, <2>2
    <3> QED BY <1>2, <1>3, <1>4, <2>2, <3>1, <3>2, SendPendingHistoryEffect
  <2>3. CASE k.gateway /\ ~k.historyConnected
    <3>1. l = OpenHistorySocket(asked)
      BY <1>1, <1>2, <2>3
    <3>2. asked.historyConnected = FALSE
      BY <1>2, <1>3, <2>3
    <3> QED BY <1>2, <1>3, <1>4, <2>3, <3>1, <3>2, OpenHistorySocketEffect
  <2> QED BY <2>1, <2>2, <2>3
<1> QED BY <1>2, <1>3, <1>5 DEF Sound, TickerSound, Beats, KeepsTicker

\* close() of the history socket leaves the history half sound.
LEMMA CloseHistoryEffect ==
  ASSUME NEW k \in Client, NEW atOnce \in BOOLEAN,
         k.historyConnected = FALSE, k.historyStage = "Closing", k.heartbeat = FALSE,
         k.unreported = FALSE,
         k.historySocket = "Unconnected" => k.historyWire = "nothing" /\ k.replays = 0
  PROVE  LET l == CloseHistory(k, atOnce) IN
         /\ l \in Client /\ HistorySound(l) /\ l.unreported = FALSE
         /\ l.heartbeat = FALSE /\ KeepsTicker(k, l)
<1> DEFINE l == CloseHistory(k, atOnce)
           Goal == /\ l \in Client /\ HistorySound(l) /\ l.unreported = FALSE
                   /\ l.heartbeat = FALSE /\ KeepsTicker(k, l)
<1> SUFFICES Goal
  OBVIOUS
<1>1. CASE k.historySocket = "Unconnected"
  <2>1. l = k
    BY <1>1 DEF CloseHistory
  <2> HIDE DEF l
  <2> QED BY <1>1, <2>1 DEF HistorySound, KeepsTicker
<1>2. CASE k.historySocket # "Unconnected" /\ atOnce
  <2>1. l = OnHistorySocketDisconnected(HistoryGone(k))
    BY <1>2 DEF CloseHistory
  <2> HIDE DEF l
  <2>2. /\ l \in Client /\ HistorySound(l) /\ l.unreported = FALSE
        /\ l.heartbeat = (k.heartbeat /\ k.connected) /\ KeepsTicker(k, l)
    BY <2>1, HistoryDroppedEffect
  <2> QED BY <2>2
<1>3. CASE k.historySocket # "Unconnected" /\ ~atOnce
  <2>1. l = [k EXCEPT !.historySocket = "Closing", !.historyWire = "nothing", !.replays = 0]
    BY <1>3 DEF CloseHistory
  <2> HIDE DEF l
  <2>2. /\ l \in Client /\ l.historySocket = "Closing" /\ l.historyWire = "nothing"
        /\ l.replays = 0 /\ l.historyConnected = k.historyConnected
        /\ l.historyStage = k.historyStage /\ l.unreported = k.unreported
        /\ l.heartbeat = k.heartbeat /\ KeepsTicker(k, l)
    BY <2>1 DEF Client, SocketStates, KeepsTicker
  <2> QED BY <2>2 DEF HistorySound
<1> QED BY <1>1, <1>2, <1>3

-----------------------------------------------------------------------------
(* Handlers of one plant leave the invariant of the other *)

\* A handler that logs the ticker half out and keeps the history half keeps the
\* whole invariant, if it keeps the heartbeat of the history session at most.
LEMMA TickerStep ==
  ASSUME NEW k, NEW l, Good(k), l \in Client, TickerSound(l), l.connected = FALSE,
         l.heartbeat => k.heartbeat /\ (k.connected => k.historyConnected),
         KeepsHistory(k, l)
  PROVE  Good(l)
BY DEF Good, Sound, Streams, Served, HistorySound, Beats, KeepsHistory

\* A handler that keeps the ticker half and its heartbeat keeps the whole invariant.
LEMMA HistoryStep ==
  ASSUME NEW k, NEW l, Sound(k), Streams(k), l \in Client, HistorySound(l), Served(l), Beats(l),
         k.connected => l.heartbeat,
         KeepsTicker(k, l)
  PROVE  Good(l)
BY DEF Good, Sound, TickerSound, Streams, KeepsTicker

\* Only a client that was told to connect has left its initial state.
LEMMA Started ==
  ASSUME IInv, c # NewClient \/ ~Quiet
  PROVE  c.command # "none" /\ c.command \in {"connect", "disconnect"}
BY DEF IInv, Good, Sound, Client

-----------------------------------------------------------------------------
(* The actions *)

\* What an action must show: the invariant of the client it leaves, whose
\* connection has been commanded; and it is not a disconnect.
GoodStep ==
    /\ Good(c')
    /\ c'.command # "none"
    /\ c'.command = "disconnect" => c.command = "disconnect"

\* connectToTickerPlant keeps the invariant.
LEMMA ConnectGood ==
  ASSUME IInv, NEW credentials \in BOOLEAN, NEW gateway \in BOOLEAN,
         ConnectToTickerPlant(credentials, gateway)
  PROVE  GoodStep
<1> DEFINE reset == [c EXCEPT !.command = "connect", !.gateway = gateway, !.resolved = FALSE,
                              !.connected = FALSE, !.historyConnected = FALSE, !.attempts = 0,
                              !.heartbeat = FALSE, !.retry = FALSE, !.historyTimer = FALSE]
<1>1. c = NewClient /\ c \in Client
  BY DEF ConnectToTickerPlant, IInv, Good, Sound
<1>2. /\ c.stage = "Idle" /\ c.socket = "Unconnected" /\ c.wire = "nothing"
      /\ c.historyStage = "Idle" /\ c.historyWire = "nothing" /\ c.replays = 0
      /\ c.unreported = FALSE /\ c.streamed = {}
  BY <1>1 DEF NewClient
<1>3. c \in Client
  BY <1>1
<1>4. /\ reset \in Client /\ reset.command = "connect" /\ reset.connected = FALSE
      /\ reset.attempts = 0 /\ reset.heartbeat = FALSE /\ reset.retry = FALSE
      /\ reset.stage = c.stage /\ reset.socket = c.socket /\ reset.wire = c.wire
      /\ reset.historyConnected = FALSE /\ reset.historyStage = c.historyStage
      /\ reset.historyWire = c.historyWire /\ reset.replays = c.replays
      /\ reset.unreported = c.unreported /\ reset.streamed = c.streamed
  BY <1>3, ZenonT(60) DEF Client
<1>5. c' = IF credentials /\ gateway THEN OpenSocket(reset, "SystemInfo") ELSE Fail(reset)
  BY DEF ConnectToTickerPlant
<1> HIDE DEF reset
<1>6. Good(reset)
  BY <1>2, <1>4 DEF Good, Sound, TickerSound, HistorySound, Beats, Streams, Served
<1>7. /\ c' \in Client /\ TickerSound(c') /\ c'.connected = FALSE /\ c'.heartbeat = FALSE
      /\ KeepsHistory(reset, c')
  <2>1. CASE credentials /\ gateway
    <3>1. c' = OpenSocket(reset, "SystemInfo")
      BY <1>5, <2>1
    <3>2. reset.attempts <= 1
      BY <1>4
    <3>3. /\ c' \in Client /\ TickerSound(c') /\ c'.connected = FALSE
          /\ c'.heartbeat = reset.heartbeat /\ KeepsHistory(reset, c')
      BY <1>2, <1>4, <3>1, <3>2, OpenSocketEffect
    <3> QED BY <1>4, <3>3
  <2>2. CASE ~(credentials /\ gateway)
    <3>1. c' = Fail(reset)
      BY <1>5, <2>2
    <3> QED BY <1>6, <3>1, FailEffect DEF Good
  <2> QED BY <2>1, <2>2
<1>8. Good(c')
  BY <1>6, <1>7, TickerStep
<1> QED BY <1>4, <1>7, <1>8 DEF GoodStep, KeepsHistory

\* disconnectFromPlant keeps the invariant.
LEMMA DisconnectGood ==
  ASSUME IInv, NEW atOnce \in BOOLEAN, NEW historyAtOnce \in BOOLEAN,
         DisconnectFromPlant(atOnce, historyAtOnce)
  PROVE  Good(c') /\ c'.command # "none"
<1> DEFINE closing == [c EXCEPT !.command = "disconnect", !.unreported = FALSE,
                                !.stage = "Closing", !.historyStage = "Closing",
                                !.connected = FALSE, !.historyConnected = FALSE,
                                !.heartbeat = FALSE, !.retry = FALSE, !.historyTimer = FALSE]
           closed == Close(closing, atOnce)
<1>1. /\ c \in Client /\ c.attempts <= 1
      /\ c.socket = "Unconnected" => c.wire = "nothing" /\ c.streamed = {}
      /\ c.historySocket = "Unconnected" => c.historyWire = "nothing" /\ c.replays = 0
  <2>1. c \in Client /\ TickerSound(c) /\ HistorySound(c)
    BY DEF IInv, Good, Sound
  <2>2. c.replays \in Nat /\ c.attempts \in Nat
    BY <2>1 DEF Client
  <2> QED BY <2>1, <2>2 DEF TickerSound, HistorySound
<1>2. /\ closing \in Client /\ closing.command = "disconnect" /\ closing.connected = FALSE
      /\ closing.stage = "Closing" /\ closing.historyStage = "Closing"
      /\ closing.historyConnected = FALSE /\ closing.heartbeat = FALSE
      /\ closing.retry = FALSE /\ closing.unreported = FALSE
      /\ closing.attempts = c.attempts /\ closing.socket = c.socket /\ closing.wire = c.wire
      /\ closing.historySocket = c.historySocket /\ closing.historyWire = c.historyWire
      /\ closing.replays = c.replays /\ closing.streamed = c.streamed
  BY <1>1, ZenonT(60) DEF Client, Stages, HistoryStages
<1>3. c' = CloseHistory(closed, historyAtOnce)
  BY DEF DisconnectFromPlant
<1> HIDE DEF closing
<1>4. Severable(closing)
  BY <1>1, <1>2 DEF Severable
<1>5. /\ closed \in Client /\ TickerSound(closed) /\ closed.connected = FALSE
      /\ closed.heartbeat => closing.heartbeat
      /\ KeepsHistory(closing, closed)
  BY <1>1, <1>2, <1>4, CloseEffect
<1> HIDE DEF closed
<1>6. /\ closed.heartbeat = FALSE /\ closed.historyConnected = FALSE
      /\ closed.historyStage = "Closing" /\ closed.unreported = FALSE
      /\ closed.historySocket = "Unconnected" =>
            closed.historyWire = "nothing" /\ closed.replays = 0
      /\ closed.command = "disconnect"
  <2>1. closed.heartbeat \in BOOLEAN
    BY <1>5 DEF Client
  <2> QED BY <1>1, <1>2, <1>5, <2>1 DEF KeepsHistory
<1>7. /\ c' \in Client /\ HistorySound(c') /\ c'.unreported = FALSE
      /\ c'.heartbeat = FALSE /\ KeepsTicker(closed, c')
  BY <1>3, <1>5, <1>6, CloseHistoryEffect
<1> QED BY <1>5, <1>6, <1>7
         DEF Good, Sound, TickerSound, Beats, Streams, Served, KeepsTicker

\* subscribeMarketData, called by the adapter, keeps the invariant.
LEMMA SubscribeGood ==
  ASSUME IInv, NEW i \in Instruments, SubscribeMarketData(i)
  PROVE  GoodStep
<1>1. c # NewClient
  BY DEF SubscribeMarketData, IsConnected, NewClient
<1>2. c.command # "none"
  BY <1>1, Started
<1>3. Sound(c) /\ Served(c) /\ c' = Subscribe(c, i)
  BY DEF IInv, Good, SubscribeMarketData
<1>4. Sound(c') /\ Streams(c') /\ KeepsHistory(c, c')
  BY <1>3, SubscribeEffect
<1> QED BY <1>2, <1>3, <1>4 DEF GoodStep, Good, Served, KeepsHistory

\* requestTimeBarBackfill, called by the adapter, keeps the invariant.
LEMMA BackfillGood ==
  ASSUME IInv, NEW i \in Instruments, RequestTimeBarBackfill(i)
  PROVE  GoodStep /\ KeepsTicker(c, c')
<1>1. c # NewClient
  BY DEF RequestTimeBarBackfill, IsConnected, NewClient
<1>2. c.command # "none"
  BY <1>1, Started
<1>3. Sound(c) /\ Streams(c) /\ c' = Backfill(c, i)
  BY DEF IInv, Good, RequestTimeBarBackfill
<1>4. Sound(c') /\ Served(c') /\ KeepsTicker(c, c')
  BY <1>3, BackfillEffect
<1> QED BY <1>2, <1>3, <1>4 DEF GoodStep, Good, Streams, KeepsTicker

\* The reconnect timer keeps the invariant: the socket it opens was dead.
LEMMA ReconnectGood ==
  ASSUME IInv, ReconnectTimeout
  PROVE  GoodStep
<1>1. c.retry /\ c # NewClient
  BY DEF ReconnectTimeout, NewClient
<1>2. c.command # "none"
  BY <1>1, Started
<1>3. Good(c) /\ c \in Client
  BY DEF IInv, Good, Sound
<1>4. c.socket = "Unconnected" /\ c.connected = FALSE /\ c.attempts <= 1
  <2>1. c.attempts = 1 /\ c.socket = "Unconnected" /\ c.connected \in BOOLEAN
        /\ (c.connected => c.attempts = 0)
    BY <1>1, <1>3 DEF Good, Sound, TickerSound, Client
  <2> QED BY <2>1
<1> DEFINE fired == [c EXCEPT !.retry = FALSE]
           stage == IF c.resolved THEN "Login" ELSE "SystemInfo"
<1>5. /\ fired \in Client /\ fired.retry = FALSE /\ fired.socket = c.socket
      /\ fired.connected = c.connected /\ fired.attempts = c.attempts
      /\ fired.heartbeat = c.heartbeat /\ fired.resolved = c.resolved
      /\ fired.wire = c.wire /\ fired.streamed = c.streamed /\ fired.stage = c.stage
      /\ KeepsHistory(c, fired)
  BY <1>3 DEF Client, KeepsHistory
<1>6. c' = IF c.stage # "Closing" /\ c.gateway THEN OpenSocket(fired, stage) ELSE fired
  BY DEF ReconnectTimeout
<1> HIDE DEF fired
<1>7. /\ c' \in Client /\ TickerSound(c') /\ c'.connected = FALSE
      /\ c'.heartbeat = fired.heartbeat
      /\ KeepsHistory(c, c')
  <2>1. CASE c.stage # "Closing" /\ c.gateway
    <3>1. c' = OpenSocket(fired, stage)
      BY <1>6, <2>1
    <3>2. stage \in {"SystemInfo", "Login"} /\ (stage = "Login" => fired.resolved)
      BY <1>5
    <3> HIDE DEF stage
    <3>3. fired.connected = FALSE /\ fired.socket = "Unconnected" /\ fired.attempts <= 1
      BY <1>4, <1>5
    <3>4. /\ c' \in Client /\ TickerSound(c') /\ c'.connected = FALSE
          /\ c'.heartbeat = fired.heartbeat /\ KeepsHistory(fired, c')
      BY <1>5, <3>1, <3>2, <3>3, OpenSocketEffect
    <3> QED BY <1>5, <3>4 DEF KeepsHistory
  <2>2. CASE ~(c.stage # "Closing" /\ c.gateway)
    <3>1. c' = fired
      BY <1>6, <2>2
    <3> QED BY <1>3, <1>4, <1>5, <3>1 DEF Good, Sound, TickerSound
  <2> QED BY <2>1, <2>2
<1>8. Good(c')
  BY <1>3, <1>4, <1>5, <1>7, TickerStep
<1> QED BY <1>2, <1>7, <1>8 DEF GoodStep, KeepsHistory

\* connected() of the ticker socket keeps the invariant.
LEMMA SocketConnectedGood ==
  ASSUME IInv, SocketConnected
  PROVE  GoodStep
<1>1. c.socket = "Connecting" /\ c # NewClient
  BY DEF SocketConnected, NewClient
<1>2. c.command # "none"
  BY <1>1, Started
<1>3. Good(c) /\ c \in Client /\ TickerSound(c)
  BY DEF IInv, Good, Sound
<1> DEFINE up == [c EXCEPT !.socket = "Connected"]
<1>4. c' = OnSocketConnected(up)
  BY DEF SocketConnected
<1>5. /\ up \in Client /\ up.socket = "Connected" /\ up.wire = c.wire /\ up.stage = c.stage
      /\ up.connected = c.connected /\ up.heartbeat = c.heartbeat /\ up.retry = c.retry
      /\ up.streamed = c.streamed
      /\ up.attempts = c.attempts /\ up.resolved = c.resolved /\ KeepsHistory(c, up)
  BY <1>3 DEF Client, SocketStates, KeepsHistory
<1> HIDE DEF up
<1>6. c.wire = "nothing" /\ c.connected = FALSE /\ ~c.retry
  <2>1. c.connected \in BOOLEAN
    BY <1>3 DEF Client
  <2> QED BY <1>1, <1>3, <2>1 DEF TickerSound
<1>7. \E w \in {"nothing", "sysinfo", "login"} :
         /\ c' = [up EXCEPT !.wire = w]
         /\ w = "sysinfo" => up.stage = "SystemInfo"
         /\ w = "login" => up.stage = "Login"
  <2>1. CASE up.stage = "SystemInfo"
    BY <1>4, <2>1 DEF OnSocketConnected
  <2>2. CASE up.stage = "Login"
    BY <1>4, <2>2 DEF OnSocketConnected
  <2>3. CASE up.stage \notin {"SystemInfo", "Login"}
    <3>1. c' = up
      BY <1>4, <2>3 DEF OnSocketConnected
    <3>2. up = [up EXCEPT !.wire = "nothing"]
      BY <1>5, <1>6 DEF Client
    <3> QED BY <3>1, <3>2
  <2> QED BY <2>1, <2>2, <2>3
<1>8. PICK w \in {"nothing", "sysinfo", "login"} :
         /\ c' = [up EXCEPT !.wire = w]
         /\ w = "sysinfo" => up.stage = "SystemInfo"
         /\ w = "login" => up.stage = "Login"
  BY <1>7
<1>9. /\ c' \in Client /\ c'.socket = up.socket /\ c'.wire = w /\ c'.stage = up.stage
      /\ c'.connected = up.connected /\ c'.heartbeat = up.heartbeat /\ c'.retry = up.retry
      /\ c'.streamed = up.streamed
      /\ c'.attempts = up.attempts /\ c'.resolved = up.resolved /\ KeepsHistory(up, c')
  BY <1>5, <1>8 DEF Client, KeepsHistory
<1>10. TickerSound(c') /\ c'.connected = FALSE /\ c'.heartbeat = c.heartbeat
  BY <1>3, <1>5, <1>6, <1>8, <1>9 DEF TickerSound
<1>11. KeepsHistory(c, c')
  BY <1>5, <1>9 DEF KeepsHistory
<1>12. Good(c')
  BY <1>3, <1>6, <1>9, <1>10, <1>11, TickerStep
<1> QED BY <1>2, <1>11, <1>12 DEF GoodStep, KeepsHistory

\* Every event answered by fail() keeps the invariant.
LEMMA FailGood ==
  ASSUME IInv, c # NewClient \/ ~Quiet, c' = Fail(c)
  PROVE  GoodStep
<1>1. c.command # "none" /\ Good(c) /\ Sound(c)
  BY Started DEF IInv, Good
<1>2. /\ c' \in Client /\ TickerSound(c') /\ c'.connected = FALSE /\ c'.heartbeat = FALSE
      /\ KeepsHistory(c, c')
  BY <1>1, FailEffect
<1>3. Good(c')
  BY <1>1, <1>2, TickerStep
<1> QED BY <1>1, <1>2, <1>3 DEF GoodStep, KeepsHistory

\* disconnected() of the ticker socket keeps the invariant.
LEMMA SocketDisconnectedGood ==
  ASSUME IInv, SocketDisconnected
  PROVE  GoodStep
<1>1. c # NewClient
  BY DEF SocketDisconnected, NewClient
<1>2. c.command # "none" /\ Good(c) /\ c' = OnSocketDisconnected(SocketGone(c))
  BY <1>1, Started DEF IInv, SocketDisconnected
<1>3. Severable(c)
  BY <1>2 DEF Good, Sound, TickerSound, Severable
<1>4. /\ c' \in Client /\ TickerSound(c') /\ c'.connected = FALSE
      /\ c'.heartbeat => c.heartbeat /\ (c.connected => c.historyConnected)
      /\ KeepsHistory(c, c')
  BY <1>2, <1>3, DisconnectedEffect
<1>5. Good(c')
  BY <1>2, <1>4, TickerStep
<1> QED BY <1>2, <1>4, <1>5 DEF GoodStep, KeepsHistory

\* A system-info response keeps the invariant.
LEMMA SystemInfoGood ==
  ASSUME IInv, NEW atOnce \in BOOLEAN, ReceiveSystemInfo(atOnce)
  PROVE  GoodStep
<1>1. c.wire = "sysinfo" /\ c # NewClient
  BY DEF ReceiveSystemInfo, Opens, NewClient
<1>2. c.command # "none"
  BY <1>1, Started
<1>3. Good(c) /\ c \in Client /\ TickerSound(c)
  BY DEF IInv, Good, Sound
<1> DEFINE m == [c EXCEPT !.resolved = TRUE, !.stage = "AwaitingSystemInfoClose"]
<1>4. c' = Close(m, atOnce)
  BY DEF ReceiveSystemInfo
<1>5. /\ m \in Client /\ m.resolved = TRUE /\ m.stage = "AwaitingSystemInfoClose"
      /\ m.connected = c.connected /\ m.heartbeat = c.heartbeat /\ m.retry = c.retry
      /\ m.streamed = c.streamed
      /\ m.attempts = c.attempts /\ m.socket = c.socket /\ KeepsHistory(c, m)
  BY <1>3 DEF Client, Stages, KeepsHistory
<1> HIDE DEF m
<1>6. c.connected = FALSE /\ c.retry = FALSE /\ c.socket = "Connected" /\ c.attempts <= 1
  <2>1. c.connected \in BOOLEAN /\ c.retry \in BOOLEAN
    BY <1>3 DEF Client
  <2> QED BY <1>1, <1>3, <2>1 DEF TickerSound
<1>7. Severable(m)
  BY <1>5, <1>6 DEF Severable
<1>8. /\ c' \in Client /\ TickerSound(c') /\ c'.connected = FALSE
      /\ c'.heartbeat => m.heartbeat
      /\ KeepsHistory(m, c')
  BY <1>4, <1>5, <1>6, <1>7, CloseEffect
<1>9. KeepsHistory(c, c')
  BY <1>5, <1>8 DEF KeepsHistory
<1>10. Good(c')
  BY <1>3, <1>5, <1>6, <1>8, <1>9, TickerStep
<1> QED BY <1>2, <1>9, <1>10 DEF GoodStep, KeepsHistory

\* connectedHandler_ may replace the subscription and start a backfill before
\* the login handler subscribes: Streams holds of its last step only.
LEMMA LoginGood ==
  ASSUME IInv, NEW i \in Instruments \cup {None}, NEW backfill \in BOOLEAN,
         ReceiveLogin(i, backfill)
  PROVE  GoodStep
<1>1. c.wire = "login" /\ c # NewClient
  BY DEF ReceiveLogin, Opens, NewClient
<1>2. c.command # "none"
  BY <1>1, Started
<1>3. Good(c) /\ Sound(c) /\ c \in Client
  BY DEF IInv, Good, Sound
<1> DEFINE live == [c EXCEPT !.connected = TRUE, !.stage = "Active", !.heartbeat = TRUE,
                             !.attempts = 0, !.wire = "session"]
           attached == IF i = None THEN live ELSE Subscribe(live, i)
           asked == IF backfill THEN Backfill(attached, i) ELSE attached
<1>4. c' = SendPendingSubscription(asked) /\ (backfill => i \in Instruments)
  BY DEF ReceiveLogin
<1>5. /\ live \in Client /\ live.connected = TRUE /\ live.stage = "Active"
      /\ live.heartbeat = TRUE /\ live.attempts = 0 /\ live.wire = "session"
      /\ live.socket = c.socket /\ live.retry = c.retry /\ live.streamed = c.streamed
      /\ live.resolved = c.resolved
      /\ KeepsHistory(c, live)
  BY <1>3 DEF Client, Stages, KeepsHistory
<1> HIDE DEF live
<1>6. Sound(live) /\ Served(live)
  <2>1. c.socket = "Connected" /\ ~c.retry /\ c.resolved
    BY <1>1, <1>3 DEF Sound, TickerSound
  <2>2. TickerSound(live) /\ HistorySound(live) /\ Beats(live)
    BY <1>3, <1>5, <2>1 DEF Sound, TickerSound, HistorySound, Beats, KeepsHistory
  <2> QED BY <1>3, <1>5, <2>2 DEF Sound, Good, Served, KeepsHistory
<1>7. Sound(attached) /\ Served(attached) /\ attached.command = c.command
  <2>1. CASE i = None
    BY <1>5, <1>6, <2>1 DEF KeepsHistory
  <2>2. CASE i # None
    <3>1. attached = Subscribe(live, i) /\ i \in Instruments
      BY <2>2
    <3> HIDE DEF attached
    <3>2. Sound(attached) /\ KeepsHistory(live, attached)
      BY <1>6, <3>1, SubscribeEffect
    <3> QED BY <1>5, <1>6, <3>2 DEF Served, KeepsHistory
  <2> QED BY <2>1, <2>2
<1> HIDE DEF attached
<1>8. Sound(asked) /\ Served(asked) /\ asked.command = c.command
  <2>1. CASE ~backfill
    BY <1>7, <2>1
  <2>2. CASE backfill
    <3>1. asked = Backfill(attached, i) /\ i \in Instruments
      BY <1>4, <2>2
    <3> HIDE DEF asked
    <3>2. Sound(asked) /\ Served(asked) /\ KeepsTicker(attached, asked)
      BY <1>7, <3>1, BackfillEffect
    <3> QED BY <1>7, <3>2 DEF KeepsTicker
  <2> QED BY <2>1, <2>2
<1> HIDE DEF asked
<1>9. Sound(c') /\ Streams(c') /\ KeepsHistory(asked, c')
  BY <1>4, <1>8, SendPendingSubscriptionEffect
<1> QED BY <1>2, <1>8, <1>9 DEF GoodStep, Good, Served, KeepsHistory

\* connected() of the history socket keeps the invariant.
LEMMA HistoryConnectedGood ==
  ASSUME IInv, HistorySocketConnected
  PROVE  GoodStep /\ KeepsTicker(c, c')
<1>1. c.historySocket = "Connecting" /\ c # NewClient
  BY DEF HistorySocketConnected, NewClient
<1>2. c.command # "none"
  BY <1>1, Started
<1>3. Good(c) /\ Sound(c) /\ c \in Client /\ HistorySound(c)
  BY DEF IInv, Good, Sound
<1> DEFINE up == [c EXCEPT !.historySocket = "Connected"]
<1>4. c' = IF up.historyStage = "Login" THEN [up EXCEPT !.historyWire = "login"] ELSE up
  BY DEF HistorySocketConnected, OnHistorySocketConnected
<1>5. /\ up \in Client /\ up.historySocket = "Connected" /\ up.historyWire = c.historyWire
      /\ up.historyStage = c.historyStage /\ up.historyConnected = c.historyConnected
      /\ up.historyTimer = c.historyTimer /\ up.pendingHistory = c.pendingHistory
      /\ up.replays = c.replays /\ up.unreported = c.unreported
      /\ up.heartbeat = c.heartbeat /\ KeepsTicker(c, up)
  BY <1>3 DEF Client, SocketStates, KeepsTicker
<1> HIDE DEF up
<1>6. c.historyWire = "nothing" /\ c.replays = 0
  <2>1. c.replays \in Nat
    BY <1>3 DEF Client
  <2> QED BY <1>1, <1>3, <2>1 DEF HistorySound
<1>7. \/ c' = up
      \/ c' = [up EXCEPT !.historyWire = "login"] /\ up.historyStage = "Login"
  BY <1>4
<1>8. /\ c' \in Client /\ c'.historySocket = "Connected"
      /\ c'.historyWire \in {"nothing", "login"}
      /\ c'.historyWire = "login" => c'.historyStage = "Login"
      /\ c'.historyStage = c.historyStage /\ c'.historyConnected = c.historyConnected
      /\ c'.historyTimer = c.historyTimer /\ c'.pendingHistory = c.pendingHistory
      /\ c'.replays = c.replays /\ c'.unreported = c.unreported
      /\ c'.heartbeat = c.heartbeat /\ KeepsTicker(c, c')
  <2>1. CASE c' = up
    BY <1>5, <1>6, <2>1
  <2>2. CASE c' = [up EXCEPT !.historyWire = "login"] /\ up.historyStage = "Login"
    <3>1. /\ c' \in Client /\ c'.historySocket = up.historySocket
          /\ c'.historyWire = "login" /\ c'.historyStage = up.historyStage
          /\ c'.historyConnected = up.historyConnected
          /\ c'.historyTimer = up.historyTimer /\ c'.pendingHistory = up.pendingHistory
          /\ c'.replays = up.replays /\ c'.unreported = up.unreported
          /\ c'.heartbeat = up.heartbeat /\ KeepsTicker(up, c')
      BY <1>5, <2>2 DEF Client, KeepsTicker
    <3> QED BY <1>5, <2>2, <3>1 DEF KeepsTicker
  <2> QED BY <1>7, <2>1, <2>2
<1>9. HistorySound(c') /\ Served(c') /\ Beats(c') /\ (c.connected => c'.heartbeat)
  BY <1>3, <1>6, <1>8
     DEF Good, Sound, TickerSound, HistorySound, Served, Beats, KeepsTicker
<1>10. Good(c')
  BY <1>3, <1>8, <1>9, HistoryStep DEF Good
<1> QED BY <1>2, <1>8, <1>10 DEF GoodStep, KeepsTicker

\* Every event answered by failHistory() keeps the invariant.
LEMMA FailHistoryGood ==
  ASSUME IInv, c # NewClient \/ ~Quiet, c' = FailHistory(c)
  PROVE  GoodStep /\ KeepsTicker(c, c')
<1>1. c.command # "none" /\ Good(c) /\ Sound(c)
  BY Started DEF IInv, Good
<1>2. c \in Client /\ HistorySound(c) /\ Beats(c) /\ (c.connected => c.heartbeat)
  BY <1>1 DEF Sound, TickerSound
<1>3. /\ c' \in Client /\ HistorySound(c') /\ c'.unreported = FALSE
      /\ c'.heartbeat = (c.heartbeat /\ c.connected)
      /\ KeepsTicker(c, c')
  BY <1>2, FailHistoryEffect
<1>4. Served(c') /\ Beats(c')
  BY <1>3 DEF Served, Beats, KeepsTicker
<1>5. Good(c')
  BY <1>1, <1>2, <1>3, <1>4, HistoryStep DEF Good
<1> QED BY <1>1, <1>3, <1>5 DEF GoodStep, KeepsTicker

\* disconnected() of the history socket keeps the invariant.
LEMMA HistoryDisconnectedGood ==
  ASSUME IInv, HistorySocketDisconnected
  PROVE  GoodStep /\ KeepsTicker(c, c')
<1>1. c # NewClient
  BY DEF HistorySocketDisconnected, NewClient
<1>2. c.command # "none" /\ Good(c) /\ Sound(c)
  BY <1>1, Started DEF IInv, Good
<1>3. c' = OnHistorySocketDisconnected(HistoryGone(c))
  BY DEF HistorySocketDisconnected
<1>4. /\ c \in Client /\ (c.connected => c.heartbeat)
      /\ c.historyStage \in {"Closing", "Idle"} => (c.heartbeat => c.connected)
      /\ c.historyStage \in {"Closing", "Idle"} => ~c.unreported
      /\ c.unreported \in BOOLEAN
  BY <1>2 DEF Good, Sound, TickerSound, HistorySound, Beats, Served, Client
<1>5. /\ c' \in Client /\ HistorySound(c')
      /\ c.historyStage \notin {"Closing", "Idle"} \/ c.unreported = FALSE => c'.unreported = FALSE
      /\ c'.heartbeat = (c.heartbeat /\ c.connected)
      /\ KeepsTicker(c, c')
  BY <1>3, <1>4, HistoryDroppedEffect
<1>6. Served(c') /\ Beats(c')
  BY <1>4, <1>5 DEF Served, Beats, KeepsTicker
<1>7. Good(c')
  BY <1>2, <1>4, <1>5, <1>6, HistoryStep DEF Good
<1> QED BY <1>2, <1>5, <1>7 DEF GoodStep, KeepsTicker

\* The completion timer keeps the invariant.
LEMMA HistoryTimeoutGood ==
  ASSUME IInv, HistoryCompletionTimeout
  PROVE  GoodStep /\ KeepsTicker(c, c')
<1>1. c.historyTimer /\ c # NewClient
  BY DEF HistoryCompletionTimeout, NewClient
<1>2. c.command # "none"
  BY <1>1, Started
<1>3. Good(c) /\ Sound(c) /\ c \in Client /\ HistorySound(c)
  BY DEF IInv, Good, Sound
<1> DEFINE fired == [c EXCEPT !.historyTimer = FALSE]
<1>4. c' = IF c.historyStage = "Backfilling" THEN FinishHistoryRequest(fired) ELSE fired
  BY DEF HistoryCompletionTimeout
<1>5. /\ fired \in Client /\ fired.historySocket = c.historySocket
      /\ fired.historyWire = c.historyWire /\ fired.historyStage = c.historyStage
      /\ fired.historyConnected = c.historyConnected
      /\ fired.pendingHistory = c.pendingHistory /\ fired.replays = c.replays
      /\ fired.unreported = c.unreported /\ fired.heartbeat = c.heartbeat
      /\ KeepsTicker(c, fired)
  BY <1>3 DEF Client, KeepsTicker
<1> HIDE DEF fired
<1>6. HistorySound(fired)
  BY <1>3, <1>5 DEF HistorySound
<1>7. /\ c' \in Client /\ HistorySound(c') /\ Served(c')
      /\ c'.historyConnected = c.historyConnected
      /\ c'.heartbeat = c.heartbeat /\ KeepsTicker(c, c')
  <2>1. CASE c.historyStage = "Backfilling"
    <3>1. c' = FinishHistoryRequest(fired)
      BY <1>4, <2>1
    <3>2. fired.historyWire # "login"
      BY <1>5, <1>6, <2>1 DEF HistorySound
    <3>3. /\ c' \in Client /\ HistorySound(c') /\ c'.unreported = FALSE
          /\ c'.historyConnected = fired.historyConnected
          /\ c'.heartbeat = fired.heartbeat /\ KeepsTicker(fired, c')
      BY <1>5, <1>6, <3>1, <3>2, FinishEffect
    <3> QED BY <1>5, <3>3 DEF Served, KeepsTicker
  <2>2. CASE c.historyStage # "Backfilling"
    <3>1. c' = fired
      BY <1>4, <2>2
    <3> QED BY <1>3, <1>5, <1>6, <2>2, <3>1 DEF Good, Served
  <2> QED BY <2>1, <2>2
<1>8. Beats(c') /\ (c.connected => c'.heartbeat)
  BY <1>3, <1>7 DEF Sound, TickerSound, Beats, KeepsTicker
<1>9. Good(c')
  BY <1>3, <1>7, <1>8, HistoryStep DEF Good
<1> QED BY <1>2, <1>7, <1>9 DEF GoodStep, KeepsTicker

\* A history login response keeps the invariant: it dispatches the pending request.
LEMMA HistoryLoginGood ==
  ASSUME IInv, ReceiveHistoryLogin
  PROVE  GoodStep /\ KeepsTicker(c, c')
<1>1. c.historyWire = "login" /\ c # NewClient
  BY DEF ReceiveHistoryLogin, HistoryOpens, NewClient
<1>2. c.command # "none"
  BY <1>1, Started
<1>3. Good(c) /\ Sound(c) /\ c \in Client /\ HistorySound(c)
  BY DEF IInv, Good, Sound
<1>4. c.historySocket = "Connected" /\ c.pendingHistory # None /\ c.replays = 0
  <2>1. c.replays \in Nat
    BY <1>3 DEF Client
  <2> QED BY <1>1, <1>3, <2>1 DEF HistorySound
<1> DEFINE live == [c EXCEPT !.historyConnected = TRUE, !.historyStage = "Active",
                             !.heartbeat = TRUE, !.historyWire = "session"]
<1>5. c' = SendPendingHistoryRequest(live)
  BY DEF ReceiveHistoryLogin
<1>6. /\ live \in Client /\ live.historySocket = c.historySocket
      /\ live.historyWire = "session" /\ live.historyStage = "Active"
      /\ live.historyConnected = TRUE /\ live.pendingHistory = c.pendingHistory
      /\ live.replays = c.replays /\ live.heartbeat = TRUE /\ KeepsTicker(c, live)
  BY <1>3 DEF Client, HistoryStages, KeepsTicker
<1> HIDE DEF live
<1>7. HistorySound(live)
  BY <1>4, <1>6 DEF HistorySound
<1>8. /\ c' \in Client /\ HistorySound(c') /\ Served(c') /\ c'.historyConnected = TRUE
      /\ c'.heartbeat = live.heartbeat /\ KeepsTicker(live, c')
  BY <1>4, <1>5, <1>6, <1>7, SendPendingHistoryEffect
<1>9. KeepsTicker(c, c') /\ Beats(c') /\ c'.heartbeat
  BY <1>6, <1>8 DEF KeepsTicker, Beats
<1>10. Good(c')
  BY <1>3, <1>8, <1>9, HistoryStep DEF Good
<1> QED BY <1>2, <1>9, <1>10 DEF GoodStep, KeepsTicker

\* A bar keeps the invariant, also one decoded after its connection was cut.
LEMMA BarGood ==
  ASSUME IInv, ReceiveBar
  PROVE  GoodStep /\ KeepsTicker(c, c')
<1>1. c.historyWire = "session" \/ hframe = "session"
  BY DEF ReceiveBar, ReplayPayload, HistoryOpens
<1>2. c # NewClient \/ ~Quiet
  BY <1>1 DEF NewClient, Quiet
<1>3. c.command # "none" /\ Good(c) /\ Sound(c) /\ c \in Client /\ HistorySound(c)
  BY <1>2, Started DEF IInv, Good, Sound
<1> DEFINE n == c.barsLoaded + 1
<1>4. c' = [c EXCEPT !.barsLoaded = n, !.historyTimer = TRUE] /\ n \in Nat
  BY <1>3 DEF ReceiveBar, Client
<1> HIDE DEF n
<1>5. /\ c' \in Client /\ c'.historySocket = c.historySocket
      /\ c'.historyWire = c.historyWire /\ c'.historyStage = c.historyStage
      /\ c'.historyConnected = c.historyConnected /\ c'.historyTimer = TRUE
      /\ c'.pendingHistory = c.pendingHistory /\ c'.replays = c.replays
      /\ c'.unreported = c.unreported /\ c'.heartbeat = c.heartbeat
      /\ KeepsTicker(c, c')
  BY <1>3, <1>4 DEF Client, KeepsTicker
<1>6. HistorySound(c') /\ Served(c') /\ Beats(c') /\ (c.connected => c'.heartbeat)
  BY <1>3, <1>5 DEF Good, Sound, TickerSound, HistorySound, Served, Beats, KeepsTicker
<1>7. Good(c')
  BY <1>3, <1>5, <1>6, HistoryStep DEF Good
<1> QED BY <1>3, <1>5, <1>7 DEF GoodStep, KeepsTicker

\* An end-of-bars marker keeps the invariant, also one decoded late.
LEMMA EndOfBarsGood ==
  ASSUME IInv, ReceiveEndOfBars
  PROVE  GoodStep /\ KeepsTicker(c, c')
<1>1. c.historyWire = "session" \/ hframe = "session"
  BY DEF ReceiveEndOfBars, ReplayPayload, HistoryOpens
<1>2. c # NewClient \/ ~Quiet
  BY <1>1 DEF NewClient, Quiet
<1>3. c.command # "none" /\ Good(c) /\ Sound(c) /\ c \in Client /\ HistorySound(c)
  BY <1>2, Started DEF IInv, Good, Sound
<1>4. c.historyWire # "login"
  <2>1. c.replays > 0 \/ c.historyWire \in {"session", "nothing"}
    BY DEF ReceiveEndOfBars, ReplayPayload, HistoryOpens
  <2> QED BY <1>3, <2>1 DEF HistorySound
<1> DEFINE n == IF c.replays > 0 THEN c.replays - 1 ELSE 0
           m == [c EXCEPT !.replays = n]
<1>5. c.replays \in Nat /\ n \in Nat /\ (n > 0 => c.replays > 0)
  BY <1>3 DEF Client
<1>6. c' = FinishHistoryRequest(m)
  BY <1>3 DEF ReceiveEndOfBars, Client
<1> HIDE DEF n
<1>7. /\ m \in Client /\ m.historySocket = c.historySocket
      /\ m.historyWire = c.historyWire /\ m.historyStage = c.historyStage
      /\ m.historyConnected = c.historyConnected /\ m.pendingHistory = c.pendingHistory
      /\ m.replays = n /\ m.heartbeat = c.heartbeat /\ KeepsTicker(c, m)
  BY <1>3, <1>5 DEF Client, KeepsTicker
<1> HIDE DEF m
<1>8. HistorySound(m)
  BY <1>3, <1>5, <1>7 DEF HistorySound
<1>9. /\ c' \in Client /\ HistorySound(c') /\ c'.unreported = FALSE
      /\ c'.historyConnected = m.historyConnected
      /\ c'.heartbeat = m.heartbeat /\ KeepsTicker(m, c')
  BY <1>4, <1>6, <1>7, <1>8, FinishEffect
<1>10. /\ KeepsTicker(c, c') /\ Served(c') /\ Beats(c') /\ (c.connected => c'.heartbeat)
  BY <1>3, <1>7, <1>9 DEF Sound, TickerSound, Served, Beats, KeepsTicker
<1>11. Good(c')
  BY <1>3, <1>9, <1>10, HistoryStep DEF Good
<1> QED BY <1>3, <1>10, <1>11 DEF GoodStep, KeepsTicker

-----------------------------------------------------------------------------
(* The invariant and what follows from it *)

\* The invariant holds of a new client.
LEMMA InitialIInv ==
  ASSUME Init
  PROVE  IInv
<1>1. c \in Client
  BY DEF Init, NewClient, Client, Stages, HistoryStages, SocketStates
<1>2. /\ c.connected = FALSE /\ c.heartbeat = FALSE /\ c.retry = FALSE /\ c.attempts = 0
      /\ c.wire = "nothing" /\ c.stage = "Idle" /\ c.historyStage = "Idle"
      /\ c.historyWire = "nothing" /\ c.replays = 0 /\ c.historyConnected = FALSE
      /\ c.unreported = FALSE /\ c.streamed = {}
  BY DEF Init, NewClient
<1> QED BY <1>1, <1>2
         DEF Init, IInv, Good, Sound, TickerSound, HistorySound, Beats, Streams, Served, Quiet

\* Every step keeps the two frame variables in their range.
LEMMA FramesTyped ==
  ASSUME IInv, Next
  PROVE  /\ frame' \in {"none", "handshake", "session"}
         /\ hframe' \in {"none", "handshake", "session"}
<1>1. frame \in {"none", "handshake", "session"} /\ hframe \in {"none", "handshake", "session"}
  BY DEF IInv
<1>2. CASE Adapter
  BY <1>1, <1>2 DEF Adapter, ConnectToTickerPlant, DisconnectFromPlant, SubscribeMarketData,
                    RequestTimeBarBackfill
<1>3. CASE Timers
  BY <1>1, <1>3 DEF Timers, ReconnectTimeout, HistoryCompletionTimeout
<1>4. CASE Sockets
  BY <1>1, <1>4 DEF Sockets, SocketConnected, SocketError, SocketDisconnected,
                    HistorySocketConnected, HistorySocketError, HistorySocketDisconnected
<1>5. CASE TickerPayloads
  BY <1>1, <1>5 DEF TickerPayloads, ReceiveSystemInfo, ReceiveLogin, ReceiveRefusal,
                    ReceiveData, EndOfFrame
<1>6. CASE HistoryPayloads
  BY <1>1, <1>6 DEF HistoryPayloads, ReceiveHistoryLogin, ReceiveBar, ReceiveEndOfBars,
                    ReceiveHistoryRefusal, EndOfHistoryFrame
<1> QED BY <1>2, <1>3, <1>4, <1>5, <1>6 DEF Next

\* Every step keeps the invariant, and only a disconnect commands a disconnect.
LEMMA EveryStep ==
  ASSUME IInv, Next
  PROVE  \/ GoodStep
         \/ \E atOnce, historyAtOnce \in BOOLEAN : DisconnectFromPlant(atOnce, historyAtOnce)
<1>1. CASE Adapter
  BY <1>1, ConnectGood, SubscribeGood, BackfillGood DEF Adapter
<1>2. CASE Timers
  BY <1>2, ReconnectGood, HistoryTimeoutGood DEF Timers
<1>3. CASE Sockets
  <2>1. ASSUME SocketError PROVE GoodStep
    <3>1. c # NewClient /\ c' = Fail(c)
      BY <2>1 DEF SocketError, NewClient
    <3> QED BY <3>1, FailGood
  <2>2. ASSUME HistorySocketError PROVE GoodStep
    <3>1. c # NewClient /\ c' = FailHistory(c)
      BY <2>2 DEF HistorySocketError, NewClient
    <3> QED BY <3>1, FailHistoryGood
  <2> QED BY <1>3, <2>1, <2>2, SocketConnectedGood, SocketDisconnectedGood,
             HistoryConnectedGood, HistoryDisconnectedGood DEF Sockets
<1>4. CASE TickerPayloads
  <2>1. ASSUME ReceiveRefusal PROVE GoodStep
    <3>1. (c # NewClient \/ ~Quiet) /\ c' = Fail(c)
      BY <2>1 DEF ReceiveRefusal, Opens, NewClient, Quiet
    <3> QED BY <3>1, FailGood
  <2>2. ASSUME ReceiveData \/ EndOfFrame PROVE GoodStep
    <3>1. c' = c /\ (c # NewClient \/ ~Quiet)
      BY <2>2 DEF ReceiveData, EndOfFrame, Opens, NewClient, Quiet
    <3>2. c.command # "none" /\ Good(c)
      BY <3>1, Started DEF IInv
    <3> QED BY <3>1, <3>2 DEF GoodStep
  <2> QED BY <1>4, <2>1, <2>2, SystemInfoGood, LoginGood DEF TickerPayloads
<1>5. CASE HistoryPayloads
  <2>1. ASSUME ReceiveHistoryRefusal PROVE GoodStep
    <3>1. (c # NewClient \/ ~Quiet) /\ c' = FailHistory(c)
      BY <2>1 DEF ReceiveHistoryRefusal, HistoryOpens, NewClient, Quiet
    <3> QED BY <3>1, FailHistoryGood
  <2>2. ASSUME EndOfHistoryFrame PROVE GoodStep
    <3>1. c' = c /\ ~Quiet
      BY <2>2 DEF EndOfHistoryFrame, Quiet
    <3>2. c.command # "none" /\ Good(c)
      BY <3>1, Started DEF IInv
    <3> QED BY <3>1, <3>2 DEF GoodStep
  <2> QED BY <1>5, <2>1, <2>2, HistoryLoginGood, BarGood, EndOfBarsGood DEF HistoryPayloads
<1> QED BY <1>1, <1>2, <1>3, <1>4, <1>5 DEF Next

\* The invariant is inductive.
LEMMA NextIInv ==
  ASSUME IInv, [Next]_vars
  PROVE  IInv'
<1>1. CASE UNCHANGED vars
  BY <1>1 DEF IInv, Quiet, vars
<1>2. CASE Next
  <2>1. Good(c') /\ c'.command # "none"
    BY <1>2, EveryStep, DisconnectGood DEF GoodStep
  <2> QED BY <1>2, <2>1, FramesTyped DEF IInv
<1> QED BY <1>1, <1>2

\* Every state of every run satisfies the inductive invariant.
THEOREM Invariance == Spec => []IInv
<1>1. Init => IInv
  BY InitialIInv
<1>2. IInv /\ [Next]_vars => IInv'
  BY NextIInv
<1> QED BY <1>1, <1>2, PTL DEF Spec

\* The client record and the frames keep their types.
THEOREM TypesCorrect == Spec => []TypeOK
<1>1. IInv => TypeOK
  BY DEF IInv, Good, Sound, TypeOK
<1> QED BY <1>1, Invariance, PTL

\* connected_ is set exactly while the gateway holds a session, which is validated,
\* kept alive and streams the instrument the adapter asked for last.
THEOREM SessionsAgree == Spec => []SessionAgreed
<1>1. IInv => SessionAgreed
  BY DEF IInv, Good, Sound, TickerSound, Streams, SessionAgreed, IsConnected
<1> QED BY <1>1, Invariance, PTL

\* The shared heartbeat timer runs only while one of the plants is logged in.
THEOREM HeartbeatsHaveSessions == Spec => []HeartbeatHasSession
<1>1. IInv => HeartbeatHasSession
  BY DEF IInv, Good, Sound, Beats, HeartbeatHasSession
<1> QED BY <1>1, Invariance, PTL

\* A reconnect is armed only over a dead socket, and always with the first delay.
THEOREM ReconnectsAreAlone == Spec => []ReconnectIsAlone
<1>1. IInv => ReconnectIsAlone
  <2>1. IInv => TickerSound(c) /\ c.attempts \in Nat
    BY DEF IInv, Good, Sound, Client
  <2> QED BY <2>1 DEF TickerSound, ReconnectIsAlone
<1> QED BY <1>1, Invariance, PTL

\* A backfill the adapter waits for is always being logged in for or replayed under
\* an armed completion timer.
THEOREM BackfillsAreServed == Spec => []BackfillNeverForgotten
<1>1. IInv => BackfillNeverForgotten
  BY DEF IInv, Good, Served, BackfillNeverForgotten
<1> QED BY <1>1, Invariance, PTL

\* The history stage, its flag, its socket and the gateway's history session agree.
THEOREM HistoriesAgree == Spec => []HistoryAgreed
<1>1. IInv => HistoryAgreed
  BY DEF IInv, Good, Sound, HistorySound, HistoryAgreed
<1> QED BY <1>1, Invariance, PTL

\* A login is only sent after the systems were validated.
THEOREM LoginsAreValidated == Spec => []LoginIsValidated
<1>1. IInv => LoginIsValidated
  BY DEF IInv, Good, Sound, TickerSound, LoginIsValidated
<1> QED BY <1>1, Invariance, PTL

-----------------------------------------------------------------------------
(* After disconnectFromPlant *)

\* What a disconnect leaves behind: nothing armed, nothing open, nothing held.
Shut(k) ==
    /\ k.stage \in {"Closing", "Idle"} /\ k.historyStage \in {"Closing", "Idle"}
    /\ k.socket \in {"Unconnected", "Closing"}
    /\ k.historySocket \in {"Unconnected", "Closing"}
    /\ k.retry = FALSE /\ k.heartbeat = FALSE /\ k.historyTimer = FALSE
    /\ k.connected = FALSE /\ k.historyConnected = FALSE
    /\ k.wire = "nothing" /\ k.historyWire = "nothing" /\ k.replays = 0
    /\ k.streamed = {}

ShutInv == c.command = "disconnect" => Shut(c) /\ Quiet

\* After a disconnect, the end of the ticker socket revives nothing.
LEMMA ShutSocketGone ==
  ASSUME NEW k \in Client, Shut(k)
  PROVE  LET l == OnSocketDisconnected(SocketGone(k)) IN
         l \in Client /\ Shut(l) /\ l.command = k.command
<1> DEFINE g == SocketGone(k)
           l == OnSocketDisconnected(g)
<1> SUFFICES l \in Client /\ Shut(l) /\ l.command = k.command
  OBVIOUS
<1>1. g \in Client /\ Shut(g) /\ g.command = k.command
  BY DEF SocketGone, Shut, Client, SocketStates
<1>2. l = [g EXCEPT !.stage = "Idle", !.connected = FALSE]
  BY <1>1 DEF OnSocketDisconnected, Shut
<1> HIDE DEF l, g
<1> QED BY <1>1, <1>2 DEF Shut, Client, Stages

\* After a disconnect, the end of the history socket revives nothing.
LEMMA ShutHistoryGone ==
  ASSUME NEW k \in Client, Shut(k)
  PROVE  LET l == OnHistorySocketDisconnected(HistoryGone(k)) IN
         l \in Client /\ Shut(l) /\ l.command = k.command
<1> DEFINE g == HistoryGone(k)
           l == OnHistorySocketDisconnected(g)
<1> SUFFICES l \in Client /\ Shut(l) /\ l.command = k.command
  OBVIOUS
<1>1. g \in Client /\ Shut(g) /\ g.command = k.command
  BY DEF HistoryGone, Shut, Client, SocketStates
<1>2. l = [g EXCEPT !.historyTimer = FALSE, !.historyConnected = FALSE, !.historyStage = "Idle"]
  BY <1>1 DEF OnHistorySocketDisconnected, Shut
<1> HIDE DEF l, g
<1> QED BY <1>1, <1>2 DEF Shut, Client, HistoryStages

\* After a disconnect, a late ticker error revives nothing.
LEMMA ShutFail ==
  ASSUME NEW k \in Client, Shut(k)
  PROVE  LET l == Fail(k) IN l \in Client /\ Shut(l) /\ l.command = k.command
<1> DEFINE off == [k EXCEPT !.heartbeat = FALSE, !.retry = FALSE, !.connected = FALSE]
           cut == IF off.stage = "Closing" THEN off ELSE Abort(off)
           l == [cut EXCEPT !.stage = "Idle", !.told = TRUE]
<1> SUFFICES l \in Client /\ Shut(l) /\ l.command = k.command
  BY DEF Fail
<1>1. off \in Client /\ Shut(off) /\ off.command = k.command
  BY DEF Client, Shut
<1> HIDE DEF off
<1>2. cut \in Client /\ Shut(cut) /\ cut.command = k.command
  BY <1>1, ShutSocketGone DEF Abort
<1> HIDE DEF cut
<1> QED BY <1>2 DEF Shut, Client, Stages

\* After a disconnect, a late history error revives nothing.
LEMMA ShutFailHistory ==
  ASSUME NEW k \in Client, Shut(k)
  PROVE  LET l == FailHistory(k) IN l \in Client /\ Shut(l) /\ l.command = k.command
<1> DEFINE off == [k EXCEPT !.historyTimer = FALSE, !.historyConnected = FALSE]
           cut == IF off.historyStage = "Closing" THEN off ELSE AbortHistory(off)
           l == [[cut EXCEPT !.historyStage = "Idle"] EXCEPT !.unreported = FALSE]
<1> SUFFICES l \in Client /\ Shut(l) /\ l.command = k.command
  BY DEF FailHistory, Report
<1>1. off \in Client /\ Shut(off) /\ off.command = k.command
  BY DEF Client, Shut
<1> HIDE DEF off
<1>2. cut \in Client /\ Shut(cut) /\ cut.command = k.command
  BY <1>1, ShutHistoryGone DEF AbortHistory
<1> HIDE DEF cut
<1> QED BY <1>2 DEF Shut, Client, HistoryStages

\* disconnectFromPlant, whichever socket ends at once, shuts both plants.
LEMMA ShutClose ==
  ASSUME NEW k \in Client, NEW atOnce \in BOOLEAN, NEW historyAtOnce \in BOOLEAN,
         k.stage = "Closing", k.historyStage = "Closing", k.connected = FALSE,
         k.historyConnected = FALSE, k.heartbeat = FALSE, k.retry = FALSE,
         k.historyTimer = FALSE,
         k.socket = "Unconnected" => k.wire = "nothing" /\ k.streamed = {},
         k.historySocket = "Unconnected" => k.historyWire = "nothing" /\ k.replays = 0
  PROVE  Shut(CloseHistory(Close(k, atOnce), historyAtOnce))
<1> DEFINE m == Close(k, atOnce)
           l == CloseHistory(m, historyAtOnce)
<1> SUFFICES Shut(l)
  OBVIOUS
<1>1. /\ m \in Client /\ m.stage \in {"Closing", "Idle"} /\ m.historyStage = "Closing"
      /\ m.socket \in {"Unconnected", "Closing"} /\ m.historySocket = k.historySocket
      /\ m.retry = FALSE /\ m.heartbeat = FALSE /\ m.historyTimer = FALSE
      /\ m.connected = FALSE /\ m.historyConnected = FALSE
      /\ m.wire = "nothing" /\ m.streamed = {}
      /\ m.historyWire = k.historyWire /\ m.replays = k.replays
  <2>1. CASE k.socket = "Unconnected"
    <3>1. m = k
      BY <2>1 DEF Close
    <3> HIDE DEF m
    <3> QED BY <2>1, <3>1
  <2>2. CASE k.socket # "Unconnected" /\ atOnce
    <3> DEFINE g == SocketGone(k)
    <3>1. /\ g \in Client /\ g.socket = "Unconnected" /\ g.wire = "nothing" /\ g.streamed = {}
          /\ g.stage = "Closing" /\ g.historyStage = "Closing" /\ g.heartbeat = FALSE
          /\ g.retry = FALSE /\ g.historyTimer = FALSE /\ g.historyConnected = FALSE
          /\ g.historySocket = k.historySocket /\ g.historyWire = k.historyWire
          /\ g.replays = k.replays
      BY DEF SocketGone, Client, SocketStates
    <3>2. m = [g EXCEPT !.stage = "Idle", !.connected = FALSE]
      BY <2>2, <3>1 DEF Close, OnSocketDisconnected
    <3> HIDE DEF m, g
    <3> QED BY <3>1, <3>2 DEF Client, Stages
  <2>3. CASE k.socket # "Unconnected" /\ ~atOnce
    <3>1. m = [k EXCEPT !.socket = "Closing", !.wire = "nothing", !.streamed = {}]
      BY <2>3 DEF Close
    <3> HIDE DEF m
    <3> QED BY <3>1 DEF Client, SocketStates
  <2> QED BY <2>1, <2>2, <2>3
<1> HIDE DEF m
<1>2. CASE m.historySocket = "Unconnected"
  <2>1. l = m
    BY <1>2 DEF CloseHistory
  <2> HIDE DEF l
  <2> QED BY <1>1, <1>2, <2>1 DEF Shut
<1>3. CASE m.historySocket # "Unconnected" /\ historyAtOnce
  <2> DEFINE g == HistoryGone(m)
  <2>0. m \in Client
    BY <1>1
  <2>1. /\ g \in Client /\ g.stage = m.stage /\ g.historyStage = m.historyStage
        /\ g.socket = m.socket /\ g.historySocket = "Unconnected"
        /\ g.retry = m.retry /\ g.heartbeat = m.heartbeat /\ g.historyTimer = m.historyTimer
        /\ g.connected = m.connected /\ g.historyConnected = m.historyConnected
        /\ g.wire = m.wire /\ g.streamed = m.streamed
        /\ g.historyWire = "nothing" /\ g.replays = 0
    BY <2>0, ZenonT(60) DEF HistoryGone, Client, SocketStates
  <2>2. l = [g EXCEPT !.historyTimer = FALSE, !.historyConnected = FALSE, !.historyStage = "Idle"]
    BY <1>1, <1>3, <2>1 DEF CloseHistory, OnHistorySocketDisconnected
  <2> HIDE DEF l, g
  <2>3. /\ l.stage = g.stage /\ l.historyStage = "Idle" /\ l.socket = g.socket
        /\ l.historySocket = g.historySocket /\ l.retry = g.retry
        /\ l.heartbeat = g.heartbeat /\ l.historyTimer = FALSE
        /\ l.connected = g.connected /\ l.historyConnected = FALSE /\ l.wire = g.wire
        /\ l.streamed = g.streamed /\ l.historyWire = g.historyWire /\ l.replays = g.replays
    BY <2>1, <2>2 DEF Client, HistoryStages
  <2> QED BY <1>1, <2>1, <2>3 DEF Shut
<1>4. CASE m.historySocket # "Unconnected" /\ ~historyAtOnce
  <2>1. l = [m EXCEPT !.historySocket = "Closing", !.historyWire = "nothing", !.replays = 0]
    BY <1>4 DEF CloseHistory
  <2> HIDE DEF l
  <2>2. /\ l.stage = m.stage /\ l.historyStage = m.historyStage /\ l.socket = m.socket
        /\ l.historySocket = "Closing" /\ l.retry = m.retry
        /\ l.heartbeat = m.heartbeat /\ l.historyTimer = m.historyTimer
        /\ l.connected = m.connected /\ l.historyConnected = m.historyConnected
        /\ l.wire = m.wire /\ l.streamed = m.streamed
        /\ l.historyWire = "nothing" /\ l.replays = 0
    BY <1>1, <2>1 DEF Client, SocketStates
  <2> QED BY <1>1, <2>2 DEF Shut
<1> QED BY <1>2, <1>3, <1>4

\* A disconnect shuts the client.
LEMMA DisconnectShuts ==
  ASSUME IInv, NEW atOnce \in BOOLEAN, NEW historyAtOnce \in BOOLEAN,
         DisconnectFromPlant(atOnce, historyAtOnce)
  PROVE  Shut(c') /\ Quiet'
<1> DEFINE closing == [c EXCEPT !.command = "disconnect", !.unreported = FALSE,
                                !.stage = "Closing", !.historyStage = "Closing",
                                !.connected = FALSE, !.historyConnected = FALSE,
                                !.heartbeat = FALSE, !.retry = FALSE, !.historyTimer = FALSE]
<1>1. c \in Client /\ TickerSound(c) /\ HistorySound(c) /\ c.replays \in Nat
  BY DEF IInv, Good, Sound, Client
<1>2. /\ c.socket = "Unconnected" => c.wire = "nothing" /\ c.streamed = {}
      /\ c.historySocket = "Unconnected" => c.historyWire = "nothing" /\ c.replays = 0
  BY <1>1 DEF TickerSound, HistorySound
<1>3. /\ closing \in Client /\ closing.stage = "Closing" /\ closing.historyStage = "Closing"
      /\ closing.connected = FALSE /\ closing.historyConnected = FALSE
      /\ closing.heartbeat = FALSE /\ closing.retry = FALSE /\ closing.historyTimer = FALSE
      /\ closing.socket = c.socket /\ closing.wire = c.wire /\ closing.streamed = c.streamed
      /\ closing.historySocket = c.historySocket /\ closing.historyWire = c.historyWire
      /\ closing.replays = c.replays
  BY <1>1, ZenonT(60) DEF Client, Stages, HistoryStages
<1>4. c' = CloseHistory(Close(closing, atOnce), historyAtOnce) /\ Quiet'
  BY DEF DisconnectFromPlant, Quiet
<1> HIDE DEF closing
<1>5. Shut(CloseHistory(Close(closing, atOnce), historyAtOnce))
  BY <1>2, <1>3, ShutClose
<1> QED BY <1>4, <1>5

\* The only events left are the ends and errors of the sockets.
LEMMA StaysShut ==
  ASSUME IInv, c.command = "disconnect", Shut(c), Quiet, [Next]_vars
  PROVE  Shut(c') /\ Quiet'
<1>1. c \in Client
  BY DEF IInv, Good, Sound
<1>2. CASE UNCHANGED vars
  BY <1>2 DEF vars, Shut, Quiet
<1> SUFFICES ASSUME Next PROVE Shut(c') /\ Quiet'
  BY <1>2
<1>3. ~Adapter /\ ~Timers
  BY DEF Adapter, ConnectToTickerPlant, DisconnectFromPlant, SubscribeMarketData,
         RequestTimeBarBackfill, IsConnected, Timers, ReconnectTimeout,
         HistoryCompletionTimeout, Shut
<1>4. ~TickerPayloads
  BY DEF TickerPayloads, ReceiveSystemInfo, ReceiveLogin, ReceiveRefusal, ReceiveData,
         EndOfFrame, Opens, Quiet, Shut
<1>5. ~HistoryPayloads
  BY DEF HistoryPayloads, ReceiveHistoryLogin, ReceiveBar, ReceiveEndOfBars,
         ReceiveHistoryRefusal, EndOfHistoryFrame, ReplayPayload, HistoryOpens, Quiet, Shut
<1>6. CASE SocketConnected \/ HistorySocketConnected
  BY <1>6 DEF SocketConnected, HistorySocketConnected, Shut
<1>7. CASE SocketError
  BY <1>1, <1>7, ShutFail DEF SocketError, Quiet
<1>8. CASE SocketDisconnected
  BY <1>1, <1>8, ShutSocketGone DEF SocketDisconnected, Quiet
<1>9. CASE HistorySocketError
  BY <1>1, <1>9, ShutFailHistory DEF HistorySocketError, Quiet
<1>10. CASE HistorySocketDisconnected
  BY <1>1, <1>10, ShutHistoryGone DEF HistorySocketDisconnected, Quiet
<1> QED BY <1>3, <1>4, <1>5, <1>6, <1>7, <1>8, <1>9, <1>10 DEF Next, Sockets

\* A client that was told to disconnect is shut in every later state.
LEMMA NextShut ==
  ASSUME IInv, ShutInv, [Next]_vars
  PROVE  ShutInv'
<1>1. CASE c.command = "disconnect"
  BY <1>1, StaysShut DEF ShutInv
<1>2. CASE c.command # "disconnect"
  <2> SUFFICES ASSUME c'.command = "disconnect" PROVE Shut(c') /\ Quiet'
    BY DEF ShutInv
  <2>1. PICK atOnce \in BOOLEAN, historyAtOnce \in BOOLEAN :
           DisconnectFromPlant(atOnce, historyAtOnce)
    <3>1. Next /\ ~GoodStep
      BY <1>2 DEF vars, GoodStep
    <3> QED BY <3>1, EveryStep
  <2> QED BY <2>1, DisconnectShuts
<1> QED BY <1>1, <1>2

\* After disconnectFromPlant no event opens a socket, arms a timer, logs in or
\* subscribes.
THEOREM DisconnectsAreFinal == Spec => DisconnectIsFinal
<1>1. Init => ShutInv
  BY DEF Init, NewClient, ShutInv
<1>2. IInv /\ ShutInv /\ [Next]_vars => ShutInv'
  BY NextShut
<1>3. IInv /\ ShutInv /\ [Next]_vars => [c.command = "disconnect" => ~Revives(c, c')]_vars
  <2> SUFFICES ASSUME IInv, ShutInv, [Next]_vars, c.command = "disconnect"
               PROVE  ~Revives(c, c')
    OBVIOUS
  <2>1. Shut(c')
    BY StaysShut DEF ShutInv
  <2> QED BY <2>1 DEF Shut, Revives
<1> QED BY <1>1, <1>2, <1>3, Invariance, PTL DEF Spec, DisconnectIsFinal

-----------------------------------------------------------------------------
(***************************************************************************)
(* The client implements the safety part of TickerSession, for any         *)
(* instruments, bounds and either value of HangUps: every event of its     *)
(* sockets, timers and frames is a step of the abstract session or leaves  *)
(* it as it was.                                                           *)
(*                                                                         *)
(* One lemma for each handler says what it does to the fields the session  *)
(* is made of, one for each action which step that is.                     *)
(***************************************************************************)

(* The abstract state of a record *)

PhaseOf(k) ==
    IF k.command = "none" THEN "Off"
    ELSE IF k.command = "disconnect" THEN "Closed"
    ELSE IF k.stage = "Idle" THEN "Failed"
    ELSE IF k.stage = "Active" THEN (IF k.connected THEN "Live" ELSE "Lost")
    ELSE "Connecting"

\* A connection is only under way with a gateway to open it again; a session that
\* was lost has its reconnect armed, and no frame of it is being decoded.
SessionInv ==
    /\ PhaseOf(c) \in {"Connecting", "Live", "Lost"} => c.gateway
    /\ PhaseOf(c) = "Lost" => c.retry /\ frame = "none"

\* What every action is shown to be.
SessionStep == [Session!Next]_(Session!vars) /\ SessionInv'

\* The phase of the session is that of the record.
LEMMA PhaseHere ==
  ASSUME c \in Client
  PROVE  Phase = PhaseOf(c)
BY DEF Phase, PhaseOf, Client

LEMMA PhaseNext ==
  ASSUME c' \in Client
  PROVE  Phase' = PhaseOf(c')
BY DEF Phase, PhaseOf, Client

-----------------------------------------------------------------------------
(* The handlers *)

\* The end of a socket leaves the instrument asked for; it advances the handshake,
\* ends what was closing, or arms the reconnect of a session.
LEMMA DisconnectedView ==
  ASSUME NEW k \in Client
  PROVE  LET l == OnSocketDisconnected(SocketGone(k)) IN
         /\ l.pendingSubscription = k.pendingSubscription
         /\ k.stage = "AwaitingSystemInfoClose" => l.stage = "Login"
         /\ k.stage \in {"Closing", "Idle"} => l.stage = "Idle"
         /\ k.stage \notin {"AwaitingSystemInfoClose", "Closing", "Idle"} =>
                l.stage = k.stage /\ (k.connected => l.retry)
<1> DEFINE g == SocketGone(k)
           l == OnSocketDisconnected(g)
           m == [g EXCEPT !.connected = FALSE]
           quiet == [m EXCEPT !.heartbeat = @ /\ m.historyConnected]
<1> SUFFICES /\ l.pendingSubscription = k.pendingSubscription
             /\ k.stage = "AwaitingSystemInfoClose" => l.stage = "Login"
             /\ k.stage \in {"Closing", "Idle"} => l.stage = "Idle"
             /\ k.stage \notin {"AwaitingSystemInfoClose", "Closing", "Idle"} =>
                    l.stage = k.stage /\ (k.connected => l.retry)
  OBVIOUS
<1>1. /\ g \in Client /\ g.stage = k.stage /\ g.connected = k.connected
      /\ g.pendingSubscription = k.pendingSubscription
  BY DEF SocketGone, Client, SocketStates
<1> HIDE DEF g
<1>2. CASE g.stage = "AwaitingSystemInfoClose"
  <2>1. l = SocketOpened([g EXCEPT !.stage = "Login"])
    BY <1>2 DEF OnSocketDisconnected
  <2> QED BY <1>1, <1>2, <2>1 DEF SocketOpened, Client
<1>3. CASE g.stage \in {"Closing", "Idle"}
  <2>1. l = [g EXCEPT !.stage = "Idle", !.connected = FALSE]
    BY <1>3 DEF OnSocketDisconnected
  <2> QED BY <1>1, <1>3, <2>1 DEF Client
<1>4. CASE g.stage \notin {"AwaitingSystemInfoClose", "Closing", "Idle"} /\ g.connected
  <2>1. l = ScheduleReconnect(m)
    BY <1>4 DEF OnSocketDisconnected
  <2>2. /\ m \in Client /\ m.stage = g.stage
        /\ m.pendingSubscription = g.pendingSubscription
    BY <1>1 DEF Client
  <2> HIDE DEF m
  <2>3. /\ quiet.stage = m.stage /\ quiet.pendingSubscription = m.pendingSubscription
        /\ l = [quiet EXCEPT !.attempts = @ + 1, !.retry = TRUE]
        /\ quiet.retry = m.retry /\ DOMAIN quiet = DOMAIN m
    BY <1>4, <2>1, <2>2 DEF ScheduleReconnect, Client
  <2> HIDE DEF quiet, l
  <2>4. l.stage = quiet.stage /\ l.pendingSubscription = quiet.pendingSubscription /\ l.retry
    BY <2>2, <2>3 DEF Client
  <2> QED BY <1>1, <1>4, <2>2, <2>3, <2>4
<1>5. CASE g.stage \notin {"AwaitingSystemInfoClose", "Closing", "Idle"} /\ ~g.connected
  <2>1. l = g
    BY <1>5 DEF OnSocketDisconnected
  <2> QED BY <1>1, <1>5, <2>1
<1> QED BY <1>2, <1>3, <1>4, <1>5

\* fail() leaves the stage Idle and the instrument asked for.
LEMMA FailView ==
  ASSUME NEW k, Sound(k)
  PROVE  LET l == Fail(k) IN
         l.stage = "Idle" /\ l.pendingSubscription = k.pendingSubscription
<1> DEFINE off == [k EXCEPT !.heartbeat = FALSE, !.retry = FALSE, !.connected = FALSE]
           gone == OnSocketDisconnected(SocketGone(off))
           cut == IF off.stage = "Closing" THEN off ELSE Abort(off)
           l == [cut EXCEPT !.stage = "Idle", !.told = TRUE]
<1> SUFFICES l.stage = "Idle" /\ l.pendingSubscription = k.pendingSubscription
  BY DEF Fail
<1>0. k \in Client /\ TickerSound(k)
  BY DEF Sound
<1>1. /\ off \in Client /\ off.pendingSubscription = k.pendingSubscription
      /\ off.connected = FALSE /\ off.retry = FALSE /\ off.stage = k.stage
      /\ off.resolved = k.resolved /\ off.attempts = k.attempts
  BY <1>0 DEF Client
<1> HIDE DEF off
<1>2. cut = off \/ cut = gone
  BY DEF Abort
<1>3. gone.pendingSubscription = off.pendingSubscription
  BY <1>1, DisconnectedView
<1>4. gone \in Client
  <2>1. Severable(off)
    BY <1>0, <1>1 DEF Severable, TickerSound
  <2> QED BY <2>1, DisconnectedEffect
<1> HIDE DEF gone, cut
<1>5. cut \in Client /\ cut.pendingSubscription = k.pendingSubscription
  BY <1>1, <1>2, <1>3, <1>4
<1> QED BY <1>5 DEF Client

\* openSocket over a dead socket leaves the stage it is given.
LEMMA OpenSocketView ==
  ASSUME NEW k \in Client, k.socket = "Unconnected", NEW stage \in {"SystemInfo", "Login"}
  PROVE  LET l == OpenSocket(k, stage) IN
         l.stage = stage /\ l.pendingSubscription = k.pendingSubscription
BY DEF OpenSocket, Abort, SocketOpened, Client

\* close() after system info waits for the end of the socket, or goes on to log in.
LEMMA CloseView ==
  ASSUME NEW k \in Client, NEW atOnce \in BOOLEAN
  PROVE  LET l == Close(k, atOnce) IN
         /\ l.pendingSubscription = k.pendingSubscription
         /\ k.stage = "AwaitingSystemInfoClose" =>
                l.stage \in {"AwaitingSystemInfoClose", "Login"}
<1>1. CASE k.socket = "Unconnected"
  BY <1>1 DEF Close
<1>2. CASE k.socket # "Unconnected" /\ atOnce
  <2>1. Close(k, atOnce) = OnSocketDisconnected(SocketGone(k))
    BY <1>2 DEF Close
  <2> QED BY <2>1, DisconnectedView
<1>3. CASE k.socket # "Unconnected" /\ ~atOnce
  BY <1>3 DEF Close, Client
<1> QED BY <1>1, <1>2, <1>3

\* sendPendingSubscription adds the instrument asked for to those streamed.
LEMMA SendPendingView ==
  ASSUME NEW k \in Client
  PROVE  LET l == SendPendingSubscription(k) IN
         /\ l.command = k.command /\ l.gateway = k.gateway
         /\ l.stage = k.stage /\ l.connected = k.connected
         /\ l.pendingSubscription = k.pendingSubscription
         /\ IsConnected(k) => l.streamed = k.streamed \cup ({k.pendingSubscription} \ {None})
<1>1. CASE IsConnected(k) /\ k.pendingSubscription # None
  <2>1. SendPendingSubscription(k) =
           [k EXCEPT !.streamed = k.streamed \cup {k.pendingSubscription}]
    BY <1>1 DEF SendPendingSubscription, Client
  <2> QED BY <1>1, <2>1 DEF Client
<1>2. CASE ~(IsConnected(k) /\ k.pendingSubscription # None)
  <2>1. SendPendingSubscription(k) = k
    BY <1>2 DEF SendPendingSubscription
  <2> QED BY <1>2, <2>1
<1> QED BY <1>1, <1>2

\* subscribeMarketData asks for the instrument, and streams it too when logged in.
LEMMA SubscribeView ==
  ASSUME NEW k \in Client, NEW i \in Instruments, IsConnected(k)
  PROVE  LET l == Subscribe(k, i) IN
         /\ l.command = k.command /\ l.gateway = k.gateway
         /\ l.stage = k.stage /\ l.connected = k.connected
         /\ l.pendingSubscription = i /\ l.streamed = k.streamed \cup {i}
<1> DEFINE m == [k EXCEPT !.pendingSubscription = i]
<1>1. Subscribe(k, i) = SendPendingSubscription(m) /\ i # None
  BY NoneAssumption DEF Subscribe
<1>2. /\ m \in Client /\ m.command = k.command /\ m.gateway = k.gateway
      /\ m.stage = k.stage /\ m.connected = k.connected /\ m.socket = k.socket
      /\ m.pendingSubscription = i /\ m.streamed = k.streamed
  BY DEF Client
<1> HIDE DEF m
<1>3. IsConnected(m)
  BY <1>2 DEF IsConnected
<1> QED BY <1>1, <1>2, <1>3, SendPendingView

-----------------------------------------------------------------------------
(* The steps *)

\* What every action starts from: only a live session streams anything.
LEMMA Before ==
  ASSUME IInv, ShutInv
  PROVE  /\ c \in Client /\ Sound(c) /\ TickerSound(c)
         /\ PhaseOf(c) \in {"Off", "Closed", "Failed", "Connecting", "Live", "Lost"}
         /\ PhaseOf(c) # "Live" => c.streamed = {}
         /\ PhaseOf(c) = "Off" => c = NewClient
         /\ PhaseOf(c) = "Closed" => Shut(c) /\ Quiet
         /\ c.connected <=> PhaseOf(c) = "Live"
<1>1. c \in Client /\ Sound(c) /\ TickerSound(c) /\ (c.command = "none" => c = NewClient)
  BY DEF IInv, Good, Sound
<1>2. c.connected \in BOOLEAN /\ c.command \in {"none", "connect", "disconnect"}
  BY <1>1 DEF Client
<1>3. c.command = "none" => c.connected = FALSE /\ c.streamed = {}
  BY <1>1 DEF NewClient
<1>4. c.command = "disconnect" => Shut(c) /\ Quiet /\ c.connected = FALSE /\ c.streamed = {}
  BY DEF ShutInv, Shut
<1> QED BY <1>1, <1>2, <1>3, <1>4 DEF PhaseOf, TickerSound

\* The steps of the abstract session that ask for no other instrument.
LEMMA PhaseStep ==
  ASSUME c \in Client, c' \in Client,
         c'.pendingSubscription = c.pendingSubscription,
         \/ PhaseOf(c') = PhaseOf(c) /\ c'.streamed = c.streamed
         \/ /\ PhaseOf(c) = "Off" /\ PhaseOf(c') \in {"Connecting", "Failed"}
            /\ c'.streamed = c.streamed
         \/ PhaseOf(c) = "Lost" /\ PhaseOf(c') = "Connecting" /\ c'.streamed = c.streamed
         \/ PhaseOf(c) = "Live" /\ PhaseOf(c') = "Lost" /\ c'.streamed = {}
         \/ /\ PhaseOf(c) \in {"Connecting", "Live"} /\ PhaseOf(c') = "Failed"
            /\ c'.streamed = {}
         \/ /\ PhaseOf(c) \in {"Connecting", "Live", "Lost", "Failed"}
            /\ PhaseOf(c') = "Closed" /\ c'.streamed = {}
  PROVE  [Session!Next]_(Session!vars)
<1>1. Phase = PhaseOf(c) /\ Phase' = PhaseOf(c')
  BY PhaseHere, PhaseNext
<1> QED BY <1>1 DEF Session!Next, Session!Connect, Session!Retry, Session!Lose, Session!Break,
                    Session!Shut, Session!Phases, Session!vars

\* A handler of the history plant is hidden from the session.
LEMMA HistoryHidden ==
  ASSUME IInv, SessionInv, GoodStep, KeepsTicker(c, c'), UNCHANGED frame
  PROVE  SessionStep
<1>1. c \in Client /\ c' \in Client
  BY DEF IInv, Good, Sound, GoodStep
<1>2. PhaseOf(c') = PhaseOf(c)
  BY DEF PhaseOf, KeepsTicker
<1>3. [Session!Next]_(Session!vars)
  BY <1>1, <1>2, PhaseStep DEF KeepsTicker
<1> QED BY <1>2, <1>3 DEF SessionStep, SessionInv, KeepsTicker

\* fail() breaks a session, or one that is set up; it is never called of one that
\* is lost.
LEMMA FailIsStep ==
  ASSUME IInv, ShutInv, c # NewClient \/ ~Quiet, PhaseOf(c) # "Lost", c' = Fail(c)
  PROVE  SessionStep
<1>1. /\ c \in Client /\ Sound(c)
      /\ PhaseOf(c) \in {"Closed", "Failed", "Connecting", "Live"}
      /\ PhaseOf(c) # "Live" => c.streamed = {}
  <2>1. c.command # "none"
    BY Started
  <2> QED BY <2>1, Before DEF PhaseOf
<1>2. /\ c' \in Client /\ TickerSound(c') /\ c'.connected = FALSE /\ KeepsHistory(c, c')
  BY <1>1, FailEffect
<1>3. c'.stage = "Idle" /\ c'.pendingSubscription = c.pendingSubscription
  BY <1>1, FailView
<1>4. PhaseOf(c') = (IF PhaseOf(c) = "Closed" THEN "Closed" ELSE "Failed") /\ c'.streamed = {}
  BY <1>1, <1>2, <1>3 DEF PhaseOf, TickerSound, KeepsHistory
<1>5. [Session!Next]_(Session!vars)
  BY <1>1, <1>2, <1>3, <1>4, PhaseStep
<1> QED BY <1>4, <1>5 DEF SessionStep, SessionInv

\* connectToTickerPlant begins a set-up over the gateway it was given, or fails.
LEMMA ConnectIsStep ==
  ASSUME IInv, ShutInv, NEW credentials \in BOOLEAN, NEW gateway \in BOOLEAN,
         ConnectToTickerPlant(credentials, gateway)
  PROVE  SessionStep
<1> DEFINE reset == [c EXCEPT !.command = "connect", !.gateway = gateway, !.resolved = FALSE,
                              !.connected = FALSE, !.historyConnected = FALSE, !.attempts = 0,
                              !.heartbeat = FALSE, !.retry = FALSE, !.historyTimer = FALSE]
<1>0. c \in Client
  BY DEF IInv, Good, Sound
<1>1. c = NewClient /\ PhaseOf(c) = "Off"
  BY DEF ConnectToTickerPlant, IInv, PhaseOf
<1>2. /\ c.stage = "Idle" /\ c.socket = "Unconnected" /\ c.wire = "nothing"
      /\ c.historyStage = "Idle" /\ c.historyWire = "nothing" /\ c.replays = 0
      /\ c.unreported = FALSE /\ c.streamed = {}
  BY <1>1 DEF NewClient
<1>3. /\ reset \in Client /\ reset.command = "connect" /\ reset.connected = FALSE
      /\ reset.attempts = 0 /\ reset.heartbeat = FALSE /\ reset.retry = FALSE
      /\ reset.stage = c.stage /\ reset.socket = c.socket /\ reset.wire = c.wire
      /\ reset.historyConnected = FALSE /\ reset.historyStage = c.historyStage
      /\ reset.historyWire = c.historyWire /\ reset.replays = c.replays
      /\ reset.unreported = c.unreported /\ reset.streamed = c.streamed
  BY <1>0, ZenonT(60) DEF Client
<1>4. reset.gateway = gateway /\ reset.pendingSubscription = c.pendingSubscription
  BY <1>0 DEF Client
<1>5. /\ c' = IF credentials /\ gateway THEN OpenSocket(reset, "SystemInfo") ELSE Fail(reset)
      /\ frame' = frame
  BY DEF ConnectToTickerPlant
<1> HIDE DEF reset
<1>6. Sound(reset)
  BY <1>2, <1>3 DEF Sound, TickerSound, HistorySound, Beats
<1>7. c' \in Client /\ TickerSound(c')
  BY ConnectGood DEF GoodStep, Good, Sound
<1>8. CASE credentials /\ gateway
  <2>1. c' = OpenSocket(reset, "SystemInfo")
    BY <1>5, <1>8
  <2>2. c'.stage = "SystemInfo" /\ c'.pendingSubscription = reset.pendingSubscription
    BY <1>2, <1>3, <2>1, OpenSocketView
  <2>3. reset.attempts <= 1
    BY <1>3
  <2>4. KeepsHistory(reset, c') /\ c'.connected = FALSE
    BY <1>2, <1>3, <2>1, <2>3, OpenSocketEffect
  <2>5. PhaseOf(c') = "Connecting" /\ c'.gateway /\ c'.streamed = {}
    BY <1>3, <1>7, <1>8, <1>4, <2>2, <2>4 DEF PhaseOf, KeepsHistory, TickerSound
  <2>6. [Session!Next]_(Session!vars)
    BY <1>0, <1>1, <1>2, <1>3, <1>7, <1>4, <2>2, <2>5, PhaseStep
  <2> QED BY <2>5, <2>6 DEF SessionStep, SessionInv
<1>9. CASE ~(credentials /\ gateway)
  <2>1. c' = Fail(reset)
    BY <1>5, <1>9
  <2>2. c'.stage = "Idle" /\ c'.pendingSubscription = reset.pendingSubscription
    BY <1>6, <2>1, FailView
  <2>3. KeepsHistory(reset, c') /\ c'.connected = FALSE
    BY <1>6, <2>1, FailEffect
  <2>4. PhaseOf(c') = "Failed" /\ c'.streamed = {}
    BY <1>3, <1>7, <2>2, <2>3 DEF PhaseOf, KeepsHistory, TickerSound
  <2>5. [Session!Next]_(Session!vars)
    BY <1>0, <1>1, <1>2, <1>3, <1>7, <1>4, <2>2, <2>4, PhaseStep
  <2> QED BY <2>4, <2>5 DEF SessionStep, SessionInv
<1> QED BY <1>8, <1>9

\* disconnectFromPlant closes the session, whatever became of it.
LEMMA DisconnectIsStep ==
  ASSUME IInv, ShutInv, NEW atOnce \in BOOLEAN, NEW historyAtOnce \in BOOLEAN,
         DisconnectFromPlant(atOnce, historyAtOnce)
  PROVE  SessionStep
<1> DEFINE closing == [c EXCEPT !.command = "disconnect", !.unreported = FALSE,
                                !.stage = "Closing", !.historyStage = "Closing",
                                !.connected = FALSE, !.historyConnected = FALSE,
                                !.heartbeat = FALSE, !.retry = FALSE, !.historyTimer = FALSE]
           closed == Close(closing, atOnce)
<1>1. /\ c \in Client /\ c.command = "connect" /\ TickerSound(c) /\ HistorySound(c)
      /\ c' = CloseHistory(closed, historyAtOnce) /\ frame' = frame
      /\ PhaseOf(c) \in {"Connecting", "Live", "Lost", "Failed"}
  BY DEF DisconnectFromPlant, IInv, Good, Sound, PhaseOf
<1>2. /\ closing \in Client /\ closing.command = "disconnect" /\ closing.connected = FALSE
      /\ closing.stage = "Closing" /\ closing.historyStage = "Closing"
      /\ closing.historyConnected = FALSE /\ closing.heartbeat = FALSE
      /\ closing.retry = FALSE /\ closing.unreported = FALSE
      /\ closing.attempts = c.attempts /\ closing.socket = c.socket /\ closing.wire = c.wire
      /\ closing.historySocket = c.historySocket /\ closing.historyWire = c.historyWire
      /\ closing.replays = c.replays /\ closing.streamed = c.streamed
      /\ closing.pendingSubscription = c.pendingSubscription
  BY <1>1, ZenonT(60) DEF Client, Stages, HistoryStages
<1>3. /\ c.attempts <= 1
      /\ c.socket = "Unconnected" => c.wire = "nothing" /\ c.streamed = {}
      /\ c.historySocket = "Unconnected" => c.historyWire = "nothing" /\ c.replays = 0
  <2>1. c.replays \in Nat
    BY <1>1 DEF Client
  <2> QED BY <1>1, <2>1 DEF TickerSound, HistorySound
<1> HIDE DEF closing
<1>4. Severable(closing)
  BY <1>2, <1>3 DEF Severable
<1>5. /\ closed \in Client /\ (closed.heartbeat => closing.heartbeat)
      /\ KeepsHistory(closing, closed)
  BY <1>2, <1>3, <1>4, CloseEffect
<1>6. closed.pendingSubscription = closing.pendingSubscription
  BY <1>2, CloseView
<1> HIDE DEF closed
<1>7. closed.heartbeat = FALSE
  BY <1>2, <1>5 DEF Client
<1>8. c' \in Client /\ KeepsTicker(closed, c')
  BY <1>1, <1>2, <1>3, <1>5, <1>7, CloseHistoryEffect DEF KeepsHistory
<1>9. Shut(c')
  BY DisconnectShuts
<1>10. /\ PhaseOf(c') = "Closed" /\ c'.streamed = {}
      /\ c'.pendingSubscription = c.pendingSubscription
  BY <1>2, <1>5, <1>8, <1>9, <1>6 DEF PhaseOf, KeepsHistory, KeepsTicker, Shut
<1>11. [Session!Next]_(Session!vars)
  BY <1>1, <1>8, <1>10, PhaseStep
<1> QED BY <1>10, <1>11 DEF SessionStep, SessionInv

\* subscribeMarketData of a live session wants another instrument.
LEMMA SubscribeIsStep ==
  ASSUME IInv, ShutInv, SessionInv, NEW i \in Instruments, SubscribeMarketData(i)
  PROVE  SessionStep
<1>1. /\ c \in Client /\ IsConnected(c) /\ c' = Subscribe(c, i) /\ frame' = frame
      /\ PhaseOf(c) = "Live"
  BY Before DEF SubscribeMarketData, IsConnected
<1>2. c' \in Client
  BY SubscribeGood DEF GoodStep, Good, Sound
<1>3. /\ c'.command = c.command /\ c'.gateway = c.gateway
      /\ c'.stage = c.stage /\ c'.connected = c.connected
      /\ c'.pendingSubscription = i /\ c'.streamed = c.streamed \cup {i}
  BY <1>1, SubscribeView
<1>4. PhaseOf(c') = "Live" /\ Phase = "Live" /\ Phase' = "Live"
  BY <1>1, <1>2, <1>3, PhaseHere, PhaseNext DEF PhaseOf
<1>5. Session!Want
  BY <1>3, <1>4 DEF Session!Want
<1> QED BY <1>1, <1>3, <1>4, <1>5 DEF Session!Next, SessionStep, SessionInv

\* The reconnect timer retries a lost session, for which there is a gateway.
LEMMA ReconnectIsStep ==
  ASSUME IInv, ShutInv, SessionInv, ReconnectTimeout
  PROVE  SessionStep
<1> DEFINE fired == [c EXCEPT !.retry = FALSE]
           stage == IF c.resolved THEN "Login" ELSE "SystemInfo"
<1>1. /\ c \in Client /\ c.retry /\ c.socket = "Unconnected" /\ c.streamed = {}
      /\ PhaseOf(c) = "Lost" /\ c.stage = "Active" /\ c.gateway
  <2>1. c.retry
    BY DEF ReconnectTimeout
  <2>2. /\ c \in Client /\ c.stage = "Active" /\ c.socket = "Unconnected"
        /\ ~c.connected
    BY <2>1, Before DEF TickerSound
  <2>3. c # NewClient /\ ~Shut(c)
    BY <2>1 DEF NewClient, Shut
  <2>4. PhaseOf(c) = "Lost"
    BY <2>2, <2>3, Before DEF PhaseOf
  <2> QED BY <2>1, <2>2, <2>4, Before DEF SessionInv
<1>2. /\ fired \in Client /\ fired.socket = c.socket /\ fired.command = c.command
      /\ fired.gateway = c.gateway /\ fired.pendingSubscription = c.pendingSubscription
  BY <1>1 DEF Client
<1>3. c' = OpenSocket(fired, stage) /\ frame' = frame
  BY <1>1 DEF ReconnectTimeout
<1> HIDE DEF fired
<1>4. c'.stage \in {"SystemInfo", "Login"} /\ c'.pendingSubscription = c.pendingSubscription
  <2>1. stage \in {"SystemInfo", "Login"}
    OBVIOUS
  <2> HIDE DEF stage
  <2> QED BY <1>1, <1>2, <1>3, <2>1, OpenSocketView
<1>5. c' \in Client /\ TickerSound(c')
  BY ReconnectGood DEF GoodStep, Good, Sound
<1>6. c'.command = fired.command /\ c'.gateway = fired.gateway
  <2>1. fired.socket = "Unconnected" /\ stage \in {"SystemInfo", "Login"}
    BY <1>1, <1>2
  <2> HIDE DEF stage
  <2> QED BY <1>2, <1>3, <2>1 DEF OpenSocket, Abort, SocketOpened, Client
<1>7. PhaseOf(c') = "Connecting" /\ c'.gateway /\ c'.streamed = {}
  BY <1>1, <1>2, <1>4, <1>5, <1>6 DEF PhaseOf, TickerSound
<1>8. [Session!Next]_(Session!vars)
  BY <1>1, <1>4, <1>5, <1>7, PhaseStep
<1> QED BY <1>7, <1>8 DEF SessionStep, SessionInv

\* connected() of the ticker socket goes on with a set-up.
LEMMA SocketConnectedIsStep ==
  ASSUME IInv, ShutInv, SessionInv, SocketConnected
  PROVE  SessionStep
<1> DEFINE up == [c EXCEPT !.socket = "Connected"]
<1>1. /\ c \in Client /\ c.socket = "Connecting" /\ frame' = frame
      /\ c' = OnSocketConnected(up) /\ PhaseOf(c) # "Lost"
  <2>1. c.socket = "Connecting" /\ frame' = frame /\ c' = OnSocketConnected(up)
    BY DEF SocketConnected
  <2> QED BY <2>1, Before DEF TickerSound, SessionInv
<1>2. /\ up \in Client /\ up.stage = c.stage /\ up.connected = c.connected
      /\ up.command = c.command /\ up.gateway = c.gateway /\ up.streamed = c.streamed
      /\ up.pendingSubscription = c.pendingSubscription
  BY <1>1 DEF Client, SocketStates
<1> HIDE DEF up
<1>3. /\ c'.stage = up.stage /\ c'.connected = up.connected
      /\ c'.command = up.command /\ c'.gateway = up.gateway /\ c'.streamed = up.streamed
      /\ c'.pendingSubscription = up.pendingSubscription
  BY <1>1, <1>2 DEF OnSocketConnected, Client
<1>4. c' \in Client
  BY SocketConnectedGood DEF GoodStep, Good, Sound
<1>5. PhaseOf(c') = PhaseOf(c)
  BY <1>2, <1>3 DEF PhaseOf
<1>6. [Session!Next]_(Session!vars)
  BY <1>1, <1>2, <1>3, <1>4, <1>5, PhaseStep
<1> QED BY <1>1, <1>2, <1>3, <1>5, <1>6 DEF SessionStep, SessionInv

\* disconnected() of the ticker socket loses a session, ends what was closing, or is
\* part of a set-up; a lost session has no socket.
LEMMA SocketDisconnectedIsStep ==
  ASSUME IInv, ShutInv, SessionInv, SocketDisconnected
  PROVE  SessionStep
<1>1. /\ c \in Client /\ TickerSound(c) /\ c.socket # "Unconnected"
      /\ frame = "none" /\ frame' = frame
      /\ c' = OnSocketDisconnected(SocketGone(c))
      /\ PhaseOf(c) \in {"Closed", "Failed", "Connecting", "Live"}
      /\ PhaseOf(c) # "Live" => c.streamed = {}
  <2>1. /\ c.socket # "Unconnected" /\ frame = "none" /\ frame' = frame
        /\ c' = OnSocketDisconnected(SocketGone(c))
    BY DEF SocketDisconnected, Quiet
  <2>2. c # NewClient
    BY <2>1 DEF NewClient
  <2> QED BY <2>1, <2>2, Before DEF TickerSound, SessionInv
<1>2. Severable(c)
  BY <1>1 DEF TickerSound, Severable
<1>3. c' \in Client /\ TickerSound(c') /\ c'.connected = FALSE /\ KeepsHistory(c, c')
  BY <1>1, <1>2, DisconnectedEffect
<1>4. /\ c'.pendingSubscription = c.pendingSubscription
      /\ c.stage = "AwaitingSystemInfoClose" => c'.stage = "Login"
      /\ c.stage \in {"Closing", "Idle"} => c'.stage = "Idle"
      /\ c.stage \notin {"AwaitingSystemInfoClose", "Closing", "Idle"} =>
             c'.stage = c.stage /\ (c.connected => c'.retry)
  BY <1>1, DisconnectedView
<1>5. c'.streamed = {} /\ c'.command = c.command /\ c'.gateway = c.gateway
  BY <1>3 DEF TickerSound, KeepsHistory
<1>6. \/ PhaseOf(c') = PhaseOf(c) /\ PhaseOf(c) # "Live"
      \/ PhaseOf(c) = "Live" /\ PhaseOf(c') = "Lost" /\ c'.retry
      \/ PhaseOf(c) = "Connecting" /\ PhaseOf(c') = "Failed"
  BY <1>1, <1>3, <1>4, <1>5 DEF PhaseOf
<1>7. [Session!Next]_(Session!vars)
  BY <1>1, <1>3, <1>4, <1>5, <1>6, PhaseStep
<1> QED BY <1>1, <1>5, <1>6, <1>7 DEF SessionStep, SessionInv

\* A system-info response goes on with a set-up.
LEMMA SystemInfoIsStep ==
  ASSUME IInv, ShutInv, SessionInv, NEW atOnce \in BOOLEAN, ReceiveSystemInfo(atOnce)
  PROVE  SessionStep
<1> DEFINE m == [c EXCEPT !.resolved = TRUE, !.stage = "AwaitingSystemInfoClose"]
<1>1. c \in Client /\ c.streamed = {} /\ PhaseOf(c) = "Connecting" /\ c.gateway
  <2>1. c.wire = "sysinfo"
    BY DEF ReceiveSystemInfo, Opens
  <2>2. c # NewClient /\ ~Shut(c) /\ c.stage = "SystemInfo" /\ c.streamed = {}
    BY <2>1, Before DEF NewClient, Shut, TickerSound
  <2>3. PhaseOf(c) = "Connecting"
    BY <2>2, Before DEF PhaseOf
  <2> QED BY <2>2, <2>3, Before DEF SessionInv
<1>2. c' = Close(m, atOnce)
  BY DEF ReceiveSystemInfo
<1>3. /\ m \in Client /\ m.stage = "AwaitingSystemInfoClose" /\ m.command = c.command
      /\ m.gateway = c.gateway /\ m.pendingSubscription = c.pendingSubscription
  BY <1>1 DEF Client, Stages
<1> HIDE DEF m
<1>4. /\ c'.pendingSubscription = c.pendingSubscription
      /\ c'.stage \in {"AwaitingSystemInfoClose", "Login"}
  BY <1>2, <1>3, CloseView
<1>5. c' \in Client /\ TickerSound(c') /\ c'.command # "none"
      /\ (c'.command = "disconnect" => c.command = "disconnect")
  BY SystemInfoGood DEF GoodStep, Good, Sound
<1>6. c'.gateway = c.gateway
  BY <1>2, <1>3 DEF Close, OnSocketDisconnected, SocketOpened, SocketGone, ScheduleReconnect,
                    Client
<1>7. PhaseOf(c') = "Connecting" /\ c'.gateway /\ c'.streamed = {}
  BY <1>1, <1>4, <1>5, <1>6 DEF PhaseOf, TickerSound, Client
<1>8. [Session!Next]_(Session!vars)
  BY <1>1, <1>4, <1>5, <1>7, PhaseStep
<1> QED BY <1>7, <1>8 DEF SessionStep, SessionInv

\* A login makes the session live and streams the instrument wanted by then: the one
\* asked for before, or the one connectedHandler_ asks for.
LEMMA LoginIsStep ==
  ASSUME IInv, ShutInv, SessionInv, NEW i \in Instruments \cup {None}, NEW backfill \in BOOLEAN,
         ReceiveLogin(i, backfill)
  PROVE  SessionStep
<1> DEFINE live == [c EXCEPT !.connected = TRUE, !.stage = "Active", !.heartbeat = TRUE,
                             !.attempts = 0, !.wire = "session"]
           attached == IF i = None THEN live ELSE Subscribe(live, i)
           asked == IF backfill THEN Backfill(attached, i) ELSE attached
<1>1. /\ c \in Client /\ Sound(c) /\ c.socket = "Connected" /\ c.streamed = {}
      /\ c.resolved /\ ~c.retry
      /\ PhaseOf(c) = "Connecting" /\ c.gateway /\ c.command = "connect"
  <2>1. c.wire = "login"
    BY DEF ReceiveLogin, Opens
  <2>2. /\ c \in Client /\ c # NewClient /\ ~Shut(c) /\ c.stage = "Login"
        /\ c.socket = "Connected" /\ c.streamed = {} /\ c.resolved /\ ~c.retry
    BY <2>1, Before DEF NewClient, Shut, TickerSound
  <2>3. c.command = "connect"
    BY <2>2, Before DEF PhaseOf, Client
  <2>4. PhaseOf(c) = "Connecting"
    BY <2>2, <2>3 DEF PhaseOf
  <2> QED BY <2>2, <2>3, <2>4, Before DEF SessionInv
<1>2. c' = SendPendingSubscription(asked) /\ (backfill => i \in Instruments)
  BY DEF ReceiveLogin
<1>3. /\ live \in Client /\ live.connected = TRUE /\ live.stage = "Active"
      /\ live.heartbeat = TRUE /\ live.attempts = 0 /\ live.wire = "session"
      /\ live.socket = c.socket /\ live.retry = c.retry /\ live.streamed = c.streamed
      /\ live.resolved = c.resolved
      /\ KeepsHistory(c, live)
  BY <1>1 DEF Client, Stages, KeepsHistory
<1>4. live.pendingSubscription = c.pendingSubscription
  BY <1>1 DEF Client
<1> HIDE DEF live
<1>5. Sound(live) /\ IsConnected(live)
  BY <1>1, <1>3 DEF Sound, TickerSound, HistorySound, Beats, KeepsHistory, IsConnected
<1>6. /\ Sound(attached) /\ attached.command = "connect" /\ attached.gateway
      /\ attached.stage = "Active" /\ attached.connected
      /\ attached.pendingSubscription = IF i = None THEN c.pendingSubscription ELSE i
      /\ attached.streamed \subseteq {attached.pendingSubscription} \ {None}
  <2>1. CASE i = None
    BY <1>1, <1>3, <1>4, <1>5, <2>1 DEF KeepsHistory
  <2>2. CASE i # None
    <3>1. attached = Subscribe(live, i) /\ i \in Instruments
      BY <2>2
    <3> HIDE DEF attached
    <3>2. Sound(attached)
      BY <1>5, <3>1, SubscribeEffect
    <3>3. /\ attached.command = live.command /\ attached.gateway = live.gateway
          /\ attached.stage = live.stage /\ attached.connected = live.connected
          /\ attached.pendingSubscription = i /\ attached.streamed = live.streamed \cup {i}
      BY <1>3, <1>5, <3>1, SubscribeView
    <3> QED BY <1>1, <1>3, <2>2, <3>2, <3>3 DEF KeepsHistory
  <2> QED BY <2>1, <2>2
<1> HIDE DEF attached
<1>7. Sound(asked) /\ (asked = attached \/ KeepsTicker(attached, asked))
  <2>1. CASE ~backfill
    BY <1>6, <2>1
  <2>2. CASE backfill
    <3>1. asked = Backfill(attached, i) /\ i \in Instruments
      BY <1>2, <2>2
    <3> HIDE DEF asked
    <3> QED BY <1>6, <3>1, BackfillEffect
  <2> QED BY <2>1, <2>2
<1> HIDE DEF asked
<1>8. /\ asked \in Client /\ asked.command = "connect" /\ asked.gateway
      /\ asked.stage = "Active" /\ asked.connected /\ IsConnected(asked)
      /\ asked.pendingSubscription = attached.pendingSubscription
      /\ asked.streamed = attached.streamed
  BY <1>6, <1>7 DEF KeepsTicker, Sound, TickerSound, IsConnected
<1>9. /\ c'.command = asked.command /\ c'.gateway = asked.gateway
      /\ c'.stage = asked.stage /\ c'.connected = asked.connected
      /\ c'.pendingSubscription = asked.pendingSubscription
      /\ c'.streamed = asked.streamed \cup ({asked.pendingSubscription} \ {None})
  BY <1>2, <1>8, SendPendingView
<1>10. c' \in Client
  BY LoginGood DEF GoodStep, Good, Sound
<1>11. PhaseOf(c') = "Live" /\ c'.gateway
  BY <1>8, <1>9 DEF PhaseOf
<1>12. Phase = "Connecting" /\ Phase' = "Live"
  BY <1>1, <1>10, <1>11, PhaseHere, PhaseNext
<1>13. /\ c'.pendingSubscription \in Instruments \cup {c.pendingSubscription}
       /\ c'.streamed = {c'.pendingSubscription} \ {None}
  BY <1>6, <1>8, <1>9
<1>14. Session!GoLive
  BY <1>12, <1>13 DEF Session!GoLive
<1> QED BY <1>11, <1>14 DEF Session!Next, SessionStep, SessionInv

\* Every event of the client.
LEMMA EveryEvent ==
  ASSUME IInv, ShutInv, SessionInv, Next
  PROVE  SessionStep
<1>1. CASE Adapter
  <2>1. ASSUME NEW i \in Instruments, RequestTimeBarBackfill(i) PROVE SessionStep
    <3>1. frame' = frame
      BY <2>1 DEF RequestTimeBarBackfill
    <3> QED BY <2>1, <3>1, BackfillGood, HistoryHidden
  <2> QED BY <1>1, <2>1, ConnectIsStep, DisconnectIsStep, SubscribeIsStep DEF Adapter
<1>2. CASE Timers
  <2>1. ASSUME HistoryCompletionTimeout PROVE SessionStep
    <3>1. frame' = frame
      BY <2>1 DEF HistoryCompletionTimeout
    <3> QED BY <2>1, <3>1, HistoryTimeoutGood, HistoryHidden
  <2> QED BY <1>2, <2>1, ReconnectIsStep DEF Timers
<1>3. CASE Sockets
  <2>1. ASSUME SocketError PROVE SessionStep
    <3>1. c # NewClient /\ c.socket # "Unconnected" /\ c' = Fail(c)
      BY <2>1 DEF SocketError, NewClient
    <3>2. PhaseOf(c) # "Lost"
      BY <3>1, Before DEF TickerSound, SessionInv
    <3> QED BY <3>1, <3>2, FailIsStep
  <2>2. ASSUME HistorySocketConnected \/ HistorySocketDisconnected PROVE SessionStep
    <3>1. frame' = frame
      BY <2>2 DEF HistorySocketConnected, HistorySocketDisconnected
    <3> QED BY <2>2, <3>1, HistoryConnectedGood, HistoryDisconnectedGood, HistoryHidden
  <2>3. ASSUME HistorySocketError PROVE SessionStep
    <3>1. c # NewClient /\ c' = FailHistory(c) /\ frame' = frame
      BY <2>3 DEF HistorySocketError, NewClient
    <3> QED BY <3>1, FailHistoryGood, HistoryHidden
  <2> QED BY <1>3, <2>1, <2>2, <2>3, SocketConnectedIsStep, SocketDisconnectedIsStep DEF Sockets
<1>4. CASE TickerPayloads
  <2>1. ASSUME ReceiveRefusal PROVE SessionStep
    <3>1. (c # NewClient \/ ~Quiet) /\ c' = Fail(c) /\ (frame # "none" \/ c.wire # "nothing")
      BY <2>1 DEF ReceiveRefusal, Opens, NewClient, Quiet
    <3>2. PhaseOf(c) # "Lost"
      BY <3>1, Before DEF TickerSound, SessionInv
    <3> QED BY <3>1, <3>2, FailIsStep
  <2>2. ASSUME ReceiveData \/ EndOfFrame PROVE SessionStep
    <3>1. c' = c /\ (frame' = "none" \/ frame # "none" \/ c.wire = "session")
      BY <2>2 DEF ReceiveData, EndOfFrame, Opens
    <3>2. PhaseOf(c') = PhaseOf(c) /\ c \in Client /\ (PhaseOf(c) = "Lost" => frame' = "none")
      BY <3>1, Before DEF TickerSound, SessionInv
    <3>3. [Session!Next]_(Session!vars)
      BY <3>1, <3>2, PhaseStep
    <3> QED BY <3>1, <3>2, <3>3 DEF SessionStep, SessionInv
  <2> QED BY <1>4, <2>1, <2>2, SystemInfoIsStep, LoginIsStep DEF TickerPayloads
<1>5. CASE HistoryPayloads
  <2>1. ASSUME ReceiveHistoryLogin \/ ReceiveBar \/ ReceiveEndOfBars PROVE SessionStep
    <3>1. frame' = frame
      BY <2>1 DEF ReceiveHistoryLogin, ReceiveBar, ReceiveEndOfBars
    <3> QED BY <2>1, <3>1, HistoryLoginGood, BarGood, EndOfBarsGood, HistoryHidden
  <2>2. ASSUME ReceiveHistoryRefusal PROVE SessionStep
    <3>1. (c # NewClient \/ ~Quiet) /\ c' = FailHistory(c) /\ frame' = frame
      BY <2>2 DEF ReceiveHistoryRefusal, HistoryOpens, NewClient, Quiet
    <3> QED BY <3>1, FailHistoryGood, HistoryHidden
  <2>3. ASSUME EndOfHistoryFrame PROVE SessionStep
    <3>1. c' = c /\ frame' = frame
      BY <2>3 DEF EndOfHistoryFrame
    <3>2. PhaseOf(c') = PhaseOf(c) /\ c \in Client
      BY <3>1, Before
    <3>3. [Session!Next]_(Session!vars)
      BY <3>1, <3>2, PhaseStep
    <3> QED BY <3>1, <3>2, <3>3 DEF SessionStep, SessionInv
  <2> QED BY <1>5, <2>1, <2>2, <2>3 DEF HistoryPayloads
<1> QED BY <1>1, <1>2, <1>3, <1>4, <1>5 DEF Next

\* A client that does nothing leaves the session as it is.
LEMMA NothingHidden ==
  ASSUME SessionInv, UNCHANGED vars
  PROVE  SessionStep
<1>1. Phase' = Phase /\ PhaseOf(c') = PhaseOf(c) /\ c' = c /\ frame' = frame
  BY DEF vars, Phase
<1> QED BY <1>1 DEF SessionStep, SessionInv, Session!vars

\* The client implements the abstract session, but for its liveness.
THEOREM SessionIsImplemented == Spec => Session!Safety
<1>1. Init => ShutInv /\ SessionInv /\ Session!Init
  BY DEF Init, NewClient, ShutInv, SessionInv, PhaseOf, Phase, Session!Init
<1>2. IInv /\ ShutInv /\ [Next]_vars => ShutInv'
  BY NextShut
<1>3. IInv /\ ShutInv /\ SessionInv /\ [Next]_vars
        => SessionInv' /\ [Session!Next]_(Session!vars)
  BY EveryEvent, NothingHidden DEF SessionStep
<1> QED BY <1>1, <1>2, <1>3, Invariance, PTL DEF Spec, Session!Safety

=============================================================================
