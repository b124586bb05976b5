-------------------------- MODULE MainWindowProofs --------------------------
(***************************************************************************)
(* Proofs about MainWindow, for any connections, profiles and bounds: the  *)
(* adapter is that of the selected connection as it is saved, only an      *)
(* adapter that reported a live session shows one or opens windows, and    *)
(* with every snapshot delivered the pill shows what the adapter said.     *)
(***************************************************************************)
EXTENDS MainWindow, TLAPS

-----------------------------------------------------------------------------
(* The invariant, as predicates of the record *)

\* An adapter was made by the attempt that goes on, for a complete profile, and has
\* what its flags say.
AdapterSound(k) ==
    /\ k.serial <= k.attempt
    /\ k.alive =>
        /\ k.active \in Ids /\ k.fingerprint \in Configs /\ k.serial = k.attempt
        /\ k.connected \/ k.link = "Live" \/ k.charted => k.wasLive

\* A snapshot of this attempt that shows a session is of an adapter that had one.
Earned(k, s) == s.of <= k.attempt /\ (s.of = k.attempt /\ s.connected => k.alive /\ k.wasLive)

PostedSound(k) == \A i \in 1..Len(k.posted) : Earned(k, k.posted[i])

Sound(k) == k \in Window /\ AdapterSound(k) /\ PostedSound(k)

\* ConnectedIsEarned, of a record.
ShownSound(k) == k.pill = "connected" \/ k.enabled => k.alive /\ k.wasLive

\* AdapterIsSelected, of a record.
Chosen(k) == k.alive => k.active = k.selected /\ k.fingerprint = k.profiles[k.selected]

Good(k) ==
    /\ Sound(k) /\ ShownSound(k)
    /\ k.modal # "warning" => Chosen(k)
    /\ k.modal = "instrument" => k.alive /\ k.wasLive
    /\ k.modal = "starting" => ~k.alive

IInv == Good(w)

\* What a handler leaves alone.
SameAdapter(r, k) ==
    /\ r.active = k.active /\ r.fingerprint = k.fingerprint /\ r.attempt = k.attempt
    /\ r.alive = k.alive /\ r.serial = k.serial /\ r.link = k.link
    /\ r.connected = k.connected /\ r.failed = k.failed
    /\ r.wasLive = k.wasLive /\ r.charted = k.charted

SameChoice(r, k) == r.modal = k.modal /\ r.profiles = k.profiles /\ r.selected = k.selected

-----------------------------------------------------------------------------
(* The second invariant: the queue and the pill *)

\* What PillAgrees says the pill shows, of a record.
SaidBy(k) ==
    CASE k.connected -> "connected"
      [] ~k.connected /\ k.failed -> "failed"
      [] OTHER -> "connecting"

Agrees(k) == k.pill = SaidBy(k) \/ (k.pill = "connecting" /\ k.link \in {"Lost", "Connecting"})

LinkSound(k) == k.link # "Off" /\ (k.link = "Live" => k.connected)

\* The snapshot shows the adapter as it is.
Current(k, s) ==
    /\ s.of = k.attempt /\ s.id = k.active
    /\ s.connected = k.connected /\ s.failed = k.failed

\* The last snapshot on the way is the adapter's, and without an adapter there is none
\* on the way that counts.
QueueSound(k) ==
    /\ k.alive => LinkSound(k)
    /\ k.alive /\ k.posted # <<>> => Current(k, k.posted[Len(k.posted)])
    /\ ~k.alive => k.active = None /\ \A i \in 1..Len(k.posted) : k.posted[i].of < k.attempt

\* A snapshot on the way will take the menu away.
BadNews(k) ==
    \E i \in 1..Len(k.posted) :
        k.posted[i].of = k.attempt /\ k.posted[i].id = k.active /\ ~k.posted[i].connected

\* What the pill shows with nothing on the way, but for the case without an adapter
\* and with no connection, which rebuildConnectionSelector sees to.
Shows(k) ==
    /\ k.alive /\ Chosen(k) /\ k.posted = <<>> => Agrees(k)
    /\ ~k.alive => k.selected = None \/ k.pill = "incomplete"

PillSound(k) ==
    /\ Shows(k)
    /\ k.enabled => k.pill = "connected"
    /\ k.alive /\ Chosen(k) /\ k.enabled /\ k.link = "Failed" => BadNews(k)
    /\ ~k.alive /\ k.selected = None => k.pill = "idle"

PInv == QueueSound(w) /\ PillSound(w)

-----------------------------------------------------------------------------
(* Snapshots on the way *)

LEMMA AppendPosted ==
  ASSUME NEW q \in Seq(Snapshots), NEW s \in Snapshots
  PROVE  /\ Append(q, s) \in Seq(Snapshots)
         /\ \A i \in 1..Len(Append(q, s)) :
                Append(q, s)[i] = s \/ (i \in 1..Len(q) /\ Append(q, s)[i] = q[i])
  OBVIOUS

LEMMA TailPosted ==
  ASSUME NEW q \in Seq(Snapshots), q # <<>>
  PROVE  /\ Tail(q) \in Seq(Snapshots) /\ Head(q) \in Snapshots
         /\ Head(q) = q[1] /\ 1 \in 1..Len(q)
         /\ \A i \in 1..Len(Tail(q)) : i + 1 \in 1..Len(q) /\ Tail(q)[i] = q[i + 1]
  OBVIOUS

LEMMA PostedTypes ==
  ASSUME NEW k \in Window
  PROVE  \A i \in 1..Len(k.posted) : k.posted[i] \in Snapshots /\ k.posted[i].of \in Nat
<1>1. k.posted \in Seq(Snapshots)
  BY DEF Window
<1>2. \A i \in 1..Len(k.posted) : k.posted[i] \in Snapshots
  BY <1>1
<1> QED
  BY <1>2 DEF Snapshots

\* Post keeps all but the queue, and the snapshot it adds is the adapter's.
LEMMA PostIs ==
  ASSUME NEW k \in Window, k.active \in Ids
  PROVE  /\ Post(k) \in Window
         /\ SameChoice(Post(k), k) /\ Post(k).pill = k.pill /\ Post(k).enabled = k.enabled
         /\ SameAdapter(Post(k), k)
         /\ \A i \in 1..Len(Post(k).posted) :
                \/ i \in 1..Len(k.posted) /\ Post(k).posted[i] = k.posted[i]
                \/ Post(k).posted[i].of = k.serial /\ Post(k).posted[i].connected = k.connected
<1> DEFINE s == [of |-> k.serial, id |-> k.active, connected |-> k.connected, failed |-> k.failed]
<1>1. s \in Snapshots /\ s.of = k.serial /\ s.connected = k.connected
  BY DEF Window, Snapshots
<1>2. k.posted \in Seq(Snapshots)
  BY DEF Window
<1>3. Post(k) = [k EXCEPT !.posted = Append(k.posted, s)]
  BY DEF Post
<1> HIDE DEF s
<1>4. Append(k.posted, s) \in Seq(Snapshots)
  BY <1>1, <1>2, AppendPosted
<1>5. Post(k) \in Window /\ Post(k).posted = Append(k.posted, s)
  BY <1>3, <1>4 DEF Window
<1>6. /\ SameChoice(Post(k), k) /\ Post(k).pill = k.pill /\ Post(k).enabled = k.enabled
      /\ SameAdapter(Post(k), k)
  BY <1>3 DEF Window, SameChoice, SameAdapter
<1> QED
  BY <1>1, <1>2, <1>5, <1>6, AppendPosted

\* The snapshot an adapter posts is of its attempt, and shows what it has.
LEMMA PostSound ==
  ASSUME NEW k, Sound(k), k.alive
  PROVE  Sound(Post(k))
<1>1. k \in Window /\ k.active \in Ids /\ k.serial = k.attempt /\ (k.connected => k.wasLive)
  BY DEF Sound, AdapterSound
<1>2. Post(k) \in Window /\ SameAdapter(Post(k), k)
  BY <1>1, PostIs
<1>3. AdapterSound(Post(k))
  BY <1>2 DEF Sound, AdapterSound, SameAdapter
<1>4. PostedSound(Post(k))
  <2>1. k.attempt \in Nat
    BY <1>1 DEF Window
  <2> QED
    BY <1>1, <1>2, <2>1, PostIs DEF Sound, PostedSound, Earned, SameAdapter
<1> QED
  BY <1>2, <1>3, <1>4 DEF Sound

\* The snapshot of the adapter as it is becomes the last, behind those on the way.
LEMMA PostQueue ==
  ASSUME NEW k, Sound(k), k.alive, LinkSound(k)
  PROVE  /\ QueueSound(Post(k)) /\ Post(k).posted # <<>>
         /\ BadNews(k) \/ ~k.connected => BadNews(Post(k))
<1> DEFINE s == [of |-> k.serial, id |-> k.active, connected |-> k.connected, failed |-> k.failed]
           q == Append(k.posted, s)
<1>1. k \in Window /\ k.active \in Ids /\ k.serial = k.attempt /\ k.posted \in Seq(Snapshots)
  BY DEF Sound, AdapterSound, Window
<1>2. s \in Snapshots /\ Current(k, s)
  BY <1>1 DEF Window, Snapshots, Current
<1>3. Post(k).posted = q /\ SameAdapter(Post(k), k)
  BY <1>1, PostIs DEF Post, Window
<1> HIDE DEF s
<1>4. /\ q # <<>> /\ Len(q) \in 1..Len(q) /\ q[Len(q)] = s
      /\ \A i \in 1..Len(k.posted) : i \in 1..Len(q) /\ q[i] = k.posted[i]
  BY <1>1, <1>2
<1> HIDE DEF q
<1>5. LinkSound(Post(k))
  BY <1>3 DEF LinkSound, SameAdapter
<1>6. Current(Post(k), Post(k).posted[Len(Post(k).posted)])
  BY <1>2, <1>3, <1>4 DEF Current, SameAdapter
<1>7. BadNews(k) => BadNews(Post(k))
  BY <1>3, <1>4 DEF BadNews, SameAdapter
<1>8. ~k.connected => BadNews(Post(k))
  BY <1>2, <1>3, <1>4 DEF BadNews, Current, SameAdapter
<1> QED
  BY <1>3, <1>4, <1>5, <1>6, <1>7, <1>8 DEF QueueSound, SameAdapter

-----------------------------------------------------------------------------
(* Members of the class *)

LEMMA SetStateSound ==
  ASSUME NEW k, Sound(k), NEW state \in Pills, state = "connected" => k.alive /\ k.wasLive
  PROVE  /\ Sound(SetConnectionState(k, state)) /\ ShownSound(SetConnectionState(k, state))
         /\ SameAdapter(SetConnectionState(k, state), k) /\ SameChoice(SetConnectionState(k, state), k)
         /\ SetConnectionState(k, state).posted = k.posted
<1> DEFINE set == [k EXCEPT !.pill = state]
           r == SetConnectionState(k, state)
<1>1. k \in Window
  BY DEF Sound
<1>2. /\ set \in Window /\ SameAdapter(set, k) /\ SameChoice(set, k)
      /\ set.pill = state /\ set.posted = k.posted
  BY <1>1 DEF Window, SameAdapter, SameChoice
<1>3. r = [set EXCEPT !.enabled = Ready(set)]
  BY DEF SetConnectionState
<1>4. Ready(set) \in BOOLEAN
  BY DEF Ready
<1> HIDE DEF set, r
<1>5. /\ r \in Window /\ SameAdapter(r, set) /\ SameChoice(r, set)
      /\ r.pill = state /\ r.posted = k.posted /\ r.enabled = Ready(set)
  BY <1>2, <1>3, <1>4 DEF Window, SameAdapter, SameChoice
<1>6. SameAdapter(r, k) /\ SameChoice(r, k)
  BY <1>2, <1>5 DEF SameAdapter, SameChoice
<1>7. Sound(r)
  BY <1>5, <1>6 DEF Sound, AdapterSound, PostedSound, Earned, SameAdapter
<1>8. ShownSound(r)
  BY <1>2, <1>5, <1>6 DEF ShownSound, Ready, SameAdapter
<1> QED
  BY <1>5, <1>6, <1>7, <1>8 DEF r

\* Another connection is selected.
LEMMA SelectedSound ==
  ASSUME NEW k, Sound(k), NEW id \in Ids \cup {None}
  PROVE  LET r == [k EXCEPT !.selected = id]
         IN  /\ Sound(r) /\ SameAdapter(r, k) /\ r.modal = k.modal /\ r.profiles = k.profiles
             /\ r.selected = id /\ r.pill = k.pill /\ r.enabled = k.enabled
             /\ r.posted = k.posted
<1> DEFINE r == [k EXCEPT !.selected = id]
<1>1. k \in Window
  BY DEF Sound
<1>2. /\ r \in Window /\ SameAdapter(r, k) /\ r.modal = k.modal /\ r.profiles = k.profiles
      /\ r.selected = id /\ r.pill = k.pill /\ r.posted = k.posted /\ r.enabled = k.enabled
  BY <1>1 DEF Window, SameAdapter
<1> HIDE DEF r
<1>3. Sound(r)
  BY <1>2 DEF Sound, AdapterSound, PostedSound, Earned, SameAdapter
<1> QED
  BY <1>2, <1>3 DEF r

LEMMA RebuildSound ==
  ASSUME NEW k, Sound(k), ShownSound(k)
  PROVE  LET r == RebuildConnectionSelector(k)
         IN  /\ Sound(r) /\ ShownSound(r) /\ SameAdapter(r, k)
             /\ r.modal = k.modal /\ r.profiles = k.profiles /\ r.posted = k.posted
             /\ Chosen(k) => Chosen(r)
<1> DEFINE r == RebuildConnectionSelector(k)
           none == [k EXCEPT !.selected = None]
<1>1. k \in Window
  BY DEF Sound
<1>2. CASE k.selected # None /\ k.profiles[k.selected] # Absent
  <2>1. r = SetConnectionState(k, k.pill)
    BY <1>2 DEF RebuildConnectionSelector
  <2>2. k.pill \in Pills /\ (k.pill = "connected" => k.alive /\ k.wasLive)
    BY <1>1 DEF Window, ShownSound
  <2>3. /\ Sound(r) /\ ShownSound(r) /\ SameAdapter(r, k) /\ SameChoice(r, k)
        /\ r.posted = k.posted
    BY <2>1, <2>2, SetStateSound
  <2> QED
    BY <2>3 DEF SameChoice, SameAdapter, Chosen
<1>3. CASE k.selected = None \/ k.profiles[k.selected] = Absent
  <2>1. r = SetConnectionState(none, "idle")
    BY <1>3 DEF RebuildConnectionSelector
  <2>2. /\ Sound(none) /\ SameAdapter(none, k) /\ none.modal = k.modal
        /\ none.profiles = k.profiles /\ none.posted = k.posted
    BY SelectedSound
  <2> HIDE DEF none, r
  <2>3. /\ Sound(r) /\ ShownSound(r) /\ SameAdapter(r, none) /\ SameChoice(r, none)
        /\ r.posted = none.posted
    BY <2>1, <2>2, SetStateSound DEF Pills
  <2>4. Chosen(k) => ~k.alive
    BY <1>3, IdsAssumption, ProfilesAssumption DEF Chosen, Sound, AdapterSound
  <2>5. SameAdapter(r, k)
    BY <2>2, <2>3 DEF SameAdapter
  <2>6. Chosen(k) => Chosen(r)
    BY <2>4, <2>5 DEF Chosen, SameAdapter
  <2> QED
    BY <2>2, <2>3, <2>5, <2>6 DEF SameChoice, r
<1> QED
  BY <1>2, <1>3

\* The attempt ends with its adapter, and what was posted is of an attempt before.
LEMMA DisconnectSound ==
  ASSUME NEW k, Sound(k)
  PROVE  LET r == DisconnectActiveConnection(k)
         IN  /\ Sound(r) /\ ~r.alive /\ SameChoice(r, k) /\ r.pill = k.pill
             /\ r.attempt >= k.attempt
             /\ QueueSound(k) => QueueSound(r)
<1> DEFINE r == DisconnectActiveConnection(k)
           off == [k EXCEPT !.attempt = @ + 1, !.connected = FALSE, !.failed = FALSE]
           told == Post(off)
<1>1. k \in Window /\ k.attempt \in Nat /\ k.serial \in Nat /\ k.alive \in BOOLEAN
  BY DEF Sound, Window
<1>2. CASE ~k.alive /\ k.active = None
  <2>1. r = k
    BY <1>2 DEF DisconnectActiveConnection
  <2> QED
    BY <1>1, <1>2, <2>1 DEF SameChoice
<1>3. CASE k.alive \/ k.active # None
  <2>1. r = [told EXCEPT !.alive = FALSE, !.link = "Off", !.active = None, !.fingerprint = None]
    BY <1>3 DEF DisconnectActiveConnection
  <2>2. /\ off \in Window /\ SameChoice(off, k) /\ off.pill = k.pill /\ off.posted = k.posted
        /\ off.attempt = k.attempt + 1 /\ off.serial = k.serial /\ off.active = k.active
    <3>1. k.attempt + 1 \in Nat /\ FALSE \in BOOLEAN
      BY <1>1
    <3>2. off \in Window
      BY <1>1, <3>1 DEF Window
    <3> QED
      BY <1>1, <3>2 DEF Window, SameChoice
  <2>3. off.active \in Ids
    BY <1>1, <1>3, <2>2 DEF Sound, AdapterSound, Window
  <2> HIDE DEF off
  <2>4. /\ told \in Window /\ SameChoice(told, k) /\ told.pill = k.pill
        /\ told.attempt = k.attempt + 1 /\ told.serial = k.serial
        /\ \A i \in 1..Len(told.posted) :
                \/ i \in 1..Len(k.posted) /\ told.posted[i] = k.posted[i]
                \/ told.posted[i].of = k.serial
    BY <2>2, <2>3, PostIs DEF SameChoice, SameAdapter
  <2> HIDE DEF told
  <2>5. /\ r \in Window /\ SameChoice(r, k) /\ r.pill = k.pill
        /\ r.attempt = k.attempt + 1 /\ r.serial = k.serial /\ r.posted = told.posted
        /\ ~r.alive /\ r.active = None
    BY <2>1, <2>4 DEF Window, SameChoice, Links
  <2> HIDE DEF r
  <2>6. \A i \in 1..Len(r.posted) : r.posted[i].of < r.attempt
    <3>1. \A i \in 1..Len(k.posted) : k.posted[i].of \in Nat /\ k.posted[i].of <= k.attempt
      BY <1>1, PostedTypes DEF Sound, PostedSound, Earned
    <3> QED
      BY <1>1, <2>4, <2>5, <3>1 DEF Sound, AdapterSound
  <2>7. Sound(r)
    <3>1. r.attempt \in Nat
      BY <1>1, <2>5
    <3>2. \A i \in 1..Len(r.posted) : r.posted[i].of \in Nat
      BY <2>5, PostedTypes
    <3>3. PostedSound(r)
      BY <2>6, <3>1, <3>2 DEF PostedSound, Earned
    <3>4. AdapterSound(r)
      BY <1>1, <2>5 DEF Sound, AdapterSound
    <3> QED
      BY <2>5, <3>3, <3>4 DEF Sound
  <2>8. QueueSound(r)
    BY <2>5, <2>6 DEF QueueSound
  <2> QED
    BY <1>1, <2>5, <2>7, <2>8 DEF r
<1> QED
  BY <1>2, <1>3, <1>1

\* The flags of the adapter change.
LEMMA FlagsSound ==
  ASSUME NEW k, Sound(k), NEW r \in Window,
         r.active = k.active, r.fingerprint = k.fingerprint, r.attempt = k.attempt,
         r.alive = k.alive, r.serial = k.serial, r.posted = k.posted,
         k.wasLive => r.wasLive,
         r.connected \/ r.link = "Live" \/ r.charted => r.wasLive
  PROVE  Sound(r)
<1>1. AdapterSound(r)
  BY DEF Sound, AdapterSound
<1>2. PostedSound(r)
  BY DEF Sound, PostedSound, Earned
<1> QED
  BY <1>1, <1>2 DEF Sound

\* The attempt is new: what is on the way is older.
LEMMA ConnectSound ==
  ASSUME NEW k \in Window, NEW outcome, ~k.alive, k.active \in Ids, k.fingerprint \in Configs,
         \A i \in 1..Len(k.posted) : k.posted[i].of < k.attempt
  PROVE  LET r == Connect(k, outcome)
         IN  /\ Sound(r) /\ r.alive /\ SameChoice(r, k)
             /\ r.active = k.active /\ r.fingerprint = k.fingerprint
             /\ QueueSound(r) /\ r.posted # <<>>
<1> DEFINE r == Connect(k, outcome)
           made == [k EXCEPT !.alive = TRUE, !.serial = k.attempt, !.link = "Connecting",
                             !.connected = k.fingerprint \in Simulated, !.failed = FALSE,
                             !.wasLive = k.fingerprint \in Simulated, !.charted = FALSE]
           live == [made EXCEPT !.link = "Live"]
           dead == [Post(made) EXCEPT !.link = "Failed", !.failed = TRUE]
           Made(q) == /\ Sound(q) /\ q.alive /\ SameChoice(q, k)
                      /\ q.active = k.active /\ q.fingerprint = k.fingerprint
<1>1. made \in Window /\ made.alive /\ SameChoice(made, k) /\ made.serial = k.attempt
      /\ made.attempt = k.attempt /\ made.posted = k.posted /\ made.active = k.active
      /\ made.fingerprint = k.fingerprint /\ ~made.charted /\ made.link = "Connecting"
      /\ made.connected = made.wasLive /\ made.wasLive = (k.fingerprint \in Simulated)
  <2>1. "Connecting" \in Links /\ (k.fingerprint \in Simulated) \in BOOLEAN /\ k.attempt \in Nat
    BY DEF Links, Window
  <2>2. made \in Window
    BY <2>1 DEF Window
  <2> QED
    BY <2>2 DEF Window, SameChoice
<1> HIDE DEF made
<1>2. Made(made)
  <2>1. made.attempt \in Nat /\ \A i \in 1..Len(made.posted) : made.posted[i].of \in Nat
    BY <1>1, PostedTypes DEF Window
  <2>2. PostedSound(made)
    BY <1>1, <2>1 DEF PostedSound, Earned
  <2>3. AdapterSound(made)
    BY <1>1, <2>1 DEF AdapterSound
  <2> QED
    BY <1>1, <2>2, <2>3 DEF Sound
<1>3. ASSUME NEW q, Made(q) PROVE Made(Post(q))
  <2>1. q \in Window /\ q.active \in Ids
    BY <1>3 DEF Sound
  <2>2. SameChoice(Post(q), q) /\ SameAdapter(Post(q), q)
    BY <2>1, PostIs
  <2> QED
    BY <1>3, <2>2, PostSound DEF SameChoice, SameAdapter
<1>4. k.fingerprint \in Simulated => Made(live) /\ LinkSound(live)
  <2> SUFFICES ASSUME k.fingerprint \in Simulated PROVE Made(live) /\ LinkSound(live)
    OBVIOUS
  <2>1. /\ live \in Window /\ SameChoice(live, made) /\ live.active = made.active
        /\ live.fingerprint = made.fingerprint /\ live.attempt = made.attempt
        /\ live.alive = made.alive /\ live.serial = made.serial /\ live.posted = made.posted
        /\ live.wasLive = made.wasLive /\ live.connected = made.connected /\ live.link = "Live"
    BY <1>1 DEF Window, SameChoice, Links
  <2>2. Sound(live)
    BY <1>1, <1>2, <2>1, FlagsSound
  <2>3. LinkSound(live)
    BY <1>1, <2>1 DEF LinkSound
  <2> QED
    BY <1>1, <2>1, <2>2, <2>3 DEF SameChoice
<1>5. Made(dead) /\ LinkSound(dead)
  <2> DEFINE q == Post(made)
  <2>1. Made(q)
    BY <1>2, <1>3
  <2>2. q.connected => q.wasLive
    BY <2>1 DEF Sound, AdapterSound
  <2>3. ~q.charted
    BY <1>1, PostIs DEF SameAdapter
  <2> HIDE DEF q
  <2>4. /\ dead \in Window /\ SameChoice(dead, q) /\ dead.active = q.active
        /\ dead.fingerprint = q.fingerprint /\ dead.attempt = q.attempt
        /\ dead.alive = q.alive /\ dead.serial = q.serial /\ dead.posted = q.posted
        /\ dead.wasLive = q.wasLive /\ dead.link = "Failed" /\ dead.connected = q.connected
        /\ dead.charted = q.charted
    BY <2>1 DEF Sound, Window, SameChoice, Links, q
  <2>5. Sound(dead)
    BY <2>1, <2>2, <2>3, <2>4, FlagsSound
  <2>6. LinkSound(dead)
    BY <2>4 DEF LinkSound
  <2> QED
    BY <2>1, <2>4, <2>5, <2>6 DEF SameChoice
<1>6. CASE k.fingerprint \in Simulated
  <2>1. r = Post(live)
    BY <1>6 DEF Connect, made
  <2> HIDE DEF live, r
  <2>2. Made(Post(live))
    BY <1>3, <1>4, <1>6
  <2>3. QueueSound(Post(live)) /\ Post(live).posted # <<>>
    BY <1>4, <1>6, PostQueue
  <2> QED
    BY <2>1, <2>2, <2>3 DEF r
<1>7. CASE k.fingerprint \notin Simulated
  <2>1. r = Post(made) \/ r = Post(dead)
    BY <1>7 DEF Connect, made
  <2> HIDE DEF dead, r
  <2>2. LinkSound(made)
    BY <1>1 DEF LinkSound
  <2>3. Made(Post(made)) /\ Made(Post(dead))
    BY <1>2, <1>3, <1>5
  <2>4. QueueSound(Post(made)) /\ Post(made).posted # <<>>
    BY <1>2, <2>2, PostQueue
  <2>5. QueueSound(Post(dead)) /\ Post(dead).posted # <<>>
    BY <1>5, PostQueue
  <2>6. Made(r) /\ QueueSound(r) /\ r.posted # <<>>
    <3>1. CASE r = Post(made)
      BY <2>3, <2>4, <3>1
    <3>2. CASE r = Post(dead)
      BY <2>3, <2>5, <3>2
    <3> QED
      BY <2>1, <3>1, <3>2
  <2> QED
    BY <2>6 DEF r
<1> QED
  BY <1>6, <1>7

LEMMA IncompletelySound ==
  ASSUME NEW k, Sound(k)
  PROVE  LET r == Incompletely(k)
         IN  Sound(r) /\ ShownSound(r) /\ ~r.alive /\ r.modal = k.modal
<1> DEFINE off == DisconnectActiveConnection(k)
           told == SetConnectionState(off, "incomplete")
           r == RebuildConnectionSelector(told)
<1>1. Sound(off) /\ ~off.alive /\ off.modal = k.modal
  BY DisconnectSound DEF SameChoice
<1> HIDE DEF off
<1>2. Sound(told) /\ ShownSound(told) /\ ~told.alive /\ told.modal = k.modal
  BY <1>1, SetStateSound DEF Pills, SameChoice, SameAdapter
<1> HIDE DEF told
<1>3. Sound(r) /\ ShownSound(r) /\ ~r.alive /\ r.modal = k.modal
  BY <1>2, RebuildSound DEF SameAdapter
<1> QED
  BY <1>3 DEF Incompletely, told, off

\* A profile that can be used is connected to by a new attempt.
LEMMA BegunSound ==
  ASSUME NEW k, Sound(k), NEW id \in Ids, NEW outcome, k.profiles[id] \in Configs
  PROVE  LET off == DisconnectActiveConnection([k EXCEPT !.selected = id])
             begun == SetConnectionState(
                         [off EXCEPT !.attempt = @ + 1, !.active = id,
                                     !.fingerprint = k.profiles[id]],
                         "connecting")
             tried == Connect(begun, outcome)
         IN  /\ Sound(tried) /\ tried.alive /\ Chosen(tried) /\ tried.modal = k.modal
             /\ QueueSound(tried) /\ tried.posted # <<>>
<1> DEFINE chosen == [k EXCEPT !.selected = id]
           off == DisconnectActiveConnection(chosen)
           next == [off EXCEPT !.attempt = @ + 1, !.active = id, !.fingerprint = k.profiles[id]]
           begun == SetConnectionState(next, "connecting")
           tried == Connect(begun, outcome)
<1>1. Sound(chosen) /\ chosen.modal = k.modal /\ chosen.profiles = k.profiles /\ chosen.selected = id
  BY SelectedSound
<1> HIDE DEF chosen
<1>2. /\ Sound(off) /\ ~off.alive /\ off.modal = k.modal /\ off.profiles = k.profiles
      /\ off.selected = id
  BY <1>1, DisconnectSound DEF SameChoice
<1> HIDE DEF off
<1>3. off \in Window /\ off.attempt \in Nat /\ off.serial \in Nat /\ off.serial <= off.attempt
  BY <1>2 DEF Sound, Window, AdapterSound
<1>4. /\ next \in Window /\ next.attempt = off.attempt + 1 /\ next.posted = off.posted
      /\ next.serial = off.serial /\ next.alive = off.alive
      /\ next.active = id /\ next.fingerprint = k.profiles[id] /\ SameChoice(next, off)
  <2>1. off.attempt + 1 \in Nat /\ k.profiles[id] \in Configs
    BY <1>3
  <2>2. next \in Window
    BY <1>3, <2>1 DEF Window
  <2> QED
    BY <1>3, <2>2 DEF Window, SameChoice
<1> HIDE DEF next
<1>5. \A i \in 1..Len(next.posted) : next.posted[i].of < next.attempt
  BY <1>2, <1>3, <1>4, PostedTypes DEF Sound, PostedSound, Earned
<1>6. Sound(next)
  <2>1. AdapterSound(next)
    BY <1>2, <1>3, <1>4 DEF AdapterSound
  <2>2. next.attempt \in Nat /\ \A i \in 1..Len(next.posted) : next.posted[i].of \in Nat
    BY <1>3, <1>4, PostedTypes
  <2>3. PostedSound(next)
    BY <1>5, <2>2 DEF PostedSound, Earned
  <2> QED
    BY <1>4, <2>1, <2>3 DEF Sound
<1>7. /\ Sound(begun) /\ SameAdapter(begun, next) /\ SameChoice(begun, next)
      /\ begun.posted = next.posted
  BY <1>6, SetStateSound DEF Pills
<1> HIDE DEF begun
<1>8. /\ Sound(tried) /\ tried.alive /\ SameChoice(tried, begun)
      /\ tried.active = begun.active /\ tried.fingerprint = begun.fingerprint
      /\ QueueSound(tried) /\ tried.posted # <<>>
  BY <1>2, <1>4, <1>5, <1>7, ConnectSound DEF SameAdapter, Sound
<1> HIDE DEF tried
<1>9. Chosen(tried) /\ tried.modal = k.modal
  BY <1>2, <1>4, <1>7, <1>8 DEF Chosen, SameChoice, SameAdapter
<1> QED
  BY <1>8, <1>9 DEF tried, begun, next, off, chosen

LEMMA BeginSound ==
  ASSUME NEW k, Sound(k), ShownSound(k), NEW id \in Ids, NEW outcome
  PROVE  LET r == BeginConnection(k, id, outcome)
         IN  Sound(r) /\ ShownSound(r) /\ Chosen(r) /\ r.modal = k.modal
<1> DEFINE r == BeginConnection(k, id, outcome)
           chosen == [k EXCEPT !.selected = id]
<1>1. /\ Sound(chosen) /\ SameAdapter(chosen, k) /\ chosen.modal = k.modal
      /\ chosen.profiles = k.profiles /\ chosen.selected = id
      /\ chosen.pill = k.pill /\ chosen.enabled = k.enabled
  BY SelectedSound
<1>2. CASE k.profiles[id] \notin Configs
  <2>1. r = Incompletely(chosen)
    BY <1>2 DEF BeginConnection
  <2> HIDE DEF chosen, r
  <2>2. Sound(r) /\ ShownSound(r) /\ ~r.alive /\ r.modal = k.modal
    BY <1>1, <2>1, IncompletelySound
  <2> QED
    BY <2>2 DEF Chosen, r
<1>3. CASE /\ k.profiles[id] \in Configs /\ k.alive /\ k.active = id
           /\ k.fingerprint = k.profiles[id]
  <2>1. r = RebuildConnectionSelector(chosen)
    BY <1>3 DEF BeginConnection
  <2> HIDE DEF chosen, r
  <2>2. ShownSound(chosen) /\ Chosen(chosen)
    BY <1>1, <1>3 DEF ShownSound, Chosen, SameAdapter
  <2>3. Sound(r) /\ ShownSound(r) /\ Chosen(r) /\ r.modal = k.modal
    BY <1>1, <2>1, <2>2, RebuildSound
  <2> QED
    BY <2>3 DEF r
<1>4. CASE /\ k.profiles[id] \in Configs
           /\ ~(k.alive /\ k.active = id /\ k.fingerprint = k.profiles[id])
  <2> DEFINE off == DisconnectActiveConnection(chosen)
             begun == SetConnectionState(
                         [off EXCEPT !.attempt = @ + 1, !.active = id,
                                     !.fingerprint = k.profiles[id]],
                         "connecting")
             tried == Connect(begun, outcome)
             state == CASE outcome = "refused" /\ tried.link = "Failed" -> "failed"
                        [] tried.link = "Live" -> "connected"
                        [] OTHER -> "connecting"
             set == SetConnectionState(tried, state)
  <2>1. r = RebuildConnectionSelector(set)
    BY <1>4 DEF BeginConnection
  <2>2. /\ Sound(tried) /\ tried.alive /\ Chosen(tried) /\ tried.modal = k.modal
        /\ QueueSound(tried) /\ tried.posted # <<>>
    BY <1>4, BegunSound
  <2> HIDE DEF tried, r
  <2>3. state \in Pills /\ (state = "connected" => tried.alive /\ tried.wasLive)
    BY <2>2 DEF Pills, Sound, AdapterSound
  <2> HIDE DEF state
  <2>4. Sound(set) /\ ShownSound(set) /\ SameAdapter(set, tried) /\ SameChoice(set, tried)
    BY <2>2, <2>3, SetStateSound
  <2>5. Chosen(set) /\ set.modal = k.modal
    BY <2>2, <2>4 DEF Chosen, SameAdapter, SameChoice
  <2> HIDE DEF set
  <2>6. Sound(r) /\ ShownSound(r) /\ Chosen(r) /\ r.modal = k.modal
    BY <2>1, <2>4, <2>5, RebuildSound
  <2> QED
    BY <2>6 DEF r
<1> QED
  BY <1>2, <1>3, <1>4

LEMMA SelectSound ==
  ASSUME NEW k, Sound(k), ShownSound(k), NEW id \in Ids \cup {None}, NEW outcome
  PROVE  LET r == SelectConnectionById(k, id, outcome)
         IN  Sound(r) /\ ShownSound(r) /\ Chosen(r) /\ r.modal = k.modal
<1> DEFINE r == SelectConnectionById(k, id, outcome)
<1>1. CASE id # None
  BY <1>1, BeginSound DEF SelectConnectionById
<1>2. CASE id = None /\ k.selected = None /\ ~k.alive
  <2>1. r = RebuildConnectionSelector(k) /\ Chosen(k)
    BY <1>2 DEF SelectConnectionById, Chosen
  <2> QED
    BY <2>1, RebuildSound
<1>3. CASE id = None /\ ~(k.selected = None /\ ~k.alive)
  <2> DEFINE none == [k EXCEPT !.selected = None]
             off == DisconnectActiveConnection(none)
             set == SetConnectionState(off, "idle")
  <2>1. r = RebuildConnectionSelector(set)
    BY <1>3 DEF SelectConnectionById
  <2>2. Sound(none) /\ none.modal = k.modal
    BY SelectedSound
  <2> HIDE DEF none, r
  <2>3. Sound(off) /\ ~off.alive /\ off.modal = k.modal
    BY <2>2, DisconnectSound DEF SameChoice
  <2> HIDE DEF off
  <2>4. Sound(set) /\ ShownSound(set) /\ ~set.alive /\ set.modal = k.modal
    BY <2>3, SetStateSound DEF Pills, SameChoice, SameAdapter
  <2> HIDE DEF set
  <2>5. Sound(r) /\ ShownSound(r) /\ ~r.alive /\ r.modal = k.modal
    BY <2>1, <2>4, RebuildSound DEF SameAdapter
  <2> QED
    BY <2>5 DEF Chosen, r
<1> QED
  BY <1>1, <1>2, <1>3

\* A snapshot is taken that is earned.
LEMMA TakeSound ==
  ASSUME NEW k, Sound(k), ShownSound(k), NEW s, Earned(k, s), NEW news
  PROVE  LET r == TakeSnapshot(k, s, news)
         IN  /\ Sound(r) /\ ShownSound(r) /\ SameAdapter(r, k) /\ r.modal = k.modal
             /\ Chosen(k) => Chosen(r)
<1> DEFINE r == TakeSnapshot(k, s, news)
           state == CASE s.connected -> "connected"
                      [] ~s.connected /\ s.failed -> "failed"
                      [] OTHER -> "connecting"
           set == SetConnectionState(k, state)
<1>1. CASE r = k
  BY <1>1 DEF SameAdapter
<1>2. CASE r # k
  <2>1. r = RebuildConnectionSelector(set) /\ s.of = k.attempt
    BY <1>2 DEF TakeSnapshot
  <2>2. state \in Pills /\ (state = "connected" => s.connected)
    BY DEF Pills
  <2> HIDE DEF state, r
  <2>3. /\ Sound(set) /\ ShownSound(set) /\ SameAdapter(set, k) /\ SameChoice(set, k)
    BY <2>1, <2>2, SetStateSound DEF Earned
  <2> HIDE DEF set
  <2>4. /\ Sound(r) /\ ShownSound(r) /\ SameAdapter(r, set) /\ r.modal = set.modal
        /\ Chosen(set) => Chosen(r)
    BY <2>1, <2>3, RebuildSound
  <2> QED
    BY <2>3, <2>4 DEF Chosen, SameAdapter, SameChoice, r
<1> QED
  BY <1>1, <1>2

-----------------------------------------------------------------------------
(* The queue and the pill through the members of the class *)

\* The queue is sound by what the adapter is and what is on the way.
LEMMA QueueSame ==
  ASSUME NEW k, QueueSound(k), NEW r, SameAdapter(r, k), r.posted = k.posted
  PROVE  QueueSound(r)
<1>1. k.alive => LinkSound(r)
  BY DEF QueueSound, LinkSound, SameAdapter
<1>2. k.alive /\ k.posted # <<>> => Current(r, r.posted[Len(r.posted)])
  BY DEF QueueSound, Current, SameAdapter
<1>3. ~k.alive => r.active = None /\ \A i \in 1..Len(r.posted) : r.posted[i].of < r.attempt
  BY DEF QueueSound, SameAdapter
<1> QED
  BY <1>1, <1>2, <1>3 DEF QueueSound, SameAdapter

\* So is the pill, when it and the selection are as before.
LEMMA PillSame ==
  ASSUME NEW k, PillSound(k), NEW r, SameAdapter(r, k), r.posted = k.posted,
         r.pill = k.pill, r.enabled = k.enabled, r.selected = k.selected,
         k.alive /\ Chosen(r) => Chosen(k)
  PROVE  PillSound(r)
<1>1. Agrees(k) => Agrees(r)
  BY DEF Agrees, SaidBy, SameAdapter
<1>2. BadNews(k) => BadNews(r)
  BY DEF BadNews, SameAdapter
<1>3. Shows(r)
  BY <1>1 DEF PillSound, Shows, SameAdapter
<1>4. r.alive /\ Chosen(r) /\ r.enabled /\ r.link = "Failed" => BadNews(r)
  BY <1>2 DEF PillSound, SameAdapter
<1> QED
  BY <1>3, <1>4 DEF PillSound, SameAdapter

\* The menu is enabled only over a session that is shown.
LEMMA SetStateIs ==
  ASSUME NEW k \in Window, NEW state \in Pills
  PROVE  LET r == SetConnectionState(k, state)
         IN  /\ SameAdapter(r, k) /\ SameChoice(r, k) /\ r.posted = k.posted
             /\ r.pill = state /\ (r.enabled => state = "connected" /\ k.link = "Live")
<1> DEFINE set == [k EXCEPT !.pill = state]
           r == SetConnectionState(k, state)
<1>1. /\ set \in Window /\ SameAdapter(set, k) /\ SameChoice(set, k)
      /\ set.pill = state /\ set.posted = k.posted
  BY DEF Window, SameAdapter, SameChoice
<1>2. r = [set EXCEPT !.enabled = Ready(set)]
  BY DEF SetConnectionState
<1>3. Ready(set) => set.pill = "connected" /\ set.link = "Live"
  BY DEF Ready
<1> HIDE DEF set, r
<1>4. /\ SameAdapter(r, set) /\ SameChoice(r, set)
      /\ r.pill = state /\ r.posted = k.posted /\ r.enabled = Ready(set)
  BY <1>1, <1>2 DEF Window, SameAdapter, SameChoice
<1>5. SameAdapter(r, k) /\ SameChoice(r, k)
  BY <1>1, <1>4 DEF SameAdapter, SameChoice
<1> QED
  BY <1>1, <1>3, <1>4, <1>5 DEF r, SameAdapter

\* Whatever was shown before, the selector is rebuilt to a state that is sound.
LEMMA RebuildPill ==
  ASSUME NEW k, Sound(k), QueueSound(k), Shows(k)
  PROVE  QueueSound(RebuildConnectionSelector(k)) /\ PillSound(RebuildConnectionSelector(k))
<1> DEFINE r == RebuildConnectionSelector(k)
           none == [k EXCEPT !.selected = None]
<1>1. k \in Window /\ k.pill \in Pills /\ (k.alive => k.active \in Ids)
  BY DEF Sound, AdapterSound, Window
<1>2. CASE k.selected # None /\ k.profiles[k.selected] # Absent
  <2>1. r = SetConnectionState(k, k.pill)
    BY <1>2 DEF RebuildConnectionSelector
  <2>2. /\ SameAdapter(r, k) /\ SameChoice(r, k) /\ r.posted = k.posted
        /\ r.pill = k.pill /\ (r.enabled => k.pill = "connected" /\ k.link = "Live")
    BY <1>1, <2>1, SetStateIs
  <2> HIDE DEF r
  <2>3. QueueSound(r)
    BY <2>2, QueueSame
  <2>4. Shows(r)
    BY <2>2 DEF Shows, Chosen, Agrees, SaidBy, SameAdapter, SameChoice
  <2>5. r.enabled => r.pill = "connected" /\ r.link # "Failed"
    BY <2>2 DEF SameAdapter
  <2>6. r.selected # None
    BY <1>2, <2>2 DEF SameChoice
  <2> QED
    BY <2>3, <2>4, <2>5, <2>6 DEF PillSound, r
<1>3. CASE k.selected = None \/ k.profiles[k.selected] = Absent
  <2>1. r = SetConnectionState(none, "idle")
    BY <1>3 DEF RebuildConnectionSelector
  <2>2. /\ none \in Window /\ SameAdapter(none, k) /\ none.selected = None
        /\ none.posted = k.posted
    BY SelectedSound DEF Sound
  <2> HIDE DEF none
  <2>3. /\ SameAdapter(r, none) /\ SameChoice(r, none) /\ r.posted = none.posted
        /\ r.pill = "idle" /\ ~r.enabled
    BY <2>1, <2>2, SetStateIs DEF Pills
  <2> HIDE DEF r
  <2>4. SameAdapter(r, k) /\ r.posted = k.posted /\ r.selected = None
    BY <2>2, <2>3 DEF SameAdapter, SameChoice
  <2>5. QueueSound(r)
    BY <2>4, QueueSame
  <2>6. r.alive => ~Chosen(r)
    BY <1>1, <2>4, IdsAssumption DEF Chosen, SameAdapter
  <2> QED
    BY <2>3, <2>4, <2>5, <2>6 DEF PillSound, Shows, r
<1> QED
  BY <1>2, <1>3

LEMMA IncompletelyPill ==
  ASSUME NEW k, Sound(k), QueueSound(k)
  PROVE  QueueSound(Incompletely(k)) /\ PillSound(Incompletely(k))
<1> DEFINE off == DisconnectActiveConnection(k)
           told == SetConnectionState(off, "incomplete")
<1>1. Sound(off) /\ ~off.alive /\ QueueSound(off)
  BY DisconnectSound
<1> HIDE DEF off
<1>2. Sound(told)
  BY <1>1, SetStateSound DEF Pills
<1>3. SameAdapter(told, off) /\ told.posted = off.posted /\ told.pill = "incomplete"
  BY <1>1, SetStateIs DEF Pills, Sound
<1> HIDE DEF told
<1>4. QueueSound(told) /\ Shows(told)
  BY <1>1, <1>3, QueueSame DEF Shows, SameAdapter
<1>5. QueueSound(RebuildConnectionSelector(told)) /\ PillSound(RebuildConnectionSelector(told))
  BY <1>2, <1>4, RebuildPill
<1> QED
  BY <1>5 DEF Incompletely, told, off

\* A connection that is up already is the selected one.
LEMMA BeginPill ==
  ASSUME NEW k, Sound(k), QueueSound(k), k.alive => Shows(k), NEW id \in Ids, NEW outcome,
         k.alive /\ k.active = id => k.selected = id
  PROVE  QueueSound(BeginConnection(k, id, outcome)) /\ PillSound(BeginConnection(k, id, outcome))
<1> DEFINE r == BeginConnection(k, id, outcome)
           chosen == [k EXCEPT !.selected = id]
<1>1. /\ Sound(chosen) /\ SameAdapter(chosen, k) /\ chosen.profiles = k.profiles
      /\ chosen.selected = id /\ chosen.pill = k.pill /\ chosen.posted = k.posted
  BY SelectedSound
<1>2. CASE k.profiles[id] \notin Configs
  <2>1. r = Incompletely(chosen)
    BY <1>2 DEF BeginConnection
  <2> HIDE DEF chosen, r
  <2>2. QueueSound(chosen)
    BY <1>1, QueueSame
  <2> QED
    BY <1>1, <2>1, <2>2, IncompletelyPill DEF r
<1>3. CASE /\ k.profiles[id] \in Configs /\ k.alive /\ k.active = id
           /\ k.fingerprint = k.profiles[id]
  <2>1. r = RebuildConnectionSelector(chosen)
    BY <1>3 DEF BeginConnection
  <2> HIDE DEF chosen, r
  <2>2. QueueSound(chosen)
    BY <1>1, QueueSame
  <2>3. Chosen(k)
    BY <1>3 DEF Chosen
  <2>4. Shows(chosen)
    BY <1>1, <1>3, <2>3 DEF Shows, Agrees, SaidBy, SameAdapter
  <2>5. QueueSound(r) /\ PillSound(r)
    BY <1>1, <2>1, <2>2, <2>4, RebuildPill
  <2> QED
    BY <2>5 DEF r
<1>4. CASE /\ k.profiles[id] \in Configs
           /\ ~(k.alive /\ k.active = id /\ k.fingerprint = k.profiles[id])
  <2> DEFINE off == DisconnectActiveConnection(chosen)
             begun == SetConnectionState(
                         [off EXCEPT !.attempt = @ + 1, !.active = id,
                                     !.fingerprint = k.profiles[id]],
                         "connecting")
             tried == Connect(begun, outcome)
             state == CASE outcome = "refused" /\ tried.link = "Failed" -> "failed"
                        [] tried.link = "Live" -> "connected"
                        [] OTHER -> "connecting"
             set == SetConnectionState(tried, state)
  <2>1. r = RebuildConnectionSelector(set)
    BY <1>4 DEF BeginConnection
  <2>2. /\ Sound(tried) /\ tried.alive /\ Chosen(tried) /\ tried.modal = k.modal
        /\ QueueSound(tried) /\ tried.posted # <<>>
    BY <1>4, BegunSound, ZenonT(60)
  <2> HIDE DEF tried, r
  <2>3. state \in Pills /\ (state = "connected" => tried.alive /\ tried.wasLive)
    BY <2>2 DEF Pills, Sound, AdapterSound
  <2> HIDE DEF state
  <2>4. Sound(set)
    BY <2>2, <2>3, SetStateSound
  <2>5. SameAdapter(set, tried) /\ set.posted = tried.posted
    BY <2>2, <2>3, SetStateIs DEF Sound
  <2> HIDE DEF set
  <2>6. QueueSound(set) /\ Shows(set)
    BY <2>2, <2>5, QueueSame DEF Shows, SameAdapter
  <2>7. QueueSound(r) /\ PillSound(r)
    BY <2>1, <2>4, <2>6, RebuildPill
  <2> QED
    BY <2>7 DEF r
<1> QED
  BY <1>2, <1>3, <1>4

LEMMA SelectPill ==
  ASSUME NEW k, Sound(k), QueueSound(k), k.alive => Shows(k), NEW id \in Ids \cup {None}, NEW outcome,
         k.alive /\ k.active = id => k.selected = id
  PROVE  /\ QueueSound(SelectConnectionById(k, id, outcome))
         /\ PillSound(SelectConnectionById(k, id, outcome))
<1> DEFINE r == SelectConnectionById(k, id, outcome)
<1>1. CASE id # None
  <2>1. r = BeginConnection(k, id, outcome)
    BY <1>1 DEF SelectConnectionById
  <2> HIDE DEF r
  <2> QED
    BY <1>1, <2>1, BeginPill DEF r
<1>2. CASE id = None /\ k.selected = None /\ ~k.alive
  <2>1. r = RebuildConnectionSelector(k) /\ Shows(k)
    BY <1>2 DEF SelectConnectionById, Shows
  <2> QED
    BY <2>1, RebuildPill
<1>3. CASE id = None /\ ~(k.selected = None /\ ~k.alive)
  <2> DEFINE none == [k EXCEPT !.selected = None]
             off == DisconnectActiveConnection(none)
             set == SetConnectionState(off, "idle")
  <2>1. r = RebuildConnectionSelector(set)
    BY <1>3 DEF SelectConnectionById
  <2>2. Sound(none) /\ SameAdapter(none, k) /\ none.posted = k.posted /\ none.selected = None
    BY SelectedSound
  <2> HIDE DEF none, r
  <2>3. QueueSound(none)
    BY <2>2, QueueSame
  <2>4. Sound(off) /\ ~off.alive /\ QueueSound(off) /\ off.selected = None
    BY <2>2, <2>3, DisconnectSound DEF SameChoice
  <2> HIDE DEF off
  <2>5. Sound(set)
    BY <2>4, SetStateSound DEF Pills
  <2>6. SameAdapter(set, off) /\ SameChoice(set, off) /\ set.posted = off.posted
    BY <2>4, SetStateIs DEF Pills, Sound
  <2> HIDE DEF set
  <2>7. QueueSound(set) /\ Shows(set)
    BY <2>4, <2>6, QueueSame DEF Shows, SameAdapter, SameChoice
  <2> QED
    BY <2>1, <2>5, <2>7, RebuildPill DEF r
<1> QED
  BY <1>1, <1>2, <1>3

-----------------------------------------------------------------------------
(* The steps *)

LEMMA InitGood == Init => IInv
<1> SUFFICES ASSUME Init PROVE IInv
  OBVIOUS
<1>1. /\ w.modal = "starting" /\ w.profiles \in [Ids -> Profiles] /\ w.selected = None
      /\ w.active = None /\ w.fingerprint = None /\ w.pill = "idle" /\ w.attempt = 0
      /\ w.enabled = FALSE /\ w.alive = FALSE /\ w.serial = 0 /\ w.posted = <<>>
  BY DEF Init
<1>2. w \in Window
  <2>1. PICK p \in [Ids -> Profiles] :
            w = [modal |-> "starting", profiles |-> p, selected |-> None,
                 active |-> None, fingerprint |-> None, pill |-> "idle", attempt |-> 0,
                 enabled |-> FALSE, alive |-> FALSE, serial |-> 0, link |-> "Off",
                 connected |-> FALSE, failed |-> FALSE, wasLive |-> FALSE, charted |-> FALSE,
                 posted |-> <<>>]
    BY DEF Init
  <2>2. <<>> \in Seq(Snapshots) /\ "idle" \in Pills /\ "Off" \in Links
    BY DEF Pills, Links
  <2> QED
    BY <2>1, <2>2 DEF Window
<1>3. AdapterSound(w) /\ PostedSound(w)
  BY <1>1 DEF AdapterSound, PostedSound
<1> QED
  BY <1>1, <1>2, <1>3 DEF IInv, Good, Sound, ShownSound, Chosen

\* Another dialog is shown, over other profiles perhaps.
LEMMA ModalSound ==
  ASSUME NEW k, Sound(k), ShownSound(k), NEW r \in Window,
         SameAdapter(r, k), r.posted = k.posted, r.pill = k.pill, r.enabled = k.enabled
  PROVE  Sound(r) /\ ShownSound(r)
<1>1. AdapterSound(r)
  BY DEF Sound, AdapterSound, SameAdapter
<1>2. PostedSound(r)
  BY DEF Sound, PostedSound, Earned, SameAdapter
<1>3. ShownSound(r)
  BY DEF ShownSound, SameAdapter
<1> QED
  BY <1>1, <1>2, <1>3 DEF Sound

Modals == {"starting", "none", "settings", "warning", "instrument"}

LEMMA ModalIs ==
  ASSUME NEW k \in Window, NEW modal \in Modals
  PROVE  LET r == [k EXCEPT !.modal = modal]
         IN  /\ r \in Window /\ SameAdapter(r, k) /\ r.posted = k.posted /\ r.pill = k.pill
             /\ r.enabled = k.enabled /\ r.modal = modal /\ r.profiles = k.profiles
             /\ r.selected = k.selected
  BY DEF Window, SameAdapter, Modals

LEMMA ReselectGood ==
  ASSUME NEW k, Sound(k), ShownSound(k), NEW outcome
  PROVE  Good(Reselect(k, outcome))
<1> DEFINE r == [k EXCEPT !.modal = "none"]
<1>1. k \in Window /\ k.selected \in Ids \cup {None}
  BY DEF Sound, Window
<1>2. Sound(r) /\ ShownSound(r) /\ r.modal = "none"
  BY <1>1, ModalIs, ModalSound DEF Modals
<1>3. PICK id \in Ids \cup {None} : Reselect(k, outcome) = SelectConnectionById(r, id, outcome)
  BY <1>1 DEF Reselect
<1> HIDE DEF r
<1> QED
  BY <1>2, <1>3, SelectSound DEF Good

LEMMA UserGood == IInv /\ User => IInv'
<1> SUFFICES ASSUME IInv, User PROVE Good(w')
  BY DEF IInv, Good, Sound, AdapterSound, PostedSound, Earned, ShownSound, Chosen
<1>1. /\ w \in Window /\ Sound(w) /\ ShownSound(w) /\ (w.modal # "warning" => Chosen(w))
      /\ w.selected \in Ids \cup {None}
  BY DEF IInv, Good, Sound, Window
<1>2. ASSUME NEW modal \in Modals, w' = [w EXCEPT !.modal = modal],
             modal # "starting", w.modal # "warning", modal = "instrument" => w.alive /\ w.wasLive
      PROVE  Good(w')
  <2>1. /\ Sound(w') /\ ShownSound(w') /\ SameAdapter(w', w) /\ w'.modal = modal
        /\ w'.profiles = w.profiles /\ w'.selected = w.selected
    BY <1>1, <1>2, ModalIs, ModalSound
  <2> QED
    BY <1>1, <1>2, <2>1 DEF Good, Chosen, SameAdapter
<1>3. ASSUME NEW id \in Ids \cup {None}, NEW outcome \in Outcomes, Startup(id, outcome)
      PROVE  Good(w')
  <2> DEFINE k == [w EXCEPT !.modal = "none", !.selected = id]
             shown == RebuildConnectionSelector(k)
  <2>1. /\ k \in Window /\ SameAdapter(k, w) /\ k.posted = w.posted /\ k.pill = w.pill
        /\ k.enabled = w.enabled /\ k.modal = "none" /\ k.selected = id
    BY <1>1 DEF Window, SameAdapter
  <2>2. w' = IF id = None THEN shown ELSE BeginConnection(shown, id, outcome)
    BY <1>3 DEF Startup
  <2> HIDE DEF k
  <2>3. /\ Sound(shown) /\ ShownSound(shown) /\ SameAdapter(shown, k) /\ shown.modal = "none"
    BY <1>1, <2>1, ModalSound, RebuildSound
  <2> HIDE DEF shown
  <2>4. CASE id # None
    BY <2>2, <2>3, <2>4, BeginSound DEF Good
  <2>5. CASE id = None
    <3>1. ~shown.alive
      BY <1>3, <2>1, <2>3 DEF SameAdapter, Startup, IInv, Good
    <3> QED
      BY <2>2, <2>3, <2>5, <3>1 DEF Good, Chosen
  <2> QED
    BY <2>4, <2>5
<1>4. ASSUME NEW id \in Ids \cup {None}, NEW outcome \in Outcomes, ChooseConnection(id, outcome)
      PROVE  Good(w')
  BY <1>1, <1>4, SelectSound DEF ChooseConnection, Good
<1>5. CASE OpenFeedSettings
  BY <1>2, <1>5 DEF OpenFeedSettings, Modals
<1>6. CASE CancelFeedSettings
  <2> DEFINE k == [w EXCEPT !.modal = "none"]
  <2>1. /\ Sound(k) /\ ShownSound(k) /\ SameAdapter(k, w) /\ k.modal = "none"
        /\ k.profiles = w.profiles /\ k.selected = w.selected
    BY <1>1, ModalIs, ModalSound DEF Modals
  <2>2. Chosen(k)
    BY <1>1, <1>6, <2>1 DEF CancelFeedSettings, Chosen, SameAdapter
  <2>3. w' = RebuildConnectionSelector(k)
    BY <1>6 DEF CancelFeedSettings
  <2> HIDE DEF k
  <2> QED
    BY <2>1, <2>2, <2>3, RebuildSound DEF Good
<1>7. ASSUME NEW profiles \in [Ids -> Profiles], NEW stored \in BOOLEAN, NEW outcome \in Outcomes,
             AcceptFeedSettings(profiles, stored, outcome)
      PROVE  Good(w')
  <2> DEFINE edited == [w EXCEPT !.profiles = profiles]
  <2>1. /\ edited \in Window /\ SameAdapter(edited, w) /\ edited.posted = w.posted
        /\ edited.pill = w.pill /\ edited.enabled = w.enabled
    BY <1>1 DEF Window, SameAdapter
  <2>2. w' = IF stored THEN Reselect(edited, outcome) ELSE [edited EXCEPT !.modal = "warning"]
    BY <1>7 DEF AcceptFeedSettings
  <2> HIDE DEF edited
  <2>3. Sound(edited) /\ ShownSound(edited)
    BY <1>1, <2>1, ModalSound
  <2>4. CASE stored
    BY <2>2, <2>3, <2>4, ReselectGood
  <2>5. CASE ~stored
    <3>1. Sound(w') /\ ShownSound(w') /\ w'.modal = "warning"
      BY <2>1, <2>2, <2>3, <2>5, ModalIs, ModalSound DEF Modals
    <3> QED
      BY <3>1 DEF Good
  <2> QED
    BY <2>4, <2>5
<1>8. ASSUME NEW outcome \in Outcomes, DismissWarning(outcome) PROVE Good(w')
  BY <1>1, <1>8, ReselectGood DEF DismissWarning
<1>9. CASE OpenInstrumentDialog
  <2>1. CASE Ready(w)
    BY <1>1, <1>2, <1>9, <2>1 DEF OpenInstrumentDialog, Ready, Sound, AdapterSound, Modals
  <2>2. CASE ~Ready(w)
    <3>1. PICK state \in {"connecting", "incomplete"} : w' = SetConnectionState(w, state)
      BY <1>9, <2>2 DEF OpenInstrumentDialog
    <3>2. Sound(w') /\ ShownSound(w') /\ SameAdapter(w', w) /\ SameChoice(w', w)
      BY <1>1, <3>1, SetStateSound DEF Pills
    <3>3. w.modal = "none"
      BY <1>9 DEF OpenInstrumentDialog
    <3> QED
      BY <1>1, <3>2, <3>3 DEF Good, Chosen, SameAdapter, SameChoice
  <2> QED
    BY <2>1, <2>2
<1>10. CASE CancelInstrumentDialog
  BY <1>2, <1>10 DEF CancelInstrumentDialog, Modals
<1>11. ASSUME NEW chart \in BOOLEAN, AcceptInstrument(chart) PROVE Good(w')
  <2> DEFINE k == [w EXCEPT !.modal = "none",
                            !.charted = @ \/ (chart /\ w.fingerprint \notin Simulated)]
  <2>1. w' = Post(k) /\ w.alive /\ w.wasLive /\ w.modal = "instrument"
    BY <1>11 DEF AcceptInstrument, IInv, Good
  <2>2. (w.charted \/ (chart /\ w.fingerprint \notin Simulated)) \in BOOLEAN
    BY <1>1 DEF Window
  <2>3. /\ k \in Window /\ k.active = w.active /\ k.fingerprint = w.fingerprint
        /\ k.attempt = w.attempt /\ k.alive = w.alive /\ k.serial = w.serial
        /\ k.posted = w.posted /\ k.wasLive = w.wasLive /\ k.modal = "none"
        /\ k.selected = w.selected /\ k.profiles = w.profiles /\ k.pill = w.pill
        /\ k.enabled = w.enabled
    BY <1>1, <2>2 DEF Window
  <2> HIDE DEF k
  <2>4. Sound(k)
    BY <1>1, <2>1, <2>3, FlagsSound
  <2>5. Sound(Post(k)) /\ SameAdapter(Post(k), k) /\ SameChoice(Post(k), k)
        /\ Post(k).pill = k.pill /\ Post(k).enabled = k.enabled
    BY <2>1, <2>3, <2>4, PostSound, PostIs DEF Sound, AdapterSound
  <2>6. ShownSound(Post(k)) /\ Chosen(Post(k)) /\ Post(k).modal = "none"
    BY <1>1, <2>1, <2>3, <2>5 DEF ShownSound, Chosen, SameAdapter, SameChoice
  <2> QED
    BY <2>1, <2>5, <2>6 DEF Good
<1> QED
  BY <1>3, <1>4, <1>5, <1>6, <1>7, <1>8, <1>9, <1>10, <1>11 DEF User

\* The adapter's flags change and it posts them.
LEMMA PublishGood ==
  ASSUME Good(w), w.alive,
         NEW link \in Links, NEW connected \in BOOLEAN, NEW failed \in BOOLEAN, NEW wasLive \in BOOLEAN,
         w.wasLive => wasLive,
         connected \/ link = "Live" \/ w.charted => wasLive,
         w' = Post([w EXCEPT !.link = link, !.connected = connected, !.failed = failed,
                             !.wasLive = wasLive])
  PROVE  Good(w')
<1> DEFINE k == [w EXCEPT !.link = link, !.connected = connected, !.failed = failed,
                          !.wasLive = wasLive]
<1>1. w \in Window /\ Sound(w) /\ w.active \in Ids
  BY DEF Good, Sound, AdapterSound
<1>2. /\ k \in Window /\ k.active = w.active /\ k.fingerprint = w.fingerprint
      /\ k.attempt = w.attempt /\ k.alive = w.alive /\ k.serial = w.serial
      /\ k.posted = w.posted /\ k.charted = w.charted /\ SameChoice(k, w) /\ k.pill = w.pill
      /\ k.enabled = w.enabled /\ k.link = link /\ k.connected = connected /\ k.wasLive = wasLive
  <2>1. k \in Window
    BY <1>1 DEF Window
  <2> QED
    BY <1>1, <2>1 DEF Window, SameChoice
<1>3. w' = Post(k)
  OBVIOUS
<1> HIDE DEF k
<1>4. Sound(k)
  BY <1>1, <1>2, FlagsSound
<1>5. /\ Sound(w') /\ SameAdapter(w', k) /\ SameChoice(w', k)
      /\ w'.pill = k.pill /\ w'.enabled = k.enabled
  BY <1>1, <1>2, <1>3, <1>4, PostSound, PostIs
<1>6. ShownSound(w') /\ (w.modal # "warning" => Chosen(w'))
  <2>1. /\ w'.alive = w.alive /\ w'.wasLive = wasLive /\ w'.pill = w.pill
        /\ w'.enabled = w.enabled /\ w'.active = w.active /\ w'.fingerprint = w.fingerprint
        /\ w'.selected = w.selected /\ w'.profiles = w.profiles
    BY <1>2, <1>5, ZenonT(60) DEF SameAdapter, SameChoice
  <2>2. ShownSound(w')
    BY <2>1 DEF Good, ShownSound
  <2>3. w.modal # "warning" => Chosen(w')
    BY <2>1 DEF Good, Chosen
  <2> QED
    BY <2>2, <2>3
<1> QED
  BY <1>2, <1>5, <1>6 DEF Good, SameAdapter, SameChoice

LEMMA AdapterGood == IInv /\ Adapter => IInv'
<1> SUFFICES ASSUME IInv, Adapter PROVE Good(w')
  BY DEF IInv, Good, Sound, AdapterSound, PostedSound, Earned, ShownSound, Chosen
<1>1. /\ w \in Window /\ Good(w) /\ w.alive
      /\ w.connected \/ w.link = "Live" \/ w.charted => w.wasLive
      /\ w.link \in Links /\ w.connected \in BOOLEAN /\ w.failed \in BOOLEAN
      /\ w.wasLive \in BOOLEAN
  <2>1. w.alive
    BY DEF Adapter, GoLive, Lose, Retry, Break, Publish, LateHistory, Feed
  <2> QED
    BY <2>1 DEF IInv, Good, Sound, AdapterSound, Window
<1>2. CASE GoLive
  <2>1. w' = Post([w EXCEPT !.link = "Live", !.connected = TRUE, !.failed = FALSE, !.wasLive = TRUE])
    BY <1>2 DEF GoLive
  <2> QED
    BY <1>1, <2>1, PublishGood DEF Links
<1>3. CASE Lose
  <2>1. w' = Post([w EXCEPT !.link = "Lost", !.connected = w.connected, !.failed = FALSE,
                            !.wasLive = w.wasLive])
    BY <1>1, <1>3 DEF Lose, Window
  <2> QED
    BY <1>1, <2>1, PublishGood DEF Links
<1>4. CASE Retry
  <2>1. w' = Post([w EXCEPT !.link = "Connecting", !.connected = w.connected, !.failed = FALSE,
                            !.wasLive = w.wasLive])
    BY <1>1, <1>4 DEF Retry, Window
  <2> QED
    BY <1>1, <2>1, PublishGood DEF Links
<1>5. CASE Break
  <2>1. w' = Post([w EXCEPT !.link = "Failed", !.connected = FALSE, !.failed = TRUE,
                            !.wasLive = w.wasLive])
    BY <1>1, <1>5 DEF Break, Window
  <2> QED
    BY <1>1, <2>1, PublishGood DEF Links
<1>6. CASE Publish
  <2>1. w' = Post([w EXCEPT !.link = w.link, !.connected = w.connected, !.failed = w.failed,
                            !.wasLive = w.wasLive])
    BY <1>1, <1>6 DEF Publish, Window
  <2> QED
    BY <1>1, <2>1, PublishGood
<1>7. ASSUME NEW bar \in BOOLEAN, LateHistory(bar) PROVE Good(w')
  <2>1. w.charted /\ (w.connected \/ bar) \in BOOLEAN
    BY <1>1, <1>7 DEF LateHistory
  <2>2. w' = Post([w EXCEPT !.link = w.link, !.connected = w.connected \/ bar, !.failed = FALSE,
                            !.wasLive = w.wasLive])
    BY <1>1, <1>7 DEF LateHistory, Window
  <2> QED
    BY <1>1, <2>1, <2>2, PublishGood
<1> QED
  BY <1>2, <1>3, <1>4, <1>5, <1>6, <1>7 DEF Adapter

LEMMA DeliverGood == IInv /\ Deliver => IInv'
<1> SUFFICES ASSUME IInv, Deliver PROVE Good(w')
  BY DEF IInv, Good, Sound, AdapterSound, PostedSound, Earned, ShownSound, Chosen
<1> DEFINE k == [w EXCEPT !.posted = Tail(w.posted)]
           s == Head(w.posted)
<1>1. w \in Window /\ Sound(w) /\ ShownSound(w) /\ w.posted \in Seq(Snapshots) /\ w.posted # <<>>
  BY DEF IInv, Good, Sound, Deliver, Window
<1>2. PICK news \in BOOLEAN : w' = TakeSnapshot(k, s, news)
  BY DEF Deliver
<1>3. Earned(w, s)
  BY <1>1, TailPosted DEF Sound, PostedSound
<1>4. /\ k \in Window /\ SameAdapter(k, w) /\ SameChoice(k, w) /\ k.pill = w.pill
      /\ k.enabled = w.enabled /\ k.posted = Tail(w.posted)
  <2>1. Tail(w.posted) \in Seq(Snapshots)
    BY <1>1, TailPosted
  <2> QED
    BY <1>1, <2>1 DEF Window, SameAdapter, SameChoice
<1> HIDE DEF k, s
<1>5. Sound(k)
  <2>1. \A i \in 1..Len(k.posted) : i + 1 \in 1..Len(w.posted) /\ k.posted[i] = w.posted[i + 1]
    BY <1>1, <1>4, TailPosted
  <2>2. PostedSound(k)
    BY <1>1, <1>4, <2>1 DEF Sound, PostedSound, Earned, SameAdapter
  <2>3. AdapterSound(k)
    BY <1>1, <1>4 DEF Sound, AdapterSound, SameAdapter
  <2> QED
    BY <1>4, <2>2, <2>3 DEF Sound
<1>6. ShownSound(k) /\ Earned(k, s) /\ (w.modal # "warning" => Chosen(k))
  BY <1>1, <1>3, <1>4 DEF ShownSound, Earned, Chosen, SameAdapter, SameChoice, IInv, Good
<1>7. /\ Sound(w') /\ ShownSound(w') /\ SameAdapter(w', k) /\ w'.modal = k.modal
      /\ Chosen(k) => Chosen(w')
  BY <1>2, <1>5, <1>6, TakeSound
<1> QED
  BY <1>4, <1>6, <1>7 DEF IInv, Good, SameAdapter, SameChoice

-----------------------------------------------------------------------------
(* The queue and the pill through the steps *)

LEMMA InitPill == Init => PInv
<1> SUFFICES ASSUME Init PROVE PInv
  OBVIOUS
<1>1. /\ w.selected = None /\ w.active = None /\ w.pill = "idle" /\ w.enabled = FALSE
      /\ w.alive = FALSE /\ w.posted = <<>>
  BY DEF Init
<1>2. QueueSound(w)
  BY <1>1 DEF QueueSound
<1>3. PillSound(w)
  BY <1>1 DEF PillSound, Shows
<1> QED
  BY <1>2, <1>3 DEF PInv

\* The connection that settings were edited for is selected again, whatever became
\* of its profile.
LEMMA ReselectPill ==
  ASSUME NEW k, Sound(k), QueueSound(k), k.alive => Shows(k), NEW outcome
  PROVE  QueueSound(Reselect(k, outcome)) /\ PillSound(Reselect(k, outcome))
<1> DEFINE r == [k EXCEPT !.modal = "none"]
<1>1. k \in Window /\ k.selected \in Ids \cup {None} /\ (k.alive => k.active \in Ids)
  BY DEF Sound, AdapterSound, Window
<1>2. PICK id \in Ids \cup {None} : /\ Reselect(k, outcome) = SelectConnectionById(r, id, outcome)
                                    /\ id = k.selected \/ id = None
  BY <1>1 DEF Reselect
<1>3. /\ r \in Window /\ SameAdapter(r, k) /\ r.posted = k.posted /\ r.pill = k.pill
      /\ r.profiles = k.profiles /\ r.selected = k.selected
  BY <1>1, ModalIs DEF Modals
<1> HIDE DEF r
<1>4. Sound(r)
  <2>1. AdapterSound(r)
    BY <1>3 DEF Sound, AdapterSound, SameAdapter
  <2>2. PostedSound(r)
    BY <1>3 DEF Sound, PostedSound, Earned, SameAdapter
  <2> QED
    BY <1>3, <2>1, <2>2 DEF Sound
<1>5. QueueSound(r) /\ (r.alive => Shows(r))
  BY <1>3, QueueSame DEF Shows, Chosen, Agrees, SaidBy, SameAdapter
<1>6. r.alive /\ r.active = id => r.selected = id
  BY <1>1, <1>2, <1>3, IdsAssumption DEF SameAdapter
<1> QED
  BY <1>2, <1>4, <1>5, <1>6, SelectPill

\* The click that finds the menu enabled and no session to open a window over: the
\* session has just been lost, and says so or will.
LEMMA LostMenuPill ==
  ASSUME IInv, PInv, OpenInstrumentDialog, ~Ready(w)
  PROVE  QueueSound(w') /\ PillSound(w')
<1> DEFINE state == IF w.selected # None /\ w.profiles[w.selected] \in Configs
                    THEN "connecting" ELSE "incomplete"
<1>1. /\ w \in Window /\ w.alive /\ Chosen(w) /\ w.pill = "connected" /\ w.enabled
      /\ w.active \in Ids /\ w.fingerprint \in Configs /\ QueueSound(w) /\ PillSound(w)
  BY DEF OpenInstrumentDialog, IInv, Good, Sound, AdapterSound, ShownSound, PInv, PillSound
<1>2. state = "connecting"
  BY <1>1, IdsAssumption DEF Chosen
<1>3. w' = SetConnectionState(w, "connecting")
  BY <1>2 DEF OpenInstrumentDialog
<1>4. /\ SameAdapter(w', w) /\ SameChoice(w', w) /\ w'.posted = w.posted
      /\ w'.pill = "connecting" /\ ~w'.enabled
  BY <1>1, <1>3, SetStateIs DEF Pills
<1>5. w.link # "Live"
  BY <1>1, IdsAssumption DEF Ready, Chosen
<1>6. w.posted = <<>> => w.link \in {"Lost", "Connecting"}
  <2> SUFFICES ASSUME w.posted = <<>> PROVE w.link \in {"Lost", "Connecting"}
    OBVIOUS
  <2>1. ~BadNews(w)
    <3>1. Len(w.posted) = 0
      OBVIOUS
    <3> QED
      BY <3>1 DEF BadNews
  <2>2. w.link # "Failed" /\ w.link # "Off"
    BY <1>1, <2>1 DEF PillSound, QueueSound, LinkSound
  <2> QED
    BY <1>1, <1>5, <2>2 DEF Window, Links
<1>7. QueueSound(w')
  BY <1>1, <1>4, QueueSame
<1>8. Shows(w')
  BY <1>1, <1>4, <1>6 DEF Shows, Agrees, SameAdapter
<1> QED
  BY <1>1, <1>4, <1>7, <1>8 DEF PillSound, SameAdapter

LEMMA UserPill == IInv /\ PInv /\ User => PInv'
<1> SUFFICES ASSUME IInv, PInv, User PROVE QueueSound(w') /\ PillSound(w')
  BY DEF PInv, QueueSound, PillSound, Shows, Agrees, SaidBy, Chosen, LinkSound, Current, BadNews
<1>1. /\ w \in Window /\ Sound(w) /\ ShownSound(w) /\ (w.modal # "warning" => Chosen(w))
      /\ w.selected \in Ids \cup {None} /\ QueueSound(w) /\ PillSound(w) /\ Shows(w)
      /\ (w.alive => w.active \in Ids /\ w.fingerprint \in Configs)
  BY DEF IInv, Good, Sound, AdapterSound, Window, PInv, PillSound
<1>2. ASSUME NEW modal \in Modals, w' = [w EXCEPT !.modal = modal]
      PROVE  QueueSound(w') /\ PillSound(w')
  <2>1. /\ SameAdapter(w', w) /\ w'.posted = w.posted /\ w'.pill = w.pill
        /\ w'.enabled = w.enabled /\ w'.profiles = w.profiles /\ w'.selected = w.selected
    BY <1>1, <1>2, ModalIs
  <2>2. Chosen(w') => Chosen(w)
    BY <2>1 DEF Chosen, SameAdapter
  <2> QED
    BY <1>1, <2>1, <2>2, QueueSame, PillSame
<1>3. ASSUME NEW id \in Ids \cup {None}, NEW outcome \in Outcomes, Startup(id, outcome)
      PROVE  QueueSound(w') /\ PillSound(w')
  <2> DEFINE k == [w EXCEPT !.modal = "none", !.selected = id]
             shown == RebuildConnectionSelector(k)
  <2>1. /\ k \in Window /\ SameAdapter(k, w) /\ k.posted = w.posted /\ k.pill = w.pill
        /\ k.enabled = w.enabled /\ k.selected = id
    BY <1>1 DEF Window, SameAdapter
  <2>2. w' = IF id = None THEN shown ELSE BeginConnection(shown, id, outcome)
    BY <1>3 DEF Startup
  <2>3. ~w.alive
    BY <1>3 DEF Startup, IInv, Good
  <2> HIDE DEF k
  <2>4. Sound(k) /\ ShownSound(k) /\ QueueSound(k) /\ ~k.alive
    BY <1>1, <2>1, <2>3, ModalSound, QueueSame DEF SameAdapter
  <2>5. CASE id # None
    <3>1. Sound(shown) /\ SameAdapter(shown, k) /\ shown.posted = k.posted
      BY <2>4, RebuildSound
    <3> HIDE DEF shown
    <3>2. QueueSound(shown) /\ ~shown.alive
      BY <2>4, <3>1, QueueSame DEF SameAdapter
    <3> QED
      BY <2>2, <2>5, <3>1, <3>2, BeginPill
  <2>6. CASE id = None
    <3>1. Shows(k)
      BY <2>1, <2>4, <2>6 DEF Shows
    <3> QED
      BY <2>2, <2>4, <2>6, <3>1, RebuildPill
  <2> QED
    BY <2>5, <2>6
<1>4. ASSUME NEW id \in Ids \cup {None}, NEW outcome \in Outcomes, ChooseConnection(id, outcome)
      PROVE  QueueSound(w') /\ PillSound(w')
  <2>1. w' = SelectConnectionById(w, id, outcome) /\ Chosen(w)
    BY <1>1, <1>4 DEF ChooseConnection
  <2>2. w.alive /\ w.active = id => w.selected = id
    BY <2>1 DEF Chosen
  <2> QED
    BY <1>1, <2>1, <2>2, SelectPill
<1>5. CASE OpenFeedSettings
  BY <1>2, <1>5 DEF OpenFeedSettings, Modals
<1>6. CASE CancelFeedSettings
  <2> DEFINE k == [w EXCEPT !.modal = "none"]
  <2>1. /\ SameAdapter(k, w) /\ k.posted = w.posted /\ k.pill = w.pill
        /\ k.enabled = w.enabled /\ k.profiles = w.profiles /\ k.selected = w.selected
        /\ Sound(k)
    BY <1>1, ModalIs, ModalSound DEF Modals
  <2>2. w' = RebuildConnectionSelector(k)
    BY <1>6 DEF CancelFeedSettings
  <2> HIDE DEF k
  <2>3. QueueSound(k)
    BY <1>1, <2>1, QueueSame
  <2>4. Shows(k)
    BY <1>1, <2>1 DEF Shows, Chosen, Agrees, SaidBy, SameAdapter
  <2> QED
    BY <2>1, <2>2, <2>3, <2>4, RebuildPill
<1>7. ASSUME NEW profiles \in [Ids -> Profiles], NEW stored \in BOOLEAN, NEW outcome \in Outcomes,
             AcceptFeedSettings(profiles, stored, outcome)
      PROVE  QueueSound(w') /\ PillSound(w')
  <2> DEFINE edited == [w EXCEPT !.profiles = profiles]
             warned == [edited EXCEPT !.modal = "warning"]
  <2>1. /\ edited \in Window /\ SameAdapter(edited, w) /\ edited.posted = w.posted
        /\ edited.pill = w.pill /\ edited.enabled = w.enabled /\ edited.selected = w.selected
    BY <1>1 DEF Window, SameAdapter
  <2>2. w' = IF stored THEN Reselect(edited, outcome) ELSE warned
    BY <1>7 DEF AcceptFeedSettings
  <2>3. Chosen(w)
    BY <1>1, <1>7 DEF AcceptFeedSettings
  <2> HIDE DEF edited
  <2>4. Sound(edited) /\ QueueSound(edited) /\ PillSound(edited)
    BY <1>1, <2>1, <2>3, ModalSound, QueueSame, PillSame
  <2>5. CASE stored
    BY <2>2, <2>4, <2>5, ReselectPill DEF PillSound
  <2>6. CASE ~stored
    <3>1. /\ SameAdapter(warned, edited) /\ warned.posted = edited.posted
          /\ warned.pill = edited.pill /\ warned.enabled = edited.enabled
          /\ warned.selected = edited.selected /\ warned.profiles = edited.profiles
      BY <2>1, ModalIs DEF Modals
    <3> HIDE DEF warned
    <3>2. Chosen(warned) => Chosen(edited)
      BY <3>1 DEF Chosen, SameAdapter
    <3> QED
      BY <2>2, <2>4, <2>6, <3>1, <3>2, QueueSame, PillSame
  <2> QED
    BY <2>5, <2>6
<1>8. ASSUME NEW outcome \in Outcomes, DismissWarning(outcome)
      PROVE  QueueSound(w') /\ PillSound(w')
  BY <1>1, <1>8, ReselectPill DEF DismissWarning
<1>9. CASE OpenInstrumentDialog
  <2>1. CASE Ready(w)
    BY <1>2, <1>9, <2>1 DEF OpenInstrumentDialog, Modals
  <2> QED
    BY <1>9, <2>1, LostMenuPill
<1>10. CASE CancelInstrumentDialog
  BY <1>2, <1>10 DEF CancelInstrumentDialog, Modals
<1>11. ASSUME NEW chart \in BOOLEAN, AcceptInstrument(chart)
       PROVE  QueueSound(w') /\ PillSound(w')
  <2> DEFINE k == [w EXCEPT !.modal = "none",
                            !.charted = @ \/ (chart /\ w.fingerprint \notin Simulated)]
  <2>1. w' = Post(k) /\ w.alive /\ w.wasLive
    BY <1>11 DEF AcceptInstrument, IInv, Good
  <2>2. (w.charted \/ (chart /\ w.fingerprint \notin Simulated)) \in BOOLEAN
    BY <1>1 DEF Window
  <2>3. /\ k \in Window /\ k.active = w.active /\ k.fingerprint = w.fingerprint
        /\ k.attempt = w.attempt /\ k.alive = w.alive /\ k.serial = w.serial
        /\ k.posted = w.posted /\ k.wasLive = w.wasLive /\ k.link = w.link
        /\ k.connected = w.connected /\ k.selected = w.selected /\ k.profiles = w.profiles
        /\ k.pill = w.pill /\ k.enabled = w.enabled
    BY <1>1, <2>2 DEF Window
  <2> HIDE DEF k
  <2>4. Sound(k)
    BY <1>1, <2>1, <2>3, FlagsSound
  <2>5. LinkSound(k)
    BY <1>1, <2>1, <2>3 DEF QueueSound, LinkSound
  <2>6. /\ SameAdapter(Post(k), k) /\ SameChoice(Post(k), k)
        /\ Post(k).pill = k.pill /\ Post(k).enabled = k.enabled
    BY <1>1, <2>1, <2>3, PostIs
  <2>7. /\ QueueSound(Post(k)) /\ Post(k).posted # <<>>
        /\ BadNews(k) => BadNews(Post(k))
    BY <2>1, <2>3, <2>4, <2>5, PostQueue
  <2>8. BadNews(w) => BadNews(k)
    BY <2>3 DEF BadNews
  <2>9. Chosen(Post(k)) => Chosen(w)
    BY <2>1, <2>3, <2>6 DEF Chosen, SameAdapter, SameChoice
  <2> QED
    BY <1>1, <2>1, <2>3, <2>6, <2>7, <2>8, <2>9 DEF PillSound, Shows, SameAdapter, SameChoice
<1> QED
  BY <1>3, <1>4, <1>5, <1>6, <1>7, <1>8, <1>9, <1>10, <1>11 DEF User

\* Whatever the adapter becomes, what it posts last is what it is, and a session that
\* fails sends the news of it.
LEMMA PublishPill ==
  ASSUME Good(w), PInv, w.alive,
         NEW link \in Links, NEW connected \in BOOLEAN, NEW failed \in BOOLEAN, NEW wasLive \in BOOLEAN,
         w.wasLive => wasLive,
         connected \/ link = "Live" \/ w.charted => wasLive,
         link # "Off", link = "Live" => connected,
         link = "Failed" /\ connected => w.link = "Failed",
         w' = Post([w EXCEPT !.link = link, !.connected = connected, !.failed = failed,
                             !.wasLive = wasLive])
  PROVE  QueueSound(w') /\ PillSound(w')
<1> DEFINE k == [w EXCEPT !.link = link, !.connected = connected, !.failed = failed,
                          !.wasLive = wasLive]
<1>1. w \in Window /\ Sound(w) /\ w.active \in Ids /\ PillSound(w)
  BY DEF Good, Sound, AdapterSound, PInv
<1>2. /\ k \in Window /\ k.active = w.active /\ k.fingerprint = w.fingerprint
      /\ k.attempt = w.attempt /\ k.alive = w.alive /\ k.serial = w.serial
      /\ k.posted = w.posted /\ k.charted = w.charted /\ SameChoice(k, w) /\ k.pill = w.pill
      /\ k.enabled = w.enabled /\ k.link = link /\ k.connected = connected /\ k.wasLive = wasLive
  <2>1. k \in Window
    BY <1>1 DEF Window
  <2> QED
    BY <1>1, <2>1 DEF Window, SameChoice
<1>3. w' = Post(k)
  OBVIOUS
<1> HIDE DEF k
<1>4. Sound(k)
  BY <1>1, <1>2, FlagsSound
<1>5. LinkSound(k)
  BY <1>2 DEF LinkSound
<1>6. /\ SameAdapter(w', k) /\ SameChoice(w', k) /\ w'.pill = k.pill /\ w'.enabled = k.enabled
  BY <1>1, <1>2, <1>3, PostIs
<1>7. /\ QueueSound(w') /\ w'.posted # <<>>
      /\ BadNews(k) \/ ~k.connected => BadNews(w')
  BY <1>2, <1>3, <1>4, <1>5, PostQueue
<1>8. BadNews(w) => BadNews(k)
  BY <1>2 DEF BadNews
<1>9. /\ w'.alive = w.alive /\ w'.link = link /\ w'.active = w.active
      /\ w'.fingerprint = w.fingerprint
  BY <1>2, <1>6 DEF SameAdapter
<1>10. /\ w'.pill = w.pill /\ w'.enabled = w.enabled /\ w'.selected = w.selected
       /\ w'.profiles = w.profiles
  BY <1>2, <1>6, ZenonT(60) DEF SameChoice
<1>11. Chosen(w') => Chosen(w)
  BY <1>9, <1>10 DEF Chosen
<1>12. w'.enabled /\ Chosen(w') /\ w'.link = "Failed" => BadNews(w')
  BY <1>1, <1>2, <1>7, <1>8, <1>9, <1>10, <1>11 DEF PillSound
<1>13. Shows(w')
  BY <1>7, <1>9 DEF Shows
<1> QED
  BY <1>1, <1>7, <1>9, <1>10, <1>12, <1>13 DEF PillSound

LEMMA AdapterPill == IInv /\ PInv /\ Adapter => PInv'
<1> SUFFICES ASSUME IInv, PInv, Adapter PROVE QueueSound(w') /\ PillSound(w')
  BY DEF PInv, QueueSound, PillSound, Shows, Agrees, SaidBy, Chosen, LinkSound, Current, BadNews
<1>1. /\ w \in Window /\ Good(w) /\ w.alive
      /\ w.connected \/ w.link = "Live" \/ w.charted => w.wasLive
      /\ w.link \in Links /\ w.connected \in BOOLEAN /\ w.failed \in BOOLEAN
      /\ w.wasLive \in BOOLEAN /\ w.link # "Off" /\ (w.link = "Live" => w.connected)
  <2>1. w.alive
    BY DEF Adapter, GoLive, Lose, Retry, Break, Publish, LateHistory, Feed
  <2> QED
    BY <2>1 DEF IInv, Good, Sound, AdapterSound, Window, PInv, QueueSound, LinkSound
<1>2. CASE GoLive
  <2>1. w' = Post([w EXCEPT !.link = "Live", !.connected = TRUE, !.failed = FALSE, !.wasLive = TRUE])
    BY <1>2 DEF GoLive
  <2> QED
    BY <1>1, <2>1, PublishPill DEF Links
<1>3. CASE Lose
  <2>1. w' = Post([w EXCEPT !.link = "Lost", !.connected = w.connected, !.failed = FALSE,
                            !.wasLive = w.wasLive])
    BY <1>1, <1>3 DEF Lose, Window
  <2> QED
    BY <1>1, <2>1, PublishPill DEF Links
<1>4. CASE Retry
  <2>1. w' = Post([w EXCEPT !.link = "Connecting", !.connected = w.connected, !.failed = FALSE,
                            !.wasLive = w.wasLive])
    BY <1>1, <1>4 DEF Retry, Window
  <2> QED
    BY <1>1, <2>1, PublishPill DEF Links
<1>5. CASE Break
  <2>1. w' = Post([w EXCEPT !.link = "Failed", !.connected = FALSE, !.failed = TRUE,
                            !.wasLive = w.wasLive])
    BY <1>1, <1>5 DEF Break, Window
  <2> QED
    BY <1>1, <2>1, PublishPill DEF Links
<1>6. CASE Publish
  <2>1. w' = Post([w EXCEPT !.link = w.link, !.connected = w.connected, !.failed = w.failed,
                            !.wasLive = w.wasLive])
    BY <1>1, <1>6 DEF Publish, Window
  <2> QED
    BY <1>1, <2>1, PublishPill
<1>7. ASSUME NEW bar \in BOOLEAN, LateHistory(bar) PROVE QueueSound(w') /\ PillSound(w')
  <2>1. w.charted /\ (w.connected \/ bar) \in BOOLEAN /\ w.link = "Failed"
    BY <1>1, <1>7 DEF LateHistory
  <2>2. w' = Post([w EXCEPT !.link = w.link, !.connected = w.connected \/ bar, !.failed = FALSE,
                            !.wasLive = w.wasLive])
    BY <1>1, <1>7 DEF LateHistory, Window
  <2> QED
    BY <1>1, <2>1, <2>2, PublishPill
<1> QED
  BY <1>2, <1>3, <1>4, <1>5, <1>6, <1>7 DEF Adapter

\* What is behind the head.
LEMMA TailLast ==
  ASSUME NEW q \in Seq(Snapshots), q # <<>>
  PROVE  /\ Tail(q) = <<>> => Head(q) = q[Len(q)]
         /\ Tail(q) # <<>> => Tail(q)[Len(Tail(q))] = q[Len(q)]
         /\ \A i \in 1..Len(q) : q[i] = Head(q) \/ (i - 1 \in 1..Len(Tail(q)) /\ Tail(q)[i - 1] = q[i])
<1>1. Len(q) \in Nat /\ Len(q) >= 1 /\ Len(Tail(q)) = Len(q) - 1 /\ Head(q) = q[1]
  OBVIOUS
<1>2. \A i \in 1..Len(Tail(q)) : Tail(q)[i] = q[i + 1]
  BY TailPosted
<1>3. Tail(q) = <<>> => Len(q) = 1
  <2>1. ASSUME NEW t, t = <<>> PROVE Len(t) = 0
    BY <2>1
  <2>2. Tail(q) = <<>> => Len(Tail(q)) = 0
    BY <2>1
  <2> QED
    BY <1>1, <2>2
<1>4. Tail(q) # <<>> => Len(Tail(q)) \in 1..Len(Tail(q))
  <2>1. Tail(q) \in Seq(Snapshots)
    BY TailPosted
  <2>2. ASSUME NEW t \in Seq(Snapshots), t # <<>> PROVE Len(t) # 0
    BY <2>2
  <2>3. Tail(q) # <<>> => Len(Tail(q)) # 0
    BY <2>1, <2>2
  <2> QED
    BY <1>1, <2>3
<1>5. \A i \in 1..Len(q) : i = 1 \/ (i - 1 \in 1..Len(Tail(q)) /\ i - 1 + 1 = i)
  BY <1>1
<1>6. \A i \in 1..Len(q) : i = 1 \/ (i - 1 \in 1..Len(Tail(q)) /\ Tail(q)[i - 1] = q[i])
  BY <1>2, <1>5
<1>7. Len(Tail(q)) + 1 = Len(q)
  BY <1>1
<1> QED
  BY <1>1, <1>2, <1>3, <1>4, <1>6, <1>7

\* Taking a snapshot leaves the pill sound: one that counts is shown, and one that does
\* not is not the adapter's last.
LEMMA DeliverPill == IInv /\ PInv /\ Deliver => PInv'
<1> SUFFICES ASSUME IInv, PInv, Deliver PROVE QueueSound(w') /\ PillSound(w')
  BY DEF PInv, QueueSound, PillSound, Shows, Agrees, SaidBy, Chosen, LinkSound, Current, BadNews
<1> DEFINE k == [w EXCEPT !.posted = Tail(w.posted)]
           s == Head(w.posted)
           state == CASE s.connected -> "connected"
                      [] ~s.connected /\ s.failed -> "failed"
                      [] OTHER -> "connecting"
           set == SetConnectionState(k, state)
<1>1. /\ w \in Window /\ Sound(w) /\ w.posted \in Seq(Snapshots) /\ w.posted # <<>>
      /\ QueueSound(w) /\ PillSound(w) /\ (w.alive => w.active \in Ids)
  BY DEF IInv, Good, Sound, AdapterSound, Deliver, Window, PInv
<1>2. PICK news \in BOOLEAN : w' = TakeSnapshot(k, s, news)
  BY DEF Deliver
<1>3. s = w.posted[1] /\ 1 \in 1..Len(w.posted)
  BY <1>1, TailPosted
<1>4. /\ k \in Window /\ SameAdapter(k, w) /\ SameChoice(k, w) /\ k.pill = w.pill
      /\ k.enabled = w.enabled /\ k.posted = Tail(w.posted)
  <2>1. Tail(w.posted) \in Seq(Snapshots)
    BY <1>1, TailPosted
  <2> QED
    BY <1>1, <2>1 DEF Window, SameAdapter, SameChoice
<1>5. \/ w' = k /\ (s.of # k.attempt \/ s.id # k.selected \/ (k.pill = state /\ (s.connected \/ ~news)))
      \/ w' = RebuildConnectionSelector(set) /\ s.of = k.attempt
  BY <1>2 DEF TakeSnapshot
<1>6. state \in Pills /\ (state = "connected" => s.connected) /\ (Current(w, s) => state = SaidBy(w))
  BY DEF Pills, Current, SaidBy
<1>7. /\ k.posted = <<>> => s = w.posted[Len(w.posted)]
      /\ k.posted # <<>> => k.posted[Len(k.posted)] = w.posted[Len(w.posted)]
      /\ \A i \in 1..Len(w.posted) :
            w.posted[i] = s \/ (i - 1 \in 1..Len(k.posted) /\ k.posted[i - 1] = w.posted[i])
      /\ \A i \in 1..Len(k.posted) : i + 1 \in 1..Len(w.posted) /\ k.posted[i] = w.posted[i + 1]
  BY <1>1, <1>4, TailLast, TailPosted
<1> HIDE DEF k, s, state
<1>8. w.alive /\ k.posted = <<>> => Current(w, s)
  BY <1>1, <1>7 DEF QueueSound
<1>9. QueueSound(k)
  <2>1. k.alive => LinkSound(k)
    BY <1>1, <1>4 DEF QueueSound, LinkSound, SameAdapter
  <2>2. k.alive /\ k.posted # <<>> => Current(k, k.posted[Len(k.posted)])
    BY <1>1, <1>4, <1>7 DEF QueueSound, Current, SameAdapter
  <2>3. ~k.alive => k.active = None /\ \A i \in 1..Len(k.posted) : k.posted[i].of < k.attempt
    BY <1>1, <1>4, <1>7 DEF QueueSound, SameAdapter
  <2> QED
    BY <2>1, <2>2, <2>3 DEF QueueSound
<1>10. Chosen(k) => Chosen(w)
  BY <1>4 DEF Chosen, SameAdapter, SameChoice
<1>11. CASE w' = RebuildConnectionSelector(set) /\ s.of = k.attempt
  <2>1. w.alive
    <3>1. w.attempt \in Nat /\ s.of = w.attempt
      BY <1>1, <1>4, <1>11 DEF Window, SameAdapter
    <3> QED
      BY <1>1, <1>3, <3>1 DEF QueueSound
  <2>2. /\ SameAdapter(set, k) /\ SameChoice(set, k) /\ set.posted = k.posted
        /\ set.pill = state
    BY <1>4, <1>6, SetStateIs
  <2>3. Sound(set)
    <3>1. Sound(k)
      <4>1. PostedSound(k)
        BY <1>1, <1>4, <1>7 DEF Sound, PostedSound, Earned, SameAdapter
      <4>2. AdapterSound(k)
        BY <1>1, <1>4 DEF Sound, AdapterSound, SameAdapter
      <4> QED
        BY <1>4, <4>1, <4>2 DEF Sound
    <3>2. Earned(w, s)
      BY <1>1, <1>3 DEF Sound, PostedSound
    <3>3. state = "connected" => k.alive /\ k.wasLive
      BY <1>4, <1>6, <1>11, <3>2 DEF Earned, SameAdapter
    <3> QED
      BY <1>6, <3>1, <3>3, SetStateSound
  <2> HIDE DEF set
  <2>4. QueueSound(set)
    BY <1>9, <2>2, QueueSame
  <2>5. k.posted = <<>> => set.pill = SaidBy(set)
    <3>1. SaidBy(set) = SaidBy(w)
      BY <1>4, <2>2 DEF SaidBy, SameAdapter
    <3> QED
      BY <1>6, <1>8, <2>1, <2>2, <3>1
  <2>6. Shows(set)
    BY <1>4, <2>1, <2>2, <2>5 DEF Shows, Agrees, SameAdapter
  <2> QED
    BY <1>11, <2>3, <2>4, <2>6, RebuildPill
<1>12. CASE /\ w' = k
            /\ s.of # k.attempt \/ s.id # k.selected \/ (k.pill = state /\ (s.connected \/ ~news))
  <2>1. k.alive /\ Chosen(k) /\ k.posted = <<>> => Agrees(k)
    <3> SUFFICES ASSUME k.alive, Chosen(k), k.posted = <<>> PROVE Agrees(k)
      OBVIOUS
    <3>1. Current(w, s) /\ s.of = k.attempt /\ s.id = k.selected
      BY <1>4, <1>8 DEF Current, Chosen, SameAdapter
    <3>2. k.pill = SaidBy(w)
      BY <1>6, <1>12, <3>1
    <3>3. SaidBy(k) = SaidBy(w)
      BY <1>4 DEF SaidBy, SameAdapter
    <3> QED
      BY <3>2, <3>3 DEF Agrees
  <2>2. k.alive /\ Chosen(k) /\ k.enabled /\ k.link = "Failed" => BadNews(k)
    <3> SUFFICES ASSUME k.alive, Chosen(k), k.enabled, k.link = "Failed" PROVE BadNews(k)
      OBVIOUS
    <3>1. w.alive /\ w.enabled /\ w.link = "Failed" /\ k.pill = "connected"
      BY <1>1, <1>4 DEF PillSound, SameAdapter
    <3>2. BadNews(w)
      BY <1>1, <1>10, <3>1 DEF PillSound
    <3>3. PICK i \in 1..Len(w.posted) : /\ w.posted[i].of = w.attempt /\ w.posted[i].id = w.active
                                        /\ ~w.posted[i].connected
      BY <3>2 DEF BadNews
    <3>4. w.posted[i] # s
      <4> SUFFICES ASSUME w.posted[i] = s PROVE FALSE
        OBVIOUS
      <4>1. s.of = k.attempt /\ s.id = k.selected /\ ~s.connected
        BY <1>4, <3>3 DEF Chosen, SameAdapter
      <4> QED
        BY <1>6, <1>12, <3>1, <4>1
    <3>5. i - 1 \in 1..Len(k.posted) /\ k.posted[i - 1] = w.posted[i]
      BY <1>7, <3>4
    <3> QED
      BY <1>4, <3>3, <3>5 DEF BadNews, SameAdapter
  <2>3. Shows(k)
    BY <1>1, <1>4, <2>1 DEF PillSound, Shows, SameAdapter, SameChoice
  <2>4. PillSound(k)
    BY <1>1, <1>4, <2>2, <2>3 DEF PillSound, SameAdapter, SameChoice
  <2> QED
    BY <1>9, <1>12, <2>4
<1> QED
  BY <1>5, <1>11, <1>12

-----------------------------------------------------------------------------
\* The invariant the theorems rest on.
THEOREM Invariance == Spec => []IInv
<1>1. IInv /\ UNCHANGED vars => IInv'
  BY DEF vars, IInv, Good, Sound, AdapterSound, PostedSound, Earned, ShownSound, Chosen
<1>2. IInv /\ [Next]_vars => IInv'
  BY <1>1, UserGood, AdapterGood, DeliverGood DEF Next
<1> QED
  BY InitGood, <1>2, PTL DEF Spec

\* The adapter is the one of the selected connection, as that is saved now, and a
\* window that is about to be opened has one.
THEOREM AdaptersAreSelected == Spec => []AdapterIsSelected
<1>1. IInv => AdapterIsSelected
  BY DEF IInv, Good, Sound, Chosen, AdapterIsSelected, TypeOK
<1> QED
  BY Invariance, <1>1, PTL

\* Only an adapter that reported a live session is shown as connected or can be
\* given to a window, whatever snapshots of adapters before are still on the way.
THEOREM ConnectedIsAlwaysEarned == Spec => []ConnectedIsEarned
<1>1. IInv => ConnectedIsEarned
  BY DEF IInv, Good, ShownSound, ConnectedIsEarned
<1> QED
  BY Invariance, <1>1, PTL

\* The queue and the pill are sound together with the first invariant.
THEOREM PillInvariance == Spec => []PInv
<1>1. PInv /\ UNCHANGED vars => PInv'
  BY DEF vars, PInv, QueueSound, PillSound, Shows, Agrees, SaidBy, Chosen, LinkSound, Current, BadNews
<1>2. IInv /\ PInv /\ [Next]_vars => PInv'
  BY <1>1, UserPill, AdapterPill, DeliverPill DEF Next
<1> QED
  BY InitPill, Invariance, <1>2, PTL DEF Spec

\* With every snapshot delivered the pill shows what the adapter said last, or that it
\* connects; without an adapter, why there is none.
THEOREM PillAlwaysAgrees == Spec => []PillAgrees
<1>1. IInv /\ PInv => PillAgrees
  <2> SUFFICES ASSUME IInv, PInv, w.posted = <<>>, w.modal # "warning"
               PROVE  IF w.alive
                      THEN \/ w.pill = Said
                           \/ w.pill = "connecting" /\ w.link \in {"Lost", "Connecting"}
                      ELSE w.pill = IF w.selected = None THEN "idle" ELSE "incomplete"
    BY DEF PillAgrees
  <2>1. Chosen(w) /\ PillSound(w) /\ Shows(w)
    BY DEF IInv, Good, PInv, PillSound
  <2>2. SaidBy(w) = Said
    BY DEF SaidBy, Said
  <2>3. CASE w.alive
    BY <2>1, <2>2, <2>3 DEF Shows, Agrees
  <2>4. CASE ~w.alive
    BY <2>1, <2>4 DEF Shows, PillSound
  <2> QED
    BY <2>3, <2>4
<1> QED
  BY Invariance, PillInvariance, <1>1, PTL
=============================================================================
