------------------- MODULE RithmicMarketDataAdapterProofs -------------------
(***************************************************************************)
(* Proofs about RithmicMarketDataAdapter, for any instruments, bar lengths *)
(* and windows: a download that is shown is one that will be reported, a   *)
(* live session streams the selected contract, only charts ask for bars,   *)
(* and the session is used as TickerSession lets it; and about             *)
(* AdapterSeries: a series takes the candles of another by the ways named  *)
(* there and by no other.                                                  *)
(*                                                                         *)
(* A handler is an operator on the record, so it has a lemma that says     *)
(* what the record it returns is like; an action composes handlers, and    *)
(* its proof their lemmas.                                                 *)
(***************************************************************************)
EXTENDS AdapterSeries, TLAPS

-----------------------------------------------------------------------------
(* The invariant, as predicates of the record *)

\* BuildingIsServed, of a record.
Served(k) ==
    k.building => \/ k.history = "opening"
                  \/ k.history = "live" /\ \E key \in CacheKeys : k.replays[key] > 0

\* A history connection is opened for a request.
OpensForOne(k) == k.history = "opening" => k.pending \in CacheKeys

Sound(k) == k \in Adapter /\ Served(k) /\ OpensForOne(k)

\* A session that is wanted was asked for, and only a live one streams.
LinkSound(k) ==
    /\ k.link \in {"Connecting", "Live", "Lost"} => k.started
    /\ k.link # "Live" => k.streamed = {}

Resolvable == Contracts \cup LocalRoots

\* LiveIsAttached, of a record.
Attached(k) ==
    k.link = "Live" => /\ k.symbol \in Resolvable => k.symbol \in k.streamed
                       /\ k.connected /\ ~k.failed

IInv == /\ Sound(m) /\ LinkSound(m) /\ Attached(m)
        /\ charts \in [ChartNames -> Shapes \cup {None}]

-----------------------------------------------------------------------------
(* What a handler leaves alone *)

SameLink(r, k) ==
    /\ r.link = k.link /\ r.started = k.started /\ r.connected = k.connected
    /\ r.failed => k.failed

SameStream(r, k) == r.wanted = k.wanted /\ r.streamed = k.streamed

SameChoice(r, k) ==
    /\ r.symbol = k.symbol /\ r.root = k.root /\ r.resolving = k.resolving
    /\ r.chartWanted = k.chartWanted /\ r.shape = k.shape

\* No bars are asked for.
Quiet(r, k) == r.history = k.history /\ r.pending = k.pending /\ r.replays = k.replays

\* At most a contract is subscribed.
Streams(r, k) ==
    \/ SameStream(r, k)
    \/ k.link = "Live" /\ r.wanted \in Contracts /\ r.streamed = k.streamed \cup {r.wanted}

Keeps(r, k) == SameLink(r, k) /\ SameStream(r, k) /\ SameChoice(r, k)

-----------------------------------------------------------------------------
(* Candles and their cache *)

LEMMA KeyIsCacheKey ==
  ASSUME NEW k \in Adapter, k.symbol # None
  PROVE  Key(k) \in CacheKeys
  BY DEF Adapter, Key, CacheKeys

LEMMA PersistSound ==
  ASSUME NEW k \in Adapter, NEW saved \in BOOLEAN
  PROVE  LET r == PersistCandleCache(k, saved)
         IN  /\ r \in Adapter /\ Keeps(r, k) /\ Quiet(r, k) /\ r.building = k.building
             /\ r.failed = k.failed
<1> DEFINE r == PersistCandleCache(k, saved)
           disk == [k.disk EXCEPT ![Key(k)] = k.candles]
<1>1. CASE r = k
  BY <1>1 DEF Keeps, SameLink, SameStream, SameChoice, Quiet
<1>2. CASE r # k
  <2>1. r = [k EXCEPT !.disk = disk, !.dirty = FALSE] /\ k.symbol # None
    BY <1>2 DEF PersistCandleCache
  <2>2. disk \in [CacheKeys -> SUBSET Keys]
    BY DEF Adapter
  <2> HIDE DEF disk, r
  <2>3. r \in Adapter
    BY <2>1, <2>2 DEF Adapter
  <2>4. Keeps(r, k) /\ Quiet(r, k) /\ r.building = k.building /\ r.failed = k.failed
    BY <2>1 DEF Adapter, Keeps, SameLink, SameStream, SameChoice, Quiet
  <2> QED
    BY <2>3, <2>4 DEF r
<1> QED
  BY <1>1, <1>2

LEMMA RestoreSound ==
  ASSUME NEW k \in Adapter
  PROVE  LET r == RestoreCachedCandles(k)
         IN  /\ r \in Adapter /\ Keeps(r, k) /\ Quiet(r, k) /\ r.building = k.building
             /\ r.failed = k.failed
<1> DEFINE r == RestoreCachedCandles(k)
<1>1. CASE r = k
  BY <1>1 DEF Keeps, SameLink, SameStream, SameChoice, Quiet
<1>2. CASE r # k
  <2> DEFINE remembered == IF k.chartWanted /\ k.symbol # None THEN k.memory[Key(k)] ELSE {}
             cached == IF k.chartWanted /\ k.symbol # None /\ remembered = {}
                       THEN k.disk[Key(k)] ELSE remembered
             memory == [k.memory EXCEPT ![Key(k)] = cached]
  <2>1. r = [k EXCEPT !.candles = cached, !.memory = memory] /\ k.symbol # None
    BY <1>2 DEF RestoreCachedCandles
  <2>2. Key(k) \in CacheKeys
    BY <2>1, KeyIsCacheKey
  <2>3. cached \in SUBSET Keys
    BY <2>1, <2>2 DEF Adapter
  <2> HIDE DEF cached
  <2>4. memory \in [CacheKeys -> SUBSET Keys]
    BY <2>3 DEF Adapter
  <2> HIDE DEF memory, r
  <2>5. r \in Adapter
    BY <2>1, <2>3, <2>4 DEF Adapter
  <2>6. Keeps(r, k) /\ Quiet(r, k) /\ r.building = k.building /\ r.failed = k.failed
    BY <2>1 DEF Adapter, Keeps, SameLink, SameStream, SameChoice, Quiet
  <2> QED
    BY <2>5, <2>6 DEF r
<1> QED
  BY <1>1, <1>2

LEMMA AddCandleSound ==
  ASSUME NEW k \in Adapter, NEW key \in Keys
  PROVE  LET r == AddCandle(k, key)
         IN  /\ r \in Adapter /\ Keeps(r, k) /\ Quiet(r, k) /\ r.building = k.building
             /\ r.failed = k.failed
<1> DEFINE r == AddCandle(k, key)
           added == [k EXCEPT !.candles = @ \cup {key}]
<1>1. /\ added \in Adapter /\ Keeps(added, k) /\ Quiet(added, k) /\ added.building = k.building
      /\ added.failed = k.failed
  BY DEF Adapter, Keeps, SameLink, SameStream, SameChoice, Quiet
<1>2. r = RememberCandleCache(added)
  BY DEF AddCandle
<1> HIDE DEF added, r
<1>3. CASE r = added
  BY <1>1, <1>3 DEF r
<1>4. CASE r # added
  <2> DEFINE memory == [added.memory EXCEPT ![Key(added)] = added.candles]
  <2>1. r = [added EXCEPT !.memory = memory, !.dirty = TRUE]
    BY <1>2, <1>4 DEF RememberCandleCache
  <2>2. memory \in [CacheKeys -> SUBSET Keys]
    BY <1>1 DEF Adapter
  <2> HIDE DEF memory
  <2>3. r \in Adapter
    BY <1>1, <2>1, <2>2 DEF Adapter
  <2>4. /\ Keeps(r, added) /\ Quiet(r, added) /\ r.building = added.building
        /\ r.failed = added.failed
    BY <1>1, <2>1 DEF Adapter, Keeps, SameLink, SameStream, SameChoice, Quiet
  <2> QED
    BY <1>1, <2>3, <2>4 DEF Keeps, SameLink, SameStream, SameChoice, Quiet, r
<1> QED
  BY <1>3, <1>4

-----------------------------------------------------------------------------
(* Downloads *)

\* Whatever ends a download is shown.
LEMMA FinishedSound ==
  ASSUME NEW k \in Adapter, NEW ok \in BOOLEAN, NEW saved \in BOOLEAN
  PROVE  LET r == HandleHistoryFinished(k, ok, saved)
         IN  /\ r \in Adapter /\ Keeps(r, k) /\ Quiet(r, k) /\ ~r.building
             /\ r.failed = k.failed
<1> DEFINE r == HandleHistoryFinished(k, ok, saved)
           off == [k EXCEPT !.building = FALSE, !.complete = ok, !.backfilling = FALSE]
<1>1. /\ off \in Adapter /\ Keeps(off, k) /\ Quiet(off, k) /\ ~off.building
      /\ off.failed = k.failed
  BY ZenonT(60) DEF Adapter, Keeps, SameLink, SameStream, SameChoice, Quiet
<1>2. r = off \/ r = PersistCandleCache(off, saved)
  BY DEF HandleHistoryFinished
<1> HIDE DEF off, r
<1>3. /\ r \in Adapter /\ Keeps(r, off) /\ Quiet(r, off) /\ r.building = off.building
      /\ r.failed = off.failed
  BY <1>1, <1>2, PersistSound DEF Keeps, SameLink, SameStream, SameChoice, Quiet
<1> QED
  BY <1>1, <1>3 DEF Keeps, SameLink, SameStream, SameChoice, Quiet, r

\* A request is served by a replay, or by a connection that is opened for it, or is
\* reported as failed before it returns.
LEMMA RequestSound ==
  ASSUME NEW k \in Adapter, k.symbol # None
  PROVE  LET r == RequestTimeBarBackfill(k)
         IN  Sound(r) /\ Keeps(r, k) /\ ~r.failed
<1> DEFINE r == RequestTimeBarBackfill(k)
           asked == [k EXCEPT !.pending = Key(k), !.counted = FALSE, !.failed = FALSE]
<1>1. Key(k) \in CacheKeys
  BY KeyIsCacheKey
<1>2. /\ asked \in Adapter /\ Keeps(asked, k) /\ ~asked.failed /\ asked.pending = Key(k)
      /\ asked.history = k.history /\ asked.replays = k.replays
  <2>1. asked \in Adapter
    BY <1>1 DEF Adapter
  <2> QED
    BY <2>1 DEF Adapter, Keeps, SameLink, SameStream, SameChoice
<1>3. CASE k.history = "live"
  <2> DEFINE replays == [asked.replays EXCEPT ![Key(k)] = @ + 1]
  <2>1. r = [asked EXCEPT !.replays = replays, !.backfilling = TRUE]
    BY <1>3 DEF RequestTimeBarBackfill
  <2> HIDE DEF asked, r
  <2>2. replays \in [CacheKeys -> Nat] /\ replays[Key(k)] > 0
    BY <1>1, <1>2 DEF Adapter
  <2> HIDE DEF replays
  <2>3. r \in Adapter
    BY <1>2, <2>1, <2>2 DEF Adapter
  <2>4. Keeps(r, asked) /\ r.history = "live" /\ r.replays = replays /\ r.failed = asked.failed
    BY <1>2, <1>3, <2>1 DEF Adapter, Keeps, SameLink, SameStream, SameChoice
  <2>5. Sound(r)
    BY <1>1, <2>2, <2>3, <2>4 DEF Sound, Served, OpensForOne
  <2> QED
    BY <1>2, <2>4, <2>5 DEF Keeps, SameLink, SameStream, SameChoice, r
<1>4. CASE k.history = "off"
  <2>1. r = [asked EXCEPT !.history = "opening"]
    BY <1>4 DEF RequestTimeBarBackfill
  <2> HIDE DEF asked, r
  <2>2. r \in Adapter
    BY <1>2, <2>1 DEF Adapter
  <2>3. Keeps(r, asked) /\ r.history = "opening" /\ r.pending = Key(k) /\ r.failed = asked.failed
    BY <1>2, <2>1 DEF Adapter, Keeps, SameLink, SameStream, SameChoice
  <2>4. Sound(r)
    BY <1>1, <2>2, <2>3 DEF Sound, Served, OpensForOne
  <2> QED
    BY <1>2, <2>3, <2>4 DEF Keeps, SameLink, SameStream, SameChoice, r
<1>5. CASE k.history \notin {"live", "off"}
  <2> DEFINE orphan == [asked EXCEPT !.history = "orphan"]
  <2>1. r = HandleHistoryFinished(orphan, FALSE, FALSE)
    BY <1>5 DEF RequestTimeBarBackfill
  <2> HIDE DEF asked, r
  <2>2. orphan \in Adapter /\ Keeps(orphan, asked) /\ orphan.history = "orphan" /\ ~orphan.failed
    BY <1>2 DEF Adapter, Keeps, SameLink, SameStream, SameChoice
  <2> HIDE DEF orphan
  <2>3. r \in Adapter /\ Keeps(r, orphan) /\ Quiet(r, orphan) /\ ~r.building /\ ~r.failed
    BY <2>1, <2>2, FinishedSound
  <2>4. Sound(r)
    BY <2>2, <2>3 DEF Sound, Served, OpensForOne, Quiet
  <2> QED
    BY <1>2, <2>2, <2>3, <2>4 DEF Keeps, SameLink, SameStream, SameChoice, r
<1> QED
  BY <1>3, <1>4, <1>5

\* A download is asked for only for a chart, over a session.
LEMMA StartSound ==
  ASSUME NEW k, Sound(k), NEW covered \in BOOLEAN
  PROVE  LET r == StartChartBackfill(k, covered)
         IN  Sound(r) /\ Keeps(r, k)
<1> DEFINE r == StartChartBackfill(k, covered)
           restored == RestoreCachedCandles(k)
           full == [restored EXCEPT !.building = FALSE, !.complete = TRUE]
           asking == [restored EXCEPT !.complete = FALSE, !.building = TRUE]
<1>1. k \in Adapter
  BY DEF Sound
<1>2. /\ restored \in Adapter /\ Keeps(restored, k) /\ Quiet(restored, k)
  BY <1>1, RestoreSound
<1>3. r = k \/ (k.symbol # None /\ (r = full \/ r = RequestTimeBarBackfill(asking)))
  BY DEF StartChartBackfill
<1> HIDE DEF restored, r
<1>4. /\ full \in Adapter /\ Keeps(full, restored) /\ Quiet(full, restored) /\ ~full.building
  BY <1>2, ZenonT(60) DEF Adapter, Keeps, SameLink, SameStream, SameChoice, Quiet
<1>5. /\ asking \in Adapter /\ Keeps(asking, restored)
  BY <1>2, ZenonT(60) DEF Adapter, Keeps, SameLink, SameStream, SameChoice
<1> HIDE DEF full, asking
<1>6. CASE r = k
  BY <1>6 DEF Keeps, SameLink, SameStream, SameChoice, r
<1>7. CASE r = full
  <2>1. Sound(full)
    BY <1>2, <1>4 DEF Sound, Served, OpensForOne, Quiet
  <2> QED
    BY <1>2, <1>4, <1>7, <2>1 DEF Keeps, SameLink, SameStream, SameChoice, r
<1>8. CASE k.symbol # None /\ r = RequestTimeBarBackfill(asking)
  <2>1. asking.symbol # None
    BY <1>2, <1>5, <1>8 DEF Keeps, SameChoice
  <2>2. Sound(r) /\ Keeps(r, asking)
    BY <1>5, <1>8, <2>1, RequestSound
  <2> QED
    BY <1>2, <1>5, <2>2 DEF Keeps, SameLink, SameStream, SameChoice, r
<1> QED
  BY <1>3, <1>6, <1>7, <1>8

-----------------------------------------------------------------------------
(* The instrument *)

LEMMA AttachSound ==
  ASSUME NEW k, Sound(k), k.symbol \in Contracts, NEW covered \in BOOLEAN
  PROVE  LET r == Attach(k, covered)
         IN  /\ Sound(r) /\ SameLink(r, k) /\ SameChoice(r, k)
             /\ r.wanted = k.symbol /\ r.streamed = k.streamed \cup {k.symbol}
             /\ ~k.chartWanted => Quiet(r, k)
<1> DEFINE r == Attach(k, covered)
           streaming == [k EXCEPT !.wanted = k.symbol, !.streamed = @ \cup {k.symbol}]
<1>1. k \in Adapter
  BY DEF Sound
<1>2. /\ streaming \in Adapter /\ SameLink(streaming, k) /\ SameChoice(streaming, k)
      /\ Quiet(streaming, k) /\ streaming.building = k.building
      /\ streaming.wanted = k.symbol /\ streaming.streamed = k.streamed \cup {k.symbol}
  BY <1>1 DEF Adapter, SameLink, SameChoice, Quiet
<1>3. r = IF k.chartWanted THEN StartChartBackfill(streaming, covered) ELSE streaming
  BY DEF Attach
<1> HIDE DEF streaming, r
<1>4. Sound(streaming)
  BY <1>2 DEF Sound, Served, OpensForOne, Quiet
<1>5. CASE k.chartWanted
  <2>1. Sound(r) /\ Keeps(r, streaming)
    BY <1>3, <1>4, <1>5, StartSound
  <2> QED
    BY <1>2, <1>5, <2>1 DEF Keeps, SameLink, SameStream, SameChoice, r
<1>6. CASE ~k.chartWanted
  BY <1>2, <1>3, <1>4, <1>6 DEF r
<1> QED
  BY <1>5, <1>6

\* Over a session the selected instrument is subscribed, if it can be, or looked up.
LEMMA ResolveSound ==
  ASSUME NEW k, Sound(k), NEW covered \in BOOLEAN
  PROVE  LET r == ResolvePendingSymbol(k, covered)
         IN  /\ Sound(r) /\ SameLink(r, k) /\ Streams(r, k) /\ r.chartWanted = k.chartWanted
             /\ k.root = k.symbol => r.root = k.root
             /\ Ready(k) /\ r.symbol \in Resolvable => r.wanted = r.symbol /\ r.symbol \in r.streamed
             /\ ~k.chartWanted => Quiet(r, k)
<1> DEFINE r == ResolvePendingSymbol(k, covered)
           Result(q) == /\ Sound(q) /\ SameLink(q, k) /\ Streams(q, k) /\ q.chartWanted = k.chartWanted
                        /\ k.root = k.symbol => q.root = k.root
                        /\ Ready(k) /\ q.symbol \in Resolvable =>
                               q.wanted = q.symbol /\ q.symbol \in q.streamed
                        /\ ~k.chartWanted => Quiet(q, k)
<1>1. k \in Adapter /\ k.symbol \in Names \cup {None}
  BY DEF Sound, Adapter
<1>2. ASSUME r = k, ~Ready(k) \/ k.symbol \notin Resolvable
      PROVE  Result(r)
  BY <1>2 DEF SameLink, Streams, SameStream, Quiet
<1>3. CASE ~Ready(k) \/ k.symbol = None
  <2>1. r = k
    <3>1. /\ ~(Ready(k) /\ k.symbol \in Contracts) /\ ~(Ready(k) /\ k.symbol \in LocalRoots)
          /\ ~(Ready(k) /\ k.symbol \in RemoteRoots)
      BY <1>3, NamesAssumption DEF Names, Roots
    <3> QED
      BY <1>3, <3>1 DEF ResolvePendingSymbol
  <2>2. ~Ready(k) \/ k.symbol \notin Resolvable
    BY <1>3, NamesAssumption DEF Resolvable, Names, Roots
  <2> QED
    BY <1>2, <2>1, <2>2
<1>4. CASE Ready(k) /\ k.symbol \in Contracts
  <2>1. k.symbol # None /\ k.symbol \notin LocalRoots /\ k.symbol \notin RemoteRoots
    BY <1>4, NamesAssumption DEF Names, Roots
  <2>2. r = Attach(k, covered)
    BY <1>4, <2>1 DEF ResolvePendingSymbol
  <2> HIDE DEF r
  <2>3. /\ Sound(r) /\ SameLink(r, k) /\ SameChoice(r, k)
        /\ r.wanted = k.symbol /\ r.streamed = k.streamed \cup {k.symbol}
        /\ ~k.chartWanted => Quiet(r, k)
    BY <1>4, <2>2, AttachSound
  <2> QED
    BY <1>4, <2>3 DEF Streams, SameChoice, Ready, r
<1>5. CASE Ready(k) /\ k.symbol \in LocalRoots
  <2> DEFINE front == [k EXCEPT !.root = k.symbol, !.symbol = FrontMonth[k.symbol]]
  <2>1. k.symbol # None /\ k.symbol \notin Contracts /\ k.symbol \notin RemoteRoots
    BY <1>5, NamesAssumption DEF Names, Roots
  <2>2. r = Attach(front, covered)
    BY <1>5, <2>1 DEF ResolvePendingSymbol
  <2>3. FrontMonth[k.symbol] \in Contracts /\ k.symbol \in Names
    BY <1>5, NamesAssumption DEF Names, Roots
  <2>4. /\ front \in Adapter /\ SameLink(front, k) /\ Quiet(front, k)
        /\ front.building = k.building /\ front.chartWanted = k.chartWanted
        /\ front.root = k.symbol /\ front.symbol \in Contracts /\ front.streamed = k.streamed
    BY <1>1, <2>3 DEF Adapter, SameLink, Quiet, Names
  <2> HIDE DEF front, r
  <2>5. Sound(front)
    BY <2>4 DEF Sound, Served, OpensForOne, Quiet
  <2>6. /\ Sound(r) /\ SameLink(r, front) /\ SameChoice(r, front)
        /\ r.wanted = front.symbol /\ r.streamed = front.streamed \cup {front.symbol}
        /\ ~front.chartWanted => Quiet(r, front)
    BY <2>2, <2>4, <2>5, AttachSound
  <2> QED
    BY <1>5, <2>4, <2>6 DEF Streams, SameLink, SameChoice, Quiet, Ready, r
<1>6. CASE Ready(k) /\ k.symbol \in RemoteRoots
  <2>1. k.symbol # None /\ k.symbol \notin Contracts /\ k.symbol \notin LocalRoots
    BY <1>6, NamesAssumption DEF Names, Roots
  <2>2. CASE k.resolving
    <3>1. r = k
      BY <1>6, <2>1, <2>2 DEF ResolvePendingSymbol
    <3> QED
      BY <1>2, <2>1, <3>1 DEF Resolvable
  <2>3. CASE ~k.resolving
    <3> DEFINE lookups == [k.lookups EXCEPT ![k.symbol] = @ + 1]
    <3>1. r = [k EXCEPT !.resolving = TRUE, !.root = k.symbol, !.lookups = lookups]
      BY <1>6, <2>1, <2>3 DEF ResolvePendingSymbol
    <3>2. lookups \in [RemoteRoots -> Nat] /\ k.symbol \in Names
      BY <1>1, <1>6 DEF Adapter, Names, Roots
    <3> HIDE DEF lookups, r
    <3>3. r \in Adapter
      BY <1>1, <3>1, <3>2 DEF Adapter
    <3>4. /\ SameLink(r, k) /\ SameStream(r, k) /\ Quiet(r, k) /\ r.building = k.building
          /\ r.chartWanted = k.chartWanted /\ r.symbol = k.symbol /\ r.root = k.symbol
      BY <1>1, <3>1 DEF Adapter, SameLink, SameStream, Quiet
    <3>5. Sound(r)
      BY <3>3, <3>4 DEF Sound, Served, OpensForOne, Quiet
    <3> QED
      BY <2>1, <3>4, <3>5 DEF Streams, Resolvable, r
  <2> QED
    BY <2>2, <2>3
<1>7. k.symbol \in Contracts \cup LocalRoots \cup RemoteRoots \cup {None}
  BY <1>1 DEF Names, Roots
<1> QED
  BY <1>3, <1>4, <1>5, <1>6, <1>7

LEMMA SubscribeSound ==
  ASSUME NEW k, Sound(k), NEW n \in Names, NEW saved \in BOOLEAN, NEW covered \in BOOLEAN
  PROVE  LET r == Subscribe(k, n, saved, covered)
         IN  /\ Sound(r) /\ SameLink(r, k) /\ Streams(r, k) /\ r.root = n /\ ~r.chartWanted
             /\ Ready(k) /\ r.symbol \in Resolvable => r.symbol \in r.streamed
             /\ Quiet(r, k)
<1> DEFINE r == Subscribe(k, n, saved, covered)
           kept == PersistCandleCache(k, saved)
           on == [kept EXCEPT !.symbol = n, !.root = n, !.resolving = FALSE, !.candles = {},
                              !.dom = {}, !.dirty = FALSE, !.complete = FALSE,
                              !.chartWanted = FALSE, !.shape = DefaultShape]
<1>1. /\ kept \in Adapter /\ Keeps(kept, k) /\ Quiet(kept, k) /\ kept.building = k.building
  BY PersistSound DEF Sound
<1>2. r = ResolvePendingSymbol(on, covered)
  BY DEF Subscribe
<1> HIDE DEF kept, r
<1>3. on \in Adapter
  BY <1>1, ShapesAssumption DEF Adapter
<1>4. /\ SameLink(on, kept) /\ SameStream(on, kept) /\ Quiet(on, kept) /\ on.building = kept.building
      /\ on.symbol = n /\ on.root = n /\ on.chartWanted = FALSE
  BY <1>1 DEF Adapter, SameLink, SameStream, Quiet
<1> HIDE DEF on
<1>5. /\ SameLink(on, k) /\ SameStream(on, k) /\ Quiet(on, k) /\ on.building = k.building
  BY <1>1, <1>4 DEF Keeps, SameLink, SameStream, Quiet
<1>6. Sound(on)
  BY <1>3, <1>5 DEF Sound, Served, OpensForOne, Quiet
<1>7. /\ Sound(r) /\ SameLink(r, on) /\ Streams(r, on) /\ r.chartWanted = on.chartWanted
      /\ on.root = on.symbol => r.root = on.root
      /\ Ready(on) /\ r.symbol \in Resolvable => r.symbol \in r.streamed
      /\ ~on.chartWanted => Quiet(r, on)
  BY <1>2, <1>6, ResolveSound
<1>8. SameLink(r, k) /\ Streams(r, k) /\ Quiet(r, k) /\ (Ready(on) <=> Ready(k))
  BY <1>4, <1>5, <1>7 DEF SameLink, SameStream, Streams, Quiet, Ready
<1> QED
  BY <1>4, <1>7, <1>8 DEF r

\* A chart asks: at most one contract is subscribed, and over a session the one it
\* stands for streams if it did or is selected now.
LEMMA RequestChartSound ==
  ASSUME NEW k, Sound(k), NEW n \in Names, NEW shape \in Shapes,
         NEW saved \in BOOLEAN, NEW covered \in BOOLEAN
  PROVE  LET r == RequestChartData(k, n, shape, saved, covered)
         IN  /\ Sound(r) /\ SameLink(r, k) /\ Streams(r, k) /\ r.chartWanted
             /\ k.root = n => SameStream(r, k) /\ r.symbol = k.symbol
             /\ k.root # n /\ Ready(k) /\ r.symbol \in Resolvable => r.symbol \in r.streamed
<1> DEFINE r == RequestChartData(k, n, shape, saved, covered)
           changed == k.chartWanted /\ k.shape # shape
           kept == IF changed THEN PersistCandleCache(k, saved) ELSE k
           on == IF kept.root # n THEN Subscribe(kept, n, saved, covered) ELSE kept
           asked == [on EXCEPT !.chartWanted = TRUE, !.shape = shape]
           cleared == IF changed
                      THEN [asked EXCEPT !.candles = {}, !.dirty = FALSE, !.complete = FALSE]
                      ELSE asked
<1>1. k \in Adapter
  BY DEF Sound
<1>2. /\ kept \in Adapter /\ Keeps(kept, k) /\ Quiet(kept, k) /\ kept.building = k.building
  BY <1>1, PersistSound DEF Keeps, SameLink, SameStream, SameChoice, Quiet
<1>3. r = StartChartBackfill(cleared, covered)
  BY DEF RequestChartData
<1> HIDE DEF kept, changed, r
<1>4. Sound(kept)
  BY <1>2 DEF Sound, Served, OpensForOne, Quiet
<1>5. /\ Sound(on) /\ SameLink(on, k) /\ Streams(on, k)
      /\ k.root = n => SameStream(on, k) /\ on.symbol = k.symbol
      /\ k.root # n /\ Ready(k) /\ on.symbol \in Resolvable => on.symbol \in on.streamed
  <2>1. CASE k.root = n
    <3>1. on = kept
      BY <1>2, <2>1 DEF Keeps, SameChoice
    <3> QED
      BY <1>2, <1>4, <2>1, <3>1 DEF Keeps, SameLink, SameStream, SameChoice, Streams
  <2>2. CASE k.root # n
    <3>1. on = Subscribe(kept, n, saved, covered)
      BY <1>2, <2>2 DEF Keeps, SameChoice
    <3> HIDE DEF on
    <3>2. /\ Sound(on) /\ SameLink(on, kept) /\ Streams(on, kept)
          /\ Ready(kept) /\ on.symbol \in Resolvable => on.symbol \in on.streamed
      BY <1>4, <3>1, SubscribeSound
    <3>3. Ready(kept) <=> Ready(k)
      BY <1>2 DEF Keeps, SameLink, Ready
    <3> QED
      BY <1>2, <2>2, <3>2, <3>3 DEF Keeps, SameLink, SameStream, Streams, on
  <2> QED
    BY <2>1, <2>2
<1> HIDE DEF on
<1>6. /\ cleared \in Adapter /\ SameLink(cleared, on) /\ SameStream(cleared, on) /\ Quiet(cleared, on)
      /\ cleared.building = on.building /\ cleared.chartWanted /\ cleared.symbol = on.symbol
  <2>1. /\ asked \in Adapter /\ SameLink(asked, on) /\ SameStream(asked, on) /\ Quiet(asked, on)
        /\ asked.building = on.building /\ asked.chartWanted /\ asked.symbol = on.symbol
    BY <1>5, ZenonT(60) DEF Sound, Adapter, SameLink, SameStream, Quiet
  <2>2. CASE ~changed
    BY <2>1, <2>2
  <2>3. CASE changed
    <3>1. cleared = [asked EXCEPT !.candles = {}, !.dirty = FALSE, !.complete = FALSE]
      BY <2>3
    <3> HIDE DEF asked, cleared
    <3>2. cleared \in Adapter
      BY <2>1, <3>1 DEF Adapter
    <3> QED
      BY <2>1, <3>1, <3>2 DEF Adapter, SameLink, SameStream, Quiet
  <2> QED
    BY <2>2, <2>3
<1> HIDE DEF cleared
<1>7. Sound(cleared)
  BY <1>5, <1>6 DEF Sound, Served, OpensForOne, Quiet
<1>8. Sound(r) /\ Keeps(r, cleared)
  BY <1>3, <1>7, StartSound
<1>9. SameLink(r, k) /\ Streams(r, k) /\ r.chartWanted
  BY <1>5, <1>6, <1>8 DEF Keeps, SameLink, SameStream, SameChoice, Streams
<1>10. r.symbol = on.symbol /\ SameStream(r, on)
  BY <1>6, <1>8 DEF Keeps, SameStream, SameChoice
<1> QED
  BY <1>5, <1>8, <1>9, <1>10 DEF SameStream, r

-----------------------------------------------------------------------------
(* The steps *)

\* What a step may ask for, and what it may do to the session.
NothingUnasked == m.link # "Off" /\ m'.link # "Off" /\ Asks(m, m') => m'.chartWanted

SessionStep == m'.link = "Off" \/ [Session!Next]_<<m.link, m.wanted, m.streamed>>

GoodStep == IInv' /\ NothingUnasked /\ SessionStep

LEMMA Primed ==
  ASSUME Sound(m'), LinkSound(m'), Attached(m'), charts' \in [ChartNames -> Shapes \cup {None}]
  PROVE  IInv'
  BY DEF IInv, Sound, Served, OpensForOne, LinkSound, Attached

LEMMA QuietAsksNothing ==
  ASSUME m \in Adapter, Quiet(m', m)
  PROVE  NothingUnasked
<1>1. m.replays \in [CacheKeys -> Nat] /\ m'.replays = m.replays
  BY DEF Adapter, Quiet
<1>2. ~ \E key \in CacheKeys : m'.replays[key] > m.replays[key]
  BY <1>1
<1> QED
  BY <1>2 DEF NothingUnasked, Asks, Quiet

LEMMA StreamsIsWant ==
  ASSUME m \in Adapter, SameLink(m', m), Streams(m', m)
  PROVE  SessionStep
<1>1. CASE SameStream(m', m)
  BY <1>1 DEF SessionStep, SameLink, SameStream
<1>2. CASE m.link = "Live" /\ m'.wanted \in Contracts /\ m'.streamed = m.streamed \cup {m'.wanted}
  <2>1. Session!Want
    BY <1>2 DEF Session!Want, SameLink
  <2> QED
    BY <2>1 DEF SessionStep, Session!Next
<1> QED
  BY <1>1, <1>2 DEF Streams

\* A call or a callback that leaves the link alone.
LEMMA SameLinkGood ==
  ASSUME IInv, Sound(m'), SameLink(m', m), Streams(m', m),
         m.link = "Live" /\ m'.symbol \in Resolvable => m'.symbol \in m'.streamed,
         charts' \in [ChartNames -> Shapes \cup {None}]
  PROVE  IInv' /\ SessionStep
<1>1. LinkSound(m')
  BY DEF IInv, LinkSound, SameLink, Streams, SameStream
<1>2. Attached(m')
  <2>1. m'.failed \in BOOLEAN /\ m.failed \in BOOLEAN
    BY DEF IInv, Sound, Adapter
  <2> QED
    BY <2>1 DEF IInv, Attached, SameLink
<1> QED
  BY <1>1, <1>2, Primed, StreamsIsWant DEF IInv, Sound

LEMMA WindowsGood == IInv /\ Windows => GoodStep
<1> SUFFICES ASSUME IInv, NEW saved \in BOOLEAN, NEW covered \in BOOLEAN,
                    \/ \E n \in ChartNames : OpenChart(n, saved, covered)
                    \/ \E n \in ChartNames, shape \in Shapes : ChooseTimeframe(n, shape, saved, covered)
                    \/ \E n \in DomNames : OpenDom(n, saved, covered)
             PROVE  GoodStep
  BY WindowsAssumption DEF Windows
<1>1. /\ Sound(m) /\ m \in Adapter /\ charts \in [ChartNames -> Shapes \cup {None}]
      /\ m.link = "Live" => Ready(m)
      /\ m.link = "Live" /\ m.symbol \in Resolvable => m.symbol \in m.streamed
      /\ ChartNames \in SUBSET Names /\ DomNames \in SUBSET Names
      /\ DefaultShape \in Shapes
  BY WindowsAssumption, ShapesAssumption DEF IInv, Sound, LinkSound, Attached, Ready
<1>2. ASSUME NEW n \in ChartNames, OpenChart(n, saved, covered) PROVE GoodStep
  <2> DEFINE k == Subscribe(m, n, saved, covered)
  <2>1. m' = RequestChartData(k, n, DefaultShape, saved, covered)
    BY <1>2 DEF OpenChart
  <2>2. charts' \in [ChartNames -> Shapes \cup {None}]
    BY <1>1, <1>2 DEF OpenChart
  <2>3. /\ Sound(k) /\ SameLink(k, m) /\ Streams(k, m) /\ k.root = n
        /\ Ready(m) /\ k.symbol \in Resolvable => k.symbol \in k.streamed
    BY <1>1, SubscribeSound
  <2> HIDE DEF k
  <2>4. /\ Sound(m') /\ SameLink(m', k) /\ m'.chartWanted
        /\ SameStream(m', k) /\ m'.symbol = k.symbol
    BY <1>1, <2>1, <2>3, RequestChartSound
  <2>5. SameLink(m', m) /\ Streams(m', m)
    BY <2>3, <2>4 DEF SameLink, SameStream, Streams
  <2>6. m.link = "Live" /\ m'.symbol \in Resolvable => m'.symbol \in m'.streamed
    BY <1>1, <2>3, <2>4 DEF SameStream
  <2> QED
    BY <2>2, <2>4, <2>5, <2>6, SameLinkGood DEF GoodStep, NothingUnasked
<1>3. ASSUME NEW n \in ChartNames, NEW shape \in Shapes, ChooseTimeframe(n, shape, saved, covered)
      PROVE  GoodStep
  <2>1. m' = RequestChartData(m, n, shape, saved, covered)
    BY <1>3 DEF ChooseTimeframe
  <2>2. charts' \in [ChartNames -> Shapes \cup {None}]
    BY <1>1, <1>3 DEF ChooseTimeframe
  <2>3. /\ Sound(m') /\ SameLink(m', m) /\ Streams(m', m) /\ m'.chartWanted
        /\ m.root = n => SameStream(m', m) /\ m'.symbol = m.symbol
        /\ m.root # n /\ Ready(m) /\ m'.symbol \in Resolvable => m'.symbol \in m'.streamed
    BY <1>1, <2>1, RequestChartSound
  <2>4. m.link = "Live" /\ m'.symbol \in Resolvable => m'.symbol \in m'.streamed
    BY <1>1, <2>3 DEF SameStream
  <2> QED
    BY <2>2, <2>3, <2>4, SameLinkGood DEF GoodStep, NothingUnasked
<1>4. ASSUME NEW n \in DomNames, OpenDom(n, saved, covered) PROVE GoodStep
  <2>1. m' = Subscribe(m, n, saved, covered) /\ charts' = charts
    BY <1>4 DEF OpenDom
  <2>2. /\ Sound(m') /\ SameLink(m', m) /\ Streams(m', m) /\ Quiet(m', m)
        /\ Ready(m) /\ m'.symbol \in Resolvable => m'.symbol \in m'.streamed
    BY <1>1, <2>1, SubscribeSound
  <2> QED
    BY <1>1, <2>1, <2>2, SameLinkGood, QuietAsksNothing DEF GoodStep
<1> QED
  BY <1>2, <1>3, <1>4

\* Connecting, closing, and starting again.
LEMMA MainWindowGood == IInv /\ MainWindow => GoodStep
<1> SUFFICES ASSUME IInv, MainWindow PROVE GoodStep
  OBVIOUS
<1>1. m \in Adapter /\ Sound(m) /\ charts \in [ChartNames -> Shapes \cup {None}]
  BY DEF IInv, Sound
<1>2. ASSUME NEW fails \in BOOLEAN, NEW refused \in BOOLEAN, ConnectAdapter(fails, refused)
      PROVE  GoodStep
  <2>1. /\ m' \in Adapter /\ m.link = "Off" /\ m'.link \in {"Connecting", "Failed"}
        /\ m'.link = "Connecting" => m'.started
        /\ ~m'.building /\ SameStream(m', m) /\ Quiet(m', m)
    <3> DEFINE off == [m EXCEPT !.connected = FALSE, !.failed = FALSE, !.building = FALSE,
                                !.started = FALSE]
               tried == IF fails THEN HandleError([off EXCEPT !.link = "Failed"])
                        ELSE [off EXCEPT !.link = "Connecting"]
    <3>1. m' = [tried EXCEPT !.started = ~refused] /\ m.link = "Off" /\ (refused => fails)
      BY <1>2 DEF ConnectAdapter
    <3>2. off \in Adapter /\ SameStream(off, m) /\ Quiet(off, m) /\ ~off.building
      BY <1>1, ZenonT(60) DEF Adapter, SameStream, Quiet
    <3> HIDE DEF off
    <3>3. /\ tried \in Adapter /\ SameStream(tried, off) /\ Quiet(tried, off) /\ ~tried.building
          /\ tried.link = IF fails THEN "Failed" ELSE "Connecting"
      <4>1. CASE fails
        <5> DEFINE dead == [off EXCEPT !.link = "Failed"]
        <5>1. dead \in Adapter /\ dead.link = "Failed" /\ SameStream(dead, off) /\ Quiet(dead, off)
          BY <3>2 DEF Adapter, SameStream, Quiet
        <5>2. tried = HandleError(dead)
          BY <4>1
        <5> HIDE DEF dead, tried
        <5>3. tried \in Adapter
          BY <5>1, <5>2 DEF HandleError, Adapter
        <5>4. /\ tried.link = dead.link /\ ~tried.building
              /\ SameStream(tried, dead) /\ Quiet(tried, dead)
          BY <5>1, <5>2 DEF HandleError, Adapter, SameStream, Quiet
        <5> QED
          BY <4>1, <5>1, <5>3, <5>4 DEF SameStream, Quiet
      <4>2. CASE ~fails
        BY <3>2, <4>2 DEF Adapter, SameStream, Quiet
      <4> QED
        BY <4>1, <4>2
    <3> HIDE DEF tried
    <3>4. /\ m' \in Adapter /\ SameStream(m', tried) /\ Quiet(m', tried) /\ ~m'.building
          /\ m'.link = tried.link /\ m'.started = ~refused
      BY <3>1, <3>3 DEF Adapter, SameStream, Quiet
    <3> QED
      BY <3>1, <3>2, <3>3, <3>4 DEF SameStream, Quiet
  <2>2. Sound(m') /\ LinkSound(m') /\ Attached(m')
    BY <1>1, <2>1 DEF IInv, Sound, Served, OpensForOne, LinkSound, Attached, SameStream, Quiet
  <2>3. Session!Connect
    BY <2>1 DEF Session!Connect, SameStream
  <2> QED
    BY <1>1, <1>2, <2>1, <2>2, <2>3, Primed
       DEF GoodStep, NothingUnasked, SessionStep, Session!Next, ConnectAdapter
<1>3. ASSUME NEW saved \in BOOLEAN, DisconnectAdapter(saved) PROVE GoodStep
  <2> DEFINE k == PersistCandleCache(m, saved)
             unlinked == Unlinked(k, "Closed")
  <2>1. k \in Adapter /\ Keeps(k, m) /\ Quiet(k, m)
    BY <1>1, PersistSound
  <2>2. /\ m' = [unlinked EXCEPT
                   !.history = "off", !.replays = [key \in CacheKeys |-> 0],
                   !.backfilling = FALSE, !.connected = FALSE, !.failed = FALSE,
                   !.building = FALSE, !.started = FALSE]
        /\ charts' = charts /\ m.link \notin {"Off", "Closed"}
    BY <1>3 DEF DisconnectAdapter
  <2> HIDE DEF k
  <2>3. unlinked \in Adapter /\ unlinked.link = "Closed" /\ unlinked.streamed = {} /\ unlinked.wanted = k.wanted
        /\ unlinked.pending = k.pending
    BY <2>1 DEF Unlinked, Adapter
  <2> HIDE DEF unlinked
  <2>4. /\ m' \in Adapter /\ m'.link = "Closed" /\ m'.streamed = {} /\ m'.wanted = m.wanted
        /\ ~m'.building /\ m'.history = "off" /\ m'.pending = m.pending
        /\ m'.replays = [key \in CacheKeys |-> 0]
    <3>1. [key \in CacheKeys |-> 0] \in [CacheKeys -> Nat]
      OBVIOUS
    <3>2. m' \in Adapter
      BY <2>2, <2>3, <3>1 DEF Adapter
    <3>3. /\ m'.link = unlinked.link /\ m'.streamed = unlinked.streamed /\ m'.wanted = unlinked.wanted
          /\ m'.building = FALSE /\ m'.history = "off" /\ m'.pending = unlinked.pending
          /\ m'.replays = [key \in CacheKeys |-> 0]
      BY <2>2, <2>3 DEF Adapter
    <3>4. k.wanted = m.wanted /\ k.pending = m.pending
      BY <2>1 DEF Keeps, SameStream, Quiet
    <3> QED
      BY <2>3, <3>2, <3>3, <3>4
  <2>5. Sound(m') /\ LinkSound(m') /\ Attached(m')
    BY <2>4 DEF Sound, Served, OpensForOne, LinkSound, Attached
  <2>6. m.replays \in [CacheKeys -> Nat] /\ m.link \in Session!Phases
    BY <1>1 DEF Adapter, Session!Phases
  <2>7. NothingUnasked
    BY <2>4, <2>6 DEF NothingUnasked, Asks
  <2>8. Session!Shut
    BY <2>2, <2>4, <2>6 DEF Session!Shut
  <2> QED
    BY <1>1, <2>2, <2>5, <2>7, <2>8, Primed DEF GoodStep, SessionStep, Session!Next
<1>4. CASE Restart
  <2>1. m' = NewAdapter(m.disk) /\ charts' = [n \in ChartNames |-> None]
    BY <1>4 DEF Restart
  <2>2. m.disk \in [CacheKeys -> SUBSET Keys]
    BY <1>1 DEF Adapter
  <2>3. m' \in Adapter
    BY <2>1, <2>2, ShapesAssumption DEF NewAdapter, Adapter
  <2>4. m'.link = "Off" /\ m'.streamed = {} /\ m'.history = "off" /\ ~m'.building
    BY <2>1 DEF NewAdapter
  <2>5. Sound(m') /\ LinkSound(m') /\ Attached(m')
    BY <2>3, <2>4 DEF Sound, Served, OpensForOne, LinkSound, Attached
  <2>6. charts' \in [ChartNames -> Shapes \cup {None}]
    BY <2>1
  <2> QED
    BY <2>4, <2>5, <2>6, Primed DEF GoodStep, NothingUnasked, SessionStep
<1> QED
  BY <1>2, <1>3, <1>4 DEF MainWindow

\* A callback that takes data or ends something: the link and the stream stay.
LEMMA CallbackGood ==
  ASSUME IInv, Sound(m'), m'.link = m.link, m'.started = m.started,
         SameStream(m', m), SameChoice(m', m),
         m.link = "Live" => m'.connected /\ ~m'.failed,
         charts' = charts
  PROVE  IInv' /\ SessionStep
<1>1. LinkSound(m')
  BY DEF IInv, LinkSound, SameStream
<1>2. Attached(m')
  BY DEF IInv, Attached, SameStream, SameChoice
<1>3. SessionStep
  BY DEF SessionStep, SameStream
<1> QED
  BY <1>1, <1>2, <1>3, Primed DEF IInv

LEMMA ShownIs ==
  ASSUME NEW k \in Adapter
  PROVE  LET r == Shown(k)
         IN  /\ r \in Adapter /\ r.link = k.link /\ r.started = k.started /\ SameStream(r, k)
             /\ SameChoice(r, k) /\ Quiet(r, k) /\ r.building = k.building
             /\ r.candles = k.candles /\ r.connected /\ ~r.failed
  BY DEF Shown, Adapter, SameStream, SameChoice, Quiet

LEMMA UnlinkedIs ==
  ASSUME NEW k \in Adapter, NEW link \in {"Lost", "Failed"}
  PROVE  LET r == Unlinked(k, link)
         IN  /\ r \in Adapter /\ r.link = link /\ r.streamed = {} /\ r.wanted = k.wanted
             /\ r.started = k.started /\ Quiet(r, k) /\ r.building = k.building
<1>1. [r \in RemoteRoots |-> 0] \in [RemoteRoots -> Nat]
  OBVIOUS
<1> QED
  BY <1>1 DEF Unlinked, Adapter, Quiet

LEMMA ConnectedGood ==
  ASSUME IInv, NEW covered \in BOOLEAN, Connected(covered)
  PROVE  GoodStep
<1> DEFINE k == [m EXCEPT !.link = "Live", !.connected = TRUE, !.failed = FALSE]
           told == ResolvePendingSymbol(k, covered)
<1>1. /\ m \in Adapter /\ m.link = "Connecting" /\ m.started /\ m.streamed = {}
      /\ m.wanted \in Contracts \cup {None} /\ charts' = charts
  BY DEF IInv, Sound, LinkSound, Connected, Adapter
<1>2. m' = [told EXCEPT !.streamed = @ \cup ({told.wanted} \ {None})]
  BY <1>1 DEF Connected, HandleConnected, Adapter
<1>3. /\ k \in Adapter /\ k.link = "Live" /\ k.started /\ k.connected /\ ~k.failed
      /\ SameStream(k, m) /\ Quiet(k, m) /\ k.building = m.building /\ k.chartWanted = m.chartWanted
  BY <1>1 DEF Adapter, SameStream, Quiet
<1> HIDE DEF k
<1>4. Sound(k)
  BY <1>3 DEF IInv, Sound, Served, OpensForOne, Quiet
<1>5. /\ Sound(told) /\ SameLink(told, k) /\ Streams(told, k) /\ told.chartWanted = k.chartWanted
      /\ Ready(k) /\ told.symbol \in Resolvable => told.symbol \in told.streamed
      /\ ~k.chartWanted => Quiet(told, k)
  BY <1>4, ResolveSound
<1> HIDE DEF told
<1>6. told.wanted \in Contracts \cup {None} /\ told.failed \in BOOLEAN /\ told \in Adapter
  BY <1>5 DEF Sound, Adapter
<1>7. /\ m' \in Adapter /\ m'.link = told.link /\ m'.started = told.started
      /\ m'.connected = told.connected /\ m'.failed = told.failed /\ m'.wanted = told.wanted
      /\ m'.streamed = told.streamed \cup ({told.wanted} \ {None}) /\ m'.symbol = told.symbol
      /\ Quiet(m', told) /\ m'.building = told.building /\ m'.chartWanted = told.chartWanted
  <2>1. told.streamed \cup ({told.wanted} \ {None}) \in SUBSET Contracts
    BY <1>6 DEF Adapter
  <2> QED
    BY <1>2, <1>6, <2>1 DEF Adapter, Quiet
<1>8. Sound(m') /\ LinkSound(m')
  BY <1>3, <1>5, <1>7 DEF Sound, Served, OpensForOne, LinkSound, SameLink, Quiet
<1>9. Attached(m')
  <2>1. Ready(k)
    BY <1>3 DEF Ready
  <2> QED
    BY <1>3, <1>5, <1>6, <1>7, <2>1 DEF Attached, SameLink
<1>10. SessionStep
  <2>1. None \notin Contracts
    BY NamesAssumption DEF Names
  <2>2. told.wanted \in Contracts \cup {m.wanted} /\ told.streamed \in {{}, {told.wanted} \ {None}}
    BY <1>1, <1>3, <1>5, <2>1 DEF Streams, SameStream
  <2>3. m'.streamed = {m'.wanted} \ {None} /\ m'.wanted \in Contracts \cup {m.wanted}
    BY <1>7, <2>2
  <2>4. Session!GoLive
    BY <1>1, <1>3, <1>5, <1>7, <2>3 DEF Session!GoLive, SameLink
  <2> QED
    BY <2>4 DEF SessionStep, Session!Next
<1>11. NothingUnasked
  <2>1. CASE m'.chartWanted
    BY <2>1 DEF NothingUnasked
  <2>2. CASE ~m'.chartWanted
    BY <1>1, <1>3, <1>5, <1>7, <2>2, QuietAsksNothing DEF Quiet
  <2> QED
    BY <2>1, <2>2
<1> QED
  BY <1>1, <1>8, <1>9, <1>10, <1>11, Primed DEF GoodStep, IInv

LEMMA FrontMonthGood ==
  ASSUME IInv, NEW r \in RemoteRoots, NEW ok \in BOOLEAN, NEW covered \in BOOLEAN,
         FrontMonthAnswer(r, ok, covered)
  PROVE  GoodStep
<1> DEFINE lookups == [m.lookups EXCEPT ![r] = @ - 1]
           answered == [m EXCEPT !.lookups = lookups]
           off == [answered EXCEPT !.resolving = FALSE]
           on == [answered EXCEPT !.resolving = FALSE, !.symbol = FrontMonth[r]]
<1>1. /\ m \in Adapter /\ m.link = "Live" /\ m.lookups[r] > 0 /\ charts' = charts /\ Sound(m)
      /\ charts \in [ChartNames -> Shapes \cup {None}]
  BY DEF IInv, Sound, FrontMonthAnswer
<1>2. m' = IF ok THEN Attach(on, covered) ELSE off
  BY DEF FrontMonthAnswer, HandleFrontMonth
<1>3. lookups \in [RemoteRoots -> Nat]
  BY <1>1 DEF Adapter
<1>4. FrontMonth[r] \in Contracts /\ FrontMonth[r] \in Names
  BY NamesAssumption DEF Roots, Names
<1> HIDE DEF lookups
<1>5. answered \in Adapter /\ Keeps(answered, m) /\ Quiet(answered, m) /\ answered.building = m.building
  BY <1>1, <1>3 DEF Adapter, Keeps, SameLink, SameStream, SameChoice, Quiet
<1> HIDE DEF answered
<1>6. /\ off \in Adapter /\ SameLink(off, m) /\ SameStream(off, m) /\ Quiet(off, m)
      /\ off.building = m.building /\ off.symbol = m.symbol
  <2>1. /\ off \in Adapter /\ SameLink(off, answered) /\ SameStream(off, answered) /\ Quiet(off, answered)
        /\ off.building = answered.building /\ off.symbol = answered.symbol
    BY <1>5, ZenonT(60) DEF Adapter, SameLink, SameStream, Quiet
  <2> QED
    BY <1>5, <2>1 DEF Keeps, SameLink, SameStream, SameChoice, Quiet
<1>7. /\ on \in Adapter /\ SameLink(on, m) /\ SameStream(on, m) /\ Quiet(on, m)
      /\ on.building = m.building /\ on.symbol \in Contracts /\ on.chartWanted = m.chartWanted
  <2>1. /\ on \in Adapter /\ SameLink(on, answered) /\ SameStream(on, answered) /\ Quiet(on, answered)
        /\ on.building = answered.building /\ on.symbol \in Contracts
        /\ on.chartWanted = answered.chartWanted
    BY <1>4, <1>5 DEF Adapter, SameLink, SameStream, Quiet
  <2> QED
    BY <1>5, <2>1 DEF Keeps, SameLink, SameStream, SameChoice, Quiet
<1> HIDE DEF off, on
<1>8. CASE ok
  <2>1. Sound(on)
    BY <1>1, <1>7 DEF Sound, Served, OpensForOne, Quiet
  <2>2. /\ Sound(m') /\ SameLink(m', on) /\ SameChoice(m', on)
        /\ m'.wanted = on.symbol /\ m'.streamed = on.streamed \cup {on.symbol}
        /\ ~on.chartWanted => Quiet(m', on)
    BY <1>2, <1>7, <1>8, <2>1, AttachSound
  <2>3. SameLink(m', m) /\ Streams(m', m) /\ m'.symbol \in m'.streamed
    BY <1>1, <1>7, <2>2 DEF SameLink, SameStream, SameChoice, Streams
  <2>4. NothingUnasked
    <3>1. CASE m'.chartWanted
      BY <3>1 DEF NothingUnasked
    <3>2. CASE ~m'.chartWanted
      BY <1>1, <1>7, <2>2, <3>2, QuietAsksNothing DEF Quiet, SameChoice
    <3> QED
      BY <3>1, <3>2
  <2> QED
    BY <1>1, <2>2, <2>3, <2>4, SameLinkGood DEF GoodStep
<1>9. CASE ~ok
  <2>1. m' = off
    BY <1>2, <1>9
  <2>2. Sound(off)
    BY <1>1, <1>6 DEF Sound, Served, OpensForOne, Quiet
  <2>3. Streams(m', m) /\ SameLink(m', m) /\ Quiet(m', m) /\ Sound(m')
    BY <1>6, <2>1, <2>2 DEF Streams
  <2>4. m.link = "Live" /\ m'.symbol \in Resolvable => m'.symbol \in m'.streamed
    BY <1>6, <2>1 DEF IInv, Attached, SameStream
  <2> QED
    BY <1>1, <2>3, <2>4, SameLinkGood, QuietAsksNothing DEF GoodStep
<1> QED
  BY <1>8, <1>9

LEMMA TickerGood == IInv /\ Ticker => GoodStep
<1> SUFFICES ASSUME IInv, Ticker PROVE GoodStep
  OBVIOUS
<1>1. /\ m \in Adapter /\ Sound(m) /\ charts \in [ChartNames -> Shapes \cup {None}]
      /\ m.streamed \in SUBSET Contracts
  BY DEF IInv, Sound, Adapter
<1>2. CASE Lost \/ Error
  <2> DEFINE lost == Unlinked(m, "Lost")
             dead == Unlinked(m, "Failed")
  <2>1. /\ \/ m.link = "Live" /\ m' = HandleStatus(lost)
           \/ m.link \in {"Connecting", "Live"} /\ m' = HandleError(dead)
        /\ charts' = charts
    BY <1>2 DEF Lost, Error
  <2>2. /\ lost \in Adapter /\ lost.link = "Lost" /\ lost.streamed = {} /\ lost.wanted = m.wanted
        /\ lost.started = m.started /\ Quiet(lost, m) /\ lost.building = m.building
        /\ dead \in Adapter /\ dead.link = "Failed" /\ dead.streamed = {} /\ dead.wanted = m.wanted
        /\ Quiet(dead, m) /\ dead.building = m.building
    BY <1>1, UnlinkedIs
  <2> HIDE DEF lost, dead
  <2>3. CASE m.link = "Live" /\ m' = HandleStatus(lost)
    <3>1. /\ m' \in Adapter /\ m'.link = "Lost" /\ m'.streamed = {} /\ m'.wanted = m.wanted
          /\ m'.started = m.started /\ Quiet(m', m) /\ m'.building = m.building
      BY <2>2, <2>3 DEF HandleStatus, Adapter, Quiet
    <3>2. Sound(m') /\ LinkSound(m') /\ Attached(m')
      BY <1>1, <2>3, <3>1 DEF IInv, Sound, Served, OpensForOne, LinkSound, Attached, Quiet
    <3>3. Session!Lose
      BY <2>3, <3>1 DEF Session!Lose
    <3> QED
      BY <1>1, <2>1, <3>1, <3>2, <3>3, Primed, QuietAsksNothing
         DEF GoodStep, SessionStep, Session!Next
  <2>4. CASE m.link \in {"Connecting", "Live"} /\ m' = HandleError(dead)
    <3>1. /\ m' \in Adapter /\ m'.link = "Failed" /\ m'.streamed = {} /\ m'.wanted = m.wanted
          /\ Quiet(m', m) /\ ~m'.building
      BY <2>2, <2>4, ZenonT(60) DEF HandleError, Adapter, Quiet
    <3>2. Sound(m') /\ LinkSound(m') /\ Attached(m')
      BY <1>1, <3>1 DEF Sound, Served, OpensForOne, LinkSound, Attached, Quiet
    <3>3. Session!Break
      BY <2>4, <3>1 DEF Session!Break
    <3> QED
      BY <1>1, <2>1, <3>1, <3>2, <3>3, Primed, QuietAsksNothing
         DEF GoodStep, SessionStep, Session!Next
  <2> QED
    BY <2>1, <2>3, <2>4
<1>3. CASE Reconnecting
  <2>1. /\ m' \in Adapter /\ m.link = "Lost" /\ m'.link = "Connecting" /\ SameStream(m', m)
        /\ m'.started = m.started /\ Quiet(m', m) /\ m'.building = m.building /\ charts' = charts
    BY <1>1, <1>3 DEF Reconnecting, HandleStatus, Adapter, SameStream, Quiet
  <2>2. Sound(m') /\ LinkSound(m') /\ Attached(m')
    BY <1>1, <2>1 DEF IInv, Sound, Served, OpensForOne, LinkSound, Attached, SameStream, Quiet
  <2>3. Session!Retry
    BY <2>1 DEF Session!Retry, SameStream
  <2> QED
    BY <1>1, <2>1, <2>2, <2>3, Primed, QuietAsksNothing DEF GoodStep, SessionStep, Session!Next
<1>4. ASSUME NEW covered \in BOOLEAN, NEW saved \in BOOLEAN, Trade(covered, saved)
      PROVE  GoodStep
  <2> DEFINE shown == Shown(m)
             added == AddCandle(shown, Key(m))
  <2>1. /\ m.symbol \in m.streamed /\ charts' = charts
        /\ m' = shown \/ m' = PersistCandleCache(added, saved)
    BY <1>4 DEF Trade
  <2>2. Key(m) \in Keys
    BY <1>1, <2>1 DEF Keys, Key, Adapter
  <2>3. /\ shown \in Adapter /\ shown.link = m.link /\ shown.started = m.started /\ SameStream(shown, m)
        /\ SameChoice(shown, m) /\ Quiet(shown, m) /\ shown.building = m.building
        /\ shown.connected /\ ~shown.failed
    BY <1>1, ShownIs
  <2> HIDE DEF shown
  <2>4. /\ added \in Adapter /\ Keeps(added, shown) /\ Quiet(added, shown)
        /\ added.building = shown.building /\ added.failed = shown.failed
    BY <2>2, <2>3, AddCandleSound
  <2> HIDE DEF added
  <2>5. /\ m' \in Adapter /\ Keeps(m', shown) /\ Quiet(m', shown) /\ m'.building = shown.building
        /\ m'.failed = shown.failed
    <3>1. CASE m' = shown
      BY <2>3, <3>1 DEF Keeps, SameLink, SameStream, SameChoice, Quiet
    <3>2. CASE m' = PersistCandleCache(added, saved)
      BY <2>4, <3>2, PersistSound DEF Keeps, SameLink, SameStream, SameChoice, Quiet
    <3> QED
      BY <2>1, <3>1, <3>2
  <2>6. /\ m'.link = m.link /\ m'.started = m.started /\ SameStream(m', m) /\ SameChoice(m', m)
        /\ Quiet(m', m) /\ m'.building = m.building /\ m'.connected /\ ~m'.failed
    BY <2>3, <2>5 DEF Keeps, SameLink, SameStream, SameChoice, Quiet
  <2>7. Sound(m')
    BY <1>1, <2>5, <2>6 DEF Sound, Served, OpensForOne, Quiet
  <2> QED
    BY <1>1, <2>1, <2>6, <2>7, CallbackGood, QuietAsksNothing DEF GoodStep
<1>5. ASSUME Bbo \/ \E contract \in Contracts : OrderBook(contract) PROVE GoodStep
  <2>1. /\ charts' = charts
        /\ \E dom \in SUBSET Contracts : m' = [Shown(m) EXCEPT !.dom = dom]
    <3>1. CASE Bbo
      <4>1. Shown(m).dom \cup {m.symbol} \in SUBSET Contracts
        BY <1>1, <3>1 DEF Bbo, Shown, Adapter
      <4> QED
        BY <3>1, <4>1 DEF Bbo
    <3>2. ASSUME NEW contract \in Contracts, OrderBook(contract)
          PROVE  charts' = charts /\ \E dom \in SUBSET Contracts : m' = [Shown(m) EXCEPT !.dom = dom]
      <4>1. {contract} \in SUBSET Contracts
        OBVIOUS
      <4> QED
        BY <3>2, <4>1 DEF OrderBook
    <3> QED
      BY <1>5, <3>1, <3>2
  <2> DEFINE shown == Shown(m)
  <2>2. PICK dom \in SUBSET Contracts : m' = [shown EXCEPT !.dom = dom]
    BY <2>1
  <2>3. /\ shown \in Adapter /\ shown.link = m.link /\ shown.started = m.started /\ SameStream(shown, m)
        /\ SameChoice(shown, m) /\ Quiet(shown, m) /\ shown.building = m.building
        /\ shown.connected /\ ~shown.failed
    BY <1>1, ShownIs
  <2> HIDE DEF shown
  <2>4. /\ m' \in Adapter /\ m'.link = m.link /\ m'.started = m.started /\ SameStream(m', m)
        /\ SameChoice(m', m) /\ Quiet(m', m) /\ m'.building = m.building
        /\ m'.connected /\ ~m'.failed
    BY <2>2, <2>3 DEF Adapter, SameStream, SameChoice, Quiet
  <2>5. Sound(m')
    BY <1>1, <2>4 DEF Sound, Served, OpensForOne, Quiet
  <2> QED
    BY <1>1, <2>1, <2>4, <2>5, CallbackGood, QuietAsksNothing DEF GoodStep
<1> QED
  BY <1>2, <1>3, <1>4, <1>5, ConnectedGood, FrontMonthGood DEF Ticker

-----------------------------------------------------------------------------
(* The history plant and the whole system *)

LEMMA HistoryOffIs ==
  ASSUME NEW k \in Adapter
  PROVE  LET r == HistoryOff(k)
         IN  /\ r \in Adapter /\ Keeps(r, k) /\ r.failed = k.failed /\ r.building = k.building
             /\ r.history = "off" /\ r.pending = k.pending /\ \A key \in CacheKeys : r.replays[key] = 0
<1>1. [key \in CacheKeys |-> 0] \in [CacheKeys -> Nat]
  OBVIOUS
<1> QED
  BY <1>1 DEF HistoryOff, Adapter, Keeps, SameLink, SameStream, SameChoice

\* A step that ends with the report of a history request.
LEMMA ReportGood ==
  ASSUME IInv, NEW k \in Adapter, NEW ok \in BOOLEAN, NEW saved \in BOOLEAN,
         Keeps(k, m), k.failed = m.failed, k.pending = m.pending,
         k.history # "opening", \A key \in CacheKeys : k.replays[key] <= m.replays[key],
         m' = HandleHistoryFinished(k, ok, saved), charts' = charts
  PROVE  GoodStep
<1>1. m \in Adapter /\ m.replays \in [CacheKeys -> Nat]
  BY DEF IInv, Sound, Adapter
<1>2. m' \in Adapter /\ Keeps(m', k) /\ Quiet(m', k) /\ ~m'.building /\ m'.failed = k.failed
  BY FinishedSound
<1>3. Sound(m')
  BY <1>2 DEF Sound, Served, OpensForOne, Quiet
<1>4. /\ m'.link = m.link /\ m'.started = m.started /\ SameStream(m', m) /\ SameChoice(m', m)
      /\ m'.connected = m.connected /\ m'.failed = m.failed
  BY <1>2 DEF Keeps, SameLink, SameStream, SameChoice
<1>5. m.link = "Live" => m'.connected /\ ~m'.failed
  BY <1>4 DEF IInv, Attached
<1>6. IInv' /\ SessionStep
  BY <1>3, <1>4, <1>5, CallbackGood
<1>7. k.replays \in [CacheKeys -> Nat]
  BY DEF Adapter
<1>8. ~ \E key \in CacheKeys : m'.replays[key] > m.replays[key]
  BY <1>1, <1>2, <1>7 DEF Quiet
<1>9. NothingUnasked
  BY <1>2, <1>8 DEF NothingUnasked, Asks, Quiet
<1> QED
  BY <1>6, <1>9 DEF GoodStep

LEMMA LoggedInGood ==
  ASSUME IInv, HistoryLoggedIn
  PROVE  GoodStep
<1> DEFINE replays == [m.replays EXCEPT ![m.pending] = @ + 1]
<1>1. m \in Adapter /\ m.history = "opening" /\ m.pending \in CacheKeys /\ charts' = charts
  BY DEF IInv, Sound, OpensForOne, HistoryLoggedIn
<1>2. m' = [m EXCEPT !.history = "live", !.replays = replays, !.counted = FALSE,
                     !.backfilling = TRUE, !.failed = FALSE]
  BY <1>1 DEF HistoryLoggedIn, HandleStatus, Adapter
<1>3. replays \in [CacheKeys -> Nat] /\ replays[m.pending] > 0
  BY <1>1 DEF Adapter
<1> HIDE DEF replays
<1>4. m' \in Adapter
  BY <1>1, <1>2, <1>3 DEF Adapter
<1>5. /\ m'.link = m.link /\ m'.started = m.started /\ SameStream(m', m) /\ SameChoice(m', m)
      /\ m'.connected = m.connected /\ ~m'.failed /\ m'.history = "live" /\ m'.pending = m.pending
      /\ m'.replays = replays
  BY <1>1, <1>2 DEF Adapter, SameStream, SameChoice
<1>6. Sound(m')
  BY <1>1, <1>3, <1>4, <1>5 DEF Sound, Served, OpensForOne
<1>7. m.link = "Live" => m'.connected /\ ~m'.failed
  BY <1>5 DEF IInv, Attached
<1>8. IInv' /\ SessionStep
  BY <1>1, <1>5, <1>6, <1>7, CallbackGood
<1>9. NothingUnasked
  BY <1>1, <1>5 DEF NothingUnasked, Asks
<1> QED
  BY <1>8, <1>9 DEF GoodStep

LEMMA BarGood ==
  ASSUME IInv, NEW key \in Keys, HistoricalBar(key)
  PROVE  GoodStep
<1> DEFINE shown == Shown(m)
           k == [shown EXCEPT !.building = TRUE, !.counted = TRUE]
<1>1. m \in Adapter /\ m.history = "live" /\ m.replays[key] > 0 /\ charts' = charts
  BY DEF IInv, Sound, HistoricalBar
<1>2. m' = AddCandle(k, key)
  BY DEF HistoricalBar
<1>3. key \in CacheKeys
  BY DEF Keys, CacheKeys, Names
<1>4. /\ shown \in Adapter /\ shown.link = m.link /\ shown.started = m.started /\ SameStream(shown, m)
      /\ SameChoice(shown, m) /\ Quiet(shown, m) /\ shown.connected /\ ~shown.failed
  BY <1>1, ShownIs
<1> HIDE DEF shown
<1>5. /\ k \in Adapter /\ k.link = shown.link /\ k.started = shown.started /\ SameStream(k, shown)
      /\ SameChoice(k, shown) /\ Quiet(k, shown) /\ k.connected /\ ~k.failed
  BY <1>4 DEF Adapter, SameStream, SameChoice, Quiet
<1> HIDE DEF k
<1>6. m' \in Adapter /\ Keeps(m', k) /\ Quiet(m', k) /\ m'.failed = k.failed
  BY <1>2, <1>5, AddCandleSound
<1>7. /\ m'.link = m.link /\ m'.started = m.started /\ SameStream(m', m) /\ SameChoice(m', m)
      /\ Quiet(m', m) /\ m'.connected /\ ~m'.failed
  BY <1>4, <1>5, <1>6 DEF Keeps, SameLink, SameStream, SameChoice, Quiet
<1>8. Sound(m')
  BY <1>1, <1>3, <1>6, <1>7 DEF Sound, Served, OpensForOne, Quiet
<1> QED
  BY <1>1, <1>7, <1>8, CallbackGood, QuietAsksNothing DEF GoodStep

LEMMA HistoryGood == IInv /\ History => GoodStep
<1> SUFFICES ASSUME IInv, History PROVE GoodStep
  OBVIOUS
<1>1. m \in Adapter /\ m.replays \in [CacheKeys -> Nat] /\ m.counted \in BOOLEAN
  BY DEF IInv, Sound, Adapter
<1>2. ASSUME NEW key \in CacheKeys, NEW saved \in BOOLEAN, EndOfReplay(key, saved)
      PROVE  GoodStep
  <2> DEFINE replays == [m.replays EXCEPT ![key] = @ - 1]
             k == [m EXCEPT !.replays = replays]
  <2>1. /\ m.history = "live" /\ m.replays[key] > 0 /\ charts' = charts
        /\ m' = HandleHistoryFinished(k, TRUE, saved)
    BY <1>2 DEF EndOfReplay
  <2>2. replays \in [CacheKeys -> Nat] /\ \A other \in CacheKeys : replays[other] <= m.replays[other]
    BY <1>1, <2>1
  <2> HIDE DEF replays
  <2>3. /\ k \in Adapter /\ Keeps(k, m) /\ k.failed = m.failed /\ k.pending = m.pending
        /\ k.history = "live" /\ k.replays = replays
    BY <1>1, <2>1, <2>2 DEF Adapter, Keeps, SameLink, SameStream, SameChoice
  <2> HIDE DEF k
  <2> QED
    BY <2>1, <2>2, <2>3, ReportGood
<1>3. ASSUME NEW saved \in BOOLEAN, HistoryTimeout(saved) PROVE GoodStep
  <2>1. /\ m.history = "live" /\ charts' = charts
        /\ m' = HandleHistoryFinished(m, m.counted, saved)
    BY <1>3 DEF HistoryTimeout
  <2>2. Keeps(m, m) /\ \A key \in CacheKeys : m.replays[key] <= m.replays[key]
    BY <1>1 DEF Keeps, SameLink, SameStream, SameChoice
  <2> QED
    BY <1>1, <2>1, <2>2, ReportGood
<1>4. CASE HistoryFailed \/ HistoryClosed
  <2> DEFINE k == HistoryOff(m)
  <2>1. /\ charts' = charts
        /\ \/ m' = HandleHistoryFinished(k, FALSE, FALSE)
           \/ m.history = "orphan" /\ m' = k
    BY <1>4 DEF HistoryFailed, HistoryClosed
  <2>2. /\ k \in Adapter /\ Keeps(k, m) /\ k.failed = m.failed /\ k.building = m.building
        /\ k.history = "off" /\ k.pending = m.pending /\ \A key \in CacheKeys : k.replays[key] = 0
    BY <1>1, HistoryOffIs
  <2> HIDE DEF k
  <2>3. \A key \in CacheKeys : k.replays[key] <= m.replays[key]
    BY <1>1, <2>2
  <2>4. CASE m' = HandleHistoryFinished(k, FALSE, FALSE)
    BY <2>1, <2>2, <2>3, <2>4, ReportGood
  <2>5. CASE m.history = "orphan" /\ m' = k
    <3>1. Sound(m')
      BY <2>2, <2>5 DEF IInv, Sound, Served, OpensForOne
    <3>2. m.link = "Live" => m'.connected /\ ~m'.failed
      BY <2>2, <2>5 DEF IInv, Attached, Keeps, SameLink
    <3>3. IInv' /\ SessionStep
      BY <2>1, <2>2, <2>5, <3>1, <3>2, CallbackGood DEF Keeps, SameLink
    <3>4. NothingUnasked
      BY <2>2, <2>5 DEF NothingUnasked, Asks
    <3> QED
      BY <3>3, <3>4 DEF GoodStep
  <2> QED
    BY <2>1, <2>4, <2>5
<1> QED
  BY <1>2, <1>3, <1>4, LoggedInGood, BarGood DEF History

LEMMA InitGood == Init => IInv
<1> SUFFICES ASSUME Init PROVE IInv
  OBVIOUS
<1>1. m = NewAdapter([key \in CacheKeys |-> {}]) /\ charts = [n \in ChartNames |-> None]
  BY DEF Init
<1>2. m \in Adapter
  BY <1>1, ShapesAssumption DEF NewAdapter, Adapter
<1>3. m.link = "Off" /\ m.streamed = {} /\ m.history = "off" /\ ~m.building
  BY <1>1 DEF NewAdapter
<1> QED
  BY <1>1, <1>2, <1>3 DEF IInv, Sound, Served, OpensForOne, LinkSound, Attached

LEMMA StepGood == IInv /\ [Next]_vars => GoodStep
<1> SUFFICES ASSUME IInv, [Next]_vars PROVE GoodStep
  OBVIOUS
<1>1. CASE UNCHANGED vars
  <2>1. m' = m /\ charts' = charts /\ m \in Adapter
    BY <1>1 DEF vars, IInv, Sound
  <2>2. IInv'
    BY <2>1 DEF IInv, Sound, Served, OpensForOne, LinkSound, Attached
  <2>3. NothingUnasked
    BY <2>1, QuietAsksNothing DEF Quiet
  <2> QED
    BY <2>1, <2>2, <2>3 DEF GoodStep, SessionStep
<1> QED
  BY <1>1, MainWindowGood, WindowsGood, TickerGood, HistoryGood DEF Next

-----------------------------------------------------------------------------
(* The series, for a set s of keys that may be mixed                         *)

\* What is remembered and in the files is its own, but for the keys of s.
Stored(k, s) ==
    \A key \in CacheKeys : key \notin s => k.memory[key] \subseteq {key} /\ k.disk[key] \subseteq {key}

\* Only candles that a chart shows are to be saved.
Wanted(k) == k.dirty => k.chartWanted /\ k.symbol # None /\ k.candles # {}

\* What is shown is its own, and remembered while it is to be saved.
Shows(k, s) ==
    Key(k) \notin s => k.candles \subseteq {Key(k)} /\ (k.dirty => k.memory[Key(k)] = k.candles)

Loose(k, s) == k \in Adapter /\ Stored(k, s) /\ Wanted(k)
Clean(k, s) == Loose(k, s) /\ Shows(k, s)

SeriesInv == Clean(m, spoiled)

SameSeries(r, k) ==
    r.candles = k.candles /\ r.memory = k.memory /\ r.disk = k.disk /\ r.dirty = k.dirty

Alike(r, k) ==
    /\ SameSeries(r, k)
    /\ r.symbol = k.symbol /\ r.shape = k.shape /\ r.chartWanted = k.chartWanted

\* Carried, of two records.
Carries(r, k) == Key(r) # Key(k) /\ k.candles # {} /\ r.candles = k.candles

LEMMA AlikeIs ==
  ASSUME NEW s, NEW k, NEW r \in Adapter, Alike(r, k)
  PROVE  (Loose(k, s) => Loose(r, s)) /\ (Clean(k, s) => Clean(r, s))
<1>1. Key(r) = Key(k)
  BY DEF Alike, Key
<1> QED
  BY <1>1 DEF Clean, Loose, Stored, Wanted, Shows, Alike, SameSeries

\* A series that is shown for a key that may be mixed can hold anything.
LEMMA SpoiledIsClean ==
  ASSUME NEW s, NEW k, Loose(k, s)
  PROVE  Clean(k, s \cup {Key(k)})
  BY DEF Clean, Loose, Stored, Shows

\* Without candles nothing is mixed, and nothing is to be saved.
LEMMA EmptyIsClean ==
  ASSUME NEW s, NEW k, Loose(k, s), k.candles = {}
  PROVE  Clean(k, s)
  BY DEF Clean, Loose, Wanted, Shows

LEMMA PersistClean ==
  ASSUME NEW s, NEW k, Clean(k, s), NEW saved \in BOOLEAN
  PROVE  LET r == PersistCandleCache(k, saved) IN Clean(r, s) /\ r.candles = k.candles
<1> DEFINE r == PersistCandleCache(k, saved)
           disk == [k.disk EXCEPT ![Key(k)] = k.candles]
<1>1. k \in Adapter /\ r \in Adapter /\ Keeps(r, k)
  BY PersistSound DEF Clean, Loose
<1>2. CASE r = k
  BY <1>2
<1>3. CASE r # k
  <2>1. r = [k EXCEPT !.disk = disk, !.dirty = FALSE]
    BY <1>3 DEF PersistCandleCache
  <2>2. \A key \in CacheKeys : key \notin s => disk[key] \subseteq {key}
    BY <1>1 DEF Clean, Loose, Stored, Shows, Adapter
  <2> HIDE DEF disk, r
  <2>3. r.candles = k.candles /\ r.memory = k.memory /\ r.disk = disk /\ r.dirty = FALSE
    BY <1>1, <2>1 DEF Adapter
  <2>4. Key(r) = Key(k)
    BY <1>1 DEF Keeps, SameChoice, Key
  <2>5. Stored(r, s) /\ Wanted(r) /\ Shows(r, s)
    BY <2>2, <2>3, <2>4 DEF Clean, Loose, Stored, Wanted, Shows
  <2> QED
    BY <1>1, <2>3, <2>5 DEF Clean, Loose, r
<1> QED
  BY <1>2, <1>3

\* What is restored was remembered or saved for the key: it mends what is shown.
LEMMA RestoreClean ==
  ASSUME NEW s, NEW k, Loose(k, s)
  PROVE  LET r == RestoreCachedCandles(k) IN Loose(r, s) /\ (Alike(r, k) \/ Clean(r, s))
<1> DEFINE r == RestoreCachedCandles(k)
<1>1. k \in Adapter /\ r \in Adapter /\ Keeps(r, k)
  BY RestoreSound DEF Loose
<1>2. CASE r = k
  BY <1>2 DEF Alike, SameSeries
<1>3. CASE r # k
  <2> DEFINE remembered == IF k.chartWanted /\ k.symbol # None THEN k.memory[Key(k)] ELSE {}
             cached == IF k.chartWanted /\ k.symbol # None /\ remembered = {}
                       THEN k.disk[Key(k)] ELSE remembered
             memory == [k.memory EXCEPT ![Key(k)] = cached]
  <2>1. /\ r = [k EXCEPT !.candles = cached, !.memory = memory]
        /\ k.chartWanted /\ k.symbol # None /\ cached # {}
    BY <1>3 DEF RestoreCachedCandles
  <2>2. Key(k) \in CacheKeys
    BY <1>1, <2>1, KeyIsCacheKey
  <2>3. Key(k) \notin s => cached \subseteq {Key(k)}
    BY <2>2 DEF Loose, Stored
  <2> HIDE DEF cached
  <2>4. /\ \A key \in CacheKeys : key \notin s => memory[key] \subseteq {key}
        /\ memory[Key(k)] = cached
    BY <1>1, <2>2, <2>3 DEF Loose, Stored, Adapter
  <2> HIDE DEF memory, r
  <2>5. /\ r.candles = cached /\ r.memory = memory /\ r.disk = k.disk /\ r.dirty = k.dirty
    BY <1>1, <2>1 DEF Adapter
  <2>6. Key(r) = Key(k) /\ r.symbol = k.symbol /\ r.chartWanted = k.chartWanted
    BY <1>1 DEF Keeps, SameChoice, Key
  <2>7. Stored(r, s) /\ Wanted(r) /\ Shows(r, s)
    BY <2>1, <2>3, <2>4, <2>5, <2>6 DEF Loose, Stored, Wanted, Shows
  <2> QED
    BY <1>1, <2>7 DEF Clean, Loose, r
<1> QED
  BY <1>2, <1>3

\* A candle of the key that is shown, or of any key if the one shown may be mixed.
LEMMA AddClean ==
  ASSUME NEW s, NEW k, Clean(k, s), NEW key \in Keys, key = Key(k) \/ Key(k) \in s
  PROVE  LET r == AddCandle(k, key) IN Clean(r, s)
<1> DEFINE r == AddCandle(k, key)
           added == [k EXCEPT !.candles = @ \cup {key}]
<1>1. k \in Adapter /\ r \in Adapter /\ Keeps(r, k)
  BY AddCandleSound DEF Clean, Loose
<1>2. /\ added.chartWanted = k.chartWanted /\ added.symbol = k.symbol /\ added.shape = k.shape
      /\ added.candles = k.candles \cup {key} /\ added.memory = k.memory /\ added.disk = k.disk
      /\ added.dirty = k.dirty /\ added \in Adapter
  BY <1>1 DEF Adapter
<1>3. Key(added) = Key(k) /\ Key(r) = Key(k) /\ r.symbol = k.symbol /\ r.chartWanted = k.chartWanted
  BY <1>1, <1>2 DEF Key, Keeps, SameChoice
<1>4. r = RememberCandleCache(added)
  BY DEF AddCandle
<1> HIDE DEF added, r
<1>5. Key(k) \notin s => added.candles \subseteq {Key(k)}
  BY <1>2 DEF Clean, Shows
<1>6. CASE k.chartWanted /\ k.symbol # None
  <2> DEFINE memory == [k.memory EXCEPT ![Key(k)] = added.candles]
  <2>1. r = [added EXCEPT !.memory = memory, !.dirty = TRUE]
    BY <1>2, <1>3, <1>4, <1>6 DEF RememberCandleCache
  <2>2. Key(k) \in CacheKeys
    BY <1>1, <1>6, KeyIsCacheKey
  <2>3. /\ \A c \in CacheKeys : c \notin s => memory[c] \subseteq {c}
        /\ memory[Key(k)] = added.candles
    BY <1>1, <1>5, <2>2 DEF Clean, Loose, Stored, Adapter
  <2> HIDE DEF memory
  <2>4. r.candles = added.candles /\ r.memory = memory /\ r.disk = added.disk
    BY <1>2, <2>1 DEF Adapter
  <2>5. Stored(r, s) /\ Wanted(r) /\ Shows(r, s)
    BY <1>2, <1>3, <1>5, <1>6, <2>3, <2>4 DEF Clean, Loose, Stored, Wanted, Shows
  <2> QED
    BY <1>1, <2>5 DEF Clean, Loose, r
<1>7. CASE ~(k.chartWanted /\ k.symbol # None)
  <2>1. r = added /\ ~k.dirty
    BY <1>2, <1>4, <1>7 DEF RememberCandleCache, Clean, Loose, Wanted
  <2>2. Stored(r, s) /\ Wanted(r) /\ Shows(r, s)
    BY <1>2, <1>3, <1>5, <2>1 DEF Clean, Loose, Stored, Wanted, Shows
  <2> QED
    BY <1>1, <2>2 DEF Clean, Loose, r
<1> QED
  BY <1>6, <1>7

LEMMA FinishedClean ==
  ASSUME NEW s, NEW k, Clean(k, s), NEW ok \in BOOLEAN, NEW saved \in BOOLEAN
  PROVE  LET r == HandleHistoryFinished(k, ok, saved) IN Clean(r, s)
<1> DEFINE r == HandleHistoryFinished(k, ok, saved)
           off == [k EXCEPT !.building = FALSE, !.complete = ok, !.backfilling = FALSE]
<1>1. k \in Adapter
  BY DEF Clean, Loose
<1>2. off \in Adapter /\ Alike(off, k)
  BY <1>1, ZenonT(60) DEF Adapter, Alike, SameSeries
<1>3. r = off \/ r = PersistCandleCache(off, saved)
  BY DEF HandleHistoryFinished
<1> HIDE DEF off, r
<1>4. Clean(off, s)
  BY <1>2, AlikeIs
<1> QED
  BY <1>3, <1>4, PersistClean DEF r

\* A request, and an attempt that is reported as failed before it returns, leave
\* the candles alone.
LEMMA RequestAlike ==
  ASSUME NEW k \in Adapter, k.symbol # None
  PROVE  LET r == RequestTimeBarBackfill(k) IN Alike(r, k)
<1> DEFINE r == RequestTimeBarBackfill(k)
           asked == [k EXCEPT !.pending = Key(k), !.counted = FALSE, !.failed = FALSE]
           orphan == [asked EXCEPT !.history = "orphan"]
<1>1. asked \in Adapter
  BY KeyIsCacheKey DEF Adapter
<1>2. Alike(asked, k)
  BY DEF Adapter, Alike, SameSeries
<1>3. \/ r = [asked EXCEPT !.replays[Key(k)] = @ + 1, !.backfilling = TRUE]
      \/ r = [asked EXCEPT !.history = "opening"]
      \/ r = HandleHistoryFinished(orphan, FALSE, FALSE)
  BY DEF RequestTimeBarBackfill
<1> HIDE DEF asked, r
<1>4. orphan \in Adapter /\ Alike(orphan, asked)
  BY <1>1 DEF Adapter, Alike, SameSeries
<1> HIDE DEF orphan
<1>5. Alike(HandleHistoryFinished(orphan, FALSE, FALSE), orphan)
  BY <1>4, ZenonT(60) DEF HandleHistoryFinished, Adapter, Alike, SameSeries
<1>6. Alike(r, asked)
  <2>1. CASE r = HandleHistoryFinished(orphan, FALSE, FALSE)
    BY <1>4, <1>5, <2>1 DEF Alike, SameSeries
  <2>2. CASE r # HandleHistoryFinished(orphan, FALSE, FALSE)
    BY <1>1, <1>3, <2>2 DEF Adapter, Alike, SameSeries
  <2> QED
    BY <2>1, <2>2
<1> QED
  BY <1>2, <1>6 DEF Alike, SameSeries, r

LEMMA StartClean ==
  ASSUME NEW s, NEW k, Loose(k, s), Sound(k), NEW covered \in BOOLEAN
  PROVE  LET r == StartChartBackfill(k, covered)
         IN  Loose(r, s) /\ (Alike(r, k) \/ Clean(r, s))
<1> DEFINE r == StartChartBackfill(k, covered)
           restored == RestoreCachedCandles(k)
           full == [restored EXCEPT !.building = FALSE, !.complete = TRUE]
           asking == [restored EXCEPT !.complete = FALSE, !.building = TRUE]
<1>1. /\ Loose(restored, s) /\ (Alike(restored, k) \/ Clean(restored, s))
      /\ restored \in Adapter /\ restored.symbol = k.symbol /\ r \in Adapter
  BY RestoreClean, RestoreSound, StartSound DEF Loose, Keeps, SameChoice, Sound
<1>2. r = k \/ (k.symbol # None /\ (r = full \/ r = RequestTimeBarBackfill(asking)))
  BY DEF StartChartBackfill
<1> HIDE DEF restored, r
<1>3. full \in Adapter /\ Alike(full, restored)
  BY <1>1, ZenonT(60) DEF Adapter, Alike, SameSeries
<1>4. asking \in Adapter /\ Alike(asking, restored)
  BY <1>1, ZenonT(60) DEF Adapter, Alike, SameSeries
<1> HIDE DEF full, asking
<1>5. k.symbol # None => Alike(RequestTimeBarBackfill(asking), asking)
  BY <1>1, <1>4, RequestAlike DEF Alike
<1>6. r = k \/ Alike(r, restored)
  BY <1>2, <1>3, <1>4, <1>5 DEF Alike, SameSeries
<1>7. CASE r = k
  BY <1>7 DEF Alike, SameSeries, r
<1>8. CASE Alike(r, restored)
  <2>1. Loose(r, s) /\ (Clean(restored, s) => Clean(r, s))
    BY <1>1, <1>8, AlikeIs
  <2>2. Alike(restored, k) => Alike(r, k)
    BY <1>8 DEF Alike, SameSeries
  <2> QED
    BY <1>1, <2>1, <2>2 DEF r
<1> QED
  BY <1>6, <1>7, <1>8

LEMMA AttachClean ==
  ASSUME NEW s, NEW k, Loose(k, s), Sound(k), NEW covered \in BOOLEAN, k.symbol \in Contracts
  PROVE  LET r == Attach(k, covered)
         IN  /\ Loose(r, s) /\ (Alike(r, k) \/ Clean(r, s))
             /\ ~k.chartWanted => Alike(r, k)
<1> DEFINE r == Attach(k, covered)
           streaming == [k EXCEPT !.wanted = k.symbol, !.streamed = @ \cup {k.symbol}]
<1>1. k \in Adapter
  BY DEF Loose
<1>2. streaming \in Adapter /\ Alike(streaming, k) /\ streaming.building = k.building
  BY <1>1 DEF Adapter, Alike, SameSeries
<1>3. Quiet(streaming, k)
  BY <1>1 DEF Adapter, Quiet
<1>4. r = IF k.chartWanted THEN StartChartBackfill(streaming, covered) ELSE streaming
  BY DEF Attach
<1> HIDE DEF streaming, r
<1>5. Loose(streaming, s) /\ Sound(streaming)
  BY <1>2, <1>3, AlikeIs DEF Sound, Served, OpensForOne, Quiet
<1> DEFINE started == StartChartBackfill(streaming, covered)
<1>6. Loose(started, s) /\ (Alike(started, streaming) \/ Clean(started, s))
  BY <1>5, StartClean
<1> HIDE DEF started
<1>7. Alike(started, streaming) => Alike(started, k)
  BY <1>2 DEF Alike, SameSeries
<1>8. r = IF k.chartWanted THEN started ELSE streaming
  BY <1>4 DEF started
<1> QED
  BY <1>2, <1>5, <1>6, <1>7, <1>8 DEF r

\* A root becomes its front month: candles that late bars left go with it.
LEMMA FrontClean ==
  ASSUME NEW s, NEW k, Clean(k, s), NEW front, Loose(front, s), Sound(front),
         front.symbol \in Contracts, front.shape = k.shape, front.chartWanted = k.chartWanted,
         SameSeries(front, k), NEW covered \in BOOLEAN
  PROVE  LET r == Attach(front, covered)
         IN  /\ Loose(r, s) /\ (Clean(r, s) \/ Carries(r, k))
             /\ ~k.chartWanted => SameSeries(r, k) /\ r.shape = k.shape
<1> DEFINE r == Attach(front, covered)
<1>1. Loose(r, s) /\ (Alike(r, front) \/ Clean(r, s)) /\ (~front.chartWanted => Alike(r, front))
  BY AttachClean
<1> HIDE DEF r
<1>2. ASSUME Alike(r, front), ~Clean(r, s) PROVE Carries(r, k)
  <2>1. r.candles = k.candles /\ r.shape = k.shape /\ r.symbol = front.symbol
    BY <1>2 DEF Alike, SameSeries
  <2>2. k.candles # {}
    BY <1>1, <1>2, <2>1, EmptyIsClean
  <2>3. Key(r) # Key(k)
    <3>1. SUFFICES ASSUME Key(r) = Key(k) PROVE Clean(r, s)
      BY <1>2
    <3>2. Shows(r, s)
      BY <1>2, <3>1 DEF Clean, Shows, Alike, SameSeries
    <3> QED
      BY <1>1, <3>2 DEF Clean
  <2> QED
    BY <2>1, <2>2, <2>3 DEF Carries
<1>3. ~k.chartWanted => SameSeries(r, k) /\ r.shape = k.shape
  BY <1>1 DEF Alike, SameSeries
<1> QED
  BY <1>1, <1>2, <1>3 DEF r

LEMMA ResolveClean ==
  ASSUME NEW s, NEW k, Clean(k, s), Sound(k), NEW covered \in BOOLEAN
  PROVE  LET r == ResolvePendingSymbol(k, covered)
         IN  /\ Loose(r, s) /\ (Clean(r, s) \/ Carries(r, k))
             /\ ~k.chartWanted => SameSeries(r, k) /\ r.shape = k.shape
<1> DEFINE r == ResolvePendingSymbol(k, covered)
<1>1. /\ k \in Adapter /\ k.symbol \in Contracts \cup LocalRoots \cup RemoteRoots \cup {None}
      /\ Loose(k, s)
  BY DEF Clean, Loose, Adapter, Names, Roots
<1>2. CASE r = k
  BY <1>1, <1>2 DEF SameSeries
<1>3. CASE Ready(k) /\ k.symbol \in Contracts
  <2>1. k.symbol # None /\ k.symbol \notin LocalRoots /\ k.symbol \notin RemoteRoots
    BY <1>3, NamesAssumption DEF Names, Roots
  <2>2. r = Attach(k, covered)
    BY <1>3, <2>1 DEF ResolvePendingSymbol
  <2> QED
    BY <1>1, <1>3, <2>2, FrontClean DEF SameSeries
<1>4. CASE Ready(k) /\ k.symbol \in LocalRoots
  <2> DEFINE front == [k EXCEPT !.root = k.symbol, !.symbol = FrontMonth[k.symbol]]
  <2>1. k.symbol # None /\ k.symbol \notin Contracts /\ k.symbol \notin RemoteRoots
    BY <1>4, NamesAssumption DEF Names, Roots
  <2>2. r = Attach(front, covered)
    BY <1>4, <2>1 DEF ResolvePendingSymbol
  <2>3. FrontMonth[k.symbol] \in Contracts /\ k.symbol \in Names
    BY <1>4, NamesAssumption DEF Names, Roots
  <2>4. /\ front \in Adapter /\ front.building = k.building /\ front.chartWanted = k.chartWanted
        /\ front.symbol \in Contracts /\ front.shape = k.shape
    BY <1>1, <2>3 DEF Adapter, Names
  <2>5. SameSeries(front, k) /\ Quiet(front, k)
    BY <1>1 DEF Adapter, SameSeries, Quiet
  <2> HIDE DEF front, r
  <2>6. Sound(front)
    BY <2>4, <2>5 DEF Sound, Served, OpensForOne, Quiet
  <2>7. front.symbol # None
    BY <2>4, NamesAssumption DEF Names
  <2>8. Loose(front, s)
    BY <1>1, <2>4, <2>5, <2>7 DEF Loose, Stored, Wanted, SameSeries
  <2> QED
    BY <2>2, <2>4, <2>5, <2>6, <2>8, FrontClean DEF r
<1>5. CASE Ready(k) /\ k.symbol \in RemoteRoots /\ r # k
  <2>1. k.symbol # None /\ k.symbol \notin Contracts /\ k.symbol \notin LocalRoots
    BY <1>5, NamesAssumption DEF Names, Roots
  <2>2. r = [k EXCEPT !.resolving = TRUE, !.root = k.symbol, !.lookups[k.symbol] = @ + 1]
    BY <1>5, <2>1 DEF ResolvePendingSymbol
  <2>3. r \in Adapter
    BY <1>5, ResolveSound DEF Sound
  <2> HIDE DEF r
  <2>4. Alike(r, k)
    BY <1>1, <2>2 DEF Adapter, Alike, SameSeries
  <2>5. Clean(r, s) /\ Loose(r, s)
    BY <1>1, <2>3, <2>4, AlikeIs
  <2> QED
    BY <2>4, <2>5 DEF Alike, r
<1>6. CASE ~Ready(k) \/ k.symbol = None
  <2>1. /\ ~(Ready(k) /\ k.symbol \in Contracts) /\ ~(Ready(k) /\ k.symbol \in LocalRoots)
        /\ ~(Ready(k) /\ k.symbol \in RemoteRoots)
    BY <1>6, NamesAssumption DEF Names, Roots
  <2>2. r = k
    BY <1>6, <2>1 DEF ResolvePendingSymbol
  <2> QED
    BY <1>2, <2>2
<1> QED
  BY <1>1, <1>2, <1>3, <1>4, <1>5, <1>6

\* An instrument that is selected starts without candles.
LEMMA SubscribeClean ==
  ASSUME NEW s, NEW k, Clean(k, s), Sound(k),
         NEW n \in Names, NEW saved \in BOOLEAN, NEW covered \in BOOLEAN
  PROVE  LET r == Subscribe(k, n, saved, covered)
         IN  Clean(r, s) /\ r.candles = {} /\ ~r.dirty /\ r.shape = DefaultShape
<1> DEFINE r == Subscribe(k, n, saved, covered)
           kept == PersistCandleCache(k, saved)
           on == [kept EXCEPT !.symbol = n, !.root = n, !.resolving = FALSE, !.candles = {},
                              !.dom = {}, !.dirty = FALSE, !.complete = FALSE,
                              !.chartWanted = FALSE, !.shape = DefaultShape]
<1>1. Clean(kept, s) /\ kept \in Adapter /\ Quiet(kept, k) /\ kept.building = k.building
  BY PersistClean, PersistSound DEF Clean, Loose
<1>2. r = ResolvePendingSymbol(on, covered)
  BY DEF Subscribe
<1> HIDE DEF kept, r
<1>3. on \in Adapter
  BY <1>1, ShapesAssumption, ZenonT(60) DEF Adapter
<1>4. /\ on.memory = kept.memory /\ on.disk = kept.disk /\ on.candles = {} /\ on.dirty = FALSE
      /\ on.building = kept.building /\ on.chartWanted = FALSE /\ on.shape = DefaultShape
  BY <1>1 DEF Adapter
<1>5. Quiet(on, kept)
  BY <1>1 DEF Adapter, Quiet
<1> HIDE DEF on
<1>6. Loose(on, s)
  BY <1>1, <1>3, <1>4 DEF Clean, Loose, Stored, Wanted
<1>7. Clean(on, s)
  BY <1>4, <1>6, EmptyIsClean
<1>8. Sound(on)
  BY <1>1, <1>3, <1>4, <1>5 DEF Sound, Served, OpensForOne, Quiet
<1>9. Loose(r, s) /\ SameSeries(r, on) /\ r.shape = on.shape
  BY <1>2, <1>4, <1>7, <1>8, ResolveClean
<1>10. r.candles = {} /\ ~r.dirty
  BY <1>4, <1>9 DEF SameSeries
<1> QED
  BY <1>4, <1>9, <1>10, EmptyIsClean DEF r

\* A chart that asks keeps candles of another length only when the adapter does not
\* know that a chart asked before.
LEMMA RequestChartClean ==
  ASSUME NEW s, NEW k, Clean(k, s), Sound(k), NEW n \in Names, NEW shape \in Shapes,
         NEW saved \in BOOLEAN, NEW covered \in BOOLEAN
  PROVE  LET r == RequestChartData(k, n, shape, saved, covered)
         IN  /\ Loose(r, s)
             /\ Clean(r, s) \/ (Carries(r, k) /\ k.root = n /\ ~k.chartWanted)
<1> DEFINE r == RequestChartData(k, n, shape, saved, covered)
           changed == k.chartWanted /\ k.shape # shape
           kept == IF changed THEN PersistCandleCache(k, saved) ELSE k
           on == IF kept.root # n THEN Subscribe(kept, n, saved, covered) ELSE kept
           asked == [on EXCEPT !.chartWanted = TRUE, !.shape = shape]
           cleared == IF changed
                      THEN [asked EXCEPT !.candles = {}, !.dirty = FALSE, !.complete = FALSE]
                      ELSE asked
<1>1. k \in Adapter
  BY DEF Clean, Loose
<1>2. /\ Clean(kept, s) /\ kept \in Adapter /\ Keeps(kept, k) /\ Quiet(kept, k)
      /\ kept.building = k.building /\ kept.candles = k.candles
  <2>1. CASE changed
    <3>1. kept = PersistCandleCache(k, saved)
      BY <2>1
    <3> HIDE DEF kept
    <3> QED
      BY <1>1, <3>1, PersistClean, PersistSound
  <2>2. CASE ~changed
    <3>1. kept = k
      BY <2>2
    <3> HIDE DEF kept
    <3> QED
      BY <1>1, <3>1 DEF Keeps, SameLink, SameStream, SameChoice, Quiet
  <2> QED
    BY <2>1, <2>2
<1>3. r = StartChartBackfill(cleared, covered)
  BY DEF RequestChartData
<1>4. ~changed => kept = k
  OBVIOUS
<1>5. changed => k.chartWanted
  OBVIOUS
<1> HIDE DEF kept, r
<1>6. Sound(kept)
  BY <1>2 DEF Sound, Served, OpensForOne, Quiet
<1>7. /\ Clean(on, s) /\ on \in Adapter /\ Sound(on)
      /\ on.candles = {} \/ (k.root = n /\ on = kept)
  <2>1. CASE k.root # n
    <3>1. on = Subscribe(kept, n, saved, covered)
      BY <1>2, <2>1 DEF Keeps, SameChoice
    <3> HIDE DEF on
    <3>2. Clean(on, s) /\ on.candles = {}
      BY <1>2, <1>6, <3>1, SubscribeClean
    <3>3. Sound(on)
      BY <1>6, <3>1, SubscribeSound
    <3> QED
      BY <3>2, <3>3 DEF Clean, Loose
  <2>2. CASE k.root = n
    <3>1. on = kept
      BY <1>2, <2>2 DEF Keeps, SameChoice
    <3> HIDE DEF on
    <3> QED
      BY <1>2, <1>6, <2>2, <3>1
  <2> QED
    BY <2>1, <2>2
<1> HIDE DEF on
<1>8. /\ asked \in Adapter /\ SameSeries(asked, on) /\ asked.building = on.building
      /\ asked.symbol = on.symbol /\ asked.shape = shape /\ asked.chartWanted = TRUE
  BY <1>7, ZenonT(60) DEF Adapter, SameSeries
<1>9. Quiet(asked, on)
  BY <1>7, ZenonT(60) DEF Adapter, Quiet
<1> HIDE DEF asked
<1>10. Loose(asked, s)
  BY <1>7, <1>8 DEF Clean, Loose, Stored, Wanted, SameSeries
<1>11. /\ cleared \in Adapter /\ Quiet(cleared, on) /\ cleared.building = on.building
       /\ Loose(cleared, s)
       /\ cleared.candles = {} \/ (~changed /\ cleared = asked)
  <2>1. CASE ~changed
    <3>1. cleared = asked
      BY <2>1
    <3> HIDE DEF changed, cleared
    <3> QED
      BY <1>8, <1>9, <1>10, <2>1, <3>1
  <2>2. CASE changed
    <3>1. cleared = [asked EXCEPT !.candles = {}, !.dirty = FALSE, !.complete = FALSE]
      BY <2>2
    <3> HIDE DEF changed, cleared
    <3>2. cleared \in Adapter
      BY <1>8, <3>1 DEF Adapter
    <3>3. /\ cleared.building = asked.building
          /\ cleared.memory = asked.memory /\ cleared.disk = asked.disk
          /\ cleared.candles = {} /\ cleared.dirty = FALSE
      BY <1>8, <3>1 DEF Adapter
    <3>4. Quiet(cleared, asked)
      BY <1>8, <3>1 DEF Adapter, Quiet
    <3> QED
      BY <1>8, <1>9, <1>10, <3>2, <3>3, <3>4 DEF Loose, Stored, Wanted, Quiet
  <2> QED
    BY <2>1, <2>2
<1> HIDE DEF cleared
<1>12. Sound(cleared)
  BY <1>7, <1>11 DEF Sound, Served, OpensForOne, Quiet
<1>13. Loose(r, s) /\ (Alike(r, cleared) \/ Clean(r, s))
  BY <1>3, <1>11, <1>12, StartClean
<1>14. ASSUME ~Clean(r, s) PROVE Carries(r, k) /\ k.root = n /\ ~k.chartWanted
  <2>1. r.candles = cleared.candles /\ r.candles # {} /\ Alike(r, cleared)
    BY <1>13, <1>14, EmptyIsClean DEF Alike, SameSeries
  <2>2. ~changed /\ cleared = asked /\ asked.candles = on.candles
    BY <1>8, <1>11, <2>1 DEF SameSeries
  <2>3. k.root = n /\ on = k
    BY <1>4, <1>7, <2>1, <2>2
  <2>4. k.shape # shape
    <3>1. SUFFICES ASSUME k.shape = shape PROVE Clean(r, s)
      BY <1>14
    <3>2. SameSeries(r, k) /\ r.symbol = k.symbol /\ r.shape = k.shape
      BY <1>8, <2>1, <2>2, <2>3, <3>1 DEF Alike, SameSeries
    <3>3. Shows(r, s)
      BY <3>2 DEF Clean, Shows, SameSeries, Key
    <3> QED
      BY <1>13, <3>3 DEF Clean
  <2>5. Key(r) # Key(k)
    BY <1>8, <2>1, <2>2, <2>4 DEF Alike, Key
  <2>6. ~k.chartWanted
    BY <2>2, <2>4 DEF changed
  <2> QED
    BY <2>1, <2>2, <2>3, <2>5, <2>6 DEF Carries
<1> QED
  BY <1>13, <1>14 DEF r

-----------------------------------------------------------------------------
(* What each step does to the series                                         *)

LEMMA SeriesPrimed == Clean(m', spoiled') => SeriesInv'
  BY DEF SeriesInv, Clean, Loose, Stored, Wanted, Shows, Key

\* Candles that are carried to another key spoil it.
LEMMA CarriedStep ==
  ASSUME Loose(m', spoiled), Clean(m', spoiled) \/ Carries(m', m),
         spoiled' = IF Carried THEN spoiled \cup {Key(m')} ELSE spoiled
  PROVE  Clean(m', spoiled')
<1>1. Carried <=> Carries(m', m)
  BY DEF Carried, Carries
<1>2. CASE Carries(m', m)
  BY <1>1, <1>2, SpoiledIsClean
<1>3. CASE ~Carries(m', m)
  BY <1>1, <1>3
<1> QED
  BY <1>2, <1>3

LEMMA ChartStep ==
  ASSUME IInv, SeriesInv, NEW n \in ChartNames, NEW saved \in BOOLEAN, NEW covered \in BOOLEAN,
         OpenChart(n, saved, covered), spoiled' = spoiled
  PROVE  Clean(m', spoiled')
<1> DEFINE k == Subscribe(m, n, saved, covered)
<1>1. Sound(m) /\ Clean(m, spoiled) /\ n \in Names /\ DefaultShape \in Shapes
  BY WindowsAssumption, ShapesAssumption DEF IInv, SeriesInv
<1>2. m' = RequestChartData(k, n, DefaultShape, saved, covered)
  BY DEF OpenChart
<1>3. Clean(k, spoiled) /\ k.candles = {}
  BY <1>1, SubscribeClean
<1>4. Sound(k)
  BY <1>1, SubscribeSound
<1> HIDE DEF k
<1>5. ~Carries(m', k)
  BY <1>3 DEF Carries
<1> QED
  BY <1>1, <1>2, <1>3, <1>4, <1>5, RequestChartClean

LEMMA RescaleStep ==
  ASSUME IInv, SeriesInv, NEW n \in Rescaled, NEW shape \in Shapes,
         NEW saved \in BOOLEAN, NEW covered \in BOOLEAN,
         RescaleUnasked(n, shape, saved, covered)
  PROVE  Clean(m', spoiled')
<1>1. Sound(m) /\ Clean(m, spoiled) /\ n \in Names
  BY WindowsAssumption DEF IInv, SeriesInv
<1>2. m' = RequestChartData(m, n, shape, saved, covered)
  BY DEF RescaleUnasked, ChooseTimeframe
<1>3. /\ Loose(m', spoiled)
      /\ Clean(m', spoiled) \/ (Carries(m', m) /\ m.root = n /\ ~m.chartWanted)
  BY <1>1, <1>2, RequestChartClean
<1>4. Carried <=> Carries(m', m)
  BY DEF Carried, Carries
<1>5. CASE ~m.chartWanted /\ m.root = n
  <2>1. spoiled' = IF Carried THEN spoiled \cup {Key(m')} ELSE spoiled
    BY <1>5 DEF RescaleUnasked, Spoil
  <2> QED
    BY <1>3, <2>1, CarriedStep
<1>6. CASE ~(~m.chartWanted /\ m.root = n)
  BY <1>3, <1>6 DEF RescaleUnasked
<1> QED
  BY <1>5, <1>6

LEMMA DomStep ==
  ASSUME IInv, SeriesInv, NEW n \in DomNames, NEW saved \in BOOLEAN, NEW covered \in BOOLEAN,
         OpenDom(n, saved, covered), spoiled' = spoiled
  PROVE  Clean(m', spoiled')
<1>1. Sound(m) /\ Clean(m, spoiled) /\ n \in Names
  BY WindowsAssumption DEF IInv, SeriesInv
<1> QED
  BY <1>1, SubscribeClean DEF OpenDom

\* The login resubscribes or looks up, and asks for the bars of a chart.
LEMMA ConnectedStep ==
  ASSUME IInv, SeriesInv, NEW covered \in BOOLEAN, Connected(covered)
  PROVE  Loose(m', spoiled) /\ (Clean(m', spoiled) \/ Carries(m', m))
<1> DEFINE k == [m EXCEPT !.link = "Live", !.connected = TRUE, !.failed = FALSE]
           told == ResolvePendingSymbol(k, covered)
<1>1. m \in Adapter /\ Clean(m, spoiled) /\ Sound(m)
  BY DEF IInv, SeriesInv, Clean, Loose
<1>2. m' = [told EXCEPT !.streamed = @ \cup ({told.wanted} \ {None})]
  BY <1>1 DEF Connected, HandleConnected, Adapter
<1>3. k \in Adapter /\ Alike(k, m) /\ k.building = m.building
  BY <1>1, ZenonT(60) DEF Adapter, Alike, SameSeries
<1>4. Quiet(k, m)
  BY <1>1 DEF Adapter, Quiet
<1> HIDE DEF k
<1>5. Clean(k, spoiled) /\ Sound(k)
  BY <1>1, <1>3, <1>4, AlikeIs DEF Sound, Served, OpensForOne, Quiet
<1>6. Loose(told, spoiled) /\ (Clean(told, spoiled) \/ Carries(told, k))
  BY <1>5, ResolveClean
<1> HIDE DEF told
<1>7. told \in Adapter /\ m' \in Adapter
  BY <1>6, ConnectedGood DEF Loose, GoodStep, IInv, Sound
<1>8. Alike(m', told)
  BY <1>2, <1>7 DEF Adapter, Alike, SameSeries
<1>9. Loose(m', spoiled) /\ (Clean(told, spoiled) => Clean(m', spoiled))
  BY <1>6, <1>7, <1>8, AlikeIs
<1>10. Carries(told, k) => Carries(m', m)
  BY <1>3, <1>8 DEF Carries, Alike, SameSeries, Key
<1> QED
  BY <1>6, <1>9, <1>10

\* The answer to a lookup, whatever is selected by now.
LEMMA FrontMonthStep ==
  ASSUME IInv, SeriesInv, NEW n \in RemoteRoots, NEW ok \in BOOLEAN, NEW covered \in BOOLEAN,
         FrontMonthAnswer(n, ok, covered)
  PROVE  Loose(m', spoiled) /\ (Clean(m', spoiled) \/ Carries(m', m))
<1> DEFINE answered == [m EXCEPT !.lookups[n] = @ - 1]
           off == [answered EXCEPT !.resolving = FALSE]
           front == [answered EXCEPT !.resolving = FALSE, !.symbol = FrontMonth[n]]
<1>1. /\ m \in Adapter /\ Clean(m, spoiled) /\ Loose(m, spoiled) /\ Sound(m)
      /\ m.lookups \in [RemoteRoots -> Nat] /\ m.lookups[n] > 0
  BY DEF IInv, SeriesInv, Clean, Loose, Adapter, FrontMonthAnswer
<1>2. m' = IF ok THEN Attach(front, covered) ELSE off
  BY DEF FrontMonthAnswer, HandleFrontMonth
<1>3. FrontMonth[n] \in Contracts /\ FrontMonth[n] \in Names /\ FrontMonth[n] # None
  BY NamesAssumption DEF Roots, Names
<1>4. answered \in Adapter /\ Alike(answered, m) /\ answered.building = m.building
  BY <1>1 DEF Adapter, Alike, SameSeries
<1>5. Quiet(answered, m)
  BY <1>1 DEF Adapter, Quiet
<1> HIDE DEF answered
<1>6. CASE ok
  <2>1. /\ front \in Adapter /\ front.symbol = FrontMonth[n] /\ front.shape = answered.shape
        /\ front.chartWanted = answered.chartWanted /\ front.building = answered.building
    BY <1>3, <1>4, ZenonT(60) DEF Adapter
  <2>2. SameSeries(front, answered) /\ Quiet(front, answered)
    BY <1>4, ZenonT(60) DEF Adapter, SameSeries, Quiet
  <2> HIDE DEF front
  <2>3. SameSeries(front, m) /\ front.shape = m.shape /\ front.chartWanted = m.chartWanted
    BY <1>4, <2>1, <2>2 DEF Alike, SameSeries
  <2>4. Loose(front, spoiled)
    BY <1>1, <1>3, <2>1, <2>3 DEF Loose, Stored, Wanted, SameSeries
  <2>5. Sound(front)
    BY <1>1, <1>4, <1>5, <2>1, <2>2 DEF Sound, Served, OpensForOne, Quiet
  <2>6. m' = Attach(front, covered)
    BY <1>2, <1>6
  <2> QED
    BY <1>1, <1>3, <2>1, <2>3, <2>4, <2>5, <2>6, FrontClean
<1>7. CASE ~ok
  <2>1. off \in Adapter /\ Alike(off, answered)
    BY <1>4, ZenonT(60) DEF Adapter, Alike, SameSeries
  <2>2. m' = off
    BY <1>2, <1>7
  <2> HIDE DEF off
  <2> QED
    BY <1>1, <1>4, <2>1, <2>2, AlikeIs
<1> QED
  BY <1>6, <1>7

LEMMA ResolveStep ==
  ASSUME IInv, SeriesInv, Resolve
  PROVE  Clean(m', spoiled')
<1>1. Loose(m', spoiled) /\ (Clean(m', spoiled) \/ Carries(m', m))
  BY ConnectedStep, FrontMonthStep DEF Resolve
<1>2. spoiled' = IF Carried THEN spoiled \cup {Key(m')} ELSE spoiled
  BY DEF Resolve, Spoil
<1> QED
  BY <1>1, <1>2, CarriedStep

LEMMA ShownAlike ==
  ASSUME NEW k \in Adapter
  PROVE  LET r == Shown(k) IN r \in Adapter /\ Alike(r, k) /\ Key(r) = Key(k)
  BY DEF Shown, Adapter, Alike, SameSeries, Key

\* A bar that is not of what is shown spoils it.
LEMMA BarStep ==
  ASSUME IInv, SeriesInv, NEW key \in Keys, LateBar(key)
  PROVE  Clean(m', spoiled')
<1> DEFINE shown == Shown(m)
           k == [shown EXCEPT !.building = TRUE, !.counted = TRUE]
<1>1. m \in Adapter /\ Clean(m, spoiled) /\ Loose(m, spoiled) /\ m' = AddCandle(k, key)
  BY DEF SeriesInv, Clean, Loose, LateBar, HistoricalBar
<1>2. shown \in Adapter /\ Alike(shown, m) /\ Key(shown) = Key(m)
  BY <1>1, ShownAlike
<1> HIDE DEF shown
<1>3. k \in Adapter /\ Alike(k, shown)
  BY <1>2, ZenonT(60) DEF Adapter, Alike, SameSeries
<1> HIDE DEF k
<1>4. Key(k) = Key(m)
  BY <1>2, <1>3 DEF Alike, Key
<1>5. Clean(m, spoiled') /\ (key = Key(m) \/ Key(m) \in spoiled')
  <2>1. CASE key = Key(m)
    BY <1>1, <2>1 DEF LateBar
  <2>2. CASE key # Key(m)
    BY <1>1, <2>2, SpoiledIsClean DEF LateBar, Spoil
  <2> QED
    BY <2>1, <2>2
<1>6. Clean(k, spoiled')
  BY <1>2, <1>3, <1>5, AlikeIs
<1> QED
  BY <1>1, <1>4, <1>5, <1>6, AddClean

\* Connecting and closing leave the candles; another adapter has the files only.
LEMMA MainWindowStep ==
  ASSUME IInv, SeriesInv, MainWindow, spoiled' = spoiled
  PROVE  Clean(m', spoiled')
<1>1. m \in Adapter /\ Clean(m, spoiled)
  BY DEF SeriesInv, Clean, Loose
<1>2. m' \in Adapter
  BY MainWindowGood DEF GoodStep, IInv, Sound
<1>3. ASSUME NEW fails \in BOOLEAN, NEW refused \in BOOLEAN, ConnectAdapter(fails, refused)
      PROVE  Clean(m', spoiled)
  <2> DEFINE off == [m EXCEPT !.connected = FALSE, !.failed = FALSE, !.building = FALSE,
                              !.started = FALSE]
             dead == [off EXCEPT !.link = "Failed"]
             tried == IF fails THEN HandleError(dead) ELSE [off EXCEPT !.link = "Connecting"]
  <2>1. m' = [tried EXCEPT !.started = ~refused]
    BY <1>3 DEF ConnectAdapter
  <2>2. off \in Adapter /\ Alike(off, m)
    BY <1>1, ZenonT(60) DEF Adapter, Alike, SameSeries
  <2> HIDE DEF off
  <2>3. dead \in Adapter /\ Alike(dead, off)
    BY <2>2 DEF Adapter, Alike, SameSeries
  <2>4. [off EXCEPT !.link = "Connecting"] \in Adapter /\ Alike([off EXCEPT !.link = "Connecting"], off)
    BY <2>2 DEF Adapter, Alike, SameSeries
  <2> HIDE DEF dead
  <2>5. HandleError(dead) \in Adapter /\ Alike(HandleError(dead), dead)
    BY <2>3, ZenonT(60) DEF HandleError, Adapter, Alike, SameSeries
  <2>6. tried \in Adapter /\ Alike(tried, m)
    BY <2>2, <2>3, <2>4, <2>5 DEF Alike, SameSeries
  <2> HIDE DEF tried
  <2>7. Alike(m', tried)
    BY <2>1, <2>6 DEF Adapter, Alike, SameSeries
  <2> QED
    BY <1>1, <1>2, <2>6, <2>7, AlikeIs
<1>4. ASSUME NEW saved \in BOOLEAN, DisconnectAdapter(saved) PROVE Clean(m', spoiled)
  <2> DEFINE kept == PersistCandleCache(m, saved)
             cut == Unlinked(kept, "Closed")
  <2>1. m' = [cut EXCEPT !.history = "off", !.replays = [key \in CacheKeys |-> 0],
                         !.backfilling = FALSE, !.connected = FALSE, !.failed = FALSE,
                         !.building = FALSE, !.started = FALSE]
    BY <1>4 DEF DisconnectAdapter
  <2>2. Clean(kept, spoiled) /\ kept \in Adapter
    BY <1>1, PersistClean DEF Clean, Loose
  <2> HIDE DEF kept
  <2>3. /\ cut = [kept EXCEPT !.link = "Closed", !.streamed = {},
                              !.lookups = [r \in RemoteRoots |-> 0]]
        /\ Alike(cut, kept)
    BY <2>2 DEF Unlinked, Adapter, Alike, SameSeries
  <2>4. Alike(m', cut)
    BY <2>1, <2>2, <2>3 DEF Adapter, Alike, SameSeries
  <2>5. Alike(m', kept)
    BY <2>3, <2>4 DEF Alike, SameSeries
  <2> QED
    BY <1>2, <2>2, <2>5, AlikeIs
<1>5. CASE Restart
  <2>1. m' = NewAdapter(m.disk)
    BY <1>5 DEF Restart
  <2>2. /\ m'.candles = {} /\ m'.dirty = FALSE
        /\ m'.memory = [key \in CacheKeys |-> {}] /\ m'.disk = m.disk
    BY <2>1 DEF NewAdapter
  <2>3. Loose(m', spoiled)
    BY <1>1, <1>2, <2>2 DEF Clean, Loose, Stored, Wanted
  <2> QED
    BY <2>2, <2>3, EmptyIsClean
<1> QED
  BY <1>3, <1>4, <1>5 DEF MainWindow

\* What the ticker session reports leaves the candles alone, but for a trade, which
\* is of the instrument that is shown.
LEMMA LinkStep ==
  ASSUME IInv, SeriesInv, Lost \/ Reconnecting \/ Error, spoiled' = spoiled
  PROVE  Clean(m', spoiled')
<1>1. m \in Adapter /\ Clean(m, spoiled)
  BY DEF SeriesInv, Clean, Loose
<1>2. m' \in Adapter
  BY TickerGood DEF GoodStep, IInv, Sound, Ticker
<1>3. CASE Lost \/ Error
  <2>1. PICK link \in {"Lost", "Failed"} :
              LET k == Unlinked(m, link) IN m' = HandleStatus(k) \/ m' = HandleError(k)
    BY <1>3 DEF Lost, Error
  <2> DEFINE k == Unlinked(m, link)
  <2>2. k \in Adapter
    BY <1>1, UnlinkedIs
  <2>3. Alike(k, m)
    BY <1>1 DEF Unlinked, Adapter, Alike, SameSeries
  <2>4. m' = HandleStatus(k) \/ m' = HandleError(k)
    BY <2>1
  <2> HIDE DEF k
  <2>5. Alike(HandleStatus(k), k)
    BY <2>2 DEF HandleStatus, Adapter, Alike, SameSeries
  <2>6. Alike(HandleError(k), k)
    BY <2>2, ZenonT(60) DEF HandleError, Adapter, Alike, SameSeries
  <2>7. Alike(m', m)
    BY <2>3, <2>4, <2>5, <2>6 DEF Alike, SameSeries
  <2> QED
    BY <1>1, <1>2, <2>7, AlikeIs
<1>4. CASE Reconnecting
  <2>1. m' = [m EXCEPT !.link = "Connecting", !.failed = FALSE]
    BY <1>1, <1>4 DEF Reconnecting, HandleStatus, Adapter
  <2>2. Alike(m', m)
    BY <1>1, <2>1 DEF Adapter, Alike, SameSeries
  <2> QED
    BY <1>1, <1>2, <2>2, AlikeIs
<1> QED
  BY <1>3, <1>4

LEMMA DataStep ==
  ASSUME IInv, SeriesInv, spoiled' = spoiled,
         \/ \E covered, saved \in BOOLEAN : Trade(covered, saved)
         \/ Bbo \/ \E contract \in Contracts : OrderBook(contract)
  PROVE  Clean(m', spoiled')
<1> DEFINE shown == Shown(m)
<1>1. m \in Adapter /\ Clean(m, spoiled) /\ m.streamed \in SUBSET Contracts
  BY DEF SeriesInv, Clean, Loose, Adapter
<1>2. m' \in Adapter
  BY TickerGood DEF GoodStep, IInv, Sound, Ticker
<1>3. shown \in Adapter /\ Alike(shown, m) /\ Key(shown) = Key(m)
  BY <1>1, ShownAlike
<1>4. Clean(shown, spoiled)
  BY <1>1, <1>3, AlikeIs
<1>5. ASSUME NEW covered \in BOOLEAN, NEW saved \in BOOLEAN, Trade(covered, saved)
      PROVE  Clean(m', spoiled)
  <2> DEFINE added == AddCandle(shown, Key(m))
  <2>1. m.symbol \in m.streamed /\ (m' = shown \/ m' = PersistCandleCache(added, saved))
    BY <1>5 DEF Trade
  <2>2. Key(m) \in Keys
    BY <1>1, <2>1 DEF Keys, Key, Adapter
  <2> HIDE DEF shown
  <2>3. Clean(added, spoiled)
    BY <1>3, <1>4, <2>2, AddClean
  <2> HIDE DEF added
  <2> QED
    BY <1>4, <2>1, <2>3, PersistClean
<1>6. CASE Bbo \/ \E contract \in Contracts : OrderBook(contract)
  <2>1. \E dom : m' = [shown EXCEPT !.dom = dom]
    BY <1>6 DEF Bbo, OrderBook
  <2> HIDE DEF shown
  <2>2. Alike(m', shown)
    BY <1>3, <2>1 DEF Adapter, Alike, SameSeries
  <2> QED
    BY <1>2, <1>4, <2>2, AlikeIs
<1> HIDE DEF shown
<1> QED
  BY <1>5, <1>6

\* What ends a request saves the series under its own key.
LEMMA ReportStep ==
  ASSUME SeriesInv, spoiled' = spoiled,
         HistoryLoggedIn \/ HistoryFailed \/ HistoryClosed
         \/ \E saved \in BOOLEAN : HistoryTimeout(saved)
                                   \/ \E key \in CacheKeys : EndOfReplay(key, saved),
         IInv
  PROVE  Clean(m', spoiled')
<1>1. m \in Adapter /\ Clean(m, spoiled) /\ m.counted \in BOOLEAN
  BY DEF SeriesInv, Clean, Loose, Adapter
<1>2. m' \in Adapter
  BY HistoryGood DEF GoodStep, IInv, Sound, History
<1>3. ASSUME NEW k \in Adapter, Alike(k, m), NEW ok \in BOOLEAN, NEW saved \in BOOLEAN,
             m' = k \/ m' = HandleHistoryFinished(k, ok, saved)
      PROVE  Clean(m', spoiled)
  <2>1. Clean(k, spoiled)
    BY <1>1, <1>3, AlikeIs
  <2> QED
    BY <1>3, <2>1, FinishedClean
<1>4. Alike(m, m)
  BY DEF Alike, SameSeries
<1>5. CASE HistoryLoggedIn
  <2>1. Alike(m', m)
    BY <1>1, <1>5 DEF HistoryLoggedIn, HandleStatus, Adapter, Alike, SameSeries
  <2> QED
    BY <1>1, <1>2, <2>1, AlikeIs
<1>6. CASE HistoryFailed \/ HistoryClosed
  <2> DEFINE k == HistoryOff(m)
  <2>1. m' = k \/ m' = HandleHistoryFinished(k, FALSE, FALSE)
    BY <1>6 DEF HistoryFailed, HistoryClosed
  <2>2. k \in Adapter
    BY <1>1, HistoryOffIs
  <2>3. Alike(k, m)
    BY <1>1 DEF HistoryOff, Adapter, Alike, SameSeries
  <2> HIDE DEF k
  <2> QED
    BY <1>3, <2>1, <2>2, <2>3
<1>7. ASSUME NEW saved \in BOOLEAN, HistoryTimeout(saved) PROVE Clean(m', spoiled)
  BY <1>1, <1>3, <1>4, <1>7 DEF HistoryTimeout
<1>8. ASSUME NEW saved \in BOOLEAN, NEW key \in CacheKeys, EndOfReplay(key, saved)
      PROVE  Clean(m', spoiled)
  <2> DEFINE replays == [m.replays EXCEPT ![key] = @ - 1]
             k == [m EXCEPT !.replays = replays]
  <2>1. m.replays[key] > 0 /\ m' = HandleHistoryFinished(k, TRUE, saved)
    BY <1>8 DEF EndOfReplay
  <2>2. m.replays \in [CacheKeys -> Nat]
    BY <1>1 DEF Adapter
  <2>3. replays \in [CacheKeys -> Nat]
    BY <2>1, <2>2
  <2> HIDE DEF replays
  <2>4. k \in Adapter /\ Alike(k, m)
    BY <1>1, <2>3 DEF Adapter, Alike, SameSeries
  <2> HIDE DEF k
  <2> QED
    BY <1>3, <2>1, <2>4
<1> QED
  BY <1>5, <1>6, <1>7, <1>8

LEMMA SeriesInitGood == SeriesInit => IInv /\ SeriesInv
<1> SUFFICES ASSUME SeriesInit PROVE IInv /\ SeriesInv
  OBVIOUS
<1>1. m = NewAdapter([key \in CacheKeys |-> {}]) /\ IInv /\ m \in Adapter
  BY InitGood DEF SeriesInit, Init, IInv, Sound
<1>2. /\ m.candles = {} /\ m.dirty = FALSE
      /\ m.memory = [key \in CacheKeys |-> {}] /\ m.disk = [key \in CacheKeys |-> {}]
  BY <1>1 DEF NewAdapter
<1>3. Loose(m, spoiled)
  BY <1>1, <1>2 DEF Loose, Stored, Wanted
<1> QED
  BY <1>1, <1>2, <1>3, EmptyIsClean DEF SeriesInv

\* The history variable only watches.
LEMMA SeriesNextIsNext == SeriesNext => Next
  BY DEF SeriesNext, Next, LateBar, RescaleUnasked, Resolve, Windows, Ticker, History

LEMMA SeriesStep == IInv /\ SeriesInv /\ [SeriesNext]_seriesVars => IInv' /\ SeriesInv'
<1> SUFFICES ASSUME IInv, SeriesInv, [SeriesNext]_seriesVars PROVE IInv' /\ SeriesInv'
  OBVIOUS
<1>1. [Next]_vars
  BY SeriesNextIsNext DEF seriesVars
<1>2. IInv'
  BY <1>1, StepGood DEF GoodStep
<1>3. CASE UNCHANGED seriesVars
  <2>1. m' = m /\ spoiled' = spoiled
    BY <1>3 DEF seriesVars, vars
  <2> QED
    BY <1>2, <2>1, SeriesPrimed DEF SeriesInv
<1>4. CASE SeriesNext
  <2>1. Clean(m', spoiled')
    BY <1>4, BarStep, RescaleStep, ResolveStep, MainWindowStep, ChartStep, DomStep, LinkStep,
       DataStep, ReportStep
       DEF SeriesNext
  <2> QED
    BY <1>2, <2>1, SeriesPrimed
<1> QED
  BY <1>3, <1>4

-----------------------------------------------------------------------------
(* The theorems *)

(***************************************************************************)
(* What the other theorems rest on: served downloads, a link that streams  *)
(* only while it is live, an attached instrument.                          *)
(***************************************************************************)
THEOREM Invariance == Spec => []IInv
<1>1. IInv /\ [Next]_vars => IInv'
  BY StepGood DEF GoodStep
<1> QED
  BY <1>1, InitGood, PTL DEF Spec

(***************************************************************************)
(* The handlers keep the records of the adapter and of its client of the   *)
(* types they are declared with.                                           *)
(***************************************************************************)
THEOREM TypesHold == Spec => []TypeOK
<1>1. IInv => TypeOK
  BY DEF IInv, Sound, TypeOK
<1> QED
  BY <1>1, Invariance, PTL

(***************************************************************************)
(* buildingChartData is shown only while handleHistoryFinished is still    *)
(* owed: every way a request ends without one clears it.                   *)
(***************************************************************************)
THEOREM DownloadsAreServed == Spec => []BuildingIsServed
<1>1. IInv => BuildingIsServed
  BY DEF IInv, Sound, Served, BuildingIsServed
<1> QED
  BY <1>1, Invariance, PTL

(***************************************************************************)
(* Over a live session the contract the adapter stands for is streamed and *)
(* the feed is shown as connected, whatever order the windows, the lookups *)
(* and the reconnects come in.                                             *)
(***************************************************************************)
THEOREM LiveIsAlwaysAttached == Spec => []LiveIsAttached
<1>1. IInv => LiveIsAttached
  BY DEF IInv, Attached, Resolvable, LiveIsAttached
<1> QED
  BY <1>1, Invariance, PTL

(***************************************************************************)
(* requestTimeBarBackfill is called for a chart only.                      *)
(***************************************************************************)
THEOREM HistoryIsAsked == Spec => NoUnaskedHistory
<1>1. IInv /\ [Next]_vars
      => [m.link # "Off" /\ m'.link # "Off" /\ Asks(m, m') => m'.chartWanted]_vars
  BY StepGood DEF GoodStep, NothingUnasked
<1> QED
  BY <1>1, Invariance, PTL DEF Spec, NoUnaskedHistory

(***************************************************************************)
(* Every step of the adapter that reaches its client's ticker connection   *)
(* is a step of TickerSession.                                             *)
(***************************************************************************)
THEOREM SessionIsUsed == Spec => UsesSession
<1>1. Init => Session!Init
  BY DEF Init, NewAdapter, Session!Init
<1>2. IInv /\ [Next]_vars
      => [m'.link = "Off" \/ Session!Next]_<<m.link, m.wanted, m.streamed>>
  BY StepGood DEF GoodStep, SessionStep
<1> QED
  BY <1>1, <1>2, InitGood, Invariance, PTL DEF Spec, UsesSession

(***************************************************************************)
(* What the two theorems about the series rest on: but for the keys that   *)
(* are spoiled, candleCache_ and the files hold their own candles, and so  *)
(* does the snapshot, remembered as it is while it is to be saved.         *)
(***************************************************************************)
THEOREM SeriesInvariance == SeriesSpec => [](IInv /\ SeriesInv)
<1>1. IInv /\ SeriesInv /\ [SeriesNext]_seriesVars => (IInv /\ SeriesInv)'
  BY SeriesStep
<1> QED
  BY <1>1, SeriesInitGood, PTL DEF SeriesSpec

(***************************************************************************)
(* A series takes the candles of another contract or bar length only by a  *)
(* late bar, a front month resolved under the candles of another           *)
(* instrument, or a bar length changed after a DOM was opened; and it      *)
(* mixes no other: for windows that call at any time, with DOMs, changes   *)
(* of the bar length, reconnects, lookups that fail and restarts.          *)
(***************************************************************************)
THEOREM SeriesAreAlwaysPure == SeriesSpec => []SeriesArePure
<1>1. IInv /\ SeriesInv => SeriesArePure
  <2> SUFFICES ASSUME SeriesInv PROVE SeriesArePure
    OBVIOUS
  <2> QED
    BY DEF SeriesInv, Clean, Loose, Stored, Shows, SeriesArePure
<1> QED
  BY <1>1, SeriesInvariance, PTL

(***************************************************************************)
(* candleCacheDirty_ is set only while a chart is wanted, and then         *)
(* candleCache_ holds what is shown, but for a key that is spoiled.        *)
(***************************************************************************)
THEOREM DirtyIsAlwaysRemembered == SeriesSpec => []DirtyIsRemembered
<1>1. IInv /\ SeriesInv => DirtyIsRemembered
  BY DEF SeriesInv, Clean, Loose, Wanted, Shows, DirtyIsRemembered
<1> QED
  BY <1>1, SeriesInvariance, PTL

=============================================================================
