---------------------------- MODULE MarketCache ----------------------------
(***************************************************************************)
(* The API's market overview: the in-process caches of apps/api/src/       *)
(* server.ts (getHotCacheValue, the snapshot and pressure caches, their    *)
(* invalidation by the worker's pub/sub message) over the store of         *)
(* MarketStore, and the write-through by which a request saves a chain it  *)
(* had to fetch itself.  The loads of these caches catch their own errors. *)
(***************************************************************************)
EXTENDS MarketStore, Integers

CONSTANTS
  Readers,      \* requests in flight at once
  CacheTtl,     \* MARKET_SNAPSHOT_CACHE_MS, in ticks
  StaleAfter,   \* LIVE_SNAPSHOT_STALE_MS, in ticks
  LoadTime,     \* how long a load may take, in ticks
  MaxLoads      \* bound: loads started

ASSUME CacheConstants ==
  {CacheTtl, StaleAfter, LoadTime, MaxLoads} \subseteq Nat /\ "api" \in Writers

VARIABLES
  cache,   \* marketSnapshotCache, by requested expiry
  loads,   \* the loads in flight
  started, \* loads started so far
  zones,   \* oiWeightedZonesCache
  reader,  \* the requests
  bus      \* market:snapshot:saved messages in flight

cacheOnly == <<cache, loads, started, zones, reader, bus>>
cacheVars == <<storeVars, cacheOnly>>

(* A request names an expiry or none; NoSnap is the demo chain served when *)
(* there is nothing else.                                                  *)
Requests == {{}} \cup {{e} : e \in ExpiryDays}
NoSnap == [id |-> 0, expiry |-> 0, time |-> 0]
NoEntry == [snap |-> NoSnap, until |-> 0, load |-> 0]
NoReader == [pc |-> "idle", wants |-> {}, load |-> 0, snap |-> NoSnap, zones |-> 0, at |-> 0]

-----------------------------------------------------------------------------
(* getHotCacheValue: a live value, or the load already in flight, or a new *)
(* load, whose promise is stored before its value exists.                  *)
HitForever(req) == cache[req].load = 0 /\ cache[req].until > 0
Hit(req) == cache[req].load = 0 /\ cache[req].until > now
Pending(req) == cache[req].load # 0

Serve(r, snap) == [reader[r] EXCEPT !.pc = "zones", !.snap = snap, !.load = 0, !.at = now]

(* pruneExpiredHotCacheEntries never evicts a load in flight.              *)
Swept == [q \in Requests |-> IF cache[q].load = 0 /\ cache[q].until <= now THEN NoEntry ELSE cache[q]]

Request(r, req) ==
  /\ reader[r].pc \in {"idle", "served"}
  /\ \/ /\ Hit(req)
        /\ reader' = [reader EXCEPT ![r] = [NoReader EXCEPT !.pc = "zones", !.wants = req,
                                               !.snap = cache[req].snap, !.at = now]]
        /\ UNCHANGED <<cache, loads, started>>
     \/ /\ ~Hit(req) /\ Pending(req)
        /\ reader' = [reader EXCEPT ![r] = [NoReader EXCEPT !.pc = "waiting", !.wants = req,
                                                           !.load = cache[req].load]]
        /\ UNCHANGED <<cache, loads, started>>
     \/ /\ ~Hit(req) /\ ~Pending(req) /\ started < MaxLoads
        /\ started' = started + 1
        /\ loads' = loads \cup {[id |-> started', wants |-> req, pc |-> "read", snap |-> NoSnap,
                                 since |-> now]}
        /\ cache' = [Swept EXCEPT ![req] = [snap |-> NoSnap, until |-> now + CacheTtl, load |-> started']]
        /\ reader' = [reader EXCEPT ![r] = [NoReader EXCEPT !.pc = "waiting", !.wants = req,
                                                           !.load = started']]
  /\ UNCHANGED <<storeVars, zones, bus>>

(* getLatestSnapshotOrDemo: the stored row when it is fresh; otherwise a   *)
(* live fetch, or whatever is stored when the broker does not answer or    *)
(* the session is closed.                                                  *)
Advance(l, pc, snap) == loads' = (loads \ {l}) \cup {[l EXCEPT !.pc = pc, !.snap = snap]}
Stored(l) == Latest(l.wants)

LoadRead(l) ==
  /\ l.pc = "read"
  /\ LET fresh == {s \in Stored(l) : now - s.time <= StaleAfter}
     IN Advance(l, IF fresh # {} THEN "done" ELSE "live",
                IF Stored(l) # {} THEN Newest(Stored(l)) ELSE NoSnap)
  /\ UNCHANGED <<storeVars, cache, started, zones, reader, bus>>

LoadLiveFails(l) ==
  /\ l.pc = "live" /\ Advance(l, "done", l.snap)
  /\ UNCHANGED <<storeVars, cache, started, zones, reader, bus>>

(* The fetched chain is served at once and saved in the background.        *)
LoadLive(l, e) ==
  /\ l.pc = "live" /\ e \in (IF l.wants # {} THEN l.wants ELSE ExpiryDays)
  /\ Fetch("api", e)
  /\ Advance(l, "done", saving'["api"].snap)
  /\ UNCHANGED <<cache, started, zones, reader, bus>>

(* The load settles: its value goes into the cache, whatever happened to   *)
(* the entry meanwhile, and to every request that waited on it.            *)
LoadDone(l) ==
  /\ l.pc = "done" /\ loads' = loads \ {l}
  /\ cache' = [cache EXCEPT ![l.wants] = [snap |-> l.snap, until |-> now + CacheTtl, load |-> 0]]
  /\ reader' = [r \in Readers |-> IF reader[r].load = l.id THEN Serve(r, l.snap) ELSE reader[r]]
  /\ UNCHANGED <<storeVars, started, zones, bus>>

(* The pressure of the response, from a cache keyed by the very capture:   *)
(* an identity stands for its millisecond stamp.                           *)
ZoneKeyByExpiry(snap) == <<snap.expiry, 0>>
ZoneKey(snap) == <<snap.expiry, snap.id>>

Respond(r) ==
  /\ reader[r].pc = "zones"
  /\ LET key == ZoneKey(reader[r].snap)
         hit == {z \in zones : z.key = key /\ z.until > now}
         entry == [key |-> key, of |-> reader[r].snap.id, until |-> now + CacheTtl]
     IN /\ zones' = IF hit # {} THEN zones ELSE {z \in zones : z.until > now} \cup {entry}
        /\ reader' = [reader EXCEPT ![r].pc = "served",
             ![r].zones = IF hit # {} THEN (CHOOSE z \in hit : TRUE).of ELSE entry.of]
  /\ UNCHANGED <<storeVars, cache, loads, started, bus>>

-----------------------------------------------------------------------------
(* The worker publishes what it saved; the API's own saves are not         *)
(* published.  A message clears the cached overviews it makes stale.       *)
WorkerSaves ==
  /\ saving["worker"].pc = "upserted" /\ InsertSnapshot("worker")
  /\ bus' = bus \cup {saving["worker"].snap.expiry}
  /\ UNCHANGED <<cache, loads, started, zones, reader>>

SnapshotSaved(e) ==
  /\ e \in bus /\ bus' = bus \ {e}
  /\ cache' = [q \in Requests |-> IF q \in {{}, {e}} THEN NoEntry ELSE cache[q]]
  /\ UNCHANGED <<storeVars, loads, started, zones, reader>>

MessageLost(e) ==
  /\ e \in bus /\ bus' = bus \ {e}
  /\ UNCHANGED <<storeVars, cache, loads, started, zones, reader>>

(* Time passes while no load is older than its calls allow.                *)
CacheTick ==
  /\ \A l \in loads : now < l.since + LoadTime
  /\ Tick /\ UNCHANGED cacheOnly

StoreSide ==
  /\ \/ \E e \in ExpiryDays : Fetch("worker", e)
     \/ UpsertMetadata("worker") \/ SaveFails("worker") \/ Save("api")
  /\ UNCHANGED cacheOnly

CacheInit ==
  /\ StoreInit /\ cache = [q \in Requests |-> NoEntry] /\ loads = {} /\ started = 0
  /\ zones = {} /\ reader = [r \in Readers |-> NoReader] /\ bus = {}

LoadStep(l) == LoadRead(l) \/ LoadLiveFails(l) \/ LoadDone(l) \/ \E e \in ExpiryDays : LoadLive(l, e)

CacheNext ==
  \/ StoreSide \/ WorkerSaves \/ CacheTick
  \/ \E e \in bus : SnapshotSaved(e) \/ MessageLost(e)
  \/ \E l \in loads : LoadStep(l)
  \/ \E r \in Readers : Respond(r) \/ \E q \in Requests : Request(r, q)

CacheSpec == CacheInit /\ [][CacheNext]_cacheVars

-----------------------------------------------------------------------------
(* The pressure and zones of a response are computed from the very ticks   *)
(* it carries, although two requests that resolve to one expiry are cached *)
(* apart and share the pressure cache.                                     *)
PairedPressure == \A r \in Readers : reader[r].pc = "served" => reader[r].zones = reader[r].snap.id

(* However loads, saves, invalidations and lost messages interleave - a    *)
(* slow load may even put an older row back after the message cleared it - *)
(* a response is behind the stored rows of the expiry asked for by no more *)
(* than one load and one lifetime of the cache entry.  (Of the expiry it   *)
(* shows, if none was asked for: which one is nearest moves at midnight,   *)
(* and with the first metadata of a nearer contract, under what is cached.)*)
RowsBehind(wants, snap) ==
  {s \in snaps : s.expiry \in IF wants # {} THEN wants ELSE {snap.expiry}}

BoundedStaleness ==
  \A r \in Readers : reader[r].pc = "served" /\ (reader[r].wants # {} \/ reader[r].snap # NoSnap) =>
    \A s \in RowsBehind(reader[r].wants, reader[r].snap) :
      s.time + SaveTime + LoadTime + CacheTtl < reader[r].at => reader[r].snap.time >= s.time

-----------------------------------------------------------------------------
(* One quote of the API's ticker strip: the stale-while-revalidate cache   *)
(* of apps/api/src/server.ts (getMarketAuxData) and the fetch behind it,   *)
(* which takes a price and a previous close from whichever of the live     *)
(* feed, the LTP call, the OHLC call and the stored captures has one.  A   *)
(* price is abstracted to the trading day it is of.  Quotes read during a  *)
(* session are of that session.                                            *)
CONSTANTS
  MaxDay,       \* bound: the last trading day
  MaxFetches    \* bound: fetches begun

ASSUME TickerConstants == MaxDay \in Nat /\ MaxFetches \in Nat

VARIABLES
  bourse,   \* the trading day begun last, whether its session is open, and
            \* the days of which a capture is stored
  aux,      \* marketAuxCache's entry for one list of symbols
  fetches,  \* getFreshMarketAuxData calls in flight
  begun

tickerVars == <<bourse, aux, fetches, begun>>

NoQuote == [spot |-> {}, prev |-> {}]
NoAux   == [there |-> FALSE, fresh |-> FALSE, refreshing |-> FALSE, item |-> NoQuote, settled |-> FALSE]

-----------------------------------------------------------------------------
(* Of the days a session ran, the worker may have missed some.             *)
SessionOpens ==
  /\ ~bourse.open /\ bourse.day < MaxDay
  /\ bourse' = [bourse EXCEPT !.open = TRUE, !.day = @ + 1]
  /\ fetches' = {[f EXCEPT !.settled = FALSE] : f \in fetches}
  /\ UNCHANGED <<aux, begun>>

SessionCloses ==
  /\ bourse.open /\ bourse' = [bourse EXCEPT !.open = FALSE]
  /\ UNCHANGED <<aux, fetches, begun>>

CaptureStored ==
  /\ bourse.open /\ bourse' = [bourse EXCEPT !.kept = @ \cup {bourse.day}]
  /\ UNCHANGED <<aux, fetches, begun>>

(* The close a quote carries: during the session that of the day before;   *)
(* after it, that of either day.                                           *)
ClosesQuoted == IF bourse.open THEN {bourse.day - 1} ELSE {bourse.day - 1, bourse.day}

(* getLatestSpotChange: the newest capture, and the newest one of a        *)
(* trading day before it.                                                  *)
StoredSpot == Max(bourse.kept)
StoredCloseAnyCapture == StoredSpot
StoredClose == Max(bourse.kept \ {StoredSpot})

-----------------------------------------------------------------------------
(* getMarketAuxData.  settled, for the property only: the session is over, *)
(* or a capture of it is stored already.                                   *)
Begin(cold) ==
  /\ begun < MaxFetches /\ begun' = begun + 1
  /\ fetches' = fetches \cup {[id |-> begun', pc |-> "feed", cold |-> cold, spot |-> {}, prev |-> {},
                               settled |-> ~bourse.open \/ bourse.day \in bourse.kept]}

(* What is cached is served, and refreshed by one request when it is old;  *)
(* with nothing cached every request fetches, and waits.                   *)
AskTicker ==
  /\ \/ aux.there /\ ~aux.fresh /\ ~aux.refreshing /\ Begin(FALSE) /\ aux' = [aux EXCEPT !.refreshing = TRUE]
     \/ ~aux.there /\ Begin(TRUE) /\ UNCHANGED aux
  /\ UNCHANGED bourse

AuxAges == aux.fresh /\ aux' = [aux EXCEPT !.fresh = FALSE] /\ UNCHANGED <<bourse, fetches, begun>>

(* A new watchlist clears the cache and leaves the fetches in flight.      *)
WatchlistSaved == aux.there /\ aux' = NoAux /\ UNCHANGED <<bourse, fetches, begun>>

Becomes(f, g) == fetches' = (fetches \ {f}) \cup {g}

(* A fresh tick of the live feed replaces both calls; the close is in it   *)
(* only once a packet that carries it has come.                            *)
FromFeed(f) ==
  /\ f.pc = "feed"
  /\ \/ Becomes(f, [f EXCEPT !.pc = "ltp"])
     \/ Becomes(f, [f EXCEPT !.pc = "build", !.spot = {bourse.day}])
     \/ \E d \in ClosesQuoted : Becomes(f, [f EXCEPT !.pc = "build", !.spot = {bourse.day}, !.prev = {d}])
  /\ UNCHANGED <<bourse, aux, begun>>

(* The two calls, more than a second apart, either of which may fail.      *)
FromLtp(f) ==
  /\ f.pc = "ltp"
  /\ \/ Becomes(f, [f EXCEPT !.pc = "ohlc"])
     \/ Becomes(f, [f EXCEPT !.pc = "ohlc", !.spot = {bourse.day}])
  /\ UNCHANGED <<bourse, aux, begun>>

FromOhlc(f) ==
  /\ f.pc = "ohlc"
  /\ \/ Becomes(f, [f EXCEPT !.pc = "build"])
     \/ \E d \in ClosesQuoted :
          Becomes(f, [f EXCEPT !.pc = "build", !.spot = IF f.spot = {} THEN {bourse.day} ELSE @, !.prev = {d}])
  /\ UNCHANGED <<bourse, aux, begun>>

(* The quote: live figures first during the session, stored ones first     *)
(* outside it.  A fetch that failed altogether is built from the stored    *)
(* ones and cached like any other.                                         *)
Prefer(one, other) == IF one # {} THEN one ELSE other
QuoteOf(f) ==
  IF bourse.open
  THEN [spot |-> Prefer(f.spot, {StoredSpot}), prev |-> Prefer(f.prev, {StoredClose})]
  ELSE [spot |-> {StoredSpot}, prev |-> {StoredClose}]

(* The lifetime of an entry that a request waited for began with the       *)
(* request.                                                                *)
BuildQuote(f) ==
  /\ f.pc = "build" /\ fetches' = fetches \ {f}
  /\ \E fresh \in (IF f.cold THEN BOOLEAN ELSE {TRUE}) :
       aux' = [there |-> TRUE, fresh |-> fresh, refreshing |-> FALSE, item |-> QuoteOf(f), settled |-> f.settled]
  /\ UNCHANGED <<bourse, begun>>

-----------------------------------------------------------------------------
TickerInit ==
  /\ bourse = [day |-> 2, open |-> FALSE, kept |-> {1, 2}] /\ aux = NoAux /\ fetches = {} /\ begun = 0

TickerNext ==
  \/ SessionOpens \/ SessionCloses \/ CaptureStored
  \/ AskTicker \/ AuxAges \/ WatchlistSaved
  \/ \E f \in fetches : FromFeed(f) \/ FromLtp(f) \/ FromOhlc(f) \/ BuildQuote(f)

TickerSpec == TickerInit /\ [][TickerNext]_tickerVars

-----------------------------------------------------------------------------
(* Whatever of its four sources a quote is put together from, and however  *)
(* old it is when served, its change is from the close before the price's  *)
(* day - the last trading day's, or the last one captured - once a capture *)
(* of the running session is stored.  (Before it, a live price beside a    *)
(* failed OHLC call is compared with the close of two days earlier.)       *)
ChangeIsOfOneDay ==
  aux.there /\ aux.settled =>
    \A s \in aux.item.spot, p \in aux.item.prev : p < s /\ \A d \in bourse.kept : d < s => d <= p
=============================================================================
