-------------------------- MODULE HyperliquidCache --------------------------
(***************************************************************************)
(* The API's reads of Hyperliquid (api/src/hyperliquid): the listings of   *)
(* the perps and of their stats, each a fan-out of one request per perp    *)
(* DEX (client.ts), behind a cache with a time to live, one shared request *)
(* in flight and the last good value as the fallback (cache.ts).           *)
(*                                                                         *)
(* A listing is the set of DEXes whose markets it holds: what a failing    *)
(* request costs is the markets of a DEX. Prices are not modelled. The     *)
(* cache lives in the API's process and is gone after a restart.           *)
(***************************************************************************)
EXTENDS Naturals

CONSTANTS
  Caller,  \* requests to the API that may be in flight at once
  Dex,     \* the builder-deployed (HIP-3) DEXes
  Main     \* the default DEX

ASSUME CacheAssumption == Main \notin Dex

Listings == {"perps", "stats"}
All      == Dex \cup {Main}
Nothing  == {}       \* entry.value is undefined
Failed   == {"error"}
NoFlight == [at |-> "none", open |-> {}, got |-> {}, stale |-> Nothing]

ASSUME FailedAssumption == "error" \notin All

VARIABLES
  value,    \* entry.value of the two cached functions
  fresh,    \* now() - entry.fetchedAt < ttlMs
  flight,   \* entry.inFlight: the DEXes whose request is open, and those that answered
  waiting,  \* callers that share it
  answer    \* what each caller got last

cacheVars == <<value, fresh, flight, waiting, answer>>

Flight ==
  [at : {"none", "dexs", "fan"}, open : SUBSET All, got : SUBSET All, stale : SUBSET All]

\* Main is in every listing: without it there is no value.
CacheTypeOK ==
  /\ value \in [Listings -> SUBSET All]
  /\ fresh \in [Listings -> BOOLEAN]
  /\ flight \in [Listings -> Flight]
  /\ waiting \in [Listings -> SUBSET Caller]
  /\ answer \in [Listings -> [Caller -> (SUBSET All) \cup {Failed}]]

CacheInit ==
  /\ value = [l \in Listings |-> Nothing]
  /\ fresh = [l \in Listings |-> FALSE]
  /\ flight = [l \in Listings |-> NoFlight]
  /\ waiting = [l \in Listings |-> {}]
  /\ answer = [l \in Listings |-> [c \in Caller |-> Nothing]]

Tell(l, C, v) ==
  answer' = [answer EXCEPT ![l] = [c \in Caller |-> IF c \in C THEN v ELSE @[c]]]

-----------------------------------------------------------------------------
(* A call of listPerps or listPerpStats.                                   *)

Hit(l, c) ==
  /\ c \notin waiting[l]
  /\ value[l] # Nothing /\ fresh[l]
  /\ Tell(l, {c}, value[l])
  /\ UNCHANGED <<value, fresh, flight, waiting>>

\* The first caller starts the load, the others share it.
Miss(l, c) ==
  /\ c \notin waiting[l]
  /\ ~(value[l] # Nothing /\ fresh[l])
  /\ waiting' = [waiting EXCEPT ![l] = @ \cup {c}]
  /\ flight' = IF flight[l] # NoFlight THEN flight
               ELSE [flight EXCEPT ![l] =
                       [at |-> "dexs", open |-> {}, got |-> {}, stale |-> value[l]]]
  /\ UNCHANGED <<value, fresh, answer>>

\* perpDexs: the list of builder DEXes, then one request per DEX.
Dexs(l) ==
  /\ flight[l].at = "dexs"
  /\ flight' = [flight EXCEPT ![l].at = "fan", ![l].open = All]
  /\ UNCHANGED <<value, fresh, waiting, answer>>

Reply(l, d) ==
  /\ flight[l].at = "fan" /\ d \in flight[l].open
  /\ flight' = [flight EXCEPT ![l].open = @ \ {d}, ![l].got = @ \cup {d}]
  /\ UNCHANGED <<value, fresh, waiting, answer>>

\* Promise.allSettled: a failing DEX of the stats is waited for like any other.
Drop(d) ==
  /\ flight["stats"].at = "fan" /\ d \in flight["stats"].open
  /\ flight' = [flight EXCEPT !["stats"].open = @ \ {d}]
  /\ UNCHANGED <<value, fresh, waiting, answer>>

\* Everybody who waits is told, and the load is over.
Done(l, v) ==
  /\ Tell(l, waiting[l], v)
  /\ waiting' = [waiting EXCEPT ![l] = {}]
  /\ flight' = [flight EXCEPT ![l] = NoFlight]

Settled(l) == flight[l].at = "fan" /\ flight[l].open = {}

\* The listing of the DEXes that answered, the default one at least, replaces
\* the old one.
LoadSucceeds(l) ==
  /\ Settled(l) /\ Main \in flight[l].got
  /\ value' = [value EXCEPT ![l] = flight[l].got]
  /\ fresh' = [fresh EXCEPT ![l] = TRUE]
  /\ Done(l, flight[l].got)

\* A request the listing cannot do without fails or is rate limited: any of
\* the perps' (Promise.all), the stats' for the DEXes and for the default one.
Rejected(l) ==
  \/ flight[l].at = "dexs"
  \/ l = "perps" /\ flight[l].at = "fan" /\ flight[l].open # {}
  \/ l = "stats" /\ Settled(l) /\ Main \notin flight[l].got

\* Faulty variant: the error is passed on although there is an old value.
Rethrown(l) ==
  /\ Rejected(l)
  /\ Done(l, Failed)
  /\ UNCHANGED <<value, fresh>>

\* The value from before the load, however old, or the error if there is none.
LoadFails(l) ==
  /\ Rejected(l)
  /\ Done(l, IF flight[l].stale = Nothing THEN Failed ELSE flight[l].stale)
  /\ UNCHANGED <<value, fresh>>

\* The time to live passes: 5 minutes for the perps, 30 s for the stats.
GoStale(l) ==
  /\ fresh[l]
  /\ fresh' = [fresh EXCEPT ![l] = FALSE]
  /\ UNCHANGED <<value, flight, waiting, answer>>

Upstream(l) ==
  \/ Dexs(l) \/ LoadSucceeds(l) \/ LoadFails(l)
  \/ \E d \in All : Reply(l, d) \/ (l = "stats" /\ Drop(d))

CacheStep(l) ==
  \/ \E c \in Caller : Hit(l, c) \/ Miss(l, c)
  \/ Upstream(l) \/ GoStale(l)

CacheNext == \E l \in Listings : CacheStep(l)

CacheSpec == CacheInit /\ [][CacheNext]_cacheVars

\* Every request to Hyperliquid answers or fails.
CacheFairness == \A l \in Listings : WF_cacheVars(Upstream(l))

-----------------------------------------------------------------------------
(* Each listing implements LastGood.                                       *)

Perps == INSTANCE LastGood WITH
  Value <- {v \in SUBSET All : Main \in v}, NoValue <- Nothing, Error <- Failed,
  good <- value["perps"], waiting <- waiting["perps"], answer <- answer["perps"]

Stats == INSTANCE LastGood WITH
  Value <- {v \in SUBSET All : Main \in v}, NoValue <- Nothing, Error <- Failed,
  good <- value["stats"], waiting <- waiting["stats"], answer <- answer["stats"]

\* "The cache serves a fresh value without touching Hyperliquid, shares one
\* upstream request between concurrent callers, and falls back to the last good
\* value when a refresh fails": both listings keep what LastGood promises,
\* callers, loads, expiries and failures interleaved in any way, and every
\* caller is answered.
ServesLastGood == Perps!FairSpec /\ Stats!FairSpec
=============================================================================
