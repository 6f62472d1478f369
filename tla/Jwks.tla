-------------------------------- MODULE Jwks --------------------------------
(***************************************************************************)
(* The JWKS cache of an isolate (JWTTokenHelper.resolveJwksKey), for one   *)
(* key set URL: the entry is shared by the requests of the isolate, which  *)
(* overlap at their fetches, while the provider rotates its keys.  Tokens  *)
(* name their key (kid).  One tick of `instant' is one second.             *)
(***************************************************************************)
EXTENDS Integers

CONSTANTS
  Checks,      \* requests that may be under way at a time
  Kids,        \* key ids
  JWKS_CACHE_TTL,  \* how long an entry is used
  JustFetched, \* how long an entry is taken as complete
  MaxInstant   \* bound on the time

ASSUME JwksAssumption ==
  /\ JWKS_CACHE_TTL \in Nat /\ JustFetched \in Nat /\ MaxInstant \in Nat

VARIABLES
  instant,
  published,   \* the keys the provider publishes
  changed,     \* key: when it was published or retired last
  jwksCache,   \* the entry of the isolate, or NoEntry
  check        \* the requests

jwksVars == <<instant, published, changed, jwksCache, check>>

NoEntry == [keys |-> {}, fetchedAt |-> -1]
CacheEntries == [keys : SUBSET Kids, fetchedAt : 0 .. MaxInstant] \cup {NoEntry}

(* A request: the key its token names, the time it began (now), and the    *)
(* key set on its way to it.                                               *)
NoCheck == [step |-> "idle", kid |-> "none", now |-> 0, keys |-> {}]

KeyCheck == [step : {"fetching", "served", "found", "refused"}, kid : Kids,
             now : 0 .. MaxInstant, keys : SUBSET Kids] \cup {NoCheck}

JwksTypeOK ==
  /\ instant \in 0 .. MaxInstant /\ published \in SUBSET Kids
  /\ changed \in [Kids -> 0 .. MaxInstant] /\ jwksCache \in CacheEntries
  /\ check \in [Checks -> KeyCheck]

JwksInit ==
  /\ instant = 0
  /\ published \in SUBSET Kids \ {{}}
  /\ changed = [k \in Kids |-> 0]
  /\ jwksCache = NoEntry
  /\ check = [c \in Checks |-> NoCheck]

PassTime ==
  /\ instant < MaxInstant /\ instant' = instant + 1
  /\ UNCHANGED <<published, changed, jwksCache, check>>

(* The provider publishes a key, or retires one of several.                *)
Rotate(k) ==
  /\ published' \in {published \cup {k}, published \ {k}}
  /\ published' # published /\ published' # {}
  /\ changed' = [changed EXCEPT ![k] = instant]
  /\ UNCHANGED <<instant, jwksCache, check>>

Expired(entry) == instant - entry.fetchedAt > JWKS_CACHE_TTL

Find(keys, k) == IF k \in keys THEN "found" ELSE "refused"

(* Mutant: a key that is not in the entry is not there.                    *)
LookUpOnce(k) ==
  IF jwksCache = NoEntry \/ Expired(jwksCache) THEN "fetching" ELSE Find(jwksCache.keys, k)

(* Up to the first await: the entry is used, or fetched, or fetched again  *)
(* because it lacks the key and is not that new.                           *)
LookUp(k) ==
  IF jwksCache = NoEntry \/ Expired(jwksCache) THEN "fetching"
  ELSE IF k \notin jwksCache.keys /\ instant - jwksCache.fetchedAt > JustFetched
    THEN "fetching" ELSE Find(jwksCache.keys, k)

Begin(c, k) ==
  /\ check[c].step \notin {"fetching", "served"}
  /\ check' = [check EXCEPT ![c] =
       [step |-> LookUp(k), kid |-> k, now |-> instant, keys |-> {}]]
  /\ jwksCache' =
       IF LookUp(k) = "fetching" /\ ~Expired(jwksCache) THEN NoEntry ELSE jwksCache
  /\ UNCHANGED <<instant, published, changed>>

(* The provider answers; the answer takes its time.                        *)
ServeKeys(c) ==
  /\ check[c].step = "fetching"
  /\ check' = [check EXCEPT ![c].step = "served", ![c].keys = published]
  /\ UNCHANGED <<instant, published, changed, jwksCache>>

(* The fetch fails: 502, and what is cached stays.                         *)
FetchFails(c) ==
  /\ check[c].step \in {"fetching", "served"}
  /\ check' = [check EXCEPT ![c] = NoCheck]
  /\ UNCHANGED <<instant, published, changed, jwksCache>>

(* Mutant: the entry is dated when the answer arrives.                     *)
FetchedAtArrival(c) == instant

(* The entry is dated when the fetch began.                                *)
FetchedAt(c) == check[c].now

(* The answer replaces the entry, whoever wrote it since; the key is       *)
(* looked for in this answer and not fetched again.                        *)
Arrive(c) ==
  /\ check[c].step = "served"
  /\ jwksCache' = [keys |-> check[c].keys, fetchedAt |-> FetchedAt(c)]
  /\ check' = [check EXCEPT ![c].step = Find(check[c].keys, check[c].kid), ![c].keys = {}]
  /\ UNCHANGED <<instant, published, changed>>

JwksNext ==
  \/ PassTime
  \/ \E k \in Kids : Rotate(k)
  \/ \E c \in Checks :
       \/ \E k \in Kids : Begin(c, k)
       \/ ServeKeys(c) \/ FetchFails(c) \/ Arrive(c)

JwksSpec == JwksInit /\ [][JwksNext]_jwksVars

-----------------------------------------------------------------------------
(* A new key is found: a request that begins more than JustFetched after   *)
(* its key was published is not refused, whichever older answers of other  *)
(* requests arrive meanwhile.                                              *)
RotatedKeyFound ==
  \A c \in Checks :
    check[c].step = "refused" /\ check[c].kid \in published
      => check[c].now <= changed[check[c].kid] + JustFetched

(* A retired key is forgotten: a request that begins more than the         *)
(* lifetime of an entry after its key was retired is refused.              *)
RetiredKeyForgotten ==
  \A c \in Checks :
    check[c].step = "found" /\ check[c].kid \notin published
      => check[c].now <= changed[check[c].kid] + JWKS_CACHE_TTL
=============================================================================
