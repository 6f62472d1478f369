------------------------- MODULE Providers_proofs -------------------------
(***************************************************************************)
(* Theorems about what comes from identity providers.                      *)
(*                                                                         *)
(* The key cache, for any keys, lifetimes and number of overlapping        *)
(* requests; and logging in at a provider, for any browsers, logins and    *)
(* requests that bring a browser back.                                     *)
(***************************************************************************)
EXTENDS Jwks, ExternalLogin, TLAPS

(* No time lies ahead.                                                     *)
InThePast ==
  /\ jwksCache.fetchedAt <= instant
  /\ \A k \in Kids : changed[k] <= instant
  /\ \A c \in Checks : check[c].now <= instant

(* A key set that was asked for at `since' differs from what is published  *)
(* only in keys that were published or retired from then on.               *)
AgreesSince(keys, since) ==
  \A k \in Kids : (k \in keys) # (k \in published) => since <= changed[k]

CacheAgrees == AgreesSince(jwksCache.keys, jwksCache.fetchedAt)

AnswersAgree ==
  \A c \in Checks : check[c].step = "served" => AgreesSince(check[c].keys, check[c].now)

JwksInv ==
  /\ JwksTypeOK /\ InThePast
  /\ CacheAgrees /\ AnswersAgree
  /\ RotatedKeyFound /\ RetiredKeyForgotten

-----------------------------------------------------------------------------
LEMMA JwksInitInv == JwksInit => JwksInv
BY JwksAssumption
   DEF JwksInit, JwksInv, JwksTypeOK, InThePast, AgreesSince, CacheAgrees, AnswersAgree,
       RotatedKeyFound, RetiredKeyForgotten, NoEntry, CacheEntries, NoCheck, KeyCheck

(* What was said of a key set stays true when the provider rotates a key:  *)
(* the key that changes, changes now.                                      *)
LEMMA RotateAgrees ==
  ASSUME JwksTypeOK, NEW k \in Kids, Rotate(k),
         NEW keys, NEW since \in Int, since <= instant, AgreesSince(keys, since)
  PROVE  AgreesSince(keys, since)'
<1>. SUFFICES ASSUME NEW l \in Kids, (l \in keys) # (l \in published')
              PROVE  since <= changed'[l]
  BY DEF AgreesSince
<1>1. CASE l = k
  BY <1>1 DEF JwksTypeOK, Rotate
<1>2. CASE l # k
  <2>1. (l \in published') <=> (l \in published)
    BY <1>2 DEF Rotate
  <2>. QED
    BY <1>2, <2>1 DEF JwksTypeOK, Rotate, AgreesSince
<1>. QED
  BY <1>1, <1>2

LEMMA PassTimeKeeps == JwksInv /\ PassTime => JwksInv'
<1>. SUFFICES ASSUME JwksInv, PassTime  PROVE JwksInv'
  OBVIOUS
<1>. USE DEF JwksInv, PassTime
<1>1. JwksTypeOK' /\ InThePast'
  BY JwksAssumption DEF JwksTypeOK, InThePast, CacheEntries, NoEntry, KeyCheck, NoCheck
<1>2. CacheAgrees' /\ AnswersAgree'
  BY DEF CacheAgrees, AnswersAgree, AgreesSince
<1>3. RotatedKeyFound' /\ RetiredKeyForgotten'
  BY DEF RotatedKeyFound, RetiredKeyForgotten
<1>. QED
  BY <1>1, <1>2, <1>3

LEMMA RotateKeeps == \A k \in Kids : JwksInv /\ Rotate(k) => JwksInv'
<1>. SUFFICES ASSUME NEW k \in Kids, JwksInv, Rotate(k)  PROVE JwksInv'
  OBVIOUS
<1>. USE DEF JwksInv
<1>1. JwksTypeOK'
  BY DEF Rotate, JwksTypeOK
<1>2. InThePast'
  BY DEF Rotate, JwksTypeOK, InThePast
<1>3. CacheAgrees'
  <2>1. jwksCache.fetchedAt \in Int /\ jwksCache.fetchedAt <= instant
    BY JwksAssumption DEF JwksTypeOK, CacheEntries, NoEntry, InThePast
  <2>. QED
    BY <2>1, RotateAgrees DEF CacheAgrees, Rotate, AgreesSince
<1>4. AnswersAgree'
  <2>. SUFFICES ASSUME NEW c \in Checks, check[c].step = "served"
                PROVE  AgreesSince(check[c].keys, check[c].now)'
    BY DEF AnswersAgree, Rotate
  <2>1. check[c].now \in Int /\ check[c].now <= instant
    BY JwksAssumption DEF JwksTypeOK, KeyCheck, NoCheck, InThePast
  <2>. QED
    BY <2>1, RotateAgrees DEF AnswersAgree, Rotate, AgreesSince
<1>5. RotatedKeyFound' /\ RetiredKeyForgotten'
  <2>. SUFFICES ASSUME NEW c \in Checks, NEW l \in Kids, check[c].kid = l
                PROVE  /\ check[c].step = "refused" /\ l \in published'
                            => check[c].now <= changed'[l] + JustFetched
                       /\ check[c].step = "found" /\ l \notin published'
                            => check[c].now <= changed'[l] + JWKS_CACHE_TTL
    BY DEF RotatedKeyFound, RetiredKeyForgotten, Rotate, JwksTypeOK, KeyCheck, NoCheck
  <2>1. check[c].now \in Nat /\ check[c].now <= instant /\ instant \in Nat
    BY JwksAssumption DEF JwksTypeOK, KeyCheck, NoCheck, InThePast
  <2>2. CASE l = k
    BY <2>1, <2>2, JwksAssumption DEF Rotate, JwksTypeOK
  <2>3. CASE l # k
    BY <2>3 DEF Rotate, JwksTypeOK, RotatedKeyFound, RetiredKeyForgotten
  <2>. QED
    BY <2>2, <2>3
<1>. QED
  BY <1>1, <1>2, <1>3, <1>4, <1>5

(* The entry answers for a key within its lifetime, and says that there is *)
(* no such key only while it is new.                                       *)
LEMMA BeginKeeps == \A c \in Checks, k \in Kids : JwksInv /\ Begin(c, k) => JwksInv'
<1>. SUFFICES ASSUME NEW c \in Checks, NEW k \in Kids, JwksInv, Begin(c, k)
              PROVE  JwksInv'
  OBVIOUS
<1>. USE DEF JwksInv
<1>1. LookUp(k) \in {"fetching", "found", "refused"}
  BY DEF LookUp, Find
<1>2. /\ instant \in Nat /\ instant <= MaxInstant
      /\ jwksCache.fetchedAt \in Int /\ jwksCache.keys \in SUBSET Kids
      /\ changed \in [Kids -> Nat]
  BY JwksAssumption DEF JwksTypeOK, CacheEntries, NoEntry
<1>3. jwksCache' \in {jwksCache, NoEntry}
  BY DEF Begin
<1>4. JwksTypeOK'
  <2>1. check' \in [Checks -> KeyCheck]
    BY <1>1, <1>2 DEF Begin, JwksTypeOK, KeyCheck
  <2>. QED
    BY <2>1, <1>3 DEF Begin, JwksTypeOK, CacheEntries
<1>5. InThePast'
  BY <1>2, <1>3 DEF Begin, JwksTypeOK, InThePast, NoEntry
<1>6. CacheAgrees'
  BY <1>2, <1>3 DEF Begin, CacheAgrees, AgreesSince, NoEntry
<1>7. AnswersAgree'
  BY <1>1 DEF Begin, AnswersAgree, AgreesSince, JwksTypeOK
<1>8. /\ LookUp(k) = "refused" /\ k \in published => instant <= changed[k] + JustFetched
      /\ LookUp(k) = "found" /\ k \notin published => instant <= changed[k] + JWKS_CACHE_TTL
  <2>1. ~Expired(jwksCache) => instant <= jwksCache.fetchedAt + JWKS_CACHE_TTL
    BY <1>2, JwksAssumption DEF Expired
  <2>2. CASE LookUp(k) = "refused" /\ k \in published
    <3>1. k \notin jwksCache.keys /\ instant <= jwksCache.fetchedAt + JustFetched
      BY <2>2, <1>2, JwksAssumption DEF LookUp, Find
    <3>2. jwksCache.fetchedAt <= changed[k]
      BY <2>2, <3>1 DEF CacheAgrees, AgreesSince
    <3>. QED
      BY <2>2, <3>1, <3>2, <1>2, JwksAssumption
  <2>3. CASE LookUp(k) = "found" /\ k \notin published
    <3>1. k \in jwksCache.keys /\ ~Expired(jwksCache)
      BY <2>3 DEF LookUp, Find
    <3>2. jwksCache.fetchedAt <= changed[k]
      BY <2>3, <3>1 DEF CacheAgrees, AgreesSince
    <3>. QED
      BY <2>1, <2>3, <3>1, <3>2, <1>2, JwksAssumption
  <2>. QED
    BY <2>2, <2>3
<1>9. RotatedKeyFound' /\ RetiredKeyForgotten'
  <2>. SUFFICES ASSUME NEW b \in Checks
                PROVE  /\ (check[b].step = "refused" /\ check[b].kid \in published
                            => check[b].now <= changed[check[b].kid] + JustFetched)'
                       /\ (check[b].step = "found" /\ check[b].kid \notin published
                            => check[b].now <= changed[check[b].kid] + JWKS_CACHE_TTL)'
    BY DEF RotatedKeyFound, RetiredKeyForgotten
  <2>1. CASE b = c
    BY <2>1, <1>8 DEF Begin, JwksTypeOK
  <2>2. CASE b # c
    BY <2>2 DEF Begin, JwksTypeOK, RotatedKeyFound, RetiredKeyForgotten
  <2>. QED
    BY <2>1, <2>2
<1>. QED
  BY <1>4, <1>5, <1>6, <1>7, <1>9

LEMMA ServeKeysKeeps == \A c \in Checks : JwksInv /\ ServeKeys(c) => JwksInv'
<1>. SUFFICES ASSUME NEW c \in Checks, JwksInv, ServeKeys(c)  PROVE JwksInv'
  OBVIOUS
<1>. USE DEF JwksInv, ServeKeys
<1>1. check[c] \in KeyCheck /\ check[c] # NoCheck
  BY DEF JwksTypeOK, NoCheck
<1>2. JwksTypeOK'
  BY <1>1 DEF JwksTypeOK, KeyCheck
<1>3. InThePast'
  BY DEF JwksTypeOK, InThePast
<1>4. CacheAgrees'
  BY DEF CacheAgrees, AgreesSince
<1>5. AnswersAgree'
  BY DEF JwksTypeOK, AnswersAgree, AgreesSince
<1>6. RotatedKeyFound' /\ RetiredKeyForgotten'
  BY DEF JwksTypeOK, RotatedKeyFound, RetiredKeyForgotten
<1>. QED
  BY <1>2, <1>3, <1>4, <1>5, <1>6

LEMMA FetchFailsKeeps == \A c \in Checks : JwksInv /\ FetchFails(c) => JwksInv'
<1>. SUFFICES ASSUME NEW c \in Checks, JwksInv, FetchFails(c)  PROVE JwksInv'
  OBVIOUS
<1>. USE DEF JwksInv, FetchFails
<1>1. JwksTypeOK' /\ InThePast'
  BY JwksAssumption DEF JwksTypeOK, InThePast, KeyCheck, NoCheck
<1>2. CacheAgrees' /\ AnswersAgree'
  BY DEF JwksTypeOK, CacheAgrees, AnswersAgree, AgreesSince, NoCheck
<1>3. RotatedKeyFound' /\ RetiredKeyForgotten'
  BY DEF JwksTypeOK, RotatedKeyFound, RetiredKeyForgotten, NoCheck
<1>. QED
  BY <1>1, <1>2, <1>3

(* An answer is dated when its request began: it may replace a newer one,  *)
(* and is used for as long as its own date allows.                         *)
LEMMA ArriveKeeps == \A c \in Checks : JwksInv /\ Arrive(c) => JwksInv'
<1>. SUFFICES ASSUME NEW c \in Checks, JwksInv, Arrive(c)  PROVE JwksInv'
  OBVIOUS
<1>. USE DEF JwksInv
<1>1. /\ check[c] \in KeyCheck /\ check[c].step = "served"
      /\ check[c].kid \in Kids /\ check[c].now \in 0 .. MaxInstant
      /\ check[c].keys \in SUBSET Kids
  BY DEF Arrive, JwksTypeOK, KeyCheck, NoCheck
<1>2. AgreesSince(check[c].keys, check[c].now)
  BY <1>1 DEF AnswersAgree
<1>3. JwksTypeOK'
  <2>1. jwksCache' \in CacheEntries
    BY <1>1 DEF Arrive, CacheEntries, FetchedAt
  <2>2. check' \in [Checks -> KeyCheck]
    <3>1. check'[c] = [step |-> Find(check[c].keys, check[c].kid), kid |-> check[c].kid,
                       now |-> check[c].now, keys |-> {}]
      BY <1>1 DEF Arrive, JwksTypeOK, KeyCheck, NoCheck
    <3>2. check'[c] \in KeyCheck
      BY <1>1, <3>1 DEF KeyCheck, Find
    <3>. QED
      BY <3>2 DEF Arrive, JwksTypeOK
  <2>. QED
    BY <2>1, <2>2 DEF Arrive, JwksTypeOK
<1>4. InThePast'
  BY <1>1 DEF Arrive, JwksTypeOK, InThePast, FetchedAt
<1>5. CacheAgrees'
  BY <1>2 DEF Arrive, CacheAgrees, AgreesSince, FetchedAt
<1>6. AnswersAgree'
  BY DEF Arrive, JwksTypeOK, AnswersAgree, AgreesSince, Find
<1>7. RotatedKeyFound' /\ RetiredKeyForgotten'
  <2>. SUFFICES ASSUME NEW b \in Checks
                PROVE  /\ (check[b].step = "refused" /\ check[b].kid \in published
                            => check[b].now <= changed[check[b].kid] + JustFetched)'
                       /\ (check[b].step = "found" /\ check[b].kid \notin published
                            => check[b].now <= changed[check[b].kid] + JWKS_CACHE_TTL)'
    BY DEF RotatedKeyFound, RetiredKeyForgotten
  <2>1. CASE b = c
    <3>1. (check[c].kid \in check[c].keys) # (check[c].kid \in published)
            => check[c].now <= changed[check[c].kid]
      BY <1>1, <1>2 DEF AgreesSince
    <3>2. changed[check[c].kid] \in Nat
      BY <1>1, JwksAssumption DEF JwksTypeOK
    <3>. QED
      BY <2>1, <3>1, <3>2, <1>1, JwksAssumption DEF Arrive, JwksTypeOK, Find
  <2>2. CASE b # c
    BY <2>2 DEF Arrive, JwksTypeOK, RotatedKeyFound, RetiredKeyForgotten
  <2>. QED
    BY <2>1, <2>2
<1>. QED
  BY <1>3, <1>4, <1>5, <1>6, <1>7

-----------------------------------------------------------------------------
(* The inductive invariant of the key cache.                               *)
THEOREM JwksInvariant == JwksSpec => []JwksInv
<1>1. JwksInv /\ [JwksNext]_jwksVars => JwksInv'
  <2>1. JwksInv /\ UNCHANGED jwksVars => JwksInv'
    BY DEF JwksInv, jwksVars, JwksTypeOK, InThePast, CacheAgrees, AnswersAgree, AgreesSince,
           RotatedKeyFound, RetiredKeyForgotten
  <2>. QED
    BY <2>1, PassTimeKeeps, RotateKeeps, BeginKeeps, ServeKeysKeeps, FetchFailsKeeps,
       ArriveKeeps DEF JwksNext
<1>. QED
  BY <1>1, JwksInitInv, PTL DEF JwksSpec

(* Type correctness of the key cache.                                      *)
THEOREM JwksTypeCorrect == JwksSpec => []JwksTypeOK
BY JwksInvariant, PTL DEF JwksInv

(* A request that begins more than JustFetched after its key was published *)
(* is not refused, whichever answers of other requests arrive in between.  *)
THEOREM RotatedKeysFound == JwksSpec => []RotatedKeyFound
BY JwksInvariant, PTL DEF JwksInv

(* A request that begins more than the lifetime of an entry after its key  *)
(* was retired is refused.                                                 *)
THEOREM RetiredKeysForgotten == JwksSpec => []RetiredKeyForgotten
BY JwksInvariant, PTL DEF JwksInv

-----------------------------------------------------------------------------
(* Logging in at a provider.                                               *)
(* A cookie belongs to a login begun in its browser, and only a login that *)
(* was begun has an address.                                               *)
CookiesAtHome ==
  /\ \A b \in Browsers : \A l \in {jar[b].oauth_state, jar[b].g_csrf_token} :
       l # None => login[l].browser = b
  /\ \A l \in Logins : login[l].address # None => Began(l)

(* What a request holds before each of its steps.                          *)
Holds(r) ==
  LET q == request[r]
  IN  /\ q.login \in Logins /\ q.browser \in Browsers /\ login[q.login].address # None
      /\ q.cookie # None => login[q.cookie].browser = q.browser
      /\ q.deletes => q.cookie = q.login
      /\ q.at \in {"exchange", "decode", "find", "insert", "answer"} => q.cookie = q.login
      /\ q.at \in {"find", "insert", "answer"} => Vouched(r)
      /\ q.at = "answer" => /\ q.user \in Accounts /\ user[q.user] # None
                            /\ user[q.user].email = Email(r)

HasReason(r) == UserOf(Email(r)) # {} \/ request[r].tries = maxRetries - 1

Sound(r) ==
  /\ ~Is(r, "idle") => Holds(r)
  /\ Is(r, "conflict") => HasReason(r)

(* The account u is that of somebody who signed in, in a login begun in b. *)
Genuine(b, u) ==
  /\ user[u] # None
  /\ \E l \in Logins :
       /\ login[l].browser = b /\ login[l].address # None
       /\ Normalized[login[l].address] = user[u].email
       /\ Claims[login[l].address] # "unverified"

ExternalInv ==
  /\ ExternalTypeOK /\ CookiesAtHome /\ LatestLoginKept
  /\ \A r \in Callbacks : Sound(r)
  /\ \A b \in Browsers : jar[b].auth # None => Genuine(b, jar[b].auth)

-----------------------------------------------------------------------------
(* A login keeps its browser and address once it has them, a row of the    *)
(* user table stays as it was made.                                        *)
Grows ==
  /\ \A l \in Logins :
       /\ Began(l) => login'[l].browser = login[l].browser
       /\ login[l].address # None => login'[l].address = login[l].address
  /\ \A u \in Accounts : user[u] # None => user'[u] = user[u]

LEMMA HoldsOn ==
  ASSUME ExternalInv, ExternalTypeOK', Grows, NEW r \in Callbacks,
         request'[r] = request[r]
  PROVE  Sound(r)'
<1>0. None \notin Browsers \cup Logins \cup Accounts
  BY ExternalLoginAssumption
<1>1. /\ request[r].cookie \in Logins \cup {None}
      /\ ~Is(r, "idle") => Holds(r)
      /\ Is(r, "conflict") => HasReason(r)
  BY DEF ExternalInv, ExternalTypeOK, Callback, Sound
<1>2. ASSUME ~Is(r, "idle")
      PROVE  /\ request[r].login \in Logins
             /\ login[request[r].login].address # None
             /\ login'[request[r].login].address = login[request[r].login].address
  BY <1>1, <1>2 DEF Holds, Grows
<1>3. ASSUME ~Is(r, "idle")  PROVE Holds(r)'
  <2>1. request[r].cookie # None =>
          login'[request[r].cookie].browser = login[request[r].cookie].browser
    BY <1>0, <1>1, <1>3 DEF Holds, Grows, Began
  <2>2. Is(r, "answer") => user'[request[r].user] = user[request[r].user]
    BY <1>1, <1>3 DEF Holds, Grows, Is
  <2>. QED
    BY <1>1, <1>2, <1>3, <2>1, <2>2 DEF Holds, Vouched, Email, normalizeEmail, Is
<1>4. ASSUME Is(r, "conflict")  PROVE HasReason(r)'
  <2>1. ~Is(r, "idle")
    BY <1>4 DEF Is
  <2>2. Email(r)' = Email(r)
    BY <1>2, <2>1 DEF Email, normalizeEmail
  <2>3. UserOf(Email(r)) # {} => UserOf(Email(r))' # {}
    BY <2>2 DEF UserOf, Grows
  <2>. QED
    BY <1>1, <1>4, <2>3 DEF HasReason
<1>. QED
  BY <1>3, <1>4 DEF Is, Sound

(* What is left to show of a request that goes on to another step.         *)
LEMMA SoundOn ==
  ASSUME ExternalInv, Grows, NEW r \in Callbacks, ~Is(r, "idle"),
         /\ request'[r].login = request[r].login
         /\ request'[r].browser = request[r].browser
         /\ request'[r].cookie = request[r].cookie,
         request'[r].deletes => request[r].cookie = request[r].login,
         request'[r].at \in {"exchange", "decode", "find", "insert", "answer"} =>
           request[r].cookie = request[r].login,
         request'[r].at \in {"find", "insert", "answer"} => Vouched(r),
         request'[r].at = "answer" =>
           LET u == request'[r].user
           IN  u \in Accounts /\ user'[u] # None /\ user'[u].email = Email(r),
         request'[r].at = "conflict" =>
           \/ \E u \in Accounts : user'[u] # None /\ user'[u].email = Email(r)
           \/ request'[r].tries = maxRetries - 1
  PROVE  Sound(r)'
<1>0. None \notin Browsers \cup Logins \cup Accounts
  BY ExternalLoginAssumption
<1>1. Holds(r) /\ request[r].cookie \in Logins \cup {None}
  BY DEF ExternalInv, ExternalTypeOK, Callback, Sound
<1>2. /\ login[request[r].login].address # None
      /\ login'[request[r].login].address = login[request[r].login].address
  BY <1>1 DEF Holds, Grows
<1>3. Email(r)' = Email(r) /\ Vouched(r)' = Vouched(r)
  BY <1>2 DEF Email, Vouched, normalizeEmail
<1>4. request[r].cookie # None =>
        login'[request[r].cookie].browser = login[request[r].cookie].browser
  BY <1>0, <1>1 DEF Holds, Grows, Began
<1>5. Holds(r)'
  BY <1>1, <1>2, <1>3, <1>4 DEF Holds
<1>6. Is(r, "conflict")' => HasReason(r)'
  BY <1>3 DEF HasReason, UserOf, Is
<1>. QED
  BY <1>5, <1>6 DEF Sound

LEMMA GenuineOn ==
  ASSUME ExternalInv, Grows, NEW b \in Browsers, NEW u \in Accounts, Genuine(b, u)
  PROVE  Genuine(b, u)'
<1>1. PICK l \in Logins :
         /\ login[l].browser = b /\ login[l].address # None
         /\ Normalized[login[l].address] = user[u].email
         /\ Claims[login[l].address] # "unverified"
  BY DEF Genuine
<1>2. login'[l].browser = b /\ login'[l].address = login[l].address
  BY <1>1, ExternalLoginAssumption DEF Grows, Began
<1>3. user'[u] = user[u] /\ user[u] # None
  BY DEF Genuine, Grows
<1>. QED
  BY <1>1, <1>2, <1>3 DEF Genuine

(* What is left to show of a step: the cookies, and what it changed.      *)
LEMMA Assembles ==
  ASSUME ExternalInv, ExternalTypeOK', Grows, CookiesAtHome', LatestLoginKept',
         \A r \in Callbacks : request'[r] = request[r] \/ Sound(r)',
         \A b \in Browsers : jar'[b].auth \in {jar[b].auth, None} \/ Genuine(b, jar[b].auth)'
  PROVE  ExternalInv'
<1>1. \A r \in Callbacks : Sound(r)'
  BY HoldsOn
<1>2. ASSUME NEW b \in Browsers, jar'[b].auth # None  PROVE Genuine(b, jar[b].auth)'
  <2>1. jar[b].auth \in Accounts \cup {None}
    BY DEF ExternalInv, ExternalTypeOK, CookieJar
  <2>2. CASE Genuine(b, jar[b].auth)'
    BY <2>2
  <2>3. CASE jar'[b].auth = jar[b].auth
    <3>1. jar[b].auth \in Accounts /\ Genuine(b, jar[b].auth)
      BY <1>2, <2>1, <2>3 DEF ExternalInv
    <3>2. DEFINE u == jar[b].auth
    <3>3. user'[u] # None /\ \E l \in Logins :
             /\ login'[l].browser = b /\ login'[l].address # None
             /\ Normalized[login'[l].address] = user'[u].email
             /\ Claims[login'[l].address] # "unverified"
      BY <3>1, GenuineOn DEF Genuine
    <3>. QED
      BY <2>3, <3>3 DEF Genuine
  <2>. QED
    BY <1>2, <2>2, <2>3
<1>. QED
  BY <1>1, <1>2 DEF ExternalInv
-----------------------------------------------------------------------------
LEMMA ExternalInitInv == ExternalInit => ExternalInv
<1>. SUFFICES ASSUME ExternalInit  PROVE ExternalInv
  OBVIOUS
<1>1. ExternalTypeOK
  BY ExternalLoginAssumption DEF ExternalInit, ExternalTypeOK, NotBegun, NoRequest, Kinds, Returned,
         CookieJar, AtProvider, Callback
<1>2. CookiesAtHome /\ LatestLoginKept
  BY DEF ExternalInit, CookiesAtHome, LatestLoginKept, NotBegun, Began
<1>3. \A r \in Callbacks : Sound(r)
  BY DEF ExternalInit, NoRequest, Sound, Is
<1>4. \A b \in Browsers : jar[b].auth = None
  BY DEF ExternalInit
<1>. QED
  BY <1>1, <1>2, <1>3, <1>4 DEF ExternalInv

LEMMA EmailTyped ==
  ASSUME ExternalInv, NEW r \in Callbacks, ~Is(r, "idle")
  PROVE  /\ request[r].login \in Logins /\ request[r].browser \in Browsers
         /\ Email(r) \in Mailboxes
BY ExternalLoginAssumption
   DEF ExternalInv, ExternalTypeOK, AtProvider, Sound, Holds, Email, normalizeEmail

(* Records that change a field.                                            *)
LEMMA CallbackFacts ==
  ASSUME NEW q \in Callback
  PROVE  /\ \A at \in Returned :
              /\ [q EXCEPT !.at = at] \in Callback
              /\ \A u \in Accounts : [q EXCEPT !.at = at, !.user = u] \in Callback
              /\ \A d \in BOOLEAN : [q EXCEPT !.deletes = d, !.at = at] \in Callback
         /\ q.tries \in 0 .. maxRetries - 1
         /\ \A n \in 0 .. maxRetries - 1 : [q EXCEPT !.tries = n] \in Callback
BY DEF Callback

LEMMA JarFacts ==
  ASSUME NEW j \in CookieJar
  PROVE  /\ j.oauth_state \in Logins \cup {None} /\ j.g_csrf_token \in Logins \cup {None}
         /\ j.auth \in Accounts \cup {None}
         /\ [j EXCEPT !.auth = None] \in CookieJar /\ [j EXCEPT !.oauth_state = None] \in CookieJar
         /\ \A l \in Logins :
              /\ [j EXCEPT !.oauth_state = l, !.latest = l] \in CookieJar
              /\ [j EXCEPT !.g_csrf_token = l] \in CookieJar
         /\ \A s \in Logins \cup {None}, u \in Accounts \cup {None} :
              [j EXCEPT !.oauth_state = s, !.auth = u] \in CookieJar
BY DEF CookieJar

LEMMA LoginFacts ==
  /\ NotBegun.address = None
  /\ \A b \in Browsers :
       /\ [NotBegun EXCEPT !.browser = b] \in AtProvider
       /\ [NotBegun EXCEPT !.browser = b].browser = b
       /\ [NotBegun EXCEPT !.browser = b].address = None
       /\ [NotBegun EXCEPT !.kind = "form", !.browser = b] \in AtProvider
       /\ [NotBegun EXCEPT !.kind = "form", !.browser = b].browser = b
       /\ [NotBegun EXCEPT !.kind = "form", !.browser = b].address = None
  /\ \A k \in AtProvider :
       /\ [k EXCEPT !.spent = TRUE] \in AtProvider
       /\ [k EXCEPT !.spent = TRUE].browser = k.browser
       /\ [k EXCEPT !.spent = TRUE].address = k.address
       /\ \A a \in Addresses : /\ [k EXCEPT !.address = a] \in AtProvider
                               /\ [k EXCEPT !.address = a].browser = k.browser
BY DEF NotBegun, AtProvider, Kinds

(* The request that Return puts down.                                      *)
Brings(l, b, c) ==
  [NoRequest EXCEPT !.at = "received", !.login = l, !.browser = b, !.cookie = c]

LEMMA ReturnFacts ==
  ASSUME NEW l \in Logins, NEW b \in Browsers, NEW c \in Logins \cup {None}
  PROVE  /\ Brings(l, b, c) \in Callback
         /\ Brings(l, b, c).at = "received" /\ Brings(l, b, c).login = l
         /\ Brings(l, b, c).browser = b /\ Brings(l, b, c).cookie = c
         /\ ~Brings(l, b, c).deletes
<1>1. 0 \in 0 .. maxRetries - 1
  BY ExternalLoginAssumption
<1>2. NoRequest \in Callback
  BY <1>1 DEF NoRequest, Callback
<1>3. NoRequest.deletes = FALSE
  BY DEF NoRequest
<1>. QED
  BY <1>2, <1>3 DEF Brings, Callback, Returned

LEMMA ExternalTypeKeeps ==
  ASSUME ExternalInv, ExternalNext
  PROVE  ExternalTypeOK'
<1>0. ExternalTypeOK
  BY DEF ExternalInv
<1>1. ASSUME NEW l \in Logins, NEW b \in Browsers, oauthAuthorize(l, b) \/ ShowForm(l, b)
      PROVE  ExternalTypeOK'
  <2>1. jar[b] \in CookieJar
    BY <1>0 DEF ExternalTypeOK
  <2>2. jar' \in [Browsers -> CookieJar]
    <3>1. CASE oauthAuthorize(l, b)
      <4>1. [jar[b] EXCEPT !.oauth_state = l, !.latest = l] \in CookieJar
        BY <2>1, JarFacts
      <4>. QED
        BY <1>0, <3>1, <4>1 DEF oauthAuthorize, ExternalTypeOK
    <3>2. CASE ShowForm(l, b)
      <4>1. [jar[b] EXCEPT !.g_csrf_token = l] \in CookieJar
        BY <2>1, JarFacts
      <4>. QED
        BY <1>0, <3>2, <4>1 DEF ShowForm, ExternalTypeOK
    <3>. QED
      BY <1>1, <3>1, <3>2
  <2>3. login' \in [Logins -> AtProvider]
    <3>1. PICK k \in AtProvider : login' = [login EXCEPT ![l] = k]
      BY <1>1, LoginFacts DEF oauthAuthorize, ShowForm
    <3>. QED
      BY <1>0, <3>1 DEF ExternalTypeOK
  <2>. QED
    BY <1>0, <1>1, <2>2, <2>3 DEF oauthAuthorize, ShowForm, ExternalTypeOK
<1>2. ASSUME NEW l \in Logins, NEW a \in Addresses, SignInAtProvider(l, a)
      PROVE  ExternalTypeOK'
  BY <1>0, <1>2, LoginFacts DEF SignInAtProvider, ExternalTypeOK
<1>3. ASSUME NEW b \in Browsers, Expire(b) \/ logout(b)
      PROVE  ExternalTypeOK'
  <2>1. /\ jar[b] \in CookieJar /\ jar[b].oauth_state \in Logins \cup {None}
        /\ [jar[b] EXCEPT !.oauth_state = None] \in CookieJar
        /\ [jar[b] EXCEPT !.auth = None] \in CookieJar
    BY <1>0, JarFacts DEF ExternalTypeOK
  <2>2. jar' \in [Browsers -> CookieJar]
    BY <1>0, <1>3, <2>1 DEF Expire, logout, ExternalTypeOK
  <2>. QED
    BY <1>0, <1>3, <2>1, <2>2 DEF Expire, logout, ExternalTypeOK
<1>4. ASSUME NEW u \in Accounts, NEW e \in Mailboxes, NEW n \in Usernames, SignUp(u, e, n)
      PROVE  ExternalTypeOK'
  BY <1>0, <1>4 DEF SignUp, InsertAccount, AccountRow, ExternalTypeOK
<1>5. ASSUME NEW r \in Callbacks, NEW l \in Logins, NEW b \in Browsers, Return(r, l, b)
      PROVE  ExternalTypeOK'
  <2>. DEFINE c == IF login[l].kind = "oauth" THEN jar[b].oauth_state ELSE jar[b].g_csrf_token
  <2>1. c \in Logins \cup {None} /\ request' = [request EXCEPT ![r] = Brings(l, b, c)]
    BY <1>0, <1>5, JarFacts DEF Return, Brings, ExternalTypeOK
  <2>. HIDE DEF c
  <2>2. Brings(l, b, c) \in Callback
    BY <2>1, ReturnFacts
  <2>. QED
    BY <1>0, <1>5, <2>1, <2>2 DEF Return, ExternalTypeOK
<1>6. ASSUME NEW r \in Callbacks,
             CheckState(r) \/ DecodeCredential(r) \/ FindUser(r) \/ CallbackFails(r)
      PROVE  ExternalTypeOK'
  <2>1. CASE CheckState(r)
    <3>1. PICK d \in BOOLEAN, at \in {"refused", "exchange", "decode"} :
             request' = [request EXCEPT ![r].deletes = d, ![r].at = at]
      BY <2>1 DEF CheckState, Matches, Deletes
    <3>2. [request[r] EXCEPT !.deletes = d, !.at = at] \in Callback
      BY <1>0, CallbackFacts DEF Returned, ExternalTypeOK
    <3>3. request' \in [Callbacks -> Callback]
      BY <1>0, <3>1, <3>2 DEF ExternalTypeOK
    <3>4. UNCHANGED <<jar, login, user, overtaken>>
      BY <2>1 DEF CheckState
    <3>. QED
      BY <1>0, <3>3, <3>4 DEF ExternalTypeOK
  <2>2. CASE DecodeCredential(r) \/ CallbackFails(r)
    <3>1. PICK at \in Returned : request' = [request EXCEPT ![r].at = at]
      BY <2>2 DEF DecodeCredential, CallbackFails, Turn, Returned
    <3>2. [request[r] EXCEPT !.at = at] \in Callback
      BY <1>0, CallbackFacts DEF ExternalTypeOK
    <3>. QED
      BY <1>0, <2>2, <3>1, <3>2 DEF DecodeCredential, CallbackFails, ExternalTypeOK
  <2>3. CASE FindUser(r)
    <3>1. \A at \in Returned : [request[r] EXCEPT !.at = at] \in Callback
      BY <1>0, CallbackFacts DEF ExternalTypeOK
    <3>2. \A u \in Accounts : [request[r] EXCEPT !.at = "answer", !.user = u] \in Callback
      BY <1>0, CallbackFacts DEF Returned, ExternalTypeOK
    <3>3. \/ \E at \in Returned : request' = [request EXCEPT ![r].at = at]
          \/ \E u \in Accounts : request' = [request EXCEPT ![r].at = "answer", ![r].user = u]
      BY <2>3 DEF FindUser, UserOf, Turn, Returned
    <3>. QED
      BY <1>0, <2>3, <3>1, <3>2, <3>3 DEF FindUser, ExternalTypeOK
  <2>. QED
    BY <1>6, <2>1, <2>2, <2>3
<1>7. ASSUME NEW r \in Callbacks, Exchange(r)
      PROVE  ExternalTypeOK'
  <2>1. request[r].login \in Logins
    BY <1>7, EmailTyped DEF Exchange, Is
  <2>. QED
    BY <1>0, <1>7, <2>1, CallbackFacts, LoginFacts DEF Exchange, Turn, Returned, ExternalTypeOK
<1>8. ASSUME NEW r \in Callbacks, CreateUserToken(r)
      PROVE  ExternalTypeOK'
  <2>1. request[r].login \in Logins /\ Email(r) \in Mailboxes
    BY <1>8, EmailTyped DEF CreateUserToken, Is
  <2>2. NameTried(r) \subseteq Usernames
    BY <1>0, <2>1, <1>8, ExternalLoginAssumption
       DEF NameTried, CreateUserToken, ExternalInv, Sound, Holds, Is, ExternalTypeOK, AtProvider
  <2>3. PICK n \in NameTried(r) :
           \/ \E u \in Accounts :
                /\ InsertAccount(u, Email(r), n)
                /\ request' = [request EXCEPT ![r].at = "answer", ![r].user = u]
           \/ /\ \E column \in Repeats(Email(r), n) :
                   IF TriesAgain(column, request[r].tries)
                   THEN request' = [request EXCEPT ![r].tries = @ + 1]
                   ELSE Turn(r, "conflict")
              /\ UNCHANGED user
    BY <1>8 DEF CreateUserToken
  <2>4. user' \in [Accounts -> AccountRow \cup {None}]
    BY <1>0, <2>1, <2>2, <2>3 DEF InsertAccount, AccountRow, ExternalTypeOK
  <2>5. request' \in [Callbacks -> Callback]
    <3>1. \A column :
            TriesAgain(column, request[r].tries) => request[r].tries + 1 \in 0 .. maxRetries - 1
      <4>1. request[r].tries \in 0 .. maxRetries - 1 /\ maxRetries \in Nat
        BY <1>0, CallbackFacts, ExternalLoginAssumption DEF ExternalTypeOK
      <4>. QED
        BY <4>1 DEF TriesAgain
    <3>2. /\ \A k \in 0 .. maxRetries - 1 : [request[r] EXCEPT !.tries = k] \in Callback
          /\ \A u \in Accounts : [request[r] EXCEPT !.at = "answer", !.user = u] \in Callback
          /\ [request[r] EXCEPT !.at = "conflict"] \in Callback
      BY <1>0, CallbackFacts DEF Returned, ExternalTypeOK
    <3>3. \/ \E u \in Accounts : request' = [request EXCEPT ![r].at = "answer", ![r].user = u]
          \/ /\ request[r].tries + 1 \in 0 .. maxRetries - 1
             /\ request' = [request EXCEPT ![r].tries = request[r].tries + 1]
          \/ request' = [request EXCEPT ![r].at = "conflict"]
      BY <2>3, <3>1 DEF Turn
    <3>. QED
      BY <1>0, <3>2, <3>3 DEF ExternalTypeOK
  <2>. QED
    BY <1>0, <1>8, <2>4, <2>5 DEF CreateUserToken, ExternalTypeOK
<1>9. ASSUME NEW r \in Callbacks, LogIn(r) \/ Refuse(r) \/ LoseAnswer(r)
      PROVE  ExternalTypeOK'
  <2>1. request[r].browser \in Browsers
    BY <1>9, EmailTyped DEF LogIn, Refuse, LoseAnswer, Is
  <2>2. NoRequest \in Callback
    BY ExternalLoginAssumption DEF NoRequest, Callback
  <2>3. request' \in [Callbacks -> Callback]
    BY <1>0, <1>9, <2>2 DEF LogIn, Refuse, LoseAnswer, Ends, ExternalTypeOK
  <2>4. CASE LoseAnswer(r)
    BY <1>0, <2>3, <2>4 DEF LoseAnswer, ExternalTypeOK
  <2>5. ASSUME NEW auth \in Accounts \cup {None}, DeleteState(r, auth), UNCHANGED <<login, user>>
        PROVE  ExternalTypeOK'
    <3>1. jar[request[r].browser] \in CookieJar
      BY <1>0, <2>1 DEF ExternalTypeOK
    <3>2. jar' \in [Browsers -> CookieJar]
      BY <1>0, <2>1, <2>5, <3>1, JarFacts DEF DeleteState, ExternalTypeOK
    <3>3. overtaken' \subseteq Logins
      BY <1>0, <2>5, <3>1, JarFacts DEF DeleteState, ExternalTypeOK
    <3>. QED
      BY <1>0, <2>3, <2>5, <3>2, <3>3 DEF ExternalTypeOK
  <2>6. /\ request[r].user \in Accounts \cup {None}
        /\ jar[request[r].browser].auth \in Accounts \cup {None}
    BY <1>0, <2>1 DEF ExternalTypeOK, Callback, CookieJar
  <2>. QED
    BY <1>9, <2>4, <2>5, <2>6 DEF LogIn, Refuse
<1>. QED
  BY <1>1, <1>2, <1>3, <1>4, <1>5, <1>6, <1>7, <1>8, <1>9 DEF ExternalNext
-----------------------------------------------------------------------------
LEMMA LoginBegunKeeps ==
  ASSUME ExternalInv, ExternalTypeOK', NEW l \in Logins, NEW b \in Browsers,
         oauthAuthorize(l, b) \/ ShowForm(l, b)
  PROVE  ExternalInv'
<1>0. None \notin Browsers \cup Logins
  BY ExternalLoginAssumption
<1>1. /\ ExternalTypeOK /\ CookiesAtHome /\ LatestLoginKept
      /\ ~Began(l) /\ login[l].address = None
  BY DEF ExternalInv, CookiesAtHome, oauthAuthorize, ShowForm
<1>2. /\ login'[l].browser = b /\ login'[l].address = None
      /\ \A k \in Logins \ {l} : login'[k] = login[k]
      /\ UNCHANGED <<request, user, overtaken>>
  <2>. DEFINE k == [NotBegun EXCEPT !.browser = b]
              f == [NotBegun EXCEPT !.kind = "form", !.browser = b]
  <2>1. k.browser = b /\ k.address = None /\ f.browser = b /\ f.address = None
    BY LoginFacts
  <2>2. login' = [login EXCEPT ![l] = k] \/ login' = [login EXCEPT ![l] = f]
    BY DEF oauthAuthorize, ShowForm
  <2>3. login \in [Logins -> AtProvider]
    BY <1>1 DEF ExternalTypeOK
  <2>4. UNCHANGED <<request, user, overtaken>>
    BY DEF oauthAuthorize, ShowForm
  <2>. HIDE DEF k, f
  <2>. QED
    BY <2>1, <2>2, <2>3, <2>4
<1>3. Grows
  BY <1>1, <1>2 DEF Grows
<1>4. /\ \A c \in Browsers \ {b} : jar'[c] = jar[c]
      /\ jar'[b].auth = jar[b].auth
      /\ jar'[b].oauth_state \in {jar[b].oauth_state, l}
      /\ jar'[b].g_csrf_token \in {jar[b].g_csrf_token, l}
      /\ \/ jar'[b].latest = l /\ jar'[b].oauth_state = l
         \/ jar'[b].latest = jar[b].latest /\ jar'[b].oauth_state = jar[b].oauth_state
  BY <1>1 DEF oauthAuthorize, ShowForm, ExternalTypeOK, CookieJar
<1>5. CookiesAtHome'
  <2>1. ASSUME NEW c \in Browsers, NEW k \in {jar[c].oauth_state, jar[c].g_csrf_token}, k # None
        PROVE  login'[k].browser = c
    <3>1. k \in Logins
      BY <1>1, <2>1, JarFacts DEF ExternalTypeOK
    <3>. QED
      BY <1>0, <1>1, <1>2, <2>1, <3>1 DEF CookiesAtHome, Began
  <2>2. ASSUME NEW c \in Browsers, NEW k \in {jar'[c].oauth_state, jar'[c].g_csrf_token}, k # None
        PROVE  login'[k].browser = c
    BY <1>2, <1>4, <2>1, <2>2
  <2>3. \A k \in Logins : login'[k].address # None => login'[k].browser # None
    BY <1>0, <1>1, <1>2 DEF CookiesAtHome, Began
  <2>. QED
    BY <2>2, <2>3 DEF CookiesAtHome, Began
<1>6. LatestLoginKept'
  BY <1>1, <1>2, <1>4 DEF LatestLoginKept
<1>. QED
  BY <1>2, <1>3, <1>4, <1>5, <1>6, Assembles

LEMMA SignInKeeps ==
  ASSUME ExternalInv, ExternalTypeOK', NEW l \in Logins, NEW a \in Addresses,
         SignInAtProvider(l, a)
  PROVE  ExternalInv'
<1>1. ExternalTypeOK /\ CookiesAtHome /\ LatestLoginKept
  BY DEF ExternalInv
<1>2. /\ \A k \in Logins : login'[k].browser = login[k].browser
      /\ \A k \in Logins \ {l} : login'[k] = login[k]
      /\ login[l].address = None /\ Began(l)
      /\ UNCHANGED <<jar, request, user, overtaken>>
  <2>1. login \in [Logins -> AtProvider] /\ login[l] \in AtProvider
    BY <1>1 DEF ExternalTypeOK
  <2>2. [login[l] EXCEPT !.address = a].browser = login[l].browser
    BY <2>1, LoginFacts
  <2>3. login' = [login EXCEPT ![l] = [login[l] EXCEPT !.address = a]]
    BY <2>1 DEF SignInAtProvider
  <2>4. login'[l].browser = login[l].browser
    BY <2>1, <2>2, <2>3
  <2>. QED
    BY <2>1, <2>3, <2>4 DEF SignInAtProvider
<1>3. Grows
  BY <1>2 DEF Grows
<1>4. CookiesAtHome'
  <2>1. \A c \in Browsers : {jar[c].oauth_state, jar[c].g_csrf_token} \subseteq Logins \cup {None}
    BY <1>1, JarFacts DEF ExternalTypeOK
  <2>. QED
    BY <1>1, <1>2, <2>1 DEF CookiesAtHome, Began
<1>5. LatestLoginKept'
  BY <1>1, <1>2 DEF LatestLoginKept
<1>. QED
  BY <1>2, <1>3, <1>4, <1>5, Assembles

LEMMA ForgetKeeps ==
  ASSUME ExternalInv, ExternalTypeOK', NEW b \in Browsers, Expire(b) \/ logout(b)
  PROVE  ExternalInv'
<1>1. ExternalTypeOK /\ CookiesAtHome /\ LatestLoginKept
  BY DEF ExternalInv
<1>2. /\ \A c \in Browsers \ {b} : jar'[c] = jar[c]
      /\ jar'[b].auth \in {jar[b].auth, None}
      /\ jar'[b].g_csrf_token = jar[b].g_csrf_token /\ jar'[b].latest = jar[b].latest
      /\ \/ jar'[b].oauth_state = jar[b].oauth_state /\ overtaken' = overtaken
         \/ /\ jar'[b].oauth_state = None
            /\ overtaken' = overtaken \cup {jar[b].oauth_state}
      /\ UNCHANGED <<login, request, user>>
  BY <1>1 DEF Expire, logout, ExternalTypeOK, CookieJar
<1>3. Grows
  BY <1>2 DEF Grows
<1>4. CookiesAtHome'
  BY <1>1, <1>2 DEF CookiesAtHome, Began
<1>5. LatestLoginKept'
  BY <1>1, <1>2 DEF LatestLoginKept
<1>. QED
  BY <1>2, <1>3, <1>4, <1>5, Assembles

LEMMA SignUpKeeps ==
  ASSUME ExternalInv, ExternalTypeOK', NEW u \in Accounts, NEW e \in Mailboxes,
         NEW n \in Usernames, SignUp(u, e, n)
  PROVE  ExternalInv'
<1>1. ExternalTypeOK /\ CookiesAtHome /\ LatestLoginKept
  BY DEF ExternalInv
<1>2. /\ user[u] = None /\ \A v \in Accounts \ {u} : user'[v] = user[v]
      /\ UNCHANGED <<jar, login, request, overtaken>>
  BY <1>1 DEF SignUp, InsertAccount, ExternalTypeOK
<1>3. Grows
  BY <1>2 DEF Grows
<1>4. CookiesAtHome' /\ LatestLoginKept'
  BY <1>1, <1>2 DEF CookiesAtHome, Began, LatestLoginKept
<1>. QED
  BY <1>2, <1>3, <1>4, Assembles

LEMMA ReturnKeeps ==
  ASSUME ExternalInv, ExternalTypeOK', NEW r \in Callbacks, NEW l \in Logins,
         NEW b \in Browsers, Return(r, l, b)
  PROVE  ExternalInv'
<1>1. ExternalTypeOK /\ CookiesAtHome /\ LatestLoginKept
  BY DEF ExternalInv
<1>2. PICK c \in Logins \cup {None} : /\ c # None => login[c].browser = b
                                      /\ request' = [request EXCEPT ![r] = Brings(l, b, c)]
  BY <1>1, JarFacts DEF CookiesAtHome, ExternalTypeOK, Return, Brings
<1>3. UNCHANGED <<jar, login, user, overtaken>> /\ login[l].address # None
  BY DEF Return
<1>4. /\ request'[r] = Brings(l, b, c)
      /\ \A s \in Callbacks \ {r} : request'[s] = request[s]
  BY <1>1, <1>2 DEF ExternalTypeOK
<1>5. /\ Brings(l, b, c).at = "received" /\ Brings(l, b, c).login = l
      /\ Brings(l, b, c).browser = b /\ Brings(l, b, c).cookie = c
      /\ ~Brings(l, b, c).deletes
  BY ReturnFacts
<1>6. Sound(r)'
  BY <1>2, <1>3, <1>4, <1>5 DEF Sound, Holds, Is
<1>7. Grows /\ CookiesAtHome' /\ LatestLoginKept'
  BY <1>1, <1>3 DEF Grows, CookiesAtHome, Began, LatestLoginKept
<1>. QED
  BY <1>3, <1>4, <1>6, <1>7, Assembles

LEMMA CheckStateKeeps ==
  ASSUME ExternalInv, ExternalTypeOK', NEW r \in Callbacks, CheckState(r)
  PROVE  ExternalInv'
<1>1. ExternalTypeOK /\ CookiesAtHome /\ LatestLoginKept
  BY DEF ExternalInv
<1>2. /\ UNCHANGED <<jar, login, user, overtaken>> /\ Is(r, "received")
      /\ \A s \in Callbacks \ {r} : request'[s] = request[s]
      /\ request'[r].login = request[r].login /\ request'[r].browser = request[r].browser
      /\ request'[r].cookie = request[r].cookie
      /\ request'[r].deletes => request[r].cookie = request[r].login
      /\ request'[r].at \in {"refused", "exchange", "decode"}
      /\ request'[r].at # "refused" => request[r].cookie = request[r].login
  BY <1>1 DEF CheckState, Matches, Deletes, ExternalTypeOK, Callback
<1>3. Grows /\ CookiesAtHome' /\ LatestLoginKept'
  BY <1>1, <1>2 DEF Grows, CookiesAtHome, Began, LatestLoginKept
<1>4. Sound(r)'
  BY <1>2, <1>3, SoundOn DEF Is
<1>. QED
  BY <1>2, <1>3, <1>4, Assembles

(* A request that only goes to another step.                               *)
LEMMA TurnFacts ==
  ASSUME ExternalTypeOK, NEW r \in Callbacks, NEW at, Turn(r, at)
  PROVE  /\ \A s \in Callbacks \ {r} : request'[s] = request[s]
         /\ request'[r].at = at
         /\ request'[r].login = request[r].login /\ request'[r].browser = request[r].browser
         /\ request'[r].cookie = request[r].cookie /\ request'[r].deletes = request[r].deletes
         /\ request'[r].tries = request[r].tries
BY DEF Turn, ExternalTypeOK, Callback

LEMMA ExchangeKeeps ==
  ASSUME ExternalInv, ExternalTypeOK', NEW r \in Callbacks,
         Exchange(r) \/ DecodeCredential(r) \/ CallbackFails(r)
  PROVE  ExternalInv'
<1>1. ExternalTypeOK /\ CookiesAtHome /\ LatestLoginKept
  BY DEF ExternalInv
<1>2. /\ ~Is(r, "idle") /\ UNCHANGED <<jar, user, overtaken>>
      /\ \A l \in Logins : /\ login'[l].browser = login[l].browser
                           /\ login'[l].address = login[l].address
  <2>1. CASE Exchange(r)
    <3>1. request[r].login \in Logins /\ UNCHANGED <<jar, user, overtaken>> /\ ~Is(r, "idle")
      BY <2>1, EmailTyped DEF Exchange, Is
    <3>. DEFINE l == request[r].login
                k == [login[l] EXCEPT !.spent = TRUE]
    <3>2. login[l] \in AtProvider /\ login \in [Logins -> AtProvider]
      BY <1>1, <3>1 DEF ExternalTypeOK
    <3>3. k.browser = login[l].browser /\ k.address = login[l].address
      BY <3>2, LoginFacts
    <3>4. login' = [login EXCEPT ![l] = k]
      BY <2>1, <3>2 DEF Exchange
    <3>. HIDE DEF k
    <3>. QED
      BY <3>1, <3>2, <3>3, <3>4
  <2>2. CASE DecodeCredential(r) \/ CallbackFails(r)
    BY <2>2 DEF DecodeCredential, CallbackFails, Is
  <2>. QED
    BY <2>1, <2>2
<1>3. PICK at \in {"find", "refused"} :
         /\ Turn(r, at)
         /\ at = "find" => Vouched(r) /\ request[r].at \in {"exchange", "decode"}
  BY DEF Exchange, DecodeCredential, CallbackFails, Is
<1>4. Grows /\ CookiesAtHome' /\ LatestLoginKept'
  <2>1. \A b \in Browsers : {jar[b].oauth_state, jar[b].g_csrf_token} \subseteq Logins \cup {None}
    BY <1>1, JarFacts DEF ExternalTypeOK
  <2>2. CookiesAtHome'
    BY <1>1, <1>2, <2>1 DEF CookiesAtHome, Began
  <2>. QED
    BY <1>1, <1>2, <2>2 DEF Grows, Began, LatestLoginKept
<1>5. Holds(r)
  BY <1>2 DEF ExternalInv, Sound
<1>6. Sound(r)'
  <2>1. /\ request'[r].deletes => request[r].cookie = request[r].login
        /\ request'[r].at = "find" => request[r].cookie = request[r].login
    BY <1>1, <1>3, <1>5, TurnFacts DEF Holds
  <2>. QED
    BY <1>1, <1>2, <1>3, <1>4, <2>1, TurnFacts, SoundOn
<1>. QED
  BY <1>1, <1>2, <1>3, <1>4, <1>6, TurnFacts, Assembles

LEMMA FindUserKeeps ==
  ASSUME ExternalInv, ExternalTypeOK', NEW r \in Callbacks, FindUser(r)
  PROVE  ExternalInv'
<1>1. ExternalTypeOK /\ CookiesAtHome /\ LatestLoginKept
  BY DEF ExternalInv
<1>2. Is(r, "find") /\ ~Is(r, "idle") /\ UNCHANGED <<jar, login, user, overtaken>>
  BY DEF FindUser, Is
<1>3. Grows /\ CookiesAtHome' /\ LatestLoginKept'
  BY <1>1, <1>2 DEF Grows, CookiesAtHome, Began, LatestLoginKept
<1>4. Holds(r) /\ request[r].cookie = request[r].login /\ Vouched(r)
  BY <1>2 DEF ExternalInv, Sound, Holds, Is
<1>5. \/ \E at \in {"refused", "insert"} : Turn(r, at)
      \/ \E u \in UserOf(Email(r)) :
           request' = [request EXCEPT ![r].at = "answer", ![r].user = u]
  BY DEF FindUser
<1>6. CASE \E at \in {"refused", "insert"} : Turn(r, at)
  <2>1. PICK at \in {"refused", "insert"} : Turn(r, at)
    BY <1>6
  <2>2. Sound(r)'
    BY <1>1, <1>2, <1>3, <1>4, <2>1, TurnFacts, SoundOn
  <2>. QED
    BY <1>1, <1>2, <1>3, <2>1, <2>2, TurnFacts, Assembles
<1>7. CASE \E u \in UserOf(Email(r)) :
             request' = [request EXCEPT ![r].at = "answer", ![r].user = u]
  <2>1. PICK u \in Accounts :
           /\ user[u] # None /\ user[u].email = Email(r)
           /\ request' = [request EXCEPT ![r].at = "answer", ![r].user = u]
    BY <1>7 DEF UserOf
  <2>2. /\ \A s \in Callbacks \ {r} : request'[s] = request[s]
        /\ request'[r].at = "answer" /\ request'[r].user = u
        /\ request'[r].login = request[r].login /\ request'[r].browser = request[r].browser
        /\ request'[r].cookie = request[r].cookie
    BY <1>1, <2>1 DEF ExternalTypeOK, Callback
  <2>3. Sound(r)'
    BY <1>2, <1>3, <1>4, <2>1, <2>2, SoundOn
  <2>. QED
    BY <1>2, <1>3, <2>2, <2>3, Assembles
<1>. QED
  BY <1>5, <1>6, <1>7

LEMMA CreateUserTokenKeeps ==
  ASSUME ExternalInv, ExternalTypeOK', NEW r \in Callbacks, CreateUserToken(r)
  PROVE  ExternalInv'
<1>1. ExternalTypeOK /\ CookiesAtHome /\ LatestLoginKept
  BY DEF ExternalInv
<1>2. Is(r, "insert") /\ ~Is(r, "idle") /\ UNCHANGED <<jar, login, overtaken>>
  BY DEF CreateUserToken, Is
<1>3. Holds(r) /\ request[r].cookie = request[r].login /\ Vouched(r)
  BY <1>2 DEF ExternalInv, Sound, Holds, Is
<1>4. PICK n \in NameTried(r) :
         \/ \E u \in Accounts :
              /\ InsertAccount(u, Email(r), n)
              /\ request' = [request EXCEPT ![r].at = "answer", ![r].user = u]
         \/ /\ \E column \in Repeats(Email(r), n) :
                 IF TriesAgain(column, request[r].tries)
                 THEN request' = [request EXCEPT ![r].tries = @ + 1]
                 ELSE Turn(r, "conflict")
            /\ UNCHANGED user
  BY DEF CreateUserToken
<1>5. ASSUME NEW u \in Accounts, InsertAccount(u, Email(r), n),
             request' = [request EXCEPT ![r].at = "answer", ![r].user = u]
      PROVE  ExternalInv'
  <2>1. /\ user[u] = None /\ \A v \in Accounts \ {u} : user'[v] = user[v]
        /\ user'[u] = [email |-> Email(r), username |-> n]
    BY <1>1, <1>5 DEF InsertAccount, ExternalTypeOK
  <2>2. user'[u] # None /\ user'[u].email = Email(r)
    <3>1. n \in Usernames /\ Email(r) \in Mailboxes
      BY <1>1, <1>2, <1>3, <1>4, EmailTyped, ExternalLoginAssumption
         DEF NameTried, Holds, ExternalTypeOK, AtProvider
    <3>. QED
      BY <2>1, <3>1, ExternalLoginAssumption DEF AccountRow
  <2>3. Grows /\ CookiesAtHome' /\ LatestLoginKept'
    BY <1>1, <1>2, <2>1 DEF Grows, CookiesAtHome, Began, LatestLoginKept
  <2>4. /\ \A s \in Callbacks \ {r} : request'[s] = request[s]
        /\ request'[r].at = "answer" /\ request'[r].user = u
        /\ request'[r].login = request[r].login /\ request'[r].browser = request[r].browser
        /\ request'[r].cookie = request[r].cookie
    BY <1>1, <1>5 DEF ExternalTypeOK, Callback
  <2>5. Sound(r)'
    BY <1>2, <1>3, <2>2, <2>3, <2>4, SoundOn
  <2>. QED
    BY <1>2, <2>3, <2>4, <2>5, Assembles
<1>6. ASSUME NEW column \in Repeats(Email(r), n), UNCHANGED user,
             IF TriesAgain(column, request[r].tries)
             THEN request' = [request EXCEPT ![r].tries = @ + 1] ELSE Turn(r, "conflict")
      PROVE  ExternalInv'
  <2>1. Grows /\ CookiesAtHome' /\ LatestLoginKept'
    BY <1>1, <1>2, <1>6 DEF Grows, CookiesAtHome, Began, LatestLoginKept
  <2>2. CASE TriesAgain(column, request[r].tries)
    <3>1. /\ \A s \in Callbacks \ {r} : request'[s] = request[s]
          /\ request'[r].at = "insert"
          /\ request'[r].login = request[r].login /\ request'[r].browser = request[r].browser
          /\ request'[r].cookie = request[r].cookie
      BY <1>1, <1>2, <1>6, <2>2 DEF ExternalTypeOK, Callback, Is
    <3>2. Sound(r)'
      BY <1>2, <1>3, <2>1, <3>1, SoundOn
    <3>. QED
      BY <1>2, <2>1, <3>1, <3>2, Assembles
  <2>3. CASE ~TriesAgain(column, request[r].tries)
    <3>1. Turn(r, "conflict")
      BY <1>6, <2>3
    <3>2. \/ \E u \in Accounts : user'[u] # None /\ user'[u].email = Email(r)
          \/ request'[r].tries = maxRetries - 1
      <4>1. CASE column = "email"
        BY <1>6, <4>1 DEF Repeats
      <4>2. CASE column = "username"
        <5>1. request[r].tries \in 0 .. maxRetries - 1 /\ maxRetries \in Nat
          BY <1>1, CallbackFacts, ExternalLoginAssumption DEF ExternalTypeOK
        <5>2. ~(request[r].tries + 1 < maxRetries)
          BY <2>3, <4>2 DEF TriesAgain
        <5>3. request'[r].tries = request[r].tries
          BY <1>1, <3>1, TurnFacts
        <5>. QED
          BY <5>1, <5>2, <5>3
      <4>. QED
        BY <1>6, <4>1, <4>2 DEF Repeats
    <3>3. Sound(r)'
      BY <1>1, <1>2, <1>3, <2>1, <3>1, <3>2, TurnFacts, SoundOn
    <3>. QED
      BY <1>1, <1>2, <2>1, <3>1, <3>3, TurnFacts, Assembles
  <2>. QED
    BY <2>2, <2>3
<1>. QED
  BY <1>4, <1>5, <1>6

(* An answer takes a cookie only when the state of its login matched it,   *)
(* and then the login whose cookie it takes counts as overtaken.           *)
LEMMA AnswerKeeps ==
  ASSUME ExternalInv, ExternalTypeOK', NEW r \in Callbacks, ~Is(r, "idle"),
         NEW auth \in Accounts \cup {None}, DeleteState(r, auth), Ends(r),
         UNCHANGED <<login, user>>,
         auth \in {jar[request[r].browser].auth, None} \/ Genuine(request[r].browser, auth)
  PROVE  ExternalInv'
<1>0. None \notin Logins
  BY ExternalLoginAssumption
<1>1. ExternalTypeOK /\ CookiesAtHome /\ LatestLoginKept
  BY DEF ExternalInv
<1>2. Holds(r)
  BY DEF ExternalInv, Sound
<1>3. PICK b \in Browsers : b = request[r].browser
  BY <1>2 DEF Holds
<1>4. request[r].deletes => Matches(request[r].cookie, request[r].login)
  BY <1>0, <1>2 DEF Holds, Matches
<1>5. /\ \A c \in Browsers \ {b} : jar'[c] = jar[c]
      /\ jar'[b].auth = auth
      /\ jar'[b].g_csrf_token = jar[b].g_csrf_token /\ jar'[b].latest = jar[b].latest
      /\ \/ jar'[b].oauth_state = jar[b].oauth_state /\ overtaken \subseteq overtaken'
         \/ /\ jar'[b].oauth_state = None
            /\ overtaken' = overtaken \cup ({jar[b].oauth_state} \ {None})
  BY <1>1, <1>3, <1>4 DEF DeleteState, ExternalTypeOK, CookieJar
<1>6. Grows
  BY DEF Grows
<1>7. CookiesAtHome'
  BY <1>1, <1>5 DEF CookiesAtHome, Began
<1>8. overtaken \subseteq overtaken'
  BY <1>5
<1>9. LatestLoginKept'
  BY <1>1, <1>5, <1>8 DEF LatestLoginKept
<1>10. /\ \A s \in Callbacks \ {r} : request'[s] = request[s]
      /\ Sound(r)'
  BY <1>1 DEF Ends, NoRequest, ExternalTypeOK, Sound, Is
<1>11. auth = jar[b].auth \/ auth = None \/ Genuine(b, auth)'
  <2>1. Genuine(b, auth) => Genuine(b, auth)'
    BY DEF Genuine
  <2>. QED
    BY <1>3, <2>1
<1>12. \A c \in Browsers : jar'[c].auth \in {jar[c].auth, None} \/ Genuine(c, jar[c].auth)'
  BY <1>5, <1>11 DEF Genuine
<1>. QED
  BY <1>6, <1>7, <1>9, <1>10, <1>12, Assembles

LEMMA AnswersKeep ==
  ASSUME ExternalInv, ExternalTypeOK', NEW r \in Callbacks,
         LogIn(r) \/ Refuse(r) \/ LoseAnswer(r)
  PROVE  ExternalInv'
<1>1. ExternalTypeOK /\ CookiesAtHome /\ LatestLoginKept
  BY DEF ExternalInv
<1>2. CASE LogIn(r)
  <2>1. Is(r, "answer") /\ ~Is(r, "idle")
    BY <1>2 DEF LogIn, Is
  <2>2. Holds(r) /\ request[r].user \in Accounts
    BY <2>1 DEF ExternalInv, Sound, Holds, Is
  <2>3. Genuine(request[r].browser, request[r].user)
    <3>. DEFINE l == request[r].login
    <3>1. l \in Logins /\ login[l].browser = request[r].browser /\ login[l].address # None
      BY <2>1, <2>2, ExternalLoginAssumption DEF Holds, Is
    <3>2. Normalized[login[l].address] = user[request[r].user].email
      BY <2>1, <2>2 DEF Holds, Is, Email, normalizeEmail
    <3>3. Claims[login[l].address] # "unverified" /\ user[request[r].user] # None
      BY <2>1, <2>2 DEF Holds, Is, Vouched
    <3>. QED
      BY <3>1, <3>2, <3>3 DEF Genuine
  <2>. QED
    BY <1>2, <2>1, <2>2, <2>3, AnswerKeeps DEF LogIn
<1>3. CASE Refuse(r)
  <2>1. ~Is(r, "idle")
    BY <1>3 DEF Refuse, Is
  <2>2. jar[request[r].browser].auth \in Accounts \cup {None}
    BY <1>1, <2>1, EmailTyped DEF ExternalTypeOK, CookieJar
  <2>. QED
    BY <1>3, <2>1, <2>2, AnswerKeeps DEF Refuse
<1>4. CASE LoseAnswer(r)
  <2>1. Grows /\ CookiesAtHome' /\ LatestLoginKept'
    BY <1>1, <1>4 DEF LoseAnswer, Grows, CookiesAtHome, Began, LatestLoginKept
  <2>2. /\ \A s \in Callbacks \ {r} : request'[s] = request[s]
        /\ Sound(r)' /\ UNCHANGED jar
    BY <1>1, <1>4 DEF LoseAnswer, Ends, NoRequest, ExternalTypeOK, Sound, Is
  <2>. QED
    BY <2>1, <2>2, Assembles
<1>. QED
  BY <1>2, <1>3, <1>4

LEMMA ExternalStep == ExternalInv /\ [ExternalNext]_externalVars => ExternalInv'
<1>. SUFFICES ASSUME ExternalInv, [ExternalNext]_externalVars  PROVE ExternalInv'
  OBVIOUS
<1>1. CASE ExternalNext
  <2>1. ExternalTypeOK'
    BY <1>1, ExternalTypeKeeps
  <2>2. CASE \E l \in Logins, b \in Browsers : oauthAuthorize(l, b) \/ ShowForm(l, b)
    BY <2>1, <2>2, LoginBegunKeeps
  <2>3. CASE \E l \in Logins, a \in Addresses : SignInAtProvider(l, a)
    BY <2>1, <2>3, SignInKeeps
  <2>4. CASE \E b \in Browsers : Expire(b) \/ logout(b)
    BY <2>1, <2>4, ForgetKeeps
  <2>5. CASE \E u \in Accounts, e \in Mailboxes, n \in Usernames : SignUp(u, e, n)
    BY <2>1, <2>5, SignUpKeeps
  <2>6. ASSUME NEW r \in Callbacks,
               \/ \E l \in Logins, b \in Browsers : Return(r, l, b)
               \/ CheckState(r) \/ Exchange(r) \/ DecodeCredential(r) \/ FindUser(r)
               \/ CreateUserToken(r) \/ LogIn(r) \/ Refuse(r) \/ CallbackFails(r) \/ LoseAnswer(r)
        PROVE  ExternalInv'
    BY <2>1, <2>6, ReturnKeeps, CheckStateKeeps, ExchangeKeeps, FindUserKeeps,
       CreateUserTokenKeeps, AnswersKeep
  <2>. QED
    BY <1>1, <2>2, <2>3, <2>4, <2>5, <2>6 DEF ExternalNext
<1>2. CASE UNCHANGED externalVars
  <2>1. ExternalTypeOK' /\ CookiesAtHome' /\ LatestLoginKept'
    BY <1>2 DEF ExternalInv, externalVars, ExternalTypeOK, CookiesAtHome, Began, LatestLoginKept
  <2>2. Grows /\ UNCHANGED <<request, jar>>
    BY <1>2 DEF externalVars, Grows
  <2>. QED
    BY <2>1, <2>2, Assembles
<1>. QED
  BY <1>1, <1>2

(* The inductive invariant of logging in at a provider.                    *)
THEOREM ExternalInvariant == ExternalSpec => []ExternalInv
<1>1. ExternalInit => ExternalInv
  BY ExternalInitInv
<1>. QED
  BY <1>1, ExternalStep, PTL DEF ExternalSpec

(* Jars, logins, requests and rows keep their form; a request makes at     *)
(* most as many attempts at a name as the code allows.                     *)
THEOREM ExternalTypeCorrect == ExternalSpec => []ExternalTypeOK
<1>1. ExternalInv => ExternalTypeOK
  BY DEF ExternalInv
<1>. QED
  BY <1>1, ExternalInvariant, PTL

(* A browser is only ever logged in by a login that was begun in it, as    *)
(* the account of the address that was proven at the provider.             *)
THEOREM CookiesOfOwnLogins == ExternalSpec => []CookieOfOwnLogin
<1>1. ExternalInv => CookieOfOwnLogin
  BY DEF ExternalInv, Genuine, CookieOfOwnLogin
<1>. QED
  BY <1>1, ExternalInvariant, PTL

(* Answers to other logins leave the cookie of the latest one in place.    *)
THEOREM LatestLoginsKept == ExternalSpec => []LatestLoginKept
<1>1. ExternalInv => LatestLoginKept
  BY DEF ExternalInv
<1>. QED
  BY <1>1, ExternalInvariant, PTL

(* A first login meets a conflict only for an account made meanwhile, or   *)
(* after its last attempt at a name.                                       *)
THEOREM ConflictsHaveReasons == ExternalSpec => []ConflictHasReason
<1>1. ExternalInv => ConflictHasReason
  BY DEF ExternalInv, Sound, HasReason, ConflictHasReason
<1>. QED
  BY <1>1, ExternalInvariant, PTL
=============================================================================
