----------------------------- MODULE JWKSCache -----------------------------
(***************************************************************************)
(* The cache of the identity provider's signing keys (auth/jwks.go): a     *)
(* background refresh every 30 seconds, one refresh on demand when a token *)
(* names a key the cache lacks, at most one fetch at a time by a           *)
(* singleflight, and a flag that refuses all tokens once the cache is too  *)
(* old.  Time passes in ticks of the background refresh.  The provider     *)
(* publishes one key at a time and replaces it by the next.                *)
(***************************************************************************)
EXTENDS Integers

CONSTANTS
    Validator,  \* goroutines in ValidateToken
    MaxKey,     \* bound on the keys published
    RefreshAge, \* ttl - 60 s, in ticks; the ttl is BASUYUDB_JWKS_CACHE_TTL_SECONDS
    StaleAge,   \* 30 min, in ticks
    Background  \* the goroutine of backgroundRefresh

ASSUME JWKSAssumption ==
    /\ MaxKey \in Nat
    /\ RefreshAge \in Int /\ StaleAge \in Nat
    /\ Background \notin Validator

\* The oldest that a background refresh leaves the cache without marking it stale: it
\* marks only a cache that it has tried to refresh.
OldestUnmarked == IF RefreshAge > StaleAge THEN RefreshAge - 1 ELSE StaleAge

MaxAge == OldestUnmarked + 2

VARIABLES
    idp,      \* the key the provider publishes
    reachable,\* whether it answers
    lag,      \* ticks since a key was replaced at the provider, up to MaxAge
    keySet,   \* JWKSCache.keySet: the key that was fetched last
    age,      \* ticks since fetchedAt, up to MaxAge
    stale,
    flight,   \* sfGroup.m["jwks"]: its leader, and how far its fetch has come
    call,     \* each goroutine's fetchAndCache: none, inside, or returned ok or failed
    bg,       \* backgroundRefresh: idle, fetching or failed, and the age it read
    ticked,   \* backgroundRefresh has run in this tick
    val       \* each validator: idle or fetching, its token's key, how old a key it took

jwksVars == <<idp, reachable, lag, keySet, age, stale, flight, call, bg, ticked, val>>

Goroutine == Validator \cup {Background}
NoFlight == [at |-> "none"]
Error == -1

-----------------------------------------------------------------------------
(* The provider and the clock.                                             *)

Publish ==
    /\ idp < MaxKey
    /\ idp' = idp + 1
    /\ UNCHANGED <<reachable, lag, keySet, age, stale, flight, call, bg, ticked, val>>

Outage ==
    /\ reachable' = ~reachable
    /\ UNCHANGED <<idp, lag, keySet, age, stale, flight, call, bg, ticked, val>>

\* A fetch times out after 10 s, so none outlasts a tick by much, and a goroutine
\* whose fetch has returned goes on within the tick; the background refresh runs
\* in every tick.
Tick ==
    /\ ticked /\ flight = NoFlight /\ bg.at = "idle"
    /\ \A p \in Validator : val[p].at = "idle"
    /\ age' = IF age < MaxAge THEN age + 1 ELSE age
    /\ lag' = [k \in 0 .. MaxKey |-> IF k < idp /\ lag[k] < MaxAge THEN lag[k] + 1 ELSE lag[k]]
    /\ ticked' = FALSE
    /\ UNCHANGED <<idp, reachable, keySet, stale, flight, call, bg, val>>

-----------------------------------------------------------------------------
(* fetchAndCache and doFetch.                                              *)

\* A call is led by its first caller; later callers wait for the leader's result, and
\* get it at once when the fetch is over but the call is not yet forgotten.
FetchKeys(p) ==
    \/ /\ flight = NoFlight
       /\ flight' = [at |-> "asked", leader |-> p]
       /\ call' = [call EXCEPT ![p] = "inside"]
    \/ /\ flight.at \in {"asked", "answered"}
       /\ flight' = flight
       /\ call' = [call EXCEPT ![p] = "inside"]
    \/ /\ flight.at = "done"
       /\ flight' = flight
       /\ call' = [call EXCEPT ![p] = flight.result]

\* The request is answered with the provider's key, or it fails.
Respond ==
    /\ flight.at = "asked"
    /\ flight' = [at |-> "answered", leader |-> flight.leader,
                  key |-> IF reachable THEN idp ELSE Error]
    /\ UNCHANGED <<idp, reachable, lag, keySet, age, stale, call, bg, ticked, val>>

\* wg.Done releases those who wait; the leader is still in Do.
Release(result) ==
    /\ flight' = [at |-> "done", leader |-> flight.leader, result |-> result]
    /\ call' = [p \in Goroutine |->
                   IF call[p] = "inside" /\ p # flight.leader THEN result ELSE call[p]]

\* Variant: the flag is not cleared.
StoreKeepingStale ==
    /\ flight.at = "answered"
    /\ IF flight.key = Error
       THEN Release("failed") /\ UNCHANGED <<keySet, age, stale>>
       ELSE Release("ok") /\ keySet' = flight.key /\ age' = 0 /\ stale' = stale
    /\ UNCHANGED <<idp, reachable, lag, bg, ticked, val>>

\* doFetch stores the key set under mu.
Store ==
    /\ flight.at = "answered"
    /\ IF flight.key = Error
       THEN Release("failed") /\ UNCHANGED <<keySet, age, stale>>
       ELSE Release("ok") /\ keySet' = flight.key /\ age' = 0 /\ stale' = FALSE
    /\ UNCHANGED <<idp, reachable, lag, bg, ticked, val>>

\* The leader deletes the call and returns.
Forget ==
    /\ flight.at = "done"
    /\ flight' = NoFlight
    /\ call' = [call EXCEPT ![flight.leader] = flight.result]
    /\ UNCHANGED <<idp, reachable, lag, keySet, age, stale, bg, ticked, val>>

Returned(p) == call[p] \in {"ok", "failed"}

-----------------------------------------------------------------------------
(* backgroundRefresh.                                                      *)

\* The age is read once, before the fetch.
Refresh ==
    /\ bg.at = "idle"
    /\ ~ticked
    /\ ticked' = TRUE
    /\ IF age >= RefreshAge
       THEN bg' = [at |-> "fetching", age |-> age] /\ FetchKeys(Background)
       ELSE UNCHANGED <<bg, flight, call>>
    /\ UNCHANGED <<idp, reachable, lag, keySet, age, stale, val>>

Refreshed ==
    /\ bg.at = "fetching"
    /\ Returned(Background)
    /\ bg' = [at |-> IF call[Background] = "failed" /\ bg.age > StaleAge THEN "failed" ELSE "idle"]
    /\ call' = [call EXCEPT ![Background] = "none"]
    /\ UNCHANGED <<idp, reachable, lag, keySet, age, stale, flight, ticked, val>>

\* mu is taken again to set the flag: another fetch may have succeeded meanwhile.
MarkStale ==
    /\ bg.at = "failed"
    /\ stale' = TRUE
    /\ bg' = [at |-> "idle"]
    /\ UNCHANGED <<idp, reachable, lag, keySet, age, flight, call, ticked, val>>

-----------------------------------------------------------------------------
(* ValidateToken, for a token that is in order but for its key.            *)

Accepts(p, k) == [val EXCEPT ![p] = [at |-> "idle", took |-> lag[k]]]
Rejects(p) == [val EXCEPT ![p] = [at |-> "idle", took |-> 0]]

\* An unknown key asks for one refresh.
Examine(p, k) ==
    \/ k = keySet /\ val' = Accepts(p, k) /\ UNCHANGED <<flight, call>>
    \/ k # keySet /\ val' = [val EXCEPT ![p] = [at |-> "fetching", key |-> k]] /\ FetchKeys(p)

\* Variant: the flag is not looked at.
ValidateStale(p) ==
    /\ val[p].at = "idle"
    /\ \E k \in 0 .. idp : Examine(p, k)
    /\ UNCHANGED <<idp, reachable, lag, keySet, age, stale, bg, ticked>>

\* keySet and stale are read together.
Validate(p) ==
    /\ val[p].at = "idle"
    /\ \/ stale /\ val' = Rejects(p) /\ UNCHANGED <<flight, call>>
       \/ ~stale /\ \E k \in 0 .. idp : Examine(p, k)
    /\ UNCHANGED <<idp, reachable, lag, keySet, age, stale, bg, ticked>>

\* The retry looks at the key set only.
Retry(p) ==
    /\ val[p].at = "fetching"
    /\ Returned(p)
    /\ val' = IF call[p] = "ok" /\ val[p].key = keySet THEN Accepts(p, keySet) ELSE Rejects(p)
    /\ call' = [call EXCEPT ![p] = "none"]
    /\ UNCHANGED <<idp, reachable, lag, keySet, age, stale, flight, bg, ticked>>

-----------------------------------------------------------------------------
\* NewJWKSCache fetches before it returns.
JWKSInit ==
    /\ idp = 0
    /\ reachable = TRUE
    /\ lag = [k \in 0 .. MaxKey |-> 0]
    /\ keySet = 0
    /\ age = 0
    /\ stale = FALSE
    /\ flight = NoFlight
    /\ call = [p \in Goroutine |-> "none"]
    /\ bg = [at |-> "idle"]
    /\ ticked = FALSE
    /\ val = [p \in Validator |-> [at |-> "idle", took |-> 0]]

JWKSNext ==
    \/ Publish \/ Outage \/ Tick \/ Respond \/ Store \/ Forget
    \/ Refresh \/ Refreshed \/ MarkStale
    \/ \E p \in Validator : Validate(p) \/ Retry(p)

\* The ticker fires and a goroutine that can run does; requests come back or time
\* out.
JWKSFairness ==
    /\ WF_jwksVars(Tick) /\ WF_jwksVars(Respond) /\ WF_jwksVars(Store) /\ WF_jwksVars(Forget)
    /\ WF_jwksVars(Refresh) /\ WF_jwksVars(Refreshed) /\ WF_jwksVars(MarkStale)
    /\ \A p \in Validator : WF_jwksVars(Retry(p))

(* A token is accepted only under a key that the provider still published  *)
(* half an hour and a tick ago, or the age at which the cache is refreshed *)
(* when a ttl above 31 minutes makes that later, however long the provider *)
(* is out of reach (backgroundRefresh's flag, read by ValidateToken).      *)
TrustIsBounded ==
    \A p \in Validator : val[p].at = "idle" => val[p].took <= OldestUnmarked + 1

(* Once the provider stays reachable, tokens stop being refused as stale   *)
(* for good, even though a failed refresh may set the flag after another   *)
(* has succeeded (backgroundRefresh, doFetch).                             *)
StaleIsCleared == <>[]reachable => <>[]~stale
=============================================================================
