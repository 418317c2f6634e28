----------------------------- MODULE JwksCache -----------------------------
(***************************************************************************)
(* Who signed this token: JwksState (api/middleware/auth.rs).  The handlers *)
(* of concurrent requests share one cached key set of the issuer and the   *)
(* URL it was discovered at.  A handler that finds the cache expired fetches *)
(* the set itself and stores what it got, whatever others stored meanwhile. *)
(* A token stands for the key that signed it.  Modelled with jwt_enabled   *)
(* and a usable URL: without the first every request passes, without the   *)
(* second every token is refused.                                          *)
(***************************************************************************)
EXTENDS Naturals, HttpServer

CONSTANTS
  SigningKeys,  \* keys the issuer may sign with
  NoKey,        \* no token
  Ttl,          \* ticks a stored key set is used (300 s)
  FetchTime     \* ticks a fetch may take (client timeout, 10 s)

ASSUME JwksAssumption ==
  NoKey \notin SigningKeys /\ Ttl \in Nat \ {0} /\ FetchTime \in Nat

VARIABLES
  published, \* the issuer: the key set it answers with
  since,     \* key: ticks since it was put into the set or taken out, up to Window
  resolved,  \* the URL of the set is known (configured, or discovered)
  cache,     \* the stored key set
  left,      \* ticks it is still used
  auth       \* handler: its token, see NoToken

jwksVars == <<published, since, resolved, cache, left, auth>>

\* How long a change of the key set may go unnoticed.
Window == Ttl + FetchTime

KeySets == SUBSET SigningKeys

\* stage: "idle", "discover", "fetch", "answered" (with the keys of the answer),
\* "accepted", "refused" (401).  timely: the verdict agrees with the issuer's
\* set, or disagrees about a key that was changed less than Window ago.
NoToken == [stage |-> "idle", key |-> NoKey, keys |-> {}, spent |-> 0, timely |-> TRUE]

JwksInit ==
  /\ published \in KeySets \ {{}}
  /\ since = [k \in SigningKeys |-> Window]
  /\ resolved \in BOOLEAN
  /\ cache = {} /\ left = 0
  /\ auth = [h \in Handlers |-> NoToken]

-----------------------------------------------------------------------------
\* The issuer changes its key set.
Rotate ==
  /\ published' \in KeySets \ {{}, published}
  /\ since' = [k \in SigningKeys |->
       IF (k \in published) # (k \in published') THEN 0 ELSE since[k]]
  /\ UNCHANGED <<resolved, cache, left, auth>>

\* A token is accepted if the set has the key that signed it, found by its kid
\* or, in a token without one, by trying each key.
Verdict(k, keys) ==
  [NoToken EXCEPT !.stage = IF k \in keys THEN "accepted" ELSE "refused",
                   !.timely = (k \in keys) = (k \in published) \/ since[k] < Window]

\* Mutant: an expired set is used while nobody has stored a newer one.
LookedUpStale(k) ==
  IF cache # {} THEN Verdict(k, cache)
                ELSE [NoToken EXCEPT !.stage = "fetch", !.key = k]

\* The stored set while it lives, else a fetch.
LookedUp(k) ==
  IF left > 0 THEN Verdict(k, cache)
              ELSE [NoToken EXCEPT !.stage = "fetch", !.key = k]

TokenArrives(h, k) ==
  /\ auth[h].stage = "idle"
  /\ auth' = [auth EXCEPT ![h] =
       IF resolved THEN LookedUp(k) ELSE [NoToken EXCEPT !.stage = "discover", !.key = k]]
  /\ UNCHANGED <<published, since, resolved, cache, left>>

\* A request without a token is refused (401).
TokenMissing(h) ==
  /\ auth[h].stage = "idle"
  /\ auth' = [auth EXCEPT ![h] = [NoToken EXCEPT !.stage = "refused"]]
  /\ UNCHANGED <<published, since, resolved, cache, left>>

\* The URL is stored for good; others may have filled the cache meanwhile.
Discover(h) ==
  /\ auth[h].stage = "discover"
  /\ resolved' = TRUE
  /\ auth' = [auth EXCEPT ![h] = LookedUp(auth[h].key)]
  /\ UNCHANGED <<published, since, cache, left>>

\* The issuer answers with the set it has now.
IssuerAnswers(h) ==
  /\ auth[h].stage = "fetch"
  /\ auth' = [auth EXCEPT ![h].stage = "answered", ![h].keys = published]
  /\ UNCHANGED <<published, since, resolved, cache, left>>

StoreKeys(h) ==
  /\ auth[h].stage = "answered"
  /\ cache' = auth[h].keys /\ left' = Ttl
  /\ auth' = [auth EXCEPT ![h] = Verdict(auth[h].key, auth[h].keys)]
  /\ UNCHANGED <<published, since, resolved>>

\* No answer in time, an error status, or no key set: nothing is stored.
FetchFails(h) ==
  /\ auth[h].stage \in {"discover", "fetch", "answered"}
  /\ auth' = [auth EXCEPT ![h] = [NoToken EXCEPT !.stage = "refused"]]
  /\ UNCHANGED <<published, since, resolved, cache, left>>

\* The response has been sent.
TokenDone(h) ==
  /\ auth[h].stage \in {"accepted", "refused"}
  /\ auth' = [auth EXCEPT ![h] = NoToken]
  /\ UNCHANGED <<published, since, resolved, cache, left>>

Fetching(h) == auth[h].stage \in {"fetch", "answered"}

Tick ==
  /\ \A h \in Handlers : Fetching(h) => auth[h].spent < FetchTime
  /\ left' = IF left > 0 THEN left - 1 ELSE 0
  /\ since' = [k \in SigningKeys |-> IF since[k] < Window THEN since[k] + 1 ELSE Window]
  /\ auth' = [h \in Handlers |->
       IF Fetching(h) THEN [auth[h] EXCEPT !.spent = @ + 1] ELSE auth[h]]
  /\ UNCHANGED <<published, resolved, cache>>

-----------------------------------------------------------------------------
TokenOf == [stage : {"idle", "discover", "fetch", "answered", "accepted", "refused"},
            key : SigningKeys \cup {NoKey}, keys : KeySets, spent : 0 .. FetchTime,
            timely : BOOLEAN]

JwksTypeOK ==
  /\ published \in KeySets /\ cache \in KeySets
  /\ since \in [SigningKeys -> 0 .. Window]
  /\ resolved \in BOOLEAN /\ left \in 0 .. Ttl
  /\ auth \in [Handlers -> TokenOf]

\* A verdict may disagree with the issuer only about a key that it added or
\* withdrew less than Window ago: concurrent fills of the cache, late answers
\* stored over newer ones and an unknown kid do not prolong that (auth.rs:82).
VerdictsTimely == \A h \in Handlers : auth[h].timely
=============================================================================
