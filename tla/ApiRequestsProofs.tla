------------------------- MODULE ApiRequestsProofs -------------------------
(***************************************************************************)
(* Theorems about ApiRequests.  The two halves of the state, the key cache *)
(* and the split payments, have an invariant each; what links them is that *)
(* only accepted requests have a transaction.                              *)
(***************************************************************************)
EXTENDS ApiRequests, FiniteSetTheorems, TLAPS

USE JwksAssumption, PaymentAssumption

-----------------------------------------------------------------------------
(* The steps of each half.                                                 *)

JwksStep(h) ==
  \/ TokenMissing(h) \/ \E k \in SigningKeys : TokenArrives(h, k)
  \/ Discover(h) \/ IssuerAnswers(h) \/ StoreKeys(h) \/ FetchFails(h)
  \/ TokenDone(h)

JwksNext == Rotate \/ Tick \/ \E h \in Handlers : JwksStep(h)

PayStep(h) ==
  \/ \E k \in Keys : BeginCreate(h, k)
  \/ Insert(h) \/ ReadExisting(h) \/ Commit(h) \/ Respond(h) \/ RequestFails(h)

PayNext == StartWalk \/ ReadPage \/ ReadTotal \/ \E h \in Handlers : PayStep(h)

\* A step of the API is a step of each half, or leaves it alone.
LEMMA Halves ==
  ASSUME [Next]_vars
  PROVE  /\ JwksNext \/ UNCHANGED jwksVars
         /\ PayNext \/ UNCHANGED payVars
<1>1. CASE UNCHANGED vars
  BY <1>1 DEF vars
<1>2. ASSUME NEW h \in Handlers, RequestStep(h)
      PROVE  /\ JwksStep(h) \/ UNCHANGED jwksVars
             /\ PayStep(h) \/ UNCHANGED payVars
  BY <1>2 DEF RequestStep, Arrive, Authenticate, Create, Process, Finish, Dismiss,
              JwksStep, PayStep
<1>3. CASE Walk
  BY <1>3 DEF Walk, PayNext
<1>4. CASE (Rotate \/ Tick) /\ UNCHANGED payVars
  BY <1>4 DEF JwksNext
<1> QED
  BY <1>1, <1>2, <1>3, <1>4 DEF Next, JwksNext, PayNext

-----------------------------------------------------------------------------
(* The key cache.                                                          *)

\* The key set and the issuer's disagree about a key.
Differ(k, keys) == (k \in keys) # (k \in published)

\* What is known of a set that was answered, or is stored: how long ago a key
\* can have been changed that it does not show.
AnswersFresh ==
  \A h \in Handlers : auth[h].stage = "answered" =>
    \A k \in SigningKeys : Differ(k, auth[h].keys) => since[k] <= auth[h].spent

CacheFresh ==
  left > 0 => \A k \in SigningKeys :
                Differ(k, cache) => since[k] <= FetchTime + (Ttl - left)

\* A request that waits for keys has a token.
TokensKept ==
  \A h \in Handlers :
    auth[h].stage \in {"discover", "fetch", "answered"} => auth[h].key \in SigningKeys

JwksInv == JwksTypeOK /\ TokensKept /\ AnswersFresh /\ CacheFresh /\ VerdictsTimely

LEMMA JwksInitial == JwksInit => JwksInv
  BY DEF JwksInit, JwksInv, JwksTypeOK, TokensKept, AnswersFresh, CacheFresh,
         VerdictsTimely, TokenOf, NoToken, KeySets, Window

\* A verdict is timely if the set it rests on hides no old change.
LEMMA VerdictTimely ==
  ASSUME JwksTypeOK, NEW k \in SigningKeys, NEW keys \in KeySets,
         Differ(k, keys) => since[k] < Window
  PROVE  Verdict(k, keys) \in TokenOf
         /\ Verdict(k, keys).timely = TRUE
         /\ Verdict(k, keys).stage \in {"accepted", "refused"}
<1>1. Verdict(k, keys) = [stage |-> IF k \in keys THEN "accepted" ELSE "refused",
                          key |-> NoKey, keys |-> {}, spent |-> 0, timely |-> TRUE]
  <2>1. ((k \in keys) = (k \in published) \/ since[k] < Window) = TRUE
    BY DEF Differ
  <2>2. Verdict(k, keys) =
          [NoToken EXCEPT !.stage = IF k \in keys THEN "accepted" ELSE "refused",
                          !.timely = TRUE]
    BY <2>1, Zenon DEF Verdict
  <2> QED BY <2>2 DEF NoToken
<1> QED BY <1>1 DEF TokenOf, KeySets

LEMMA LookedUpTimely ==
  ASSUME JwksInv, NEW k \in SigningKeys
  PROVE  /\ LookedUp(k) \in TokenOf /\ LookedUp(k).timely = TRUE
         /\ LookedUp(k).stage \in {"accepted", "refused", "fetch"}
         /\ LookedUp(k).stage = "fetch" => LookedUp(k).key = k
<1>1. CASE left > 0
  <2>1. cache \in KeySets /\ left \in 0 .. Ttl /\ since[k] \in 0 .. Window
    BY DEF JwksInv, JwksTypeOK
  <2>2. Differ(k, cache) => since[k] < Window
    BY <1>1, <2>1 DEF JwksInv, CacheFresh, Window
  <2>3. LookedUp(k) = Verdict(k, cache)
    BY <1>1 DEF LookedUp
  <2> QED BY <2>1, <2>2, <2>3, VerdictTimely DEF JwksInv
<1>2. CASE ~(left > 0)
  <2>1. LookedUp(k) = [stage |-> "fetch", key |-> k, keys |-> {}, spent |-> 0,
                       timely |-> TRUE]
    BY <1>2 DEF LookedUp, NoToken
  <2> QED BY <2>1 DEF TokenOf, KeySets
<1> QED BY <1>1, <1>2

\* A step of a request that leaves the issuer, the stored set and its life
\* alone needs a sound record of the request only.
LEMMA RequestSound ==
  ASSUME JwksInv, NEW h \in Handlers, NEW r \in TokenOf,
         UNCHANGED <<published, since, cache, left>>, resolved' \in BOOLEAN,
         auth' = [auth EXCEPT ![h] = r], r.timely = TRUE,
         r.stage \in {"discover", "fetch", "answered"} => r.key \in SigningKeys,
         r.stage = "answered" =>
           \A k \in SigningKeys : Differ(k, r.keys) => since[k] <= r.spent
  PROVE  JwksInv'
<1>1. \A g \in Handlers : auth'[g] = IF g = h THEN r ELSE auth[g]
  BY DEF JwksInv, JwksTypeOK
<1>2. JwksTypeOK'
  BY DEF JwksInv, JwksTypeOK, Window, KeySets, TokenOf
<1>3. TokensKept'
  BY <1>1 DEF JwksInv, TokensKept
<1>4. AnswersFresh'
  BY <1>1 DEF JwksInv, AnswersFresh, Differ
<1>5. CacheFresh'
  BY DEF JwksInv, CacheFresh, Differ
<1>6. VerdictsTimely'
  BY <1>1 DEF JwksInv, VerdictsTimely
<1> QED BY <1>2, <1>3, <1>4, <1>5, <1>6 DEF JwksInv

LEMMA JwksStepSound ==
  ASSUME JwksInv, NEW h \in Handlers, JwksStep(h)
  PROVE  JwksInv'
<1> USE DEF JwksInv
<1>0. /\ auth[h] \in TokenOf /\ published \in KeySets /\ resolved \in BOOLEAN
      /\ auth[h].timely = TRUE /\ auth[h].spent \in 0 .. FetchTime
  BY DEF JwksTypeOK, VerdictsTimely, TokenOf
<1>1. ASSUME auth' = [auth EXCEPT ![h] = [NoToken EXCEPT !.stage = "refused"]],
             UNCHANGED <<published, since, resolved, cache, left>>
      PROVE  JwksInv'
  <2>1. PICK r : r = [NoToken EXCEPT !.stage = "refused"]
    OBVIOUS
  <2>2. r = [stage |-> "refused", key |-> NoKey, keys |-> {}, spent |-> 0, timely |-> TRUE]
    BY <2>1 DEF NoToken
  <2>3. r \in TokenOf /\ r.timely = TRUE /\ r.stage = "refused"
    BY <2>2 DEF TokenOf, KeySets
  <2> QED BY <1>0, <1>1, <2>1, <2>3, RequestSound
<1>2. ASSUME NEW k \in SigningKeys, TokenArrives(h, k)
      PROVE  JwksInv'
  <2>1. CASE resolved
    <3>1. auth' = [auth EXCEPT ![h] = LookedUp(k)]
      BY <1>2, <2>1 DEF TokenArrives
    <3>2. /\ LookedUp(k) \in TokenOf /\ LookedUp(k).timely = TRUE
          /\ LookedUp(k).stage \in {"accepted", "refused", "fetch"}
          /\ LookedUp(k).stage = "fetch" => LookedUp(k).key = k
      BY LookedUpTimely
    <3> QED BY <1>0, <1>2, <3>1, <3>2, RequestSound DEF TokenArrives
  <2>2. CASE ~resolved
    <3>1. PICK r : r = [NoToken EXCEPT !.stage = "discover", !.key = k]
      OBVIOUS
    <3>2. r = [stage |-> "discover", key |-> k, keys |-> {}, spent |-> 0, timely |-> TRUE]
      BY <3>1 DEF NoToken
    <3>3. r \in TokenOf /\ r.timely = TRUE /\ r.stage = "discover" /\ r.key = k
      BY <3>2 DEF TokenOf, KeySets
    <3> QED BY <1>0, <1>2, <2>2, <3>1, <3>3, RequestSound DEF TokenArrives
  <2> QED BY <1>0, <2>1, <2>2
<1>3. CASE Discover(h)
  <2>1. auth[h].key \in SigningKeys
    BY <1>3 DEF Discover, TokensKept
  <2> QED BY <1>0, <1>3, <2>1, LookedUpTimely, RequestSound DEF Discover
<1>4. CASE IssuerAnswers(h)
  <2>1. PICK r : r = [auth[h] EXCEPT !.stage = "answered", !.keys = published]
    OBVIOUS
  <2>2. /\ r \in TokenOf /\ r.timely = TRUE /\ r.key = auth[h].key
        /\ r.keys = published /\ r.stage = "answered"
    BY <1>0, <2>1 DEF TokenOf
  <2>3. auth' = [auth EXCEPT ![h] = r]
    BY <1>4, <2>1 DEF IssuerAnswers, JwksTypeOK
  <2>4. auth[h].key \in SigningKeys
    BY <1>4 DEF IssuerAnswers, TokensKept
  <2>5. \A k \in SigningKeys : ~ Differ(k, r.keys)
    BY <2>2 DEF Differ
  <2> QED BY <1>0, <1>4, <2>2, <2>3, <2>4, <2>5, RequestSound DEF IssuerAnswers
<1>5. CASE StoreKeys(h)
  <2>1. auth[h].key \in SigningKeys /\ auth[h].keys \in KeySets
    BY <1>0, <1>5 DEF StoreKeys, TokensKept, TokenOf
  <2>2. \A k \in SigningKeys : Differ(k, auth[h].keys) => since[k] <= FetchTime
    BY <1>0, <1>5 DEF StoreKeys, AnswersFresh, JwksTypeOK, Window
  <2>3. \A k \in SigningKeys : Differ(k, auth[h].keys) => since[k] < Window
    BY <2>2 DEF JwksTypeOK, Window
  <2>4. PICK r : r = Verdict(auth[h].key, auth[h].keys)
    OBVIOUS
  <2>5. r \in TokenOf /\ r.timely = TRUE /\ r.stage \in {"accepted", "refused"}
    BY <2>1, <2>3, <2>4, VerdictTimely
  <2>6. \A g \in Handlers : auth'[g] = IF g = h THEN r ELSE auth[g]
    BY <1>5, <2>4 DEF StoreKeys, JwksTypeOK
  <2>7. JwksTypeOK'
    BY <1>5, <2>1, <2>4, <2>5 DEF StoreKeys, JwksTypeOK
  <2>8. TokensKept' /\ AnswersFresh' /\ VerdictsTimely'
    BY <1>5, <2>5, <2>6 DEF StoreKeys, TokensKept, AnswersFresh, VerdictsTimely, Differ
  <2>9. CacheFresh'
    BY <1>5, <2>2 DEF StoreKeys, CacheFresh, Differ
  <2> QED BY <2>7, <2>8, <2>9
<1>6. CASE TokenDone(h)
  <2>1. NoToken \in TokenOf /\ NoToken.timely = TRUE /\ NoToken.stage = "idle"
    BY DEF NoToken, TokenOf, KeySets
  <2> QED BY <1>0, <1>6, <2>1, RequestSound DEF TokenDone
<1>7. CASE TokenMissing(h)
  BY <1>1, <1>7 DEF TokenMissing
<1>8. CASE FetchFails(h)
  BY <1>1, <1>8 DEF FetchFails
<1> QED
  BY <1>2, <1>3, <1>4, <1>5, <1>6, <1>7, <1>8 DEF JwksStep

LEMMA RotateSound ==
  ASSUME JwksInv, Rotate
  PROVE  JwksInv'
<1> USE DEF JwksInv
<1>1. JwksTypeOK'
  BY DEF Rotate, JwksTypeOK, Window
<1>2. \A k \in SigningKeys :
        \/ since'[k] = 0
        \/ since'[k] = since[k] /\ ((k \in published) <=> (k \in published'))
  BY DEF Rotate, JwksTypeOK
<1>3. AnswersFresh'
  BY <1>2 DEF Rotate, AnswersFresh, Differ, JwksTypeOK, TokenOf
<1>4. CacheFresh'
  BY <1>2 DEF Rotate, CacheFresh, Differ, JwksTypeOK
<1>5. TokensKept' /\ VerdictsTimely'
  BY DEF Rotate, TokensKept, VerdictsTimely
<1> QED BY <1>1, <1>3, <1>4, <1>5

\* A tick adds one to every age, and as much to the time of a fetch or to the
\* part of its life that the stored set has behind it.
LEMMA TickSound ==
  ASSUME JwksInv, Tick
  PROVE  JwksInv'
<1> USE DEF JwksInv
<1>1. /\ \A k \in SigningKeys : since'[k] \in 0 .. Window /\ since'[k] <= since[k] + 1
      /\ since' \in [SigningKeys -> 0 .. Window]
  BY DEF Tick, JwksTypeOK, Window
<1>2. \A h \in Handlers :
        /\ auth[h] \in TokenOf
        /\ Fetching(h) => auth[h].spent < FetchTime /\ auth'[h] = [auth[h] EXCEPT !.spent = auth[h].spent + 1]
        /\ ~Fetching(h) => auth'[h] = auth[h]
  BY DEF Tick, JwksTypeOK
<1>3. \A h \in Handlers :
        /\ auth'[h] \in TokenOf
        /\ auth'[h].stage = auth[h].stage /\ auth'[h].key = auth[h].key
        /\ auth'[h].keys = auth[h].keys /\ auth'[h].timely = auth[h].timely
        /\ Fetching(h) => auth'[h].spent = auth[h].spent + 1
  <2> TAKE h \in Handlers
  <2>1. CASE Fetching(h)
    <3>1. PICK n : n = auth[h].spent + 1
      OBVIOUS
    <3>2. n \in 0 .. FetchTime
      <4>1. auth[h].spent \in 0 .. FetchTime
        BY DEF JwksTypeOK, TokenOf
      <4>2. auth[h].spent < FetchTime
        BY <2>1 DEF Tick
      <4> QED BY <3>1, <4>1, <4>2
    <3>3. auth'[h] = [auth[h] EXCEPT !.spent = n]
      BY <1>2, <2>1, <3>1
    <3>4. auth[h] \in TokenOf
      BY <1>2
    <3>5. /\ auth'[h] \in TokenOf /\ auth'[h].stage = auth[h].stage
          /\ auth'[h].key = auth[h].key /\ auth'[h].keys = auth[h].keys
          /\ auth'[h].spent = n
      BY <3>2, <3>3, <3>4 DEF TokenOf
    <3>6. auth'[h].timely = auth[h].timely
      BY <3>3, <3>4, Zenon DEF TokenOf
    <3> QED BY <3>1, <3>5, <3>6
  <2>2. CASE ~Fetching(h)
    BY <1>2, <2>2
  <2> QED BY <2>1, <2>2
<1>4. auth' \in [Handlers -> TokenOf]
  <2>1. auth' = [h \in Handlers |-> auth'[h]]
    BY DEF Tick
  <2> QED BY <1>3, <2>1
<1>5. left' \in 0 .. Ttl /\ (left' > 0 => left' = left - 1 /\ left > 0)
  BY DEF Tick, JwksTypeOK
<1>6. JwksTypeOK'
  BY <1>1, <1>4, <1>5 DEF Tick, JwksTypeOK, Window
<1>7. AnswersFresh'
  <2> SUFFICES ASSUME NEW h \in Handlers, auth'[h].stage = "answered",
                      NEW k \in SigningKeys, (k \in auth'[h].keys) # (k \in published')
               PROVE  since'[k] <= auth'[h].spent
    BY DEF AnswersFresh, Differ
  <2>1. auth[h].stage = "answered" /\ Differ(k, auth[h].keys) /\ Fetching(h)
    BY <1>3 DEF Differ, Tick, Fetching
  <2>2. since[k] <= auth[h].spent
    BY <2>1 DEF AnswersFresh
  <2> QED BY <1>1, <1>2, <1>3, <2>1, <2>2 DEF TokenOf, JwksTypeOK
<1>8. CacheFresh'
  <2> SUFFICES ASSUME left' > 0, NEW k \in SigningKeys, Differ(k, cache)'
               PROVE  since'[k] <= FetchTime + (Ttl - left')
    BY DEF CacheFresh
  <2>1. since[k] <= FetchTime + (Ttl - left)
    BY <1>5 DEF CacheFresh, Differ, Tick
  <2> QED BY <1>1, <1>5, <2>1 DEF JwksTypeOK
<1>9. TokensKept' /\ VerdictsTimely'
  BY <1>3 DEF TokensKept, VerdictsTimely
<1> QED BY <1>6, <1>7, <1>8, <1>9

LEMMA JwksSound ==
  ASSUME JwksInv, JwksNext \/ UNCHANGED jwksVars
  PROVE  JwksInv'
<1>1. CASE UNCHANGED jwksVars
  BY <1>1 DEF jwksVars, JwksInv, JwksTypeOK, TokensKept, AnswersFresh, CacheFresh,
              VerdictsTimely, Differ
<1>2. CASE JwksNext
  BY <1>2, RotateSound, TickSound, JwksStepSound DEF JwksNext
<1> QED BY <1>1, <1>2

\* A verdict may disagree with the issuer only about a key that it added or
\* withdrew less than the life of a stored set plus the time of a fetch ago,
\* for any number of concurrent requests and keys (auth.rs:64-88).
THEOREM VerdictsAreTimely == Spec => []VerdictsTimely
<1>1. Init => JwksInv
  BY JwksInitial DEF Init
<1>2. JwksInv /\ [Next]_vars => JwksInv'
  BY Halves, JwksSound
<1>3. JwksInv => VerdictsTimely
  BY DEF JwksInv
<1> QED BY <1>1, <1>2, <1>3, PTL DEF Spec

-----------------------------------------------------------------------------
(* The split payments.                                                     *)

\* What a transaction knows of the row of its key.
TxSound ==
  \A h \in Handlers :
    /\ tx[h].stage = "inserted" => row[tx[h].key] = NoEvent
    /\ tx[h].stage = "conflict" => row[tx[h].key] # NoEvent
    /\ tx[h].stage \in {"read", "committed"} => row[tx[h].key] = tx[h].id

\* The unique index keeps a second insert of a key waiting.
OneInsert ==
  \A g, h \in Handlers :
    tx[g].stage = "inserted" /\ tx[h].stage = "inserted" /\ tx[g].key = tx[h].key
      => g = h

TxInv == PayTypeOK /\ TxSound /\ OneInsert

\* A row is never changed.
RowsKept == \A k \in Keys : row[k] # NoEvent => row'[k] = row[k]

\* A step of the transactions is one of KeyedEvents, or changes nothing there.
KeyedStep == Keyed!Next \/ UNCHANGED <<row, told>>

TxStepSound == TxInv' /\ RowsKept /\ KeyedStep

\* A record that a transaction may have, beside those of the others.
GoodRecord(h, t) ==
  /\ t \in TxOf
  /\ t.stage # "idle" => t.key \in Keys /\ t.id \in Ids
  /\ t.stage = "inserted" => row[t.key] = NoEvent
  /\ t.stage = "conflict" => row[t.key] # NoEvent
  /\ t.stage \in {"read", "committed"} => row[t.key] = t.id
  /\ \A g \in Handlers \ {h} :
       t.stage = "inserted" /\ tx[g].stage = "inserted" => tx[g].key # t.key

\* A step that changes the record of one transaction and no row needs a good
\* record only.
LEMMA RecordSound ==
  ASSUME TxInv, NEW h \in Handlers, NEW t, GoodRecord(h, t),
         tx' = [tx EXCEPT ![h] = t],
         UNCHANGED <<row, told, walk>>, begun' \in 0 .. MaxCreates
  PROVE  TxStepSound
<1> USE DEF TxInv
<1>1. \A g \in Handlers : tx'[g] = IF g = h THEN t ELSE tx[g]
  BY DEF PayTypeOK
<1>2. PayTypeOK'
  BY <1>1 DEF PayTypeOK, GoodRecord
<1>3. TxSound'
  BY <1>1 DEF TxSound, GoodRecord
<1>4. OneInsert'
  BY <1>1 DEF OneInsert, GoodRecord
<1> QED BY <1>2, <1>3, <1>4 DEF TxStepSound, RowsKept, KeyedStep

LEMMA PayStepSound ==
  ASSUME TxInv, NEW h \in Handlers, PayStep(h)
  PROVE  TxStepSound
<1> USE DEF TxInv
<1>1. /\ tx[h] \in TxOf /\ row \in [Keys -> Ids \cup {NoEvent}] /\ begun \in 0 .. MaxCreates
      /\ tx[h].stage # "idle" => tx[h].key \in Keys /\ tx[h].id \in Ids
  BY DEF PayTypeOK
<1>2. ASSUME NEW k \in Keys, BeginCreate(h, k)
      PROVE  TxStepSound
  <2>1. begun + 1 \in Ids /\ begun' \in 0 .. MaxCreates
    BY <1>1, <1>2 DEF BeginCreate, Ids
  <2>2. PICK t : t = [stage |-> "begun", key |-> k, id |-> begun + 1]
    OBVIOUS
  <2>3. t \in TxOf /\ t.stage = "begun" /\ t.key \in Keys /\ t.id \in Ids
    BY <2>1, <2>2 DEF TxOf
  <2>4. tx' = [tx EXCEPT ![h] = t] /\ UNCHANGED <<row, told, walk>>
    BY <1>2, <2>2 DEF BeginCreate
  <2>5. GoodRecord(h, t)
    BY <2>3 DEF GoodRecord
  <2> QED BY <2>1, <2>4, <2>5, RecordSound
<1>3. CASE Insert(h)
  <2>1. PICK t : t = [tx[h] EXCEPT !.stage =
                        IF row[tx[h].key] = NoEvent THEN "inserted" ELSE "conflict"]
    OBVIOUS
  <2>2. /\ t \in TxOf /\ t.key = tx[h].key /\ t.id = tx[h].id
        /\ t.stage = IF row[tx[h].key] = NoEvent THEN "inserted" ELSE "conflict"
    BY <1>1, <2>1 DEF TxOf
  <2>3. tx' = [tx EXCEPT ![h] = t]
    BY <1>3, <2>1 DEF Insert, PayTypeOK
  <2>4. \A g \in Handlers \ {h} : tx[g].stage = "inserted" => tx[g].key # t.key
    BY <1>3, <2>2 DEF Insert, MustWait
  <2>5. tx[h].stage = "begun"
    BY <1>3 DEF Insert
  <2>6. UNCHANGED <<row, told, walk>> /\ begun' \in 0 .. MaxCreates
    BY <1>1, <1>3 DEF Insert
  <2>7. GoodRecord(h, t)
    BY <1>1, <2>2, <2>4, <2>5 DEF GoodRecord
  <2> QED BY <2>3, <2>6, <2>7, RecordSound
<1>4. CASE ReadExisting(h)
  <2>1. PICK t : t = [tx[h] EXCEPT !.stage = "read", !.id = row[tx[h].key]]
    OBVIOUS
  <2>2. tx[h].stage = "conflict" /\ tx[h].key \in Keys /\ row[tx[h].key] \in Ids
    BY <1>1, <1>4 DEF ReadExisting, TxSound
  <2>3. t \in TxOf /\ t.key = tx[h].key /\ t.id = row[tx[h].key] /\ t.stage = "read"
    BY <1>1, <2>1, <2>2 DEF TxOf
  <2>4. tx' = [tx EXCEPT ![h] = t]
    BY <1>4, <2>1 DEF ReadExisting, PayTypeOK
  <2>5. GoodRecord(h, t)
    BY <2>2, <2>3 DEF GoodRecord
  <2>6. UNCHANGED <<row, told, walk>> /\ begun' \in 0 .. MaxCreates
    BY <1>1, <1>4 DEF ReadExisting
  <2> QED BY <2>4, <2>5, <2>6, RecordSound
<1>5. CASE Commit(h)
  <2>1. PICK t : t = [tx[h] EXCEPT !.stage = "committed"]
    OBVIOUS
  <2>2. /\ t \in TxOf /\ t.key = tx[h].key /\ t.id = tx[h].id /\ t.stage = "committed"
        /\ tx[h].key \in Keys /\ tx[h].id \in Ids
    BY <1>1, <1>5, <2>1 DEF TxOf, Commit
  <2>3. tx' = [tx EXCEPT ![h] = t]
    BY <1>5, <2>1 DEF Commit, PayTypeOK
  <2>4. CASE tx[h].stage = "read"
    <3>1. row[t.key] = t.id
      BY <2>2, <2>4 DEF TxSound
    <3>2. GoodRecord(h, t)
      BY <2>2, <3>1 DEF GoodRecord
    <3>3. UNCHANGED <<row, told, walk>> /\ begun' \in 0 .. MaxCreates
      BY <1>1, <1>5, <2>4 DEF Commit
    <3> QED BY <2>3, <3>2, <3>3, RecordSound
  <2>5. CASE tx[h].stage = "inserted"
    <3>1. /\ row' = [row EXCEPT ![t.key] = t.id] /\ row[t.key] = NoEvent
          /\ UNCHANGED <<begun, told, walk>>
      BY <1>5, <2>2, <2>5 DEF Commit, TxSound
    <3>2. \A k \in Keys : row'[k] = IF k = t.key THEN t.id ELSE row[k]
      BY <1>1, <2>2, <3>1
    <3>3. \A g \in Handlers : tx'[g] = IF g = h THEN t ELSE tx[g]
      BY <2>3 DEF PayTypeOK
    <3>4. PayTypeOK'
      BY <1>1, <2>2, <2>3, <3>1, <3>3 DEF PayTypeOK
    <3>5. t.id # NoEvent
      BY <2>2 DEF Ids
    <3>6. TxSound'
      <4> SUFFICES ASSUME NEW g \in Handlers, g # h
                   PROVE  /\ tx[g].stage = "inserted" => row'[tx[g].key] = NoEvent
                          /\ tx[g].stage = "conflict" => row'[tx[g].key] # NoEvent
                          /\ tx[g].stage \in {"read", "committed"} =>
                               row'[tx[g].key] = tx[g].id
        BY <2>2, <3>2, <3>3 DEF TxSound
      <4>1. tx[g].stage = "inserted" => tx[g].key # t.key
        BY <2>2, <2>5 DEF OneInsert
      <4>2. tx[g].stage # "idle" => tx[g].key \in Keys /\ tx[g].id \in Ids
        BY DEF PayTypeOK
      <4>3. tx[g].stage \in {"read", "committed"} => tx[g].key # t.key
        BY <3>1, <4>2 DEF TxSound, Ids
      <4> QED BY <3>2, <3>5, <4>1, <4>2, <4>3 DEF TxSound
    <3>7. OneInsert'
      BY <2>2, <3>3 DEF OneInsert
    <3>8. RowsKept
      BY <3>1, <3>2 DEF RowsKept
    <3>9. KeyedStep
      <4>1. Keyed!Create(t.key)
        BY <2>2, <3>1 DEF Keyed!Create
      <4> QED BY <2>2, <4>1 DEF Keyed!Next, KeyedStep
    <3> QED BY <3>4, <3>6, <3>7, <3>8, <3>9 DEF TxStepSound
  <2> QED BY <1>5, <2>4, <2>5 DEF Commit
<1>6. CASE Respond(h)
  <2>1. /\ tx[h].stage = "committed" /\ tx[h].key \in Keys /\ tx[h].id \in Ids
        /\ row[tx[h].key] = tx[h].id
    BY <1>1, <1>6 DEF Respond, TxSound
  <2>2. NoTx \in TxOf /\ NoTx.stage = "idle"
    BY DEF NoTx, TxOf
  <2>3. \A g \in Handlers : tx'[g] = IF g = h THEN NoTx ELSE tx[g]
    BY <1>6 DEF Respond, PayTypeOK
  <2>4. told' \in [Keys -> SUBSET Ids]
    BY <1>6, <2>1 DEF Respond, PayTypeOK
  <2>5. PayTypeOK'
    BY <1>6, <2>2, <2>3, <2>4 DEF Respond, PayTypeOK
  <2>6. TxSound' /\ OneInsert' /\ RowsKept
    BY <1>6, <2>2, <2>3 DEF Respond, TxSound, OneInsert, RowsKept
  <2>7. Keyed!Tell(tx[h].key)
    BY <1>6, <2>1 DEF Respond, Keyed!Tell, Ids
  <2> QED BY <2>1, <2>5, <2>6, <2>7 DEF TxStepSound, Keyed!Next, KeyedStep
<1>7. CASE RequestFails(h)
  <2>1. NoTx \in TxOf /\ NoTx.stage = "idle"
    BY DEF NoTx, TxOf
  <2>2. GoodRecord(h, NoTx)
    BY <2>1 DEF GoodRecord
  <2>3. /\ tx' = [tx EXCEPT ![h] = NoTx]
        /\ UNCHANGED <<row, told, walk>> /\ begun' \in 0 .. MaxCreates
    BY <1>1, <1>7 DEF RequestFails
  <2> QED BY <2>2, <2>3, RecordSound
<1> QED
  BY <1>2, <1>3, <1>4, <1>5, <1>6, <1>7 DEF PayStep

-----------------------------------------------------------------------------
(* The pages of the list.                                                  *)

LEMMA RowsFinite ==
  ASSUME PayTypeOK
  PROVE  Rows \subseteq Ids /\ Rows \subseteq Nat /\ IsFiniteSet(Rows)
<1>1. Rows \subseteq Ids
  BY DEF PayTypeOK, Rows
<1>2. IsFiniteSet(Ids) /\ Ids \subseteq Nat
  BY FS_Interval DEF Ids
<1> QED BY <1>1, <1>2, FS_Subset

\* The rank of an event is between 1 and the total.
LEMMA RankBounds ==
  ASSUME PayTypeOK, NEW i \in Rows
  PROVE  Rank(i) \in Nat /\ Rank(i) >= 1 /\ Rank(i) <= Cardinality(Rows)
         /\ Cardinality(Rows) \in Nat
<1>1. IsFiniteSet(Rows) /\ i \in Nat
  BY RowsFinite
<1>2. PICK T : T = {j \in Rows : j >= i}
  OBVIOUS
<1>3. T \in SUBSET Rows /\ i \in T
  BY <1>1, <1>2
<1>4. IsFiniteSet(T) /\ Cardinality(T) <= Cardinality(Rows)
  BY <1>1, <1>3, FS_Subset
<1>5. Cardinality(T) \in Nat /\ Cardinality(Rows) \in Nat
  BY <1>1, <1>4, FS_CardinalityType
<1>6. Cardinality(T) # 0
  BY <1>3, <1>4, FS_EmptySet
<1>7. Rank(i) = Cardinality(T)
  BY <1>2 DEF Rank
<1> QED BY <1>4, <1>5, <1>6, <1>7

\* New rows only push the others down the list.
LEMMA RankGrows ==
  ASSUME PayTypeOK, PayTypeOK', RowsKept
  PROVE  /\ Rows \subseteq Rows'
         /\ \A i \in Rows : Rank(i) \in Nat /\ Rank(i)' \in Nat /\ Rank(i) <= Rank(i)'
<1>1. Rows \subseteq Rows'
  BY DEF Rows, RowsKept
<1>2. IsFiniteSet(Rows')
  <2>1. PICK S : S = Rows'
    OBVIOUS
  <2>2. S \subseteq Ids
    BY <2>1 DEF PayTypeOK, Rows
  <2>3. IsFiniteSet(Ids)
    BY FS_Interval DEF Ids
  <2>4. IsFiniteSet(S)
    BY <2>2, <2>3, FS_Subset
  <2> QED BY <2>1, <2>4
<1>3. ASSUME NEW i \in Rows
      PROVE  Rank(i) \in Nat /\ Rank(i)' \in Nat /\ Rank(i) <= Rank(i)'
  <2>1. PICK T, U : T = {j \in Rows : j >= i} /\ U = {j \in Rows' : j >= i}
    OBVIOUS
  <2>2. T \in SUBSET U /\ U \in SUBSET Rows'
    BY <1>1, <2>1
  <2>3. IsFiniteSet(U)
    BY <1>2, <2>2, FS_Subset
  <2>4. IsFiniteSet(T) /\ Cardinality(T) <= Cardinality(U)
    BY <2>2, <2>3, FS_Subset
  <2>5. Cardinality(T) \in Nat /\ Cardinality(U) \in Nat
    BY <2>3, <2>4, FS_CardinalityType
  <2> QED BY <2>1, <2>4, <2>5 DEF Rank
<1> QED BY <1>1, <1>3

\* No event that was there at the beginning is behind the pages read so far.
PagesSound ==
  walk.stage # "idle" =>
    /\ walk.page \in Nat \ {0} /\ walk.base \subseteq Rows
    /\ walk.stage = "rows" =>
         \A i \in walk.base \ walk.got : Rank(i) > (walk.page - 1) * PageSize
    /\ walk.stage = "count" =>
         \A i \in walk.base \ walk.got : Rank(i) > walk.page * PageSize

PayInv == TxInv /\ PagesSound /\ NothingMissed

LEMMA WalkUpdate ==
  ASSUME NEW w \in WalkOf, NEW st \in {"rows", "count", "complete"},
         NEW p \in Nat, NEW got \in SUBSET Ids
  PROVE  /\ [w EXCEPT !.stage = st, !.page = p] =
              [stage |-> st, page |-> p, got |-> w.got, base |-> w.base]
         /\ [w EXCEPT !.stage = st, !.got = got] =
              [stage |-> st, page |-> w.page, got |-> got, base |-> w.base]
         /\ [w EXCEPT !.stage = st] =
              [stage |-> st, page |-> w.page, got |-> w.got, base |-> w.base]
<1>1. PICK s, q, g, b : w = [stage |-> s, page |-> q, got |-> g, base |-> b]
  BY DEF WalkOf
<1>2. w.page = q /\ w.got = g /\ w.base = b
  BY <1>1
<1>3. PICK v : v = [w EXCEPT !.stage = st]
  OBVIOUS
<1>4. v = [stage |-> st, page |-> q, got |-> g, base |-> b]
  BY <1>1, <1>3
<1>5. [v EXCEPT !.page = p] = [stage |-> st, page |-> p, got |-> g, base |-> b]
  BY <1>4
<1>6. [v EXCEPT !.got = got] = [stage |-> st, page |-> q, got |-> got, base |-> b]
  BY <1>4
<1>7. /\ [w EXCEPT !.stage = st, !.page = p] = [v EXCEPT !.page = p]
      /\ [w EXCEPT !.stage = st, !.got = got] = [v EXCEPT !.got = got]
  BY <1>1, <1>3
<1> QED BY <1>2, <1>3, <1>4, <1>5, <1>6, <1>7

\* A step of the reading client changes no row and no transaction.
LEMMA WalkOnly ==
  ASSUME TxInv, walk' \in WalkOf, UNCHANGED <<row, begun, tx, told>>
  PROVE  TxInv' /\ Rows' = Rows /\ \A i : Rank(i)' = Rank(i)
<1>1. PayTypeOK'
  BY DEF TxInv, PayTypeOK
<1>2. TxSound' /\ OneInsert'
  BY DEF TxInv, TxSound, OneInsert
<1>3. Rows' = Rows
  BY DEF Rows
<1>4. \A i : Rank(i)' = Rank(i)
  BY <1>3 DEF Rank
<1> QED BY <1>1, <1>2, <1>3, <1>4 DEF TxInv

\* A page is read: the events of its ranks are had, the others are further down.
LEMMA ReadPageSound ==
  ASSUME PayInv, ReadPage
  PROVE  PayInv'
<1>1. PayTypeOK /\ walk \in WalkOf /\ PagesSound /\ TxInv
  BY DEF PayInv, TxInv, PayTypeOK
<1>2. walk.got \subseteq Ids /\ walk.base \subseteq Ids /\ Page(walk.page) \subseteq Ids
  BY <1>1, RowsFinite DEF Page, WalkOf
<1>3. walk' = [stage |-> "count", page |-> walk.page,
               got |-> walk.got \cup Page(walk.page), base |-> walk.base]
  <2>1. PICK got \in SUBSET Ids : got = walk.got \cup Page(walk.page)
    BY <1>2
  <2> QED BY <1>1, <2>1, WalkUpdate DEF ReadPage
<1>4. walk' \in WalkOf
  BY <1>1, <1>2, <1>3 DEF WalkOf
<1>5. TxInv' /\ Rows' = Rows /\ \A i : Rank(i)' = Rank(i)
  BY <1>1, <1>4, WalkOnly DEF ReadPage
<1>6. PagesSound'
  <2>1. ASSUME NEW i \in walk.base, i \notin walk.got, i \notin Page(walk.page)
        PROVE  Rank(i) > walk.page * PageSize
    <3>1. i \in Rows /\ Rank(i) > (walk.page - 1) * PageSize /\ walk.page \in Nat \ {0}
      BY <1>1, <2>1 DEF ReadPage, PagesSound
    <3>2. Rank(i) \in Nat
      BY <1>1, <3>1, RankBounds
    <3>3. Rank(i) \notin (walk.page - 1) * PageSize + 1 .. walk.page * PageSize
      BY <2>1, <3>1 DEF Page
    <3>4. (walk.page - 1) * PageSize \in Nat /\ walk.page * PageSize \in Nat
      BY <3>1
    <3> QED BY <3>1, <3>2, <3>3, <3>4
  <2>2. walk.page \in Nat \ {0} /\ walk.base \subseteq Rows
    BY <1>1 DEF ReadPage, PagesSound
  <2> QED BY <1>3, <1>5, <2>1, <2>2 DEF PagesSound
<1>7. NothingMissed'
  BY <1>3 DEF NothingMissed
<1> QED BY <1>5, <1>6, <1>7 DEF PayInv

\* The total is counted: if it is within the pages read, nothing is left.
LEMMA ReadTotalSound ==
  ASSUME PayInv, ReadTotal
  PROVE  PayInv'
<1>1. PayTypeOK /\ walk \in WalkOf /\ PagesSound /\ TxInv
  BY DEF PayInv, TxInv, PayTypeOK
<1>2. /\ walk.page \in Nat \ {0} /\ walk.stage = "count" /\ walk.base \subseteq Rows
      /\ walk.got \subseteq Ids /\ walk.base \subseteq Ids
      /\ \A i \in walk.base \ walk.got : Rank(i) > walk.page * PageSize
  BY <1>1 DEF ReadTotal, PagesSound, WalkOf
<1>3. CASE HasMore
  <2>1. PICK p \in Nat : p = walk.page + 1
    BY <1>2
  <2>2. walk' = [stage |-> "rows", page |-> p, got |-> walk.got, base |-> walk.base]
    BY <1>1, <1>2, <1>3, <2>1, WalkUpdate DEF ReadTotal
  <2>3. walk' \in WalkOf
    BY <1>2, <2>1, <2>2 DEF WalkOf
  <2>4. TxInv' /\ Rows' = Rows /\ \A i : Rank(i)' = Rank(i)
    BY <1>1, <2>3, WalkOnly DEF ReadTotal
  <2>5. p - 1 = walk.page /\ p \in Nat \ {0}
    BY <1>2, <2>1
  <2>6. PagesSound'
    BY <1>2, <2>2, <2>4, <2>5 DEF PagesSound
  <2>7. NothingMissed'
    BY <2>2 DEF NothingMissed
  <2> QED BY <2>4, <2>6, <2>7 DEF PayInv
<1>4. CASE ~HasMore
  <2>1. walk' = [stage |-> "complete", page |-> walk.page,
                 got |-> walk.got, base |-> walk.base]
    BY <1>1, <1>2, <1>4, WalkUpdate DEF ReadTotal
  <2>2. walk' \in WalkOf
    BY <1>2, <2>1 DEF WalkOf
  <2>3. TxInv' /\ Rows' = Rows
    BY <1>1, <2>2, WalkOnly DEF ReadTotal
  <2>4. PagesSound'
    BY <1>2, <2>1, <2>3 DEF PagesSound
  <2>5. walk.base \subseteq walk.got
    <3> SUFFICES ASSUME NEW i \in walk.base, i \notin walk.got PROVE FALSE
      OBVIOUS
    <3>1. Rank(i) > walk.page * PageSize
      BY <1>2
    <3>2. Rank(i) <= Cardinality(Rows) /\ Rank(i) \in Nat /\ Cardinality(Rows) \in Nat
      BY <1>1, <1>2, RankBounds
    <3>3. walk.page * PageSize \in Nat
      BY <1>2
    <3> QED BY <1>4, <3>1, <3>2, <3>3 DEF HasMore
  <2>6. NothingMissed'
    BY <2>1, <2>5 DEF NothingMissed
  <2> QED BY <2>3, <2>4, <2>6 DEF PayInv
<1> QED BY <1>3, <1>4

LEMMA StartWalkSound ==
  ASSUME PayInv, StartWalk
  PROVE  PayInv'
<1>1. PayTypeOK /\ TxInv
  BY DEF PayInv, TxInv
<1>2. walk' = [stage |-> "rows", page |-> 1, got |-> {}, base |-> Rows]
  BY DEF StartWalk, NoWalk
<1>3. walk' \in WalkOf
  BY <1>1, <1>2, RowsFinite DEF WalkOf
<1>4. TxInv' /\ Rows' = Rows /\ \A i : Rank(i)' = Rank(i)
  BY <1>1, <1>3, WalkOnly DEF StartWalk
<1>5. \A i \in Rows : Rank(i) > (1 - 1) * PageSize
  BY <1>1, RankBounds
<1>6. PagesSound'
  BY <1>2, <1>4, <1>5 DEF PagesSound
<1>7. NothingMissed'
  BY <1>2 DEF NothingMissed
<1> QED BY <1>4, <1>6, <1>7 DEF PayInv

\* Transactions that commit meanwhile only push events down the list.
LEMMA PaySound ==
  ASSUME PayInv, PayNext \/ UNCHANGED payVars
  PROVE  PayInv' /\ KeyedStep
<1>1. CASE UNCHANGED payVars
  <2>1. TxInv'
    BY <1>1 DEF payVars, PayInv, TxInv, PayTypeOK, TxSound, OneInsert
  <2>2. PagesSound' /\ NothingMissed'
    BY <1>1 DEF payVars, PayInv, PagesSound, NothingMissed, Rows, Rank
  <2> QED BY <1>1, <2>1, <2>2 DEF payVars, PayInv, KeyedStep
<1>2. CASE StartWalk \/ ReadPage \/ ReadTotal
  <2>1. KeyedStep
    BY <1>2 DEF StartWalk, ReadPage, ReadTotal, KeyedStep
  <2> QED BY <1>2, <2>1, StartWalkSound, ReadPageSound, ReadTotalSound
<1>3. ASSUME NEW h \in Handlers, PayStep(h)
      PROVE  PayInv' /\ KeyedStep
  <2>1. TxInv' /\ RowsKept /\ KeyedStep
    BY <1>3, PayStepSound DEF PayInv, TxStepSound
  <2>2. UNCHANGED walk
    BY <1>3 DEF PayStep, BeginCreate, Insert, ReadExisting, Commit, Respond, RequestFails
  <2>3. PayTypeOK /\ PayTypeOK'
    BY <2>1 DEF PayInv, TxInv
  <2>4. /\ Rows \subseteq Rows'
        /\ \A i \in Rows : Rank(i) \in Nat /\ Rank(i)' \in Nat /\ Rank(i) <= Rank(i)'
    BY <2>1, <2>3, RankGrows
  <2>6. PagesSound'
    <3> SUFFICES ASSUME walk.stage # "idle" PROVE PagesSound'
      BY <2>2 DEF PagesSound
    <3>1. walk.page \in Nat \ {0} /\ walk.base \subseteq Rows
      BY DEF PayInv, PagesSound
    <3>2. (walk.page - 1) * PageSize \in Nat /\ walk.page * PageSize \in Nat
      BY <3>1
    <3>3. CASE walk.stage = "rows"
      BY <2>2, <2>4, <3>1, <3>2, <3>3 DEF PayInv, PagesSound
    <3>4. CASE walk.stage = "count"
      BY <2>2, <2>4, <3>1, <3>2, <3>4 DEF PayInv, PagesSound
    <3> QED BY <2>2, <2>4, <3>1, <3>3, <3>4 DEF PagesSound
  <2>7. NothingMissed'
    BY <2>2 DEF PayInv, NothingMissed
  <2> QED BY <2>1, <2>6, <2>7 DEF PayInv
<1> QED BY <1>1, <1>2, <1>3 DEF PayNext

LEMMA PayInitially == PayInit => PayInv /\ Keyed!Init
<1> SUFFICES ASSUME PayInit PROVE PayInv /\ Keyed!Init
  OBVIOUS
<1>1. PayTypeOK
  BY DEF PayInit, PayTypeOK, TxOf, NoTx, WalkOf, NoWalk, Ids
<1>2. TxSound /\ OneInsert /\ PagesSound /\ NothingMissed
  BY DEF PayInit, TxSound, OneInsert, PagesSound, NothingMissed, NoTx, NoWalk
<1>3. Keyed!Init
  BY DEF PayInit, Keyed!Init
<1> QED BY <1>1, <1>2, <1>3 DEF PayInv, TxInv

LEMMA PayAlways == Spec => []PayInv
<1>1. Init => PayInv
  BY PayInitially DEF Init
<1>2. PayInv /\ [Next]_vars => PayInv'
  BY Halves, PaySound
<1> QED BY <1>1, <1>2, PTL DEF Spec

\* The transactions refine KeyedEvents: for any number of requests and keys a
\* key names one event for ever, and whoever asks is told that one
\* (splitpayment/mod.rs:64-85).
THEOREM ImplementsKeyedEvents == Spec => Idempotent
<1>1. Init => Keyed!Init
  BY PayInitially DEF Init
<1>2. PayInv /\ [Next]_vars => [Keyed!Next]_<<row, told>>
  BY Halves, PaySound DEF KeyedStep
<1> QED BY <1>1, <1>2, PayAlways, PTL DEF Spec, Idempotent, Keyed!Spec

\* A client that reads page after page misses no event that was there when it
\* began, for any page size and however many events are created meanwhile
\* (splitpayment/mod.rs:103-140).
THEOREM NothingIsMissed == Spec => []NothingMissed
<1>1. PayInv => NothingMissed
  BY DEF PayInv
<1> QED BY <1>1, PayAlways, PTL

-----------------------------------------------------------------------------
(* The two halves together.                                                *)

\* Only an accepted request has a transaction.
OnlyAccepted == \A h \in Handlers : tx[h].stage # "idle" => auth[h].stage = "accepted"

LEMMA OnlyAcceptedSound ==
  ASSUME JwksInv, PayInv, OnlyAccepted, [Next]_vars
  PROVE  OnlyAccepted'
<1> USE DEF OnlyAccepted
<1>0. JwksTypeOK /\ PayTypeOK
  BY DEF JwksInv, PayInv, TxInv
<1>1. CASE UNCHANGED <<tx, auth>>
  BY <1>1
<1>2. CASE UNCHANGED tx /\ Tick
  <2>1. \A h \in Handlers : auth'[h].stage = auth[h].stage
    BY <1>0, <1>2 DEF Tick, JwksTypeOK, TokenOf
  <2> QED BY <1>2, <2>1
<1>3. ASSUME NEW h \in Handlers, JwksStep(h), tx'[h].stage = "idle",
             \A g \in Handlers \ {h} : tx'[g] = tx[g]
      PROVE  OnlyAccepted'
  <2>1. \A g \in Handlers \ {h} : auth'[g] = auth[g]
    BY <1>0, <1>3 DEF JwksStep, TokenMissing, TokenArrives, Discover, IssuerAnswers,
                      StoreKeys, FetchFails, TokenDone, JwksTypeOK
  <2> QED BY <1>3, <2>1
<1>4. ASSUME NEW h \in Handlers, PayStep(h), auth[h].stage = "accepted",
             UNCHANGED auth
      PROVE  OnlyAccepted'
  <2>1. \A g \in Handlers \ {h} : tx'[g] = tx[g]
    BY <1>0, <1>4 DEF PayStep, BeginCreate, Insert, ReadExisting, Commit, Respond,
                      RequestFails, PayTypeOK
  <2> QED BY <1>4, <2>1
<1>5. ASSUME NEW h \in Handlers, Arrive(h) \/ Authenticate(h)
      PROVE  OnlyAccepted'
  <2>1. JwksStep(h) /\ UNCHANGED tx
    BY <1>5 DEF Arrive, Authenticate, JwksStep, payVars
  <2>2. auth[h].stage # "accepted"
    BY <1>5 DEF Arrive, Authenticate, TokenMissing, TokenArrives, Discover,
                IssuerAnswers, StoreKeys, FetchFails
  <2> QED BY <1>3, <2>1, <2>2
<1>6. ASSUME NEW h \in Handlers, Create(h) \/ Process(h)
      PROVE  OnlyAccepted'
  <2>1. PayStep(h) /\ UNCHANGED auth
    BY <1>6 DEF Create, Process, PayStep, jwksVars
  <2>2. auth[h].stage = "accepted"
    BY <1>6 DEF Create, Process, Insert, ReadExisting, Commit
  <2> QED BY <1>4, <2>1, <2>2
<1>7. ASSUME NEW h \in Handlers, Finish(h) \/ Dismiss(h)
      PROVE  OnlyAccepted'
  <2>1. JwksStep(h)
    BY <1>7 DEF Finish, Dismiss, JwksStep
  <2>2. tx'[h].stage = "idle" /\ \A g \in Handlers \ {h} : tx'[g] = tx[g]
    BY <1>0, <1>7 DEF Finish, Dismiss, Respond, RequestFails, PayTypeOK, NoTx, payVars
  <2> QED BY <1>3, <2>1, <2>2
<1>8. CASE Walk
  BY <1>1, <1>8 DEF Walk, StartWalk, ReadPage, ReadTotal, jwksVars
<1>9. CASE (Rotate \/ Tick) /\ UNCHANGED payVars
  BY <1>1, <1>2, <1>9 DEF Rotate, payVars
<1>10. CASE UNCHANGED vars
  BY <1>1, <1>10 DEF vars, jwksVars, payVars
<1> QED
  BY <1>5, <1>6, <1>7, <1>8, <1>9, <1>10 DEF Next, RequestStep

\* Type correctness; and no request gets to a transaction that was not
\* accepted (api/mod.rs:54-57).
THEOREM TypeCorrect == Spec => []TypeOK
<1>1. Init => JwksInv /\ PayInv /\ OnlyAccepted
  BY JwksInitial, PayInitially DEF Init, PayInit, NoTx, OnlyAccepted
<1>2. JwksInv /\ PayInv /\ OnlyAccepted /\ [Next]_vars
        => (JwksInv /\ PayInv /\ OnlyAccepted)'
  BY Halves, JwksSound, PaySound, OnlyAcceptedSound
<1>3. JwksInv /\ PayInv /\ OnlyAccepted => TypeOK
  BY DEF JwksInv, PayInv, TxInv, OnlyAccepted, TypeOK
<1> QED BY <1>1, <1>2, <1>3, PTL DEF Spec
=============================================================================
