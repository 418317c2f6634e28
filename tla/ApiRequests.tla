---------------------------- MODULE ApiRequests ----------------------------
(***************************************************************************)
(* Requests to the API (api/mod.rs): each passes auth_middleware and then  *)
(* tenant_middleware before its handler runs; here that is the creation    *)
(* of a split-payment event, or any request that changes nothing.          *)
(***************************************************************************)
EXTENDS JwksCache, SplitPayments

vars == <<jwksVars, payVars>>

Init == JwksInit /\ PayInit

\* A request comes in, with a token or without one.
Arrive(h) ==
  /\ TokenMissing(h) \/ \E k \in SigningKeys : TokenArrives(h, k)
  /\ UNCHANGED payVars

Authenticate(h) ==
  /\ Discover(h) \/ IssuerAnswers(h) \/ StoreKeys(h) \/ FetchFails(h)
  /\ UNCHANGED payVars

\* Mutant: the handler runs whatever the verdict is.
CreateUnchecked(h) ==
  /\ auth[h].stage \in {"accepted", "refused"}
  /\ \E k \in Keys : BeginCreate(h, k)
  /\ UNCHANGED jwksVars

\* An accepted request of a known tenant creates an event.
Create(h) ==
  /\ auth[h].stage = "accepted"
  /\ \E k \in Keys : BeginCreate(h, k)
  /\ UNCHANGED jwksVars

Process(h) ==
  /\ Insert(h) \/ ReadExisting(h) \/ Commit(h)
  /\ UNCHANGED jwksVars

\* The created event is answered, or the creation failed.
Finish(h) == (Respond(h) \/ RequestFails(h)) /\ TokenDone(h)

\* 401, 403, or the answer of a request that changes nothing.
Dismiss(h) ==
  /\ tx[h].stage = "idle"
  /\ TokenDone(h)
  /\ UNCHANGED payVars

RequestStep(h) ==
  Arrive(h) \/ Authenticate(h) \/ Create(h) \/ Process(h) \/ Finish(h) \/ Dismiss(h)

Walk == (StartWalk \/ ReadPage \/ ReadTotal) /\ UNCHANGED jwksVars

Next ==
  \/ \E h \in Handlers : RequestStep(h)
  \/ Walk
  \/ (Rotate \/ Tick) /\ UNCHANGED payVars

Spec == Init /\ [][Next]_vars

-----------------------------------------------------------------------------
\* Type correctness; only accepted requests have a transaction.
TypeOK ==
  /\ JwksTypeOK /\ PayTypeOK
  /\ \A h \in Handlers : tx[h].stage # "idle" => auth[h].stage = "accepted"

\* One event for each key, and every request with the key is told that one.
Idempotent == Keyed!Spec
=============================================================================
