--------------------------- MODULE MCApiRequests ---------------------------
(***************************************************************************)
(* Instances of ApiRequests for TLC.                                       *)
(***************************************************************************)
EXTENDS ApiRequests, TLC

\* Nothing tells requests, signing keys or idempotency keys apart.
Symmetry ==
  Permutations(Handlers) \cup Permutations(SigningKeys) \cup Permutations(Keys)
=============================================================================
