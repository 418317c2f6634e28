--------------------------- MODULE MCRetryClock ---------------------------
(***************************************************************************)
(* Instances of RetryClock for TLC.                                        *)
(***************************************************************************)
EXTENDS RetryClock, TLC

\* Workers are interchangeable; runs with liveness do not use this.
Symmetry == Permutations(Workers)
=============================================================================
