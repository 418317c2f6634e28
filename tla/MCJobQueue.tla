---------------------------- MODULE MCJobQueue ----------------------------
(***************************************************************************)
(* Small instances of JobQueue for TLC.                                    *)
(***************************************************************************)
EXTENDS JobQueue, TLC

\* Workers are interchangeable; the liveness run does not use this.
Symmetry == Permutations(Workers)
=============================================================================
