---------------------------- MODULE MCAuditTrail ----------------------------
(***************************************************************************)
(* Small instances of AuditTrail for TLC.                                  *)
(***************************************************************************)
EXTENDS AuditTrail, TLC

\* Workers are interchangeable, and so are the revisions of a law.
Symmetry == Permutations(Workers) \cup Permutations(Revisions)
=============================================================================
