---------------------------- MODULE JobDelivery ----------------------------
(***************************************************************************)
(* What the job queue promises its producers: at-least-once handling.  An  *)
(* entry the group has accepted stays open until its job has completed or  *)
(* its payload is in the dead-letter stream, and a closed entry is never   *)
(* opened again.  Only an entry without payload is closed unhandled.       *)
(***************************************************************************)
CONSTANT Ids   \* entries

VARIABLES
  void,        \* entries published without a payload
  accepted,    \* entries handed to the group
  open,        \* accepted entries not closed yet
  completed,   \* entries whose job has completed
  dead         \* entries whose payload is in the dead-letter stream

vars == <<void, accepted, open, completed, dead>>

Init ==
  void = {} /\ accepted = {} /\ open = {} /\ completed = {} /\ dead = {}

\* An entry without payload is published; it has not been handed over yet.
PublishVoid(i) ==
  /\ i \notin accepted
  /\ void' = void \cup {i}
  /\ UNCHANGED <<accepted, open, completed, dead>>

\* New entries are handed over; some without payload are closed at once.
Accept(S, closed) ==
  /\ S \cap accepted = {} /\ closed \subseteq void
  /\ accepted' = accepted \cup S
  /\ open' = (open \cup S) \ closed
  /\ UNCHANGED <<void, completed, dead>>

\* Handling is repeatable: an entry may complete, or be given up, again.
Complete(i) ==
  /\ i \in accepted \ void
  /\ completed' = completed \cup {i}
  /\ UNCHANGED <<void, accepted, open, dead>>

GiveUp(i) ==
  /\ i \in accepted \ void
  /\ dead' = dead \cup {i}
  /\ UNCHANGED <<void, accepted, open, completed>>

Close(i) ==
  /\ i \in completed \cup dead
  /\ open' = open \ {i}
  /\ UNCHANGED <<void, accepted, completed, dead>>

Next ==
  \/ \E S, closed \in SUBSET Ids : Accept(S, closed)
  \/ \E i \in Ids : PublishVoid(i) \/ Complete(i) \/ GiveUp(i) \/ Close(i)

Spec == Init /\ [][Next]_vars
=============================================================================
