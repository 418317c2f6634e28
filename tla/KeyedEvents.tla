---------------------------- MODULE KeyedEvents ----------------------------
(***************************************************************************)
(* What an idempotency key promises: a key names one event for ever, and   *)
(* whoever asks is told that one.                                          *)
(***************************************************************************)
CONSTANTS Keys, Ids, NoEvent

VARIABLES
  event,  \* key: its event, or NoEvent
  told    \* key: events its requests were answered with

Init == event = [k \in Keys |-> NoEvent] /\ told = [k \in Keys |-> {}]

Create(k) ==
  /\ event[k] = NoEvent
  /\ \E id \in Ids : event' = [event EXCEPT ![k] = id]
  /\ UNCHANGED told

Tell(k) ==
  /\ event[k] # NoEvent
  /\ told' = [told EXCEPT ![k] = @ \cup {event[k]}]
  /\ UNCHANGED event

Next == \E k \in Keys : Create(k) \/ Tell(k)

Spec == Init /\ [][Next]_<<event, told>>
=============================================================================
