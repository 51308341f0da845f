---------------------------- MODULE EventDelivery ----------------------------
(***************************************************************************)
(* What publication promises of the events that requests record            *)
(* (docs/events.md, "Publication"): only committed events are sent to the  *)
(* bus, each one is sent or parked and never both, and nothing is taken    *)
(* back.  How often an event is sent is not part of it (at least once).    *)
(* EventOutbox implements it.                                              *)
(***************************************************************************)
CONSTANT Event

VARIABLES
  stored,  \* the events of committed requests
  sent,    \* the events the bus has accepted
  parked   \* the events set aside: they can never be published

vars == <<stored, sent, parked>>

Open == stored \ (sent \cup parked)

Init == stored = {} /\ sent = {} /\ parked = {}

Record(e) == stored' = stored \cup {e} /\ UNCHANGED <<sent, parked>>

Send(e) == e \in Open /\ sent' = sent \cup {e} /\ UNCHANGED <<stored, parked>>

Park(S) == S \subseteq Open /\ parked' = parked \cup S /\ UNCHANGED <<stored, sent>>

Next ==
  \/ \E e \in Event : Record(e) \/ Send(e)
  \/ \E S \in SUBSET Event : Park(S)

Spec == Init /\ [][Next]_vars
=============================================================================
