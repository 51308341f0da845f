----------------------------- MODULE EventOutbox -----------------------------
(***************************************************************************)
(* The durable event outbox (services/api/anum_api/outbox_relay.py).  A    *)
(* request records an event in its own transaction; the relay of every API *)
(* process claims committed rows, publishes them to the JetStream stream   *)
(* and marks them, all in one database transaction per pass.  A pass may   *)
(* stop anywhere (its marks roll back), and a publish may time out although *)
(* the stream took the event.                                              *)
(*                                                                         *)
(* Events are numbered in the order of (created_at, id): the time is taken *)
(* when a request creates the event, so rows may COMMIT in another order.  *)
(***************************************************************************)
EXTENDS Naturals, Sequences, FiniteSets

CONSTANTS
  MaxEvents,      \* bound: events recorded
  Unpublishable,  \* events whose type is no valid subject suffix
  Relays,         \* the API processes
  Batch,          \* ANUM_OUTBOX_BATCH_SIZE
  MaxFaults       \* bound: passes lost, publishes failed (EventStream: connections lost, too)

ASSUME OutboxAssumption ==
  /\ MaxEvents \in Nat /\ MaxFaults \in Nat /\ Batch \in Nat \ {0}
  /\ Unpublishable \subseteq 1..MaxEvents

VARIABLES
  stored,  \* the committed rows
  mark,    \* [Event -> publication columns of the row]
  relay,   \* [Relays -> the pass under way]
  bus,     \* the messages of the JetStream stream, in order
  recent,  \* the messages its duplicate window still knows
  faults

outbox == <<stored, mark, relay, bus, recent, faults>>

Event == 1..MaxEvents

\* "due": unpublished and publish_next_attempt_at <= now(); "waits": in backoff;
\* "parked": 'infinity'.
Mark == {"due", "waits", "parked", "published"}

\* held: the rows the pass has locked; left: those it has not come to yet.
Pass == [held : SUBSET Event, left : SUBSET Event, acked : SUBSET Event,
         failed : SUBSET Event, rejected : SUBSET Event]

PassOver(S) == [held |-> S, left |-> S, acked |-> {}, failed |-> {}, rejected |-> {}]

NoPass == PassOver({})

OutboxInit ==
  /\ stored = {}
  /\ mark = [e \in Event |-> "due"]
  /\ relay = [r \in Relays |-> NoPass]
  /\ bus = <<>>
  /\ recent = {}
  /\ faults = 0

OnBus(e) == \E i \in 1..Len(bus) : bus[i] = e

-----------------------------------------------------------------------------
(* Requests *)

\* The transaction that recorded e commits (record_event).  after_commit wakes the
\* relay, which polls anyway.
Commit(e) ==
  /\ e \notin stored
  /\ stored' = stored \cup {e}
  /\ UNCHANGED <<mark, relay, bus, recent, faults>>

\* The backoff of a failed row is over.
BackoffEnds(e) ==
  /\ mark[e] = "waits"
  /\ mark' = [mark EXCEPT ![e] = "due"]
  /\ UNCHANGED <<stored, relay, bus, recent, faults>>

-----------------------------------------------------------------------------
(* One pass: relay_once *)

Locked == UNION {relay[r].held : r \in Relays}

\* Mutants of Claimable: no FOR UPDATE SKIP LOCKED; events of open transactions, too.
ClaimableUnlocked == {e \in stored : mark[e] = "due"}

ClaimableUncommitted == {e \in Event : mark[e] = "due"} \ Locked

Claimable == {e \in stored : mark[e] = "due"} \ Locked

\* order by created_at, id limit :limit
FirstOf(S) == {e \in S : Cardinality({d \in S : d < e}) < Batch}

Claim(r) ==
  /\ relay[r] = NoPass /\ Claimable # {}
  /\ relay' = [relay EXCEPT ![r] = PassOver(FirstOf(Claimable))]
  /\ UNCHANGED <<stored, mark, bus, recent, faults>>

\* The row the loop comes to next.
Turn(r, e) == e \in relay[r].left /\ \A d \in relay[r].left : e <= d

\* event_subject raises ValueError: parked at the end of the pass, the loop goes on.
Reject(r, e) ==
  /\ Turn(r, e) /\ e \in Unpublishable
  /\ relay' = [relay EXCEPT ![r].left = @ \ {e}, ![r].rejected = @ \cup {e}]
  /\ UNCHANGED <<stored, mark, bus, recent, faults>>

\* The stream drops a copy inside its duplicate window.
Accepted(e) ==
  /\ bus' = IF e \in recent THEN bus ELSE Append(bus, e)
  /\ recent' = recent \cup {e}

Publish(r, e) ==
  /\ Turn(r, e) /\ e \notin Unpublishable
  /\ Accepted(e)
  /\ relay' = [relay EXCEPT ![r].left = @ \ {e}, ![r].acked = @ \cup {e}]
  /\ UNCHANGED <<stored, mark, faults>>

\* bus.publish raises: the pass ends here.  After a timeout the stream may have it.
PublishFails(r, e) ==
  /\ Turn(r, e) /\ e \notin Unpublishable
  /\ faults < MaxFaults /\ faults' = faults + 1
  /\ UNCHANGED <<bus, recent>> \/ Accepted(e)
  /\ relay' = [relay EXCEPT ![r].left = {}, ![r].failed = {e}]
  /\ UNCHANGED <<stored, mark>>

\* Mutants of MarkAfter: every claimed row is marked published; a rejected row is
\* retried.
MarkAfterHeld(p, e) == IF e \in p.held THEN "published" ELSE mark[e]

MarkAfterRetry(p, e) ==
  CASE e \in p.acked -> "published"
    [] e \in p.failed \cup p.rejected -> "waits"
    [] OTHER -> mark[e]

MarkAfter(p, e) ==
  CASE e \in p.acked -> "published"
    [] e \in p.failed -> "waits"
    [] e \in p.rejected -> "parked"
    [] OTHER -> mark[e]

\* _finish: the marks of the pass commit together and its locks go.
Finish(r) ==
  /\ relay[r] # NoPass /\ relay[r].left = {}
  /\ mark' = [e \in Event |-> MarkAfter(relay[r], e)]
  /\ relay' = [relay EXCEPT ![r] = NoPass]
  /\ UNCHANGED <<stored, bus, recent, faults>>

\* The process dies, stop() cancels the pass or its commit fails: rolled back.
Abort(r) ==
  /\ relay[r] # NoPass
  /\ faults < MaxFaults /\ faults' = faults + 1
  /\ relay' = [relay EXCEPT ![r] = NoPass]
  /\ UNCHANGED <<stored, mark, bus, recent>>

\* External: ten minutes later the stream would take a copy again.
WindowPasses(e) ==
  /\ e \in recent
  /\ recent' = recent \ {e}
  /\ UNCHANGED <<stored, mark, relay, bus, faults>>

RelayStep(r) ==
  \/ Claim(r) \/ Finish(r) \/ Abort(r)
  \/ \E e \in Event : Reject(r, e) \/ Publish(r, e) \/ PublishFails(r, e)

OutboxNext ==
  \/ \E e \in Event : Commit(e) \/ BackoffEnds(e) \/ WindowPasses(e)
  \/ \E r \in Relays : RelayStep(r)

OutboxSpec == OutboxInit /\ [][OutboxNext]_outbox

\* A live process goes on with its pass and looks for new rows (poll_interval), and
\* the clock goes on.  Nothing makes a fault happen.
OutboxFairness ==
  /\ \A r \in Relays :
       /\ WF_outbox(Claim(r)) /\ WF_outbox(Finish(r))
       /\ \A e \in Event : WF_outbox(Reject(r, e)) /\ WF_outbox(Publish(r, e))
  /\ \A e \in Event : WF_outbox(BackoffEnds(e))

OutboxLiveSpec == OutboxSpec /\ OutboxFairness

-----------------------------------------------------------------------------
(* Correctness *)

OutboxTypeOK ==
  /\ stored \in SUBSET Event
  /\ mark \in [Event -> Mark]
  /\ relay \in [Relays -> Pass]
  /\ bus \in Seq(Event)
  /\ recent \in SUBSET Event
  /\ faults \in 0..MaxFaults

\* Two relays never hold the same row, so they never publish the same event at once
\* (FOR UPDATE SKIP LOCKED, outbox_relay.py:36).
OneClaim ==
  \A r, s \in Relays : r # s => relay[r].held \cap relay[s].held = {}

\* A row is marked published only if the stream has it, and a row in a pass is still
\* unpublished: no rollback, failure or other relay can make an event be skipped.
MarkedIsOnBus ==
  \A e \in Event :
    /\ mark[e] = "published" => OnBus(e)
    /\ e \in Locked => mark[e] = "due"

\* Every copy on the stream beyond the first was paid for by a pass that was lost or a
\* publish whose answer was lost: relays that race never send an event twice.
CopiesAreFaults ==
  \A e \in Event : Cardinality({i \in 1..Len(bus) : bus[i] = e}) <= 1 + faults

\* The outbox delivers at least once: EventDelivery with the stream as what was sent.
Delivery == INSTANCE EventDelivery WITH
  sent <- {e \in Event : OnBus(e)},
  parked <- {e \in Event : mark[e] = "parked"}

DeliversOnlyCommitted == Delivery!Spec

\* Every committed event is published or parked in the end, whatever passes are lost.
EventsLeaveTheOutbox ==
  \A e \in Event : e \in stored ~> mark[e] \in {"published", "parked"}
=============================================================================
