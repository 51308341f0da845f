----------------------------- MODULE EventStream -----------------------------
(***************************************************************************)
(* An event stream of one browser tab (GET /api/v1/events/stream, the      *)
(* generator live_event_source of realtime.py) above the event outbox: the *)
(* API process that serves it feeds its realtime hub from the JetStream    *)
(* stream, the hub offers each event to the listener's bounded queue, and  *)
(* the generator sends what it takes from the queue, or catches up from    *)
(* the stored history when it overflowed or the hub is not live.  The      *)
(* client comes back with the id of the last event it received.            *)
(*                                                                         *)
(* The process runs with ANUM_EVENT_BUS=nats.  The polling generator that  *)
(* main.py uses in memory mode is left out.  A hub that never subscribes   *)
(* is one whose connection to NATS does not come up: its streams only list *)
(* the history.  Every event is one the caller may see.                    *)
(***************************************************************************)
EXTENDS EventOutbox

CONSTANTS
  QueueSize,  \* RealtimeListener max_queue (1000)
  SeenLimit   \* _RecentIds limit (10,000)

ASSUME StreamAssumption == QueueSize \in Nat \ {0} /\ SeenLimit \in Nat \ {0}

VARIABLES
  hub,     \* the API process: its NATS connection, subscription and realtime hub
  stream,  \* the generator and its listener
  client   \* what the tab has received

streaming == <<hub, stream, client>>
vars == <<outbox, hub, stream, client>>

\* start: the stream position of the subscription (DeliverPolicy.NEW), 0 before it;
\* fed: the next message the ordered consumer delivers.
Hub == [connected : BOOLEAN, live : BOOLEAN, start : Nat, fed : Nat]

\* cursor: repository_cursor, 0 for none; listing: what the worker thread has read;
\* sure (history): its newest listing began after the process subscribed.
Stream == [pc : {"closed", "checks", "lists", "shows", "waits"}, queue : Seq(Event),
           lagged : BOOLEAN, cursor : 0..MaxEvents, listing : SUBSET Event,
           seen : Seq(Event), sure : BOOLEAN]

\* lastId: its Last-Event-ID; frames: how often this connection received an event.
Client == [shown : SUBSET Event, lastId : 0..MaxEvents, frames : [Event -> 0..2]]

Listening(last, sure) ==
  [pc |-> "lists", queue |-> <<>>, lagged |-> FALSE, cursor |-> last, listing |-> {},
   seen |-> <<>>, sure |-> sure]

Closed == [Listening(0, FALSE) EXCEPT !.pc = "closed"]

Init ==
  /\ OutboxInit
  /\ hub = [connected |-> FALSE, live |-> FALSE, start |-> 0, fed |-> 0]
  /\ stream = Closed
  /\ client = [shown |-> {}, lastId |-> 0, frames |-> [e \in Event |-> 0]]

-----------------------------------------------------------------------------
(* EventBusRuntime._connect_loop of the serving process *)

\* connect, subscribe to new messages and set_live(True)
Subscribe ==
  /\ hub.start = 0
  /\ hub' = [connected |-> TRUE, live |-> TRUE, start |-> Len(bus) + 1, fed |-> Len(bus) + 1]
  /\ UNCHANGED <<outbox, stream, client>>

ConnectionDrops ==
  /\ hub.connected /\ faults < MaxFaults /\ faults' = faults + 1
  /\ hub' = [hub EXCEPT !.connected = FALSE]
  /\ UNCHANGED <<stored, mark, relay, bus, recent, stream, client>>

Reconnects ==
  /\ hub.start > 0 /\ ~hub.connected
  /\ hub' = [hub EXCEPT !.connected = TRUE]
  /\ UNCHANGED <<outbox, stream, client>>

\* Once a second the hub mirrors the connection's state.
Mirror ==
  /\ hub.start > 0 /\ hub.live # hub.connected
  /\ hub' = [hub EXCEPT !.live = hub.connected]
  /\ UNCHANGED <<outbox, stream, client>>

\* Mutant of Offered: a full queue drops the event silently.
OfferedSilently(s, e) ==
  IF s.pc = "closed" \/ Len(s.queue) = QueueSize THEN s
  ELSE [s EXCEPT !.queue = Append(@, e)]

\* RealtimeListener.offer
Offered(s, e) ==
  CASE s.pc = "closed" -> s
    [] s.pc # "closed" /\ Len(s.queue) = QueueSize -> [s EXCEPT !.lagged = TRUE]
    [] OTHER -> [s EXCEPT !.queue = Append(@, e)]

\* The consumer delivers its next message to RealtimeHub.dispatch.
Dispatch ==
  /\ hub.connected /\ hub.fed <= Len(bus)
  /\ hub' = [hub EXCEPT !.fed = @ + 1]
  /\ stream' = Offered(stream, bus[hub.fed])
  /\ UNCHANGED <<outbox, client>>

-----------------------------------------------------------------------------
(* live_event_source *)

InSeq(e, s) == \E i \in 1..Len(s) : s[i] = e

\* A page of list_events: the events of S by (created_at, id)
InOrder(S) ==
  [i \in 1..Cardinality(S) |-> CHOOSE e \in S : Cardinality({d \in S : d < e}) = i - 1]

\* _RecentIds.add for events that are not among `seen', oldest first
Remember(seen, S) ==
  LET all == seen \o InOrder(S) IN
  IF Len(all) > SeenLimit THEN SubSeq(all, Len(all) - SeenLimit + 1, Len(all)) ELSE all

Latest(S) == CHOOSE e \in S : \A d \in S : d <= e

\* The client receives the frames of the events of S in order.
Received(S) ==
  client' = [shown |-> client.shown \cup S,
             lastId |-> IF S = {} THEN client.lastId ELSE Latest(S),
             frames |-> [e \in Event |-> IF e \in S /\ client.frames[e] < 2
                                         THEN client.frames[e] + 1 ELSE client.frames[e]]]

\* The tab opens or reopens the stream: the listener comes before the first listing.
Open ==
  /\ stream.pc = "closed"
  /\ stream' = Listening(client.lastId, hub.start > 0)
  /\ client' = [client EXCEPT !.frames = [e \in Event |-> 0]]
  /\ UNCHANGED <<outbox, hub>>

\* Behind: forget the lag and drain the queue BEFORE reading the history.
CatchesUp ==
  /\ stream.pc = "checks" /\ (stream.lagged \/ ~hub.live)
  /\ stream' = [stream EXCEPT !.pc = "lists", !.lagged = FALSE, !.queue = <<>>]
  /\ UNCHANGED <<outbox, hub, client>>

UpToDate ==
  /\ stream.pc = "checks" /\ ~stream.lagged /\ hub.live
  /\ stream' = [stream EXCEPT !.pc = "waits"]
  /\ UNCHANGED <<outbox, hub, client>>

\* list_events in a worker thread: the rows after the cursor by (created_at, id)
Lists ==
  /\ stream.pc = "lists"
  /\ stream' = [stream EXCEPT !.pc = "shows", !.sure = hub.start > 0,
                              !.listing = {e \in stored : e > stream.cursor}]
  /\ UNCHANGED <<outbox, hub, client>>

Fresh == {e \in stream.listing : ~InSeq(e, stream.seen)}

\* Mutants of Shows: the queue is drained and the lag forgotten after the listing; what
\* was listed is not remembered.
ShowsThenDrains ==
  /\ stream.pc = "shows"
  /\ stream' = [stream EXCEPT !.pc = "waits", !.listing = {}, !.lagged = FALSE, !.queue = <<>>,
                  !.cursor = IF stream.listing = {} THEN @ ELSE Latest(stream.listing),
                  !.seen = Remember(@, Fresh)]
  /\ Received(Fresh)
  /\ UNCHANGED <<outbox, hub>>

ShowsForgetful ==
  /\ stream.pc = "shows"
  /\ stream' = [stream EXCEPT !.pc = "waits", !.listing = {},
                  !.cursor = IF stream.listing = {} THEN @ ELSE Latest(stream.listing)]
  /\ Received(Fresh)
  /\ UNCHANGED <<outbox, hub>>

\* What is new in the listing is sent; the cursor moves to the last row listed.
Shows ==
  /\ stream.pc = "shows"
  /\ stream' = [stream EXCEPT !.pc = "waits", !.listing = {},
                  !.cursor = IF stream.listing = {} THEN @ ELSE Latest(stream.listing),
                  !.seen = Remember(@, Fresh)]
  /\ Received(Fresh)
  /\ UNCHANGED <<outbox, hub>>

\* The next event of the queue is sent unless it was sent before.
Take ==
  /\ stream.pc = "waits" /\ stream.queue # <<>>
  /\ LET new == {e \in {Head(stream.queue)} : ~InSeq(e, stream.seen)} IN
       /\ stream' = [stream EXCEPT !.pc = "checks", !.queue = Tail(@),
                                   !.seen = Remember(@, new)]
       /\ Received(new)
  /\ UNCHANGED <<outbox, hub>>

\* No event within the timeout
Idles ==
  /\ stream.pc = "waits" /\ stream.queue = <<>>
  /\ stream' = [stream EXCEPT !.pc = "checks"]
  /\ UNCHANGED <<outbox, hub, client>>

\* The tab goes away or the connection breaks: of the frames on their way the client
\* has received a prefix.
Breaks ==
  /\ stream.pc # "closed" /\ faults < MaxFaults /\ faults' = faults + 1
  /\ stream' = Closed
  /\ \/ UNCHANGED client
     \/ /\ stream.pc = "shows"
        /\ \E last \in Fresh : Received({e \in Fresh : e < last})
  /\ UNCHANGED <<stored, mark, relay, bus, recent, hub>>

HubNext == Subscribe \/ ConnectionDrops \/ Reconnects \/ Mirror \/ Dispatch

StreamNext ==
  Open \/ CatchesUp \/ UpToDate \/ Lists \/ Shows \/ Take \/ Idles \/ Breaks

Next == (OutboxNext /\ UNCHANGED streaming) \/ HubNext \/ StreamNext

Spec == Init /\ [][Next]_vars

\* The consumer, the mirror loop and the generator keep running, the connection comes
\* back after a drop and the client reopens its stream.  Nothing makes the process
\* subscribe (NATS may stay out of reach) or a fault happen.
LiveSpec ==
  /\ Spec /\ OutboxFairness
  /\ WF_vars(Reconnects) /\ WF_vars(Mirror) /\ WF_vars(Dispatch)
  /\ WF_vars(Open) /\ WF_vars(CatchesUp) /\ WF_vars(UpToDate)
  /\ WF_vars(Lists) /\ WF_vars(Shows) /\ WF_vars(Take) /\ WF_vars(Idles)

-----------------------------------------------------------------------------
(* Correctness *)

TypeOK ==
  /\ OutboxTypeOK
  /\ hub \in Hub
  /\ stream \in Stream /\ Len(stream.queue) <= QueueSize
  /\ client \in Client

\* An event the stream has not sent yet that is still on its way to it.
Coming(e) ==
  \/ ~OnBus(e)
  \/ \E i \in hub.fed..Len(bus) : bus[i] = e
  \/ InSeq(e, stream.queue)
  \/ e > stream.cursor /\ (stream.lagged \/ stream.pc = "lists")
  \/ e \in stream.listing

\* The queue keeps its bound, and overflow, drain, lost connections, reconnects,
\* duplicates and relays that race never make an open stream miss a committed event, with
\* two exceptions: an event that was committed or published after a LATER one had moved
\* the cursor past it, and a stream that has not listed the history since its process
\* subscribed.  (A parked event never comes on the bus.)
NothingElseMissed ==
  /\ TypeOK
  /\ stream.pc # "closed" /\ stream.sure =>
       \A e \in stored \ (client.shown \cup Unpublishable) :
         e <= stream.cursor \/ Coming(e)

\* A connection never receives an event twice, however often the bus delivers it and the
\* history repeats it, until it has received more events than _RecentIds remembers.
SentOnce ==
  Cardinality({e \in Event : client.frames[e] > 0}) <= SeenLimit =>
    \A e \in Event : client.frames[e] < 2

\* Every committed event reaches the client in the end (same exceptions), through
\* faults of the relay, the bus and the connection.
EventsArrive ==
  \A e \in Event \ Unpublishable :
    e \in stored ~> \/ e \in client.shown
                    \/ e < stream.cursor
                    \/ hub.start > 0 /\ ~stream.sure
=============================================================================
