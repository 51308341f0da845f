------------------------- MODULE EventStreamProofs --------------------------
(***************************************************************************)
(* Theorems about EventOutbox, for every number of events, relays, batch   *)
(* size and fault: passes exclude each other, nothing is marked published  *)
(* that the stream did not take, and the outbox implements EventDelivery.  *)
(* Then theorems about EventStream, which rests on the outbox, for every   *)
(* queue and memory of a listener: what a tab does not receive was         *)
(* committed behind its cursor, and nothing reaches it twice while the     *)
(* generator remembers it.                                                 *)
(***************************************************************************)
EXTENDS EventStream, TLAPS, FiniteSetTheorems, WellFoundedInduction, NaturalsInduction,
        SequenceTheorems

-----------------------------------------------------------------------------
(* The inductive invariant *)

\* The rows of a pass: locked, due and committed; those it sorted out are among them,
\* and what it had acknowledged is on the stream.
PassInv(r) ==
  LET p == relay[r] IN
  /\ p.left \subseteq p.held /\ p.acked \subseteq p.held
  /\ p.failed \subseteq p.held /\ p.rejected \subseteq p.held
  /\ p.rejected \subseteq Unpublishable
  /\ \A e \in p.held : e \in stored /\ mark[e] = "due"
  /\ \A e \in p.acked : OnBus(e)

\* What is parked can never have been sent, and only committed events were.
EventInv(e) ==
  /\ OnBus(e) => e \in stored /\ e \notin Unpublishable
  /\ mark[e] = "parked" => e \in Unpublishable
  /\ mark[e] = "published" => OnBus(e)
  /\ e \in recent => OnBus(e)

OutboxInv ==
  /\ OutboxTypeOK
  /\ OneClaim
  /\ \A r \in Relays : PassInv(r)
  /\ \A e \in Event : EventInv(e)

-----------------------------------------------------------------------------
(* Passes and the stream *)

LEMMA PassOverType == NoPass \in Pass /\ \A S \in SUBSET Event : PassOver(S) \in Pass
BY DEF NoPass, PassOver, Pass

\* A turn takes one row out of left and files it.
LEMMA TurnTypes ==
  ASSUME NEW p \in Pass, NEW e \in Event
  PROVE  /\ [p EXCEPT !.left = @ \ {e}, !.rejected = @ \cup {e}] \in Pass
         /\ [p EXCEPT !.left = @ \ {e}, !.acked = @ \cup {e}] \in Pass
         /\ [p EXCEPT !.left = {}, !.failed = {e}] \in Pass
BY DEF Pass

LEMMA AcceptedTypes ==
  ASSUME OutboxTypeOK, NEW e \in Event, Accepted(e)
  PROVE  bus' \in Seq(Event) /\ recent' \in SUBSET Event
<1>1. Append(bus, e) \in Seq(Event)
  BY DEF OutboxTypeOK
<1> QED
  BY <1>1 DEF OutboxTypeOK, Accepted

\* The stream keeps what it has, and has e when it accepted it.
LEMMA AcceptedOnBus ==
  ASSUME OutboxTypeOK, \A d \in Event : EventInv(d), NEW e \in Event, Accepted(e)
  PROVE  \A d \in Event : OnBus(d)' <=> OnBus(d) \/ d = e
<1>1. CASE e \in recent
  <2>1. OnBus(e) /\ bus' = bus
    BY <1>1 DEF EventInv, Accepted
  <2> QED
    BY <2>1 DEF OnBus
<1>2. CASE e \notin recent
  <2>1. bus' = Append(bus, e) /\ bus \in Seq(Event)
    BY <1>2 DEF Accepted, OutboxTypeOK
  <2>2. /\ Len(bus') = Len(bus) + 1 /\ Len(bus) \in Nat
        /\ bus'[Len(bus) + 1] = e
        /\ \A i \in 1..Len(bus) : bus'[i] = bus[i]
    BY <2>1
  <2>3. \A i \in 1..Len(bus') : i \in 1..Len(bus) \/ i = Len(bus) + 1
    BY <2>2
  <2>4. 1..Len(bus) \subseteq 1..Len(bus') /\ Len(bus) + 1 \in 1..Len(bus')
    BY <2>2
  <2> QED
    BY <2>2, <2>3, <2>4 DEF OnBus
<1> QED
  BY <1>1, <1>2

LEMMA SameBus == ASSUME bus' = bus PROVE \A e \in Event : OnBus(e)' <=> OnBus(e)
BY DEF OnBus

-----------------------------------------------------------------------------
(* Type correctness *)

LEMMA OutboxTypeInit == OutboxInit => OutboxTypeOK
<1> SUFFICES ASSUME OutboxInit PROVE OutboxTypeOK
  OBVIOUS
<1>1. relay \in [Relays -> Pass]
  BY PassOverType DEF OutboxInit
<1>2. faults \in 0..MaxFaults
  BY OutboxAssumption DEF OutboxInit
<1> QED
  BY <1>1, <1>2 DEF OutboxInit, OutboxTypeOK, Mark

LEMMA OutboxTypeStep == OutboxTypeOK /\ [OutboxNext]_outbox => OutboxTypeOK'
<1> SUFFICES ASSUME OutboxTypeOK, [OutboxNext]_outbox PROVE OutboxTypeOK'
  OBVIOUS
<1>1. CASE UNCHANGED outbox
  BY <1>1 DEF OutboxTypeOK, outbox
<1>2. ASSUME NEW e \in Event, Commit(e) PROVE OutboxTypeOK'
  BY <1>2 DEF OutboxTypeOK, Commit
<1>3. ASSUME NEW e \in Event, BackoffEnds(e) PROVE OutboxTypeOK'
  BY <1>3 DEF OutboxTypeOK, BackoffEnds, Mark
<1>4. ASSUME NEW e \in Event, WindowPasses(e) PROVE OutboxTypeOK'
  BY <1>4 DEF OutboxTypeOK, WindowPasses
<1>5. ASSUME NEW r \in Relays, Claim(r) PROVE OutboxTypeOK'
  <2>1. FirstOf(Claimable) \in SUBSET Event
    BY DEF FirstOf, Claimable, OutboxTypeOK
  <2>2. relay' \in [Relays -> Pass]
    BY <1>5, <2>1, PassOverType DEF Claim, OutboxTypeOK
  <2> QED
    BY <1>5, <2>2 DEF OutboxTypeOK, Claim
<1>6. ASSUME NEW r \in Relays, Finish(r) PROVE OutboxTypeOK'
  <2>1. \A e \in Event : MarkAfter(relay[r], e) \in Mark
    BY DEF MarkAfter, Mark, OutboxTypeOK
  <2>2. relay' \in [Relays -> Pass]
    BY <1>6, PassOverType DEF Finish, OutboxTypeOK
  <2> QED
    BY <1>6, <2>1, <2>2 DEF OutboxTypeOK, Finish
<1>7. ASSUME NEW r \in Relays, Abort(r) PROVE OutboxTypeOK'
  <2>1. relay' \in [Relays -> Pass]
    BY <1>7, PassOverType DEF Abort, OutboxTypeOK
  <2>2. faults' \in 0..MaxFaults
    BY <1>7, OutboxAssumption DEF Abort, OutboxTypeOK
  <2> QED
    BY <1>7, <2>1, <2>2 DEF OutboxTypeOK, Abort
<1>8. ASSUME NEW r \in Relays, NEW e \in Event, Reject(r, e) PROVE OutboxTypeOK'
  <2>1. relay' \in [Relays -> Pass]
    BY <1>8, TurnTypes DEF Reject, OutboxTypeOK
  <2> QED
    BY <1>8, <2>1 DEF OutboxTypeOK, Reject
<1>9. ASSUME NEW r \in Relays, NEW e \in Event, Publish(r, e) PROVE OutboxTypeOK'
  <2>1. relay' \in [Relays -> Pass]
    BY <1>9, TurnTypes DEF Publish, OutboxTypeOK
  <2> QED
    BY <1>9, <2>1, AcceptedTypes DEF OutboxTypeOK, Publish
<1>10. ASSUME NEW r \in Relays, NEW e \in Event, PublishFails(r, e) PROVE OutboxTypeOK'
  <2>1. relay' \in [Relays -> Pass]
    BY <1>10, TurnTypes DEF PublishFails, OutboxTypeOK
  <2>2. faults' \in 0..MaxFaults
    BY <1>10, OutboxAssumption DEF PublishFails, OutboxTypeOK
  <2>3. bus' \in Seq(Event) /\ recent' \in SUBSET Event
    BY <1>10, AcceptedTypes DEF PublishFails, OutboxTypeOK
  <2> QED
    BY <1>10, <2>1, <2>2, <2>3 DEF OutboxTypeOK, PublishFails
<1> QED
  BY <1>1, <1>2, <1>3, <1>4, <1>5, <1>6, <1>7, <1>8, <1>9, <1>10
     DEF OutboxNext, RelayStep

\* Every row, mark, pass and message stays of its kind (outbox_relay.py).
THEOREM OutboxTypeCorrect == OutboxSpec => []OutboxTypeOK
BY OutboxTypeInit, OutboxTypeStep, PTL DEF OutboxSpec

-----------------------------------------------------------------------------
(* Safety *)

LEMMA LockedRows == \A e : e \in Locked <=> \E r \in Relays : e \in relay[r].held
BY DEF Locked

LEMMA OutboxInvInit == OutboxInit => OutboxInv
<1> SUFFICES ASSUME OutboxInit PROVE OutboxInv
  OBVIOUS
<1>1. \A r \in Relays : relay[r] = PassOver({})
  BY DEF OutboxInit, NoPass
<1>2. OneClaim
  BY <1>1 DEF OneClaim, PassOver
<1>3. ASSUME NEW r \in Relays PROVE PassInv(r)
  BY <1>1 DEF PassInv, PassOver
<1>4. \A e \in Event : ~OnBus(e)
  BY DEF OutboxInit, OnBus
<1>5. ASSUME NEW e \in Event PROVE EventInv(e)
  BY <1>4 DEF EventInv, OutboxInit
<1> QED
  BY <1>2, <1>3, <1>5, OutboxTypeInit DEF OutboxInv

\* A step of one pass keeps what the others rely on if that pass only holds rows it held
\* before, its own part of the invariant holds again, and no row's mark changes.
LEMMA PassStep ==
  ASSUME OutboxInv, NEW r \in Relays, NEW p \in Pass,
         relay' = [relay EXCEPT ![r] = p], p.held \subseteq relay[r].held,
         UNCHANGED <<stored, mark>>, \A e \in Event : OnBus(e) => OnBus(e)', PassInv(r)'
  PROVE  OneClaim' /\ \A s \in Relays : PassInv(s)'
<1>1. \A s \in Relays : relay'[s] = IF s = r THEN p ELSE relay[s]
  BY DEF OutboxInv, OutboxTypeOK
<1>2. OneClaim'
  BY <1>1 DEF OutboxInv, OneClaim
<1>3. ASSUME NEW s \in Relays, s # r PROVE PassInv(s)'
  <2>1. relay'[s] = relay[s] /\ relay[s].acked \subseteq Event
    BY <1>1, <1>3 DEF OutboxInv, OutboxTypeOK, Pass
  <2> QED
    BY <2>1 DEF OutboxInv, PassInv
<1> QED
  BY <1>2, <1>3

LEMMA CommitSafe == ASSUME OutboxInv, NEW e \in Event, Commit(e) PROVE OutboxInv'
<1>1. OutboxTypeOK'
  BY OutboxTypeStep DEF OutboxInv, OutboxNext
<1>2. \A d \in Event : OnBus(d)' <=> OnBus(d)
  BY SameBus DEF Commit
<1>3. OneClaim'
  BY DEF OutboxInv, OneClaim, Commit
<1>4. ASSUME NEW r \in Relays PROVE PassInv(r)'
  <2>1. relay[r].acked \subseteq Event
    BY DEF OutboxInv, OutboxTypeOK, Pass
  <2> QED
    BY <1>2, <2>1 DEF OutboxInv, PassInv, Commit
<1>5. ASSUME NEW d \in Event PROVE EventInv(d)'
  BY <1>2 DEF OutboxInv, EventInv, Commit
<1> QED
  BY <1>1, <1>3, <1>4, <1>5 DEF OutboxInv

LEMMA BackoffEndsSafe == ASSUME OutboxInv, NEW e \in Event, BackoffEnds(e) PROVE OutboxInv'
<1>1. OutboxTypeOK'
  BY OutboxTypeStep DEF OutboxInv, OutboxNext
<1>2. \A d \in Event : OnBus(d)' <=> OnBus(d)
  BY SameBus DEF BackoffEnds
<1>3. OneClaim'
  BY DEF OutboxInv, OneClaim, BackoffEnds
<1>4. \A d \in Event : mark'[d] = IF d = e THEN "due" ELSE mark[d]
  BY DEF OutboxInv, OutboxTypeOK, BackoffEnds
<1>5. ASSUME NEW r \in Relays PROVE PassInv(r)'
  <2>1. relay[r].held \subseteq Event /\ relay[r].acked \subseteq Event
    BY DEF OutboxInv, OutboxTypeOK, Pass
  <2> QED
    BY <1>2, <1>4, <2>1 DEF OutboxInv, PassInv, BackoffEnds
<1>6. ASSUME NEW d \in Event PROVE EventInv(d)'
  BY <1>2, <1>4 DEF OutboxInv, EventInv, BackoffEnds
<1> QED
  BY <1>1, <1>3, <1>5, <1>6 DEF OutboxInv

LEMMA WindowPassesSafe == ASSUME OutboxInv, NEW e \in Event, WindowPasses(e) PROVE OutboxInv'
<1>1. OutboxTypeOK'
  BY OutboxTypeStep DEF OutboxInv, OutboxNext
<1>2. \A d \in Event : OnBus(d)' <=> OnBus(d)
  BY SameBus DEF WindowPasses
<1>3. OneClaim'
  BY DEF OutboxInv, OneClaim, WindowPasses
<1>4. ASSUME NEW r \in Relays PROVE PassInv(r)'
  <2>1. relay[r].acked \subseteq Event
    BY DEF OutboxInv, OutboxTypeOK, Pass
  <2> QED
    BY <1>2, <2>1 DEF OutboxInv, PassInv, WindowPasses
<1>5. ASSUME NEW d \in Event PROVE EventInv(d)'
  BY <1>2 DEF OutboxInv, EventInv, WindowPasses
<1> QED
  BY <1>1, <1>3, <1>4, <1>5 DEF OutboxInv

\* Only rows that no pass holds can be claimed.
LEMMA ClaimSafe == ASSUME OutboxInv, NEW r \in Relays, Claim(r) PROVE OutboxInv'
<1>1. OutboxTypeOK'
  BY OutboxTypeStep DEF OutboxInv, OutboxNext, RelayStep
<1>2. \A d \in Event : OnBus(d)' <=> OnBus(d)
  BY SameBus DEF Claim
<1> DEFINE S == FirstOf(Claimable)
<1>3. /\ S \subseteq Event /\ S \cap Locked = {}
      /\ \A e \in S : e \in stored /\ mark[e] = "due"
  BY DEF FirstOf, Claimable, OutboxInv, OutboxTypeOK
<1>4. \A s \in Relays : relay'[s] = IF s = r THEN PassOver(S) ELSE relay[s]
  BY DEF Claim, OutboxInv, OutboxTypeOK
<1> HIDE DEF S
<1>5. \A s \in Relays : S \cap relay[s].held = {}
  BY <1>3, LockedRows
<1>6. OneClaim'
  BY <1>4, <1>5 DEF OutboxInv, OneClaim, PassOver
<1>7. ASSUME NEW s \in Relays PROVE PassInv(s)'
  <2>1. CASE s = r
    BY <1>3, <1>4, <2>1 DEF PassInv, PassOver, Claim
  <2>2. CASE s # r
    <3>1. relay'[s] = relay[s] /\ relay[s].acked \subseteq Event
      BY <1>4, <2>2 DEF OutboxInv, OutboxTypeOK, Pass
    <3> QED
      BY <1>2, <3>1 DEF OutboxInv, PassInv, Claim
  <2> QED
    BY <2>1, <2>2
<1>8. ASSUME NEW d \in Event PROVE EventInv(d)'
  BY <1>2 DEF OutboxInv, EventInv, Claim
<1> QED
  BY <1>1, <1>6, <1>7, <1>8 DEF OutboxInv

LEMMA AbortSafe == ASSUME OutboxInv, NEW r \in Relays, Abort(r) PROVE OutboxInv'
<1>1. OutboxTypeOK'
  BY OutboxTypeStep DEF OutboxInv, OutboxNext, RelayStep
<1>2. \A d \in Event : OnBus(d)' <=> OnBus(d)
  BY SameBus DEF Abort
<1>3. relay'[r] = PassOver({})
  BY DEF Abort, NoPass, OutboxInv, OutboxTypeOK
<1>4. PassInv(r)'
  BY <1>3 DEF PassInv, PassOver
<1>5. NoPass.held \subseteq relay[r].held
  BY DEF NoPass, PassOver
<1>6. OneClaim' /\ \A s \in Relays : PassInv(s)'
  BY <1>2, <1>4, <1>5, PassStep, PassOverType DEF Abort
<1>7. ASSUME NEW d \in Event PROVE EventInv(d)'
  BY <1>2 DEF OutboxInv, EventInv, Abort
<1> QED
  BY <1>1, <1>6, <1>7 DEF OutboxInv

LEMMA RejectSafe ==
  ASSUME OutboxInv, NEW r \in Relays, NEW e \in Event, Reject(r, e) PROVE OutboxInv'
<1>1. OutboxTypeOK'
  BY OutboxTypeStep DEF OutboxInv, OutboxNext, RelayStep
<1>2. \A d \in Event : OnBus(d)' <=> OnBus(d)
  BY SameBus DEF Reject
<1> DEFINE p == [relay[r] EXCEPT !.left = @ \ {e}, !.rejected = @ \cup {e}]
<1>3. relay[r] \in Pass /\ relay' = [relay EXCEPT ![r] = p]
  BY DEF Reject, OutboxInv, OutboxTypeOK
<1>4. /\ p \in Pass /\ p.held = relay[r].held /\ p.left = relay[r].left \ {e}
      /\ p.rejected = relay[r].rejected \cup {e}
      /\ p.acked = relay[r].acked /\ p.failed = relay[r].failed
  BY <1>3, TurnTypes DEF Pass
<1>5. relay'[r] = p /\ p.acked \subseteq Event
  BY <1>3, <1>4 DEF OutboxInv, OutboxTypeOK, Pass
<1> HIDE DEF p
<1>6. PassInv(r)'
  BY <1>2, <1>4, <1>5 DEF OutboxInv, PassInv, Reject, Turn
<1>7. OneClaim' /\ \A s \in Relays : PassInv(s)'
  BY <1>2, <1>3, <1>4, <1>6, PassStep DEF Reject
<1>8. ASSUME NEW d \in Event PROVE EventInv(d)'
  BY <1>2 DEF OutboxInv, EventInv, Reject
<1> QED
  BY <1>1, <1>7, <1>8 DEF OutboxInv

\* What the stream accepted was a committed, publishable row of the pass.
LEMMA AcceptedEvents ==
  ASSUME OutboxInv, NEW r \in Relays, NEW e \in Event, Turn(r, e), e \notin Unpublishable,
         Accepted(e), UNCHANGED <<stored, mark>>
  PROVE  \A d \in Event : EventInv(d)' /\ (OnBus(d)' <=> OnBus(d) \/ d = e)
<1>1. \A d \in Event : OnBus(d)' <=> OnBus(d) \/ d = e
  BY AcceptedOnBus DEF OutboxInv
<1>2. e \in stored
  BY DEF OutboxInv, PassInv, Turn
<1> QED
  BY <1>1, <1>2 DEF OutboxInv, EventInv, Accepted

LEMMA PublishSafe ==
  ASSUME OutboxInv, NEW r \in Relays, NEW e \in Event, Publish(r, e) PROVE OutboxInv'
<1>1. OutboxTypeOK'
  BY OutboxTypeStep DEF OutboxInv, OutboxNext, RelayStep
<1>2. \A d \in Event : EventInv(d)' /\ (OnBus(d)' <=> OnBus(d) \/ d = e)
  BY AcceptedEvents DEF Publish
<1> DEFINE p == [relay[r] EXCEPT !.left = @ \ {e}, !.acked = @ \cup {e}]
<1>3. relay[r] \in Pass /\ relay' = [relay EXCEPT ![r] = p]
  BY DEF Publish, OutboxInv, OutboxTypeOK
<1>4. /\ p \in Pass /\ p.held = relay[r].held /\ p.left = relay[r].left \ {e}
      /\ p.rejected = relay[r].rejected
      /\ p.acked = relay[r].acked \cup {e} /\ p.failed = relay[r].failed
  BY <1>3, TurnTypes DEF Pass
<1>5. relay'[r] = p /\ p.acked \subseteq Event
  BY <1>3, <1>4 DEF OutboxInv, OutboxTypeOK, Pass
<1> HIDE DEF p
<1>6. PassInv(r)'
  BY <1>2, <1>4, <1>5 DEF OutboxInv, PassInv, Publish, Turn
<1>7. OneClaim' /\ \A s \in Relays : PassInv(s)'
  BY <1>2, <1>3, <1>4, <1>6, PassStep DEF Publish
<1> QED
  BY <1>1, <1>2, <1>7 DEF OutboxInv

LEMMA PublishFailsSafe ==
  ASSUME OutboxInv, NEW r \in Relays, NEW e \in Event, PublishFails(r, e) PROVE OutboxInv'
<1>1. OutboxTypeOK'
  BY OutboxTypeStep DEF OutboxInv, OutboxNext, RelayStep
<1>2. \A d \in Event : EventInv(d)' /\ (OnBus(d) => OnBus(d)')
  <2>1. CASE Accepted(e)
    BY <2>1, AcceptedEvents DEF PublishFails
  <2>2. CASE UNCHANGED <<bus, recent>>
    BY <2>2, SameBus DEF OutboxInv, EventInv, PublishFails
  <2> QED
    BY <2>1, <2>2 DEF PublishFails
<1> DEFINE p == [relay[r] EXCEPT !.left = {}, !.failed = {e}]
<1>3. relay[r] \in Pass /\ relay' = [relay EXCEPT ![r] = p]
  BY DEF PublishFails, OutboxInv, OutboxTypeOK
<1>4. /\ p \in Pass /\ p.held = relay[r].held /\ p.left = {}
      /\ p.rejected = relay[r].rejected
      /\ p.acked = relay[r].acked /\ p.failed = {e}
  BY <1>3, TurnTypes DEF Pass
<1>5. relay'[r] = p /\ p.acked \subseteq Event
  BY <1>3, <1>4 DEF OutboxInv, OutboxTypeOK, Pass
<1> HIDE DEF p
<1>6. PassInv(r)'
  BY <1>2, <1>4, <1>5 DEF OutboxInv, PassInv, PublishFails, Turn
<1>7. OneClaim' /\ \A s \in Relays : PassInv(s)'
  BY <1>2, <1>3, <1>4, <1>6, PassStep DEF PublishFails
<1> QED
  BY <1>1, <1>2, <1>7 DEF OutboxInv

\* The rows a pass does not hold keep their marks.
LEMMA MarksFinished ==
  ASSUME OutboxInv, NEW r \in Relays, Finish(r), NEW e \in Event
  PROVE  /\ e \notin relay[r].held => mark'[e] = mark[e]
         /\ mark'[e] = "published" /\ mark[e] # "published" => e \in relay[r].acked
         /\ mark'[e] = "parked" /\ mark[e] # "parked" => e \in relay[r].rejected
         /\ mark[e] = "parked" => mark'[e] = "parked"
<1>1. mark'[e] = MarkAfter(relay[r], e)
  BY DEF Finish
<1>2. PassInv(r)
  BY DEF OutboxInv
<1> QED
  BY <1>1, <1>2 DEF MarkAfter, PassInv

LEMMA FinishSafe == ASSUME OutboxInv, NEW r \in Relays, Finish(r) PROVE OutboxInv'
<1>1. OutboxTypeOK'
  BY OutboxTypeStep DEF OutboxInv, OutboxNext, RelayStep
<1>2. \A d \in Event : OnBus(d)' <=> OnBus(d)
  BY SameBus DEF Finish
<1>3. \A s \in Relays : relay'[s] = IF s = r THEN PassOver({}) ELSE relay[s]
  BY DEF Finish, NoPass, OutboxInv, OutboxTypeOK
<1>4. OneClaim'
  BY <1>3 DEF OutboxInv, OneClaim, PassOver
<1>5. ASSUME NEW s \in Relays PROVE PassInv(s)'
  <2>1. CASE s = r
    BY <1>3, <2>1 DEF PassInv, PassOver
  <2>2. CASE s # r
    <3>1. /\ relay'[s] = relay[s]
          /\ relay[s].acked \subseteq Event /\ relay[s].held \subseteq Event
      BY <1>3, <2>2 DEF OutboxInv, OutboxTypeOK, Pass
    <3>2. \A e \in relay[s].held : mark'[e] = mark[e]
      BY <2>2, <3>1, MarksFinished DEF OutboxInv, OneClaim
    <3> QED
      BY <1>2, <3>1, <3>2 DEF OutboxInv, PassInv, Finish
  <2> QED
    BY <2>1, <2>2
<1>6. ASSUME NEW d \in Event PROVE EventInv(d)'
  <2>1. EventInv(d) /\ PassInv(r)
    BY DEF OutboxInv
  <2> QED
    BY <1>2, <2>1, MarksFinished DEF EventInv, PassInv, Finish
<1> QED
  BY <1>1, <1>4, <1>5, <1>6 DEF OutboxInv

LEMMA OutboxInvStep == OutboxInv /\ [OutboxNext]_outbox => OutboxInv'
<1> SUFFICES ASSUME OutboxInv, [OutboxNext]_outbox PROVE OutboxInv'
  OBVIOUS
<1>1. CASE UNCHANGED outbox
  BY <1>1 DEF outbox, OutboxInv, OutboxTypeOK, OneClaim, PassInv, EventInv, OnBus
<1>2. CASE OutboxNext
  BY <1>2, CommitSafe, BackoffEndsSafe, WindowPassesSafe, ClaimSafe, AbortSafe, FinishSafe,
     RejectSafe, PublishSafe, PublishFailsSafe DEF OutboxNext, RelayStep
<1> QED
  BY <1>1, <1>2

\* The inductive invariant, from which the theorems below follow (relay_once, _finish).
THEOREM OutboxInvHolds == OutboxSpec => []OutboxInv
BY OutboxInvInit, OutboxInvStep, PTL DEF OutboxSpec

\* Two relays never hold the same row (_CLAIM's FOR UPDATE SKIP LOCKED).
THEOREM RowsAreClaimedOnce == OutboxSpec => []OneClaim
<1>1. OutboxInv => OneClaim
  BY DEF OutboxInv
<1> QED
  BY <1>1, OutboxInvHolds, PTL

\* A row is marked published only when the stream has its event, and a row in a pass is
\* still due: no rollback, failure or second relay makes an event be skipped (_finish).
THEOREM MarksAreTrue == OutboxSpec => []MarkedIsOnBus
<1>1. OutboxInv => MarkedIsOnBus
  BY LockedRows DEF OutboxInv, EventInv, PassInv, MarkedIsOnBus
<1> QED
  BY <1>1, OutboxInvHolds, PTL

-----------------------------------------------------------------------------
(* The outbox implements EventDelivery *)

OnStream == {e \in Event : OnBus(e)}

Parked == {e \in Event : mark[e] = "parked"}

LEMMA StreamSame ==
  ASSUME \A d \in Event : OnBus(d)' <=> OnBus(d) PROVE OnStream' = OnStream
BY DEF OnStream, Event

\* What a pass sent is an open event sent, or a copy, which the abstraction does not see.
LEMMA AcceptIsSend ==
  ASSUME OutboxInv, NEW r \in Relays, NEW e \in Event, Turn(r, e), e \notin Unpublishable,
         Accepted(e), UNCHANGED <<stored, mark>>
  PROVE  [Delivery!Next]_(Delivery!vars)
<1>1. \A d \in Event : OnBus(d)' <=> OnBus(d) \/ d = e
  BY AcceptedEvents
<1>2. OnStream' = OnStream \cup {e} /\ Parked' = Parked
  BY <1>1 DEF OnStream, Parked, Event
<1>3. e \in stored /\ e \notin Parked
  BY DEF OutboxInv, PassInv, EventInv, Turn, Parked
<1>4. CASE e \in OnStream
  <2>1. OnStream' = OnStream
    BY <1>2, <1>4
  <2> QED
    BY <1>2, <2>1 DEF Delivery!vars, OnStream, Parked
<1>5. CASE e \notin OnStream
  <2>1. Delivery!Send(e)
    BY <1>2, <1>3, <1>5 DEF Delivery!Send, Delivery!Open, OnStream, Parked
  <2> QED
    BY <2>1 DEF Delivery!Next
<1> QED
  BY <1>4, <1>5

LEMMA FinishIsPark ==
  ASSUME OutboxInv, NEW r \in Relays, Finish(r) PROVE [Delivery!Next]_(Delivery!vars)
<1> PICK S \in SUBSET Event : S = Parked' \ Parked
  BY DEF Parked, Event
<1>1. OnStream' = OnStream
  BY SameBus, StreamSame DEF Finish
<1>2. Parked' = Parked \cup S
  BY MarksFinished DEF Parked, Event
<1>3. \A e \in S : e \in relay[r].rejected
  BY MarksFinished DEF Parked, Event
<1>4. \A e \in S : e \in stored /\ e \notin OnStream /\ e \notin Parked
  BY <1>3 DEF OutboxInv, PassInv, EventInv, OnStream
<1>5. Delivery!Park(S)
  BY <1>1, <1>2, <1>4 DEF Delivery!Park, Delivery!Open, OnStream, Parked, Finish
<1> QED
  BY <1>5 DEF Delivery!Next

\* Requests record, the relay sends and parks; locks, backoffs, lost passes, copies and
\* the duplicate window are stuttering steps (docs/events.md, "Publication").
THEOREM OutboxDelivers == OutboxSpec => DeliversOnlyCommitted
<1>1. OutboxInit => Delivery!Init
  <2> SUFFICES ASSUME OutboxInit PROVE Delivery!Init
    OBVIOUS
  <2>1. \A e \in Event : ~OnBus(e) /\ mark[e] # "parked"
    BY DEF OutboxInit, OnBus
  <2> QED
    BY <2>1 DEF Delivery!Init, OutboxInit
<1>2. OutboxInv /\ [OutboxNext]_outbox => [Delivery!Next]_(Delivery!vars)
  <2> SUFFICES ASSUME OutboxInv, [OutboxNext]_outbox PROVE [Delivery!Next]_(Delivery!vars)
    OBVIOUS
  <2>1. ASSUME OnStream' = OnStream, Parked' = Parked, stored' = stored
        PROVE  UNCHANGED Delivery!vars
    BY <2>1 DEF Delivery!vars, OnStream, Parked
  <2>2. CASE UNCHANGED outbox
    BY <2>1, <2>2, SameBus, StreamSame DEF outbox, Parked, Event
  <2>3. ASSUME NEW e \in Event, Commit(e) PROVE Delivery!Next
    <3>1. OnStream' = OnStream /\ Parked' = Parked
      BY <2>3, SameBus, StreamSame DEF Commit, Parked, Event
    <3>2. Delivery!Record(e)
      BY <2>3, <3>1 DEF Commit, Delivery!Record, OnStream, Parked
    <3> QED
      BY <3>2 DEF Delivery!Next
  <2>4. ASSUME NEW e \in Event, BackoffEnds(e) PROVE UNCHANGED Delivery!vars
    <3>1. \A d \in Event : mark'[d] = "parked" <=> mark[d] = "parked"
      BY <2>4 DEF BackoffEnds, OutboxInv, OutboxTypeOK
    <3>2. Parked' = Parked
      BY <3>1 DEF Parked, Event
    <3> QED
      BY <2>1, <2>4, <3>2, SameBus, StreamSame DEF BackoffEnds
  <2>5. ASSUME NEW e \in Event, WindowPasses(e) PROVE UNCHANGED Delivery!vars
    BY <2>1, <2>5, SameBus, StreamSame DEF WindowPasses, Parked, Event
  <2>6. ASSUME NEW r \in Relays, Claim(r) \/ Abort(r) PROVE UNCHANGED Delivery!vars
    BY <2>1, <2>6, SameBus, StreamSame DEF Claim, Abort, Parked, Event
  <2>7. ASSUME NEW r \in Relays, NEW e \in Event, Reject(r, e)
        PROVE  UNCHANGED Delivery!vars
    BY <2>1, <2>7, SameBus, StreamSame DEF Reject, Parked, Event
  <2>8. ASSUME NEW r \in Relays, NEW e \in Event, Publish(r, e)
        PROVE  [Delivery!Next]_(Delivery!vars)
    BY <2>8, AcceptIsSend DEF Publish
  <2>9. ASSUME NEW r \in Relays, NEW e \in Event, PublishFails(r, e)
        PROVE  [Delivery!Next]_(Delivery!vars)
    <3>1. CASE Accepted(e)
      BY <2>9, <3>1, AcceptIsSend DEF PublishFails
    <3>2. CASE UNCHANGED <<bus, recent>>
      BY <2>1, <2>9, <3>2, SameBus, StreamSame DEF PublishFails, Parked, Event
    <3> QED
      BY <2>9, <3>1, <3>2 DEF PublishFails
  <2>10. CASE OutboxNext
    BY <2>3, <2>4, <2>5, <2>6, <2>7, <2>8, <2>9, <2>10, FinishIsPark
       DEF OutboxNext, RelayStep
  <2> QED
    BY <2>2, <2>10
<1> QED
  BY <1>1, <1>2, OutboxInvHolds, PTL DEF OutboxSpec, DeliversOnlyCommitted, Delivery!Spec

-----------------------------------------------------------------------------
(* Copies *)

Copies(e) == Cardinality({i \in 1..Len(bus) : bus[i] = e})

\* The event is marked, or will be when the pass that had it acknowledged commits.
Settled(e) == mark[e] = "published" \/ \E r \in Relays : e \in relay[r].acked

\* A pass has filed each row it came to once.
Sorted(p) ==
  /\ p.left \cap (p.acked \cup p.failed \cup p.rejected) = {}
  /\ p.acked \cap (p.failed \cup p.rejected) = {}

\* One copy is free, and only of a settled event; a fault pays for every other one.
CopiesInv ==
  /\ \A r \in Relays : Sorted(relay[r])
  /\ \A e \in Event : Copies(e) <= faults + 1 /\ (~Settled(e) => Copies(e) <= faults)

LEMMA CopiesAreNat == ASSUME OutboxTypeOK, NEW e \in Event PROVE Copies(e) \in Nat
<1>1. Len(bus) \in Nat
  BY DEF OutboxTypeOK
<1>2. IsFiniteSet(1..Len(bus))
  BY <1>1, FS_Interval
<1>3. IsFiniteSet({i \in 1..Len(bus) : bus[i] = e})
  BY <1>2, FS_Subset
<1> QED
  BY <1>3, FS_CardinalityType DEF Copies

\* The stream gains at most one copy, of the event it accepted.
LEMMA AcceptedCopies ==
  ASSUME OutboxTypeOK, NEW e \in Event, Accepted(e)
  PROVE  /\ Copies(e)' \in Nat /\ Copies(e)' <= Copies(e) + 1
         /\ \A d \in Event : d # e => Copies(d)' = Copies(d)
<1>1. \A d \in Event : Copies(d) \in Nat
  BY CopiesAreNat
<1>2. CASE e \in recent
  <2>1. bus' = bus
    BY <1>2 DEF Accepted
  <2> QED
    BY <1>1, <2>1 DEF Copies
<1>3. CASE e \notin recent
  <2>1. bus' = Append(bus, e) /\ bus \in Seq(Event)
    BY <1>3 DEF Accepted, OutboxTypeOK
  <2>2. /\ Len(bus') = Len(bus) + 1 /\ Len(bus) \in Nat
        /\ bus'[Len(bus) + 1] = e
        /\ \A i \in 1..Len(bus) : bus'[i] = bus[i]
    BY <2>1
  <2>3. 1..Len(bus') = (1..Len(bus)) \cup {Len(bus) + 1} /\ Len(bus) + 1 \notin 1..Len(bus)
    BY <2>2
  <2>4. \A d \in Event : d # e =>
          {i \in 1..Len(bus') : bus'[i] = d} = {i \in 1..Len(bus) : bus[i] = d}
    BY <2>2, <2>3
  <2> DEFINE S == {i \in 1..Len(bus) : bus[i] = e}
  <2>5. {i \in 1..Len(bus') : bus'[i] = e} = S \cup {Len(bus) + 1}
    BY <2>2, <2>3
  <2>6. IsFiniteSet(S)
    <3>1. IsFiniteSet(1..Len(bus))
      BY <2>2, FS_Interval
    <3> QED
      BY <3>1, FS_Subset
  <2>7. Len(bus) + 1 \notin S
    BY <2>3
  <2> HIDE DEF S
  <2>8. Cardinality(S \cup {Len(bus) + 1}) = Cardinality(S) + 1
    BY <2>6, <2>7, FS_AddElement
  <2>9. Copies(e)' = Copies(e) + 1
    BY <2>5, <2>8 DEF Copies, S
  <2>10. \A d \in Event : d # e => Copies(d)' = Copies(d)
    BY <2>4 DEF Copies
  <2> QED
    BY <1>1, <2>9, <2>10
<1> QED
  BY <1>2, <1>3

\* An event whose turn it is has not been settled, by this pass or another.
LEMMA TurnIsUnsettled ==
  ASSUME OutboxInv, CopiesInv, NEW r \in Relays, NEW e \in Event, Turn(r, e)
  PROVE  ~Settled(e)
<1>1. e \in relay[r].held /\ e \notin relay[r].acked
  BY DEF OutboxInv, PassInv, CopiesInv, Sorted, Turn
<1>2. mark[e] = "due"
  BY <1>1 DEF OutboxInv, PassInv
<1>3. ASSUME NEW s \in Relays, s # r PROVE e \notin relay[s].acked
  BY <1>1, <1>3 DEF OutboxInv, OneClaim, PassInv
<1> QED
  BY <1>1, <1>2, <1>3 DEF Settled

\* Nothing but a fault unsettles an event.
LEMMA CopiesStep ==
  ASSUME OutboxInv, CopiesInv, bus' = bus, faults' = faults,
         \A s \in Relays : Sorted(relay'[s]),
         \A e \in Event : Settled(e) => Settled(e)'
  PROVE  CopiesInv'
BY DEF CopiesInv, Copies, Event, Sorted

LEMMA CopiesInvStep == OutboxInv /\ CopiesInv /\ [OutboxNext]_outbox => CopiesInv'
<1> SUFFICES ASSUME OutboxInv, CopiesInv, [OutboxNext]_outbox PROVE CopiesInv'
  OBVIOUS
<1>1. /\ \A e \in Event : Copies(e) \in Nat
      /\ faults \in Nat /\ relay \in [Relays -> Pass] /\ mark \in [Event -> Mark]
  BY CopiesAreNat, OutboxAssumption DEF OutboxInv, OutboxTypeOK
<1>2. CASE UNCHANGED outbox
  BY <1>2, CopiesStep DEF outbox, CopiesInv, Settled
<1>3. ASSUME NEW e \in Event, Commit(e) \/ WindowPasses(e) PROVE CopiesInv'
  BY <1>3, CopiesStep DEF Commit, WindowPasses, CopiesInv, Settled
<1>4. ASSUME NEW e \in Event, BackoffEnds(e) PROVE CopiesInv'
  <2>1. \A d \in Event : mark[d] = "published" => mark'[d] = "published"
    BY <1>1, <1>4 DEF BackoffEnds
  <2> QED
    BY <1>4, <2>1, CopiesStep DEF BackoffEnds, CopiesInv, Settled
<1>5. ASSUME NEW r \in Relays, Claim(r) PROVE CopiesInv'
  <2>1. \A s \in Relays : relay'[s] = IF s = r THEN PassOver(FirstOf(Claimable)) ELSE relay[s]
    BY <1>1, <1>5 DEF Claim
  <2>2. relay[r].acked = {}
    BY <1>5 DEF Claim, NoPass, PassOver
  <2> QED
    BY <1>5, <2>1, <2>2, CopiesStep DEF Claim, CopiesInv, Sorted, Settled, PassOver
<1>6. ASSUME NEW r \in Relays, Finish(r) PROVE CopiesInv'
  <2>1. \A s \in Relays : relay'[s] = IF s = r THEN PassOver({}) ELSE relay[s]
    BY <1>1, <1>6 DEF Finish, NoPass
  <2>2. ASSUME NEW e \in Event, Settled(e) PROVE Settled(e)'
    <3>1. CASE mark[e] = "published"
      <4>1. e \notin relay[r].held
        BY <3>1 DEF OutboxInv, PassInv
      <4> QED
        BY <1>6, <3>1, <4>1, MarksFinished DEF Settled
    <3>2. CASE e \in relay[r].acked
      <4>1. MarkAfter(relay[r], e) = "published"
        BY <3>2 DEF MarkAfter, CopiesInv, Sorted
      <4> QED
        BY <1>6, <4>1 DEF Finish, Settled
    <3>3. CASE \E s \in Relays \ {r} : e \in relay[s].acked
      BY <2>1, <3>3 DEF Settled
    <3> QED
      BY <2>2, <3>1, <3>2, <3>3 DEF Settled
  <2> QED
    BY <1>6, <2>1, <2>2, CopiesStep DEF Finish, CopiesInv, Sorted, PassOver
<1>7. ASSUME NEW r \in Relays, Abort(r) PROVE CopiesInv'
  <2>1. \A s \in Relays : relay'[s] = IF s = r THEN PassOver({}) ELSE relay[s]
    BY <1>1, <1>7 DEF Abort, NoPass
  <2>2. bus' = bus /\ faults' = faults + 1
    BY <1>7 DEF Abort
  <2>3. ASSUME NEW e \in Event
        PROVE  Copies(e)' <= faults' + 1 /\ (~Settled(e)' => Copies(e)' <= faults')
    <3>1. Copies(e)' = Copies(e)
      BY <2>2 DEF Copies
    <3>2. Copies(e) \in Nat /\ Copies(e) <= faults + 1
      BY <1>1 DEF CopiesInv
    <3> QED
      BY <1>1, <2>2, <3>1, <3>2
  <2> QED
    BY <2>1, <2>3 DEF CopiesInv, Sorted, PassOver, Event
<1>8. ASSUME NEW r \in Relays, NEW e \in Event, Reject(r, e) PROVE CopiesInv'
  <2>1. /\ relay'[r].left = relay[r].left \ {e} /\ relay'[r].acked = relay[r].acked
        /\ relay'[r].failed = relay[r].failed
        /\ relay'[r].rejected = relay[r].rejected \cup {e}
        /\ \A s \in Relays \ {r} : relay'[s] = relay[s]
    BY <1>1, <1>8 DEF Reject, Pass
  <2>2. \A s \in Relays : Sorted(relay'[s])
    <3>1. e \in relay[r].left /\ \A s \in Relays : Sorted(relay[s])
      BY <1>8 DEF Reject, Turn, CopiesInv
    <3>2. Sorted(relay'[r])
      BY <2>1, <3>1 DEF Sorted
    <3> QED
      BY <2>1, <3>1, <3>2
  <2>3. \A d \in Event : Settled(d) => Settled(d)'
    BY <1>8, <2>1 DEF Reject, Settled
  <2> QED
    BY <1>8, <2>2, <2>3, CopiesStep DEF Reject
<1>9. ASSUME NEW r \in Relays, NEW e \in Event, Publish(r, e) PROVE CopiesInv'
  <2>1. /\ relay'[r].left = relay[r].left \ {e} /\ relay'[r].acked = relay[r].acked \cup {e}
        /\ relay'[r].failed = relay[r].failed /\ relay'[r].rejected = relay[r].rejected
        /\ \A s \in Relays \ {r} : relay'[s] = relay[s]
    BY <1>1, <1>9 DEF Publish, Pass
  <2>2. Copies(e) <= faults
    BY <1>9, TurnIsUnsettled DEF Publish, CopiesInv
  <2>3. /\ Copies(e)' <= Copies(e) + 1 /\ Copies(e)' \in Nat /\ faults' = faults
        /\ \A d \in Event : d # e => Copies(d)' = Copies(d)
    BY <1>9, AcceptedCopies DEF Publish, OutboxInv
  <2>4. Copies(e)' <= faults' + 1
    BY <1>1, <2>2, <2>3
  <2>5. Settled(e)' /\ \A d \in Event : Settled(d) => Settled(d)'
    BY <1>9, <2>1 DEF Settled, Publish
  <2>6. ASSUME NEW d \in Event
        PROVE  Copies(d)' <= faults' + 1 /\ (~Settled(d)' => Copies(d)' <= faults')
    BY <2>3, <2>4, <2>5 DEF CopiesInv
  <2>7. e \in relay[r].left
    BY <1>9 DEF Publish, Turn
  <2> QED
    BY <2>1, <2>6, <2>7 DEF CopiesInv, Sorted, Event
<1>10. ASSUME NEW r \in Relays, NEW e \in Event, PublishFails(r, e) PROVE CopiesInv'
  <2>1. /\ relay'[r].left = {} /\ relay'[r].acked = relay[r].acked
        /\ relay'[r].failed = {e} /\ relay'[r].rejected = relay[r].rejected
        /\ \A s \in Relays \ {r} : relay'[s] = relay[s]
    BY <1>1, <1>10 DEF PublishFails, Pass
  <2>2. Copies(e) <= faults /\ faults' = faults + 1
    BY <1>10, TurnIsUnsettled DEF PublishFails, CopiesInv
  <2>3. /\ Copies(e)' <= Copies(e) + 1 /\ Copies(e)' \in Nat
        /\ \A d \in Event : d # e => Copies(d)' = Copies(d)
    <3>1. CASE Accepted(e)
      BY <3>1, AcceptedCopies DEF OutboxInv
    <3>2. CASE bus' = bus
      BY <1>1, <3>2 DEF Copies
    <3> QED
      BY <1>10, <3>1, <3>2 DEF PublishFails
  <2>4. Copies(e)' <= faults' /\ faults' \in Nat
    BY <1>1, <2>2, <2>3
  <2>5. \A d \in Event : Settled(d) => Settled(d)'
    BY <1>10, <2>1 DEF Settled, PublishFails
  <2>6. ASSUME NEW d \in Event
        PROVE  Copies(d)' <= faults' + 1 /\ (~Settled(d)' => Copies(d)' <= faults')
    <3>1. CASE d = e
      BY <2>3, <2>4, <3>1
    <3>2. CASE d # e
      BY <1>1, <2>2, <2>3, <2>5, <3>2 DEF CopiesInv
    <3> QED
      BY <3>1, <3>2
  <2>7. e \in relay[r].left
    BY <1>10 DEF PublishFails, Turn
  <2> QED
    BY <2>1, <2>6, <2>7 DEF CopiesInv, Sorted, Event
<1> QED
  BY <1>2, <1>3, <1>4, <1>5, <1>6, <1>7, <1>8, <1>9, <1>10 DEF OutboxNext, RelayStep

LEMMA CopiesInvInit == OutboxInit => CopiesInv
<1> SUFFICES ASSUME OutboxInit PROVE CopiesInv
  OBVIOUS
<1>1. \A e \in Event : {i \in 1..Len(bus) : bus[i] = e} = {}
  BY DEF OutboxInit
<1>2. \A e \in Event : Copies(e) = 0
  BY <1>1, FS_EmptySet DEF Copies
<1>3. \A r \in Relays : Sorted(relay[r])
  BY DEF OutboxInit, Sorted, NoPass, PassOver
<1> QED
  BY <1>2, <1>3 DEF OutboxInit, CopiesInv

\* However many relays race, every copy beyond the first was paid for by a lost pass or a
\* lost answer (relay_once publishes only rows it has locked, and marks them at the end).
THEOREM CopiesArePaidFor == OutboxSpec => []CopiesAreFaults
<1>1. OutboxInv /\ CopiesInv => CopiesAreFaults
  <2> SUFFICES ASSUME OutboxInv, CopiesInv, NEW e \in Event PROVE Copies(e) <= 1 + faults
    BY DEF CopiesAreFaults, Copies
  <2>1. Copies(e) \in Nat /\ faults \in Nat
    BY CopiesAreNat, OutboxAssumption DEF OutboxInv, OutboxTypeOK
  <2> QED
    BY <2>1 DEF CopiesInv
<1> QED
  BY <1>1, CopiesInvInit, CopiesInvStep, OutboxInvHolds, PTL DEF OutboxSpec

-----------------------------------------------------------------------------
(* A page of events in order *)

LEMMA EventNumbers ==
  /\ MaxEvents \in Nat /\ MaxFaults \in Nat
  /\ QueueSize \in Nat /\ 1 <= QueueSize /\ SeenLimit \in Nat /\ 1 <= SeenLimit
  /\ \A e \in Event : e \in Nat /\ 1 <= e /\ e <= MaxEvents
  /\ \A S \in SUBSET Event : IsFiniteSet(S) /\ Cardinality(S) \in Nat
<1>1. IsFiniteSet(Event)
  BY OutboxAssumption, FS_Interval DEF Event
<1>2. \A S \in SUBSET Event : IsFiniteSet(S) /\ Cardinality(S) \in Nat
  BY <1>1, FS_Subset, FS_CardinalityType
<1> QED
  BY <1>2, OutboxAssumption, StreamAssumption DEF Event

\* How many events of S come before e.
Rank(S, e) == Cardinality({d \in S : d < e})

\* The ranks of the events of S are the numbers below its size, each of one event.
LEMMA RanksAreNumbers ==
  ASSUME NEW S \in SUBSET Event
  PROVE  /\ \A e \in S : Rank(S, e) + 1 \in 1..Cardinality(S) /\ Rank(S, e) \in Nat
         /\ \A d, e \in S : Rank(S, d) = Rank(S, e) => d = e
         /\ \A i \in 1..Cardinality(S) : \E e \in S : Rank(S, e) = i - 1
<1>1. IsFiniteSet(S) /\ Cardinality(S) \in Nat
  BY EventNumbers
<1>2. ASSUME NEW e \in S
      PROVE  Rank(S, e) \in Nat /\ Rank(S, e) + 1 \in 1..Cardinality(S)
  <2> DEFINE T == {d \in S : d < e}
  <2>1. e \notin T /\ T \subseteq S \ {e} /\ T \in SUBSET Event
    BY EventNumbers
  <2>2. Cardinality(T) \in Nat
    BY <2>1, EventNumbers
  <2>3. Cardinality(S \ {e}) = Cardinality(S) - 1 /\ IsFiniteSet(S \ {e})
    BY <1>1, FS_RemoveElement, FS_Subset
  <2>4. Cardinality(T) <= Cardinality(S) - 1
    BY <2>1, <2>3, FS_Subset
  <2> QED
    BY <1>1, <2>2, <2>4 DEF Rank
<1>3. ASSUME NEW d \in S, NEW e \in S, d < e
      PROVE  Rank(S, d) # Rank(S, e)
  <2> DEFINE T == {c \in S : c < d}
             U == {c \in S : c < e}
  <2>1. T \in SUBSET Event /\ U \in SUBSET Event /\ d \in U /\ d \notin T /\ T \subseteq U \ {d}
    BY <1>3, EventNumbers
  <2>2. IsFiniteSet(U) /\ Cardinality(T) \in Nat /\ Cardinality(U) \in Nat
    BY <2>1, EventNumbers
  <2>3. Cardinality(U \ {d}) = Cardinality(U) - 1 /\ IsFiniteSet(U \ {d})
    BY <2>1, <2>2, FS_RemoveElement, FS_Subset
  <2>4. Cardinality(T) <= Cardinality(U) - 1
    BY <2>1, <2>3, FS_Subset
  <2> QED
    BY <2>2, <2>4 DEF Rank
<1>4. \A d, e \in S : Rank(S, d) = Rank(S, e) => d = e
  BY <1>3, EventNumbers
<1> DEFINE f == [e \in S |-> Rank(S, e) + 1]
<1>5. f \in Injection(S, 1..Cardinality(S))
  BY <1>2, <1>4 DEF Injection, IsInjective
<1>6. IsFiniteSet(1..Cardinality(S)) /\ Cardinality(1..Cardinality(S)) = Cardinality(S)
  BY <1>1, FS_Interval
<1>7. f \in Surjection(S, 1..Cardinality(S))
  BY <1>5, <1>6, FS_Injection
<1>8. ASSUME NEW i \in 1..Cardinality(S)
      PROVE  \E e \in S : Rank(S, e) = i - 1
  <2>1. PICK e \in S : f[e] = i
    BY <1>7 DEF Surjection
  <2> QED
    BY <1>1, <1>2, <2>1
<1> QED
  BY <1>2, <1>4, <1>8

LEMMA InOrderLists ==
  ASSUME NEW S \in SUBSET Event
  PROVE  /\ InOrder(S) \in Seq(Event) /\ Len(InOrder(S)) = Cardinality(S)
         /\ \A i \in 1..Cardinality(S) : InOrder(S)[i] \in S
         /\ \A e \in S : InSeq(e, InOrder(S))
<1> DEFINE s == InOrder(S)
<1>1. Cardinality(S) \in Nat
  BY EventNumbers
<1>2. ASSUME NEW i \in 1..Cardinality(S)
      PROVE  s[i] \in S /\ Rank(S, s[i]) = i - 1
  <2>1. s[i] = CHOOSE e \in S : Rank(S, e) = i - 1
    BY DEF InOrder, Rank
  <2>2. \E e \in S : Rank(S, e) = i - 1
    BY RanksAreNumbers
  <2> HIDE DEF s
  <2> QED
    BY <2>1, <2>2
<1>3. s \in [1..Cardinality(S) -> Event]
  <2> DEFINE Nth(i) == CHOOSE e \in S : Cardinality({d \in S : d < e}) = i - 1
  <2>1. \A i \in 1..Cardinality(S) : s[i] = Nth(i)
    BY DEF InOrder
  <2>2. \A i \in 1..Cardinality(S) : Nth(i) \in Event
    BY <1>2, <2>1
  <2> HIDE DEF Nth
  <2>3. [i \in 1..Cardinality(S) |-> Nth(i)] \in [1..Cardinality(S) -> Event]
    BY <2>2
  <2> QED
    BY <2>3 DEF InOrder, Nth
<1> HIDE DEF s
<1>4. s \in Seq(Event) /\ Len(s) = Cardinality(S)
  BY <1>1, <1>3
<1>5. ASSUME NEW e \in S
      PROVE  InSeq(e, s)
  <2>1. Rank(S, e) + 1 \in 1..Cardinality(S) /\ Rank(S, e) \in Nat
    BY RanksAreNumbers
  <2>2. s[Rank(S, e) + 1] \in S /\ Rank(S, s[Rank(S, e) + 1]) = Rank(S, e)
    BY <1>2, <2>1
  <2>3. s[Rank(S, e) + 1] = e
    BY <2>2, RanksAreNumbers
  <2> QED
    BY <1>4, <2>1, <2>3 DEF InSeq
<1> QED
  BY <1>2, <1>4, <1>5 DEF s

\* The last row of a page that has one: the least number of events still to come.
LEMMA LatestIsLast ==
  ASSUME NEW S \in SUBSET Event, S # {}
  PROVE  Latest(S) \in S /\ \A e \in S : e <= Latest(S)
<1> DEFINE Rest == {MaxEvents - e : e \in S}
<1>1. Rest \in SUBSET Nat /\ Rest # {}
  BY EventNumbers
<1>2. \E j \in Rest : \A k \in Rest : ~ (<<k, j>> \in OpToRel(<, Nat))
  <2> HIDE DEF Rest
  <2> QED
    BY <1>1, NatLessThanWellFounded, WFMin, Zenon
<1>3. PICK j \in Rest : \A k \in Rest : ~ (k < j)
  <2> HIDE DEF Rest
  <2> QED
    BY <1>2, <1>1, Zenon DEF OpToRel
<1>4. PICK last \in S : j = MaxEvents - last
  BY <1>3
<1>5. ASSUME NEW e \in S PROVE e <= last
  <2>1. ~ (MaxEvents - e < MaxEvents - last)
    BY <1>3, <1>4
  <2> QED
    BY <2>1, EventNumbers
<1> QED
  BY <1>5 DEF Latest

\* What is remembered was remembered before or is new; as long as the limit is not
\* exceeded nothing is forgotten.
LEMMA RememberKeeps ==
  ASSUME NEW seen \in Seq(Event), NEW S \in SUBSET Event
  PROVE  /\ Remember(seen, S) \in Seq(Event)
         /\ \A e \in Event : InSeq(e, Remember(seen, S)) => InSeq(e, seen) \/ e \in S
         /\ Len(seen) + Cardinality(S) <= SeenLimit =>
              /\ Len(Remember(seen, S)) = Len(seen) + Cardinality(S)
              /\ \A e \in Event : InSeq(e, seen) \/ e \in S => InSeq(e, Remember(seen, S))
<1> DEFINE page == InOrder(S)
           all == seen \o page
           n == Len(all)
<1>1. /\ page \in Seq(Event) /\ Len(page) = Cardinality(S)
      /\ \A i \in 1..Cardinality(S) : page[i] \in S
      /\ \A e \in S : InSeq(e, page)
      /\ Cardinality(S) \in Nat /\ Len(seen) \in Nat /\ SeenLimit \in Nat /\ 1 <= SeenLimit
  BY InOrderLists, EventNumbers
<1> HIDE DEF page
<1>2. /\ all \in Seq(Event) /\ n = Len(seen) + Cardinality(S)
      /\ \A i \in 1..n : all[i] = IF i <= Len(seen) THEN seen[i] ELSE page[i - Len(seen)]
  BY <1>1, ConcatProperties
<1> HIDE DEF all
<1>3. n \in Nat
  BY <1>1, <1>2
<1> HIDE DEF n
<1>4. ASSUME NEW e \in Event PROVE InSeq(e, all) <=> InSeq(e, seen) \/ e \in S
  <2>1. ASSUME InSeq(e, all) PROVE InSeq(e, seen) \/ e \in S
    <3>1. PICK i \in 1..n : all[i] = e
      BY <2>1 DEF InSeq, n
    <3>2. CASE i <= Len(seen)
      BY <1>1, <1>2, <3>1, <3>2 DEF InSeq
    <3>3. CASE ~(i <= Len(seen))
      <4>1. i - Len(seen) \in 1..Cardinality(S)
        BY <1>1, <1>2, <3>3
      <4> QED
        BY <1>1, <1>2, <3>1, <3>3, <4>1
    <3> QED
      BY <3>2, <3>3
  <2>2. ASSUME InSeq(e, seen) PROVE InSeq(e, all)
    <3>1. PICK i \in 1..Len(seen) : seen[i] = e
      BY <2>2 DEF InSeq
    <3>2. i \in 1..n /\ all[i] = e
      BY <1>1, <1>2, <3>1
    <3> QED
      BY <3>2 DEF InSeq, n
  <2>3. ASSUME e \in S PROVE InSeq(e, all)
    <3>1. PICK i \in 1..Cardinality(S) : page[i] = e
      BY <1>1, <2>3 DEF InSeq
    <3>2. Len(seen) + i \in 1..n
      BY <1>1, <1>2, <3>1
    <3>3. all[Len(seen) + i] = page[(Len(seen) + i) - Len(seen)] /\ (Len(seen) + i) - Len(seen) = i
      BY <1>1, <1>2, <3>1, <3>2
    <3> QED
      BY <3>1, <3>2, <3>3 DEF InSeq, n
  <2> QED
    BY <2>1, <2>2, <2>3
<1>5. Remember(seen, S) = IF n > SeenLimit THEN SubSeq(all, n - SeenLimit + 1, n) ELSE all
  BY DEF Remember, page, all, n
<1>6. CASE n > SeenLimit
  <2> DEFINE m == n - SeenLimit + 1
             tail == SubSeq(all, m, n)
  <2>1. m \in 1..n /\ n - m + 1 = SeenLimit
    BY <1>1, <1>3, <1>6
  <2>2. \A i \in m..n : all[i] \in Event
    BY <1>2, <1>3, <2>1 DEF n
  <2>3. m \in Int /\ n \in Int /\ m <= n
    BY <1>3, <2>1
  <2>4. Remember(seen, S) = tail
    BY <1>5, <1>6
  <2> HIDE DEF m
  <2>5. /\ tail \in Seq(Event) /\ Len(tail) = n - m + 1
        /\ \A i \in 1..(n - m + 1) : tail[i] = all[m + i - 1]
    BY <2>2, <2>3, SubSeqProperties
  <2> HIDE DEF tail
  <2>6. ASSUME NEW e \in Event, InSeq(e, tail) PROVE InSeq(e, all)
    <3>1. PICK i \in 1..(n - m + 1) : tail[i] = e
      BY <2>5, <2>6 DEF InSeq
    <3>2. m + i - 1 \in 1..n /\ all[m + i - 1] = e
      BY <1>3, <2>1, <2>5, <3>1
    <3> QED
      BY <3>2 DEF InSeq, n
  <2>7. ~(Len(seen) + Cardinality(S) <= SeenLimit)
    BY <1>1, <1>2, <1>6
  <2> QED
    BY <1>4, <2>4, <2>5, <2>6, <2>7
<1>7. CASE ~(n > SeenLimit)
  <2>1. Remember(seen, S) = all
    BY <1>5, <1>7
  <2> QED
    BY <1>2, <1>4, <2>1 DEF n
<1> QED
  BY <1>6, <1>7

-----------------------------------------------------------------------------
(* The inductive invariant *)

\* The consumer is at or before the end of the stream, once the process subscribed.
HubInv ==
  /\ hub.start > 0 => hub.fed \in 1..(Len(bus) + 1)
  /\ hub.connected => hub.start > 0
  /\ stream.sure => hub.start > 0

\* What the generator remembers, it sent.
SeenIsShown == \A e \in Event : InSeq(e, stream.seen) => e \in client.shown

\* A listing starts after the cursor, so the cursor never goes back.
ListsAhead == \A e \in stream.listing : e > stream.cursor

\* Behind the cursor or still coming: what NothingElseMissed says of one event.
OnItsWay(e) == e <= stream.cursor \/ Coming(e)

NoneMissed ==
  stream.pc # "closed" /\ stream.sure =>
    \A e \in stored \ (client.shown \cup Unpublishable) : OnItsWay(e)

StreamInv ==
  /\ OutboxInv
  /\ TypeOK
  /\ HubInv
  /\ SeenIsShown
  /\ ListsAhead
  /\ NoneMissed

\* The fields of the records.
LEMMA StreamFields ==
  ASSUME TypeOK
  PROVE  /\ stream.pc \in {"closed", "checks", "lists", "shows", "waits"}
         /\ stream.queue \in Seq(Event) /\ Len(stream.queue) <= QueueSize
         /\ stream.lagged \in BOOLEAN /\ stream.cursor \in 0..MaxEvents
         /\ stream.listing \in SUBSET Event /\ stream.seen \in Seq(Event)
         /\ stream.sure \in BOOLEAN
         /\ hub.connected \in BOOLEAN /\ hub.live \in BOOLEAN
         /\ hub.start \in Nat /\ hub.fed \in Nat
         /\ client.shown \in SUBSET Event /\ client.lastId \in 0..MaxEvents
         /\ client.frames \in [Event -> 0..2]
         /\ stored \in SUBSET Event /\ bus \in Seq(Event) /\ Len(bus) \in Nat
BY DEF TypeOK, OutboxTypeOK, Stream, Hub, Client

\* A record whose fields have their types: what the steps write.
LEMMA StreamIsTyped ==
  ASSUME NEW s \in Stream,
         NEW pc \in {"closed", "checks", "lists", "shows", "waits"}, NEW queue \in Seq(Event),
         NEW lagged \in BOOLEAN, NEW cursor \in 0..MaxEvents, NEW listing \in SUBSET Event,
         NEW seen \in Seq(Event), NEW sure \in BOOLEAN
  PROVE  /\ [s EXCEPT !.pc = pc, !.lagged = lagged, !.queue = queue] \in Stream
         /\ [s EXCEPT !.pc = pc] \in Stream
         /\ [s EXCEPT !.pc = pc, !.sure = sure, !.listing = listing] \in Stream
         /\ [s EXCEPT !.pc = pc, !.listing = listing, !.cursor = cursor, !.seen = seen] \in Stream
         /\ [s EXCEPT !.pc = pc, !.queue = queue, !.seen = seen] \in Stream
         /\ [s EXCEPT !.lagged = lagged] \in Stream
         /\ [s EXCEPT !.queue = queue] \in Stream
BY DEF Stream

\* What the client is after the frames of S, received in order.
LEMMA ReceivedTyped ==
  ASSUME TypeOK, NEW S \in SUBSET Event, Received(S)
  PROVE  /\ client' \in Client /\ client'.shown = client.shown \cup S
         /\ \A e \in Event : client'.frames[e] = IF e \in S /\ client.frames[e] < 2
                                                 THEN client.frames[e] + 1 ELSE client.frames[e]
<1>1. client.shown \cup S \in SUBSET Event
  BY StreamFields
<1>2. (IF S = {} THEN client.lastId ELSE Latest(S)) \in 0..MaxEvents
  <2>1. CASE S = {}
    BY <2>1, StreamFields
  <2>2. CASE S # {}
    <3>1. Latest(S) \in Event
      BY <2>2, LatestIsLast
    <3> QED
      BY <2>2, <3>1, EventNumbers
  <2> QED
    BY <2>1, <2>2
<1>3. \A e \in Event : (IF e \in S /\ client.frames[e] < 2
                        THEN client.frames[e] + 1 ELSE client.frames[e]) \in 0..2
  BY StreamFields
<1>4. [e \in Event |-> IF e \in S /\ client.frames[e] < 2
                       THEN client.frames[e] + 1 ELSE client.frames[e]] \in [Event -> 0..2]
  BY <1>3
<1> QED
  BY <1>1, <1>2, <1>4 DEF Received, Client

\* A connection that is lost or a tab that goes away leaves the outbox as it is.
LEMMA FaultSafe ==
  ASSUME OutboxInv, faults < MaxFaults, faults' = faults + 1,
         UNCHANGED <<stored, mark, relay, bus, recent>>
  PROVE  OutboxInv'
<1>1. faults' \in 0..MaxFaults
  BY OutboxAssumption DEF OutboxInv, OutboxTypeOK
<1>2. \A e \in Event : OnBus(e)' <=> OnBus(e)
  BY SameBus
<1>3. OutboxTypeOK' /\ OneClaim'
  BY <1>1 DEF OutboxInv, OutboxTypeOK, OneClaim
<1>4. ASSUME NEW e \in Event PROVE EventInv(e)'
  BY <1>2 DEF OutboxInv, EventInv
<1>5. ASSUME NEW r \in Relays PROVE PassInv(r)'
  <2>1. relay[r].acked \subseteq Event
    BY DEF OutboxInv, OutboxTypeOK, Pass
  <2> QED
    BY <1>2, <2>1 DEF OutboxInv, PassInv
<1> QED
  BY <1>3, <1>4, <1>5 DEF OutboxInv, Event

LEMMA SameOutbox == OutboxInv /\ UNCHANGED outbox => OutboxInv'
BY DEF outbox, OutboxInv, OutboxTypeOK, OneClaim, PassInv, EventInv, OnBus

-----------------------------------------------------------------------------
(* The outbox moves under the stream *)

\* The bus only grows at its end, and what comes on it is stored: an event that was coming
\* still is, and one that commits or comes on the bus now has yet to be fed.
LEMMA OutboxGrows ==
  ASSUME OutboxInv, OutboxNext
  PROVE  /\ Len(bus) <= Len(bus') /\ \A i \in 1..Len(bus) : bus'[i] = bus[i]
         /\ \A e \in Event : e \in stored' /\ e \notin stored => ~OnBus(e)'
<1>1. bus \in Seq(Event) /\ Len(bus) \in Nat
  BY DEF OutboxInv, OutboxTypeOK
<1>2. ASSUME NEW e \in Event, Accepted(e)
      PROVE  Len(bus) <= Len(bus') /\ \A i \in 1..Len(bus) : bus'[i] = bus[i]
  BY <1>1, <1>2 DEF Accepted
<1>3. ASSUME bus' = bus, stored' = stored
      PROVE  /\ Len(bus) <= Len(bus') /\ \A i \in 1..Len(bus) : bus'[i] = bus[i]
             /\ \A e \in Event : e \in stored' /\ e \notin stored => ~OnBus(e)'
  BY <1>1, <1>3
<1>4. ASSUME NEW e \in Event, Commit(e)
      PROVE  /\ Len(bus) <= Len(bus') /\ \A i \in 1..Len(bus) : bus'[i] = bus[i]
             /\ \A d \in Event : d \in stored' /\ d \notin stored => ~OnBus(d)'
  <2>1. bus' = bus /\ stored' = stored \cup {e} /\ ~OnBus(e)
    BY <1>4 DEF Commit, OutboxInv, EventInv
  <2>2. ~OnBus(e)'
    BY <2>1, SameBus
  <2> QED
    BY <1>1, <2>1, <2>2
<1>5. ASSUME NEW r \in Relays, NEW e \in Event, Publish(r, e) \/ PublishFails(r, e)
      PROVE  /\ Len(bus) <= Len(bus') /\ \A i \in 1..Len(bus) : bus'[i] = bus[i]
             /\ stored' = stored
  BY <1>1, <1>2, <1>5 DEF Publish, PublishFails
<1> QED
  BY <1>3, <1>4, <1>5 DEF OutboxNext, RelayStep, BackoffEnds, WindowPasses, Claim, Finish,
     Abort, Reject

LEMMA OutboxKeepsStream ==
  ASSUME StreamInv, OutboxNext, UNCHANGED streaming
  PROVE  StreamInv'
<1>1. OutboxInv'
  <2>1. [OutboxNext]_outbox
    OBVIOUS
  <2> QED
    BY <2>1, OutboxInvStep DEF StreamInv
<1>2. hub' = hub /\ stream' = stream /\ client' = client
  BY DEF streaming
<1>3. /\ Len(bus) <= Len(bus') /\ \A i \in 1..Len(bus) : bus'[i] = bus[i]
      /\ \A e \in Event : e \in stored' /\ e \notin stored => ~OnBus(e)'
  BY OutboxGrows DEF StreamInv
<1>4. Len(bus) \in Nat /\ Len(bus') \in Nat
  BY <1>1 DEF StreamInv, OutboxInv, OutboxTypeOK
<1>5. TypeOK' /\ SeenIsShown' /\ ListsAhead'
  BY <1>1, <1>2 DEF StreamInv, TypeOK, SeenIsShown, ListsAhead, InSeq, OutboxInv, Event
<1>6. HubInv'
  <2>1. hub.fed \in 1..(Len(bus) + 1) => hub.fed \in 1..(Len(bus') + 1)
    BY <1>3, <1>4
  <2> QED
    BY <1>2, <2>1 DEF StreamInv, HubInv
<1>7. NoneMissed'
  <2> SUFFICES ASSUME stream.pc # "closed", stream.sure,
                      NEW e \in stored' \ (client.shown \cup Unpublishable)
               PROVE  OnItsWay(e)'
    BY <1>2 DEF NoneMissed
  <2>1. e \in Event
    BY <1>1 DEF OutboxInv, OutboxTypeOK
  <2>2. hub.fed \in 1..(Len(bus) + 1) /\ hub.fed \in Nat
    BY StreamFields DEF StreamInv, HubInv
  <2>3. CASE e \notin stored
    BY <1>3, <2>1, <2>3 DEF OnItsWay, Coming
  <2>4. CASE e \in stored
    <3>1. OnItsWay(e)
      BY <2>4 DEF StreamInv, NoneMissed
    <3>2. ASSUME e <= stream.cursor \/ InSeq(e, stream.queue) \/ e \in stream.listing
                 \/ (e > stream.cursor /\ (stream.lagged \/ stream.pc = "lists"))
          PROVE  OnItsWay(e)'
      BY <1>2, <3>2 DEF OnItsWay, Coming, InSeq
    <3>3. ASSUME NEW i \in hub.fed..Len(bus), bus[i] = e
          PROVE  OnItsWay(e)'
      <4>1. i \in 1..Len(bus) /\ i \in hub.fed..Len(bus')
        BY <1>3, <1>4, <2>2, <3>3
      <4>2. bus'[i] = e
        BY <1>3, <3>3, <4>1
      <4>3. \E j \in hub.fed'..Len(bus') : bus'[j] = e
        BY <1>2, <4>1, <4>2
      <4> QED
        BY <4>3 DEF OnItsWay, Coming
    <3>4. ASSUME ~OnBus(e)
          PROVE  OnItsWay(e)'
      <4>1. CASE ~OnBus(e)'
        BY <4>1 DEF OnItsWay, Coming
      <4>2. CASE OnBus(e)'
        <5>1. PICK i \in 1..Len(bus') : bus'[i] = e
          BY <4>2 DEF OnBus
        <5>2. i \notin 1..Len(bus)
          BY <1>3, <3>4, <5>1 DEF OnBus
        <5>3. i \in hub.fed..Len(bus')
          BY <1>3, <1>4, <2>2, <5>1, <5>2
        <5>4. \E j \in hub.fed'..Len(bus') : bus'[j] = e
          BY <1>2, <5>1, <5>3
        <5> QED
          BY <5>4 DEF OnItsWay, Coming
      <4> QED
        BY <4>1, <4>2
    <3> QED
      BY <3>1, <3>2, <3>3, <3>4 DEF OnItsWay, Coming
  <2> QED
    BY <2>3, <2>4
<1> QED
  BY <1>1, <1>5, <1>6, <1>7 DEF StreamInv

-----------------------------------------------------------------------------
(* The hub feeds the listener *)

\* Steps of the connection: the stream, the client and the events are as they were, and
\* what had not been fed yet is still to be fed.
LEMMA HubKeepsStream ==
  ASSUME StreamInv, OutboxInv', UNCHANGED <<stored, bus, stream, client>>, hub' \in Hub,
         HubInv', stream.sure => hub'.fed = hub.fed
  PROVE  StreamInv'
<1>1. TypeOK' /\ SeenIsShown' /\ ListsAhead'
  BY DEF StreamInv, OutboxInv, TypeOK, SeenIsShown, ListsAhead, InSeq, Event
<1>2. NoneMissed'
  <2> SUFFICES ASSUME stream.pc # "closed", stream.sure,
                      NEW e \in stored \ (client.shown \cup Unpublishable)
               PROVE  OnItsWay(e)'
    BY DEF NoneMissed
  <2>1. OnItsWay(e)
    BY DEF StreamInv, NoneMissed
  <2> QED
    BY <2>1 DEF OnItsWay, Coming, InSeq, OnBus
<1> QED
  BY <1>1, <1>2 DEF StreamInv

LEMMA SubscribeSafe == ASSUME StreamInv, Subscribe PROVE StreamInv'
<1>1. hub' = [connected |-> TRUE, live |-> TRUE, start |-> Len(bus) + 1, fed |-> Len(bus) + 1]
  BY DEF Subscribe
<1>2. Len(bus) \in Nat /\ ~stream.sure /\ hub.start = 0
  BY StreamFields DEF StreamInv, HubInv, Subscribe
<1>3. hub' \in Hub
  BY <1>1, <1>2 DEF Hub
<1>4. OutboxInv' /\ UNCHANGED <<stored, bus, stream, client>>
  BY SameOutbox DEF StreamInv, Subscribe, outbox
<1>5. HubInv'
  BY <1>1, <1>2, <1>4 DEF HubInv
<1> QED
  BY <1>2, <1>3, <1>4, <1>5, HubKeepsStream

LEMMA ConnectionSafe ==
  ASSUME StreamInv, ConnectionDrops \/ Reconnects \/ Mirror PROVE StreamInv'
<1>1. /\ hub' \in Hub /\ hub'.fed = hub.fed /\ hub'.start = hub.start
      /\ hub'.connected => hub.start > 0
  BY StreamFields DEF StreamInv, TypeOK, HubInv, Hub, ConnectionDrops, Reconnects, Mirror
<1>2. UNCHANGED <<stored, bus, stream, client>>
  BY DEF ConnectionDrops, Reconnects, Mirror, outbox
<1>3. OutboxInv'
  BY FaultSafe, SameOutbox DEF StreamInv, ConnectionDrops, Reconnects, Mirror
<1>4. HubInv'
  BY <1>1, <1>2 DEF StreamInv, HubInv
<1> QED
  BY <1>1, <1>2, <1>3, <1>4, HubKeepsStream

\* An event that is fed is in the queue, or the listener knows that it lags.
LEMMA DispatchSafe == ASSUME StreamInv, Dispatch PROVE StreamInv'
<1> DEFINE next == bus[hub.fed]
<1>1. hub.fed \in 1..Len(bus) /\ hub.fed \in Nat /\ next \in Event
  BY StreamFields DEF StreamInv, HubInv, Dispatch
<1>2. /\ hub' \in Hub /\ hub'.fed = hub.fed + 1 /\ hub'.start = hub.start
      /\ hub'.connected = hub.connected
  <2>1. hub \in Hub /\ hub.fed + 1 \in Nat
    BY <1>1 DEF StreamInv, TypeOK
  <2>2. hub' = [hub EXCEPT !.fed = hub.fed + 1]
    BY DEF Dispatch
  <2> QED
    BY <2>1, <2>2 DEF Hub
<1>3. /\ OutboxInv' /\ UNCHANGED <<stored, bus, client>>
  BY SameOutbox DEF StreamInv, Dispatch, outbox
<1>4. /\ Append(stream.queue, next) \in Seq(Event)
      /\ Len(Append(stream.queue, next)) = Len(stream.queue) + 1
      /\ \A i \in 1..Len(stream.queue) : Append(stream.queue, next)[i] = stream.queue[i]
      /\ Append(stream.queue, next)[Len(stream.queue) + 1] = next
  BY <1>1, StreamFields DEF StreamInv
<1> HIDE DEF next
<1>5. /\ stream'.pc = stream.pc /\ stream'.cursor = stream.cursor
      /\ stream'.listing = stream.listing /\ stream'.seen = stream.seen
      /\ stream'.sure = stream.sure /\ (stream.lagged => stream'.lagged)
      /\ \/ stream'.queue = stream.queue /\ (stream.pc # "closed" => stream'.lagged)
         \/ Len(stream.queue) # QueueSize /\ stream'.queue = Append(stream.queue, next)
      /\ stream' \in Stream
  <2>1. stream \in Stream
    BY DEF StreamInv, TypeOK
  <2>2. CASE stream.pc = "closed"
    BY <2>1, <2>2 DEF Dispatch, Offered
  <2>3. CASE stream.pc # "closed" /\ Len(stream.queue) = QueueSize
    <3>1. stream' = [stream EXCEPT !.lagged = TRUE]
      BY <2>3 DEF Dispatch, Offered
    <3> QED
      BY <2>1, <2>3, <3>1 DEF Stream
  <2>4. CASE stream.pc # "closed" /\ Len(stream.queue) # QueueSize
    <3>1. stream' = [stream EXCEPT !.queue = Append(@, next)]
      BY <2>4 DEF Dispatch, Offered, next
    <3>2. stream' \in Stream
      BY <1>4, <2>1, <3>1 DEF Stream
    <3> QED
      BY <2>1, <2>4, <3>1, <3>2 DEF Stream
  <2> QED
    BY <2>2, <2>3, <2>4
<1>6. Len(stream'.queue) <= QueueSize
  BY <1>4, <1>5, StreamFields, EventNumbers DEF StreamInv
<1>7. TypeOK' /\ SeenIsShown' /\ ListsAhead'
  BY <1>2, <1>3, <1>5, <1>6 DEF StreamInv, OutboxInv, TypeOK, SeenIsShown, ListsAhead, InSeq, Event
<1>8. HubInv'
  BY <1>1, <1>2, <1>3, <1>5 DEF StreamInv, HubInv
<1>9. NoneMissed'
  <2> SUFFICES ASSUME stream.pc # "closed", stream.sure,
                      NEW e \in stored \ (client.shown \cup Unpublishable)
               PROVE  OnItsWay(e)'
    BY <1>3, <1>5 DEF NoneMissed
  <2>1. e \in Event /\ e \in Nat /\ stream.cursor \in Nat
    BY StreamFields, EventNumbers DEF StreamInv
  <2>2. OnItsWay(e)
    BY DEF StreamInv, NoneMissed
  <2>3. CASE stream'.lagged
    <3>1. e <= stream'.cursor \/ e > stream'.cursor
      BY <1>5, <2>1
    <3> QED
      BY <2>3, <3>1 DEF OnItsWay, Coming
  <2>4. CASE Len(stream.queue) # QueueSize /\ stream'.queue = Append(stream.queue, next)
    <3>1. ASSUME InSeq(e, stream.queue) \/ e = next PROVE OnItsWay(e)'
      <4>1. Len(stream.queue) \in Nat
        BY StreamFields DEF StreamInv
      <4>2. \E i \in 1..Len(stream'.queue) : stream'.queue[i] = e
        <5>1. CASE e = next
          <6>1. Len(stream.queue) + 1 \in 1..Len(stream'.queue)
            BY <1>4, <2>4, <4>1
          <6> QED
            BY <1>4, <2>4, <5>1, <6>1
        <5>2. CASE InSeq(e, stream.queue)
          <6>1. PICK i \in 1..Len(stream.queue) : stream.queue[i] = e
            BY <5>2 DEF InSeq
          <6>2. i \in 1..Len(stream'.queue)
            BY <1>4, <2>4, <4>1
          <6> QED
            BY <1>4, <2>4, <6>1, <6>2
        <5> QED
          BY <3>1, <5>1, <5>2
      <4> QED
        BY <4>2 DEF OnItsWay, Coming, InSeq
    <3>2. ASSUME NEW i \in hub.fed..Len(bus), bus[i] = e, e # next PROVE OnItsWay(e)'
      <4>1. i # hub.fed
        BY <3>2 DEF next
      <4>2. i \in (hub.fed + 1)..Len(bus)
        BY <1>1, <4>1
      <4>3. i \in hub'.fed..Len(bus') /\ bus'[i] = e
        BY <1>2, <1>3, <3>2, <4>2
      <4> QED
        BY <4>3 DEF OnItsWay, Coming
    <3>3. ASSUME \/ e <= stream.cursor \/ ~OnBus(e) \/ e \in stream.listing
                 \/ e > stream.cursor /\ (stream.lagged \/ stream.pc = "lists")
          PROVE  OnItsWay(e)'
      BY <1>3, <1>5, <3>3 DEF OnItsWay, Coming, OnBus
    <3> QED
      BY <2>2, <3>1, <3>2, <3>3 DEF OnItsWay, Coming
  <2> QED
    BY <1>5, <2>3, <2>4
<1> QED
  BY <1>3, <1>7, <1>8, <1>9 DEF StreamInv

-----------------------------------------------------------------------------
(* The generator *)

\* A step of the generator or the client: the outbox and the hub are as they were.
LEMMA GeneratorKeeps ==
  ASSUME StreamInv, OutboxInv', UNCHANGED <<stored, bus, hub>>,
         stream' \in Stream, Len(stream'.queue) <= QueueSize, client' \in Client,
         stream'.sure => hub.start > 0, SeenIsShown', ListsAhead', NoneMissed'
  PROVE  StreamInv'
<1>1. TypeOK'
  BY DEF StreamInv, OutboxInv, TypeOK
<1>2. HubInv'
  BY DEF StreamInv, HubInv
<1> QED
  BY <1>1, <1>2 DEF StreamInv

\* Nothing is in an empty queue.
LEMMA NothingInEmpty == <<>> \in Seq(Event) /\ Len(<<>>) = 0 /\ \A e : ~InSeq(e, <<>>)
BY DEF InSeq

LEMMA OpenSafe == ASSUME StreamInv, Open PROVE StreamInv'
<1>1. stream' = Listening(client.lastId, hub.start > 0)
  BY DEF Open
<1>2. /\ stream'.pc = "lists" /\ stream'.queue = <<>> /\ stream'.lagged = FALSE
      /\ stream'.cursor = client.lastId /\ stream'.listing = {} /\ stream'.seen = <<>>
      /\ stream'.sure = (hub.start > 0)
  BY <1>1 DEF Listening
<1>3. client.lastId \in 0..MaxEvents /\ (hub.start > 0) \in BOOLEAN
  BY StreamFields DEF StreamInv
<1>4. stream' \in Stream
  BY <1>1, <1>3, NothingInEmpty DEF Listening, Stream
<1>5. Len(stream'.queue) <= QueueSize
  BY <1>2, NothingInEmpty, EventNumbers
<1>6. client' \in Client /\ client'.shown = client.shown
  <2>1. client \in Client /\ [e \in Event |-> 0] \in [Event -> 0..2]
    BY DEF StreamInv, TypeOK
  <2> QED
    BY <2>1 DEF Open, Client
<1>7. OutboxInv' /\ UNCHANGED <<stored, bus, hub>>
  BY SameOutbox DEF StreamInv, Open, outbox
<1>8. SeenIsShown' /\ ListsAhead'
  BY <1>2, NothingInEmpty DEF SeenIsShown, ListsAhead, InSeq, Event
<1>9. NoneMissed'
  <2> SUFFICES ASSUME NEW e \in stored \ (client'.shown \cup Unpublishable) PROVE OnItsWay(e)'
    BY <1>7 DEF NoneMissed
  <2>1. e \in Nat /\ stream'.cursor \in Nat
    BY <1>2, <1>3, StreamFields, EventNumbers DEF StreamInv
  <2>2. e <= stream'.cursor \/ e > stream'.cursor
    BY <2>1
  <2> QED
    BY <1>2, <2>2 DEF OnItsWay, Coming
<1> QED
  BY <1>2, <1>4, <1>5, <1>6, <1>7, <1>8, <1>9, GeneratorKeeps

\* The queue is given up for a listing that has yet to begin.
LEMMA CatchesUpSafe == ASSUME StreamInv, CatchesUp PROVE StreamInv'
<1>1. /\ stream' \in Stream
      /\ stream'.pc = "lists" /\ stream'.queue = <<>> /\ stream'.lagged = FALSE
      /\ stream'.cursor = stream.cursor /\ stream'.listing = stream.listing
      /\ stream'.seen = stream.seen /\ stream'.sure = stream.sure
  <2>1. stream \in Stream /\ stream' = [stream EXCEPT !.pc = "lists", !.lagged = FALSE, !.queue = <<>>]
    BY DEF StreamInv, TypeOK, CatchesUp
  <2> QED
    BY <2>1, NothingInEmpty DEF Stream
<1>2. Len(stream'.queue) <= QueueSize
  BY <1>1, NothingInEmpty, EventNumbers
<1>3. OutboxInv' /\ UNCHANGED <<stored, bus, hub, client>>
  BY SameOutbox DEF StreamInv, CatchesUp, outbox
<1>4. SeenIsShown' /\ ListsAhead' /\ client' \in Client /\ (stream'.sure => hub.start > 0)
  BY <1>1, <1>3 DEF StreamInv, TypeOK, HubInv, SeenIsShown, ListsAhead, InSeq, Event
<1>5. NoneMissed'
  <2> SUFFICES ASSUME NEW e \in stored \ (client.shown \cup Unpublishable) PROVE OnItsWay(e)'
    BY <1>3 DEF NoneMissed
  <2>1. e \in Nat /\ stream'.cursor \in Nat
    BY <1>1, StreamFields, EventNumbers DEF StreamInv
  <2>2. e <= stream'.cursor \/ e > stream'.cursor
    BY <2>1
  <2> QED
    BY <1>1, <2>2 DEF OnItsWay, Coming
<1> QED
  BY <1>1, <1>2, <1>3, <1>4, <1>5, GeneratorKeeps

LEMMA ChecksSafe == ASSUME StreamInv, UpToDate \/ Idles PROVE StreamInv'
<1>1. PICK pc \in {"checks", "waits"} : stream' = [stream EXCEPT !.pc = pc]
  BY DEF UpToDate, Idles
<1>2. /\ stream' \in Stream
      /\ stream'.queue = stream.queue /\ stream'.lagged = stream.lagged
      /\ stream'.cursor = stream.cursor /\ stream'.listing = stream.listing
      /\ stream'.seen = stream.seen /\ stream'.sure = stream.sure
  <2>1. stream \in Stream
    BY DEF StreamInv, TypeOK
  <2> QED
    BY <1>1, <2>1 DEF Stream
<1>3. stream.pc # "lists" /\ stream.pc # "closed"
  BY DEF UpToDate, Idles
<1>4. OutboxInv' /\ UNCHANGED <<stored, bus, hub, client>>
  BY SameOutbox DEF StreamInv, UpToDate, Idles, outbox
<1>5. /\ SeenIsShown' /\ ListsAhead' /\ client' \in Client /\ (stream'.sure => hub.start > 0)
      /\ Len(stream'.queue) <= QueueSize
  BY <1>2, <1>4 DEF StreamInv, TypeOK, HubInv, SeenIsShown, ListsAhead, InSeq, Event
<1>6. NoneMissed'
  <2> SUFFICES ASSUME stream.sure, NEW e \in stored \ (client.shown \cup Unpublishable)
               PROVE  OnItsWay(e)'
    BY <1>2, <1>4 DEF NoneMissed
  <2>1. OnItsWay(e)
    BY <1>3 DEF StreamInv, NoneMissed
  <2> QED
    BY <1>2, <1>3, <1>4, <2>1 DEF OnItsWay, Coming, InSeq, OnBus
<1> QED
  BY <1>2, <1>4, <1>5, <1>6, GeneratorKeeps

\* A listing has every committed row after the cursor.
LEMMA ListsSafe == ASSUME StreamInv, Lists PROVE StreamInv'
<1> DEFINE rows == {e \in stored : e > stream.cursor}
<1>1. rows \in SUBSET Event /\ (hub.start > 0) \in BOOLEAN
  BY StreamFields DEF StreamInv
<1>2. /\ stream' \in Stream
      /\ stream'.queue = stream.queue /\ stream'.cursor = stream.cursor
      /\ stream'.listing = rows /\ stream'.seen = stream.seen
      /\ stream'.sure = (hub.start > 0)
  <2>1. stream \in Stream
        /\ stream' = [stream EXCEPT !.pc = "shows", !.sure = hub.start > 0, !.listing = rows]
    BY DEF StreamInv, TypeOK, Lists
  <2> HIDE DEF rows
  <2> QED
    BY <1>1, <2>1 DEF Stream
<1>3. OutboxInv' /\ UNCHANGED <<stored, bus, hub, client>>
  BY SameOutbox DEF StreamInv, Lists, outbox
<1>4. /\ SeenIsShown' /\ client' \in Client /\ (stream'.sure => hub.start > 0)
      /\ Len(stream'.queue) <= QueueSize
  BY <1>2, <1>3 DEF StreamInv, TypeOK, SeenIsShown, InSeq, Event
<1>5. ListsAhead'
  BY <1>2 DEF ListsAhead
<1>6. NoneMissed'
  <2> SUFFICES ASSUME NEW e \in stored \ (client.shown \cup Unpublishable) PROVE OnItsWay(e)'
    BY <1>3 DEF NoneMissed
  <2>1. e \in Nat /\ stream'.cursor \in Nat
    BY <1>2, StreamFields, EventNumbers DEF StreamInv
  <2>2. e <= stream'.cursor \/ e > stream'.cursor
    BY <2>1
  <2>3. CASE e > stream'.cursor
    <3>1. e \in stream'.listing
      BY <1>2, <2>3
    <3> QED
      BY <3>1 DEF OnItsWay, Coming
  <2> QED
    BY <2>2, <2>3 DEF OnItsWay
<1> QED
  BY <1>2, <1>3, <1>4, <1>5, <1>6, GeneratorKeeps

\* What is listed is shown, now or before; the cursor moves on to its last row.
LEMMA ShowsSafe == ASSUME StreamInv, Shows PROVE StreamInv'
<1> DEFINE last == IF stream.listing = {} THEN stream.cursor ELSE Latest(stream.listing)
           kept == Remember(stream.seen, Fresh)
<1>1. Fresh \in SUBSET Event /\ stream.listing \in SUBSET Event
  BY StreamFields DEF StreamInv, Fresh
<1>2. last \in 0..MaxEvents /\ last >= stream.cursor
  <2>1. CASE stream.listing = {}
    BY <2>1, StreamFields, EventNumbers DEF StreamInv
  <2>2. CASE stream.listing # {}
    <3>1. Latest(stream.listing) \in stream.listing
      BY <1>1, <2>2, LatestIsLast
    <3>2. last = Latest(stream.listing) /\ last \in Event /\ last > stream.cursor
      BY <1>1, <2>2, <3>1 DEF StreamInv, ListsAhead
    <3>3. last \in Nat /\ last <= MaxEvents /\ MaxEvents \in Nat
      BY <3>2, EventNumbers
    <3>4. stream.cursor \in Nat
      BY StreamFields, EventNumbers DEF StreamInv
    <3> HIDE DEF last
    <3> QED
      BY <3>2, <3>3, <3>4
  <2> QED
    BY <2>1, <2>2
<1>3. kept \in Seq(Event) /\ \A e \in Event : InSeq(e, kept) => InSeq(e, stream.seen) \/ e \in Fresh
  BY <1>1, RememberKeeps, StreamFields DEF StreamInv
<1>4. /\ stream' \in Stream
      /\ stream'.pc = "waits" /\ stream'.listing = {} /\ stream'.cursor = last
      /\ stream'.seen = kept /\ stream'.queue = stream.queue
      /\ stream'.lagged = stream.lagged /\ stream'.sure = stream.sure
  <2>1. /\ stream \in Stream
        /\ stream' = [stream EXCEPT !.pc = "waits", !.listing = {}, !.cursor = last, !.seen = kept]
    BY DEF StreamInv, TypeOK, Shows
  <2> HIDE DEF last, kept
  <2> QED
    BY <1>2, <1>3, <2>1 DEF Stream
<1> HIDE DEF last, kept
<1>5. client' \in Client /\ client'.shown = client.shown \cup Fresh
  BY <1>1, ReceivedTyped DEF StreamInv, Shows
<1>6. OutboxInv' /\ UNCHANGED <<stored, bus, hub>>
  BY SameOutbox DEF StreamInv, Shows, outbox
<1>7. Len(stream'.queue) <= QueueSize /\ (stream'.sure => hub.start > 0) /\ ListsAhead'
  BY <1>4 DEF StreamInv, TypeOK, HubInv, ListsAhead
<1>8. SeenIsShown'
  BY <1>3, <1>4, <1>5 DEF StreamInv, SeenIsShown, InSeq, Event
<1>9. \A e \in stream.listing : e \in client'.shown
  BY <1>1, <1>5 DEF StreamInv, SeenIsShown, Fresh
<1>10. NoneMissed'
  <2> SUFFICES ASSUME stream.sure, NEW e \in stored \ (client'.shown \cup Unpublishable)
               PROVE  OnItsWay(e)'
    BY <1>4, <1>6 DEF NoneMissed
  <2>1. e \in Nat /\ stream.cursor \in Nat /\ last \in Nat
    BY <1>2, StreamFields, EventNumbers DEF StreamInv
  <2>2. OnItsWay(e)
    BY <1>5 DEF StreamInv, NoneMissed, Shows
  <2>3. e \notin stream.listing /\ stream.pc # "lists"
    BY <1>9 DEF Shows
  <2>4. ASSUME e <= stream.cursor PROVE e <= stream'.cursor
    BY <1>2, <1>4, <2>1, <2>4
  <2>5. e <= stream'.cursor \/ e > stream'.cursor
    BY <1>4, <2>1
  <2> QED
    BY <1>4, <1>6, <2>2, <2>3, <2>4, <2>5 DEF OnItsWay, Coming, InSeq, OnBus
<1> QED
  BY <1>4, <1>5, <1>6, <1>7, <1>8, <1>10, GeneratorKeeps

\* The head of the queue is shown, now or before.
LEMMA TakeSafe == ASSUME StreamInv, Take PROVE StreamInv'
<1> DEFINE new == {e \in {Head(stream.queue)} : ~InSeq(e, stream.seen)}
           kept == Remember(stream.seen, new)
           first == Head(stream.queue)
           rest == Tail(stream.queue)
<1>1. stream.queue \in Seq(Event) /\ stream.queue # <<>>
  BY StreamFields DEF StreamInv, Take
<1>2. /\ first \in Event /\ first = stream.queue[1]
      /\ rest \in Seq(Event) /\ Len(rest) = Len(stream.queue) - 1
      /\ \A i \in 1..Len(rest) : rest[i] = stream.queue[i + 1]
  BY <1>1, HeadTailProperties
<1>3. new \in SUBSET Event
  BY <1>2
<1>4. kept \in Seq(Event) /\ \A e \in Event : InSeq(e, kept) => InSeq(e, stream.seen) \/ e \in new
  BY <1>3, RememberKeeps, StreamFields DEF StreamInv
<1>5. /\ stream' \in Stream
      /\ stream'.listing = stream.listing /\ stream'.cursor = stream.cursor
      /\ stream'.seen = kept /\ stream'.queue = rest
      /\ stream'.lagged = stream.lagged /\ stream'.sure = stream.sure
  <2>1. /\ stream \in Stream
        /\ stream' = [stream EXCEPT !.pc = "checks", !.queue = rest, !.seen = kept]
    BY DEF StreamInv, TypeOK, Take
  <2> HIDE DEF rest, kept
  <2> QED
    BY <1>2, <1>4, <2>1 DEF Stream
<1>6. client' \in Client /\ client'.shown = client.shown \cup new
  <2>1. Received(new)
    BY DEF Take
  <2> HIDE DEF new
  <2> QED
    BY <1>3, <2>1, ReceivedTyped DEF StreamInv
<1>7. OutboxInv' /\ UNCHANGED <<stored, bus, hub>>
  BY SameOutbox DEF StreamInv, Take, outbox
<1>8. /\ Len(stream'.queue) <= QueueSize /\ (stream'.sure => hub.start > 0) /\ ListsAhead'
  <2>1. Len(stream.queue) \in Nat /\ Len(stream.queue) <= QueueSize /\ QueueSize \in Nat
    BY StreamFields, EventNumbers DEF StreamInv
  <2> QED
    BY <1>2, <1>5, <2>1 DEF StreamInv, HubInv, ListsAhead
<1>9. \A e \in new : e \in client'.shown
  BY <1>6
<1>10. first \in client'.shown
  BY <1>2, <1>6 DEF StreamInv, SeenIsShown
<1> HIDE DEF new, kept, rest, first
<1>11. SeenIsShown'
  BY <1>4, <1>5, <1>6 DEF StreamInv, SeenIsShown, InSeq, Event
<1>12. NoneMissed'
  <2> SUFFICES ASSUME stream.sure, NEW e \in stored \ (client'.shown \cup Unpublishable)
               PROVE  OnItsWay(e)'
    BY <1>5, <1>7 DEF NoneMissed
  <2>1. OnItsWay(e)
    BY <1>6 DEF StreamInv, NoneMissed, Take
  <2>2. e # first /\ stream.pc # "lists"
    BY <1>10 DEF Take
  <2>3. ASSUME InSeq(e, stream.queue) PROVE InSeq(e, rest)
    <3>1. PICK i \in 1..Len(stream.queue) : stream.queue[i] = e
      BY <2>3 DEF InSeq
    <3>2. i # 1
      BY <1>2, <2>2, <3>1
    <3>3. i - 1 \in 1..Len(rest) /\ (i - 1) + 1 = i
      BY <1>1, <1>2, <3>1, <3>2
    <3>4. rest[i - 1] = e
      BY <1>2, <3>1, <3>3
    <3> QED
      BY <3>3, <3>4 DEF InSeq
  <2>4. ASSUME InSeq(e, rest) PROVE InSeq(e, stream.queue)'
    BY <1>5, <2>4 DEF InSeq
  <2> QED
    BY <1>5, <1>7, <2>1, <2>2, <2>3, <2>4 DEF OnItsWay, Coming, OnBus
<1> QED
  BY <1>5, <1>6, <1>7, <1>8, <1>11, <1>12, GeneratorKeeps

LEMMA ClosedStream ==
  /\ Closed \in Stream /\ Closed.pc = "closed" /\ Closed.queue = <<>> /\ Closed.listing = {}
  /\ Closed.seen = <<>> /\ ~Closed.sure
<1>1. 0 \in 0..MaxEvents /\ {} \in SUBSET Event /\ <<>> \in Seq(Event)
  BY NothingInEmpty, EventNumbers
<1> DEFINE open == Listening(0, FALSE)
<1>2. /\ open \in Stream /\ open.queue = <<>> /\ open.listing = {} /\ open.seen = <<>>
      /\ open.sure = FALSE
  BY <1>1 DEF Listening, Stream
<1>3. Closed = [open EXCEPT !.pc = "closed"]
  BY DEF Closed
<1> HIDE DEF open
<1> QED
  BY <1>2, <1>3 DEF Stream

LEMMA BreaksSafe == ASSUME StreamInv, Breaks PROVE StreamInv'
<1>1. stream' = Closed
  BY DEF Breaks
<1>2. client' \in Client
  <2>1. CASE UNCHANGED client
    BY <2>1 DEF StreamInv, TypeOK
  <2>2. ASSUME NEW e \in Fresh, Received({d \in Fresh : d < e}) PROVE client' \in Client
    <3>1. {d \in Fresh : d < e} \in SUBSET Event
      BY StreamFields DEF StreamInv, Fresh
    <3> QED
      BY <2>2, <3>1, ReceivedTyped DEF StreamInv
  <2> QED
    BY <2>1, <2>2 DEF Breaks
<1>3. OutboxInv' /\ UNCHANGED <<stored, bus, hub>>
  BY FaultSafe DEF StreamInv, Breaks
<1>4. SeenIsShown' /\ ListsAhead' /\ NoneMissed'
  BY <1>1, ClosedStream DEF SeenIsShown, ListsAhead, NoneMissed, InSeq, Event
<1> QED
  BY <1>1, <1>2, <1>3, <1>4, ClosedStream, NothingInEmpty, EventNumbers, GeneratorKeeps

-----------------------------------------------------------------------------
(* No event is missed *)

LEMMA StreamInvInit == Init => StreamInv
<1> SUFFICES ASSUME Init PROVE StreamInv
  OBVIOUS
<1>1. OutboxInv
  BY OutboxInvInit DEF Init
<1>2. hub \in Hub /\ hub.start = 0 /\ ~hub.connected
  BY DEF Init, Hub
<1>3. client \in Client
  <2>1. [e \in Event |-> 0] \in [Event -> 0..2] /\ 0 \in 0..MaxEvents
    BY EventNumbers
  <2> QED
    BY <2>1 DEF Init, Client
<1>4. stream = Closed
  BY DEF Init
<1>5. TypeOK
  BY <1>1, <1>2, <1>3, <1>4, ClosedStream, NothingInEmpty, EventNumbers DEF TypeOK, OutboxInv
<1>6. HubInv
  BY <1>2, <1>4, ClosedStream DEF HubInv
<1>7. SeenIsShown /\ ListsAhead /\ NoneMissed
  BY <1>4, ClosedStream DEF SeenIsShown, ListsAhead, NoneMissed, InSeq
<1> QED
  BY <1>1, <1>5, <1>6, <1>7 DEF StreamInv

LEMMA StreamInvStep == StreamInv /\ [Next]_vars => StreamInv'
<1> SUFFICES ASSUME StreamInv, [Next]_vars PROVE StreamInv'
  OBVIOUS
<1>1. CASE UNCHANGED vars
  <2>1. OutboxInv'
    BY <1>1, SameOutbox DEF StreamInv, vars
  <2>2. hub' \in Hub /\ HubInv' /\ UNCHANGED <<stored, bus, stream, client>> /\ hub'.fed = hub.fed
    BY <1>1 DEF StreamInv, TypeOK, HubInv, vars, outbox
  <2> QED
    BY <2>1, <2>2, HubKeepsStream
<1>2. CASE Next
  BY <1>2, OutboxKeepsStream, SubscribeSafe, ConnectionSafe, DispatchSafe, OpenSafe, CatchesUpSafe,
     ChecksSafe, ListsSafe, ShowsSafe, TakeSafe, BreaksSafe DEF Next, HubNext, StreamNext
<1> QED
  BY <1>1, <1>2

\* The inductive invariant: what a stream was offered, has queued and will list covers
\* every committed event it has not sent (RealtimeHub.dispatch, live_event_source).
THEOREM StreamInvHolds == Spec => []StreamInv
BY StreamInvInit, StreamInvStep, PTL DEF Spec

\* However the queue overflows and is drained, the connection is lost and comes back and
\* relays race, an open stream that has listed the history since its process subscribed
\* misses no committed event but behind its cursor (live_event_source drains the queue
\* before it lists, RealtimeListener.offer marks the lag).
THEOREM StreamsMissNothingElse == Spec => []NothingElseMissed
<1>1. StreamInv => NothingElseMissed
  BY DEF StreamInv, NoneMissed, OnItsWay, NothingElseMissed
<1> QED
  BY <1>1, StreamInvHolds, PTL

-----------------------------------------------------------------------------
(* No event is sent twice *)

\* What this connection has received.
Got == {e \in Event : client.frames[e] > 0}

\* As long as the connection has not received more than it remembers, what it remembers
\* is what it received, each event once.
Recalled ==
  Cardinality(Got) <= SeenLimit =>
    /\ \A e \in Event : client.frames[e] < 2
    /\ stream.pc # "closed" =>
         /\ Len(stream.seen) = Cardinality(Got)
         /\ \A e \in Event : InSeq(e, stream.seen) <=> e \in Got

\* Sending what is not remembered adds it to what was received.
LEMMA SendsNew ==
  ASSUME StreamInv, Recalled, stream.pc # "closed", NEW S \in SUBSET Event,
         \A e \in S : ~InSeq(e, stream.seen), Received(S), Cardinality(Got') <= SeenLimit
  PROVE  /\ \A e \in Event : client'.frames[e] < 2
         /\ Len(stream.seen) + Cardinality(S) = Cardinality(Got')
         /\ \A e \in Event : InSeq(e, stream.seen) \/ e \in S <=> e \in Got'
<1>1. /\ client.frames \in [Event -> 0..2]
      /\ \A e \in Event : client'.frames[e] = IF e \in S /\ client.frames[e] < 2
                                              THEN client.frames[e] + 1 ELSE client.frames[e]
  BY ReceivedTyped, StreamFields DEF StreamInv
<1>2. Got' = {e \in Event : client'.frames[e] > 0}
  BY DEF Got, Event
<1>3. Got' = Got \cup S
  <2>1. ASSUME NEW e \in Event PROVE client'.frames[e] > 0 <=> e \in Got \/ e \in S
    <3>1. client.frames[e] \in 0..2
      BY <1>1
    <3> QED
      BY <1>1, <3>1 DEF Got
  <2>2. Got \subseteq Event
    BY DEF Got
  <2> QED
    BY <1>2, <2>1, <2>2
<1>4. /\ IsFiniteSet(Got) /\ IsFiniteSet(S) /\ Cardinality(Got) \in Nat
      /\ Cardinality(S) \in Nat
  <2>1. Got \in SUBSET Event
    BY DEF Got
  <2> QED
    BY <2>1, EventNumbers
<1>5. Cardinality(Got) <= SeenLimit
  <2>1. Got \subseteq Got \cup S /\ IsFiniteSet(Got \cup S)
    BY <1>4, FS_Union
  <2>2. Cardinality(Got) <= Cardinality(Got \cup S) /\ Cardinality(Got \cup S) \in Nat
    BY <2>1, FS_Subset, FS_CardinalityType
  <2> QED
    BY <1>3, <1>4, <2>2, EventNumbers
<1>6. /\ \A e \in Event : client.frames[e] < 2
      /\ Len(stream.seen) = Cardinality(Got)
      /\ \A e \in Event : InSeq(e, stream.seen) <=> e \in Got
  BY <1>5 DEF Recalled
<1>7. Got \cap S = {}
  BY <1>6
<1>8. Cardinality(Got \cup S) = Cardinality(Got) + Cardinality(S)
  <2>1. Cardinality(Got \cup S)
        = Cardinality(Got) + Cardinality(S) - Cardinality(Got \cap S)
    BY <1>4, FS_Union
  <2>2. Cardinality(Got \cap S) = 0
    BY <1>7, FS_EmptySet
  <2> QED
    BY <1>4, <2>1, <2>2
<1>9. ASSUME NEW e \in Event PROVE client'.frames[e] < 2
  <2>1. CASE e \in S
    <3>1. e \notin Got /\ client.frames[e] \in 0..2
      BY <1>1, <1>7, <2>1
    <3>2. client.frames[e] = 0
      BY <3>1 DEF Got
    <3> QED
      BY <1>1, <3>2
  <2>2. CASE e \notin S
    BY <1>1, <1>6, <2>2
  <2> QED
    BY <2>1, <2>2
<1> QED
  BY <1>3, <1>6, <1>8, <1>9

\* What is remembered next is what was received next.
LEMMA RemembersNew ==
  ASSUME StreamInv, Recalled, stream.pc # "closed", NEW S \in SUBSET Event,
         \A e \in S : ~InSeq(e, stream.seen), Received(S),
         stream'.seen = Remember(stream.seen, S)
  PROVE  Recalled'
<1> SUFFICES ASSUME Cardinality(Got') <= SeenLimit
             PROVE  /\ \A e \in Event : client'.frames[e] < 2
                    /\ Len(stream'.seen) = Cardinality(Got')
                    /\ \A e \in Event : InSeq(e, stream'.seen) <=> e \in Got'
  BY DEF Recalled, InSeq, Event
<1>1. /\ \A e \in Event : client'.frames[e] < 2
      /\ Len(stream.seen) + Cardinality(S) = Cardinality(Got')
      /\ \A e \in Event : InSeq(e, stream.seen) \/ e \in S <=> e \in Got'
  BY SendsNew
<1>2. stream.seen \in Seq(Event)
  BY StreamFields DEF StreamInv
<1>3. /\ Len(Remember(stream.seen, S)) = Len(stream.seen) + Cardinality(S)
      /\ \A e \in Event : InSeq(e, Remember(stream.seen, S)) <=> InSeq(e, stream.seen) \/ e \in S
  BY <1>1, <1>2, RememberKeeps
<1> QED
  BY <1>1, <1>3

\* The frames and the memory stay, or the stream closes with the frames as they are.
LEMMA SameFrames ==
  ASSUME Recalled, client'.frames = client.frames,
         stream'.pc # "closed" => stream.pc # "closed" /\ stream'.seen = stream.seen
  PROVE  Recalled'
<1>1. Got' = Got
  BY DEF Got, Event
<1> QED
  BY <1>1 DEF Recalled, InSeq, Event

LEMMA RecalledInit == Init => Recalled
<1> SUFFICES ASSUME Init PROVE Recalled
  OBVIOUS
<1>1. \A e \in Event : client.frames[e] = 0
  BY DEF Init
<1>2. stream.pc = "closed"
  BY ClosedStream DEF Init
<1> QED
  BY <1>1, <1>2 DEF Recalled

LEMMA RecalledStep == StreamInv /\ Recalled /\ [Next]_vars => Recalled'
<1> SUFFICES ASSUME StreamInv, Recalled, [Next]_vars PROVE Recalled'
  OBVIOUS
<1>1. CASE UNCHANGED streaming
  BY <1>1, SameFrames DEF streaming
<1>2. CASE Subscribe \/ ConnectionDrops \/ Reconnects \/ Mirror
  BY <1>2, SameFrames DEF Subscribe, ConnectionDrops, Reconnects, Mirror
<1>3. CASE Dispatch
  <2>1. stream \in Stream
    BY DEF StreamInv, TypeOK
  <2>2. stream'.pc = stream.pc /\ stream'.seen = stream.seen
    <3>1. CASE stream.pc = "closed"
      BY <1>3, <3>1 DEF Dispatch, Offered
    <3>2. CASE stream.pc # "closed" /\ Len(stream.queue) = QueueSize
      BY <1>3, <2>1, <3>2 DEF Dispatch, Offered, Stream
    <3>3. CASE stream.pc # "closed" /\ Len(stream.queue) # QueueSize
      <4>1. stream' = [stream EXCEPT !.queue = Append(@, bus[hub.fed])]
        BY <1>3, <3>3 DEF Dispatch, Offered
      <4> QED
        BY <2>1, <4>1 DEF Stream
    <3> QED
      BY <3>1, <3>2, <3>3
  <2> QED
    BY <1>3, <2>2, SameFrames DEF Dispatch
<1>4. CASE Open
  <2>1. stream'.seen = <<>>
    BY <1>4 DEF Open, Listening
  <2>2. \A e \in Event : client'.frames[e] = 0
    BY <1>4 DEF Open, StreamInv, TypeOK, Client
  <2>3. Got' = {} /\ Cardinality({}) = 0
    BY <2>2, FS_EmptySet DEF Got, Event
  <2>4. Len(stream'.seen) = 0 /\ \A e : ~InSeq(e, stream'.seen)
    BY <2>1, NothingInEmpty
  <2> QED
    BY <2>2, <2>3, <2>4 DEF Recalled, InSeq, Event
<1>5. CASE CatchesUp \/ UpToDate \/ Lists \/ Idles
  <2>1. stream \in Stream
    BY DEF StreamInv, TypeOK
  <2>2. stream.pc # "closed" /\ stream'.seen = stream.seen /\ client' = client
    BY <1>5, <2>1 DEF CatchesUp, UpToDate, Lists, Idles, Stream
  <2> QED
    BY <2>2, SameFrames
<1>6. CASE Shows
  <2>1. stream'.seen = Remember(stream.seen, Fresh)
    <3>1. stream \in Stream
      BY DEF StreamInv, TypeOK
    <3> QED
      BY <1>6, <3>1 DEF Shows, Stream
  <2>2. Fresh \in SUBSET Event /\ \A e \in Fresh : ~InSeq(e, stream.seen)
    BY StreamFields DEF StreamInv, Fresh
  <2> QED
    BY <1>6, <2>1, <2>2, RemembersNew DEF Shows
<1>7. CASE Take
  <2> DEFINE new == {e \in {Head(stream.queue)} : ~InSeq(e, stream.seen)}
  <2>1. stream'.seen = Remember(stream.seen, new) /\ Received(new) /\ stream.pc # "closed"
    <3>1. stream \in Stream
      BY DEF StreamInv, TypeOK
    <3>2. stream' = [stream EXCEPT !.pc = "checks", !.queue = Tail(@), !.seen = Remember(@, new)]
      BY <1>7 DEF Take
    <3> QED
      BY <1>7, <3>1, <3>2 DEF Take, Stream
  <2>2. new \in SUBSET Event /\ \A e \in new : ~InSeq(e, stream.seen)
    <3>1. stream.queue \in Seq(Event) /\ stream.queue # <<>>
      BY <1>7, StreamFields DEF StreamInv, Take
    <3>2. Head(stream.queue) \in Event
      BY <3>1, HeadTailProperties
    <3> QED
      BY <3>2
  <2> HIDE DEF new
  <2> QED
    BY <2>1, <2>2, RemembersNew
<1>8. CASE Breaks
  <2>1. stream'.pc = "closed"
    BY <1>8, ClosedStream DEF Breaks
  <2>2. CASE UNCHANGED client
    BY <2>1, <2>2, SameFrames
  <2>3. ASSUME NEW last \in Fresh, Received({e \in Fresh : e < last}) PROVE Recalled'
    <3> DEFINE S == {e \in Fresh : e < last}
    <3>1. S \in SUBSET Event /\ (\A e \in S : ~InSeq(e, stream.seen)) /\ Received(S)
      BY <2>3, StreamFields DEF StreamInv, Fresh
    <3>2. stream.pc # "closed"
      BY <1>8 DEF Breaks
    <3> HIDE DEF S
    <3>3. Cardinality(Got') <= SeenLimit => \A e \in Event : client'.frames[e] < 2
      BY <3>1, <3>2, SendsNew
    <3> QED
      BY <2>1, <3>3 DEF Recalled, Event
  <2> QED
    BY <1>8, <2>2, <2>3 DEF Breaks
<1> QED
  BY <1>1, <1>2, <1>3, <1>4, <1>5, <1>6, <1>7, <1>8
     DEF Next, HubNext, StreamNext, vars, streaming

\* A connection never receives an event twice, whatever the bus delivers again and the
\* history repeats, until it has received more than _RecentIds remembers.
THEOREM StreamsSendOnce == Spec => []SentOnce
<1>1. Recalled => SentOnce
  BY DEF Recalled, Got, SentOnce
<1> QED
  BY <1>1, RecalledInit, RecalledStep, StreamInvHolds, PTL DEF Spec
=============================================================================
