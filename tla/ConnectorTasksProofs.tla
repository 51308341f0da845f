------------------------- MODULE ConnectorTasksProofs -------------------------
(***************************************************************************)
(* Theorems about ConnectorTasks, on top of those about TaskRuns: a sender *)
(* that saves its own copy, and a draft that retires its task, leave rows  *)
(* of the same kind as the task routes do, and although they may write     *)
(* over what a request did (RunsInv does not hold here), every handler     *)
(* call still has an authority of its own.                                 *)
(***************************************************************************)
EXTENDS ConnectorTasks, TaskRunsProofs

LEMMA ProposeTypes ==
  ASSUME NEW checkpoint \in Run, ProposeTask(checkpoint), checkpoint.approval \in 0..1
  PROVE  /\ StoreTypeOK /\ req \in [Reqs -> Req] /\ acts \in [RunId -> Nat]
<1>1. task \in Task
  BY StatusTypes DEF ProposeTask, Task, Run
<1>2. runs \in [RunId -> Run]
  BY CheckpointTypes DEF ProposeTask
<1>3. approvals \in [ApprovalId -> Approval]
  <2>1. checkpoint.call \in Nat /\ 1 \in RunId
    BY BoundTypes DEF Run
  <2>2. ASSUME NEW status \in {"pending", "expired"}
        PROVE  [status |-> status, run |-> 1, call |-> checkpoint.call, lapsed |-> FALSE]
                 \in Approval
    BY <2>1 DEF Approval, ApprovalStatus
  <2> QED
    BY <2>2 DEF ProposeTask
<1>4. latest \in 0..MaxRuns /\ asked \in 0..MaxApprovals
  BY BoundTypes DEF ProposeTask, Run
<1>5. req \in [Reqs -> Req] /\ acts \in [RunId -> Nat]
  BY IdleIsReq DEF ProposeTask
<1> QED
  BY <1>1, <1>2, <1>3, <1>4, <1>5 DEF StoreTypeOK

LEMMA ConnTypeInit == ConnInit => ConnTypeOK
<1> SUFFICES ASSUME ConnInit PROVE ConnTypeOK
  OBVIOUS
<1>1. Proposed(NewRun) \in Run /\ Proposed(NewRun).approval = 0
  BY CheckpointTypes DEF Proposed, NewRun
<1>2. CASE ProposeAllowed
  <2> DEFINE checkpoint == Executing(Proposed(NewRun))
  <2>1. checkpoint \in Run /\ checkpoint.approval = 0
    BY <1>1, CheckpointTypes DEF Executing, Run
  <2>2. ProposeTask(checkpoint) /\ allowed = {1} /\ held = 0
        /\ sender = [pc |-> "sending", run |-> checkpoint]
    BY <1>2 DEF ProposeAllowed
  <2> HIDE DEF checkpoint
  <2> QED
    BY <2>1, <2>2, ProposeTypes, BoundTypes DEF ConnTypeOK, TypeOK, Sender, SenderPc
<1>3. CASE ProposeHeld
  <2> DEFINE checkpoint == Waiting(Proposed(NewRun), 1)
  <2>1. 1 \in 0..MaxApprovals
    BY <1>3, BoundTypes DEF ProposeHeld
  <2>2. checkpoint \in Run /\ checkpoint.approval = 1
    BY <1>1, <2>1, CheckpointTypes DEF Waiting, Run
  <2>3. ProposeTask(checkpoint) /\ allowed = {} /\ held = 1
        /\ sender = [pc |-> "done", run |-> checkpoint]
    BY <1>3 DEF ProposeHeld
  <2> HIDE DEF checkpoint
  <2> QED
    BY <2>1, <2>2, <2>3, ProposeTypes DEF ConnTypeOK, TypeOK, Sender, SenderPc
<1>4. CASE ProposeBlocked
  <2> DEFINE checkpoint == EndedAs(Proposed(NewRun), "failed")
  <2>1. checkpoint \in Run /\ checkpoint.approval = 0
    BY <1>1, CheckpointTypes DEF EndedAs, Run, Ended
  <2>2. ProposeTask(checkpoint) /\ allowed = {} /\ held = 0
        /\ sender = [pc |-> "done", run |-> checkpoint]
    BY <1>4 DEF ProposeBlocked
  <2> HIDE DEF checkpoint
  <2> QED
    BY <2>1, <2>2, ProposeTypes, BoundTypes DEF ConnTypeOK, TypeOK, Sender, SenderPc
<1> QED
  BY <1>2, <1>3, <1>4 DEF ConnInit

LEMMA SaveOwnTypes ==
  ASSUME ConnTypeOK, NEW r \in Run, SaveOwnCopy(r)
  PROVE  TypeOK' /\ held' \in 0..MaxApprovals
<1>1. runs' \in [RunId -> Run]
  BY BoundTypes DEF SaveOwnCopy, ConnTypeOK, TypeOK, StoreTypeOK
<1>2. task' \in Task
  BY StatusTypes DEF SaveOwnCopy, Task, Run
<1> QED
  BY <1>1, <1>2 DEF SaveOwnCopy, ConnTypeOK, TypeOK, StoreTypeOK

LEMMA RetireTypes == ASSUME ConnTypeOK, Retire PROVE ConnTypeOK'
<1>1. task' \in Task
  BY TaskFields DEF Retire, ConnTypeOK, TypeOK, StoreTypeOK, Task, TaskStatus, Ended
<1>2. runs' \in [RunId -> Run]
  <2>1. \A i \in RunId : EndedAs(runs[i], "cancelled") \in Run
    BY CheckpointTypes DEF ConnTypeOK, TypeOK, StoreTypeOK, Ended
  <2> QED
    BY <2>1 DEF Retire, ConnTypeOK, TypeOK, StoreTypeOK
<1>3. approvals' \in [ApprovalId -> Approval]
  BY DEF Retire, ConnTypeOK, TypeOK, StoreTypeOK, Approval, ApprovalStatus
<1>4. req' \in [Reqs -> Req]
  BY DEF Retire, MarkClaims, ConnTypeOK, TypeOK, Req
<1> QED
  BY <1>1, <1>2, <1>3, <1>4 DEF Retire, ConnTypeOK, TypeOK, StoreTypeOK

LEMMA ConnTypeStep == ConnTypeOK /\ [ConnNext]_connVars => ConnTypeOK'
<1> SUFFICES ASSUME ConnTypeOK, [ConnNext]_connVars PROVE ConnTypeOK'
  OBVIOUS
<1>1. CASE SendReturns
  BY <1>1, BoundTypes DEF SendReturns, ConnTypeOK, TypeOK, StoreTypeOK, store, Sender, SenderPc
<1>2. CASE SettleSend
  <2>1. PICK phase \in {"completed", "failed"} :
          /\ SaveOwnCopy(EndedAs(sender.run, phase))
          /\ sender' = [pc |-> IF sender.pc = "settling" THEN "saving" ELSE "done",
                        run |-> EndedAs(sender.run, phase)]
    BY <1>2 DEF SettleSend
  <2>2. EndedAs(sender.run, phase) \in Run
    BY CheckpointTypes DEF ConnTypeOK, Sender, Ended
  <2> QED
    BY <2>1, <2>2, SaveOwnTypes DEF ConnTypeOK, Sender, SenderPc
<1>3. CASE SaveSend
  <2>1. sender.run \in Run /\ sender' \in Sender
    BY <1>3 DEF SaveSend, ConnTypeOK, Sender, SenderPc
  <2>2. CASE SaveOwnCopy(sender.run)
    BY <2>1, <2>2, SaveOwnTypes DEF ConnTypeOK
  <2>3. CASE UNCHANGED <<vars, held>>
    BY <2>1, <2>3 DEF vars, store, ConnTypeOK, TypeOK, StoreTypeOK
  <2> QED
    BY <1>3, <2>2, <2>3 DEF SaveSend
<1>4. CASE SenderDies
  BY <1>4 DEF SenderDies, vars, store, ConnTypeOK, TypeOK, StoreTypeOK, Sender, SenderPc
<1>5. CASE Retire
  BY <1>5, RetireTypes
<1>6. CASE Next /\ UNCHANGED <<sender, held>>
  BY <1>6, TypeStep DEF ConnTypeOK
<1>7. CASE UNCHANGED connVars
  BY <1>7 DEF connVars, vars, store, ConnTypeOK, TypeOK, StoreTypeOK
<1> QED
  BY <1>1, <1>2, <1>3, <1>4, <1>5, <1>6, <1>7 DEF ConnNext

\* The sender's own copy and what a draft remembers stay rows the routes can read
\* (finish_execution_in_units, _retire_merge_task).
THEOREM ConnTypeCorrect == ConnSpec => []ConnTypeOK
BY ConnTypeInit, ConnTypeStep, PTL DEF ConnSpec

-----------------------------------------------------------------------------
(* Authorities, with the go-ahead for run 1 in the hands of the sender *)

SendersAuthority == {<<1, 0>>}

ConnInv ==
  /\ ConnTypeOK
  /\ sender.pc = "sending" => CallsBacked(SendersAuthority)
  /\ sender.pc # "sending" => CallsBacked({})

LEMMA ConnInvInit == ConnInit => ConnInv
<1> SUFFICES ASSUME ConnInit PROVE ConnInv
  OBVIOUS
<1>1. ConnTypeOK /\ TypeOK /\ StoreTypeOK
  BY ConnTypeInit DEF ConnTypeOK, TypeOK
<1>2. /\ latest = 1 /\ acts = [i \in RunId |-> 0] /\ \A r \in Reqs : req[r].pc = "idle"
      /\ \A i \in allowed : i = 1
      /\ sender.pc = "sending" => 1 \in allowed
  BY DEF ConnInit, ProposeAllowed, ProposeHeld, ProposeBlocked, ProposeTask, Idle
<1>3. ASSUME NEW others, CallsPaid(others),
             \A i \in RunId, a \in 0..MaxApprovals : <<i, a>> \in others => a \in Authorities(i)
      PROVE  CallsBacked(others)
  BY <1>2, <1>3 DEF CallsBacked, AuthoritiesHeld, Under
<1>4. \A others : CallsPaid(others)
  <2>1. \A others : \A i \in RunId :
          acts[i] = 0 /\ Cardinality(Authorities(i) \ Used(others, i)) \in Nat
    BY <1>1, <1>2, AuthoritiesFinite
  <2> QED
    BY <2>1 DEF CallsPaid
<1>5. sender.pc = "sending" => 0 \in Authorities(1)
  BY <1>2 DEF Authorities
<1> QED
  BY <1>1, <1>3, <1>4, <1>5 DEF ConnInv, SendersAuthority

\* The sender gives its authority up ...
LEMMA GivesUp ==
  ASSUME StoreTypeOK, TypeOK, CallsBacked(SendersAuthority)
  PROVE  CallsBacked({})
<1>1. AuthoritiesHeld({})
  BY DEF CallsBacked, AuthoritiesHeld
<1>2. CallsPaid({})
  <2> SUFFICES ASSUME NEW i \in RunId
               PROVE  acts[i] <= Cardinality(Authorities(i) \ Used({}, i))
    BY DEF CallsPaid
  <2> DEFINE S == Authorities(i) \ Used(SendersAuthority, i)
             T == Authorities(i) \ Used({}, i)
  <2>1. S \subseteq T /\ acts[i] <= Cardinality(S) /\ acts[i] \in Nat
    BY DEF CallsBacked, CallsPaid, Used, TypeOK
  <2>2. Cardinality(S) \in Nat /\ IsFiniteSet(T) /\ Cardinality(T) \in Nat
    BY AuthoritiesFinite
  <2> HIDE DEF S, T
  <2>3. Cardinality(S) <= Cardinality(T)
    BY <2>1, <2>2, FS_Subset
  <2>4. acts[i] <= Cardinality(T)
    BY <2>1, <2>2, <2>3
  <2> QED
    BY <2>4 DEF T
<1> QED
  BY <1>1, <1>2 DEF CallsBacked

\* ... or uses it up.
LEMMA SendBacked ==
  ASSUME TypeOK, CallsBacked(SendersAuthority), acts' = [acts EXCEPT ![1] = @ + 1],
         UNCHANGED <<store, req, allowed>>
  PROVE  CallsBacked({})'
<1>1. /\ StoreTypeOK /\ acts \in [RunId -> Nat] /\ UNCHANGED <<approvals, asked, latest>>
      /\ 1 \in RunId /\ 0 \in 0..MaxApprovals
  BY BoundTypes DEF TypeOK, store
<1>2. \A s \in Reqs : \A i, a : Under(s, i, a)' = Under(s, i, a)
  BY DEF Under
<1>3. \A i : Authorities(i)' = Authorities(i)
  BY <1>1 DEF Authorities
<1>4. AuthoritiesHeld({})'
  <2>1. AuthoritiesHeld({})
    BY DEF CallsBacked, AuthoritiesHeld
  <2> QED
    BY <1>1, <1>2, <1>3, <2>1 DEF AuthoritiesHeld
<1>5. 0 \in Authorities(1) /\ <<1, 0>> \in SendersAuthority
  BY <1>1 DEF CallsBacked, AuthoritiesHeld, SendersAuthority
<1>6. 0 \in Used(SendersAuthority, 1) /\ 0 \notin Used({}, 1)'
  <2>1. \A s \in Reqs : ~Under(s, 1, 0)
    BY <1>1, <1>5 DEF CallsBacked, AuthoritiesHeld
  <2> QED
    BY <1>1, <1>2, <1>5, <2>1 DEF Used
<1>7. \A j \in RunId : Used({}, j)' \subseteq Used(SendersAuthority, j)
  BY <1>2 DEF Used
<1>8. CallsPaid({})'
  BY <1>1, <1>5, <1>6, <1>7, PaidByHolder DEF CallsBacked
<1> QED
  BY <1>4, <1>8 DEF CallsBacked

\* Steps of the sender and the draft that touch no request and no authority.
LEMMA ConnKeptBacked ==
  ASSUME ConnInv, ConnTypeOK', DecisionsStand, MemoryKept, UNCHANGED <<acts, allowed, latest>>,
         sender'.pc = "sending" => sender.pc = "sending"
  PROVE  ConnInv'
<1>1. TypeOK /\ TypeOK' /\ StoreTypeOK'
  BY DEF ConnInv, ConnTypeOK, TypeOK
<1>2. \A others : CallsBacked(others) => \A i \in allowed' : i <= latest'
  BY DEF CallsBacked, AuthoritiesHeld
<1>3. CallsBacked(SendersAuthority) => CallsBacked(SendersAuthority)'
  BY <1>1, <1>2, KeptBacked DEF SendersAuthority
<1>4. CallsBacked({}) => CallsBacked({})'
  BY <1>1, <1>2, KeptBacked
<1>5. CASE sender.pc = "sending" /\ sender'.pc # "sending"
  <2>1. CallsBacked({})
    BY <1>1, <1>5, GivesUp DEF ConnInv, TypeOK
  <2> QED
    BY <1>4, <1>5, <2>1 DEF ConnInv
<1>6. CASE ~(sender.pc = "sending" /\ sender'.pc # "sending")
  BY <1>3, <1>4, <1>6 DEF ConnInv
<1> QED
  BY <1>5, <1>6

LEMMA ConnInvStep == ConnInv /\ [ConnNext]_connVars => ConnInv'
<1> SUFFICES ASSUME ConnInv, [ConnNext]_connVars PROVE ConnInv'
  OBVIOUS
<1>1. ConnTypeOK /\ ConnTypeOK' /\ TypeOK /\ TypeOK' /\ StoreTypeOK /\ sender \in Sender
  BY ConnTypeStep DEF ConnInv, ConnTypeOK, TypeOK
<1>2. ASSUME UNCHANGED <<latest, approvals, asked, req, acts, allowed>>,
             sender'.pc = "sending" => sender.pc = "sending"
      PROVE  ConnInv'
  <2>1. DecisionsStand
    BY <1>1, <1>2, KeptStands, BoundTypes DEF KeepApprovals, StoreTypeOK
  <2>2. MemoryKept
    BY <1>2 DEF MemoryKept, Works
  <2> QED
    BY <1>1, <1>2, <2>1, <2>2, ConnKeptBacked
<1>3. CASE SendReturns
  <2>1. sender.pc = "sending" /\ sender'.pc # "sending"
    BY <1>1, <1>3 DEF SendReturns, Sender
  <2>2. CallsBacked({})'
    BY <1>1, <1>3, <2>1, SendBacked DEF SendReturns, ConnInv
  <2> QED
    BY <1>1, <2>1, <2>2 DEF ConnInv
<1>4. CASE SettleSend \/ SaveSend \/ SenderDies
  <2>1. UNCHANGED <<latest, approvals, asked, req, acts, allowed>>
    BY <1>4 DEF SettleSend, SaveSend, SenderDies, SaveOwnCopy, vars, store
  <2>2. sender'.pc # "sending"
    BY <1>1, <1>4 DEF SettleSend, SaveSend, SenderDies, Sender
  <2> QED
    BY <1>2, <2>1, <2>2
<1>5. CASE Retire
  <2>1. MarkClaims /\ UNCHANGED <<latest, asked, acts, allowed, sender>>
    BY <1>5 DEF Retire
  <2>2. \A a \in ApprovalId : approvals[a].status = "approved" => approvals'[a] = approvals[a]
    BY <1>5 DEF Retire, Pending
  <2>3. DecisionsStand
    <3>1. asked \in Nat /\ latest \in Nat /\ 1..asked \subseteq ApprovalId
      BY <1>1, BoundTypes DEF StoreTypeOK, ApprovalId
    <3> QED
      BY <2>1, <2>2, <3>1 DEF DecisionsStand
  <2> QED
    BY <1>1, <2>1, <2>3, MarkClaimsMemory, ConnKeptBacked
<1>6. CASE Next /\ UNCHANGED <<sender, held>>
  <2>1. CallsBacked(SendersAuthority) => CallsBacked(SendersAuthority)'
    BY <1>1, <1>6, CallsBackedStep DEF SendersAuthority
  <2>2. CallsBacked({}) => CallsBacked({})'
    BY <1>1, <1>6, CallsBackedStep
  <2> QED
    BY <1>1, <1>6, <2>1, <2>2 DEF ConnInv
<1>7. CASE UNCHANGED connVars
  BY <1>2, <1>7 DEF connVars, vars, store
<1> QED
  BY <1>3, <1>4, <1>5, <1>6, <1>7 DEF ConnNext

LEMMA ConnInvHolds == ConnSpec => []ConnInv
BY ConnInvInit, ConnInvStep, PTL DEF ConnSpec

\* A direct send reaches its tool once for policy's go-ahead, and a held one once for the
\* approval its draft remembers, although the sender saves its own copies over the rows
\* the routes changed (runtime.finish_execution_in_units, email_api._retire).
THEOREM ConnCallsAreBacked == ConnSpec => []ToolCallsBacked
<1>1. ConnInv => ToolCallsBacked
  BY PaidIsBacked DEF ConnInv, ConnTypeOK, CallsBacked
<1> QED
  BY <1>1, ConnInvHolds, PTL

\* No request reaches a handler for a call nobody allowed, also when a draft is retired
\* or a sender writes its copy back meanwhile (delivery.request_delivery).
THEOREM ConnCallsAreAuthorised == ConnSpec => ToolCallsAuthorised
<1>1. ConnInv /\ [ConnNext]_connVars =>
        [\A r \in Reqs : acts' # acts /\ req'[r] # req[r] =>
           IF req[r].by = 0 THEN req[r].call = 1 /\ req[r].run \in allowed
           ELSE LET a == approvals[req[r].by] IN
                a.status = "approved" /\ a.run = req[r].run /\ a.call = req[r].call]_vars
  <2> SUFFICES ASSUME ConnInv, ConnNext, NEW r \in Reqs, acts' # acts, req'[r] # req[r]
               PROVE  IF req[r].by = 0 THEN req[r].call = 1 /\ req[r].run \in allowed
                      ELSE LET a == approvals[req[r].by] IN
                           a.status = "approved" /\ a.run = req[r].run /\ a.call = req[r].call
    BY DEF connVars, vars
  <2>1. TypeOK
    BY DEF ConnInv, ConnTypeOK
  <2>2. Next
    BY DEF ConnNext, SendReturns, SettleSend, SaveSend, SenderDies, SaveOwnCopy, Retire, vars
  <2>3. PICK s \in Reqs : ReachesHandler(s)
    BY <2>1, <2>2, WorkStep DEF LeavesWork, StartsNew, Approve
  <2>4. r = s /\ req[r].pc = "executing"
    BY <2>3 DEF ReachesHandler
  <2> QED
    BY <2>1, <2>4, AuthorityFits DEF ConnInv
<1> QED
  BY <1>1, ConnInvHolds, PTL DEF ConnSpec, ToolCallsAuthorised
=============================================================================
