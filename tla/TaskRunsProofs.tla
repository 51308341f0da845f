--------------------------- MODULE TaskRunsProofs ---------------------------
(***************************************************************************)
(* Theorems about TaskRuns, for every number of requests, runs, approvals  *)
(* and every loop limit.  RunsInv is about the rows that a route commits;  *)
(* WorkInv, which rests on it, about the work beside them: who may settle  *)
(* an execution, which authority every reached tool handler used up, and   *)
(* what archiving and ending a task rule out.                              *)
(***************************************************************************)
EXTENDS TaskRuns, AgentRuntimeProofs, FiniteSetTheorems

-----------------------------------------------------------------------------
(* What the building blocks return *)

LEMMA BoundTypes ==
  /\ MaxRuns \in Nat /\ MaxApprovals \in Nat /\ RunLimit \in Nat
  /\ 1 \in RunId /\ 1 <= RunLimit
  /\ \A i \in RunId : i \in Nat /\ i \in 0..MaxRuns
  /\ \A a \in ApprovalId : a \in Nat /\ a \in 0..MaxApprovals
BY StoreBounds, ReqsAssumption

LEMMA IdleIsReq == Idle \in Req
BY BoundTypes DEF Idle, Req, Pc, TaskStatus

LEMMA ReqFields ==
  ASSUME NEW q \in Req
  PROVE  /\ \A pc \in Pc : [q EXCEPT !.pc = pc] \in Req
         /\ \A todo \in SUBSET Cleanup : [q EXCEPT !.todo = todo] \in Req
         /\ \A i \in 0..MaxRuns : [q EXCEPT !.prev = i] \in Req
         /\ \A status \in TaskStatus : [q EXCEPT !.before = status] \in Req
         /\ \A gone \in BOOLEAN : [q EXCEPT !.gone = gone] \in Req
         /\ \A cancelled \in BOOLEAN : [q EXCEPT !.cancelled = cancelled] \in Req
         /\ \A outcome \in {"none", "succeeded", "failed", "paused"} :
              [q EXCEPT !.outcome = outcome] \in Req
BY DEF Req

LEMMA GoesToTypes ==
  ASSUME TypeOK, NEW r \in Reqs, NEW pc \in Pc, NEW todo \in SUBSET Cleanup,
         GoesTo(r, pc, todo)
  PROVE  req' \in [Reqs -> Req]
<1>1. req[r] \in Req
  BY DEF TypeOK
<1>2. [req[r] EXCEPT !.pc = pc, !.todo = todo] \in Req
  BY <1>1, ReqFields
<1> QED
  BY <1>2, IdleIsReq DEF TypeOK, GoesTo

LEMMA ExecutesTypes ==
  ASSUME TypeOK, NEW r \in Reqs, NEW i \in RunId, NEW checkpoint \in Run,
         NEW by \in 0..MaxApprovals, Executes(r, i, checkpoint, by)
  PROVE  req' \in [Reqs -> Req]
<1> DEFINE q == [Idle EXCEPT !.pc = "executing", !.run = i, !.version = checkpoint.version,
                   !.call = checkpoint.call, !.by = by, !.cancelled = req[r].cancelled]
<1>1. i \in 0..MaxRuns /\ 0 \in 0..MaxRuns /\ req[r].cancelled \in BOOLEAN
  BY BoundTypes DEF TypeOK, Req
<1>2. q \in Req
  BY <1>1 DEF Req, Run, Pc, Idle, TaskStatus
<1> HIDE DEF q
<1>3. req' = [req EXCEPT ![r] = q]
  BY DEF Executes, q
<1> QED
  BY <1>2, <1>3 DEF TypeOK

LEMMA NotAppliedTypes ==
  /\ \A r \in Reqs : NotApplied(r) \in SUBSET Cleanup
  /\ {} \in SUBSET Cleanup /\ {"quiet"} \in SUBSET Cleanup /\ {"reset"} \in SUBSET Cleanup
BY DEF NotApplied, Cleanup

LEMMA TodoTypes ==
  ASSUME TypeOK
  PROVE  \A r \in Reqs : req[r] \in Req /\ req[r].pc \in Pc
           /\ req[r].todo \in SUBSET Cleanup /\ req[r].run \in 0..MaxRuns
BY DEF TypeOK, Req

-----------------------------------------------------------------------------
(* The rows stay well-formed: per unit of work *)

\* Units that only move a request.
LEMMA MovesTypes ==
  ASSUME TypeOK, NEW r \in Reqs,
         \/ RefuseChat(r) \/ PlanReturns(r) \/ PlanFails(r) \/ ApplyLoses(r)
         \/ SettleLoses(r) \/ Die(r)
  PROVE  TypeOK'
<1> {"idle", "planning", "applying"} \subseteq Pc
  BY DEF Pc
<1>1. req' \in [Reqs -> Req]
  <2>1. CASE Die(r)
    BY <2>1, IdleIsReq DEF Die, TypeOK
  <2>2. CASE RefuseChat(r) \/ PlanReturns(r) \/ PlanFails(r)
    BY <2>2, GoesToTypes, NotAppliedTypes DEF RefuseChat, PlanReturns, PlanFails
  <2>3. CASE ApplyLoses(r) \/ SettleLoses(r)
    BY <2>3, GoesToTypes, NotAppliedTypes, TodoTypes DEF ApplyLoses, SettleLoses
  <2> QED
    BY <2>1, <2>2, <2>3
<1>2. UNCHANGED <<store, acts, allowed>>
  BY DEF RefuseChat, PlanReturns, PlanFails, ApplyLoses, SettleLoses, Die
<1> QED
  BY <1>1, <1>2 DEF TypeOK, StoreTypeOK, store

LEMMA ClaimTypes ==
  ASSUME TypeOK, NEW r \in Reqs, ClaimRun(r) \/ ClaimRetry(r) \/ ClaimHandOff(r) \/ ClaimChat(r)
  PROVE  TypeOK'
<1>1. TakeClaim(r)
  BY DEF ClaimRun, ClaimRetry, ClaimHandOff, ClaimChat
<1> DEFINE q == [Idle EXCEPT !.pc = "planning", !.prev = latest, !.before = task.status]
<1>2. q \in Req
  <2>1. latest \in 0..MaxRuns /\ task.status \in TaskStatus
    BY DEF TypeOK, StoreTypeOK, Task
  <2> QED
    BY <2>1, ReqFields, IdleIsReq DEF Pc
<1> HIDE DEF q
<1>3. req' = [req EXCEPT ![r] = q]
  BY <1>1 DEF TakeClaim, q
<1>4. task' \in Task
  BY <1>1, TaskFields DEF TakeClaim, TypeOK, StoreTypeOK, TaskStatus
<1> QED
  BY <1>1, <1>2, <1>3, <1>4 DEF TypeOK, StoreTypeOK, TakeClaim

LEMMA ApplyTypes ==
  ASSUME TypeOK, NEW r \in Reqs, ApplyBlocked(r) \/ ApplyPauses(r) \/ ApplyAllowed(r)
  PROVE  TypeOK'
<1> DEFINE proposed == Proposed(NewRun)
           checkpoint == Executing(proposed)
<1>1. proposed \in Run /\ checkpoint \in Run /\ EndedAs(proposed, "failed") \in Run
  BY CheckpointTypes DEF Ended
<1>2. "idle" \in Pc /\ req[r].todo \in SUBSET Cleanup /\ 0 \in 0..MaxApprovals
  BY TodoTypes, BoundTypes DEF Pc
<1> PICK i \in RunId : NewRunIs(r, i)
  BY DEF ApplyBlocked, ApplyPauses, ApplyAllowed
<1>3. latest' \in 0..MaxRuns /\ \A j \in RunId : NewRunIs(r, j) => j = i
  BY BoundTypes DEF NewRunIs
<1> HIDE DEF proposed, checkpoint
<1>4. CASE ApplyBlocked(r)
  <2>1. Save(i, EndedAs(proposed, "failed")) /\ GoesTo(r, "idle", req[r].todo)
        /\ UNCHANGED <<approvals, asked, acts, allowed>>
    BY <1>3, <1>4 DEF ApplyBlocked, proposed
  <2> QED
    BY <2>1, <1>1, <1>2, <1>3, SaveTypes, GoesToTypes DEF TypeOK, StoreTypeOK
<1>5. CASE ApplyPauses(r)
  <2>1. PauseForApproval(i, proposed) /\ GoesTo(r, "idle", req[r].todo)
        /\ UNCHANGED <<acts, allowed>>
    BY <1>3, <1>5 DEF ApplyPauses, proposed
  <2> QED
    BY <2>1, <1>1, <1>2, <1>3, PauseTypes, GoesToTypes DEF TypeOK, StoreTypeOK
<1>6. CASE ApplyAllowed(r)
  <2>1. /\ Save(i, checkpoint)
        /\ GoesTo(r, "idle", req[r].todo) \/ Executes(r, i, checkpoint, 0)
        /\ allowed' = allowed \cup {i}
        /\ UNCHANGED <<approvals, asked, acts>>
    BY <1>3, <1>6 DEF ApplyAllowed, proposed, checkpoint
  <2> QED
    BY <2>1, <1>1, <1>2, <1>3, SaveTypes, GoesToTypes, ExecutesTypes DEF TypeOK, StoreTypeOK
<1> QED
  BY <1>4, <1>5, <1>6

LEMMA CleanUpTypes ==
  ASSUME TypeOK, NEW r \in Reqs, Release(r) \/ ResetUnrun(r) \/ SettleQuietly(r)
  PROVE  TypeOK'
<1>1. req[r] \in Req /\ req[r].pc \in Pc /\ req[r].before \in TaskStatus
      /\ "created" \in TaskStatus
  BY DEF TypeOK, Req, TaskStatus
<1>2. \A step : req[r].todo \ {step} \in SUBSET Cleanup
  BY DEF TypeOK, Req
<1>3. req' \in [Reqs -> Req]
  <2>1. PICK step : GoesTo(r, req[r].pc, req[r].todo \ {step})
    BY DEF Release, ResetUnrun, SettleQuietly, CleanedUp
  <2> QED
    BY <1>1, <1>2, <2>1, GoesToTypes
<1>4. StoreTypeOK'
  <2>1. CASE Release(r) \/ ResetUnrun(r)
    <3>1. task' \in Task
      BY <1>1, <2>1, TaskFields DEF Release, ResetUnrun, TypeOK, StoreTypeOK
    <3> QED
      BY <2>1, <3>1 DEF Release, ResetUnrun, TypeOK, StoreTypeOK
  <2>2. CASE SettleQuietly(r) /\ StillExecuting(r)
    <3>1. req[r].run \in RunId /\ FailRun(req[r].run)
      BY <2>2 DEF SettleQuietly, StillExecuting
    <3>2. EndedAs(runs[req[r].run], "failed") \in Run
      BY <3>1, CheckpointTypes DEF TypeOK, StoreTypeOK, Ended
    <3> QED
      BY <3>1, <3>2, SaveTypes DEF FailRun, TypeOK, StoreTypeOK
  <2>3. CASE SettleQuietly(r) /\ ~StillExecuting(r)
    BY <2>3 DEF SettleQuietly, TypeOK, StoreTypeOK, store
  <2> QED
    BY <2>1, <2>2, <2>3
<1> QED
  BY <1>3, <1>4 DEF TypeOK, Release, ResetUnrun, SettleQuietly

LEMMA ToolTypes ==
  ASSUME TypeOK, NEW r \in Reqs, Tool(r) \/ StopEarly(r)
  PROVE  TypeOK'
<1>1. acts' \in [RunId -> Nat]
  BY DEF Tool, ToolReturns, ToolRefused, ToolRaises, StopEarly, Acts, TypeOK
<1>2. req' \in [Reqs -> Req]
  <2>1. req[r] \in Req /\ {"settling", "failing", "idle"} \subseteq Pc
    BY DEF TypeOK, Pc
  <2>2. CASE Tool(r)
    <3>1. ASSUME NEW pc \in Pc, NEW outcome \in {"none", "succeeded", "failed", "paused"}
          PROVE  [req[r] EXCEPT !.pc = pc, !.outcome = outcome] \in Req
      BY <2>1, ReqFields
    <3> QED
      <4>1. PICK pc \in Pc, outcome \in {"none", "succeeded", "failed", "paused"} :
              ToolEnds(r, pc, outcome)
        BY <2>1, <2>2 DEF Tool, ToolReturns, ToolRefused, ToolRaises
      <4> QED
        BY <3>1, <4>1 DEF ToolEnds, TypeOK
  <2>3. CASE StopEarly(r)
    <3>1. ASSUME NEW todo \in SUBSET Cleanup, GoesOnWithout(r, todo)
          PROVE  req' \in [Reqs -> Req]
      <4>1. [req[r] EXCEPT !.gone = TRUE, !.todo = todo] \in Req
        BY <2>1, ReqFields
      <4> QED
        BY <3>1, <4>1 DEF GoesOnWithout, TypeOK
    <3> QED
      BY <2>1, <2>3, <3>1, GoesToTypes, NotAppliedTypes DEF StopEarly
  <2> QED
    BY <2>2, <2>3
<1> QED
  BY <1>1, <1>2 DEF TypeOK, StoreTypeOK, store, Tool, ToolReturns, ToolRefused, ToolRaises,
                    StopEarly

LEMMA SettleUnitTypes ==
  ASSUME TypeOK, NEW r \in Reqs, Settle(r) \/ SettleFailure(r)
  PROVE  TypeOK'
<1>1. req[r].run \in RunId /\ runs[req[r].run] \in Run
  BY DEF Settle, SettleFailure, StillExecuting, TypeOK, StoreTypeOK
<1>2. EndedAs(runs[req[r].run], "failed") \in Run
  BY <1>1, CheckpointTypes DEF Ended
<1>3. req' \in [Reqs -> Req]
  BY TodoTypes, GoesToTypes DEF Settle, SettleFailure, Pc
<1>4. CASE Settle(r)
  BY <1>1, <1>3, <1>4, SettleTypes DEF Settle, TypeOK
<1>5. CASE SettleFailure(r)
  BY <1>1, <1>2, <1>3, <1>5, SaveTypes DEF SettleFailure, FailRun, TypeOK, StoreTypeOK
<1> QED
  BY <1>4, <1>5

\* Decisions, Cancel and the emergency stop.
LEMMA DecideTypes ==
  ASSUME TypeOK, NEW a \in ApprovalId, Decide(a)
  PROVE  TypeOK'
<1>1. PICK status \in ApprovalStatus, fails \in BOOLEAN : EndDecision(a, status, fails)
  <2>1. AwaitsIt(a) \in BOOLEAN
        /\ (AwaitsIt(a) /\ runs[approvals[a].run].phase \notin Ended) \in BOOLEAN
    BY DEF AwaitsIt
  <2>2. {"approved", "rejected", "expired"} \subseteq ApprovalStatus
    BY DEF ApprovalStatus
  <2> QED
    BY <2>1, <2>2 DEF Decide, DecideLapsed, Reject, RefuseChangedTarget, ApproveBlocked
<1>2. approvals[a].run \in RunId /\ runs[approvals[a].run] \in Run
  BY DEF TypeOK, StoreTypeOK, Approval
<1>3. EndedAs(runs[approvals[a].run], "failed") \in Run
  BY <1>2, CheckpointTypes DEF Ended
<1>4. approvals' \in [ApprovalId -> Approval]
  BY <1>1, DecidedTypes DEF EndDecision, TypeOK
<1>5. task' \in Task /\ runs' \in [RunId -> Run]
  BY <1>1, <1>2, <1>3, SaveTypes DEF EndDecision, TypeOK, StoreTypeOK
<1> QED
  BY <1>1, <1>4, <1>5 DEF EndDecision, TypeOK, StoreTypeOK

LEMMA ApproveTypes ==
  ASSUME TypeOK, NEW a \in ApprovalId, NEW r \in Reqs, Approve(r, a)
  PROVE  TypeOK'
<1> DEFINE i == approvals[a].run
           checkpoint == Executing(runs[i])
<1>1. i \in RunId /\ checkpoint \in Run
  BY CheckpointTypes DEF TypeOK, StoreTypeOK, Approval
<1>2. /\ Decided(a, "approved") /\ Save(i, checkpoint) /\ Executes(r, i, checkpoint, a)
      /\ UNCHANGED <<latest, asked, acts, allowed>>
  BY DEF Approve
<1> HIDE DEF i, checkpoint
<1>3. approvals' \in [ApprovalId -> Approval]
  BY <1>2, DecidedTypes DEF TypeOK, ApprovalStatus
<1>4. req' \in [Reqs -> Req]
  BY <1>1, <1>2, BoundTypes, ExecutesTypes
<1>5. task' \in Task /\ runs' \in [RunId -> Run]
  BY <1>1, <1>2, SaveTypes DEF TypeOK
<1> QED
  BY <1>2, <1>3, <1>4, <1>5 DEF TypeOK, StoreTypeOK

LEMMA MarkClaimsTypes == ASSUME TypeOK, MarkClaims PROVE req' \in [Reqs -> Req]
BY ReqFields DEF TypeOK, MarkClaims

LEMMA WholeTaskTypes ==
  ASSUME TypeOK, \/ LeaseLapses \/ Cancel \/ EmergencyStop \/ Archive \/ Unarchive
                 \/ \E a \in ApprovalId : ApprovalLapses(a)
  PROVE  TypeOK'
<1>1. CASE Cancel \/ EmergencyStop
  BY <1>1, CancelTypes, MarkClaimsTypes DEF Cancel, EmergencyStop, TypeOK
<1>2. CASE LeaseLapses \/ Archive \/ Unarchive
  <2>1. task' \in Task
    BY <1>2, TaskFields DEF LeaseLapses, Archive, Unarchive, TypeOK, StoreTypeOK
  <2> QED
    BY <1>2, <2>1 DEF LeaseLapses, Archive, Unarchive, TypeOK, StoreTypeOK
<1>3. CASE \E a \in ApprovalId : ApprovalLapses(a)
  BY <1>3 DEF ApprovalLapses, TypeOK, StoreTypeOK, Approval
<1> QED
  BY <1>1, <1>2, <1>3

LEMMA TypeInit == Init => TypeOK
<1>1. ASSUME Init PROVE StoreTypeOK
  BY <1>1, BoundTypes, CheckpointTypes
     DEF Init, StoreTypeOK, Task, TaskStatus, Approval, ApprovalStatus, RunId
<1>2. ASSUME Init PROVE req \in [Reqs -> Req]
  <2>1. [Idle EXCEPT !.pc = "new"] \in Req
    BY IdleIsReq, ReqFields DEF Pc
  <2> QED
    BY <1>2, <2>1, IdleIsReq DEF Init
<1>3. ASSUME Init PROVE acts \in [RunId -> Nat] /\ allowed \subseteq RunId
  BY <1>3 DEF Init
<1> QED
  BY <1>1, <1>2, <1>3 DEF TypeOK

LEMMA TypeStep == TypeOK /\ [Next]_vars => TypeOK'
<1> SUFFICES ASSUME TypeOK, [Next]_vars PROVE TypeOK'
  OBVIOUS
<1>1. ASSUME NEW r \in Reqs,
             \/ Start(r) \/ Plan(r) \/ Apply(r) \/ Tool(r) \/ SettleUnit(r)
             \/ CleanUp(r) \/ StopEarly(r) \/ Die(r)
      PROVE  TypeOK'
  BY <1>1, MovesTypes, ClaimTypes, ApplyTypes, CleanUpTypes, ToolTypes, SettleUnitTypes
     DEF Start, Plan, Apply, SettleUnit, CleanUp
<1>2. ASSUME NEW a \in ApprovalId,
             \/ ApprovalLapses(a) \/ Decide(a) \/ \E r \in Reqs : Approve(r, a)
      PROVE  TypeOK'
  BY <1>2, DecideTypes, ApproveTypes, WholeTaskTypes
<1>3. CASE LeaseLapses \/ Cancel \/ EmergencyStop \/ Archive \/ Unarchive
  BY <1>3, WholeTaskTypes
<1>4. CASE UNCHANGED vars
  BY <1>4 DEF TypeOK, StoreTypeOK, vars, store
<1> QED
  BY <1>1, <1>2, <1>3, <1>4 DEF Next

\* The rows and the requests keep the shape the code relies on, in every behaviour.
THEOREM TypeCorrect == Spec => []TypeOK
BY TypeInit, TypeStep, PTL DEF Spec

-----------------------------------------------------------------------------
(* The inductive invariant *)

\* Request r may still apply, or give back, the claim it took.
HasClaim(r) == req[r].pc \in {"planning", "applying"} \/ "release" \in req[r].todo

\* A claim whose newest run is still the one it saw has seen that run end.
ClaimsSawTheEnd ==
  \A r \in Reqs : HasClaim(r) => /\ req[r].prev <= latest
                                 /\ req[r].prev = latest => Unapplied

\* Whoever may add a run has passed the limit check for it.
RoomForClaims ==
  /\ \/ task.status \in {"created", "queued"}
     \/ task.status = "running" /\ Unapplied
     \/ \E r \in Reqs : HasClaim(r) /\ req[r].prev = latest
     => latest < RunLimit

StoreInv == OnlyLatestOpen /\ PendingIsAwaited /\ WaitingIsDecidable /\ StatusAgrees /\ Unborn

RunsInv == TypeOK /\ StoreInv /\ ClaimsSawTheEnd /\ RoomForClaims /\ WithinRunLimit

-----------------------------------------------------------------------------
(* What each write of the rows keeps of StoreInv *)

\* A unit of work writes run i as the newest: the executing one, or a new one after a
\* run that ended.
Takes(i) == \/ i = latest /\ runs[i].phase = "executing"
            \/ i = latest + 1 /\ Unapplied

LEMMA RunIsTaken ==
  ASSUME StoreTypeOK, OnlyLatestOpen, NEW i \in RunId, Takes(i)
  PROVE  /\ i >= latest
         /\ \A j \in RunId : j < i => j <= latest /\ runs[j].phase \in Ended
         /\ \A j \in RunId : j > i => j > latest
<1>1. i \in Nat /\ latest \in Nat /\ \A j \in RunId : j \in Nat
  BY BoundTypes DEF StoreTypeOK
<1>2. CASE i = latest
  BY <1>1, <1>2 DEF OnlyLatestOpen
<1>3. CASE i = latest + 1 /\ Unapplied
  <2>1. \A j \in RunId : j < i => j < latest \/ j = latest
    BY <1>1, <1>3
  <2>2. \A j \in RunId : j = latest => runs[j].phase \in Ended
    BY <1>1, <1>3 DEF Unapplied, RunId
  <2> QED
    BY <1>1, <1>3, <2>1, <2>2 DEF OnlyLatestOpen
<1> QED
  BY <1>2, <1>3 DEF Takes

LEMMA SaveKeeps ==
  ASSUME StoreTypeOK, StoreInv, NEW i \in RunId, NEW r \in Run, Takes(i), Save(i, r),
         r.phase # "waiting_approval", latest' = i, KeepApprovals
  PROVE  StoreInv'
<1>1. /\ \A j \in RunId : j # i => runs'[j] = runs[j]
      /\ runs'[i] = r /\ task'.status = StatusOf(r.phase)
      /\ approvals' = approvals /\ asked' = asked
  BY DEF Save, StoreTypeOK, KeepApprovals, Task
<1>2. i \in Nat /\ latest \in Nat /\ asked \in Nat /\ \A j \in RunId : j \in Nat
  BY BoundTypes DEF StoreTypeOK
<1>3. /\ i >= latest
      /\ \A j \in RunId : j < i => j <= latest /\ runs[j].phase \in Ended
      /\ \A j \in RunId : j > i => j > latest
  BY RunIsTaken DEF StoreInv
<1>4. OnlyLatestOpen'
  BY <1>1, <1>2, <1>3 DEF OnlyLatestOpen
<1>5. PendingIsAwaited'
  <2> SUFFICES ASSUME NEW a \in ApprovalId, a <= asked, approvals[a].status = "pending"
               PROVE  /\ approvals[a].run <= i
                      /\ runs'[approvals[a].run] = runs[approvals[a].run]
    BY <1>1 DEF PendingIsAwaited, StoreInv
  <2>1. /\ approvals[a].run \in RunId /\ approvals[a].run <= latest
        /\ runs[approvals[a].run].phase = "waiting_approval"
    BY DEF StoreInv, PendingIsAwaited, StoreTypeOK, Approval
  <2>2. approvals[a].run # i
    BY <2>1, <1>2 DEF Takes
  <2>3. approvals[a].run <= i
    <3>1. approvals[a].run \in Nat
      BY <1>2, <2>1
    <3> QED
      BY <1>2, <1>3, <2>1, <3>1
  <2> QED
    BY <1>1, <2>1, <2>2, <2>3
<1>6. WaitingIsDecidable'
  BY <1>1, <1>2, <1>3 DEF WaitingIsDecidable, StoreInv
<1>7. StatusAgrees' /\ Unborn'
  BY <1>1, <1>2, <1>3 DEF StatusAgrees, Unborn, StoreInv
<1> QED
  BY <1>4, <1>5, <1>6, <1>7 DEF StoreInv

LEMMA PauseKeeps ==
  ASSUME StoreTypeOK, StoreInv, NEW i \in RunId, NEW r \in Run, Takes(i),
         PauseForApproval(i, r), latest' = i
  PROVE  StoreInv'
<1> DEFINE new == asked + 1
<1>1. new \in ApprovalId /\ asked \in Nat /\ asked' = new /\ new \in Nat
  <2>1. asked \in Nat
    BY BoundTypes DEF StoreTypeOK
  <2>2. asked + 1 \in ApprovalId
    BY PauseTypes
  <2>3. asked' = asked + 1
    BY DEF PauseForApproval
  <2> QED
    BY <2>1, <2>2, <2>3
<1>2. /\ \A j \in RunId : j # i => runs'[j] = runs[j]
      /\ runs'[i] = Waiting(r, new) /\ task'.status = "waiting_approval"
      /\ \A a \in ApprovalId : a # new => approvals'[a] = approvals[a]
      /\ approvals'[new] = [status |-> "pending", run |-> i, call |-> r.call, lapsed |-> FALSE]
  BY <1>1, CheckpointFields DEF PauseForApproval, Save, StoreTypeOK, Task, StatusOf
<1>3. /\ Waiting(r, new).phase = "waiting_approval" /\ Waiting(r, new).approval = new
      /\ Waiting(r, new).call = r.call
  BY CheckpointFields
<1> HIDE DEF new
<1>4. i \in Nat /\ latest \in Nat /\ \A j \in RunId : j \in Nat
  BY BoundTypes DEF StoreTypeOK
<1>5. /\ i >= latest
      /\ \A j \in RunId : j < i => j <= latest /\ runs[j].phase \in Ended
      /\ \A j \in RunId : j > i => j > latest
  BY RunIsTaken DEF StoreInv
<1>6. OnlyLatestOpen'
  BY <1>2, <1>4, <1>5 DEF OnlyLatestOpen
<1>7. PendingIsAwaited'
  <2> SUFFICES ASSUME NEW a \in ApprovalId, a <= asked', approvals'[a].status = "pending"
               PROVE  LET b == runs'[approvals'[a].run] IN
                      /\ approvals'[a].run <= i /\ b.phase = "waiting_approval"
                      /\ b.approval = a /\ b.call = approvals'[a].call
    BY DEF PendingIsAwaited
  <2>1. CASE a = new
    BY <1>2, <1>3, <1>4, <2>1
  <2>2. CASE a # new
    <3>1. a <= asked /\ approvals'[a] = approvals[a]
      BY <1>1, <1>2, <2>2, BoundTypes DEF new
    <3>2. LET b == runs[approvals[a].run] IN
          /\ approvals[a].run \in RunId /\ approvals[a].run <= latest
          /\ b.phase = "waiting_approval" /\ b.approval = a /\ b.call = approvals[a].call
      BY <3>1 DEF StoreInv, PendingIsAwaited, StoreTypeOK, Approval
    <3>3. approvals[a].run # i
      BY <3>2, <1>4 DEF Takes
    <3>4. runs'[approvals[a].run] = runs[approvals[a].run]
      BY <1>2, <3>2, <3>3
    <3>5. approvals[a].run <= i
      <4>1. approvals[a].run \in Nat
        BY <1>4, <3>2
      <4> QED
        BY <1>4, <1>5, <3>2, <4>1
    <3> QED
      BY <3>1, <3>2, <3>4, <3>5
  <2> QED
    BY <2>1, <2>2
<1>8. WaitingIsDecidable'
  <2> SUFFICES ASSUME NEW j \in RunId, j <= i, runs'[j].phase = "waiting_approval"
               PROVE  /\ runs'[j].approval \in 1..new
                      /\ approvals'[runs'[j].approval].status = "pending"
                      /\ approvals'[runs'[j].approval].run = j
    BY <1>1 DEF WaitingIsDecidable
  <2>1. j = i
    <3>1. CASE j < i
      BY <1>2, <1>4, <1>5, <3>1, EndedIsNotOpen
    <3>2. CASE ~(j < i)
      BY <1>4, <3>2
    <3> QED
      BY <3>1, <3>2
  <2> QED
    BY <1>1, <1>2, <1>3, <2>1, BoundTypes DEF ApprovalId
<1>9. StatusAgrees' /\ Unborn'
  BY <1>2, <1>3, <1>4, <1>5 DEF StatusAgrees, Unborn, StoreInv, StatusOf
<1> QED
  BY <1>6, <1>7, <1>8, <1>9 DEF StoreInv

\* A pending approval is the newest run's.
LEMMA PendingIsLatest ==
  ASSUME StoreTypeOK, StoreInv, NEW a \in ApprovalId, Pending(a)
  PROVE  /\ approvals[a].run \in RunId /\ approvals[a].run = latest
         /\ runs[approvals[a].run].phase = "waiting_approval"
         /\ AwaitsIt(a)
<1>1. /\ approvals[a].run \in RunId /\ approvals[a].run <= latest
      /\ runs[approvals[a].run].phase = "waiting_approval"
      /\ runs[approvals[a].run].approval = a
  BY DEF StoreInv, PendingIsAwaited, StoreTypeOK, Approval, Pending
<1>2. ~(approvals[a].run < latest)
  BY <1>1, EndedIsNotOpen DEF StoreInv, OnlyLatestOpen
<1>3. latest \in Nat /\ approvals[a].run \in Nat
  BY <1>1, BoundTypes DEF StoreTypeOK
<1> QED
  BY <1>1, <1>2, <1>3 DEF AwaitsIt

LEMMA DecisionKeeps ==
  ASSUME StoreTypeOK, StoreInv, NEW a \in ApprovalId, Pending(a),
         NEW status, status # "pending", Decided(a, status),
         NEW r \in Run, r.phase # "waiting_approval", Save(approvals[a].run, r),
         UNCHANGED <<latest, asked>>
  PROVE  StoreInv'
<1> DEFINE i == approvals[a].run
<1>1. i \in RunId /\ i = latest /\ runs[i].phase = "waiting_approval"
  BY PendingIsLatest
<1>2. /\ \A j \in RunId : j # i => runs'[j] = runs[j]
      /\ runs'[i] = r /\ task'.status = StatusOf(r.phase)
      /\ \A b \in ApprovalId : b # a => approvals'[b] = approvals[b]
      /\ approvals'[a].status = status
  BY <1>1 DEF Save, StoreTypeOK, Decided, Task, Approval
<1>3. i \in Nat /\ latest \in Nat /\ \A j \in RunId : j \in Nat
  BY <1>1, BoundTypes DEF StoreTypeOK
<1>4. \A b \in ApprovalId : Pending(b) => b = a
  <2> SUFFICES ASSUME NEW b \in ApprovalId, Pending(b) PROVE b = a
    OBVIOUS
  <2>1. approvals[b].run = i /\ AwaitsIt(b) /\ AwaitsIt(a)
    BY <1>1, PendingIsLatest
  <2> QED
    BY <2>1 DEF AwaitsIt
<1>5. PendingIsAwaited'
  BY <1>2, <1>4 DEF PendingIsAwaited, Pending
<1>6. OnlyLatestOpen' /\ StatusAgrees' /\ Unborn'
  BY <1>1, <1>2, <1>3 DEF OnlyLatestOpen, StatusAgrees, Unborn, StoreInv
<1>7. WaitingIsDecidable'
  <2>1. \A j \in RunId : j <= latest => runs'[j].phase # "waiting_approval"
    BY <1>1, <1>2, <1>3, EndedIsNotOpen DEF OnlyLatestOpen, StoreInv
  <2> QED
    BY <2>1 DEF WaitingIsDecidable
<1> QED
  BY <1>5, <1>6, <1>7 DEF StoreInv

LEMMA CancelKeeps == ASSUME StoreTypeOK, StoreInv, CancelRows PROVE StoreInv'
<1>1. \A j \in RunId : /\ j # latest => runs'[j] = runs[j]
                       /\ j = latest => runs'[j].phase \in Ended
  BY CheckpointFields DEF CancelRows, StoreTypeOK, Ended
<1>2. \A a \in ApprovalId : a <= asked => approvals'[a].status # "pending"
  BY DEF CancelRows, StoreTypeOK, Approval
<1>3. latest \in Nat /\ \A j \in RunId : j \in Nat
  BY BoundTypes DEF StoreTypeOK
<1>4. UNCHANGED <<latest, asked>>
  BY DEF CancelRows
<1>5. OnlyLatestOpen' /\ StatusAgrees' /\ Unborn'
  BY <1>1, <1>3, <1>4 DEF OnlyLatestOpen, StatusAgrees, Unborn, StoreInv
<1>6. PendingIsAwaited'
  BY <1>2, <1>4 DEF PendingIsAwaited
<1>7. WaitingIsDecidable'
  <2>1. \A j \in RunId : j <= latest => runs'[j].phase \in Ended
    BY <1>1, <1>3 DEF OnlyLatestOpen, StoreInv
  <2> QED
    BY <1>4, <2>1, EndedIsNotOpen DEF WaitingIsDecidable
<1> QED
  BY <1>5, <1>6, <1>7 DEF StoreInv

\* Writes of the task row only.
LEMMA TaskWriteKeeps ==
  ASSUME StoreInv, UNCHANGED <<runs, latest, approvals, asked>>,
         Unapplied \/ task'.status = task.status
  PROVE  StoreInv'
<1>1. StatusAgrees'
  BY DEF StoreInv, StatusAgrees, Unapplied, RunId
<1> QED
  BY <1>1 DEF StoreInv, OnlyLatestOpen, PendingIsAwaited, WaitingIsDecidable, Unborn

-----------------------------------------------------------------------------
(* What each step keeps of the claims *)

\* The step takes no new claim.
ClaimsKept == \A s \in Reqs : HasClaim(s)' => HasClaim(s) /\ req'[s].prev = req[s].prev

LEMMA GoesToClaims ==
  ASSUME TypeOK, NEW r \in Reqs, NEW pc, NEW todo, GoesTo(r, pc, todo),
         pc \in {"planning", "applying"} \/ "release" \in todo => HasClaim(r)
  PROVE  ClaimsKept
<1>1. \A s \in Reqs : s # r => req'[s] = req[s]
  BY DEF GoesTo, TypeOK
<1>2. req'[r] = Idle \/ req'[r] = [req[r] EXCEPT !.pc = pc, !.todo = todo]
  BY DEF GoesTo, TypeOK
<1>3. CASE req'[r] = Idle
  <2>1. ~HasClaim(r)'
    BY <1>3 DEF HasClaim, Idle
  <2> QED
    BY <1>1, <2>1 DEF ClaimsKept, HasClaim
<1>4. CASE req'[r] = [req[r] EXCEPT !.pc = pc, !.todo = todo]
  <2>1. req'[r].pc = pc /\ req'[r].todo = todo /\ req'[r].prev = req[r].prev
    BY <1>4 DEF TypeOK, Req
  <2> QED
    BY <1>1, <2>1 DEF ClaimsKept, HasClaim
<1> QED
  BY <1>2, <1>3, <1>4

LEMMA ExecutesClaims ==
  ASSUME TypeOK, NEW r \in Reqs, NEW i, NEW checkpoint, NEW by, Executes(r, i, checkpoint, by)
  PROVE  ClaimsKept
<1>1. \A s \in Reqs : s # r => req'[s] = req[s]
  BY DEF Executes, TypeOK
<1>2. req'[r].pc = "executing" /\ req'[r].todo = {}
  BY DEF Executes, TypeOK, Idle
<1> QED
  BY <1>1, <1>2 DEF ClaimsKept, HasClaim

LEMMA NoNewRun ==
  ASSUME RunsInv, UNCHANGED latest, Unapplied => Unapplied',
         \/ task'.status \in {"created", "queued"}
         \/ task'.status = "running" /\ Unapplied'
         => latest < RunLimit,
         \A s \in Reqs : HasClaim(s)' =>
           \/ HasClaim(s) /\ req'[s].prev = req[s].prev
           \/ req'[s].prev = latest /\ Unapplied /\ latest < RunLimit
  PROVE  (ClaimsSawTheEnd /\ RoomForClaims /\ WithinRunLimit)'
<1>1. latest \in Nat
  BY BoundTypes DEF RunsInv, TypeOK, StoreTypeOK
<1>2. ClaimsSawTheEnd'
  BY <1>1 DEF RunsInv, ClaimsSawTheEnd
<1>3. RoomForClaims'
  BY DEF RunsInv, RoomForClaims
<1> QED
  BY <1>2, <1>3 DEF RunsInv, WithinRunLimit

\* Steps that write no row.
LEMMA RequestStep ==
  ASSUME RunsInv, TypeOK', UNCHANGED store, ClaimsKept
  PROVE  RunsInv'
<1>1. UNCHANGED <<task, runs, latest, approvals, asked>>
  BY DEF store
<1>2. (Unapplied <=> Unapplied') /\ StoreInv'
  BY <1>1, TaskWriteKeeps DEF Unapplied, RunsInv
<1>3. \/ task'.status \in {"created", "queued"}
      \/ task'.status = "running" /\ Unapplied'
      => latest < RunLimit
  BY <1>1, <1>2 DEF RunsInv, RoomForClaims
<1> QED
  BY <1>1, <1>2, <1>3, NoNewRun DEF RunsInv, ClaimsKept

\* Steps that write the open run, or end it.
LEMMA OpenRunStep ==
  ASSUME RunsInv, TypeOK', StoreInv', UNCHANGED latest, ClaimsKept, ~Unapplied,
         \/ task'.status \in {"completed", "failed", "cancelled", "waiting_approval"}
         \/ task'.status = "running" /\ ~Unapplied'
  PROVE  RunsInv'
BY NoNewRun DEF RunsInv, ClaimsKept

LEMMA OpenIsApplied ==
  ASSUME NEW i \in RunId, i = latest, runs[i].phase \in {"executing", "waiting_approval"}
  PROVE  ~Unapplied
BY BoundTypes, EndedIsNotOpen DEF Unapplied, RunId

LEMMA OpenIsAppliedNext ==
  ASSUME NEW i \in RunId, i = latest', runs'[i].phase \in {"executing", "waiting_approval"}
  PROVE  ~Unapplied'
BY BoundTypes, EndedIsNotOpen DEF Unapplied, RunId

LEMMA ExecutingRun ==
  ASSUME RunsInv, NEW r \in Reqs, StillExecuting(r)
  PROVE  /\ req[r].run \in RunId /\ req[r].run = latest /\ Takes(req[r].run)
         /\ runs[req[r].run] \in Run /\ ~Unapplied
<1>1. req[r].run \in RunId /\ runs[req[r].run].phase = "executing"
  BY DEF StillExecuting
<1>2. ~(req[r].run > latest)
  BY <1>1 DEF RunsInv, StoreInv, Unborn, NewRun
<1>3. ~(req[r].run < latest)
  BY <1>1, EndedIsNotOpen DEF RunsInv, StoreInv, OnlyLatestOpen
<1>4. req[r].run = latest
  <2>1. req[r].run \in Nat /\ latest \in Nat
    BY <1>1, BoundTypes DEF RunsInv, TypeOK, StoreTypeOK
  <2> QED
    BY <1>2, <1>3, <2>1
<1> QED
  BY <1>1, <1>4, OpenIsApplied DEF Takes, RunsInv, TypeOK, StoreTypeOK

LEMMA FailKeeps ==
  ASSUME RunsInv, NEW i \in RunId, i = latest, Takes(i), FailRun(i)
  PROVE  StoreInv' /\ task'.status = "failed"
<1>1. EndedAs(runs[i], "failed") \in Run /\ EndedAs(runs[i], "failed").phase = "failed"
  BY CheckpointTypes, CheckpointFields DEF RunsInv, TypeOK, StoreTypeOK, Ended
<1>2. /\ Save(i, EndedAs(runs[i], "failed")) /\ KeepApprovals /\ latest' = i
  BY DEF FailRun, KeepApprovals
<1>3. StoreInv'
  BY <1>1, <1>2, SaveKeeps DEF RunsInv, TypeOK
<1>4. task'.status = "failed"
  BY <1>1, <1>2 DEF Save, StatusOf, RunsInv, TypeOK, StoreTypeOK, Task
<1> QED
  BY <1>3, <1>4

LEMMA SettleKeeps ==
  ASSUME RunsInv, NEW i \in RunId, i = latest, Takes(i), NEW outcome,
         SettleOutcome(i, runs[i], outcome), UNCHANGED latest
  PROVE  StoreInv' /\ task'.status \in {"completed", "failed", "waiting_approval"}
<1> DEFINE proposed == Proposed(runs[i])
<1>1. runs[i] \in Run /\ proposed \in Run
  BY CheckpointTypes DEF RunsInv, TypeOK, StoreTypeOK
<1>2. ASSUME NEW phase \in {"completed", "failed"}, NEW r \in Run,
             Save(i, EndedAs(r, phase)), KeepApprovals
      PROVE  StoreInv' /\ task'.status = phase
  <2>1. EndedAs(r, phase) \in Run /\ EndedAs(r, phase).phase = phase
    BY CheckpointTypes, CheckpointFields DEF Ended
  <2>2. StoreInv'
    BY <1>2, <2>1, SaveKeeps DEF RunsInv, TypeOK
  <2>3. task'.status = phase
    BY <1>2, <2>1 DEF Save, StatusOf, RunsInv, TypeOK, StoreTypeOK, Task
  <2> QED
    BY <2>2, <2>3
<1>3. CASE PauseForApproval(i, proposed)
  <2>1. StoreInv'
    BY <1>1, <1>3, PauseKeeps DEF RunsInv, TypeOK
  <2>2. task'.status = "waiting_approval"
    BY <1>1, <1>3, CheckpointFields
       DEF PauseForApproval, Save, StatusOf, RunsInv, TypeOK, StoreTypeOK, Task
  <2> QED
    BY <2>1, <2>2
<1> QED
  BY <1>1, <1>2, <1>3 DEF SettleOutcome

-----------------------------------------------------------------------------
(* The invariant is inductive: per unit of work *)

LEMMA MovesKeep ==
  ASSUME RunsInv, TypeOK', NEW r \in Reqs,
         \/ RefuseChat(r) \/ Plan(r) \/ ApplyLoses(r) \/ Tool(r) \/ SettleLoses(r)
         \/ StopEarly(r) \/ Die(r)
  PROVE  RunsInv'
<1>1. TypeOK /\ req[r] \in Req
  BY DEF RunsInv, TypeOK
<1>2. CASE RefuseChat(r) \/ Plan(r) \/ ApplyLoses(r) \/ SettleLoses(r)
  <2>1. ClaimsKept
    BY <1>1, <1>2, GoesToClaims
       DEF RefuseChat, Plan, PlanReturns, PlanFails, ApplyLoses, SettleLoses, HasClaim
  <2>2. UNCHANGED store
    BY <1>2 DEF RefuseChat, Plan, PlanReturns, PlanFails, ApplyLoses, SettleLoses
  <2> QED
    BY <2>1, <2>2, RequestStep
<1>3. CASE Tool(r)
  <2>1. /\ \A s \in Reqs : s # r => req'[s] = req[s]
        /\ req'[r].pc \in {"settling", "failing"} /\ req'[r].todo = req[r].todo
        /\ req'[r].prev = req[r].prev
    <3>1. PICK pc \in {"settling", "failing"},
                outcome \in {"none", "succeeded", "failed", "paused"} : ToolEnds(r, pc, outcome)
      BY <1>3 DEF Tool, ToolReturns, ToolRefused, ToolRaises
    <3>2. req' = [req EXCEPT ![r] = [req[r] EXCEPT !.pc = pc, !.outcome = outcome]]
      BY <3>1 DEF ToolEnds
    <3> QED
      BY <1>1, <3>2 DEF TypeOK, Req
  <2>2. ClaimsKept
    BY <2>1 DEF ClaimsKept, HasClaim
  <2>3. UNCHANGED store
    BY <1>3 DEF Tool, ToolReturns, ToolRefused, ToolRaises
  <2> QED
    BY <2>2, <2>3, RequestStep
<1>4. CASE StopEarly(r)
  <2>1. ASSUME NEW todo, GoesOnWithout(r, todo), "release" \in todo => HasClaim(r)
        PROVE  ClaimsKept
    <3>1. /\ \A s \in Reqs : s # r => req'[s] = req[s]
          /\ req'[r].pc = req[r].pc /\ req'[r].todo = todo /\ req'[r].prev = req[r].prev
      BY <1>1, <2>1 DEF GoesOnWithout, TypeOK, Req
    <3> QED
      BY <2>1, <3>1 DEF ClaimsKept, HasClaim
  <2>2. ClaimsKept
    BY <1>1, <1>4, <2>1, GoesToClaims DEF StopEarly, HasClaim
  <2> QED
    BY <1>4, <2>2, RequestStep DEF StopEarly
<1>5. CASE Die(r)
  <2>1. /\ \A s \in Reqs : s # r => req'[s] = req[s]
        /\ req'[r].pc = "idle" /\ req'[r].todo = {}
    BY <1>1, <1>5 DEF Die, TypeOK, Idle
  <2>2. ClaimsKept
    BY <2>1 DEF ClaimsKept, HasClaim
  <2> QED
    BY <1>5, <2>2, RequestStep DEF Die
<1> QED
  BY <1>2, <1>3, <1>4, <1>5

LEMMA ClaimKeeps ==
  ASSUME RunsInv, TypeOK', NEW r \in Reqs, ClaimRun(r) \/ ClaimRetry(r) \/ ClaimHandOff(r) \/ ClaimChat(r)
  PROVE  RunsInv'
<1>1. TakeClaim(r)
  BY DEF ClaimRun, ClaimRetry, ClaimHandOff, ClaimChat
<1>2. /\ UNCHANGED <<runs, latest, approvals, asked>> /\ task'.status = "running"
      /\ \A s \in Reqs : s # r => req'[s] = req[s]
      /\ req'[r].prev = latest
  BY <1>1 DEF TakeClaim, RunsInv, TypeOK, StoreTypeOK, Task, Idle
\* An open run would show in the status.
<1>3. task.status \in {"created", "queued", "failed", "cancelled"} => Unapplied
  <2>1. \A phase \in RunPhase \ Ended :
          StatusOf(phase) \notin {"created", "queued", "failed", "cancelled"}
    BY DEF RunPhase, Ended, StatusOf
  <2>2. \A i \in RunId : runs[i].phase \in RunPhase
    BY DEF RunsInv, TypeOK, StoreTypeOK, Run
  <2>3. latest = 0 \/ latest \in RunId
    BY BoundTypes DEF RunsInv, TypeOK, StoreTypeOK, RunId
  <2> QED
    BY <2>1, <2>2, <2>3 DEF RunsInv, StoreInv, StatusAgrees, Unapplied
<1>4. Unapplied /\ latest < RunLimit
  BY <1>3 DEF ClaimRun, ClaimRetry, ClaimHandOff, ClaimChat, Runnable, Retryable, ClaimExpired,
              RunsInv, RoomForClaims
<1>5. Unapplied' /\ StoreInv'
  BY <1>2, <1>4, TaskWriteKeeps DEF Unapplied, RunsInv
<1>6. \A s \in Reqs : HasClaim(s)' =>
        \/ HasClaim(s) /\ req'[s].prev = req[s].prev
        \/ req'[s].prev = latest /\ Unapplied /\ latest < RunLimit
  BY <1>2, <1>4 DEF HasClaim
<1> QED
  BY <1>2, <1>4, <1>5, <1>6, NoNewRun DEF RunsInv

LEMMA ApplyKeeps ==
  ASSUME RunsInv, TypeOK', NEW r \in Reqs,
         ApplyBlocked(r) \/ ApplyPauses(r) \/ ApplyAllowed(r)
  PROVE  RunsInv'
<1> DEFINE proposed == Proposed(NewRun)
           checkpoint == Executing(proposed)
<1>1. /\ proposed \in Run /\ checkpoint \in Run /\ checkpoint.phase = "executing"
      /\ EndedAs(proposed, "failed") \in Run /\ EndedAs(proposed, "failed").phase = "failed"
  BY CheckpointTypes, CheckpointFields DEF Ended
<1> PICK i \in RunId : NewRunIs(r, i)
  BY DEF ApplyBlocked, ApplyPauses, ApplyAllowed
<1>2. /\ latest \in Nat /\ i = latest + 1 /\ latest' = i /\ req[r].pc = "applying"
      /\ req[r].prev = latest
      /\ \A j \in RunId : NewRunIs(r, j) => j = i
  BY BoundTypes DEF NewRunIs, ClaimHolds, RunsInv, TypeOK, StoreTypeOK
<1> HIDE DEF proposed, checkpoint
<1>3. HasClaim(r) /\ Takes(i) /\ latest < RunLimit
  BY <1>2 DEF HasClaim, RunsInv, ClaimsSawTheEnd, RoomForClaims, Takes
<1>4. /\ StoreInv' /\ ClaimsKept
      /\ \/ task'.status \in {"failed", "waiting_approval"}
         \/ task'.status = "running" /\ ~Unapplied'
  <2>1. CASE ApplyBlocked(r)
    <3>1. Save(i, EndedAs(proposed, "failed")) /\ GoesTo(r, "idle", req[r].todo) /\ KeepApprovals
      BY <1>2, <2>1 DEF ApplyBlocked, proposed, KeepApprovals
    <3>2. task'.status = "failed"
      BY <1>1, <3>1 DEF Save, StatusOf, RunsInv, TypeOK, StoreTypeOK, Task
    <3>3. StoreInv'
      BY <1>1, <1>2, <1>3, <3>1, SaveKeeps DEF RunsInv, TypeOK
    <3> QED
      BY <1>3, <3>1, <3>2, <3>3, GoesToClaims DEF RunsInv
  <2>2. CASE ApplyPauses(r)
    <3>1. PauseForApproval(i, proposed) /\ GoesTo(r, "idle", req[r].todo)
      BY <1>2, <2>2 DEF ApplyPauses, proposed
    <3>2. task'.status = "waiting_approval"
      BY <1>1, <3>1, CheckpointFields
         DEF PauseForApproval, Save, StatusOf, RunsInv, TypeOK, StoreTypeOK, Task
    <3>3. StoreInv'
      BY <1>1, <1>2, <1>3, <3>1, PauseKeeps DEF RunsInv, TypeOK
    <3> QED
      BY <1>3, <3>1, <3>2, <3>3, GoesToClaims DEF RunsInv
  <2>3. CASE ApplyAllowed(r)
    <3>1. /\ Save(i, checkpoint) /\ KeepApprovals
          /\ GoesTo(r, "idle", req[r].todo) \/ Executes(r, i, checkpoint, 0)
      BY <1>2, <2>3 DEF ApplyAllowed, proposed, checkpoint, KeepApprovals
    <3>2. task'.status = "running" /\ runs'[i].phase = "executing"
      BY <1>1, <3>1 DEF Save, StatusOf, RunsInv, TypeOK, StoreTypeOK, Task
    <3>3. ~Unapplied'
      BY <1>2, <3>2, OpenIsAppliedNext
    <3>4. StoreInv'
      BY <1>1, <1>2, <1>3, <3>1, SaveKeeps DEF RunsInv, TypeOK
    <3> QED
      BY <1>3, <3>1, <3>2, <3>3, <3>4, GoesToClaims, ExecutesClaims DEF RunsInv
  <2> QED
    BY <2>1, <2>2, <2>3
<1>5. RunLimit \in Nat /\ \A s \in Reqs : HasClaim(s) => req[s].prev <= latest /\ req[s].prev \in Nat
  BY BoundTypes DEF RunsInv, ClaimsSawTheEnd, TypeOK, Req
<1>6. ClaimsSawTheEnd' /\ \A s \in Reqs : HasClaim(s)' => req'[s].prev # latest'
  BY <1>2, <1>4, <1>5 DEF ClaimsSawTheEnd, ClaimsKept
<1>7. RoomForClaims' /\ WithinRunLimit'
  BY <1>2, <1>3, <1>4, <1>5, <1>6 DEF RoomForClaims, WithinRunLimit
<1> QED
  BY <1>4, <1>6, <1>7 DEF RunsInv

LEMMA SettleUnitKeeps ==
  ASSUME RunsInv, TypeOK', NEW r \in Reqs, Settle(r) \/ SettleFailure(r)
  PROVE  RunsInv'
<1>1. StillExecuting(r) /\ UNCHANGED latest /\ GoesTo(r, "idle", req[r].todo)
  BY DEF Settle, SettleFailure, FailRun
<1>2. ClaimsKept
  BY <1>1, GoesToClaims DEF RunsInv, HasClaim
<1>3. StoreInv' /\ task'.status \in {"completed", "failed", "waiting_approval"}
  BY <1>1, ExecutingRun, SettleKeeps, FailKeeps DEF Settle, SettleFailure
<1> QED
  BY <1>1, <1>2, <1>3, ExecutingRun, OpenRunStep

LEMMA CleanUpKeeps ==
  ASSUME RunsInv, TypeOK', NEW r \in Reqs, CleanUp(r)
  PROVE  RunsInv'
<1>1. PICK step \in req[r].todo : GoesTo(r, req[r].pc, req[r].todo \ {step})
  BY DEF CleanUp, Release, ResetUnrun, SettleQuietly, CleanedUp
<1>2. ClaimsKept
  BY <1>1, GoesToClaims DEF RunsInv, HasClaim
<1>3. CASE SettleQuietly(r)
  <2>1. CASE StillExecuting(r)
    <3>1. FailRun(req[r].run) /\ UNCHANGED latest
      BY <1>3, <2>1 DEF SettleQuietly, FailRun
    <3> QED
      BY <1>2, <2>1, <3>1, ExecutingRun, FailKeeps, OpenRunStep
  <2>2. CASE ~StillExecuting(r)
    BY <1>2, <1>3, <2>2, RequestStep DEF SettleQuietly
  <2> QED
    BY <2>1, <2>2
\* A task row that goes back to what it was before the claim, or to created.
<1>4. CASE Release(r) \/ ResetUnrun(r)
  <2>1. UNCHANGED <<runs, latest, approvals, asked>>
    BY <1>4 DEF Release, ResetUnrun
  <2>2. \/ task' = task
        \/ Unapplied /\ latest < RunLimit
    <3>1. CASE Release(r)
      BY <3>1 DEF Release, CleanedUp, HasClaim, RunsInv, ClaimsSawTheEnd, RoomForClaims
    <3>2. CASE ResetUnrun(r)
      BY <3>2, BoundTypes DEF ResetUnrun, Unapplied
    <3> QED
      BY <1>4, <3>1, <3>2
  <2>3. StoreInv' /\ (Unapplied <=> Unapplied')
    BY <2>1, <2>2, TaskWriteKeeps DEF RunsInv, Unapplied
  <2>4. \/ task'.status \in {"created", "queued"}
        \/ task'.status = "running" /\ Unapplied'
        => latest < RunLimit
    BY <2>2, <2>3 DEF RunsInv, RoomForClaims
  <2> QED
    BY <1>2, <2>1, <2>3, <2>4, NoNewRun DEF RunsInv, ClaimsKept
<1> QED
  BY <1>3, <1>4 DEF CleanUp

LEMMA DecideKeeps ==
  ASSUME RunsInv, TypeOK', NEW a \in ApprovalId, Decide(a)
  PROVE  RunsInv'
<1> DEFINE i == approvals[a].run
\* A pending approval's run waits for it: each decision that ends it fails the run.
<1>1. Pending(a)
  BY DEF Decide, DecideLapsed, Reject, RefuseChangedTarget, ApproveBlocked, EndDecision
<1>2. /\ i \in RunId /\ i = latest /\ runs[i] \in Run
      /\ runs[i].phase = "waiting_approval" /\ AwaitsIt(a)
  BY <1>1, PendingIsLatest DEF RunsInv, TypeOK, StoreTypeOK
<1>3. PICK status \in {"approved", "rejected", "expired"} : EndDecision(a, status, TRUE)
  <2>1. runs[i].phase \notin Ended
    BY <1>2, EndedIsNotOpen
  <2> QED
    BY <1>2, <2>1 DEF Decide, DecideLapsed, Reject, RefuseChangedTarget, ApproveBlocked
<1> DEFINE failed == EndedAs(runs[i], "failed")
<1>4. failed \in Run /\ failed.phase = "failed"
  BY <1>2, CheckpointTypes, CheckpointFields DEF Ended
<1>5. Decided(a, status) /\ Save(i, failed) /\ UNCHANGED <<latest, asked, req>>
  BY <1>3 DEF EndDecision
<1> HIDE DEF failed
<1>6. StoreInv'
  BY <1>1, <1>4, <1>5, DecisionKeeps DEF RunsInv, TypeOK
<1>7. task'.status = "failed" /\ ClaimsKept
  BY <1>4, <1>5 DEF Save, StatusOf, RunsInv, TypeOK, StoreTypeOK, Task, ClaimsKept, HasClaim
<1> QED
  BY <1>2, <1>5, <1>6, <1>7, OpenIsApplied, OpenRunStep

LEMMA ApproveKeeps ==
  ASSUME RunsInv, TypeOK', NEW a \in ApprovalId, NEW r \in Reqs, Approve(r, a)
  PROVE  RunsInv'
<1> DEFINE i == approvals[a].run
           checkpoint == Executing(runs[i])
<1>1. /\ Pending(a) /\ Decided(a, "approved") /\ Save(i, checkpoint)
      /\ Executes(r, i, checkpoint, a) /\ UNCHANGED <<latest, asked>>
  BY DEF Approve
<1>2. /\ i \in RunId /\ i = latest /\ runs[i] \in Run /\ runs[i].phase = "waiting_approval"
  BY <1>1, PendingIsLatest DEF RunsInv, TypeOK, StoreTypeOK
<1>3. checkpoint \in Run /\ checkpoint.phase = "executing"
  BY <1>2, CheckpointTypes, CheckpointFields
<1> HIDE DEF checkpoint
<1>4. StoreInv'
  BY <1>1, <1>3, DecisionKeeps DEF RunsInv, TypeOK
<1>5. task'.status = "running" /\ runs'[i].phase = "executing"
  BY <1>1, <1>2, <1>3 DEF Save, StatusOf, RunsInv, TypeOK, StoreTypeOK, Task
<1>6. ClaimsKept
  BY <1>1, ExecutesClaims DEF RunsInv
<1> QED
  BY <1>1, <1>2, <1>4, <1>5, <1>6, OpenIsApplied, OpenIsAppliedNext, OpenRunStep

LEMMA WholeTaskKeeps ==
  ASSUME RunsInv, TypeOK',
         \/ LeaseLapses \/ Cancel \/ EmergencyStop \/ Archive \/ Unarchive
         \/ \E a \in ApprovalId : ApprovalLapses(a)
  PROVE  RunsInv'
<1>1. CASE Cancel \/ EmergencyStop
  <2>1. CancelRows /\ MarkClaims /\ UNCHANGED latest
    BY <1>1 DEF Cancel, EmergencyStop, CancelRows
  <2>2. StoreInv'
    BY <2>1, CancelKeeps DEF RunsInv, TypeOK
  <2>3. ClaimsKept
    BY <2>1 DEF MarkClaims, ClaimsKept, HasClaim, RunsInv, TypeOK, Req
  <2>4. task'.status = "cancelled" /\ (Unapplied => Unapplied')
    BY <2>1 DEF CancelRows, Unapplied, RunsInv, TypeOK, StoreTypeOK, Task
  <2> QED
    BY <2>1, <2>2, <2>3, <2>4, NoNewRun DEF RunsInv, ClaimsKept
<1>2. CASE LeaseLapses \/ Archive \/ Unarchive
  <2>1. UNCHANGED <<runs, latest, approvals, asked, req>> /\ task'.status = task.status
    BY <1>2 DEF LeaseLapses, Archive, Unarchive, RunsInv, TypeOK, StoreTypeOK, Task
  <2>2. StoreInv' /\ (Unapplied <=> Unapplied')
    BY <2>1, TaskWriteKeeps DEF RunsInv, Unapplied
  <2>3. ClaimsKept
    BY <2>1 DEF ClaimsKept, HasClaim
  <2> QED
    BY <2>1, <2>2, <2>3, NoNewRun DEF RunsInv, RoomForClaims, ClaimsKept
<1>3. CASE \E a \in ApprovalId : ApprovalLapses(a)
  <2>1. UNCHANGED <<task, runs, latest, asked, req>>
    BY <1>3 DEF ApprovalLapses
  <2>2. \A b \in ApprovalId : /\ approvals'[b].status = approvals[b].status
                              /\ approvals'[b].run = approvals[b].run
                              /\ approvals'[b].call = approvals[b].call
    BY <1>3 DEF ApprovalLapses, RunsInv, TypeOK, StoreTypeOK, Approval
  <2>3. WaitingIsDecidable'
    <3>1. \A j \in RunId : j <= latest /\ runs[j].phase = "waiting_approval" =>
            runs[j].approval \in ApprovalId
      BY BoundTypes DEF RunsInv, StoreInv, WaitingIsDecidable, TypeOK, StoreTypeOK, ApprovalId
    <3> QED
      BY <2>1, <2>2, <3>1 DEF RunsInv, StoreInv, WaitingIsDecidable
  <2>4. StoreInv' /\ (Unapplied <=> Unapplied')
    BY <2>1, <2>2, <2>3 DEF RunsInv, StoreInv, OnlyLatestOpen, PendingIsAwaited,
                            StatusAgrees, Unborn, Unapplied
  <2>5. ClaimsKept
    BY <2>1 DEF ClaimsKept, HasClaim
  <2> QED
    BY <2>1, <2>4, <2>5, NoNewRun DEF RunsInv, RoomForClaims, ClaimsKept
<1> QED
  BY <1>1, <1>2, <1>3

LEMMA InitRunsInv == Init => RunsInv
<1> SUFFICES ASSUME Init PROVE RunsInv
  OBVIOUS
<1>1. latest = 0 /\ asked = 0 /\ \A i \in RunId : runs[i] = NewRun /\ i >= 1
  BY DEF Init, RunId
<1>2. StoreInv
  <2>1. \A a \in ApprovalId : ~(a <= asked)
    BY <1>1 DEF ApprovalId
  <2>2. \A i \in RunId : ~(i <= latest) /\ i # latest /\ ~(i < latest)
    BY <1>1 DEF RunId
  <2> QED
    BY <1>1, <2>1, <2>2
       DEF StoreInv, OnlyLatestOpen, PendingIsAwaited, WaitingIsDecidable, StatusAgrees, Unborn
<1>3. \A r \in Reqs : ~HasClaim(r)
  BY DEF Init, HasClaim, Idle
<1> QED
  BY <1>1, <1>2, <1>3, TypeInit, BoundTypes
     DEF RunsInv, ClaimsSawTheEnd, RoomForClaims, WithinRunLimit

LEMMA RunsInvStep == RunsInv /\ [Next]_vars => RunsInv'
<1> SUFFICES ASSUME RunsInv, [Next]_vars PROVE RunsInv'
  OBVIOUS
<1>1. TypeOK'
  BY TypeStep DEF RunsInv
<1>2. ASSUME NEW r \in Reqs,
             \/ Start(r) \/ Plan(r) \/ Apply(r) \/ Tool(r) \/ SettleUnit(r)
             \/ CleanUp(r) \/ StopEarly(r) \/ Die(r)
      PROVE  RunsInv'
  BY <1>1, <1>2, MovesKeep, ClaimKeeps, ApplyKeeps, SettleUnitKeeps, CleanUpKeeps
     DEF Start, Apply, SettleUnit
<1>3. ASSUME NEW a \in ApprovalId,
             \/ ApprovalLapses(a) \/ Decide(a) \/ \E r \in Reqs : Approve(r, a)
      PROVE  RunsInv'
  BY <1>1, <1>3, DecideKeeps, ApproveKeeps, WholeTaskKeeps
<1>4. CASE LeaseLapses \/ Cancel \/ EmergencyStop \/ Archive \/ Unarchive
  BY <1>1, <1>4, WholeTaskKeeps
<1>5. CASE UNCHANGED vars
  <2>1. UNCHANGED store /\ ClaimsKept
    BY <1>5 DEF vars, ClaimsKept, HasClaim
  <2> QED
    BY <1>1, <2>1, RequestStep
<1> QED
  BY <1>2, <1>3, <1>4, <1>5 DEF Next

LEMMA RunsInvHolds == Spec => []RunsInv
BY InitRunsInv, RunsInvStep, PTL DEF Spec

-----------------------------------------------------------------------------
(* Theorems *)

\* At most the newest run of a task works or waits, however claims, retries, cancels,
\* takeovers and late clean-ups interleave (inline_runs._locked_claimed_task, _release).
THEOREM OneOpenRun == Spec => []OnlyLatestOpen
<1>1. RunsInv => OnlyLatestOpen
  BY DEF RunsInv, StoreInv
<1> QED
  BY <1>1, RunsInvHolds, PTL

\* A pending approval is exactly the one its waiting run asks for, so a decision never
\* starts or ends another run (main._decide_in_unit, AgentRuntime.begin_execution).
THEOREM DecisionsMeetTheirRun == Spec => []PendingIsAwaited
<1>1. RunsInv => PendingIsAwaited
  BY DEF RunsInv, StoreInv
<1> QED
  BY <1>1, RunsInvHolds, PTL

\* A run that waits for an approval has a pending one of its own that a decision or its
\* expiry can settle: no run waits for nothing (agent_runtime.apply_plan).
THEOREM WaitingCanBeDecided == Spec => []WaitingIsDecidable
<1>1. RunsInv => WaitingIsDecidable
  BY DEF RunsInv, StoreInv
<1> QED
  BY <1>1, RunsInvHolds, PTL

\* The status the clients see is the open run's (save_task and save_run together).
THEOREM StatusIsTrue == Spec => []StatusAgrees
<1>1. RunsInv => StatusAgrees
  BY DEF RunsInv, StoreInv
<1> QED
  BY <1>1, RunsInvHolds, PTL

\* The loop limit holds although it is checked at the claim and the run is only stored
\* at apply (agent_loop_limits.check_retry_allowed).
THEOREM LoopLimitHolds == Spec => []WithinRunLimit
<1>1. RunsInv => WithinRunLimit
  BY DEF RunsInv
<1> QED
  BY <1>1, RunsInvHolds, PTL

-----------------------------------------------------------------------------
(* Ended runs *)

\* A step of Next leaves the runs alone, writes one that is open or new, or cancels.
LEMMA RunsWritten ==
  ASSUME RunsInv, Next
  PROVE  \/ runs' = runs
         \/ CancelRows
         \/ \E i \in RunId : /\ i > latest \/ runs[i].phase \notin Ended
                             /\ \E r : runs' = [runs EXCEPT ![i] = r]
<1>1. latest \in Nat
  BY BoundTypes DEF RunsInv, TypeOK, StoreTypeOK
<1> DEFINE Writes == \E i \in RunId : /\ i > latest \/ runs[i].phase \notin Ended
                                     /\ \E r : runs' = [runs EXCEPT ![i] = r]
<1>2. ASSUME NEW i \in RunId, i > latest \/ runs[i].phase \notin Ended, NEW r,
             Save(i, r) \/ PauseForApproval(i, r)
      PROVE  Writes
  BY <1>2 DEF Save, PauseForApproval
<1>3. ASSUME NEW r \in Reqs, ApplyBlocked(r) \/ ApplyPauses(r) \/ ApplyAllowed(r)
      PROVE  Writes
  <2>1. PICK i \in RunId : /\ NewRunIs(r, i)
                           /\ \E c : Save(i, c) \/ PauseForApproval(i, c)
    <3>1. CASE ApplyBlocked(r)
      BY <3>1 DEF ApplyBlocked
    <3>2. CASE ApplyPauses(r)
      BY <3>2 DEF ApplyPauses
    <3>3. CASE ApplyAllowed(r)
      BY <3>3 DEF ApplyAllowed
    <3> QED
      BY <1>3, <3>1, <3>2, <3>3
  <2>2. i > latest
    BY <1>1, <2>1 DEF NewRunIs
  <2> QED
    BY <1>2, <2>1, <2>2
<1>4. ASSUME NEW r \in Reqs, StillExecuting(r),
             Settle(r) \/ SettleFailure(r) \/ SettleQuietly(r)
      PROVE  Writes
  <2>1. PICK i \in RunId : i = req[r].run /\ runs[i].phase \notin Ended
    BY <1>4, EndedIsNotOpen DEF StillExecuting
  <2>2. PICK c : Save(i, c) \/ PauseForApproval(i, c)
    BY <1>4, <2>1 DEF Settle, SettleFailure, SettleQuietly, SettleOutcome, FailRun
  <2> QED
    BY <1>2, <2>1, <2>2
<1>5. ASSUME NEW a \in ApprovalId, Decide(a) \/ \E r \in Reqs : Approve(r, a)
      PROVE  Writes \/ runs' = runs
  <2>1. Pending(a)
    BY <1>5 DEF Decide, DecideLapsed, Reject, RefuseChangedTarget, ApproveBlocked,
                EndDecision, Approve
  <2>2. approvals[a].run \in RunId /\ runs[approvals[a].run].phase \notin Ended
    BY <2>1, PendingIsLatest, EndedIsNotOpen DEF RunsInv, TypeOK
  <2>3. runs' = runs \/ \E c : Save(approvals[a].run, c)
    BY <1>5 DEF Decide, DecideLapsed, Reject, RefuseChangedTarget, ApproveBlocked,
                EndDecision, Approve
  <2> QED
    BY <1>2, <2>2, <2>3
<1> HIDE DEF Writes
<1>6. ASSUME NEW r \in Reqs,
             \/ Start(r) \/ Plan(r) \/ Apply(r) \/ Tool(r) \/ SettleUnit(r)
             \/ CleanUp(r) \/ StopEarly(r) \/ Die(r)
      PROVE  Writes \/ runs' = runs
  <2>1. CASE Start(r) \/ Plan(r) \/ Tool(r) \/ StopEarly(r) \/ Die(r)
    BY <2>1 DEF Start, ClaimRun, ClaimRetry, ClaimHandOff, ClaimChat, RefuseChat, TakeClaim, Plan, PlanReturns,
                PlanFails, Tool, ToolReturns, ToolRefused, ToolRaises, StopEarly, Die, store
  <2>2. CASE Apply(r)
    BY <1>3, <2>2 DEF Apply, ApplyLoses, store
  <2>3. CASE SettleUnit(r)
    BY <1>4, <2>3 DEF SettleUnit, Settle, SettleFailure, SettleLoses, store
  <2>4. CASE CleanUp(r)
    BY <1>4, <2>4 DEF CleanUp, Release, ResetUnrun, SettleQuietly, store
  <2> QED
    BY <1>6, <2>1, <2>2, <2>3, <2>4
<1>7. ASSUME \/ LeaseLapses \/ Archive \/ Unarchive \/ \E a \in ApprovalId : ApprovalLapses(a)
      PROVE  runs' = runs
  BY <1>7 DEF LeaseLapses, Archive, Unarchive, ApprovalLapses
<1>8. ASSUME Cancel \/ EmergencyStop PROVE CancelRows
  BY <1>8 DEF Cancel, EmergencyStop
<1>9. Writes \/ runs' = runs \/ CancelRows
  BY <1>5, <1>6, <1>7, <1>8 DEF Next
<1> QED
  BY <1>9 DEF Writes

\* A run that ended is never written again, by nobody who still remembers it
\* (inline_runs._locked_executing_run, AgentRuntime.begin_execution).
THEOREM EndedStays == Spec => EndedRunsStay
<1>1. RunsInv /\ [Next]_vars =>
        [\A i \in RunId : i <= latest /\ runs[i].phase \in Ended => runs'[i] = runs[i]]_vars
  <2> SUFFICES ASSUME RunsInv, Next, NEW i \in RunId, i <= latest, runs[i].phase \in Ended
               PROVE  runs'[i] = runs[i]
    OBVIOUS
  <2>1. i \in Nat /\ latest \in Nat
    BY BoundTypes DEF RunsInv, TypeOK, StoreTypeOK
  <2>2. CASE CancelRows
    BY <2>2 DEF CancelRows
  <2>3. CASE \E j \in RunId : /\ j > latest \/ runs[j].phase \notin Ended
                              /\ \E r : runs' = [runs EXCEPT ![j] = r]
    BY <2>1, <2>3 DEF RunsInv, TypeOK, StoreTypeOK
  <2> QED
    BY <2>2, <2>3, RunsWritten
<1> QED
  BY <1>1, RunsInvHolds, PTL DEF Spec, EndedRunsStay

-----------------------------------------------------------------------------
(* The inductive invariant *)

\* What run i may reach a handler for: an approval, or (0) policy's own go-ahead.
Authorities(i) ==
  {a \in 1..asked : approvals[a].run = i /\ approvals[a].status = "approved"}
    \cup {a \in {0} : i \in allowed}

\* Request r executes run i under authority a and has not reached the handler yet.
Under(r, i, a) == req[r].pc = "executing" /\ req[r].run = i /\ req[r].by = a

\* The authorities of run i that a request, or one of `others', is about to use.
Used(others, i) ==
  {a \in 0..MaxApprovals : <<i, a>> \in others \/ \E r \in Reqs : Under(r, i, a)}

\* Each execution holds an authority of its own, and every handler call used one up
\* that nobody holds.  `others': authorities <<run, a>> held outside the requests.
AuthoritiesHeld(others) ==
  /\ \A i \in allowed : i <= latest
  /\ \A r \in Reqs : req[r].pc = "executing" => req[r].run \in RunId
  /\ \A r \in Reqs, i \in RunId, a \in 0..MaxApprovals : Under(r, i, a) =>
       /\ a \in Authorities(i) /\ <<i, a>> \notin others
       /\ req[r].call = IF a = 0 THEN 1 ELSE approvals[a].call
       /\ \A s \in Reqs : Under(s, i, a) => s = r
  /\ \A i \in RunId, a \in 0..MaxApprovals : <<i, a>> \in others => a \in Authorities(i)

CallsPaid(others) ==
  \A i \in RunId : acts[i] <= Cardinality(Authorities(i) \ Used(others, i))

CallsBacked(others) == AuthoritiesHeld(others) /\ CallsPaid(others)

\* A request settles an existing run, at a version that run has reached.
VersionsSeen ==
  \A r \in Reqs : Works(r) => /\ req[r].run \in RunId /\ req[r].run <= latest
                              /\ req[r].version <= runs[req[r].run].version

\* Two requests never work on the same version of a run.
OneEach ==
  \A r, s \in Reqs : Works(r) /\ Works(s) /\ req[r].run = req[s].run
                       /\ req[r].version = req[s].version => r = s

ArchivedIsUnapplied == task.archived => Unapplied

WorkInv == RunsInv /\ VersionsSeen /\ OneEach /\ CallsBacked({}) /\ ArchivedIsUnapplied

-----------------------------------------------------------------------------
(* What the steps share *)

\* Approvals that were given stay, and no run disappears.
DecisionsStand ==
  /\ latest <= latest' /\ asked <= asked'
  /\ \A a \in 1..asked : approvals[a].status = "approved" =>
       /\ approvals'[a].status = "approved"
       /\ approvals'[a].run = approvals[a].run /\ approvals'[a].call = approvals[a].call

\* Nobody starts an execution; those there are go on, or are over.
MemoryKept ==
  \A s \in Reqs :
    /\ Works(s)' => /\ Works(s)
                    /\ req'[s].run = req[s].run /\ req'[s].version = req[s].version
    /\ req'[s].pc = "executing" =>
         /\ req[s].pc = "executing" /\ req'[s].run = req[s].run
         /\ req'[s].by = req[s].by /\ req'[s].call = req[s].call

LEMMA GoesToMemory ==
  ASSUME TypeOK, NEW r \in Reqs, NEW pc, NEW todo, GoesTo(r, pc, todo),
         pc = "executing" => req[r].pc = "executing",
         pc \in {"executing", "settling", "failing"} \/ "quiet" \in todo => Works(r)
  PROVE  MemoryKept
<1>1. \A s \in Reqs : s # r => req'[s] = req[s]
  BY DEF GoesTo, TypeOK
<1>2. req'[r] = Idle \/ req'[r] = [req[r] EXCEPT !.pc = pc, !.todo = todo]
  BY DEF GoesTo, TypeOK
<1>3. CASE req'[r] = Idle
  <2>1. ~Works(r)' /\ req'[r].pc # "executing"
    BY <1>3 DEF Works, Idle
  <2> QED
    BY <1>1, <2>1 DEF MemoryKept, Works
<1>4. CASE req'[r] = [req[r] EXCEPT !.pc = pc, !.todo = todo]
  <2>1. /\ req'[r].pc = pc /\ req'[r].todo = todo /\ req'[r].run = req[r].run
        /\ req'[r].version = req[r].version /\ req'[r].by = req[r].by
        /\ req'[r].call = req[r].call
    BY <1>4 DEF TypeOK, Req
  <2> QED
    BY <1>1, <2>1 DEF MemoryKept, Works
<1> QED
  BY <1>2, <1>3, <1>4

\* What the units that pause, decide, cancel or only save do to given approvals.
LEMMA PauseStands ==
  ASSUME StoreTypeOK, NEW i, NEW r, PauseForApproval(i, r), latest <= latest'
  PROVE  DecisionsStand
<1>1. asked \in Nat /\ asked' = asked + 1
  BY BoundTypes DEF StoreTypeOK, PauseForApproval
<1>2. \A a \in 1..asked : approvals'[a] = approvals[a]
  BY <1>1, BoundTypes DEF StoreTypeOK, PauseForApproval, ApprovalId
<1> QED
  BY <1>1, <1>2 DEF DecisionsStand

LEMMA KeptStands ==
  ASSUME StoreTypeOK, KeepApprovals, latest <= latest'
  PROVE  DecisionsStand
BY BoundTypes DEF StoreTypeOK, KeepApprovals, DecisionsStand

LEMMA DecidedStands ==
  ASSUME StoreTypeOK, NEW a \in ApprovalId, Pending(a), NEW status, Decided(a, status),
         UNCHANGED <<latest, asked>>
  PROVE  DecisionsStand
<1>1. latest \in Nat /\ asked \in Nat /\ 1..asked \subseteq ApprovalId
  BY BoundTypes DEF StoreTypeOK, ApprovalId
<1>2. \A b \in ApprovalId : b # a => approvals'[b] = approvals[b]
  BY DEF StoreTypeOK, Decided
<1> QED
  BY <1>1, <1>2 DEF DecisionsStand, Pending

LEMMA CancelStands == ASSUME StoreTypeOK, CancelRows PROVE DecisionsStand
<1>1. latest \in Nat /\ asked \in Nat /\ 1..asked \subseteq ApprovalId
  BY BoundTypes DEF StoreTypeOK, ApprovalId
<1> QED
  BY <1>1 DEF CancelRows, DecisionsStand

LEMMA SettleStands ==
  ASSUME StoreTypeOK, NEW i, NEW r, NEW outcome, SettleOutcome(i, r, outcome),
         UNCHANGED latest
  PROVE  DecisionsStand
<1>1. latest <= latest'
  BY BoundTypes DEF StoreTypeOK
<1> QED
  BY <1>1, PauseStands, KeptStands DEF SettleOutcome

\* In every step approvals stand: what was authorised once stays so.
LEMMA DecisionsStep == TypeOK /\ [Next]_vars => DecisionsStand
<1> SUFFICES ASSUME TypeOK, [Next]_vars PROVE DecisionsStand
  OBVIOUS
<1>1. StoreTypeOK /\ latest \in Nat
  BY BoundTypes DEF TypeOK, StoreTypeOK
<1>2. ASSUME UNCHANGED <<latest, approvals, asked>> PROVE DecisionsStand
  BY <1>1, <1>2, KeptStands DEF KeepApprovals
<1>3. ASSUME NEW r \in Reqs, Apply(r) PROVE DecisionsStand
  <2>1. CASE ApplyLoses(r)
    BY <1>2, <2>1 DEF ApplyLoses, store
  <2>2. CASE ApplyBlocked(r) \/ ApplyPauses(r) \/ ApplyAllowed(r)
    <3>1. latest <= latest'
      BY <1>1, <2>2 DEF ApplyBlocked, ApplyPauses, ApplyAllowed, NewRunIs
    <3>2. KeepApprovals \/ \E i, c : PauseForApproval(i, c)
      BY <2>2 DEF ApplyBlocked, ApplyPauses, ApplyAllowed, KeepApprovals
    <3> QED
      BY <1>1, <3>1, <3>2, KeptStands, PauseStands
  <2> QED
    BY <1>3, <2>1, <2>2 DEF Apply
<1>4. ASSUME NEW r \in Reqs, SettleUnit(r) \/ CleanUp(r) PROVE DecisionsStand
  <2>1. CASE Settle(r)
    BY <1>1, <2>1, SettleStands DEF Settle
  <2>2. CASE ~Settle(r)
    <3>1. UNCHANGED <<latest, approvals, asked>>
      BY <1>4, <2>2 DEF SettleUnit, SettleFailure, SettleLoses, FailRun, CleanUp, Release,
                        ResetUnrun, SettleQuietly, store
    <3> QED
      BY <1>2, <3>1
  <2> QED
    BY <2>1, <2>2
<1>5. ASSUME NEW r \in Reqs, Start(r) \/ Plan(r) \/ Tool(r) \/ StopEarly(r) \/ Die(r)
      PROVE  DecisionsStand
  BY <1>2, <1>5 DEF Start, ClaimRun, ClaimRetry, ClaimHandOff, ClaimChat, RefuseChat, TakeClaim,
                    Plan, PlanReturns, PlanFails, Tool, ToolReturns, ToolRefused, ToolRaises,
                    StopEarly, Die, store
<1>6. ASSUME NEW a \in ApprovalId, Decide(a) \/ \E r \in Reqs : Approve(r, a)
      PROVE  DecisionsStand
  <2>1. Pending(a) /\ UNCHANGED <<latest, asked>> /\ \E status : Decided(a, status)
    BY <1>6 DEF Decide, DecideLapsed, Reject, RefuseChangedTarget, ApproveBlocked,
                EndDecision, Approve
  <2> QED
    BY <1>1, <2>1, DecidedStands
<1>7. ASSUME NEW a \in ApprovalId, ApprovalLapses(a) PROVE DecisionsStand
  <2>1. \A b \in ApprovalId : b # a => approvals'[b] = approvals[b]
    BY <1>1, <1>7 DEF ApprovalLapses, StoreTypeOK
  <2>2. 1..asked \subseteq ApprovalId /\ asked \in Nat
    BY <1>1, BoundTypes DEF StoreTypeOK, ApprovalId
  <2> QED
    BY <1>1, <1>7, <2>1, <2>2 DEF DecisionsStand, ApprovalLapses, Pending
<1>8. ASSUME Cancel \/ EmergencyStop PROVE DecisionsStand
  BY <1>1, <1>8, CancelStands DEF Cancel, EmergencyStop
<1>9. ASSUME LeaseLapses \/ Archive \/ Unarchive \/ UNCHANGED vars PROVE DecisionsStand
  BY <1>2, <1>9 DEF LeaseLapses, Archive, Unarchive, vars, store
<1> QED
  BY <1>3, <1>4, <1>5, <1>6, <1>7, <1>8, <1>9 DEF Next

-----------------------------------------------------------------------------
(* Authorities: what each kind of step keeps of CallsBacked *)

LEMMA AuthoritiesFinite ==
  ASSUME StoreTypeOK, NEW i, NEW S \in SUBSET Authorities(i)
  PROVE  /\ IsFiniteSet(S) /\ Cardinality(S) \in Nat
         /\ Authorities(i) \subseteq 0..MaxApprovals
<1>1. Authorities(i) \subseteq 0..MaxApprovals
  BY BoundTypes DEF Authorities, StoreTypeOK
<1>2. IsFiniteSet(0..MaxApprovals)
  BY BoundTypes, FS_Interval
<1> QED
  BY <1>1, <1>2, FS_Subset, FS_CardinalityType

LEMMA AuthoritiesGrow ==
  ASSUME StoreTypeOK, DecisionsStand, allowed \subseteq allowed', StoreTypeOK'
  PROVE  \A i : Authorities(i) \subseteq Authorities(i)'
<1>1. asked \in Nat /\ asked' \in Nat
  BY BoundTypes DEF StoreTypeOK
<1> QED
  BY <1>1 DEF Authorities, DecisionsStand

\* A step that reaches no handler leaves every spare authority spare.
LEMMA PaidStays ==
  ASSUME StoreTypeOK, StoreTypeOK', acts' = acts, acts \in [RunId -> Nat], NEW others,
         CallsPaid(others),
         \A i \in RunId : Authorities(i) \ Used(others, i)
                            \subseteq Authorities(i)' \ Used(others, i)'
  PROVE  CallsPaid(others)'
<1> SUFFICES ASSUME NEW i \in RunId
             PROVE  acts[i] <= Cardinality(Authorities(i)' \ Used(others, i)')
  BY DEF CallsPaid
<1> DEFINE S == Authorities(i) \ Used(others, i)
           T == Authorities(i)' \ Used(others, i)'
<1>1. S \subseteq T /\ acts[i] <= Cardinality(S) /\ acts[i] \in Nat
  BY DEF CallsPaid
<1>2. IsFiniteSet(S) /\ Cardinality(S) \in Nat
  BY AuthoritiesFinite
<1>3. IsFiniteSet(T) /\ Cardinality(T) \in Nat
  <2>1. Authorities(i)' \subseteq 0..MaxApprovals
    BY BoundTypes DEF Authorities, StoreTypeOK
  <2>2. IsFiniteSet(0..MaxApprovals)
    BY BoundTypes, FS_Interval
  <2>3. T \in SUBSET (0..MaxApprovals)
    BY <2>1
  <2> HIDE DEF T
  <2> QED
    BY <2>2, <2>3, FS_Subset, FS_CardinalityType
<1> HIDE DEF S, T
<1>4. Cardinality(S) <= Cardinality(T)
  BY <1>1, <1>3, FS_Subset
<1> QED
  BY <1>1, <1>2, <1>3, <1>4 DEF T

\* A handler call of run i turns a held authority into a used-up one.
LEMMA PaidByHolder ==
  ASSUME StoreTypeOK, acts \in [RunId -> Nat], NEW others, NEW others2, CallsPaid(others),
         NEW i \in RunId, NEW a \in Authorities(i),
         acts' = [acts EXCEPT ![i] = @ + 1], UNCHANGED <<approvals, asked, allowed>>,
         a \in Used(others, i), a \notin Used(others2, i)',
         \A j \in RunId : Used(others2, j)' \subseteq Used(others, j)
  PROVE  CallsPaid(others2)'
<1>1. \A j : Authorities(j)' = Authorities(j)
  BY DEF Authorities
<1> SUFFICES ASSUME NEW j \in RunId
             PROVE  acts'[j] <= Cardinality(Authorities(j) \ Used(others2, j)')
  BY <1>1 DEF CallsPaid
<1> DEFINE S == Authorities(j) \ Used(others, j)
           T == Authorities(j) \ Used(others2, j)'
<1>2. S \subseteq T /\ acts[j] <= Cardinality(S) /\ acts[j] \in Nat
  BY DEF CallsPaid
<1>3. /\ IsFiniteSet(S) /\ Cardinality(S) \in Nat
      /\ IsFiniteSet(T) /\ Cardinality(T) \in Nat
  BY AuthoritiesFinite
<1>4. j = i => a \in T /\ a \notin S
  OBVIOUS
<1> HIDE DEF S, T
<1>5. Cardinality(S) <= Cardinality(T)
  BY <1>2, <1>3, FS_Subset
<1>6. ASSUME j = i PROVE Cardinality(S) + 1 <= Cardinality(T)
  <2>1. Cardinality(S \cup {a}) = Cardinality(S) + 1 /\ S \cup {a} \in SUBSET T
    BY <1>2, <1>3, <1>4, <1>6, FS_AddElement
  <2> QED
    BY <1>3, <2>1, FS_Subset
<1> QED
  BY <1>2, <1>3, <1>5, <1>6 DEF T

\* Steps that start no execution and reach no handler.
LEMMA KeptBacked ==
  ASSUME TypeOK, TypeOK', NEW others, CallsBacked(others), DecisionsStand, MemoryKept,
         acts' = acts, allowed \subseteq allowed', \A i \in allowed' : i <= latest'
  PROVE  CallsBacked(others)'
<1>1. StoreTypeOK /\ StoreTypeOK' /\ acts \in [RunId -> Nat]
  BY DEF TypeOK
<1>2. \A i : Authorities(i) \subseteq Authorities(i)'
  BY <1>1, AuthoritiesGrow
<1>3. \A s \in Reqs, i \in RunId, a \in 0..MaxApprovals :
        Under(s, i, a)' => Under(s, i, a) /\ req'[s].call = req[s].call
  BY DEF Under, MemoryKept
<1>4. AuthoritiesHeld(others)'
  <2>1. ASSUME NEW r \in Reqs, NEW i \in RunId, NEW a \in 0..MaxApprovals, Under(r, i, a)'
        PROVE  /\ a \in Authorities(i)' /\ <<i, a>> \notin others
               /\ req'[r].call = IF a = 0 THEN 1 ELSE approvals'[a].call
               /\ \A s \in Reqs : Under(s, i, a)' => s = r
    <3>1. /\ a \in Authorities(i) /\ <<i, a>> \notin others
          /\ req[r].call = IF a = 0 THEN 1 ELSE approvals[a].call
          /\ \A s \in Reqs : Under(s, i, a) => s = r
      BY <1>3, <2>1 DEF CallsBacked, AuthoritiesHeld
    <3>2. a # 0 => approvals'[a].call = approvals[a].call
      BY <3>1 DEF Authorities, DecisionsStand
    <3> QED
      BY <1>2, <1>3, <2>1, <3>1, <3>2
  <2>2. \A i \in RunId, a \in 0..MaxApprovals : <<i, a>> \in others => a \in Authorities(i)'
    BY <1>2 DEF CallsBacked, AuthoritiesHeld
  <2>3. \A r \in Reqs : req'[r].pc = "executing" => req'[r].run \in RunId
    BY DEF MemoryKept, CallsBacked, AuthoritiesHeld
  <2> QED
    BY <2>1, <2>2, <2>3 DEF AuthoritiesHeld
<1>5. \A i \in RunId : Used(others, i)' \subseteq Used(others, i)
  BY <1>3 DEF Used
<1>6. CallsPaid(others)'
  BY <1>1, <1>2, <1>5, PaidStays DEF CallsBacked
<1> QED
  BY <1>4, <1>6 DEF CallsBacked

\* The step that starts the execution of run i under a fresh authority.
LEMMA ExecutesBacked ==
  ASSUME TypeOK, TypeOK', NEW others, CallsBacked(others), DecisionsStand,
         acts' = acts, allowed \subseteq allowed', \A j \in allowed' : j <= latest',
         NEW r \in Reqs, NEW i \in RunId, NEW checkpoint, NEW by \in 0..MaxApprovals,
         Executes(r, i, checkpoint, by),
         by \notin Authorities(i), by \in Authorities(i)',
         checkpoint.call = IF by = 0 THEN 1 ELSE approvals'[by].call
  PROVE  CallsBacked(others)'
<1>1. StoreTypeOK /\ StoreTypeOK' /\ acts \in [RunId -> Nat]
  BY DEF TypeOK
<1>2. \A j : Authorities(j) \subseteq Authorities(j)'
  BY <1>1, AuthoritiesGrow
<1>3. /\ req'[r].pc = "executing" /\ req'[r].run = i /\ req'[r].by = by
      /\ req'[r].call = checkpoint.call
      /\ \A s \in Reqs : s # r => req'[s] = req[s]
  BY DEF Executes, TypeOK, Idle
<1>4. ASSUME NEW s \in Reqs, NEW j \in RunId, NEW a \in 0..MaxApprovals, Under(s, j, a)'
      PROVE  \/ s # r /\ Under(s, j, a)
             \/ s = r /\ j = i /\ a = by
  BY <1>3, <1>4 DEF Under
\* Nobody used the fresh authority before.
<1>5. <<i, by>> \notin others /\ \A s \in Reqs : ~Under(s, i, by)
  BY DEF CallsBacked, AuthoritiesHeld
<1>6. AuthoritiesHeld(others)'
  <2>1. ASSUME NEW s \in Reqs, NEW j \in RunId, NEW a \in 0..MaxApprovals, Under(s, j, a)'
        PROVE  /\ a \in Authorities(j)' /\ <<j, a>> \notin others
               /\ req'[s].call = IF a = 0 THEN 1 ELSE approvals'[a].call
               /\ \A t \in Reqs : Under(t, j, a)' => t = s
    <3>1. CASE s = r
      BY <1>3, <1>4, <1>5, <2>1, <3>1
    <3>2. CASE s # r
      <4>1. /\ req'[s] = req[s] /\ Under(s, j, a)
            /\ a \in Authorities(j) /\ <<j, a>> \notin others
            /\ req[s].call = IF a = 0 THEN 1 ELSE approvals[a].call
            /\ \A t \in Reqs : Under(t, j, a) => t = s
        BY <1>3, <1>4, <2>1, <3>2 DEF CallsBacked, AuthoritiesHeld
      <4>2. \A t \in Reqs : Under(t, j, a)' => t = s
        BY <1>4, <1>5, <4>1
      <4>3. a # 0 => approvals'[a].call = approvals[a].call
        BY <4>1 DEF Authorities, DecisionsStand
      <4> QED
        BY <1>2, <4>1, <4>2, <4>3
    <3> QED
      BY <3>1, <3>2
  <2>2. \A j \in RunId, a \in 0..MaxApprovals : <<j, a>> \in others => a \in Authorities(j)'
    BY <1>2 DEF CallsBacked, AuthoritiesHeld
  <2>3. \A s \in Reqs : req'[s].pc = "executing" => req'[s].run \in RunId
    BY <1>3 DEF CallsBacked, AuthoritiesHeld
  <2> QED
    BY <2>1, <2>2, <2>3 DEF AuthoritiesHeld
<1>7. \A j \in RunId : Authorities(j) \ Used(others, j)
                         \subseteq Authorities(j)' \ Used(others, j)'
  <2>1. \A j \in RunId : Used(others, j)' \subseteq Used(others, j) \cup {a \in {by} : j = i}
    BY <1>4 DEF Used
  <2> QED
    BY <1>2, <2>1
<1>8. CallsPaid(others)'
  BY <1>1, <1>7, PaidStays DEF CallsBacked
<1> QED
  BY <1>6, <1>8 DEF CallsBacked

\* The step in which request r reaches the handler and stops executing.
LEMMA ActsBacked ==
  ASSUME TypeOK, NEW others, CallsBacked(others), MemoryKept,
         NEW r \in Reqs, req[r].pc = "executing", req'[r].pc # "executing", Acts(r),
         UNCHANGED <<store, allowed>>
  PROVE  CallsBacked(others)'
<1>1. StoreTypeOK /\ acts \in [RunId -> Nat] /\ UNCHANGED <<approvals, asked, latest>>
  BY DEF TypeOK, store
<1>2. PICK i \in RunId, a \in 0..MaxApprovals : Under(r, i, a)
  BY DEF CallsBacked, AuthoritiesHeld, TypeOK, Req, Under
<1>3. a \in Authorities(i) /\ <<i, a>> \notin others /\ \A s \in Reqs : Under(s, i, a) => s = r
  BY <1>2 DEF CallsBacked, AuthoritiesHeld
<1>4. \A s \in Reqs, j \in RunId, b \in 0..MaxApprovals :
        Under(s, j, b)' => Under(s, j, b) /\ s # r /\ req'[s].call = req[s].call
  BY DEF Under, MemoryKept
<1>5. \A j : Authorities(j)' = Authorities(j)
  BY <1>1 DEF Authorities
<1>6. acts' = [acts EXCEPT ![i] = @ + 1]
  BY <1>2 DEF Acts, Under
<1>7. AuthoritiesHeld(others)'
  <2>1. ASSUME NEW s \in Reqs, NEW j \in RunId, NEW b \in 0..MaxApprovals, Under(s, j, b)'
        PROVE  /\ b \in Authorities(j)' /\ <<j, b>> \notin others
               /\ req'[s].call = IF b = 0 THEN 1 ELSE approvals'[b].call
               /\ \A t \in Reqs : Under(t, j, b)' => t = s
    BY <1>1, <1>4, <1>5, <2>1 DEF CallsBacked, AuthoritiesHeld
  <2>2. \A s \in Reqs : req'[s].pc = "executing" => req'[s].run \in RunId
    BY DEF MemoryKept, CallsBacked, AuthoritiesHeld
  <2> QED
    BY <1>1, <1>5, <2>1, <2>2 DEF CallsBacked, AuthoritiesHeld
<1>8. a \in Used(others, i) /\ a \notin Used(others, i)'
  BY <1>2, <1>3, <1>4 DEF Used
<1>9. \A j \in RunId : Used(others, j)' \subseteq Used(others, j)
  BY <1>4 DEF Used
<1>10. CallsPaid(others)'
  BY <1>1, <1>2, <1>3, <1>6, <1>8, <1>9, PaidByHolder DEF CallsBacked
<1> QED
  BY <1>7, <1>10 DEF CallsBacked

-----------------------------------------------------------------------------
(* What a step does to the executions *)

\* Request r executes the new run it applies.
StartsNew(r, i) ==
  /\ NewRunIs(r, i) /\ Save(i, Executing(Proposed(NewRun)))
  /\ Executes(r, i, Executing(Proposed(NewRun)), 0)
  /\ allowed' = allowed \cup {i} /\ UNCHANGED <<approvals, asked, acts>>

\* Request r reaches the handler, and executes no more.
ReachesHandler(r) ==
  /\ MemoryKept
  /\ req[r].pc = "executing" /\ req'[r].pc # "executing" /\ Acts(r)
  /\ UNCHANGED <<store, allowed>>
  /\ \A s \in Reqs : s # r => req'[s] = req[s]

\* Nobody starts or reaches anything.
LeavesWork ==
  /\ MemoryKept /\ UNCHANGED acts
  /\ \/ UNCHANGED allowed
     \/ \E i \in RunId : i = latest' /\ allowed' = allowed \cup {i}

LEMMA UnitWork ==
  ASSUME TypeOK, NEW r \in Reqs, Apply(r) \/ SettleUnit(r) \/ CleanUp(r)
  PROVE  LeavesWork \/ \E i \in RunId : StartsNew(r, i)
<1>1. ASSUME NEW pc, NEW todo, GoesTo(r, pc, todo), pc \in {"idle", req[r].pc},
             "quiet" \in todo => "quiet" \in req[r].todo
      PROVE  MemoryKept
  BY <1>1, GoesToMemory DEF Works
<1>2. "quiet" \notin NotApplied(r)
  BY DEF NotApplied
<1>3. CASE ApplyLoses(r)
  BY <1>1, <1>2, <1>3 DEF ApplyLoses, LeavesWork
<1>4. CASE ApplyBlocked(r) \/ ApplyPauses(r)
  BY <1>1, <1>4 DEF ApplyBlocked, ApplyPauses, LeavesWork
<1>5. CASE ApplyAllowed(r)
  <2>1. PICK i \in RunId :
          /\ NewRunIs(r, i) /\ Save(i, Executing(Proposed(NewRun)))
          /\ IF req[r].gone THEN GoesTo(r, "idle", req[r].todo)
             ELSE Executes(r, i, Executing(Proposed(NewRun)), 0)
          /\ allowed' = allowed \cup {i} /\ UNCHANGED <<approvals, asked, acts>>
    BY <1>5 DEF ApplyAllowed
  <2>2. CASE req[r].gone
    BY <1>1, <2>1, <2>2 DEF LeavesWork, NewRunIs
  <2>3. CASE ~req[r].gone
    BY <2>1, <2>3 DEF StartsNew
  <2> QED
    BY <2>2, <2>3
<1>6. CASE SettleUnit(r)
  BY <1>1, <1>6 DEF SettleUnit, Settle, SettleFailure, SettleLoses, LeavesWork
<1>7. CASE CleanUp(r)
  <2>1. PICK step : GoesTo(r, req[r].pc, req[r].todo \ {step})
    BY <1>7 DEF CleanUp, Release, ResetUnrun, SettleQuietly, CleanedUp
  <2>2. UNCHANGED <<acts, allowed>>
    BY <1>7 DEF CleanUp, Release, ResetUnrun, SettleQuietly
  <2> QED
    BY <1>1, <2>1, <2>2 DEF LeavesWork
<1> QED
  BY <1>3, <1>4, <1>5, <1>6, <1>7 DEF Apply

LEMMA ToolWork ==
  ASSUME TypeOK, NEW r \in Reqs, Tool(r) \/ StopEarly(r)
  PROVE  LeavesWork \/ ReachesHandler(r)
<1>1. CASE Tool(r)
  <2>1. PICK pc \in {"settling", "failing"},
              outcome \in {"none", "succeeded", "failed", "paused"} : ToolEnds(r, pc, outcome)
    BY <1>1 DEF Tool, ToolReturns, ToolRefused, ToolRaises
  <2>2. /\ \A s \in Reqs : s # r => req'[s] = req[s]
        /\ req'[r].pc = pc /\ req'[r].todo = req[r].todo /\ req'[r].run = req[r].run
        /\ req'[r].version = req[r].version
    BY <2>1 DEF ToolEnds, TypeOK, Req
  <2>3. req[r].pc = "executing" /\ UNCHANGED <<store, allowed>> /\ (Acts(r) \/ UNCHANGED acts)
    BY <1>1 DEF Tool, ToolReturns, ToolRefused, ToolRaises
  <2>4. MemoryKept
    BY <2>2, <2>3 DEF MemoryKept, Works
  <2> QED
    BY <2>2, <2>3, <2>4 DEF LeavesWork, ReachesHandler
<1>2. CASE StopEarly(r)
  <2>1. CASE req[r].pc = "planning"
    <3>1. GoesTo(r, "idle", NotApplied(r)) /\ UNCHANGED <<store, acts, allowed>>
      BY <1>2, <2>1 DEF StopEarly
    <3>2. "quiet" \notin NotApplied(r)
      BY DEF NotApplied
    <3> QED
      BY <3>1, <3>2, GoesToMemory DEF LeavesWork
  <2>2. CASE req[r].pc = "executing"
    <3>1. /\ GoesTo(r, "idle", {"quiet"}) /\ UNCHANGED <<store, allowed>>
          /\ Acts(r) \/ UNCHANGED acts
      BY <1>2, <2>2 DEF StopEarly
    <3>2. MemoryKept
      BY <2>2, <3>1, GoesToMemory DEF Works
    <3>3. req'[r].pc = "idle" /\ \A s \in Reqs : s # r => req'[s] = req[s]
      BY <3>1 DEF GoesTo, TypeOK, Req, Idle
    <3> QED
      BY <2>2, <3>1, <3>2, <3>3 DEF LeavesWork, ReachesHandler
  <2>3. CASE req[r].pc \in {"applying", "settling", "failing"}
    <3>1. PICK todo : /\ GoesOnWithout(r, todo) /\ UNCHANGED <<store, acts, allowed>>
                      /\ "quiet" \in todo => req[r].pc \in {"settling", "failing"}
      BY <1>2, <2>3 DEF StopEarly, NotApplied
    <3>2. /\ \A s \in Reqs : s # r => req'[s] = req[s]
          /\ req'[r].pc = req[r].pc /\ req'[r].todo = todo /\ req'[r].run = req[r].run
          /\ req'[r].version = req[r].version
      BY <3>1 DEF GoesOnWithout, TypeOK, Req
    <3> QED
      BY <2>3, <3>1, <3>2 DEF LeavesWork, MemoryKept, Works
  <2> QED
    BY <1>2, <2>1, <2>2, <2>3 DEF StopEarly
<1> QED
  BY <1>1, <1>2

LEMMA StartWork ==
  ASSUME TypeOK, NEW r \in Reqs, Start(r) \/ Plan(r) \/ Die(r)
  PROVE  LeavesWork
<1>1. UNCHANGED <<acts, allowed>>
  BY DEF Start, ClaimRun, ClaimRetry, ClaimHandOff, ClaimChat, RefuseChat, TakeClaim, Plan,
         PlanReturns, PlanFails, Die
<1>2. CASE TakeClaim(r) \/ Die(r)
  <2>1. /\ \A s \in Reqs : s # r => req'[s] = req[s]
        /\ req'[r].pc \in {"planning", "idle"} /\ req'[r].todo = {}
    <3>1. CASE TakeClaim(r)
      BY <3>1 DEF TakeClaim, TypeOK, Idle
    <3>2. CASE Die(r)
      BY <3>2 DEF Die, TypeOK, Idle
    <3> QED
      BY <1>2, <3>1, <3>2
  <2> QED
    BY <1>1, <2>1 DEF LeavesWork, MemoryKept, Works
<1>3. CASE RefuseChat(r) \/ Plan(r)
  <2>1. PICK pc, todo : /\ pc \in {"idle", "applying"} /\ "quiet" \notin todo
                        /\ GoesTo(r, pc, todo)
    BY <1>3 DEF RefuseChat, Plan, PlanReturns, PlanFails, NotApplied
  <2> QED
    BY <1>1, <2>1, GoesToMemory DEF LeavesWork
<1> QED
  BY <1>2, <1>3 DEF Start, ClaimRun, ClaimRetry, ClaimHandOff, ClaimChat

LEMMA MarkClaimsMemory ==
  ASSUME TypeOK, MarkClaims
  PROVE  MemoryKept /\ \A s \in Reqs : req'[s].pc = req[s].pc
<1>1. \A s \in Reqs : /\ req'[s].pc = req[s].pc /\ req'[s].todo = req[s].todo
                      /\ req'[s].run = req[s].run /\ req'[s].version = req[s].version
                      /\ req'[s].by = req[s].by /\ req'[s].call = req[s].call
  BY DEF MarkClaims, TypeOK, Req
<1> QED
  BY <1>1 DEF MemoryKept, Works

\* Every step leaves the work alone, starts one execution, or reaches one handler.
LEMMA WorkStep ==
  ASSUME TypeOK, Next
  PROVE  \/ LeavesWork
         \/ \E r \in Reqs : \/ ReachesHandler(r)
                            \/ \E i \in RunId : StartsNew(r, i)
                            \/ \E a \in ApprovalId : Approve(r, a)
<1>1. ASSUME UNCHANGED <<req, acts, allowed>> PROVE LeavesWork
  BY <1>1 DEF LeavesWork, MemoryKept, Works
<1>2. ASSUME NEW a \in ApprovalId, ApprovalLapses(a) \/ Decide(a) PROVE LeavesWork
  BY <1>1, <1>2 DEF ApprovalLapses, Decide, DecideLapsed, Reject, RefuseChangedTarget,
                    ApproveBlocked, EndDecision
<1>3. ASSUME LeaseLapses \/ Archive \/ Unarchive PROVE LeavesWork
  BY <1>1, <1>3 DEF LeaseLapses, Archive, Unarchive
<1>4. ASSUME Cancel \/ EmergencyStop PROVE LeavesWork
  BY <1>4, MarkClaimsMemory DEF Cancel, EmergencyStop, LeavesWork
<1> QED
  BY <1>2, <1>3, <1>4, UnitWork, ToolWork, StartWork DEF Next

LEMMA VersionFields ==
  ASSUME NEW r \in Run
  PROVE  /\ r.version \in Nat
         /\ \A phase : EndedAs(r, phase).version = r.version + 1
         /\ \A a : Waiting(r, a).version = r.version + 1
         /\ Proposed(r) \in Run /\ Proposed(r).version = r.version + 1
         /\ Proposed(r).call = r.call + 1
BY CheckpointTypes DEF Run, Executing, EndedAs, Waiting, Proposed

\* Policy's go-ahead for a run nobody had, or an approval nobody used.
LEMMA StartsNewBacked ==
  ASSUME TypeOK, TypeOK', NEW others, CallsBacked(others), DecisionsStand,
         NEW r \in Reqs, NEW i \in RunId, StartsNew(r, i)
  PROVE  CallsBacked(others)'
<1> DEFINE checkpoint == Executing(Proposed(NewRun))
<1>1. checkpoint.call = 1
  <2>1. Proposed(NewRun) \in Run /\ Proposed(NewRun).call = 1
    <3>1. NewRun \in Run /\ NewRun.call = 0
      BY CheckpointTypes DEF NewRun
    <3> QED
      BY <3>1, VersionFields
  <2> QED
    BY <2>1, CheckpointFields
<1>2. i > latest /\ latest' = i /\ latest \in Nat /\ latest \in Int /\ i \in Nat
  BY BoundTypes DEF StartsNew, NewRunIs, TypeOK, StoreTypeOK
<1>3. \A j \in allowed' : j <= latest'
  <2>1. \A j \in allowed : j \in Nat /\ j <= latest
    BY BoundTypes DEF CallsBacked, AuthoritiesHeld, TypeOK
  <2> QED
    BY <1>2, <2>1 DEF StartsNew
<1>4. 0 \notin Authorities(i) /\ 0 \in Authorities(i)' /\ 0 \in 0..MaxApprovals
  <2>1. i \notin allowed /\ i \in allowed'
    BY <1>2 DEF CallsBacked, AuthoritiesHeld, StartsNew
  <2>2. 0 \notin 1..asked
    OBVIOUS
  <2> QED
    BY <2>1, <2>2, BoundTypes DEF Authorities
<1>5. Executes(r, i, checkpoint, 0) /\ acts' = acts /\ allowed \subseteq allowed'
  BY DEF StartsNew
<1> HIDE DEF checkpoint
<1> QED
  BY <1>1, <1>3, <1>4, <1>5, ExecutesBacked

LEMMA ApproveBacked ==
  ASSUME TypeOK, TypeOK', NEW others, CallsBacked(others), DecisionsStand,
         NEW r \in Reqs, NEW a \in ApprovalId, Approve(r, a)
  PROVE  CallsBacked(others)'
<1>1. PICK i \in RunId : i = approvals[a].run
  BY DEF TypeOK, StoreTypeOK, Approval
<1> DEFINE checkpoint == Executing(runs[i])
<1>2. /\ Pending(a) /\ Decided(a, "approved") /\ runs[i].call = approvals[a].call
      /\ Executes(r, i, checkpoint, a) /\ UNCHANGED <<latest, asked, acts, allowed>>
  BY <1>1 DEF Approve
<1>3. checkpoint.call = approvals[a].call
  BY <1>2, CheckpointFields DEF TypeOK, StoreTypeOK
<1>4. /\ approvals'[a].status = "approved" /\ approvals'[a].run = i
      /\ approvals'[a].call = approvals[a].call
  BY <1>1, <1>2 DEF Decided, TypeOK, StoreTypeOK, Approval
<1>5. a \in 1..asked /\ a # 0 /\ a \in 0..MaxApprovals /\ asked \in Nat
  BY <1>2, BoundTypes DEF Pending, TypeOK, StoreTypeOK, ApprovalId
<1>6. a \notin Authorities(i) /\ a \in Authorities(i)'
  BY <1>2, <1>4, <1>5 DEF Authorities, Pending
<1>7. \A j \in allowed' : j <= latest'
  BY <1>2 DEF CallsBacked, AuthoritiesHeld
<1> HIDE DEF checkpoint
<1> QED
  BY <1>2, <1>3, <1>4, <1>5, <1>6, <1>7, ExecutesBacked

LEMMA CallsBackedStep ==
  ASSUME TypeOK, TypeOK', NEW others, CallsBacked(others), Next
  PROVE  CallsBacked(others)'
<1>1. DecisionsStand
  BY DecisionsStep
<1>2. CASE LeavesWork
  <2>1. \A i \in allowed' : i <= latest'
    <3>1. latest \in Nat /\ latest' \in Nat /\ latest <= latest'
      BY <1>1, BoundTypes DEF DecisionsStand, TypeOK, StoreTypeOK
    <3>2. \A i \in allowed : i \in Nat /\ i <= latest
      BY BoundTypes DEF CallsBacked, AuthoritiesHeld, TypeOK
    <3> QED
      BY <1>2, <3>1, <3>2 DEF LeavesWork
  <2>2. MemoryKept /\ acts' = acts /\ allowed \subseteq allowed'
    BY <1>2 DEF LeavesWork
  <2> QED
    BY <1>1, <2>1, <2>2, KeptBacked
<1>3. ASSUME NEW r \in Reqs, ReachesHandler(r) PROVE CallsBacked(others)'
  BY <1>3, ActsBacked DEF ReachesHandler
<1> QED
  BY <1>1, <1>2, <1>3, WorkStep, StartsNewBacked, ApproveBacked

-----------------------------------------------------------------------------
(* Versions: one request per execution *)

VersionsGrow ==
  /\ latest \in Nat /\ latest' \in Nat /\ latest <= latest'
  /\ \A i \in RunId : i <= latest => runs[i].version <= runs'[i].version

LEMMA SaveGrows ==
  ASSUME StoreTypeOK, StoreTypeOK', NEW i \in RunId, NEW r, latest <= latest',
         Save(i, r) \/ (Save(i, Waiting(r, asked + 1)) /\ r \in Run),
         i > latest \/ (r.version >= runs[i].version /\ r.version \in Nat)
  PROVE  VersionsGrow
<1>1. latest \in Nat /\ latest' \in Nat /\ i \in Nat /\ \A j \in RunId : runs[j].version \in Nat
  BY BoundTypes DEF StoreTypeOK, Run
<1>2. PICK c : /\ runs' = [runs EXCEPT ![i] = c]
               /\ i > latest \/ c.version >= runs[i].version
  <2>1. CASE Save(i, r)
    BY <2>1 DEF Save
  <2>2. CASE Save(i, Waiting(r, asked + 1)) /\ r \in Run
    <3>1. Waiting(r, asked + 1).version = r.version + 1 /\ r.version \in Nat
      BY <2>2, VersionFields
    <3>2. i > latest \/ Waiting(r, asked + 1).version >= runs[i].version
      BY <1>1, <3>1
    <3>3. runs' = [runs EXCEPT ![i] = Waiting(r, asked + 1)]
      BY <2>2 DEF Save
    <3> QED
      BY <3>2, <3>3
  <2> QED
    BY <2>1, <2>2
<1>3. \A j \in RunId : j <= latest => runs[j].version <= runs'[j].version
  <2> SUFFICES ASSUME NEW j \in RunId, j <= latest PROVE runs[j].version <= runs'[j].version
    OBVIOUS
  <2>1. CASE j = i
    BY <1>1, <1>2, <2>1 DEF StoreTypeOK
  <2>2. CASE j # i
    BY <1>1, <1>2, <2>2 DEF StoreTypeOK
  <2> QED
    BY <2>1, <2>2
<1> QED
  BY <1>1, <1>3 DEF VersionsGrow

LEMMA SettleGrows ==
  ASSUME StoreTypeOK, StoreTypeOK', NEW i \in RunId, NEW outcome,
         SettleOutcome(i, runs[i], outcome), UNCHANGED latest
  PROVE  VersionsGrow
<1> DEFINE r == runs[i]
<1>1. r \in Run /\ r.version \in Nat /\ latest <= latest'
  BY BoundTypes, VersionFields DEF StoreTypeOK
<1>2. Proposed(r) \in Run /\ Proposed(r).version = r.version + 1
  BY <1>1, VersionFields
<1>3. \A phase : /\ EndedAs(r, phase).version = r.version + 1
                 /\ EndedAs(Proposed(r), phase).version = r.version + 2
  BY <1>1, <1>2, VersionFields
<1> HIDE DEF r
<1>4. PICK c : /\ Save(i, c) \/ (Save(i, Waiting(c, asked + 1)) /\ c \in Run)
               /\ c.version \in Nat /\ c.version >= r.version
  BY <1>1, <1>2, <1>3 DEF SettleOutcome, PauseForApproval, r
<1> QED
  BY <1>1, <1>4, SaveGrows DEF r

\* No step takes a run back to an earlier version.
LEMMA VersionsStep ==
  ASSUME RunsInv, TypeOK', Next
  PROVE  VersionsGrow
<1>1. StoreTypeOK /\ StoreTypeOK' /\ latest <= latest' /\ latest \in Nat
  BY DecisionsStep, BoundTypes DEF RunsInv, TypeOK, StoreTypeOK, DecisionsStand
<1>2. ASSUME runs' = runs PROVE VersionsGrow
  BY <1>1, <1>2, BoundTypes DEF VersionsGrow, StoreTypeOK, Run
<1>3. ASSUME NEW r \in Reqs, Apply(r) PROVE VersionsGrow
  <2>1. CASE ApplyLoses(r)
    BY <1>2, <2>1 DEF ApplyLoses, store
  <2>2. CASE ~ApplyLoses(r)
    <3>1. PICK i, c : /\ i \in RunId /\ NewRunIs(r, i)
                      /\ Save(i, c) \/ (Save(i, Waiting(c, asked + 1)) /\ c \in Run)
      <4>1. CASE ApplyBlocked(r)
        BY <4>1 DEF ApplyBlocked
      <4>2. CASE ApplyPauses(r)
        BY <4>2, CheckpointTypes DEF ApplyPauses, PauseForApproval
      <4>3. CASE ApplyAllowed(r)
        BY <4>3 DEF ApplyAllowed
      <4> QED
        BY <1>3, <2>2, <4>1, <4>2, <4>3 DEF Apply
    <3>2. i > latest
      BY <1>1, <3>1 DEF NewRunIs
    <3> QED
      BY <1>1, <3>1, <3>2, SaveGrows
  <2> QED
    BY <2>1, <2>2
\* Ending a run, or marking it executing, adds one.
<1>4. ASSUME NEW i \in RunId, NEW c \in {Executing(runs[i]), EndedAs(runs[i], "failed")},
             Save(i, c)
      PROVE  VersionsGrow
  <2>1. runs[i] \in Run
    BY <1>1 DEF StoreTypeOK
  <2>2. c.version = runs[i].version + 1 /\ runs[i].version \in Nat
    BY <2>1, VersionFields, CheckpointFields
  <2> QED
    BY <1>1, <1>4, <2>2, SaveGrows
<1>5. ASSUME NEW r \in Reqs, SettleUnit(r) \/ CleanUp(r) PROVE VersionsGrow
  <2>1. CASE Settle(r)
    <3>1. req[r].run \in RunId
      BY <2>1 DEF Settle, StillExecuting
    <3> QED
      BY <1>1, <2>1, <3>1, SettleGrows DEF Settle
  <2>2. CASE ~Settle(r)
    <3>1. runs' = runs \/ (StillExecuting(r) /\ FailRun(req[r].run))
      BY <1>5, <2>2 DEF SettleUnit, SettleFailure, SettleLoses, CleanUp, Release,
                        ResetUnrun, SettleQuietly, store
    <3>2. CASE StillExecuting(r) /\ FailRun(req[r].run)
      BY <1>4, <3>2 DEF StillExecuting, FailRun
    <3> QED
      BY <1>2, <3>1, <3>2
  <2> QED
    BY <2>1, <2>2
<1>6. ASSUME NEW r \in Reqs, Start(r) \/ Plan(r) \/ Tool(r) \/ StopEarly(r) \/ Die(r)
      PROVE  VersionsGrow
  BY <1>2, <1>6 DEF Start, ClaimRun, ClaimRetry, ClaimHandOff, ClaimChat, RefuseChat, TakeClaim,
                    Plan, PlanReturns, PlanFails, Tool, ToolReturns, ToolRefused, ToolRaises,
                    StopEarly, Die, store
<1>7. ASSUME NEW a \in ApprovalId, Decide(a) \/ \E r \in Reqs : Approve(r, a)
      PROVE  VersionsGrow
  <2>1. approvals[a].run \in RunId
    BY <1>1 DEF StoreTypeOK, Approval
  <2>2. runs' = runs \/ \E c \in {Executing(runs[approvals[a].run]),
                                  EndedAs(runs[approvals[a].run], "failed")} :
                          Save(approvals[a].run, c)
    BY <1>7 DEF Decide, DecideLapsed, Reject, RefuseChangedTarget, ApproveBlocked,
                EndDecision, Approve
  <2> QED
    BY <1>2, <1>4, <2>1, <2>2
<1>8. ASSUME Cancel \/ EmergencyStop PROVE VersionsGrow
  <2>1. \A i \in RunId : runs'[i] = runs[i] \/ runs'[i] = EndedAs(runs[i], "cancelled")
    BY <1>8 DEF Cancel, EmergencyStop, CancelRows
  <2>2. \A i \in RunId : /\ runs[i].version \in Nat
                         /\ EndedAs(runs[i], "cancelled").version = runs[i].version + 1
    BY <1>1, VersionFields DEF StoreTypeOK
  <2>3. \A i \in RunId : runs[i].version <= runs'[i].version
    <3> SUFFICES ASSUME NEW i \in RunId PROVE runs[i].version <= runs'[i].version
      OBVIOUS
    <3> QED
      BY <2>1, <2>2
  <2> QED
    BY <1>1, <2>3, BoundTypes DEF VersionsGrow, StoreTypeOK
<1>9. ASSUME \/ LeaseLapses \/ Archive \/ Unarchive \/ \E a \in ApprovalId : ApprovalLapses(a)
      PROVE  VersionsGrow
  BY <1>2, <1>9 DEF LeaseLapses, Archive, Unarchive, ApprovalLapses
<1> QED
  BY <1>3, <1>5, <1>6, <1>7, <1>8, <1>9 DEF Next

WorkersApart == VersionsSeen /\ OneEach

LEMMA KeptApart ==
  ASSUME TypeOK, TypeOK', WorkersApart, VersionsGrow, MemoryKept
  PROVE  WorkersApart'
<1>1. \A r \in Reqs : /\ req[r].version \in Nat
                      /\ \A i \in RunId : /\ i \in Nat /\ runs[i].version \in Nat
                                          /\ runs'[i].version \in Nat
  BY BoundTypes DEF TypeOK, StoreTypeOK, Req, Run
<1>2. ASSUME NEW r \in Reqs, Works(r)'
      PROVE  /\ req'[r].run \in RunId /\ req'[r].run <= latest'
             /\ req'[r].version <= runs'[req'[r].run].version
  <2>1. PICK i \in RunId : i = req[r].run
    BY <1>2 DEF MemoryKept, WorkersApart, VersionsSeen
  <2>2. /\ i <= latest /\ req[r].version <= runs[i].version
        /\ req'[r].run = i /\ req'[r].version = req[r].version
    BY <1>2, <2>1 DEF MemoryKept, WorkersApart, VersionsSeen
  <2> QED
    BY <1>1, <2>2 DEF VersionsGrow
<1>3. OneEach'
  BY DEF MemoryKept, WorkersApart, OneEach
<1> QED
  BY <1>2, <1>3 DEF WorkersApart, VersionsSeen

\* A new execution has a version no request has seen.
LEMMA ExecutesApart ==
  ASSUME TypeOK, TypeOK', WorkersApart, VersionsGrow, NEW r \in Reqs, NEW i \in RunId,
         NEW checkpoint \in Run, NEW by, Executes(r, i, checkpoint, by),
         runs'[i] = checkpoint, i <= latest',
         i > latest \/ checkpoint.version > runs[i].version
  PROVE  WorkersApart'
<1>1. /\ latest \in Nat /\ latest' \in Nat /\ checkpoint.version \in Nat
      /\ \A s \in Reqs : req[s].version \in Nat
      /\ \A j \in RunId : /\ j \in Nat /\ runs[j].version \in Nat
                          /\ runs'[j].version \in Nat
  BY BoundTypes DEF TypeOK, StoreTypeOK, Req, Run
<1>2. /\ req'[r].run = i /\ req'[r].version = checkpoint.version
      /\ \A s \in Reqs : s # r => req'[s] = req[s]
  BY DEF Executes, TypeOK, Idle
<1>3. ASSUME NEW s \in Reqs, s # r, Works(s)'
      PROVE  /\ Works(s) /\ req[s].run \in RunId /\ req[s].run <= latest
             /\ req[s].version <= runs[req[s].run].version
  BY <1>2, <1>3 DEF Works, WorkersApart, VersionsSeen
<1>4. VersionsSeen'
  <2> SUFFICES ASSUME NEW s \in Reqs, Works(s)'
               PROVE  /\ req'[s].run \in RunId /\ req'[s].run <= latest'
                      /\ req'[s].version <= runs'[req'[s].run].version
    BY DEF VersionsSeen
  <2>1. CASE s = r
    BY <1>1, <1>2, <2>1
  <2>2. CASE s # r
    <3>1. PICK j \in RunId : j = req[s].run
      BY <1>3, <2>2
    <3> QED
      BY <1>1, <1>2, <1>3, <2>2, <3>1 DEF VersionsGrow
  <2> QED
    BY <2>1, <2>2
<1>5. ASSUME NEW s \in Reqs, s # r, Works(s)', req[s].run = i,
             req[s].version = checkpoint.version
      PROVE  FALSE
  BY <1>1, <1>3, <1>5
<1>6. OneEach'
  <2> SUFFICES ASSUME NEW s \in Reqs, NEW t \in Reqs, Works(s)', Works(t)',
                      req'[s].run = req'[t].run, req'[s].version = req'[t].version
               PROVE  s = t
    BY DEF OneEach
  <2>1. CASE s = r \/ t = r
    BY <1>2, <1>5, <2>1
  <2>2. CASE s # r /\ t # r
    BY <1>2, <1>3, <2>2 DEF WorkersApart, OneEach
  <2> QED
    BY <2>1, <2>2
<1> QED
  BY <1>4, <1>6 DEF WorkersApart

LEMMA WorkersApartStep ==
  ASSUME RunsInv, TypeOK', WorkersApart, Next
  PROVE  WorkersApart'
<1>1. TypeOK /\ VersionsGrow /\ StoreTypeOK /\ StoreInv
  BY VersionsStep DEF RunsInv, TypeOK
<1>2. ASSUME NEW r \in Reqs, NEW i \in RunId, StartsNew(r, i) PROVE WorkersApart'
  <2> DEFINE checkpoint == Executing(Proposed(NewRun))
  <2>1. checkpoint \in Run
    BY CheckpointTypes
  <2>2. Executes(r, i, checkpoint, 0) /\ runs'[i] = checkpoint
    BY <1>1, <1>2 DEF StartsNew, Save, StoreTypeOK
  <2>3. i <= latest' /\ i > latest
    BY <1>1, <1>2, BoundTypes DEF StartsNew, NewRunIs, VersionsGrow
  <2> HIDE DEF checkpoint
  <2> QED
    BY <1>1, <2>1, <2>2, <2>3, ExecutesApart
<1>3. ASSUME NEW r \in Reqs, NEW a \in ApprovalId, Approve(r, a) PROVE WorkersApart'
  <2>1. PICK i \in RunId : i = approvals[a].run
    BY <1>1 DEF StoreTypeOK, Approval
  <2> DEFINE checkpoint == Executing(runs[i])
  <2>2. Executes(r, i, checkpoint, a) /\ runs'[i] = checkpoint /\ latest' = latest /\ Pending(a)
    BY <1>1, <1>3, <2>1 DEF Approve, Save, StoreTypeOK
  <2>3. /\ checkpoint \in Run /\ checkpoint.version = runs[i].version + 1
        /\ runs[i].version \in Nat
    BY <1>1, CheckpointTypes, CheckpointFields DEF StoreTypeOK, Run
  <2>4. i <= latest'
    BY <1>1, <2>1, <2>2, PendingIsLatest DEF VersionsGrow
  <2> HIDE DEF checkpoint
  <2>5. checkpoint.version > runs[i].version
    BY <2>3
  <2> QED
    BY <1>1, <2>2, <2>3, <2>4, <2>5, ExecutesApart
<1>4. CASE LeavesWork \/ \E r \in Reqs : ReachesHandler(r)
  BY <1>1, <1>4, KeptApart DEF LeavesWork, ReachesHandler
<1> QED
  BY <1>1, <1>2, <1>3, <1>4, WorkStep

-----------------------------------------------------------------------------
(* Archived and ended tasks *)

\* With its newest run ended, or without a run, only a new run opens the task again.
LEMMA UnappliedStays ==
  ASSUME RunsInv, TypeOK', Next, Unapplied
  PROVE  Unapplied' \/ \E r \in Reqs, i \in RunId : NewRunIs(r, i)
<1>1. latest \in Nat /\ latest' \in Nat /\ \A i \in RunId : i \in Nat
  BY BoundTypes DEF RunsInv, TypeOK, StoreTypeOK
<1>2. CASE latest' # latest
  <2>1. PICK r \in Reqs : Apply(r) /\ ~ApplyLoses(r)
    <3>1. ASSUME NEW r \in Reqs,
                 \/ Start(r) \/ Plan(r) \/ ApplyLoses(r) \/ Tool(r) \/ SettleUnit(r)
                 \/ CleanUp(r) \/ StopEarly(r) \/ Die(r)
          PROVE  latest' = latest
      BY <3>1 DEF Start, ClaimRun, ClaimRetry, ClaimHandOff, ClaimChat, RefuseChat, TakeClaim,
                  Plan, PlanReturns, PlanFails, Tool, ToolReturns, ToolRefused, ToolRaises,
                  StopEarly, Die, ApplyLoses, SettleUnit, Settle, SettleFailure, SettleLoses,
                  FailRun, CleanUp, Release, ResetUnrun, SettleQuietly, store
    <3>2. ASSUME NEW a \in ApprovalId,
                 ApprovalLapses(a) \/ Decide(a) \/ \E r \in Reqs : Approve(r, a)
          PROVE  latest' = latest
      BY <3>2 DEF ApprovalLapses, Decide, DecideLapsed, Reject, RefuseChangedTarget,
                  ApproveBlocked, EndDecision, Approve
    <3>3. ASSUME LeaseLapses \/ Cancel \/ EmergencyStop \/ Archive \/ Unarchive
          PROVE  latest' = latest
      BY <3>3 DEF LeaseLapses, Cancel, EmergencyStop, CancelRows, Archive, Unarchive
    <3> QED
      BY <1>2, <3>1, <3>2, <3>3 DEF Next
  <2> QED
    BY <2>1 DEF Apply, ApplyBlocked, ApplyPauses, ApplyAllowed
<1>3. CASE latest' = latest
  <2>1. CASE latest = 0
    BY <1>3, <2>1 DEF Unapplied
  <2>2. CASE latest # 0
    <3>1. PICK i \in RunId : i = latest /\ runs[i].phase \in Ended
      BY <2>2 DEF Unapplied
    <3>2. runs'[i] = runs[i] \/ runs'[i].phase \in Ended
      <4>1. CASE CancelRows
        BY <3>1, <4>1 DEF CancelRows, RunsInv, TypeOK, StoreTypeOK
      <4>2. CASE \E j \in RunId : /\ j > latest \/ runs[j].phase \notin Ended
                                  /\ \E c : runs' = [runs EXCEPT ![j] = c]
        BY <1>1, <3>1, <4>2 DEF RunsInv, TypeOK, StoreTypeOK
      <4> QED
        BY <4>1, <4>2, RunsWritten
    <3> QED
      BY <1>3, <3>1, <3>2 DEF Unapplied
  <2> QED
    BY <2>1, <2>2
<1> QED
  BY <1>2, <1>3

\* Only Archive archives.
LEMMA ArchivedFlag ==
  ASSUME TypeOK, Next
  PROVE  task'.archived = task.archived \/ Archive \/ Unarchive
<1>1. task \in Task
  BY DEF TypeOK, StoreTypeOK
<1>2. ASSUME NEW status, task' = [task EXCEPT !.status = status, !.stale = FALSE]
      PROVE  task'.archived = task.archived
  BY <1>1, <1>2 DEF Task
<1>3. ASSUME NEW i, NEW r, Save(i, r) \/ PauseForApproval(i, r)
      PROVE  task'.archived = task.archived
  BY <1>2, <1>3 DEF Save, PauseForApproval
<1>4. ASSUME NEW r \in Reqs, Apply(r) \/ SettleUnit(r) PROVE task'.archived = task.archived
  <2>1. task' = task \/ \E i, c : Save(i, c) \/ PauseForApproval(i, c)
    <3>1. CASE Apply(r)
      BY <3>1 DEF Apply, ApplyBlocked, ApplyPauses, ApplyAllowed, ApplyLoses, store
    <3>2. CASE SettleUnit(r)
      BY <3>2 DEF SettleUnit, Settle, SettleOutcome, SettleFailure, SettleLoses, FailRun, store
    <3> QED
      BY <1>4, <3>1, <3>2
  <2> QED
    BY <1>3, <2>1
<1>5. ASSUME NEW r \in Reqs, CleanUp(r) PROVE task'.archived = task.archived
  <2>1. CASE Release(r) \/ ResetUnrun(r)
    <3>1. task' = task \/ \E status : task' = [task EXCEPT !.status = status, !.stale = FALSE]
      BY <2>1 DEF Release, ResetUnrun
    <3> QED
      BY <1>2, <3>1
  <2>2. CASE SettleQuietly(r)
    BY <1>3, <2>2 DEF SettleQuietly, FailRun, store
  <2> QED
    BY <1>5, <2>1, <2>2 DEF CleanUp
<1>6. ASSUME NEW r \in Reqs, Start(r) \/ Plan(r) \/ Tool(r) \/ StopEarly(r) \/ Die(r)
      PROVE  task'.archived = task.archived
  <2>1. task' = task \/ TakeClaim(r)
    BY <1>6 DEF Start, ClaimRun, ClaimRetry, ClaimHandOff, ClaimChat, RefuseChat, Plan,
                PlanReturns, PlanFails, Tool, ToolReturns, ToolRefused, ToolRaises,
                StopEarly, Die, store
  <2> QED
    BY <1>2, <2>1 DEF TakeClaim
<1>7. ASSUME NEW a \in ApprovalId,
             ApprovalLapses(a) \/ Decide(a) \/ \E r \in Reqs : Approve(r, a)
      PROVE  task'.archived = task.archived
  <2>1. task' = task \/ \E i, c : Save(i, c)
    BY <1>7 DEF ApprovalLapses, Decide, DecideLapsed, Reject, RefuseChangedTarget,
                ApproveBlocked, EndDecision, Approve
  <2> QED
    BY <1>3, <2>1
<1>8. ASSUME LeaseLapses \/ Cancel \/ EmergencyStop PROVE task'.archived = task.archived
  <2>1. CASE LeaseLapses
    BY <1>1, <2>1 DEF LeaseLapses, Task
  <2>2. CASE Cancel \/ EmergencyStop
    BY <1>2, <2>2 DEF Cancel, EmergencyStop, CancelRows
  <2> QED
    BY <1>8, <2>1, <2>2
<1> QED
  BY <1>4, <1>5, <1>6, <1>7, <1>8 DEF Next

\* A task that ended, or has not started, has no open run.
LEMMA RestingIsUnapplied ==
  ASSUME RunsInv, task.status \in Ended \cup {"created", "queued"}
  PROVE  Unapplied
<1>1. \A phase \in RunPhase \ Ended : StatusOf(phase) \notin Ended \cup {"created", "queued"}
  BY DEF RunPhase, Ended, StatusOf
<1>2. \A i \in RunId : runs[i].phase \in RunPhase
  BY DEF RunsInv, TypeOK, StoreTypeOK, Run
<1>3. latest = 0 \/ latest \in RunId
  BY BoundTypes DEF RunsInv, TypeOK, StoreTypeOK, RunId
<1> QED
  BY <1>1, <1>2, <1>3 DEF RunsInv, StoreInv, StatusAgrees, Unapplied

LEMMA ArchivedStep ==
  ASSUME RunsInv, TypeOK', ArchivedIsUnapplied, Next
  PROVE  ArchivedIsUnapplied'
<1>1. CASE Archive \/ Unarchive
  <2>1. Unapplied' <=> Unapplied
    BY <1>1 DEF Archive, Unarchive, Unapplied
  <2>2. CASE Archive
    <3>1. task.status \in Ended \cup {"created", "queued"}
      BY <2>2 DEF Archive
    <3> QED
      BY <2>1, <3>1, RestingIsUnapplied DEF ArchivedIsUnapplied
  <2>3. CASE Unarchive
    BY <2>1, <2>3 DEF Unarchive, ArchivedIsUnapplied, RunsInv, TypeOK, StoreTypeOK, Task
  <2> QED
    BY <1>1, <2>2, <2>3
<1>2. CASE task'.archived = task.archived
  <2>1. ASSUME task.archived PROVE Unapplied'
    <3>1. Unapplied
      BY <2>1 DEF ArchivedIsUnapplied
    <3>2. \A r \in Reqs, i \in RunId : ~NewRunIs(r, i)
      BY <2>1 DEF NewRunIs, ClaimHolds
    <3> QED
      BY <3>1, <3>2, UnappliedStays
  <2> QED
    BY <1>2, <2>1 DEF ArchivedIsUnapplied
<1> QED
  BY <1>1, <1>2, ArchivedFlag DEF RunsInv

-----------------------------------------------------------------------------
(* The invariant holds *)

LEMMA WorkInit == Init => WorkInv
<1> SUFFICES ASSUME Init PROVE WorkInv
  OBVIOUS
<1>1. RunsInv /\ TypeOK
  BY InitRunsInv, TypeInit
<1>2. \A r \in Reqs : req[r].pc \in {"new", "idle"} /\ req[r].todo = {}
  BY DEF Init, Idle
<1>3. \A r \in Reqs : ~Works(r) /\ req[r].pc # "executing"
  BY <1>2 DEF Works
<1>4. VersionsSeen /\ OneEach
  BY <1>3 DEF VersionsSeen, OneEach
<1>5. CallsBacked({})
  <2>1. AuthoritiesHeld({})
    BY <1>3 DEF AuthoritiesHeld, Under, Init
  <2>2. CallsPaid({})
    <3>1. \A i \in RunId : acts[i] = 0 /\ Cardinality(Authorities(i) \ Used({}, i)) \in Nat
      BY <1>1, AuthoritiesFinite DEF Init, TypeOK
    <3> QED
      BY <3>1 DEF CallsPaid
  <2> QED
    BY <2>1, <2>2 DEF CallsBacked
<1>6. ArchivedIsUnapplied
  BY DEF Init, ArchivedIsUnapplied
<1> QED
  BY <1>1, <1>4, <1>5, <1>6 DEF WorkInv

LEMMA WorkInvStep == WorkInv /\ [Next]_vars => WorkInv'
<1> SUFFICES ASSUME WorkInv, [Next]_vars PROVE WorkInv'
  OBVIOUS
<1>1. RunsInv /\ RunsInv' /\ TypeOK /\ TypeOK'
  BY RunsInvStep DEF WorkInv, RunsInv
<1>2. CASE Next
  BY <1>1, <1>2, WorkersApartStep, CallsBackedStep, ArchivedStep DEF WorkInv, WorkersApart
<1>3. CASE UNCHANGED vars
  <2>1. UNCHANGED <<task, runs, latest, approvals, asked, req, acts, allowed>>
    BY <1>3 DEF vars, store
  <2>2. WorkersApart'
    BY <2>1 DEF WorkInv, WorkersApart, VersionsSeen, OneEach, Works
  <2>3. ArchivedIsUnapplied'
    BY <2>1 DEF WorkInv, ArchivedIsUnapplied, Unapplied
  <2>4. CallsBacked({})'
    <3>1. MemoryKept /\ DecisionsStand
      BY <1>1, <1>3, <2>1, DecisionsStep DEF MemoryKept, Works
    <3>2. \A i \in allowed' : i <= latest'
      BY <2>1 DEF WorkInv, CallsBacked, AuthoritiesHeld
    <3> QED
      BY <1>1, <2>1, <3>1, <3>2, KeptBacked DEF WorkInv
  <2> QED
    BY <1>1, <2>2, <2>3, <2>4 DEF WorkInv, WorkersApart
<1> QED
  BY <1>2, <1>3

LEMMA WorkInvHolds == Spec => []WorkInv
BY WorkInit, WorkInvStep, PTL DEF Spec

-----------------------------------------------------------------------------
(* Theorems *)

\* Two requests never settle the same execution: the version a request committed is
\* its own (inline_runs._locked_executing_run).
THEOREM ExecutionsHaveOneWorker == Spec => []OneWorker
<1>1. WorkInv => OneWorker
  <2> SUFFICES ASSUME WorkInv, NEW r \in Reqs, NEW s \in Reqs, Works(r), Works(s),
                      StillExecuting(r), StillExecuting(s), req[r].run = req[s].run
               PROVE  r = s
    BY DEF OneWorker
  <2>1. req[r].version = req[s].version
    BY DEF StillExecuting
  <2> QED
    BY <2>1 DEF WorkInv, OneEach
<1> QED
  BY <1>1, WorkInvHolds, PTL

\* What a reached handler cost: never more calls than authorities.
LEMMA PaidIsBacked ==
  ASSUME TypeOK, NEW others, CallsPaid(others)
  PROVE  ToolCallsBacked
<1> SUFFICES ASSUME NEW i \in RunId
             PROVE  acts[i] <= (IF i \in allowed THEN 1 ELSE 0)
                      + Cardinality({a \in 1..asked : /\ approvals[a].run = i
                                                      /\ approvals[a].status = "approved"})
  BY DEF ToolCallsBacked
<1> DEFINE A == {a \in 1..asked : approvals[a].run = i /\ approvals[a].status = "approved"}
           S == Authorities(i) \ Used(others, i)
<1>1. StoreTypeOK /\ acts[i] \in Nat /\ acts[i] <= Cardinality(S)
  BY DEF TypeOK, CallsPaid
<1>2. A \in SUBSET Authorities(i) /\ S \in SUBSET Authorities(i) /\ Authorities(i) \in SUBSET Authorities(i)
  BY DEF Authorities
<1>3. /\ IsFiniteSet(A) /\ Cardinality(A) \in Nat /\ Cardinality(S) \in Nat
      /\ IsFiniteSet(Authorities(i)) /\ Cardinality(Authorities(i)) \in Nat
  BY <1>1, <1>2, AuthoritiesFinite
<1>4. Cardinality(S) <= Cardinality(Authorities(i))
  BY <1>2, <1>3, FS_Subset
<1>5. Cardinality(Authorities(i)) = (IF i \in allowed THEN 1 ELSE 0) + Cardinality(A)
  <2>1. 0 \notin A
    OBVIOUS
  <2>2. Authorities(i) = IF i \in allowed THEN A \cup {0} ELSE A
    BY DEF Authorities
  <2> HIDE DEF A
  <2>3. Cardinality(A \cup {0}) = Cardinality(A) + 1
    BY <1>3, <2>1, FS_AddElement
  <2> QED
    BY <1>3, <2>2, <2>3
<1>6. acts[i] <= (IF i \in allowed THEN 1 ELSE 0) + Cardinality(A)
  <2> HIDE DEF A, S
  <2> QED
    BY <1>1, <1>3, <1>4, <1>5
<1> QED
  BY <1>6

\* "The approval is used once": a handler is reached once for policy's own go-ahead and
\* once for each approval, whatever is cancelled, retried or stopped meanwhile
\* (main._decide_approval, inline_runs._execute).
THEOREM HandlerCallsAreBacked == Spec => []ToolCallsBacked
<1>1. WorkInv => ToolCallsBacked
  BY PaidIsBacked DEF WorkInv, RunsInv, CallsBacked
<1> QED
  BY <1>1, WorkInvHolds, PTL

\* The authority under which a request executes is the one its call needs.
LEMMA AuthorityFits ==
  ASSUME TypeOK, NEW others, CallsBacked(others), NEW r \in Reqs, req[r].pc = "executing"
  PROVE  IF req[r].by = 0 THEN req[r].call = 1 /\ req[r].run \in allowed
         ELSE LET a == approvals[req[r].by] IN
              a.status = "approved" /\ a.run = req[r].run /\ a.call = req[r].call
<1>1. PICK i \in RunId, a \in 0..MaxApprovals : i = req[r].run /\ a = req[r].by
  BY DEF CallsBacked, AuthoritiesHeld, TypeOK, Req
<1>2. a \in Authorities(i) /\ req[r].call = IF a = 0 THEN 1 ELSE approvals[a].call
  <2>1. Under(r, i, a)
    BY <1>1 DEF Under
  <2> QED
    BY <2>1 DEF CallsBacked, AuthoritiesHeld
<1>3. 0 \notin 1..asked
  OBVIOUS
<1> QED
  BY <1>1, <1>2, <1>3 DEF Authorities

\* A handler is reached only for a first call policy allowed or for the call a standing
\* approval names (AgentRuntime.begin_execution, AgentRuntime._continue).
THEOREM HandlerCallsAreAuthorised == Spec => ToolCallsAuthorised
<1>1. WorkInv /\ [Next]_vars =>
        [\A r \in Reqs : acts' # acts /\ req'[r] # req[r] =>
           IF req[r].by = 0 THEN req[r].call = 1 /\ req[r].run \in allowed
           ELSE LET a == approvals[req[r].by] IN
                a.status = "approved" /\ a.run = req[r].run /\ a.call = req[r].call]_vars
  <2> SUFFICES ASSUME WorkInv, Next, NEW r \in Reqs, acts' # acts, req'[r] # req[r]
               PROVE  IF req[r].by = 0 THEN req[r].call = 1 /\ req[r].run \in allowed
                      ELSE LET a == approvals[req[r].by] IN
                           a.status = "approved" /\ a.run = req[r].run /\ a.call = req[r].call
    OBVIOUS
  <2>1. TypeOK /\ CallsBacked({})
    BY DEF WorkInv, RunsInv
  <2>2. PICK s \in Reqs : ReachesHandler(s)
    BY <2>1, WorkStep DEF LeavesWork, StartsNew, Approve
  <2>3. r = s /\ req[r].pc = "executing"
    BY <2>2 DEF ReachesHandler
  <2> QED
    BY <2>1, <2>3, AuthorityFits
<1> QED
  BY <1>1, WorkInvHolds, PTL DEF Spec, ToolCallsAuthorised

\* Archiving races claims in both directions, yet an archived task has no open run and
\* nothing to decide (inline_runs._locked_claimed_task looks at archived_at).
THEOREM ArchivedTasksRest == Spec => []ArchivedIsIdle
<1>1. WorkInv => ArchivedIsIdle
  <2> SUFFICES ASSUME WorkInv, task.archived
               PROVE  Unapplied /\ \A a \in ApprovalId : ~Pending(a)
    BY DEF ArchivedIsIdle
  <2>1. Unapplied /\ StoreTypeOK /\ StoreInv
    BY DEF WorkInv, ArchivedIsUnapplied, RunsInv, TypeOK
  <2>2. ASSUME NEW a \in ApprovalId, Pending(a) PROVE FALSE
    <3>1. /\ approvals[a].run \in RunId /\ approvals[a].run = latest
          /\ runs[approvals[a].run].phase = "waiting_approval"
      BY <2>1, <2>2, PendingIsLatest
    <3> QED
      BY <2>1, <3>1, OpenIsApplied
  <2> QED
    BY <2>1, <2>2
<1> QED
  BY <1>1, WorkInvHolds, PTL

\* A step that changes the status of an ended task takes a claim of it.
LEMMA EndedNeedsClaim ==
  ASSUME RunsInv, Next, task.status \in Ended, task'.status # task.status
  PROVE  \E r \in Reqs : TakeClaim(r) /\ req[r].pc # "planning"
<1>1. Unapplied /\ task \in Task /\ StoreTypeOK /\ StoreInv
  BY RestingIsUnapplied DEF RunsInv, TypeOK, StoreTypeOK
<1>2. task.status \notin {"created", "queued", "running", "waiting_approval"}
  BY DEF Ended
<1>3. \A r \in Reqs : ~StillExecuting(r)
  <2>1. ASSUME NEW r \in Reqs, StillExecuting(r) PROVE FALSE
    BY <1>1, <2>1, ExecutingRun
  <2> QED
    BY <2>1
<1>4. \A a \in ApprovalId : ~Pending(a)
  <2>1. ASSUME NEW a \in ApprovalId, Pending(a) PROVE FALSE
    <3>1. /\ approvals[a].run \in RunId /\ approvals[a].run = latest
          /\ runs[approvals[a].run].phase = "waiting_approval"
      BY <1>1, <2>1, PendingIsLatest
    <3> QED
      BY <1>1, <3>1, OpenIsApplied
  <2> QED
    BY <2>1
<1>5. ASSUME NEW r \in Reqs,
             \/ RefuseChat(r) \/ Plan(r) \/ Apply(r) \/ Tool(r) \/ SettleUnit(r)
             \/ CleanUp(r) \/ StopEarly(r) \/ Die(r)
      PROVE  task' = task
  <2>1. ~ClaimHolds(r) /\ ~StillExecuting(r)
    BY <1>2, <1>3 DEF ClaimHolds
  <2>2. CASE RefuseChat(r) \/ Plan(r) \/ Tool(r) \/ StopEarly(r) \/ Die(r)
    BY <2>2 DEF RefuseChat, Plan, PlanReturns, PlanFails, Tool, ToolReturns, ToolRefused,
                ToolRaises, StopEarly, Die, store
  <2>3. CASE Apply(r)
    BY <2>1, <2>3 DEF Apply, ApplyBlocked, ApplyPauses, ApplyAllowed, ApplyLoses, NewRunIs, store
  <2>4. CASE SettleUnit(r)
    BY <2>1, <2>4 DEF SettleUnit, Settle, SettleFailure, SettleLoses, store
  <2>5. CASE CleanUp(r)
    BY <1>2, <2>1, <2>5 DEF CleanUp, Release, ResetUnrun, SettleQuietly, store
  <2> QED
    BY <1>5, <2>2, <2>3, <2>4, <2>5
<1>6. ASSUME NEW a \in ApprovalId, ApprovalLapses(a) \/ Decide(a) \/ \E r \in Reqs : Approve(r, a)
      PROVE  FALSE
  BY <1>4, <1>6 DEF ApprovalLapses, Decide, DecideLapsed, Reject, RefuseChangedTarget,
                    ApproveBlocked, EndDecision, Approve
<1>7. ASSUME LeaseLapses \/ Cancel \/ EmergencyStop PROVE FALSE
  BY <1>2, <1>7 DEF LeaseLapses, Cancel, EmergencyStop
<1>8. ASSUME Archive \/ Unarchive PROVE task'.status = task.status
  BY <1>1, <1>8 DEF Archive, Unarchive, Task
<1>9. PICK r \in Reqs : ClaimRun(r) \/ ClaimRetry(r) \/ ClaimHandOff(r) \/ ClaimChat(r)
  BY <1>5, <1>6, <1>7, <1>8 DEF Next, Start
<1> QED
  BY <1>9 DEF ClaimRun, ClaimRetry, ClaimHandOff, ClaimChat, Free

\* A task that completed, failed or was cancelled starts again only through a new claim:
\* no late clean-up, settlement or decision revives it (inline_runs._release,
\* chat_tools._reset_unrun, main._decide_in_unit).
THEOREM EndedTasksRest == Spec => EndedTaskNeedsClaim
<1>1. WorkInv /\ [Next]_vars =>
        [task.status \in Ended /\ task'.status # task.status =>
           /\ task'.status = "running"
           /\ \E r \in Reqs : req[r].pc # "planning" /\ req'[r].pc = "planning"]_vars
  <2> SUFFICES ASSUME WorkInv, Next, task.status \in Ended, task'.status # task.status
               PROVE  /\ task'.status = "running"
                      /\ \E r \in Reqs : req[r].pc # "planning" /\ req'[r].pc = "planning"
    OBVIOUS
  <2>1. RunsInv /\ task \in Task /\ req \in [Reqs -> Req]
    BY DEF WorkInv, RunsInv, TypeOK, StoreTypeOK
  <2>2. PICK r \in Reqs : TakeClaim(r) /\ req[r].pc # "planning"
    BY <2>1, EndedNeedsClaim
  <2>3. task'.status = "running"
    BY <2>1, <2>2 DEF TakeClaim, Task
  <2>4. req'[r].pc = "planning"
    BY <2>1, <2>2 DEF TakeClaim, Idle
  <2> QED
    BY <2>2, <2>3, <2>4
<1> QED
  BY <1>1, WorkInvHolds, PTL DEF Spec, EndedTaskNeedsClaim
=============================================================================
