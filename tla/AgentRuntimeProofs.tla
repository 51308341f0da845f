------------------------ MODULE AgentRuntimeProofs ------------------------
(***************************************************************************)
(* What the writes of the task's rows return and keep, for every number of *)
(* runs and approvals: the facts that the proofs about TaskRuns and        *)
(* DurableRuns share.                                                      *)
(***************************************************************************)
EXTENDS AgentRuntime, TLAPS

\* Runs that were not created yet.
Unborn == \A i \in RunId : i > latest => runs[i] = NewRun

-----------------------------------------------------------------------------
(* The checkpoint *)

LEMMA StoreBounds ==
  /\ MaxRuns \in Nat /\ MaxApprovals \in Nat
  /\ 1 \in RunId
  /\ \A i \in RunId : i \in Nat /\ i \in 0..MaxRuns
  /\ \A a \in ApprovalId : a \in Nat /\ a \in 0..MaxApprovals
BY BoundsAssumption DEF RunId, ApprovalId

LEMMA RunFields ==
  ASSUME NEW r \in Run
  PROVE  /\ \A phase \in RunPhase : [r EXCEPT !.phase = phase] \in Run
         /\ \A n \in Nat : [r EXCEPT !.version = n] \in Run /\ [r EXCEPT !.call = n] \in Run
         /\ \A a \in 0..MaxApprovals : [r EXCEPT !.approval = a] \in Run
         /\ r.version + 1 \in Nat /\ r.call + 1 \in Nat
BY DEF Run

\* Each change of a checkpoint gives a checkpoint again.
LEMMA CheckpointTypes ==
  /\ NewRun \in Run
  /\ \A r \in Run : Proposed(r) \in Run /\ Executing(r) \in Run
  /\ \A r \in Run, phase \in Ended : EndedAs(r, phase) \in Run
  /\ \A r \in Run, a \in 0..MaxApprovals : Waiting(r, a) \in Run
<1> /\ {"planning", "tool_ready", "executing", "waiting_approval"} \subseteq RunPhase
    /\ Ended \subseteq RunPhase
  BY DEF RunPhase
<1>1. NewRun \in Run
  BY StoreBounds DEF NewRun, Run
<1>2. ASSUME NEW r \in Run PROVE Proposed(r) \in Run
  BY RunFields DEF Proposed
<1>3. ASSUME NEW r \in Run PROVE Executing(r) \in Run
  BY RunFields DEF Executing
<1>4. ASSUME NEW r \in Run, NEW phase \in Ended PROVE EndedAs(r, phase) \in Run
  BY RunFields DEF EndedAs
<1>5. ASSUME NEW r \in Run, NEW a \in 0..MaxApprovals PROVE Waiting(r, a) \in Run
  BY RunFields DEF Waiting
<1> QED
  BY <1>1, <1>2, <1>3, <1>4, <1>5

LEMMA StatusTypes == \A phase \in RunPhase : StatusOf(phase) \in TaskStatus
BY DEF StatusOf, RunPhase, TaskStatus, Ended

LEMMA TaskFields ==
  ASSUME NEW t \in Task
  PROVE  /\ \A status \in TaskStatus : [t EXCEPT !.status = status] \in Task
         /\ \A flag \in BOOLEAN : /\ [t EXCEPT !.stale = flag] \in Task
                                  /\ [t EXCEPT !.archived = flag] \in Task
BY DEF Task

LEMMA CheckpointFields ==
  ASSUME NEW r \in Run
  PROVE  /\ Executing(r).phase = "executing" /\ Executing(r).version = r.version + 1
         /\ Executing(r).call = r.call
         /\ \A phase : EndedAs(r, phase).phase = phase
         /\ \A a : /\ Waiting(r, a).phase = "waiting_approval"
                   /\ Waiting(r, a).approval = a
                   /\ Waiting(r, a).call = r.call
BY DEF Run, Executing, EndedAs, Waiting

LEMMA EndedIsNotOpen ==
  /\ \A phase \in {"executing", "waiting_approval", "planning", "tool_ready"} : phase \notin Ended
  /\ \A phase \in Ended : phase \in {"completed", "failed", "cancelled"}
BY DEF Ended

-----------------------------------------------------------------------------
(* The rows stay well-formed *)

LEMMA SaveTypes ==
  ASSUME StoreTypeOK, NEW i \in RunId, NEW r \in Run, Save(i, r)
  PROVE  task' \in Task /\ runs' \in [RunId -> Run]
<1>1. StatusOf(r.phase) \in TaskStatus
  BY StatusTypes DEF Run
<1> QED
  BY <1>1 DEF StoreTypeOK, Save, Task

LEMMA PauseTypes ==
  ASSUME StoreTypeOK, NEW i \in RunId, NEW r \in Run, PauseForApproval(i, r)
  PROVE  /\ task' \in Task /\ runs' \in [RunId -> Run]
         /\ approvals' \in [ApprovalId -> Approval]
         /\ asked' \in 0..MaxApprovals
         /\ asked + 1 \in ApprovalId
<1>1. asked + 1 \in ApprovalId /\ asked + 1 \in 0..MaxApprovals
  BY StoreBounds DEF StoreTypeOK, PauseForApproval, ApprovalId
<1>2. Waiting(r, asked + 1) \in Run
  BY <1>1, CheckpointTypes
<1>3. task' \in Task /\ runs' \in [RunId -> Run]
  BY <1>2, SaveTypes DEF PauseForApproval
<1>4. [status |-> "pending", run |-> i, call |-> r.call, lapsed |-> FALSE] \in Approval
  BY DEF Approval, ApprovalStatus, Run
<1>5. approvals' \in [ApprovalId -> Approval]
  BY <1>1, <1>4 DEF PauseForApproval, StoreTypeOK
<1> QED
  BY <1>1, <1>3, <1>5 DEF PauseForApproval

LEMMA SettleTypes ==
  ASSUME StoreTypeOK, NEW i \in RunId, NEW r \in Run, NEW outcome,
         SettleOutcome(i, r, outcome), UNCHANGED latest
  PROVE  StoreTypeOK'
<1>1. Proposed(r) \in Run /\ "completed" \in Ended /\ "failed" \in Ended
  BY CheckpointTypes DEF Ended
<1>2. EndedAs(r, "completed") \in Run /\ EndedAs(r, "failed") \in Run
      /\ EndedAs(Proposed(r), "failed") \in Run
  BY <1>1, CheckpointTypes
<1>3. CASE PauseForApproval(i, Proposed(r))
  BY <1>1, <1>3, PauseTypes DEF StoreTypeOK
<1>4. CASE KeepApprovals /\ \/ Save(i, EndedAs(r, "completed"))
                            \/ Save(i, EndedAs(r, "failed"))
                            \/ Save(i, EndedAs(Proposed(r), "failed"))
  BY <1>2, <1>4, SaveTypes DEF StoreTypeOK, KeepApprovals
<1> QED
  BY <1>3, <1>4 DEF SettleOutcome

LEMMA CancelTypes == ASSUME StoreTypeOK, CancelRows PROVE StoreTypeOK'
<1>1. task' \in Task
  BY TaskFields DEF StoreTypeOK, CancelRows, TaskStatus, Ended
<1>2. runs' \in [RunId -> Run]
  <2>1. \A i \in RunId : EndedAs(runs[i], "cancelled") \in Run
    BY CheckpointTypes DEF StoreTypeOK, Ended
  <2> QED
    BY <2>1 DEF StoreTypeOK, CancelRows
<1>3. approvals' \in [ApprovalId -> Approval]
  BY DEF StoreTypeOK, CancelRows, Approval, ApprovalStatus
<1> QED
  BY <1>1, <1>2, <1>3 DEF StoreTypeOK, CancelRows

LEMMA DecidedTypes ==
  ASSUME StoreTypeOK, NEW a \in ApprovalId, NEW status \in ApprovalStatus,
         Decided(a, status)
  PROVE  approvals' \in [ApprovalId -> Approval]
BY DEF StoreTypeOK, Decided, Approval

-----------------------------------------------------------------------------
(* What a unit of work writes *)

\* The other runs of the task keep their checkpoints.
OthersKept(i) == \A j \in RunId : j # i => runs'[j] = runs[j]

LEMMA SaveWrites ==
  ASSUME StoreTypeOK, NEW i \in RunId, NEW r \in Run, Save(i, r)
  PROVE  /\ runs'[i] = r /\ OthersKept(i)
         /\ task'.status = StatusOf(r.phase)
BY DEF Save, StoreTypeOK, Task, OthersKept

LEMMA ProposedFields ==
  ASSUME NEW r \in Run
  PROVE  /\ Proposed(r).phase = "tool_ready" /\ Proposed(r).call = r.call + 1
         /\ Proposed(r).approval = r.approval
         /\ \A phase : EndedAs(r, phase).call = r.call /\ EndedAs(r, phase).approval = r.approval
BY DEF Run, Proposed, EndedAs

LEMMA PauseWrites ==
  ASSUME StoreTypeOK, NEW i \in RunId, NEW r \in Run, PauseForApproval(i, r)
  PROVE  /\ asked' = asked + 1 /\ asked + 1 \in ApprovalId
         /\ runs'[i].phase = "waiting_approval" /\ runs'[i].call = r.call
         /\ runs'[i].approval = asked + 1 /\ OthersKept(i)
         /\ task'.status = "waiting_approval"
         /\ approvals'[asked + 1] = [status |-> "pending", run |-> i, call |-> r.call,
                                     lapsed |-> FALSE]
         /\ \A a \in ApprovalId : a # asked + 1 => approvals'[a] = approvals[a]
<1>1. asked + 1 \in ApprovalId /\ asked + 1 \in 0..MaxApprovals
  BY PauseTypes, StoreBounds
<1>2. Waiting(r, asked + 1) \in Run
  BY <1>1, CheckpointTypes
<1>3. /\ runs'[i] = Waiting(r, asked + 1) /\ OthersKept(i)
      /\ task'.status = StatusOf(Waiting(r, asked + 1).phase)
  BY <1>2, SaveWrites DEF PauseForApproval
<1>4. /\ Waiting(r, asked + 1).phase = "waiting_approval"
      /\ Waiting(r, asked + 1).approval = asked + 1
      /\ Waiting(r, asked + 1).call = r.call
  BY CheckpointFields
<1>5. /\ approvals'[asked + 1] = [status |-> "pending", run |-> i, call |-> r.call,
                                  lapsed |-> FALSE]
      /\ \A a \in ApprovalId : a # asked + 1 => approvals'[a] = approvals[a]
  BY <1>1 DEF PauseForApproval, StoreTypeOK
<1>6. asked' = asked + 1
  BY DEF PauseForApproval
<1>7. StatusOf("waiting_approval") = "waiting_approval"
  BY DEF StatusOf
<1> QED
  BY <1>1, <1>3, <1>4, <1>5, <1>6, <1>7

\* The outcome of a tool ends the run, or asks a person for its next call.
LEMMA SettleWrites ==
  ASSUME StoreTypeOK, NEW i \in RunId, NEW r \in Run, NEW outcome,
         SettleOutcome(i, r, outcome)
  PROVE  \/ /\ KeepApprovals /\ OthersKept(i)
            /\ \E phase \in {"completed", "failed"} :
                 runs'[i].phase = phase /\ task'.status = phase
         \/ outcome = "paused" /\ PauseForApproval(i, Proposed(r))
<1>1. ASSUME NEW q \in Run, NEW phase \in {"completed", "failed"}, Save(i, EndedAs(q, phase))
      PROVE  runs'[i].phase = phase /\ task'.status = phase /\ OthersKept(i)
  <2>1. EndedAs(q, phase) \in Run /\ EndedAs(q, phase).phase = phase /\ StatusOf(phase) = phase
    BY CheckpointTypes, CheckpointFields DEF Ended, StatusOf
  <2> QED
    BY <1>1, <2>1, SaveWrites
<1>2. Proposed(r) \in Run
  BY CheckpointTypes
<1>3. CASE PauseForApproval(i, Proposed(r)) /\ outcome = "paused"
  BY <1>3
<1>4. ASSUME NEW q \in {r, Proposed(r)}, NEW phase \in {"completed", "failed"},
             Save(i, EndedAs(q, phase)), KeepApprovals
      PROVE  /\ KeepApprovals /\ OthersKept(i)
             /\ \E p \in {"completed", "failed"} : runs'[i].phase = p /\ task'.status = p
  BY <1>1, <1>2, <1>4
<1> QED
  BY <1>3, <1>4 DEF SettleOutcome

LEMMA CancelWrites ==
  ASSUME StoreTypeOK, CancelRows
  PROVE  /\ \A i \in RunId : \/ runs'[i] = runs[i]
                               \/ /\ i = latest /\ runs[i].phase \notin Ended
                                  /\ runs'[i].phase = "cancelled"
         /\ \A i \in RunId : i = latest => runs'[i].phase \in Ended
         /\ \A a \in ApprovalId : \/ approvals'[a] = approvals[a]
                                  \/ /\ approvals[a].status = "pending"
                                     /\ approvals'[a].status = "expired"
                                     /\ approvals'[a].run = approvals[a].run
                                     /\ approvals'[a].call = approvals[a].call
         /\ \A a \in ApprovalId : a <= asked => approvals'[a].status # "pending"
         /\ task'.status = "cancelled" /\ UNCHANGED <<latest, asked>>
<1>1. \A i \in RunId : EndedAs(runs[i], "cancelled").phase = "cancelled"
  BY CheckpointFields DEF StoreTypeOK
<1>2. \A i \in RunId : runs'[i] = IF i = latest /\ runs[i].phase \notin Ended
                                  THEN EndedAs(runs[i], "cancelled") ELSE runs[i]
  BY DEF CancelRows
<1>3. \A i \in RunId : \/ runs'[i] = runs[i]
                       \/ /\ i = latest /\ runs[i].phase \notin Ended
                          /\ runs'[i].phase = "cancelled"
  BY <1>1, <1>2
<1>4. \A i \in RunId : i = latest => runs'[i].phase \in Ended
  BY <1>1, <1>2 DEF Ended
<1>5. /\ \A a \in ApprovalId : \/ approvals'[a] = approvals[a]
                               \/ /\ approvals[a].status = "pending"
                                  /\ approvals'[a].status = "expired"
                                  /\ approvals'[a].run = approvals[a].run
                                  /\ approvals'[a].call = approvals[a].call
      /\ \A a \in ApprovalId : a <= asked => approvals'[a].status # "pending"
  BY DEF CancelRows, StoreTypeOK, Approval
<1>6. task'.status = "cancelled" /\ UNCHANGED <<latest, asked>>
  BY DEF CancelRows, StoreTypeOK, Task
<1> QED
  BY <1>3, <1>4, <1>5, <1>6
=============================================================================
