---------------------------- MODULE AgentRuntime ----------------------------
(***************************************************************************)
(* What the database holds of ONE task and the writes of the agent runtime *)
(* (services/api/anum_api/runtime.py) on it: the task row, its runs with   *)
(* their checkpoints, and the approvals those runs wait for.  Every write  *)
(* below happens inside a unit of work that holds the task's row lock, so  *)
(* it is atomic.  TaskRuns (inline backend) and the modules that follow it *)
(* say WHO makes these writes and when.                                    *)
(*                                                                         *)
(* Runs and approvals are numbered in the order in which they are created, *)
(* so the newest run (find_run_for_task orders by created_at, id) is       *)
(* number `latest'.                                                        *)
(***************************************************************************)
EXTENDS Naturals, FiniteSets

CONSTANTS
  MaxRuns,       \* bound: runs of the task
  MaxApprovals   \* bound: approvals requested for the task

ASSUME BoundsAssumption == MaxRuns \in Nat \ {0} /\ MaxApprovals \in Nat

VARIABLES
  task,       \* [status, archived, stale]: the task row
  runs,       \* [RunId -> checkpoint]: the run rows 1..latest
  latest,     \* the newest run, 0 when the task has none
  approvals,  \* [ApprovalId -> approval]: the approval rows 1..asked
  asked       \* the newest approval, 0 when none was requested

store == <<task, runs, latest, approvals, asked>>

RunId == 1..MaxRuns
ApprovalId == 1..MaxApprovals

-----------------------------------------------------------------------------
(* schemas.py *)

Ended == {"completed", "failed", "cancelled"}
RunPhase == Ended \cup {"planning", "tool_ready", "waiting_approval", "executing"}
TaskStatus == Ended \cup {"created", "queued", "running", "waiting_approval"}
ApprovalStatus == {"pending", "approved", "rejected", "expired"}

\* `stale': updated_at is older than ANUM_INLINE_RUN_LEASE_SECONDS.
Task == [status : TaskStatus, archived : BOOLEAN, stale : BOOLEAN]

\* `call' numbers the proposal step whose tool call is checkpointed: the payload
\* hash binds tool, arguments, task, run and step, so two proposals never hash alike.
Run == [phase : RunPhase, version : Nat, call : Nat, approval : 0..MaxApprovals]

\* `lapsed': expires_at has passed.
Approval == [status : ApprovalStatus, run : RunId, call : Nat, lapsed : BOOLEAN]

\* AgentRuntime.new_run
NewRun == [phase |-> "planning", version |-> 1, call |-> 0, approval |-> 0]

\* task.status and run.status are written together with the phase.
StatusOf(phase) ==
  IF phase \in {"planning", "tool_ready", "executing"} THEN "running" ELSE phase

-----------------------------------------------------------------------------
(* The runtime's changes of one checkpoint *)

\* apply_plan and _continue: a new proposal step and its call.
Proposed(r) == [r EXCEPT !.phase = "tool_ready", !.version = @ + 1, !.call = @ + 1]

\* _mark_executing
Executing(r) == [r EXCEPT !.phase = "executing", !.version = @ + 1]

\* _pause_for_approval
Waiting(r, a) == [r EXCEPT !.phase = "waiting_approval", !.version = @ + 1, !.approval = a]

\* _complete, _fail and the cancel of an open run
EndedAs(r, phase) == [r EXCEPT !.phase = phase, !.version = @ + 1]

-----------------------------------------------------------------------------
(* Units of work.  Save leaves `latest' and the approvals to its caller. *)

\* save_task and save_run of run i, after the runtime changed both objects
Save(i, r) ==
  /\ runs' = [runs EXCEPT ![i] = r]
  /\ task' = [task EXCEPT !.status = StatusOf(r.phase), !.stale = FALSE]

Decided(a, status) == approvals' = [approvals EXCEPT ![a].status = status]

KeepApprovals == UNCHANGED <<approvals, asked>>

\* Run i pauses: a pending approval bound to exactly this run and proposal.
PauseForApproval(i, r) ==
  /\ asked < MaxApprovals
  /\ asked' = asked + 1
  /\ approvals' = [approvals EXCEPT ![asked + 1] =
                     [status |-> "pending", run |-> i, call |-> r.call, lapsed |-> FALSE]]
  /\ Save(i, Waiting(r, asked + 1))

\* _settle and _continue: a continuation never executes without an approval,
\* and the policy may also block it.
SettleOutcome(i, r, outcome) ==
  \/ outcome = "succeeded" /\ Save(i, EndedAs(r, "completed")) /\ KeepApprovals
  \/ outcome = "failed" /\ Save(i, EndedAs(r, "failed")) /\ KeepApprovals
  \/ outcome = "paused" /\ PauseForApproval(i, Proposed(r))
  \/ outcome = "paused" /\ Save(i, EndedAs(Proposed(r), "failed")) /\ KeepApprovals

\* Mutants of CancelRows: pending approvals are left, or every approval is expired.
CancelRowsLeaving ==
  /\ task' = [task EXCEPT !.status = "cancelled", !.stale = FALSE]
  /\ runs' = [i \in RunId |->
                IF i = latest /\ runs[i].phase \notin Ended
                THEN EndedAs(runs[i], "cancelled") ELSE runs[i]]
  /\ UNCHANGED <<latest, approvals, asked>>

CancelRowsExpiring ==
  /\ task' = [task EXCEPT !.status = "cancelled", !.stale = FALSE]
  /\ runs' = [i \in RunId |->
                IF i = latest /\ runs[i].phase \notin Ended
                THEN EndedAs(runs[i], "cancelled") ELSE runs[i]]
  /\ approvals' = [a \in ApprovalId |-> [approvals[a] EXCEPT !.status = "expired"]]
  /\ UNCHANGED <<latest, asked>>

\* main.cancel_task_record and agent_controls._cancel_batch
CancelRows ==
  /\ task' = [task EXCEPT !.status = "cancelled", !.stale = FALSE]
  /\ runs' = [i \in RunId |->
                IF i = latest /\ runs[i].phase \notin Ended
                THEN EndedAs(runs[i], "cancelled") ELSE runs[i]]
  /\ approvals' = [a \in ApprovalId |->
                     IF a <= asked /\ approvals[a].status = "pending"
                     THEN [approvals[a] EXCEPT !.status = "expired"] ELSE approvals[a]]
  /\ UNCHANGED <<latest, asked>>

-----------------------------------------------------------------------------
(* What every writer of these rows keeps true *)

StoreTypeOK ==
  /\ task \in Task
  /\ runs \in [RunId -> Run]
  /\ latest \in 0..MaxRuns
  /\ approvals \in [ApprovalId -> Approval]
  /\ asked \in 0..MaxApprovals

\* An earlier run of the task never works or waits beside a newer one: Retry,
\* Cancel and the decision routes only ever look at one open run.
OnlyLatestOpen == \A i \in RunId : i < latest => runs[i].phase \in Ended

\* A pending approval and the run waiting for it point at each other, and the
\* checkpointed call is the one the approver is shown.  begin_execution does not
\* check the run's phase: it is this fact that keeps a decision from starting a
\* cancelled, finished or already executing run.
PendingIsAwaited ==
  \A a \in ApprovalId : a <= asked /\ approvals[a].status = "pending" =>
    LET r == runs[approvals[a].run] IN
    /\ approvals[a].run <= latest
    /\ r.phase = "waiting_approval"
    /\ r.approval = a
    /\ r.call = approvals[a].call

\* The other direction: a waiting run always has a pending approval to decide,
\* so it cannot wait for nothing.
WaitingIsDecidable ==
  \A i \in RunId : i <= latest /\ runs[i].phase = "waiting_approval" =>
    /\ runs[i].approval \in 1..asked
    /\ approvals[runs[i].approval].status = "pending"
    /\ approvals[runs[i].approval].run = i

\* The task row tells what its open run does.
StatusAgrees ==
  \A i \in RunId : i = latest /\ runs[i].phase \notin Ended =>
    task.status = StatusOf(runs[i].phase)
=============================================================================
