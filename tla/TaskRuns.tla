------------------------------ MODULE TaskRuns ------------------------------
(***************************************************************************)
(* Inline task runs (ANUM_RUNTIME_BACKEND=inline): requests that run,      *)
(* retry, approve, cancel and archive ONE task against each other.         *)
(*                                                                         *)
(* services/api/anum_api/inline_runs.py splits a run into short units of   *)
(* work (claim, apply, settle), with no transaction open while the model   *)
(* plans or the tool works.  Between two units anything else may happen to *)
(* the task; a unit re-reads the row under its lock and gives up when its  *)
(* claim no longer holds.  Here each unit is one action, `req' holds what  *)
(* a request keeps in memory between its units, and the model's plan, the  *)
(* policy's verdict and the tool's outcome are free choices.  The task's   *)
(* Valkey run lock is left out: the default backend has none, and where    *)
(* there is one it expires after 300 s under a live run.                   *)
(***************************************************************************)
EXTENDS AgentRuntime

CONSTANTS
  Reqs,      \* the requests in flight at the same time
  Chats,     \* those of them that are the chat stream that created the task
  RunLimit,  \* the agent's loop limit: max_runs_per_task
  MayDie     \* whether processes stop and requests time out (FALSE: liveness)

ASSUME ReqsAssumption ==
  Chats \subseteq Reqs /\ RunLimit \in Nat \ {0} /\ MayDie \in BOOLEAN

VARIABLES
  req,      \* [Reqs -> what the request remembers]
  acts,     \* history: how often run i reached a tool handler
  allowed   \* history: the runs whose first call policy let through unasked

vars == <<store, req, acts, allowed>>

\* Where a request is.  "applying" and "settling" are worker threads: once there
\* they finish their unit even when the request that started them is gone.
Pc == {"new", "idle", "planning", "applying", "executing", "settling", "failing"}
Cleanup == {"release", "reset", "quiet"}

Req == [pc : Pc,
        gone : BOOLEAN,            \* the request ended; only its thread still works
        todo : SUBSET Cleanup,     \* clean-up units handed to worker threads
        prev : 0..MaxRuns,         \* _Claim.previous_run_id
        before : TaskStatus,       \* _Claim.previous_status
        run : 0..MaxRuns,          \* the run it executes
        version : Nat, call : Nat, \* the checkpoint it committed
        by : 0..MaxApprovals,      \* the approval it executes under, 0 for none
        outcome : {"none", "succeeded", "failed", "paused"},
        cancelled : BOOLEAN]       \* history: a Cancel came after its claim

Idle == [pc |-> "idle", gone |-> FALSE, todo |-> {}, prev |-> 0, before |-> "created",
         run |-> 0, version |-> 0, call |-> 0, by |-> 0, outcome |-> "none",
         cancelled |-> FALSE]

Free(r) == req[r].pc = "idle" /\ req[r].todo = {}

\* Request r goes on at `pc' with `todo' left to clean up; with neither it is over.
GoesTo(r, pc, todo) ==
  req' = [req EXCEPT ![r] =
            IF pc = "idle" /\ todo = {} THEN Idle ELSE [@ EXCEPT !.pc = pc, !.todo = todo]]

Init ==
  /\ task = [status |-> "created", archived |-> FALSE, stale |-> FALSE]
  /\ runs = [i \in RunId |-> NewRun]
  /\ latest = 0
  /\ approvals = [a \in ApprovalId |->
                    [status |-> "expired", run |-> 1, call |-> 0, lapsed |-> FALSE]]
  /\ asked = 0
  /\ req = [r \in Reqs |-> IF r \in Chats THEN [Idle EXCEPT !.pc = "new"] ELSE Idle]
  /\ acts = [i \in RunId |-> 0]
  /\ allowed = {}

-----------------------------------------------------------------------------
(* Claim: lock the task, check, set it running *)

\* No open run: the claim of a running task was never applied.
Unapplied == latest = 0 \/ \E i \in RunId : i = latest /\ runs[i].phase \in Ended

\* inline_runs.claim_expired
ClaimExpired == task.status = "running" /\ Unapplied /\ task.stale

Runnable == ~task.archived /\ (task.status \in {"created", "queued"} \/ ClaimExpired)

\* Mutant of Retryable: one run too many.
RetryableOnceMore ==
  /\ ~task.archived
  /\ task.status \in {"failed", "cancelled"} \/ ClaimExpired
  /\ latest <= RunLimit

\* _check_retryable, and check_retry_allowed for a task that runs as an agent
Retryable ==
  /\ ~task.archived
  /\ task.status \in {"failed", "cancelled"} \/ ClaimExpired
  /\ latest < RunLimit

TakeClaim(r) ==
  /\ latest < MaxRuns
  /\ req' = [req EXCEPT ![r] = [Idle EXCEPT !.pc = "planning", !.prev = latest,
                                            !.before = task.status]]
  /\ task' = [task EXCEPT !.status = "running", !.stale = FALSE]
  /\ UNCHANGED <<runs, latest, approvals, asked, acts, allowed>>

\* POST /tasks/{id}/run and /tasks/{id}/retry
ClaimRun(r) == Free(r) /\ Runnable /\ TakeClaim(r)
ClaimRetry(r) == Free(r) /\ Retryable /\ TakeClaim(r)

\* An automation hands its agent task over, once (main.run_task_for_automation).
ClaimHandOff(r) ==
  Free(r) /\ task.status \in {"created", "queued"} /\ latest = 0 /\ TakeClaim(r)

\* The chat stream runs the task it created a moment ago.
ClaimChat(r) == req[r].pc = "new" /\ task.status \in {"created", "queued"} /\ TakeClaim(r)

\* ... or finds that it moved on: RunClaimLost, answered by _reset_unrun.
RefuseChat(r) ==
  /\ req[r].pc = "new"
  /\ task.status \notin {"created", "queued"}
  /\ GoesTo(r, "idle", {"reset"})
  /\ UNCHANGED <<store, acts, allowed>>

\* Time: a running task without an open run is not touched for the whole lease.
LeaseLapses ==
  /\ task.status = "running" /\ Unapplied /\ ~task.stale
  /\ task' = [task EXCEPT !.stale = TRUE]
  /\ UNCHANGED <<runs, latest, approvals, asked, req, acts, allowed>>

-----------------------------------------------------------------------------
(* Plan, then Apply: lock the task, check the claim, record the plan *)

PlanReturns(r) ==
  /\ req[r].pc = "planning"
  /\ GoesTo(r, "applying", {})
  /\ UNCHANGED <<store, acts, allowed>>

\* Mutant of NotApplied: the claim is left behind.
NotAppliedLeft(r) == {}

\* The clean-up of a run that was not applied: _release and, in a chat, _reset_unrun.
NotApplied(r) == IF r \in Chats THEN {"release", "reset"} ELSE {"release"}

PlanFails(r) ==
  /\ req[r].pc = "planning"
  /\ GoesTo(r, "idle", NotApplied(r))
  /\ UNCHANGED <<store, acts, allowed>>

\* Mutants of ClaimHolds: another run of the task, or its archiving, goes unnoticed.
ClaimHoldsAnyRun(r) == task.status = "running" /\ ~task.archived

ClaimHoldsArchived(r) == task.status = "running" /\ latest = req[r].prev

\* inline_runs._locked_claimed_task
ClaimHolds(r) == task.status = "running" /\ ~task.archived /\ latest = req[r].prev

\* The applied run becomes the newest one.
NewRunIs(r, i) ==
  /\ req[r].pc = "applying" /\ ClaimHolds(r)
  /\ i = latest + 1 /\ i <= MaxRuns
  /\ latest' = i

\* Policy blocks the planned call.
ApplyBlocked(r) ==
  \E i \in RunId :
    /\ NewRunIs(r, i)
    /\ Save(i, EndedAs(Proposed(NewRun), "failed"))
    /\ GoesTo(r, "idle", req[r].todo)
    /\ UNCHANGED <<approvals, asked, acts, allowed>>

\* Policy wants a person to decide.
ApplyPauses(r) ==
  \E i \in RunId :
    /\ NewRunIs(r, i)
    /\ PauseForApproval(i, Proposed(NewRun))
    /\ GoesTo(r, "idle", req[r].todo)
    /\ UNCHANGED <<acts, allowed>>

\* Request r committed `checkpoint' of run i as executing and alone runs its tool,
\* under approval `by' (0: none was needed).
Executes(r, i, checkpoint, by) ==
  req' = [req EXCEPT ![r] = [Idle EXCEPT !.pc = "executing", !.run = i,
            !.version = checkpoint.version, !.call = checkpoint.call, !.by = by,
            !.cancelled = req[r].cancelled]]

\* Policy allows the call.  When the request is gone by now, nobody runs the tool.
ApplyAllowed(r) ==
  \E i \in RunId : LET checkpoint == Executing(Proposed(NewRun)) IN
    /\ NewRunIs(r, i)
    /\ Save(i, checkpoint)
    /\ IF req[r].gone THEN GoesTo(r, "idle", req[r].todo) ELSE Executes(r, i, checkpoint, 0)
    /\ allowed' = allowed \cup {i}
    /\ UNCHANGED <<approvals, asked, acts>>

\* RunClaimLost, or the unit of work failed and rolled back.
ApplyLoses(r) ==
  /\ req[r].pc = "applying" /\ (MayDie \/ ~ClaimHolds(r))
  /\ GoesTo(r, "idle", IF req[r].gone THEN req[r].todo ELSE NotApplied(r))
  /\ UNCHANGED <<store, acts, allowed>>

CleanedUp(r, step) == step \in req[r].todo /\ GoesTo(r, req[r].pc, req[r].todo \ {step})

\* inline_runs._release: the task gets its status before the claim back.
Release(r) ==
  /\ CleanedUp(r, "release")
  /\ task' = IF task.status = "running" /\ latest = req[r].prev
             THEN [task EXCEPT !.status = req[r].before, !.stale = FALSE] ELSE task
  /\ UNCHANGED <<runs, latest, approvals, asked, acts, allowed>>

\* Mutants of ResetUnrun: although the task has a run, or whatever its status.
ResetUnrunOverRun(r) ==
  /\ CleanedUp(r, "reset")
  /\ task' = IF task.status \in {"running", "queued"}
             THEN [task EXCEPT !.status = "created", !.stale = FALSE] ELSE task
  /\ UNCHANGED <<runs, latest, approvals, asked, acts, allowed>>

ResetUnrunAlways(r) ==
  /\ CleanedUp(r, "reset")
  /\ task' = IF latest = 0 THEN [task EXCEPT !.status = "created", !.stale = FALSE] ELSE task
  /\ UNCHANGED <<runs, latest, approvals, asked, acts, allowed>>

\* chat_tools._reset_unrun
ResetUnrun(r) ==
  /\ CleanedUp(r, "reset")
  /\ task' = IF task.status \in {"running", "queued"} /\ latest = 0
             THEN [task EXCEPT !.status = "created", !.stale = FALSE] ELSE task
  /\ UNCHANGED <<runs, latest, approvals, asked, acts, allowed>>

-----------------------------------------------------------------------------
(* Execute with no transaction open, then Settle *)

ToolEnds(r, pc, outcome) ==
  req' = [req EXCEPT ![r] = [@ EXCEPT !.pc = pc, !.outcome = outcome]]

Acts(r) == acts' = [acts EXCEPT ![req[r].run] = @ + 1]

\* The handler ran; "failed" stands for the statuses failed and blocked.
ToolReturns(r) ==
  /\ req[r].pc = "executing"
  /\ \E outcome \in {"succeeded", "failed", "paused"} : ToolEnds(r, "settling", outcome)
  /\ Acts(r)
  /\ UNCHANGED <<store, allowed>>

\* ToolRegistry.execute answers "blocked" before any handler runs.
ToolRefused(r) ==
  /\ req[r].pc = "executing"
  /\ ToolEnds(r, "settling", "failed")
  /\ UNCHANGED <<store, acts, allowed>>

\* The handler raises; how far it got is unknown.
ToolRaises(r) ==
  /\ req[r].pc = "executing"
  /\ ToolEnds(r, "failing", "none")
  /\ Acts(r)
  /\ UNCHANGED <<store, allowed>>

\* Mutants of StillExecuting: without the version, and unchecked.
StillExecutingAnyVersion(r) ==
  \E i \in RunId : i = req[r].run /\ runs[i].phase = "executing"

StillExecutingUnchecked(r) == req[r].run \in RunId

\* inline_runs._locked_executing_run: still the executing checkpoint this request
\* committed (same version).
StillExecuting(r) ==
  \E i \in RunId : /\ i = req[r].run
                   /\ runs[i].phase = "executing"
                   /\ runs[i].version = req[r].version

Settle(r) ==
  /\ req[r].pc = "settling" /\ StillExecuting(r)
  /\ SettleOutcome(req[r].run, runs[req[r].run], req[r].outcome)
  /\ GoesTo(r, "idle", req[r].todo)
  /\ UNCHANGED <<latest, acts, allowed>>

FailRun(i) ==
  Save(i, EndedAs(runs[i], "failed")) /\ UNCHANGED <<latest, approvals, asked>>

\* inline_runs._settle_failure
SettleFailure(r) ==
  /\ req[r].pc = "failing" /\ StillExecuting(r)
  /\ FailRun(req[r].run)
  /\ GoesTo(r, "idle", req[r].todo)
  /\ UNCHANGED <<acts, allowed>>

\* RunClaimLost: the tool's audit record is kept and the run stays as it is.
SettleLoses(r) ==
  /\ req[r].pc \in {"settling", "failing"} /\ ~StillExecuting(r)
  /\ GoesTo(r, "idle", req[r].todo)
  /\ UNCHANGED <<store, acts, allowed>>

\* inline_runs._settle_failure_quietly
SettleQuietly(r) ==
  /\ CleanedUp(r, "quiet")
  /\ IF StillExecuting(r) THEN FailRun(req[r].run) ELSE UNCHANGED store
  /\ UNCHANGED <<acts, allowed>>

-----------------------------------------------------------------------------
(* Requests that end early *)

GoesOnWithout(r, todo) == req' = [req EXCEPT ![r] = [@ EXCEPT !.gone = TRUE, !.todo = todo]]

\* run_inline is cancelled (a stopped chat stream, a shutdown) or, in a chat, times
\* out.  A unit that is already in its worker thread goes on without it.
StopEarly(r) ==
  /\ MayDie /\ ~req[r].gone
  /\ \/ req[r].pc = "planning" /\ GoesTo(r, "idle", NotApplied(r)) /\ UNCHANGED acts
     \/ /\ req[r].pc = "applying"
        /\ GoesOnWithout(r, NotApplied(r))
        /\ UNCHANGED acts
     \/ /\ req[r].pc = "executing" /\ req[r].by = 0
        /\ GoesTo(r, "idle", {"quiet"})
        /\ Acts(r) \/ UNCHANGED acts
     \/ /\ req[r].pc \in {"settling", "failing"} /\ req[r].by = 0
        /\ GoesOnWithout(r, {"quiet"})
        /\ UNCHANGED acts
  /\ UNCHANGED <<store, allowed>>

\* The process of the request dies, or its timeout or a database error leaves an
\* executing run behind: nothing of the request is left.
Die(r) ==
  /\ MayDie /\ ~Free(r) /\ req[r].pc # "new"
  /\ req' = [req EXCEPT ![r] = Idle]
  /\ UNCHANGED <<store, acts, allowed>>

-----------------------------------------------------------------------------
(* Approval decisions: main._decide_in_unit, one unit under task and approval lock. *)
(* Refusals that change nothing (wrong hash, routing, two-person rule, a repeated   *)
(* approver) and partial approvals of a chain leave these rows as they are.         *)

Pending(a) == a <= asked /\ approvals[a].status = "pending"

ApprovalLapses(a) ==
  /\ Pending(a) /\ ~approvals[a].lapsed
  /\ approvals' = [approvals EXCEPT ![a].lapsed = TRUE]
  /\ UNCHANGED <<task, runs, latest, asked, req, acts, allowed>>

\* The decision ends the approval and, when `fails', the run it was asked for.
EndDecision(a, status, fails) ==
  LET i == approvals[a].run IN
  /\ Pending(a)
  /\ Decided(a, status)
  /\ IF fails THEN Save(i, EndedAs(runs[i], "failed")) ELSE UNCHANGED <<task, runs>>
  /\ UNCHANGED <<latest, asked, req, acts, allowed>>

AwaitsIt(a) == runs[approvals[a].run].approval = a

\* Mutant of DecideLapsed: the run is not failed.
DecideLapsedOnly(a) == approvals[a].lapsed /\ EndDecision(a, "expired", FALSE)

\* Found lapsed by any decision: answered 410.
DecideLapsed(a) == approvals[a].lapsed /\ EndDecision(a, "expired", AwaitsIt(a))

Reject(a) == ~approvals[a].lapsed /\ EndDecision(a, "rejected", TRUE)

\* refuse_changed_target: asked for another integration target than today's.
RefuseChangedTarget(a) ==
  /\ ~approvals[a].lapsed
  /\ EndDecision(a, "expired", AwaitsIt(a) /\ runs[approvals[a].run].phase \notin Ended)

\* Approved, but begin_execution finds another call or the policy blocks it by now.
ApproveBlocked(a) == ~approvals[a].lapsed /\ EndDecision(a, "approved", TRUE)

\* Mutant of Approve: decided without looking whether it was decided.
ApproveAgain(r, a) ==
  LET i == approvals[a].run
      checkpoint == Executing(runs[i])
  IN
  /\ Free(r) /\ a <= asked /\ approvals[a].status # "rejected" /\ ~approvals[a].lapsed
  /\ runs[i].call = approvals[a].call
  /\ Decided(a, "approved")
  /\ Save(i, checkpoint)
  /\ Executes(r, i, checkpoint, a)
  /\ UNCHANGED <<latest, asked, acts, allowed>>

\* The last approval: begin_execution compares the checkpointed call with the
\* approved one, asks the policy again, and commits the run as executing.
Approve(r, a) ==
  LET i == approvals[a].run
      checkpoint == Executing(runs[i])
  IN
  /\ Free(r) /\ Pending(a) /\ ~approvals[a].lapsed
  /\ runs[i].call = approvals[a].call
  /\ Decided(a, "approved")
  /\ Save(i, checkpoint)
  /\ Executes(r, i, checkpoint, a)
  /\ UNCHANGED <<latest, asked, acts, allowed>>

-----------------------------------------------------------------------------
(* Cancel, emergency stop, archive *)

\* History: the claims a cancel answers "at once".
MarkClaims ==
  req' = [r \in Reqs |->
            [req[r] EXCEPT !.cancelled = @ \/ req[r].pc \in {"planning", "applying"}]]

Cancel ==
  /\ task.status \notin Ended /\ ~task.archived
  /\ CancelRows /\ MarkClaims
  /\ UNCHANGED <<acts, allowed>>

EmergencyStop ==
  /\ task.status \in {"running", "queued"}
  /\ CancelRows /\ MarkClaims
  /\ UNCHANGED <<acts, allowed>>

Archive ==
  /\ ~task.archived /\ task.status \in Ended \cup {"created"}
  /\ task' = [task EXCEPT !.archived = TRUE, !.stale = FALSE]
  /\ UNCHANGED <<runs, latest, approvals, asked, req, acts, allowed>>

Unarchive ==
  /\ task.archived
  /\ task' = [task EXCEPT !.archived = FALSE, !.stale = FALSE]
  /\ UNCHANGED <<runs, latest, approvals, asked, req, acts, allowed>>

-----------------------------------------------------------------------------

Plan(r) == PlanReturns(r) \/ PlanFails(r)
Apply(r) == ApplyBlocked(r) \/ ApplyPauses(r) \/ ApplyAllowed(r) \/ ApplyLoses(r)
Tool(r) == ToolReturns(r) \/ ToolRefused(r) \/ ToolRaises(r)
SettleUnit(r) == Settle(r) \/ SettleFailure(r) \/ SettleLoses(r)
CleanUp(r) == Release(r) \/ ResetUnrun(r) \/ SettleQuietly(r)
Start(r) ==
  ClaimRun(r) \/ ClaimRetry(r) \/ ClaimHandOff(r) \/ ClaimChat(r) \/ RefuseChat(r)
Decide(a) ==
  DecideLapsed(a) \/ Reject(a) \/ RefuseChangedTarget(a) \/ ApproveBlocked(a)

Next ==
  \/ \E r \in Reqs : \/ Start(r) \/ Plan(r) \/ Apply(r) \/ Tool(r) \/ SettleUnit(r)
                     \/ CleanUp(r) \/ StopEarly(r) \/ Die(r)
  \/ \E a \in ApprovalId : \/ ApprovalLapses(a) \/ Decide(a)
                           \/ \E r \in Reqs : Approve(r, a)
  \/ LeaseLapses \/ Cancel \/ EmergencyStop \/ Archive \/ Unarchive

Spec == Init /\ [][Next]_vars

\* Worker threads finish, and model and tool calls answer or time out.
Fairness == \A r \in Reqs :
  WF_vars(Plan(r)) /\ WF_vars(Apply(r)) /\ WF_vars(Tool(r)) /\ WF_vars(SettleUnit(r))
    /\ WF_vars(CleanUp(r))

LiveSpec == Spec /\ Fairness

-----------------------------------------------------------------------------
(* Properties *)

TypeOK ==
  /\ StoreTypeOK
  /\ req \in [Reqs -> Req]
  /\ acts \in [RunId -> Nat]
  /\ allowed \subseteq RunId

\* Requests that may still settle what they execute.
Works(r) == req[r].pc \in {"executing", "settling", "failing"} \/ "quiet" \in req[r].todo

\* An executing checkpoint belongs to one request: two of them never settle the same
\* execution (inline_runs: "the run is still the executing checkpoint that was committed").
OneWorker ==
  \A r, s \in Reqs : Works(r) /\ Works(s) /\ StillExecuting(r) /\ StillExecuting(s)
                       /\ req[r].run = req[s].run => r = s

\* A tool handler is reached at most once for the policy's own go-ahead and once for
\* each approval: "the approval is used once" (main._decide_approval), whatever is
\* cancelled, retried, stopped or decided twice meanwhile.
ToolCallsBacked ==
  \A i \in RunId :
    acts[i] <= (IF i \in allowed THEN 1 ELSE 0)
               + Cardinality({a \in 1..asked : /\ approvals[a].run = i
                                               /\ approvals[a].status = "approved"})

\* An archived task never has an open run or anything left to decide: archiving races
\* a claim in both directions, and `apply' must notice (archive_task only refuses an
\* active task; a chat or an automation claims without looking at archived_at).
ArchivedIsIdle == task.archived => Unapplied /\ \A a \in ApprovalId : ~Pending(a)

\* No interleaving of Retry, takeover and Cancel gives a task more runs than its
\* agent's loop limit (agent_loop_limits.check_retry_allowed counts at the claim,
\* the run is only stored at apply).
WithinRunLimit == latest <= RunLimit

\* A finished or cancelled run is never written again.
EndedRunsStay ==
  [][\A i \in RunId : i <= latest /\ runs[i].phase \in Ended => runs'[i] = runs[i]]_vars

\* A tool handler is reached only for the call that was approved, by an approval that
\* stands, or for a run's FIRST call when policy allowed it: a continuation never runs
\* without a person (AgentRuntime._continue).
ToolCallsAuthorised ==
  [][\A r \in Reqs : acts' # acts /\ req'[r] # req[r] =>
       IF req[r].by = 0 THEN req[r].call = 1 /\ req[r].run \in allowed
       ELSE LET a == approvals[req[r].by] IN
            a.status = "approved" /\ a.run = req[r].run /\ a.call = req[r].call]_vars

\* A finished task starts again only through a new claim.
EndedTaskNeedsClaim ==
  [][task.status \in Ended /\ task'.status # task.status =>
       /\ task'.status = "running"
       /\ \E r \in Reqs : req[r].pc # "planning" /\ req'[r].pc = "planning"]_vars

\* With nobody dying, a running task always comes to rest or asks a person
\* (no claim is left behind, no execution stays unsettled).
RunningEnds == task.status = "running" ~> task.status # "running"

\* What the documents say and the code does not keep -------------------------

\* "A cancel during the run is answered at once; the run notices it at the next step
\* and stops" (inline_runs, docs/agent-runtime.md): a run whose claim was cancelled
\* never goes on to its tool.
CancelledClaimStops ==
  \A r \in Reqs : req[r].pc = "executing" => ~req[r].cancelled
=============================================================================
