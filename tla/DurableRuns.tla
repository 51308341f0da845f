----------------------------- MODULE DurableRuns -----------------------------
(***************************************************************************)
(* Durable task runs (ANUM_RUNTIME_BACKEND=temporal): the API queues a run *)
(* and starts the task's workflow (temporal_workflow.py), whose attempts   *)
(* of the activity advance_run (durable_runs.py) move the run forward from *)
(* its checkpoint.                                                         *)
(*                                                                         *)
(* Every unit of work locks the task row first (_load reads it FOR UPDATE, *)
(* the model and the tool work while it is held), so a unit is one action. *)
(* Only a queueing request does something visible while it holds the lock: *)
(* it starts the workflow BEFORE its transaction commits; `queue' is that  *)
(* uncommitted transaction and every other unit waits for it.  An attempt  *)
(* may stop anywhere; a timed out one may also go on beside its successor. *)
(* The model's plan, the policy's verdict and the tool's outcome are free. *)
(***************************************************************************)
EXTENDS AgentRuntime

CONSTANTS
  Workers,      \* activity slots of the durable workers
  None,         \* no worker
  Automations,  \* automation steps handing the task over (run_task_for_automation)
  Chats,        \* chat streams that queue the task they created
  RunLimit,     \* the agent's loop limit: max_runs_per_task
  Idempotent,   \* the runs that plan a call to a tool declared idempotent
  MaxLosses     \* bound: attempts that time out or die

ASSUME WorkersAssumption ==
  /\ None \notin Workers
  /\ Idempotent \subseteq RunId /\ MaxLosses \in Nat
  /\ RunLimit \in Nat \ {0}

VARIABLES
  queue,    \* [open, save]: a queueing transaction, and the task row it will commit
  wf,       \* the task's workflow execution
  at,       \* [Workers -> attempt]
  asking,   \* [Automations \cup Chats -> where the request is, and what it read]
  resumed,  \* the run a resume request found at tool_ready, 0 for none
  acts,     \* history: how often the handler of a run's call was reached, at most 2
  allowed,  \* history: the calls <<run, call>> the policy let through unasked
  losses    \* attempts lost so far

vars == <<store, queue, wf, at, asking, resumed, acts, allowed, losses>>
others == <<asking, resumed, losses>>

Calls == 1..(MaxApprovals + 2)

Workflow == [open : BOOLEAN,
             run : 0..MaxRuns,            \* AgentRunInput.run_id, 0: it was rolled back
             attempt : Workers \cup {None},
             waits : BOOLEAN]             \* in wait_condition

\* "first" and "second" name the unit of work of `advance' that comes next.
Attempt == [pc : {"idle", "first", "second", "reports"},
            run : 0..MaxRuns, call : Nat, by : 0..MaxApprovals, phase : RunPhase]

Resting == [pc |-> "idle", run |-> 0, call |-> 0, by |-> 0, phase |-> "planning"]

Unlocked == ~queue.open

Init ==
  /\ task = [status |-> "created", archived |-> FALSE, stale |-> FALSE]
  /\ runs = [i \in RunId |-> NewRun]
  /\ latest = 0
  /\ approvals = [a \in ApprovalId |->
                    [status |-> "expired", run |-> 1, call |-> 0, lapsed |-> FALSE]]
  /\ asked = 0
  /\ queue = [open |-> FALSE, save |-> task]
  /\ wf = [open |-> FALSE, run |-> 0, attempt |-> None, waits |-> FALSE]
  /\ at = [w \in Workers |-> Resting]
  /\ asking = [h \in Automations \cup Chats |-> [pc |-> "new", saw |-> task]]
  /\ resumed = 0
  /\ acts = [i \in RunId |-> [c \in Calls |-> 0]]
  /\ allowed = {}
  /\ losses = 0

-----------------------------------------------------------------------------
(* Queueing: main._queue_durable_run in the caller's transaction *)

\* Mutant of StartWorkflow: a retry reuses the open workflow, too.
StartWorkflowReusing(run, replace) ==
  wf' = IF wf.open THEN wf
        ELSE [open |-> TRUE, run |-> run, attempt |-> None, waits |-> FALSE]

\* RunDispatcher.start: TERMINATE_EXISTING for a retry, USE_EXISTING for the rest.
StartWorkflow(run, replace) ==
  wf' = IF wf.open /\ ~replace THEN wf
        ELSE [open |-> TRUE, run |-> run, attempt |-> None, waits |-> FALSE]

\* save_task, save_run (both flushed: the row is locked now) and _dispatch.
Queue(saw, replace) ==
  /\ Unlocked /\ latest < MaxRuns
  /\ queue' = [open |-> TRUE, save |-> [saw EXCEPT !.status = "queued", !.stale = FALSE]]
  /\ StartWorkflow(latest + 1, replace)
  /\ UNCHANGED <<store, at, resumed, acts, allowed, losses>>

\* POST /tasks/{id}/run: _check_runnable, and no run yet.
QueueRun ==
  /\ ~task.archived /\ task.status \in {"created", "queued"} /\ latest = 0
  /\ Queue(task, FALSE) /\ UNCHANGED asking

\* Mutant of Retryable: a queued or running task, too.
RetryableActive ==
  ~task.archived /\ task.status \notin {"created", "completed"} /\ latest < RunLimit

\* POST /tasks/{id}/retry: _check_retryable, check_retry_allowed.  (A durable task is
\* never running without an open run, so there is no claim to take over.)
Retryable ==
  ~task.archived /\ task.status \in {"failed", "cancelled"} /\ latest < RunLimit

QueueRetry == Retryable /\ Queue(task, TRUE) /\ UNCHANGED asking

\* chat_tools._queue_durable locks the task it created but does not look at it.
QueueChat(h) ==
  /\ asking[h].pc = "new" /\ latest = 0
  /\ Queue(task, FALSE)
  /\ asking' = [asking EXCEPT ![h].pc = "done"]

\* run_task_for_automation checks the task it reads WITHOUT the row lock ...
HandOffReads(h) ==
  /\ asking[h].pc = "new"
  /\ task.status \in {"created", "queued"} /\ latest = 0
  /\ asking' = [asking EXCEPT ![h] = [pc |-> "read", saw |-> task]]
  /\ UNCHANGED <<store, queue, wf, at, resumed, acts, allowed, losses>>

\* ... and saves what it read.
HandOffQueues(h) ==
  /\ asking[h].pc = "read"
  /\ Queue(asking[h].saw, FALSE)
  /\ asking' = [asking EXCEPT ![h].pc = "done"]

QueueCommits ==
  /\ queue.open
  /\ queue' = [queue EXCEPT !.open = FALSE]
  /\ task' = queue.save
  /\ latest' = latest + 1
  /\ runs' = [runs EXCEPT ![latest + 1] = NewRun]
  /\ UNCHANGED <<approvals, asked, wf, at, asking, resumed, acts, allowed, losses>>

\* The process or its database fails after the workflow was started: the run of the
\* workflow, and of an attempt that began already, will never exist.
QueueAborts ==
  /\ queue.open
  /\ queue' = [queue EXCEPT !.open = FALSE]
  /\ wf' = [wf EXCEPT !.run = IF @ = latest + 1 THEN 0 ELSE @]
  /\ at' = [w \in Workers |->
              [at[w] EXCEPT !.run = IF @ = latest + 1 THEN 0 ELSE @]]
  /\ UNCHANGED <<store, asking, resumed, acts, allowed, losses>>

\* POST /agent-runs/{id}/resume: the check in one unit, the workflow started after it.
ResumeChecks ==
  /\ Unlocked /\ resumed = 0
  /\ \E i \in RunId : /\ i <= latest /\ runs[i].phase = "tool_ready"
                      /\ task.status # "cancelled"
                      /\ resumed' = i
  /\ UNCHANGED <<store, queue, wf, at, asking, acts, allowed, losses>>

ResumeStarts ==
  /\ resumed # 0
  /\ StartWorkflow(resumed, FALSE)
  /\ resumed' = 0
  /\ UNCHANGED <<store, queue, at, asking, acts, allowed, losses>>

-----------------------------------------------------------------------------
(* The workflow and its attempts *)

StartAttempt(w) ==
  /\ wf.open /\ wf.attempt = None /\ ~wf.waits
  /\ at[w].pc = "idle"
  /\ at' = [at EXCEPT ![w] = [Resting EXCEPT !.pc = "first", !.run = wf.run]]
  /\ wf' = [wf EXCEPT !.attempt = w]
  /\ UNCHANGED <<store, queue, acts, allowed, others>>

\* AgentRunWorkflow.run, for the result of its current attempt.
Returned(phase) ==
  [wf EXCEPT !.attempt = None,
             !.open = phase \notin Ended,
             !.waits = phase = "waiting_approval"]

\* A terminated workflow and a timed out attempt's successor ignore the result.
Reports(w) ==
  /\ at[w].pc = "reports"
  /\ at' = [at EXCEPT ![w] = Resting]
  /\ wf' = IF wf.attempt = w THEN Returned(at[w].phase) ELSE wf
  /\ UNCHANGED <<store, queue, acts, allowed, others>>

\* A signal, the poll, or the approval's expiry.
Wakes ==
  /\ wf.open /\ wf.waits
  /\ wf' = [wf EXCEPT !.waits = FALSE]
  /\ UNCHANGED <<store, queue, at, acts, allowed, others>>

\* Mutant of Retried: the activity has no retry policy.
RetriedNever(w) == wf

\* The activity's retry policy schedules another attempt.
Retried(w) == [wf EXCEPT !.attempt = IF @ = w THEN None ELSE @]

\* start_to_close_timeout: the attempt is given up, and may still be at work.
TimesOut(w) ==
  /\ losses < MaxLosses /\ losses' = losses + 1
  /\ wf.attempt = w
  /\ wf' = Retried(w)
  /\ UNCHANGED <<store, queue, at, asking, resumed, acts, allowed>>

Reached(i, call) == acts' = [acts EXCEPT ![i][call] = IF @ < 2 THEN @ + 1 ELSE @]

Repeatable(i) == i \in Idempotent

\* The worker stops, or the tool or the commit raises: the unit it was in is rolled
\* back, but a handler that unit had reached was reached.
Dies(w) ==
  /\ losses < MaxLosses /\ losses' = losses + 1
  /\ at[w].pc # "idle"
  /\ \/ UNCHANGED acts
     \/ \E i \in RunId :
          /\ Unlocked /\ at[w].run = i /\ runs[i].phase = "executing"
          /\ \/ at[w].pc = "second" /\ Reached(i, at[w].call)
             \/ at[w].pc = "first" /\ Repeatable(i) /\ Reached(i, runs[i].call)
  /\ at' = [at EXCEPT ![w] = Resting]
  /\ wf' = Retried(w)
  /\ UNCHANGED <<store, queue, asking, resumed, allowed>>

-----------------------------------------------------------------------------
(* advance: the first unit of work *)

\* Attempt w is in its first unit, on run i of a task that was not cancelled.
First(w, i) ==
  /\ at[w].pc = "first" /\ Unlocked
  /\ at[w].run = i

Answer(w, phase) == at' = [at EXCEPT ![w].pc = "reports", ![w].phase = phase]

\* The unit ends the activity: it reports the checkpoint it has written.
Done(w, i) ==
  /\ Answer(w, runs'[i].phase)
  /\ UNCHANGED <<latest, queue, wf, others>>

\* _missing_run_error: retried, and after MISSING_RUN_RETRY_ATTEMPTS the workflow fails.
Missing(w) ==
  /\ First(w, 0)
  /\ at' = [at EXCEPT ![w] = Resting]
  /\ \/ wf' = Retried(w)
     \/ wf' = IF wf.attempt = w THEN Returned("failed") ELSE wf
  /\ UNCHANGED <<store, queue, acts, allowed, others>>

Stopped(i) == task.status = "cancelled" \/ runs[i].phase = "cancelled"

AdvanceStopped(w) ==
  \E i \in RunId :
    /\ First(w, i) /\ Stopped(i)
    /\ runs' = IF runs[i].phase = "cancelled" THEN runs
               ELSE [runs EXCEPT ![i] = EndedAs(runs[i], "cancelled")]
    /\ Done(w, i)
    /\ UNCHANGED <<task, approvals, asked, acts, allowed>>

AdvanceEnded(w) ==
  \E i \in RunId :
    /\ First(w, i) /\ ~Stopped(i) /\ runs[i].phase \in {"completed", "failed"}
    /\ UNCHANGED runs /\ Done(w, i)
    /\ UNCHANGED <<task, approvals, asked, acts, allowed>>

\* plan_run: blocked or out of budget, held for a person, or ready.
AdvancePlans(w) ==
  \E i \in RunId :
    /\ First(w, i) /\ ~Stopped(i) /\ runs[i].phase = "planning"
    /\ \/ /\ \E r \in {runs[i], Proposed(runs[i])} : Save(i, EndedAs(r, "failed"))
          /\ KeepApprovals
       \/ PauseForApproval(i, Proposed(runs[i]))
       \/ Save(i, Proposed(runs[i])) /\ KeepApprovals
    /\ Done(w, i)
    /\ UNCHANGED <<acts, allowed>>

Fails(i) == Save(i, EndedAs(runs[i], "failed"))

\* begin_execution lets the checkpointed call through: committed as executing, and
\* the attempt goes on to its second unit with the call in memory.
Begins(w, i, by) ==
  /\ Save(i, Executing(runs[i]))
  /\ at' = [at EXCEPT ![w].pc = "second", ![w].call = runs[i].call, ![w].by = by]
  /\ UNCHANGED <<latest, queue, wf, others>>

AdvanceReady(w) ==
  \E i \in RunId :
    /\ First(w, i) /\ ~Stopped(i) /\ runs[i].phase = "tool_ready"
    /\ \/ Fails(i) /\ KeepApprovals /\ Done(w, i) /\ UNCHANGED allowed
       \/ PauseForApproval(i, runs[i]) /\ Done(w, i) /\ UNCHANGED allowed
       \/ /\ Begins(w, i, 0) /\ KeepApprovals
          /\ allowed' = allowed \cup {<<i, runs[i].call>>}
    /\ UNCHANGED acts

\* Mutant of Lets: any decided approval that nobody rejected.
LetsUnrejected(a, i) == approvals[a].status # "rejected" /\ approvals[a].call = runs[i].call

\* begin_execution with an approval: approved, and the payload hash still matches.
Lets(a, i) == approvals[a].status = "approved" /\ approvals[a].call = runs[i].call

AdvanceWaiting(w) ==
  \E i \in RunId, a \in ApprovalId :
    /\ First(w, i) /\ ~Stopped(i)
    /\ runs[i].phase = "waiting_approval" /\ a = runs[i].approval
    /\ \/ /\ approvals[a].status = "pending" /\ ~approvals[a].lapsed
          /\ UNCHANGED <<runs, task, approvals>> /\ Done(w, i)
       \/ /\ approvals[a].status = "pending" /\ approvals[a].lapsed
          /\ Decided(a, "expired") /\ Fails(i) /\ Done(w, i)
       \/ /\ approvals[a].status # "pending"
          /\ Fails(i) /\ Done(w, i) /\ UNCHANGED approvals
       \/ /\ approvals[a].status # "pending" /\ Lets(a, i)
          /\ Begins(w, i, a) /\ UNCHANGED approvals
    /\ UNCHANGED <<asked, acts, allowed>>

\* Mutant of Recoverable: every call is executed again.
RecoverableAny(i) == TRUE

\* recover_interrupted_execution: a declared idempotent call policy still allows runs
\* again, any other fails the run.  (No idempotent tool asks for a continuation.)
Recoverable(i) == Repeatable(i)

AdvanceRecovers(w) ==
  \E i \in RunId :
    /\ First(w, i) /\ ~Stopped(i) /\ runs[i].phase = "executing"
    /\ \/ Fails(i) /\ UNCHANGED <<approvals, asked, acts>>
       \/ /\ Recoverable(i) /\ Reached(i, runs[i].call)
          /\ \E outcome \in {"succeeded", "failed"} :
               SettleOutcome(i, [runs[i] EXCEPT !.version = @ + 1], outcome)
    /\ Done(w, i)
    /\ UNCHANGED allowed

FirstUnit(w) ==
  \/ Missing(w) \/ AdvanceStopped(w) \/ AdvanceEnded(w) \/ AdvancePlans(w)
  \/ AdvanceReady(w) \/ AdvanceWaiting(w) \/ AdvanceRecovers(w)

-----------------------------------------------------------------------------
(* advance: the second unit of work *)

\* Mutant of StillExecuting: the attempt trusts what it committed.
StillExecutingTrusted(i) == TRUE

\* The phase alone: the version is not compared.
StillExecuting(i) == runs[i].phase = "executing"

\* "cancelled or settled in between"
SecondSkips(w) ==
  \E i \in RunId :
    /\ at[w].pc = "second" /\ Unlocked /\ at[w].run = i
    /\ ~StillExecuting(i)
    /\ UNCHANGED runs /\ Done(w, i)
    /\ UNCHANGED <<task, approvals, asked, acts, allowed>>

\* finish_execution with the call in memory; the registry may refuse the call unheard.
SecondSettles(w) ==
  \E i \in RunId :
    /\ at[w].pc = "second" /\ Unlocked /\ at[w].run = i
    /\ StillExecuting(i)
    /\ \/ /\ Reached(i, at[w].call)
          /\ \E outcome \in {"succeeded", "failed", "paused"} :
               /\ outcome = "paused" => ~Repeatable(i)
               /\ SettleOutcome(i, runs[i], outcome)
       \/ SettleOutcome(i, runs[i], "failed") /\ UNCHANGED acts
    /\ Done(w, i)
    /\ UNCHANGED allowed

-----------------------------------------------------------------------------
(* The task routes: units under the row lock that only change the store *)

RouteUnit == Unlocked /\ UNCHANGED <<latest, queue, wf, at, acts, allowed, others>>

Pending(a) == a <= asked /\ approvals[a].status = "pending"

ApprovalLapses(a) ==
  /\ Pending(a) /\ ~approvals[a].lapsed
  /\ approvals' = [approvals EXCEPT ![a].lapsed = TRUE]
  /\ UNCHANGED <<task, runs, latest, asked, queue, wf, at, acts, allowed, others>>

\* _decide_in_unit with a dispatcher: the decision is stored, the workflow applies it.
\* (A lost signal only means that the workflow wakes later.)
Decide(a) ==
  /\ Pending(a) /\ RouteUnit
  /\ \/ approvals[a].lapsed /\ Decided(a, "expired")
     \/ ~approvals[a].lapsed /\ \E status \in {"approved", "rejected"} : Decided(a, status)
  /\ UNCHANGED <<task, runs, asked>>

\* refuse_changed_target fails the run itself.
RefuseChangedTarget(a) ==
  LET i == approvals[a].run IN
  /\ Pending(a) /\ ~approvals[a].lapsed /\ RouteUnit
  /\ Decided(a, "expired")
  /\ IF runs[i].approval = a /\ runs[i].phase \notin Ended THEN Fails(i)
     ELSE UNCHANGED <<task, runs>>
  /\ UNCHANGED asked

\* POST /tasks/{id}/cancel and the emergency stop
Cancel ==
  /\ Unlocked
  /\ \/ task.status \notin Ended /\ ~task.archived
     \/ task.status \in {"running", "queued"}
  /\ CancelRows
  /\ UNCHANGED <<queue, wf, at, acts, allowed, others>>

Archive ==
  /\ ~task.archived /\ task.status \in Ended \cup {"created"} /\ RouteUnit
  /\ task' = [task EXCEPT !.archived = TRUE]
  /\ UNCHANGED <<runs, approvals, asked>>

Unarchive ==
  /\ task.archived /\ RouteUnit
  /\ task' = [task EXCEPT !.archived = FALSE]
  /\ UNCHANGED <<runs, approvals, asked>>

-----------------------------------------------------------------------------

Works(w) ==
  StartAttempt(w) \/ FirstUnit(w) \/ SecondSkips(w) \/ SecondSettles(w) \/ Reports(w)

Route ==
  \/ QueueRun \/ QueueRetry \/ ResumeChecks \/ ResumeStarts
  \/ \E h \in Chats : QueueChat(h)
  \/ \E h \in Automations : HandOffReads(h) \/ HandOffQueues(h)
  \/ \E a \in ApprovalId : ApprovalLapses(a) \/ Decide(a) \/ RefuseChangedTarget(a)
  \/ Cancel \/ Archive \/ Unarchive

Next ==
  \/ QueueCommits \/ QueueAborts
  \/ Route
  \/ Wakes
  \/ \E w \in Workers : Works(w) \/ TimesOut(w) \/ Dies(w)

Spec == Init /\ [][Next]_vars

\* Temporal schedules and workers execute; a request ends its transaction.
Fairness ==
  /\ WF_vars(QueueCommits) /\ WF_vars(Wakes)
  /\ WF_vars(\E w \in Workers : StartAttempt(w))
  /\ \A w \in Workers : WF_vars(FirstUnit(w) \/ SecondSkips(w) \/ SecondSettles(w) \/ Reports(w))

LiveSpec == Spec /\ Fairness

-----------------------------------------------------------------------------
(* Properties *)

DurableTypeOK ==
  /\ StoreTypeOK
  /\ queue \in [open : BOOLEAN, save : Task]
  /\ wf \in Workflow
  /\ at \in [Workers -> Attempt]
  /\ asking \in [Automations \cup Chats -> [pc : {"new", "read", "done"}, saw : Task]]
  /\ resumed \in 0..MaxRuns
  /\ acts \in [RunId -> [Calls -> 0..2]]
  /\ allowed \subseteq RunId \X Calls
  /\ losses \in 0..MaxLosses

\* "Anything else, including every approved high-risk action, is never repeated": the
\* handler of a call that is not declared idempotent is reached at most once, whatever
\* times out, dies or is resumed (docs/agent-runtime.md, Durable Execution).
NeverRepeated ==
  \A i \in RunId \ Idempotent, c \in Calls : acts[i][c] <= 1

\* Queued onto the workflow of a request that rolled back, which knows no run: the first
\* run of a task, before anything was done for it.
Orphaned(i) == wf.run = 0 /\ i = 1 /\ runs[i].phase = "planning"

\* A run that has not ended has the workflow that moves it on (RunDispatcher.start: "it
\* ... would leave the new run queued forever"), whatever queueing requests roll back: a
\* first run queued again beside the workflow they left is the one exception.  The task
\* row tells what the run does.
OpenRunIsServed ==
  /\ DurableTypeOK
  /\ \A i \in RunId : Unlocked /\ i = latest /\ runs[i].phase \notin Ended =>
       /\ (wf.open /\ wf.run = i) \/ Orphaned(i)
       /\ task.status =
            IF runs[i].phase = "planning" THEN "queued" ELSE StatusOf(runs[i].phase)

\* The second unit compares only the phase, yet a late attempt never executes another
\* call than the one the run has checkpointed, nor writes for a run that moved on.
HandlerRunsTheCheckpoint ==
  [][\A i \in RunId, c \in Calls : acts'[i][c] # acts[i][c] =>
       runs[i].phase = "executing" /\ runs[i].call = c]_vars

\* A handler is reached only for a call policy allowed unasked or a person approved;
\* an approval that expired or was rejected meanwhile starts nothing.
HandlerIsAuthorised ==
  [][\A i \in RunId, c \in Calls : acts'[i][c] # acts[i][c] =>
       \/ <<i, c>> \in allowed
       \/ \E a \in 1..asked : /\ approvals[a].run = i /\ approvals[a].call = c
                              /\ approvals[a].status = "approved"]_vars

\* A completed or cancelled run is never written again, whatever attempt comes late.
CompletedRunsStay ==
  [][\A i \in RunId : i <= latest /\ runs[i].phase \in {"completed", "cancelled"} =>
       runs'[i] = runs[i]]_vars

\* "A run survives a worker restart": after finitely many lost attempts every run ends
\* or waits for a person, also when the decision's signal was lost.
RunSettles ==
  \A i \in RunId :
    (i <= latest /\ runs[i].phase \notin Ended)
      ~> \/ runs[i].phase \in Ended \/ Orphaned(i)
         \/ runs[i].phase = "waiting_approval" /\ \E a \in ApprovalId :
              a = runs[i].approval /\ Pending(a)
=============================================================================
