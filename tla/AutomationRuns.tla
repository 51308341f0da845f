---------------------------- MODULE AutomationRuns ----------------------------
(***************************************************************************)
(* The runs of one automation (automation.py, db/automation_repository.py) *)
(* and the work its steps leave to the dispatchers of the API processes    *)
(* (automation_dispatch.py).  A run moves only in transactions that lock   *)
(* its row; the work of a step (running an agent task, asking to send an   *)
(* email) happens after the commit, from a queue in memory that a crash    *)
(* empties, and is handed out again when nothing came of it for a while.   *)
(* Agent tasks are rows of the other modules: here they only move on.      *)
(***************************************************************************)
EXTENDS Naturals, Sequences, FiniteSets

CONSTANTS
  Steps,        \* the actions of the workflow: "task", "email", "pause", "note"
  Policy,       \* "allow", "skip" or "cancel_previous"
  MaxAttempts,  \* of every step
  Processes,    \* the API processes, each with its dispatcher
  MaxRuns, MaxTasks,  \* bounds: runs started, agent tasks created
  MaxCopies,    \* bound: copies of one job at large when it is called stale
  MaxFaults     \* bound: processes that stop, refusals and errors of deferred work, tasks
                \* that lose their process, are released or retried

ASSUME AutomationAssumption ==
  /\ Steps \in Seq({"task", "email", "pause", "note"}) /\ Steps # <<>>
  /\ Policy \in {"allow", "skip", "cancel_previous"}
  /\ MaxAttempts \in Nat \ {0} /\ MaxCopies \in Nat \ {0}
  /\ MaxRuns \in Nat /\ MaxTasks \in Nat /\ MaxFaults \in Nat

VARIABLES
  run,    \* [Run -> the run's row: status, current step and that step's state]
  task,   \* [Task -> agent task: whose it is and how far it is]
  draft,  \* the email drafts: [<<run, step, attempt>> -> task it is linked to]
  queue,  \* [Processes -> jobs in the dispatcher's queue]
  work,   \* [Processes -> the job its dispatcher is at]
  faults

vars == <<run, task, draft, queue, work, faults>>

Run == 1..MaxRuns
AgentTask == 1..MaxTasks
StepNo == 1..Len(Steps)

\* A step's work handed to a dispatcher (DeferredStep).
Job == [run : Run, step : StepNo, attempt : 1..MaxAttempts, task : 0..MaxTasks]

NoJob == [run |-> 0, step |-> 0, attempt |-> 0, task |-> 0]

\* waits: waiting_for; stale: started more than STALE_DEFER_SECONDS ago;
\* task: waiting_task_id, 0 for none.
RunRow == [status : {"none", "running", "paused", "completed", "failed", "cancelled"},
           step : 1..Len(Steps) + 1, attempt : 0..MaxAttempts,
           waits : {"no", "start", "task", "approval", "retry"},
           stale : BOOLEAN, task : 0..MaxTasks]

\* A task that runs is "handled" when a dispatcher awaits its run, "claimed" when a person
\* runs it for the first time, "working" with anybody else, and "stranded" when nobody is
\* at it any more; its row says running to all.
RunningStatus == {"handled", "claimed", "working", "stranded"}

\* "declined": it was cancelled, or failed because its approval was rejected or expired.
TaskRow == [status : {"none", "created", "waiting", "completed", "failed", "declined"}
                       \cup RunningStatus,
            of : [run : 0..MaxRuns, step : 0..Len(Steps), attempt : 0..MaxAttempts]]

\* pc "idle"; "begins"; "runs" (it awaits a task's run); "stored" (the draft is written),
\* "asked" (the approval exists); "reports": found is the task to report, failed how the
\* work failed.
Work == [pc : {"idle", "begins", "runs", "stored", "asked", "reports"},
         job : Job \cup {NoJob},
         found : 0..MaxTasks, failed : {"no", "again", "final"}]

At(pc, job, found, failed) == [pc |-> pc, job |-> job, found |-> found, failed |-> failed]

Idle == At("idle", NoJob, 0, "no")

Row(status, step, attempt, waits, t) ==
  [status |-> status, step |-> step, attempt |-> attempt, waits |-> waits,
   stale |-> FALSE, task |-> t]

NoRun == Row("none", 1, 0, "no", 0)

Nobody == [run |-> 0, step |-> 0, attempt |-> 0]

DraftKey == Run \X StepNo \X (1..MaxAttempts)

\* 0: no draft; MaxTasks + 1: stored, not linked to a task.
Stored == MaxTasks + 1

Init ==
  /\ run = [r \in Run |-> NoRun]
  /\ task = [t \in AgentTask |-> [status |-> "none", of |-> Nobody]]
  /\ draft = [k \in DraftKey |-> 0]
  /\ queue = [p \in Processes |-> <<>>]
  /\ work = [p \in Processes |-> Idle]
  /\ faults = 0

Active(r) == run[r].status \in {"running", "paused"}

Fault == faults < MaxFaults /\ faults' = faults + 1

-----------------------------------------------------------------------------
(* execute_run: steps are executed until one waits, pauses or fails *)

\* _step_failed: tried again in place while attempts are left.
Failed(rec, retryable) ==
  IF retryable /\ rec.attempt < MaxAttempts
  THEN [rec EXCEPT !.waits = "retry", !.task = 0]
  ELSE [rec EXCEPT !.status = "failed", !.waits = "no", !.task = 0]

\* A note (notify, a report, an old free-form action) is done within the transaction.
Halts(i) == {j \in i..Len(Steps) : Steps[j] # "note"}

NextHalt(i) == CHOOSE j \in Halts(i) : \A k \in Halts(i) : j <= k

JobOf(r, rec) == [run |-> r, step |-> rec.step, attempt |-> rec.attempt, task |-> rec.task]

Defer(p, job) == queue' = [queue EXCEPT ![p] = Append(@, job)]

Free(t) == task[t].status = "none" /\ \A s \in AgentTask : s < t => task[s].status # "none"

\* Step j of run r begins, in process p; runs holds the rows of the other runs.
Begins(p, r, runs, j, attempt) ==
  CASE Steps[j] = "pause" ->
         /\ run' = [runs EXCEPT ![r] = Row("paused", j, attempt, "no", 0)]
         /\ UNCHANGED <<task, queue>>
    [] Steps[j] = "email" ->
         /\ run' = [runs EXCEPT ![r] = Row("running", j, attempt, "start", 0)]
         /\ Defer(p, JobOf(r, Row("running", j, attempt, "start", 0)))
         /\ UNCHANGED task
    [] Steps[j] = "task" ->
         \E t \in AgentTask :
           /\ Free(t)
           /\ task' = [task EXCEPT ![t] = [status |-> "created",
                 of |-> [run |-> r, step |-> j, attempt |-> attempt]]]
           /\ run' = [runs EXCEPT ![r] = Row("running", j, attempt, "task", t)]
           /\ Defer(p, JobOf(r, Row("running", j, attempt, "task", t)))

\* From step i on: a step that is begun again counts one more attempt.
Executes(p, r, runs, i) ==
  IF Halts(i) = {} THEN
    /\ run' = [runs EXCEPT ![r] = Row("completed", Len(Steps) + 1, 0, "no", 0)]
    /\ UNCHANGED <<task, queue>>
  ELSE LET j == NextHalt(i) IN
    Begins(p, r, runs, j, IF j = runs[r].step THEN runs[r].attempt + 1 ELSE 1)

-----------------------------------------------------------------------------
(* Starting, resuming and cancelling *)

Cancelled(rec) == [rec EXCEPT !.status = "cancelled", !.waits = "no", !.task = 0]

\* Mutant of MayStart: a paused run is not counted as active.
MayStartBesidePaused == Policy = "skip" => \A r \in Run : run[r].status # "running"

\* overlap_check, under the workflow's row lock
MayStart == Policy = "skip" => \A r \in Run : ~Active(r)

\* Run now, a schedule's fire, a trigger's delivery or a retry (start, _launch).
Start(p, r) ==
  /\ run[r].status = "none" /\ \A q \in Run : q < r => run[q].status # "none"
  /\ MayStart
  /\ Executes(p, r, [q \in Run |->
       IF Policy = "cancel_previous" /\ Active(q) THEN Cancelled(run[q]) ELSE run[q]], 1)
  /\ UNCHANGED <<draft, work, faults>>

Resume(p, r) ==
  /\ run[r].status = "paused"
  /\ Executes(p, r, run, run[r].step + 1)
  /\ UNCHANGED <<draft, work, faults>>

CancelRun(r) ==
  /\ Active(r)
  /\ run' = [run EXCEPT ![r] = Cancelled(@)]
  /\ UNCHANGED <<task, draft, queue, work, faults>>

-----------------------------------------------------------------------------
(* advance_state: a waiting step is looked at, with or without a report *)

NoReport == [step |-> 0, attempt |-> 0, found |-> 0, failed |-> "no"]

\* Mutant of Matches: only the run is compared.
MatchesRun(report, rec) == report # NoReport

\* A report counts only for the attempt it is about.
Matches(report, rec) == report.step = rec.step /\ report.attempt = rec.attempt

\* Mutant of HandsOutAgain: what is lost stays lost.
HandsOutNever(rec) == FALSE

HandsOutAgain(rec) == rec.stale

\* The row with what a matching report says; an error ends or retries the attempt.
WithReport(rec, report) ==
  IF Matches(report, rec) /\ report.found # 0
  THEN [rec EXCEPT !.waits = "task", !.task = report.found] ELSE rec

SetRow(r, rec) == run' = [run EXCEPT ![r] = rec] /\ UNCHANGED <<task, queue>>

\* Handed out again: nothing was heard of the work.
HandsOut(p, r, rec) ==
  IF HandsOutAgain(rec)
  THEN /\ run' = [run EXCEPT ![r] = [rec EXCEPT !.stale = FALSE]]
       /\ Defer(p, JobOf(r, rec))
       /\ UNCHANGED task
  ELSE SetRow(r, rec)

LooksAtTask(p, r, rec) ==
  LET status == task[rec.task].status IN
  CASE status = "completed" -> Executes(p, r, [run EXCEPT ![r] = rec], rec.step + 1)
    [] status = "failed" -> SetRow(r, Failed(rec, TRUE))
    [] status \in {"declined", "none"} -> SetRow(r, Failed(rec, FALSE))
    [] status = "waiting" -> SetRow(r, [rec EXCEPT !.waits = "approval"])
    [] status \in RunningStatus -> SetRow(r, [rec EXCEPT !.waits = "task"])
    [] status = "created" ->
         IF Steps[rec.step] = "task" THEN HandsOut(p, r, [rec EXCEPT !.waits = "task"])
         ELSE SetRow(r, [rec EXCEPT !.waits = "task"])

\* Mutant of Waits: a run that has ended is advanced, too.
WaitsOrEnded(r) == run[r].waits \in {"start", "task", "approval"} \/ run[r].status = "cancelled"

Waits(r) == run[r].status = "running" /\ run[r].waits \in {"start", "task", "approval"}

Advance(p, r, report) ==
  IF Waits(r) THEN
    IF Matches(report, run[r]) /\ report.failed # "no"
    THEN SetRow(r, Failed(run[r], report.failed = "again"))
    ELSE LET rec == WithReport(run[r], report) IN
      IF rec.waits = "start" \/ rec.task = 0 THEN HandsOut(p, r, rec)
      ELSE LooksAtTask(p, r, rec)
  ELSE UNCHANGED <<run, task, queue>>

\* The scheduler pass (run_due_wakeups) or an event about the task (wake_for_task).
Look(p, r) ==
  /\ Waits(r)
  /\ Advance(p, r, NoReport)
  /\ UNCHANGED <<draft, work, faults>>

\* The delay of a failed attempt is over; the pass starts the next one.
RetryIsDue(p, r) ==
  /\ run[r].status = "running" /\ run[r].waits = "retry"
  /\ Executes(p, r, run, run[r].step)
  /\ UNCHANGED <<draft, work, faults>>

\* STALE_DEFER_SECONDS after a step began it still has nothing to show.
Copies(r) ==
  Cardinality(UNION {{<<p, i>> : i \in {j \in DOMAIN queue[p] : queue[p][j].run = r}} :
                       p \in Processes})
    + Cardinality({p \in Processes : work[p].pc # "idle" /\ work[p].job.run = r})

GoesStale(r) ==
  /\ Waits(r) /\ ~run[r].stale /\ Copies(r) < MaxCopies
  /\ run' = [run EXCEPT ![r].stale = TRUE]
  /\ UNCHANGED <<task, draft, queue, work, faults>>

-----------------------------------------------------------------------------
(* The dispatcher of a process: _handle_step *)

TakeJob(p) ==
  /\ work[p] = Idle /\ queue[p] # <<>>
  /\ work' = [work EXCEPT ![p] = At("begins", Head(queue[p]), 0, "no")]
  /\ queue' = [queue EXCEPT ![p] = Tail(@)]
  /\ UNCHANGED <<run, task, draft, faults>>

Reports(p, found, failed) ==
  work' = [work EXCEPT ![p] = At("reports", @.job, found, failed)]

IsAt(p, pc, action) == work[p].pc = pc /\ Steps[work[p].job.step] = action

SetTask(t, status) == task' = [task EXCEPT ![t].status = status]

\* The task runner awaits the whole inline run of the task; with a durable backend it only
\* queues one.  A task that is no longer `created' was started by an earlier hand-out.
RunTask(p) ==
  /\ IsAt(p, "begins", "task")
  /\ LET t == work[p].job.task IN
       \/ /\ task[t].status = "created" /\ SetTask(t, "handled")
          /\ work' = [work EXCEPT ![p] = At("runs", @.job, 0, "no")]
       \/ task[t].status = "created" /\ SetTask(t, "working") /\ Reports(p, 0, "no")
       \/ task[t].status # "created" /\ UNCHANGED task /\ Reports(p, 0, "no")
  /\ UNCHANGED <<run, draft, queue, faults>>

\* The awaited run ends or asks a person (also when the task was cancelled and retried
\* meanwhile: CancelledClaimStops of TaskRuns); or its claim was lost (409: to be tried
\* again).
TaskReturns(p) ==
  /\ work[p].pc = "runs"
  /\ LET t == work[p].job.task IN
       \/ /\ task[t].status \in {"handled", "working"}
          /\ \E to \in {"completed", "failed", "waiting"} : SetTask(t, to)
          /\ Reports(p, 0, "no")
       \/ task[t].status # "handled" /\ UNCHANGED task /\ Reports(p, 0, "again")
  /\ UNCHANGED <<run, draft, queue, faults>>

\* The run fails before its plan is applied: its claim is released.
TaskReleased(p) ==
  /\ work[p].pc = "runs" /\ Fault
  /\ task[work[p].job.task].status = "handled" /\ SetTask(work[p].job.task, "created")
  /\ \E failed \in {"again", "final"} : Reports(p, 0, failed)
  /\ UNCHANGED <<run, draft, queue>>

\* No role, no budget, a conflict, no mailbox, an unexpected error: whatever the work had
\* done until then stays.
WorkFails(p) ==
  /\ work[p].pc \in {"begins", "stored", "asked"} /\ Fault
  /\ \E failed \in {"again", "final"} : Reports(p, 0, failed)
  /\ UNCHANGED <<run, task, draft, queue>>

Key(p) == <<work[p].job.run, work[p].job.step, work[p].job.attempt>>

\* request_email: the draft is read, and stored if it is new; one that is linked to a
\* task has been asked for.
StoreDraft(p) ==
  /\ IsAt(p, "begins", "email")
  /\ IF draft[Key(p)] \in AgentTask
     THEN Reports(p, draft[Key(p)], "no") /\ UNCHANGED draft
     ELSE /\ draft' = [draft EXCEPT ![Key(p)] = Stored]
          /\ work' = [work EXCEPT ![p] = At("stored", @.job, 0, "no")]
  /\ UNCHANGED <<run, task, queue, faults>>

\* Another transaction: the held task and its approval.
AskToSend(p) ==
  /\ IsAt(p, "stored", "email")
  /\ \E t \in AgentTask :
       /\ Free(t)
       /\ task' = [task EXCEPT ![t] = [status |-> "waiting",
             of |-> [run |-> work[p].job.run, step |-> work[p].job.step,
                     attempt |-> work[p].job.attempt]]]
       /\ work' = [work EXCEPT ![p] = At("asked", @.job, t, "no")]
  /\ UNCHANGED <<run, draft, queue, faults>>

\* A third one: the draft remembers them.
LinkDraft(p) ==
  /\ IsAt(p, "asked", "email")
  /\ draft' = [draft EXCEPT ![Key(p)] = work[p].found]
  /\ Reports(p, work[p].found, "no")
  /\ UNCHANGED <<run, task, queue, faults>>

\* The outcome goes to the engine (AutomationEngine.advance).
Report(p) ==
  /\ work[p].pc = "reports"
  /\ Advance(p, work[p].job.run,
             [step |-> work[p].job.step, attempt |-> work[p].job.attempt,
              found |-> work[p].found, failed |-> work[p].failed])
  /\ work' = [work EXCEPT ![p] = Idle]
  /\ UNCHANGED <<draft, faults>>

\* What a process that stops leaves of a run it awaited: nothing takes its place when it
\* dies; in a shutdown the claim is released or the run is failed.
LeavesTask(p) ==
  LET t == work[p].job.task IN
  IF work[p].pc = "runs" /\ task[t].status = "handled"
  THEN \E to \in {"stranded", "created", "failed"} : SetTask(t, to) ELSE UNCHANGED task

\* The process stops: its queue and the work under way are gone.
Crash(p) ==
  /\ Fault /\ (work[p] # Idle \/ queue[p] # <<>>)
  /\ work' = [work EXCEPT ![p] = Idle]
  /\ queue' = [queue EXCEPT ![p] = <<>>]
  /\ LeavesTask(p)
  /\ UNCHANGED <<run, draft>>

-----------------------------------------------------------------------------
(* Agent tasks, as the other modules move them; what becomes of a task whose run has *)
(* ended is left out: only a waiting run looks at its task *)

TaskMoves(t, from, to) ==
  /\ task[t].status \in from /\ Active(task[t].of.run)
  /\ SetTask(t, to)
  /\ UNCHANGED <<run, draft, queue, work>>

\* A person runs a task, takes it over or approves what it asked for.
TaskClaimed(t) == TaskMoves(t, {"created"}, "claimed") /\ UNCHANGED faults
TaskWorks(t) == TaskMoves(t, {"waiting", "stranded"}, "working") /\ UNCHANGED faults

\* Its run asks, ends, or is cancelled.
TaskAsks(t) ==
  /\ task[t].of.run # 0 /\ Steps[task[t].of.step] = "task"
  /\ TaskMoves(t, {"claimed", "working"}, "waiting") /\ UNCHANGED faults
TaskEnds(t) ==
  /\ \E to \in {"completed", "failed"} : TaskMoves(t, {"claimed", "working"}, to)
  /\ UNCHANGED faults
TaskDeclined(t) ==
  TaskMoves(t, {"created", "waiting"} \cup RunningStatus, "declined") /\ UNCHANGED faults

\* The claim is released, the process of the run dies, a person retries the task.
ClaimReleased(t) == Fault /\ TaskMoves(t, {"claimed"}, "created")
TaskLost(t) == Fault /\ TaskMoves(t, {"claimed", "working"}, "stranded")
TaskRetried(t) == Fault /\ TaskMoves(t, {"failed", "declined"}, "working")

-----------------------------------------------------------------------------

Dispatch(p) ==
  \/ TakeJob(p) \/ RunTask(p) \/ TaskReturns(p) \/ StoreDraft(p) \/ AskToSend(p)
  \/ LinkDraft(p) \/ Report(p)

Next ==
  \/ \E p \in Processes : Dispatch(p) \/ TaskReleased(p) \/ WorkFails(p) \/ Crash(p)
  \/ \E p \in Processes, r \in Run :
       Start(p, r) \/ Resume(p, r) \/ Look(p, r) \/ RetryIsDue(p, r)
  \/ \E r \in Run : CancelRun(r) \/ GoesStale(r)
  \/ \E t \in AgentTask :
       \/ TaskClaimed(t) \/ TaskWorks(t) \/ TaskAsks(t) \/ TaskEnds(t) \/ TaskDeclined(t)
       \/ ClaimReleased(t) \/ TaskLost(t) \/ TaskRetried(t)

Spec == Init /\ [][Next]_vars

\* Dispatchers and scheduler passes go on in some process, the clock goes on and a run that
\* somebody is at ends or asks: its model and tool calls answer or time out, a durable one
\* survives its worker.  Nothing makes a person decide, run, take over or resume anything.
LiveSpec ==
  /\ Spec
  /\ \A p \in Processes : WF_vars(Dispatch(p))
  /\ \A r \in Run :
       /\ WF_vars(GoesStale(r))
       /\ WF_vars(\E p \in Processes : Look(p, r) \/ RetryIsDue(p, r))
  /\ \A t \in AgentTask : WF_vars(TaskEnds(t))

-----------------------------------------------------------------------------
(* Correctness *)

OfStep(r, j) == {t \in AgentTask : task[t].of.run = r /\ task[t].of.step = j}

AutoTypeOK ==
  /\ run \in [Run -> RunRow]
  /\ task \in [AgentTask -> TaskRow]
  /\ draft \in [DraftKey -> 0..Stored]
  /\ queue \in [Processes -> Seq(Job)]
  /\ work \in [Processes -> Work]
  /\ faults \in 0..MaxFaults

\* "at most one active run" (docs/automation.md:101): under the skip policy no two runs
\* are active, whatever is paused, waits, is retried in place or resumed.
OneActiveUnderSkip ==
  /\ AutoTypeOK
  /\ Policy = "skip" => Cardinality({r \in Run : Active(r)}) <= 1

\* A run is past a step only because a task of that step's last attempt completed: no
\* late, repeated or misplaced report moves it on, or ties it to a task it gave up.
StepsAreBacked ==
  \A r \in Run : \A j \in 1..run[r].step - 1 :
    Steps[j] \in {"task", "email"} =>
      \E t \in OfStep(r, j) : /\ task[t].status = "completed"
                              /\ \A s \in OfStep(r, j) : task[s].of.attempt <= task[t].of.attempt

\* Whatever reports, wake-ups and hand-outs come late, a run that ended never changes.
EndedRunsStand ==
  [][\A r \in Run : run[r].status \in {"completed", "failed", "cancelled"} =>
       run'[r] = run[r]]_vars

TasksUsedUp == \A t \in AgentTask : task[t].status # "none"   \* the bound of the model

\* Run r settles or pauses, or a task of its step is in one of these states.
MovesOn(r, states) ==
  run[r].status = "running" ~>
    \/ run[r].status # "running" \/ TasksUsedUp
    \/ \E t \in OfStep(r, run[r].step) : task[t].status \in states

\* Although jobs, reports and wake-ups are lost, claims released and processes stopped, a
\* running run settles, pauses or comes to wait for a person: to decide about a task of its
\* step, or to see to one whose process died in the middle of its run.
RunsMoveOn == \A r \in Run : MovesOn(r, {"waiting", "stranded"})

\* What the documents say and the code does not keep -------------------------

\* "work that a process could not finish is picked up by the scheduler pass"
\* (docs/automation.md:88): a task that lost its process holds no run up.
UnfinishedWorkIsPickedUp == \A r \in Run : MovesOn(r, {"waiting"})
=============================================================================
