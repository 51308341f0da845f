------------------------ MODULE AutomationRunsProofs ------------------------
(***************************************************************************)
(* Theorems about AutomationRuns, for every workflow, overlap policy,      *)
(* number of processes, runs, agent tasks, attempts and faults; the last   *)
(* of them, that no run gets past a step whose work did not complete, has  *)
(* an inductive invariant of its own.                                      *)
(***************************************************************************)
EXTENDS AutomationRuns, TLAPS, FiniteSetTheorems, WellFoundedInduction, NaturalsInduction

-----------------------------------------------------------------------------
(* Steps *)

LEMMA Bounds ==
  /\ Len(Steps) \in Nat /\ 1 <= Len(Steps)
  /\ \A j \in StepNo : j \in Nat /\ j + 1 \in 1..Len(Steps) + 1
                       /\ Steps[j] \in {"task", "email", "pause", "note"}
  /\ MaxAttempts \in Nat /\ 1 <= MaxAttempts /\ MaxRuns \in Nat /\ MaxTasks \in Nat
  /\ MaxFaults \in Nat
BY AutomationAssumption DEF StepNo

\* A set of numbers that is not empty has a least one.
LEMMA LeastNumber ==
  ASSUME NEW S \in SUBSET Nat, S # {}
  PROVE  \E j \in S : \A k \in S : j <= k
<1>1. PICK j \in S : \A k \in S : <<k, j>> \notin OpToRel(<, Nat)
  BY WFMin, NatLessThanWellFounded, Zenon
<1>2. \A k \in S : ~(k < j)
  BY <1>1, Zenon DEF OpToRel
<1> QED
  BY <1>2

\* The step a run halts at next is one of those left, and is no note.
LEMMA NextHaltIsStep ==
  ASSUME NEW i \in Nat, i >= 1, Halts(i) # {}
  PROVE  NextHalt(i) \in StepNo /\ NextHalt(i) >= i
         /\ Steps[NextHalt(i)] \in {"task", "email", "pause"}
<1>1. Halts(i) \in SUBSET Nat
  BY Bounds DEF Halts
<1>2. NextHalt(i) \in Halts(i)
  BY <1>1, LeastNumber DEF NextHalt
<1> QED
  BY <1>2, Bounds DEF Halts, StepNo

-----------------------------------------------------------------------------
(* The inductive invariant *)

\* A row that was not started is as it was created, and one that waits runs, at a step
\* and an attempt of the workflow; one that waits for its retry has an attempt left.
RowOK(rec) ==
  /\ rec.status = "none" => rec.step = 1 /\ rec.attempt = 0
  /\ rec.waits # "no" =>
       rec.status = "running" /\ rec.step \in StepNo /\ rec.attempt \in 1..MaxAttempts
  /\ rec.waits = "retry" => rec.attempt < MaxAttempts

Busy == \A p \in Processes : work[p].pc # "idle" => work[p].job \in Job

AutoInv == AutoTypeOK /\ (\A r \in Run : RowOK(run[r])) /\ Busy

-----------------------------------------------------------------------------
(* What the building blocks return *)

LEMMA RowFields ==
  ASSUME NEW rec \in RunRow
  PROVE  /\ \A status \in {"running", "paused", "completed", "failed", "cancelled"} :
              [rec EXCEPT !.status = status] \in RunRow
         /\ \A j \in 1..Len(Steps) + 1 : [rec EXCEPT !.step = j] \in RunRow
         /\ \A n \in 0..MaxAttempts : [rec EXCEPT !.attempt = n] \in RunRow
         /\ \A waits \in {"no", "start", "task", "approval", "retry"} :
              [rec EXCEPT !.waits = waits] \in RunRow
         /\ \A stale \in BOOLEAN : [rec EXCEPT !.stale = stale] \in RunRow
         /\ \A t \in 0..MaxTasks : [rec EXCEPT !.task = t] \in RunRow
BY DEF RunRow

LEMMA DeferTypes ==
  ASSUME AutoTypeOK, NEW p \in Processes, NEW job \in Job, Defer(p, job)
  PROVE  queue' \in [Processes -> Seq(Job)]
<1>1. Append(queue[p], job) \in Seq(Job)
  BY DEF AutoTypeOK
<1> QED
  BY <1>1 DEF Defer, AutoTypeOK

LEMMA RowTypes ==
  ASSUME NEW j \in StepNo, NEW attempt \in 1..MaxAttempts, NEW t \in 0..MaxTasks,
         NEW status \in {"running", "paused"}, NEW waits \in {"no", "start", "task"},
         waits = "no" \/ status = "running", NEW r \in Run
  PROVE  /\ Row(status, j, attempt, waits, t) \in RunRow
         /\ RowOK(Row(status, j, attempt, waits, t))
         /\ Row(status, j, attempt, waits, t).status = status
         /\ JobOf(r, Row(status, j, attempt, waits, t)) \in Job
BY Bounds DEF Row, RunRow, StepNo, RowOK, JobOf, Job

LEMMA BeginsTypes ==
  ASSUME AutoTypeOK, NEW p \in Processes, NEW r \in Run, NEW runs \in [Run -> RunRow],
         NEW j \in StepNo, NEW attempt \in 1..MaxAttempts,
         Steps[j] \in {"task", "email", "pause"},
         Begins(p, r, runs, j, attempt)
  PROVE  /\ run' \in [Run -> RunRow]
         /\ task' \in [AgentTask -> TaskRow]
         /\ queue' \in [Processes -> Seq(Job)]
         /\ \A q \in Run \ {r} : run'[q] = runs[q]
         /\ RowOK(run'[r]) /\ run'[r].status \in {"running", "paused"}
<1>1. 0 \in 0..MaxTasks /\ \A t \in AgentTask : t \in 0..MaxTasks
  BY Bounds DEF AgentTask
<1>3. CASE Steps[j] = "pause"
  <2>1. run' = [runs EXCEPT ![r] = Row("paused", j, attempt, "no", 0)]
        /\ UNCHANGED <<task, queue>>
    BY <1>3 DEF Begins, Row
  <2> QED
    BY <1>1, <2>1, RowTypes DEF AutoTypeOK
<1>4. CASE Steps[j] = "email"
  <2>1. run' = [runs EXCEPT ![r] = Row("running", j, attempt, "start", 0)]
        /\ Defer(p, JobOf(r, Row("running", j, attempt, "start", 0))) /\ UNCHANGED task
    BY <1>4 DEF Begins, Row
  <2> QED
    BY <1>1, <2>1, RowTypes, DeferTypes DEF AutoTypeOK
<1>5. CASE Steps[j] = "task"
  <2>1. PICK t \in AgentTask :
          /\ task' = [task EXCEPT ![t] = [status |-> "created",
                of |-> [run |-> r, step |-> j, attempt |-> attempt]]]
          /\ run' = [runs EXCEPT ![r] = Row("running", j, attempt, "task", t)]
          /\ Defer(p, JobOf(r, Row("running", j, attempt, "task", t)))
    BY <1>5 DEF Begins, Row
  <2>2. run' \in [Run -> RunRow] /\ queue' \in [Processes -> Seq(Job)]
        /\ (\A q \in Run \ {r} : run'[q] = runs[q])
        /\ RowOK(run'[r]) /\ run'[r].status \in {"running", "paused"}
    BY <1>1, <2>1, RowTypes, DeferTypes
  <2>3. [status |-> "created", of |-> [run |-> r, step |-> j, attempt |-> attempt]] \in TaskRow
    BY Bounds DEF TaskRow, StepNo, Run
  <2> QED
    BY <2>1, <2>2, <2>3 DEF AutoTypeOK
<1> QED
  BY <1>3, <1>4, <1>5

SameAttempt(a, b) == a.step = b.step /\ a.attempt = b.attempt

\* A row that is changed in two or three fields is changed in one after the other.
LEMMA CancelledTypes ==
  ASSUME NEW rec \in RunRow, rec.status # "none"
  PROVE  Cancelled(rec) \in RunRow /\ RowOK(Cancelled(rec))
         /\ Cancelled(rec).status = "cancelled" /\ Cancelled(rec).task = 0
         /\ SameAttempt(Cancelled(rec), rec)
<1> DEFINE a == [rec EXCEPT !.status = "cancelled"]
           b == [a EXCEPT !.waits = "no"]
<1>1. Cancelled(rec) = [b EXCEPT !.task = 0]
  BY DEF Cancelled, RunRow
<1>2. a \in RunRow /\ a.status = "cancelled" /\ a.step = rec.step /\ a.attempt = rec.attempt
  BY RowFields DEF RunRow
<1> HIDE DEF a
<1>3. b \in RunRow /\ b.status = "cancelled" /\ b.waits = "no"
      /\ b.step = rec.step /\ b.attempt = rec.attempt
  <2>1. b \in RunRow
    BY <1>2, RowFields
  <2>2. b.status = "cancelled" /\ b.waits = "no" /\ b.step = rec.step /\ b.attempt = rec.attempt
    BY <1>2 DEF RunRow
  <2> QED
    BY <2>1, <2>2
<1> HIDE DEF b
<1>4. 0 \in 0..MaxTasks
  BY Bounds
<1>5. Cancelled(rec) \in RunRow
  BY <1>1, <1>3, <1>4, RowFields
<1>6. Cancelled(rec).status = "cancelled" /\ Cancelled(rec).waits = "no"
      /\ Cancelled(rec).step = rec.step /\ Cancelled(rec).attempt = rec.attempt
      /\ Cancelled(rec).task = 0
  BY <1>1, <1>3 DEF RunRow
<1> QED
  BY <1>5, <1>6 DEF RowOK, SameAttempt

LEMMA FailedTypes ==
  ASSUME NEW rec \in RunRow, NEW retryable \in BOOLEAN, RowOK(rec), rec.waits # "no"
  PROVE  Failed(rec, retryable) \in RunRow /\ RowOK(Failed(rec, retryable))
         /\ Failed(rec, retryable).task = 0 /\ Failed(rec, retryable).status # "paused"
         /\ SameAttempt(Failed(rec, retryable), rec)
<1>1. 0 \in 0..MaxTasks
  BY Bounds
<1>2. CASE retryable /\ rec.attempt < MaxAttempts
  <2> DEFINE a == [rec EXCEPT !.waits = "retry"]
  <2>1. Failed(rec, retryable) = [a EXCEPT !.task = 0]
    BY <1>2 DEF Failed, RunRow
  <2>2. a \in RunRow /\ a.status = rec.status /\ a.waits = "retry" /\ a.step = rec.step
        /\ a.attempt = rec.attempt
    BY RowFields DEF RunRow
  <2> HIDE DEF a
  <2>3. Failed(rec, retryable) \in RunRow
    BY <1>1, <2>1, <2>2, RowFields
  <2>4. /\ Failed(rec, retryable).status = rec.status
        /\ Failed(rec, retryable).waits = "retry"
        /\ Failed(rec, retryable).step = rec.step
        /\ Failed(rec, retryable).attempt = rec.attempt
        /\ Failed(rec, retryable).task = 0
    BY <2>1, <2>2 DEF RunRow
  <2> QED
    BY <1>2, <2>3, <2>4 DEF RowOK, SameAttempt
<1>3. CASE ~(retryable /\ rec.attempt < MaxAttempts)
  <2> DEFINE a == [rec EXCEPT !.status = "failed"]
             b == [a EXCEPT !.waits = "no"]
  <2>1. Failed(rec, retryable) = [b EXCEPT !.task = 0]
    BY <1>3 DEF Failed, RunRow
  <2>2. a \in RunRow /\ a.status = "failed" /\ a.step = rec.step /\ a.attempt = rec.attempt
    BY RowFields DEF RunRow
  <2> HIDE DEF a
  <2>3. b \in RunRow /\ b.status = "failed" /\ b.waits = "no" /\ b.step = rec.step
        /\ b.attempt = rec.attempt
    <3>1. b \in RunRow
      BY <2>2, RowFields
    <3>2. b.status = "failed" /\ b.waits = "no" /\ b.step = rec.step
        /\ b.attempt = rec.attempt
      BY <2>2 DEF RunRow
    <3> QED
      BY <3>1, <3>2
  <2> HIDE DEF b
  <2>4. Failed(rec, retryable) \in RunRow
    BY <1>1, <2>1, <2>3, RowFields
  <2>5. Failed(rec, retryable).status = "failed" /\ Failed(rec, retryable).waits = "no"
        /\ Failed(rec, retryable).step = rec.step /\ Failed(rec, retryable).task = 0
        /\ Failed(rec, retryable).attempt = rec.attempt
    BY <2>1, <2>3 DEF RunRow
  <2> QED
    BY <2>4, <2>5 DEF RowOK, SameAttempt
<1> QED
  BY <1>2, <1>3

LEMMA ExecutesTypes ==
  ASSUME AutoTypeOK, NEW p \in Processes, NEW r \in Run, NEW runs \in [Run -> RunRow],
         NEW i \in Nat, i >= 1, i >= runs[r].step,
         i = runs[r].step => runs[r].attempt < MaxAttempts,
         Executes(p, r, runs, i)
  PROVE  /\ run' \in [Run -> RunRow]
         /\ task' \in [AgentTask -> TaskRow]
         /\ queue' \in [Processes -> Seq(Job)]
         /\ \A q \in Run \ {r} : run'[q] = runs[q]
         /\ RowOK(run'[r])
<1>1. CASE Halts(i) = {}
  <2>1. run' = [runs EXCEPT ![r] = Row("completed", Len(Steps) + 1, 0, "no", 0)]
        /\ UNCHANGED <<task, queue>>
    BY <1>1 DEF Executes
  <2>2. Row("completed", Len(Steps) + 1, 0, "no", 0) \in RunRow
        /\ RowOK(Row("completed", Len(Steps) + 1, 0, "no", 0))
    BY Bounds DEF Row, RunRow, RowOK
  <2> QED
    BY <2>1, <2>2 DEF AutoTypeOK
<1>2. CASE Halts(i) # {}
  <2> DEFINE j == NextHalt(i)
             attempt == IF j = runs[r].step THEN runs[r].attempt + 1 ELSE 1
  <2>1. Begins(p, r, runs, j, attempt)
    BY <1>2 DEF Executes
  <2>2. j \in StepNo /\ j >= i /\ Steps[j] \in {"task", "email", "pause"}
    BY <1>2, NextHaltIsStep
  <2>3. runs[r].step \in Nat /\ runs[r].attempt \in 0..MaxAttempts
    BY DEF RunRow
  <2>4. attempt \in 1..MaxAttempts
    BY <2>2, <2>3, Bounds DEF StepNo
  <2> HIDE DEF j, attempt
  <2> QED
    BY <2>1, <2>2, <2>4, BeginsTypes
<1> QED
  BY <1>1, <1>2

-----------------------------------------------------------------------------
(* A look at a waiting run *)

\* What a look at run r does to the rows: only r's changes, and it stays a good one.
Looked(r) ==
  /\ run' \in [Run -> RunRow]
  /\ task' \in [AgentTask -> TaskRow]
  /\ queue' \in [Processes -> Seq(Job)]
  /\ \A q \in Run \ {r} : run'[q] = run[q]
  /\ RowOK(run'[r])

LEMMA SetRowTypes ==
  ASSUME AutoTypeOK, NEW r \in Run, NEW rec \in RunRow, RowOK(rec), SetRow(r, rec)
  PROVE  Looked(r)
BY DEF AutoTypeOK, SetRow, Looked

LEMMA HandsOutTypes ==
  ASSUME AutoTypeOK, NEW p \in Processes, NEW r \in Run, NEW rec \in RunRow, RowOK(rec),
         rec.waits # "no", HandsOut(p, r, rec)
  PROVE  Looked(r)
<1>1. CASE HandsOutAgain(rec)
  <2> DEFINE a == [rec EXCEPT !.stale = FALSE]
  <2>1. run' = [run EXCEPT ![r] = a] /\ Defer(p, JobOf(r, rec)) /\ UNCHANGED task
    BY <1>1 DEF HandsOut
  <2>2. a \in RunRow
    BY RowFields
  <2>3. RowOK(a)
    BY DEF RowOK, RunRow
  <2>4. JobOf(r, rec) \in Job
    BY DEF JobOf, Job, RowOK, RunRow
  <2> HIDE DEF a
  <2> QED
    BY <2>1, <2>2, <2>3, <2>4, DeferTypes DEF AutoTypeOK, Looked
<1>2. CASE ~HandsOutAgain(rec)
  BY <1>2, SetRowTypes DEF HandsOut
<1> QED
  BY <1>1, <1>2

\* A row that waits may wait for the task or for the approval.
LEMMA WaitsFor ==
  ASSUME NEW rec \in RunRow, RowOK(rec), rec.waits # "no",
         NEW waits \in {"task", "approval"}
  PROVE  /\ [rec EXCEPT !.waits = waits] \in RunRow
         /\ RowOK([rec EXCEPT !.waits = waits])
         /\ [rec EXCEPT !.waits = waits].waits # "no"
         /\ [rec EXCEPT !.waits = waits].task = rec.task
         /\ SameAttempt([rec EXCEPT !.waits = waits], rec)
<1>1. [rec EXCEPT !.waits = waits] \in RunRow
  BY RowFields
<1>2. RowOK([rec EXCEPT !.waits = waits]) /\ [rec EXCEPT !.waits = waits].waits # "no"
      /\ [rec EXCEPT !.waits = waits].task = rec.task
      /\ SameAttempt([rec EXCEPT !.waits = waits], rec)
  BY DEF RowOK, RunRow, SameAttempt
<1> QED
  BY <1>1, <1>2

LEMMA LooksAtTaskTypes ==
  ASSUME AutoTypeOK, NEW p \in Processes, NEW r \in Run, NEW rec \in RunRow, RowOK(rec),
         rec.waits # "no", rec.task # 0, LooksAtTask(p, r, rec)
  PROVE  Looked(r)
<1> DEFINE status == task[rec.task].status
<1>1. status \in {"none", "created", "waiting", "completed", "failed", "declined"} \cup RunningStatus
  <2>1. rec.task \in AgentTask
    BY Bounds DEF RunRow, AgentTask
  <2>2. task[rec.task] \in TaskRow
    BY <2>1 DEF AutoTypeOK
  <2> QED
    BY <2>2 DEF TaskRow
<1>2. CASE status = "completed"
  <2>1. Executes(p, r, [run EXCEPT ![r] = rec], rec.step + 1)
    BY <1>2 DEF LooksAtTask, RunningStatus
  <2> DEFINE runs == [run EXCEPT ![r] = rec]
  <2>2. runs \in [Run -> RunRow] /\ runs[r] = rec /\ \A q \in Run \ {r} : runs[q] = run[q]
    BY DEF AutoTypeOK
  <2>3. /\ rec.step + 1 \in Nat /\ rec.step + 1 >= 1
        /\ rec.step + 1 >= rec.step /\ rec.step + 1 # rec.step
    BY DEF RunRow
  <2>4. Executes(p, r, runs, rec.step + 1)
    BY <2>1
  <2> HIDE DEF runs
  <2>5. /\ run' \in [Run -> RunRow]
        /\ task' \in [AgentTask -> TaskRow]
        /\ queue' \in [Processes -> Seq(Job)]
        /\ \A q \in Run \ {r} : run'[q] = runs[q]
        /\ RowOK(run'[r])
    BY <2>2, <2>3, <2>4, ExecutesTypes
  <2> QED
    BY <2>2, <2>5 DEF Looked
<1>3. CASE status = "failed"
  BY <1>3, FailedTypes, SetRowTypes DEF LooksAtTask, RunningStatus
<1>4. CASE status \in {"declined", "none"}
  BY <1>4, FailedTypes, SetRowTypes DEF LooksAtTask, RunningStatus
<1>5. CASE status = "waiting"
  BY <1>5, WaitsFor, SetRowTypes DEF LooksAtTask, RunningStatus
<1>6. CASE status \in RunningStatus
  BY <1>6, WaitsFor, SetRowTypes DEF LooksAtTask, RunningStatus
<1>7. CASE status = "created"
  BY <1>7, WaitsFor, SetRowTypes, HandsOutTypes DEF LooksAtTask, RunningStatus
<1> QED
  BY <1>1, <1>2, <1>3, <1>4, <1>5, <1>6, <1>7

LEMMA WithReportTypes ==
  ASSUME NEW rec \in RunRow, RowOK(rec), rec.waits # "no",
         NEW report, report.found \in 0..MaxTasks
  PROVE  WithReport(rec, report) \in RunRow /\ RowOK(WithReport(rec, report))
         /\ WithReport(rec, report).waits # "no"
         /\ SameAttempt(WithReport(rec, report), rec)
         /\ \/ WithReport(rec, report).task = rec.task
            \/ Matches(report, rec) /\ WithReport(rec, report).task = report.found
               /\ report.found # 0
<1>1. CASE Matches(report, rec) /\ report.found # 0
  <2> DEFINE a == [rec EXCEPT !.waits = "task"]
  <2>1. WithReport(rec, report) = [a EXCEPT !.task = report.found]
    BY <1>1 DEF WithReport, RunRow
  <2>2. a \in RunRow /\ RowOK(a) /\ a.waits # "no" /\ SameAttempt(a, rec)
    BY WaitsFor
  <2> HIDE DEF a
  <2>3. WithReport(rec, report) \in RunRow
    BY <2>1, <2>2, RowFields
  <2>4. RowOK(WithReport(rec, report)) /\ WithReport(rec, report).waits # "no"
    BY <2>1, <2>2 DEF RowOK, RunRow
  <2>5. SameAttempt(WithReport(rec, report), rec) /\ WithReport(rec, report).task = report.found
    BY <2>1, <2>2 DEF SameAttempt, RunRow
  <2> QED
    BY <1>1, <2>3, <2>4, <2>5
<1>2. CASE ~(Matches(report, rec) /\ report.found # 0)
  BY <1>2 DEF WithReport, SameAttempt
<1> QED
  BY <1>1, <1>2

LEMMA AdvanceTypes ==
  ASSUME AutoTypeOK, \A q \in Run : RowOK(run[q]), NEW p \in Processes, NEW r \in Run,
         NEW report, report.found \in 0..MaxTasks, Advance(p, r, report)
  PROVE  Looked(r) /\ (Waits(r) \/ run' = run)
<1> run[r] \in RunRow /\ RowOK(run[r])
  BY DEF AutoTypeOK
<1>1. CASE ~Waits(r)
  <2>1. UNCHANGED <<run, task, queue>>
    BY <1>1 DEF Advance
  <2> QED
    BY <2>1 DEF Looked, AutoTypeOK
<1>2. CASE Waits(r)
  <2>1. run[r].waits # "no"
    BY <1>2 DEF Waits
  <2>2. CASE Matches(report, run[r]) /\ report.failed # "no"
    <3>1. SetRow(r, Failed(run[r], report.failed = "again"))
      BY <1>2, <2>2 DEF Advance
    <3> QED
      BY <1>2, <2>1, <3>1, FailedTypes, SetRowTypes
  <2>3. CASE ~(Matches(report, run[r]) /\ report.failed # "no")
    <3> DEFINE rec == WithReport(run[r], report)
    <3>1. IF rec.waits = "start" \/ rec.task = 0 THEN HandsOut(p, r, rec)
          ELSE LooksAtTask(p, r, rec)
      BY <1>2, <2>3 DEF Advance
    <3>2. rec \in RunRow /\ RowOK(rec) /\ rec.waits # "no"
      BY <2>1, WithReportTypes
    <3> HIDE DEF rec
    <3> QED
      BY <1>2, <3>1, <3>2, HandsOutTypes, LooksAtTaskTypes
  <2> QED
    BY <2>2, <2>3
<1> QED
  BY <1>1, <1>2

-----------------------------------------------------------------------------
(* The invariant, action by action; a run that has not started or has ended stays *)

\* Rows of runs that are not active do not change.
Stand == \A q \in Run : run'[q] = run[q] \/ Active(q)

LEMMA AtTypes ==
  ASSUME NEW pc \in {"begins", "stored", "asked", "reports"}, NEW job \in Job,
         NEW found \in 0..MaxTasks, NEW failed \in {"no", "again", "final"}
  PROVE  At(pc, job, found, failed) \in Work /\ At(pc, job, found, failed).job \in Job
BY DEF At, Work

\* A step that leaves the rows alone and moves one dispatcher on with its job.
LEMMA Works ==
  ASSUME AutoInv, NEW p \in Processes, NEW doing \in Work, doing.job \in Job,
         work' = [work EXCEPT ![p] = doing], UNCHANGED run,
         task' \in [AgentTask -> TaskRow], draft' \in [DraftKey -> 0..Stored],
         queue' \in [Processes -> Seq(Job)], faults' \in 0..MaxFaults
  PROVE  AutoInv' /\ Stand
<1>1. work' \in [Processes -> Work]
  BY DEF AutoInv, AutoTypeOK
<1>2. Busy'
  BY DEF AutoInv, AutoTypeOK, Busy
<1> QED
  BY <1>1, <1>2 DEF AutoInv, AutoTypeOK, RowOK, Stand

LEMMA InitInv == Init => AutoInv
<1> SUFFICES ASSUME Init PROVE AutoInv
  OBVIOUS
<1>1. NoRun \in RunRow /\ RowOK(NoRun)
  BY Bounds DEF NoRun, Row, RunRow, RowOK
<1>2. [status |-> "none", of |-> Nobody] \in TaskRow
  BY Bounds DEF TaskRow, Nobody
<1>3. Idle \in Work /\ Idle.pc = "idle"
  BY Bounds DEF Idle, At, Work
<1>4. 0 \in 0..Stored /\ 0 \in 0..MaxFaults
  BY Bounds DEF Stored
<1>5. <<>> \in Seq(Job)
  OBVIOUS
<1>6. AutoTypeOK
  BY <1>1, <1>2, <1>3, <1>4, <1>5 DEF Init, AutoTypeOK
<1> QED
  BY <1>1, <1>3, <1>6 DEF Init, AutoInv, Busy

LEMMA StartStep ==
  ASSUME AutoInv, NEW p \in Processes, NEW r \in Run, Start(p, r)
  PROVE  /\ AutoInv'
         /\ run[r].status = "none"
         /\ \A q \in Run \ {r} : run'[q] = run[q] \/ (Active(q) /\ ~Active(q)')
<1> DEFINE runs == [q \in Run |->
         IF Policy = "cancel_previous" /\ Active(q) THEN Cancelled(run[q]) ELSE run[q]]
<1>1. Executes(p, r, runs, 1) /\ run[r].status = "none" /\ UNCHANGED <<draft, work, faults>>
  BY DEF Start
<1>2. ASSUME NEW q \in Run
      PROVE  runs[q] \in RunRow /\ RowOK(runs[q])
             /\ (runs[q] = run[q] \/ (Active(q) /\ runs[q].status = "cancelled"))
  <2>1. run[q] \in RunRow /\ RowOK(run[q])
    BY DEF AutoInv, AutoTypeOK
  <2>2. Active(q) => run[q].status # "none"
    BY DEF Active
  <2> QED
    BY <2>1, <2>2, CancelledTypes
<1>3. runs \in [Run -> RunRow]
  BY <1>2
<1>4. runs[r].step = 1 /\ runs[r].attempt < MaxAttempts
  <2>1. ~Active(r) /\ RowOK(run[r])
    BY <1>1 DEF Active, AutoInv
  <2> QED
    BY <1>1, <2>1, Bounds DEF RowOK
<1> HIDE DEF runs
<1>5. /\ run' \in [Run -> RunRow]
      /\ task' \in [AgentTask -> TaskRow]
      /\ queue' \in [Processes -> Seq(Job)]
      /\ \A q \in Run \ {r} : run'[q] = runs[q]
      /\ RowOK(run'[r])
  BY <1>1, <1>3, <1>4, ExecutesTypes DEF AutoInv
<1>6. \A q \in Run : RowOK(run'[q])
  BY <1>2, <1>5
<1>7. Busy'
  BY <1>1 DEF Busy, AutoInv
<1>8. AutoTypeOK'
  BY <1>1, <1>5 DEF AutoInv, AutoTypeOK
<1> QED
  BY <1>1, <1>2, <1>5, <1>6, <1>7, <1>8 DEF AutoInv, Active

\* A look at a run that is active keeps the invariant.
LEMMA LookedStep ==
  ASSUME AutoInv, NEW r \in Run, Looked(r), Active(r) \/ run' = run,
         UNCHANGED <<draft, faults>>, work' \in [Processes -> Work], Busy'
  PROVE  AutoInv' /\ Stand
<1>1. AutoTypeOK'
  BY DEF AutoInv, AutoTypeOK, Looked
<1>2. \A q \in Run : RowOK(run'[q])
  BY DEF AutoInv, Looked
<1> QED
  BY <1>1, <1>2 DEF AutoInv, Looked, Stand

LEMMA ResumeStep ==
  ASSUME AutoInv, NEW p \in Processes, NEW r \in Run, Resume(p, r)
  PROVE  AutoInv' /\ Stand
<1>1. run[r].status = "paused" /\ Executes(p, r, run, run[r].step + 1)
      /\ UNCHANGED <<draft, work, faults>>
  BY DEF Resume
<1>2. run[r].step \in Nat /\ run[r].step >= 1
  BY DEF AutoInv, AutoTypeOK, RunRow
<1>3. /\ run[r].step + 1 \in Nat /\ run[r].step + 1 >= 1
      /\ run[r].step + 1 >= run[r].step /\ run[r].step + 1 # run[r].step
  BY <1>2
<1>4. Looked(r)
  BY <1>1, <1>3, ExecutesTypes DEF AutoInv, AutoTypeOK, Looked
<1>5. Active(r) /\ work' \in [Processes -> Work] /\ Busy'
  BY <1>1 DEF Active, AutoInv, AutoTypeOK, Busy
<1> QED
  BY <1>1, <1>4, <1>5, LookedStep

LEMMA RetryStep ==
  ASSUME AutoInv, NEW p \in Processes, NEW r \in Run, RetryIsDue(p, r)
  PROVE  AutoInv' /\ Stand
<1>1. run[r].status = "running" /\ run[r].waits = "retry" /\ Executes(p, r, run, run[r].step)
      /\ UNCHANGED <<draft, work, faults>>
  BY DEF RetryIsDue
<1>2. RowOK(run[r])
  BY DEF AutoInv
<1>3. run[r].step \in Nat /\ run[r].step >= 1 /\ run[r].attempt < MaxAttempts
  BY <1>1, <1>2 DEF AutoInv, AutoTypeOK, RunRow, RowOK
<1>4. Looked(r)
  BY <1>1, <1>3, ExecutesTypes DEF AutoInv, AutoTypeOK, Looked
<1>5. Active(r) /\ work' \in [Processes -> Work] /\ Busy'
  BY <1>1 DEF Active, AutoInv, AutoTypeOK, Busy
<1> QED
  BY <1>1, <1>4, <1>5, LookedStep

LEMMA LookStep ==
  ASSUME AutoInv, NEW p \in Processes, NEW r \in Run, Look(p, r)
  PROVE  AutoInv' /\ Stand
<1>1. Advance(p, r, NoReport) /\ Waits(r) /\ UNCHANGED <<draft, work, faults>>
  BY DEF Look
<1>2. NoReport.found \in 0..MaxTasks
  BY Bounds DEF NoReport
<1>3. Looked(r)
  BY <1>1, <1>2, AdvanceTypes DEF AutoInv
<1>4. Active(r) /\ work' \in [Processes -> Work] /\ Busy'
  BY <1>1 DEF Waits, Active, AutoInv, AutoTypeOK, Busy
<1> QED
  BY <1>1, <1>3, <1>4, LookedStep

LEMMA ReportStep ==
  ASSUME AutoInv, NEW p \in Processes, Report(p)
  PROVE  AutoInv' /\ Stand
<1> DEFINE r == work[p].job.run
           report == [step |-> work[p].job.step, attempt |-> work[p].job.attempt,
                      found |-> work[p].found, failed |-> work[p].failed]
<1>1. Advance(p, r, report) /\ work[p].pc = "reports" /\ UNCHANGED <<draft, faults>>
      /\ work' = [work EXCEPT ![p] = Idle]
  BY DEF Report
<1>2. r \in Run
  BY <1>1 DEF AutoInv, Busy, Job
<1>3. report.found \in 0..MaxTasks
  BY DEF AutoInv, AutoTypeOK, Work
<1>4. Idle \in Work /\ Idle.pc = "idle"
  BY Bounds DEF Idle, At, Work
<1>5. work' \in [Processes -> Work] /\ Busy'
  BY <1>1, <1>4 DEF AutoInv, AutoTypeOK, Busy
<1> HIDE DEF r, report
<1>6. Looked(r) /\ (Waits(r) \/ run' = run)
  BY <1>1, <1>2, <1>3, AdvanceTypes DEF AutoInv
<1>7. Waits(r) => Active(r)
  BY DEF Waits, Active
<1> QED
  BY <1>1, <1>2, <1>5, <1>6, <1>7, LookedStep

\* A step that leaves rows, dispatchers and queues of jobs alone.
LEMMA QuietStep ==
  ASSUME AutoInv, UNCHANGED <<run, queue, work>>, faults' \in 0..MaxFaults,
         task' \in [AgentTask -> TaskRow], draft' \in [DraftKey -> 0..Stored]
  PROVE  AutoInv' /\ Stand
BY DEF AutoInv, AutoTypeOK, RowOK, Busy, Stand

LEMMA CancelRunStep ==
  ASSUME AutoInv, NEW r \in Run, CancelRun(r)
  PROVE  AutoInv' /\ Stand
<1>1. Active(r) /\ run' = [run EXCEPT ![r] = Cancelled(run[r])]
      /\ UNCHANGED <<task, draft, queue, work, faults>>
  BY DEF CancelRun
<1>2. Cancelled(run[r]) \in RunRow /\ RowOK(Cancelled(run[r]))
  BY <1>1, CancelledTypes DEF AutoInv, AutoTypeOK, Active
<1>3. Looked(r)
  BY <1>1, <1>2 DEF AutoInv, AutoTypeOK, Looked
<1> QED
  BY <1>1, <1>3, LookedStep DEF AutoInv, AutoTypeOK, Busy

LEMMA GoesStaleStep ==
  ASSUME AutoInv, NEW r \in Run, GoesStale(r)
  PROVE  AutoInv' /\ Stand
<1> DEFINE rec == [run[r] EXCEPT !.stale = TRUE]
<1>1. Waits(r) /\ run' = [run EXCEPT ![r] = rec] /\ UNCHANGED <<task, draft, queue, work, faults>>
  BY DEF GoesStale, AutoInv, AutoTypeOK
<1>2. run[r] \in RunRow /\ RowOK(run[r])
  BY DEF AutoInv, AutoTypeOK
<1>3. rec \in RunRow
  BY <1>2, RowFields
<1>4. RowOK(rec)
  BY <1>2 DEF RowOK, RunRow
<1> HIDE DEF rec
<1>5. Looked(r) /\ Active(r)
  BY <1>1, <1>3, <1>4 DEF AutoInv, AutoTypeOK, Looked, Waits, Active
<1> QED
  BY <1>1, <1>5, LookedStep DEF AutoInv, AutoTypeOK, Busy

LEMMA TakeJobStep ==
  ASSUME AutoInv, NEW p \in Processes, TakeJob(p)
  PROVE  AutoInv' /\ Stand
<1>1. queue[p] \in Seq(Job) /\ queue[p] # <<>>
  BY DEF TakeJob, AutoInv, AutoTypeOK
<1>2. Head(queue[p]) \in Job /\ Tail(queue[p]) \in Seq(Job)
  BY <1>1
<1>3. queue' \in [Processes -> Seq(Job)]
  BY <1>2 DEF TakeJob, AutoInv, AutoTypeOK
<1>4. At("begins", Head(queue[p]), 0, "no") \in Work
      /\ At("begins", Head(queue[p]), 0, "no").job \in Job
  BY <1>2, AtTypes, Bounds
<1> QED
  BY <1>3, <1>4, Works DEF TakeJob, AutoInv, AutoTypeOK

\* What a dispatcher at work holds, and what Reports makes of it.
LEMMA ReportsTypes ==
  ASSUME AutoInv, NEW p \in Processes, work[p].pc # "idle",
         NEW found \in 0..MaxTasks, NEW failed \in {"no", "again", "final"}
  PROVE  /\ At("reports", work[p].job, found, failed) \in Work
         /\ At("reports", work[p].job, found, failed).job \in Job
         /\ Reports(p, found, failed) =>
              work' = [work EXCEPT ![p] = At("reports", work[p].job, found, failed)]
<1>1. work[p].job \in Job
  BY DEF AutoInv, Busy
<1> QED
  BY <1>1, AtTypes DEF Reports, AutoInv, AutoTypeOK

\* What may become of an agent task that exists and has not completed.
TaskTouched(t) ==
  \/ UNCHANGED task
  \/ /\ task[t].status \notin {"none", "completed"}
     /\ \E to \in {"created", "waiting", "completed", "failed", "declined"} \cup RunningStatus :
          task' = [task EXCEPT ![t].status = to]

LEMMA TouchedTypes ==
  ASSUME AutoTypeOK, NEW t, TaskTouched(t)
  PROVE  task' \in [AgentTask -> TaskRow]
<1>1. CASE UNCHANGED task
  BY <1>1 DEF AutoTypeOK
<1>2. ASSUME NEW to \in {"created", "waiting", "completed", "failed", "declined"} \cup RunningStatus,
             task' = [task EXCEPT ![t].status = to]
      PROVE  task' \in [AgentTask -> TaskRow]
  <2>1. ASSUME NEW rec \in TaskRow
        PROVE  [rec EXCEPT !.status = to] \in TaskRow
    BY DEF TaskRow
  <2> QED
    BY <1>2, <2>1 DEF AutoTypeOK
<1> QED
  BY <1>1, <1>2 DEF TaskTouched

\* The dispatcher is at a task: it starts it, or the run that it awaits returns.
Runner(p) == RunTask(p) \/ TaskReturns(p) \/ TaskReleased(p)

LEMMA RunnerActs ==
  ASSUME AutoInv, NEW p \in Processes, Runner(p)
  PROVE  /\ work[p].pc # "idle" /\ UNCHANGED <<run, draft, queue>> /\ faults' \in 0..MaxFaults
         /\ TaskTouched(work[p].job.task)
         /\ \E doing \in Work : /\ work' = [work EXCEPT ![p] = doing]
                                /\ doing.pc # "idle" /\ doing.found = 0
                                /\ doing.job = work[p].job
<1> DEFINE t == work[p].job.task
           Goes == \E doing \in Work : /\ work' = [work EXCEPT ![p] = doing]
                                      /\ doing.pc # "idle" /\ doing.found = 0
                                      /\ doing.job = work[p].job
<1> AutoTypeOK
  BY DEF AutoInv
<1>1. work[p].pc # "idle" /\ UNCHANGED <<run, draft, queue>> /\ faults' \in 0..MaxFaults
  BY Bounds DEF Runner, RunTask, TaskReturns, TaskReleased, IsAt, Fault, AutoTypeOK
<1>2. TaskTouched(t)
  <2>1. CASE RunTask(p)
    BY <2>1 DEF RunTask, SetTask, TaskTouched, RunningStatus
  <2>2. CASE TaskReturns(p)
    BY <2>2 DEF TaskReturns, SetTask, TaskTouched
  <2>3. CASE TaskReleased(p)
    BY <2>3 DEF TaskReleased, SetTask, TaskTouched
  <2> QED
    BY <2>1, <2>2, <2>3 DEF Runner
<1>3. ASSUME NEW failed \in {"no", "again", "final"}, Reports(p, 0, failed)
      PROVE  Goes
  <2> DEFINE doing == At("reports", work[p].job, 0, failed)
  <2>1. doing \in Work /\ work' = [work EXCEPT ![p] = doing]
    BY <1>1, <1>3, Bounds, ReportsTypes
  <2>2. doing.pc # "idle" /\ doing.found = 0 /\ doing.job = work[p].job
    BY DEF At
  <2> QED
    BY <2>1, <2>2
<1>4. ASSUME work' = [work EXCEPT ![p] = At("runs", @.job, 0, "no")]
      PROVE  Goes
  <2> DEFINE doing == At("runs", work[p].job, 0, "no")
  <2>1. doing \in Work /\ doing.pc # "idle" /\ doing.found = 0 /\ doing.job = work[p].job
    BY <1>1, Bounds DEF At, Work, AutoInv, Busy
  <2>2. work' = [work EXCEPT ![p] = doing]
    BY <1>4 DEF AutoTypeOK
  <2> QED
    BY <2>1, <2>2
<1>5. Goes
  <2> HIDE DEF Goes
  <2>1. CASE RunTask(p)
    BY <1>3, <1>4, <2>1 DEF RunTask
  <2>2. CASE TaskReturns(p)
    BY <1>3, <2>2 DEF TaskReturns
  <2>3. CASE TaskReleased(p)
    BY <1>3, <2>3 DEF TaskReleased
  <2> QED
    BY <2>1, <2>2, <2>3 DEF Runner
<1> QED
  BY <1>1, <1>2, <1>5

LEMMA RunnerStep ==
  ASSUME AutoInv, NEW p \in Processes, Runner(p)
  PROVE  AutoInv' /\ Stand
<1>1. work[p].pc # "idle" /\ UNCHANGED <<run, draft, queue>> /\ faults' \in 0..MaxFaults
      /\ TaskTouched(work[p].job.task)
  BY RunnerActs
<1>2. PICK doing \in Work : work' = [work EXCEPT ![p] = doing] /\ doing.job = work[p].job
  BY RunnerActs
<1>3. task' \in [AgentTask -> TaskRow]
  BY <1>1, TouchedTypes DEF AutoInv
<1>4. doing.job \in Job
  BY <1>1, <1>2 DEF AutoInv, Busy
<1> QED
  BY <1>1, <1>2, <1>3, <1>4, Works DEF AutoInv, AutoTypeOK

LEMMA WorkFailsStep ==
  ASSUME AutoInv, NEW p \in Processes, WorkFails(p)
  PROVE  AutoInv' /\ Stand
<1>1. work[p].pc # "idle" /\ UNCHANGED <<run, task, draft, queue>> /\ faults' \in 0..MaxFaults
  BY Bounds DEF WorkFails, Fault, AutoInv, AutoTypeOK
<1>2. PICK failed \in {"again", "final"} : Reports(p, 0, failed)
  BY DEF WorkFails
<1>3. 0 \in 0..MaxTasks
  BY Bounds
<1>4. failed \in {"no", "again", "final"}
  OBVIOUS
<1>5. /\ At("reports", work[p].job, 0, failed) \in Work
      /\ At("reports", work[p].job, 0, failed).job \in Job
      /\ work' = [work EXCEPT ![p] = At("reports", work[p].job, 0, failed)]
  BY <1>1, <1>2, <1>3, <1>4, ReportsTypes
<1> QED
  BY <1>1, <1>5, Works DEF AutoInv, AutoTypeOK

\* The key of a dispatcher's email is a key of the drafts.
LEMMA KeyTypes ==
  ASSUME AutoInv, NEW p \in Processes, work[p].pc # "idle"
  PROVE  Key(p) \in DraftKey /\ work[p].job \in Job
BY DEF AutoInv, Busy, Key, Job, DraftKey

LEMMA StoreDraftStep ==
  ASSUME AutoInv, NEW p \in Processes, StoreDraft(p)
  PROVE  AutoInv' /\ Stand
<1>1. work[p].pc # "idle" /\ UNCHANGED <<run, task, queue, faults>>
  BY DEF StoreDraft, IsAt
<1>2. CASE draft[Key(p)] \in AgentTask
  <2>1. Reports(p, draft[Key(p)], "no") /\ UNCHANGED draft
    BY <1>2 DEF StoreDraft
  <2>2. draft[Key(p)] \in 0..MaxTasks
    BY <1>2, Bounds DEF AgentTask
  <2> QED
    BY <1>1, <2>1, <2>2, ReportsTypes, Works DEF AutoInv, AutoTypeOK
<1>3. CASE draft[Key(p)] \notin AgentTask
  <2>1. draft' = [draft EXCEPT ![Key(p)] = Stored]
        /\ work' = [work EXCEPT ![p] = At("stored", work[p].job, 0, "no")]
    BY <1>3 DEF StoreDraft, AutoInv, AutoTypeOK
  <2>2. draft' \in [DraftKey -> 0..Stored]
    <3>1. Stored \in 0..Stored
      BY Bounds DEF Stored
    <3> QED
      BY <2>1, <3>1 DEF AutoInv, AutoTypeOK
  <2>3. At("stored", work[p].job, 0, "no") \in Work /\ At("stored", work[p].job, 0, "no").job \in Job
    BY <1>1, KeyTypes, AtTypes, Bounds
  <2> QED
    BY <1>1, <2>1, <2>2, <2>3, Works DEF AutoInv, AutoTypeOK
<1> QED
  BY <1>2, <1>3

LEMMA AskToSendStep ==
  ASSUME AutoInv, NEW p \in Processes, AskToSend(p)
  PROVE  AutoInv' /\ Stand
<1> DEFINE new == [status |-> "waiting",
                   of |-> [run |-> work[p].job.run, step |-> work[p].job.step,
                           attempt |-> work[p].job.attempt]]
<1>1. work[p].pc # "idle" /\ UNCHANGED <<run, draft, queue, faults>>
  BY DEF AskToSend, IsAt
<1>2. PICK t \in AgentTask :
        /\ task' = [task EXCEPT ![t] = new]
        /\ work' = [work EXCEPT ![p] = At("asked", work[p].job, t, "no")]
  BY DEF AskToSend, AutoInv, AutoTypeOK
<1>3. work[p].job \in Job /\ t \in 0..MaxTasks
  BY <1>1, KeyTypes, Bounds DEF AgentTask
<1>4. new \in TaskRow
  BY <1>3, Bounds DEF TaskRow, Job, Run, StepNo
<1> HIDE DEF new
<1>5. task' \in [AgentTask -> TaskRow]
  BY <1>2, <1>4 DEF AutoInv, AutoTypeOK
<1> QED
  BY <1>1, <1>2, <1>3, <1>5, AtTypes, Works DEF AutoInv, AutoTypeOK

LEMMA LinkDraftStep ==
  ASSUME AutoInv, NEW p \in Processes, LinkDraft(p)
  PROVE  AutoInv' /\ Stand
<1>1. work[p].pc # "idle" /\ UNCHANGED <<run, task, queue, faults>>
      /\ draft' = [draft EXCEPT ![Key(p)] = work[p].found] /\ Reports(p, work[p].found, "no")
  BY DEF LinkDraft, IsAt
<1>2. work[p].found \in 0..MaxTasks
  BY DEF AutoInv, AutoTypeOK, Work
<1>3. draft' \in [DraftKey -> 0..Stored]
  <2>1. work[p].found \in 0..Stored
    BY <1>2, Bounds DEF Stored
  <2> QED
    BY <1>1, <2>1 DEF AutoInv, AutoTypeOK
<1> QED
  BY <1>1, <1>2, <1>3, ReportsTypes, Works DEF AutoInv, AutoTypeOK

LEMMA CrashTouches ==
  ASSUME NEW p \in Processes, Crash(p)
  PROVE  TaskTouched(work[p].job.task)
BY DEF Crash, LeavesTask, SetTask, TaskTouched, RunningStatus

LEMMA CrashStep ==
  ASSUME AutoInv, NEW p \in Processes, Crash(p)
  PROVE  AutoInv' /\ Stand
<1>1. Idle \in Work /\ Idle.pc = "idle" /\ <<>> \in Seq(Job)
  BY Bounds DEF Idle, At, Work
<1>2. work' \in [Processes -> Work] /\ Busy'
  BY <1>1 DEF Crash, AutoInv, AutoTypeOK, Busy
<1>3. queue' \in [Processes -> Seq(Job)] /\ UNCHANGED <<run, draft>>
  BY <1>1 DEF Crash, AutoInv, AutoTypeOK
<1>4. task' \in [AgentTask -> TaskRow]
  BY CrashTouches, TouchedTypes DEF AutoInv
<1>5. faults' \in 0..MaxFaults
  BY Bounds DEF Crash, Fault, AutoInv, AutoTypeOK
<1> QED
  BY <1>2, <1>3, <1>4, <1>5 DEF AutoInv, AutoTypeOK, RowOK, Stand

\* The steps of an agent task outside the dispatchers.
TaskStep(t) ==
  \/ TaskClaimed(t) \/ TaskWorks(t) \/ TaskAsks(t) \/ TaskEnds(t) \/ TaskDeclined(t)
  \/ ClaimReleased(t) \/ TaskLost(t) \/ TaskRetried(t)

LEMMA TaskStepActs ==
  ASSUME AutoTypeOK, NEW t \in AgentTask, TaskStep(t)
  PROVE  UNCHANGED <<run, draft, queue, work>> /\ faults' \in 0..MaxFaults /\ TaskTouched(t)
<1>1. ASSUME NEW from, "none" \notin from, "completed" \notin from,
             NEW to \in {"created", "waiting", "completed", "failed", "declined"} \cup RunningStatus,
             TaskMoves(t, from, to)
      PROVE  UNCHANGED <<run, draft, queue, work>> /\ TaskTouched(t)
  BY <1>1 DEF TaskMoves, SetTask, TaskTouched
<1>2. faults' \in 0..MaxFaults
  BY Bounds DEF TaskStep, TaskClaimed, TaskWorks, TaskAsks, TaskEnds, TaskDeclined,
     ClaimReleased, TaskLost, TaskRetried, Fault, AutoTypeOK
<1>3. CASE TaskClaimed(t) \/ TaskWorks(t) \/ TaskAsks(t) \/ TaskEnds(t)
  BY <1>1, <1>2, <1>3 DEF TaskClaimed, TaskWorks, TaskAsks, TaskEnds, RunningStatus
<1>4. CASE TaskDeclined(t) \/ ClaimReleased(t) \/ TaskLost(t) \/ TaskRetried(t)
  BY <1>1, <1>2, <1>4 DEF TaskDeclined, ClaimReleased, TaskLost, TaskRetried, RunningStatus
<1> QED
  BY <1>3, <1>4 DEF TaskStep

LEMMA TaskStepStep ==
  ASSUME AutoInv, NEW t \in AgentTask, TaskStep(t)
  PROVE  AutoInv' /\ Stand
<1>1. AutoTypeOK
  BY DEF AutoInv
<1> QED
  BY <1>1, TaskStepActs, TouchedTypes, QuietStep DEF AutoInv, AutoTypeOK

\* Every step keeps the invariant, and is the start of a run or leaves the rows of all runs
\* that are not active as they are.
LEMMA StepInv ==
  ASSUME AutoInv, [Next]_vars
  PROVE  AutoInv' /\ (Stand \/ \E p \in Processes, r \in Run : Start(p, r))
<1>1. CASE UNCHANGED vars
  BY <1>1, QuietStep DEF vars, AutoInv, AutoTypeOK
<1>2. ASSUME NEW p \in Processes, Dispatch(p) \/ TaskReleased(p) \/ WorkFails(p) \/ Crash(p)
      PROVE  AutoInv' /\ Stand
  BY <1>2, TakeJobStep, RunnerStep, StoreDraftStep, AskToSendStep, LinkDraftStep,
     ReportStep, WorkFailsStep, CrashStep DEF Dispatch, Runner
<1>3. ASSUME NEW p \in Processes, NEW r \in Run,
             Start(p, r) \/ Resume(p, r) \/ Look(p, r) \/ RetryIsDue(p, r)
      PROVE  AutoInv' /\ (Stand \/ Start(p, r))
  BY <1>3, StartStep, ResumeStep, LookStep, RetryStep
<1>4. ASSUME NEW r \in Run, CancelRun(r) \/ GoesStale(r)
      PROVE  AutoInv' /\ Stand
  BY <1>4, CancelRunStep, GoesStaleStep
<1>5. ASSUME NEW t \in AgentTask, TaskStep(t)
      PROVE  AutoInv' /\ Stand
  BY <1>5, TaskStepStep
<1> QED
  BY <1>1, <1>2, <1>3, <1>4, <1>5 DEF Next, TaskStep

-----------------------------------------------------------------------------
(* Theorems *)

LEMMA AutoInvariant == Spec => []AutoInv
<1>1. AutoInv /\ [Next]_vars => AutoInv'
  BY StepInv
<1> QED
  BY InitInv, <1>1, PTL DEF Spec

\* Types: every row, agent task, draft, queue and dispatcher stays what the code can store,
\* in particular no attempt of a step exceeds the number allowed.
THEOREM AutoTypeCorrect == Spec => []AutoTypeOK
<1>1. AutoInv => AutoTypeOK
  BY DEF AutoInv
<1> QED
  BY AutoInvariant, <1>1, PTL

\* No two runs are active under the skip policy.
AtMostOne == Policy = "skip" => \A q, s \in Run : Active(q) /\ Active(s) => q = s

LEMMA AtMostOneStep ==
  ASSUME AutoInv, AtMostOne, [Next]_vars
  PROVE  AtMostOne'
<1>1. CASE Stand
  BY <1>1 DEF Stand, AtMostOne, Active
<1>2. ASSUME NEW p \in Processes, NEW r \in Run, Start(p, r)
      PROVE  AtMostOne'
  <2> SUFFICES ASSUME Policy = "skip" PROVE \A q \in Run : Active(q)' => q = r
    BY DEF AtMostOne
  <2>1. \A q \in Run : ~Active(q)
    BY <1>2 DEF Start, MayStart
  <2>2. \A q \in Run \ {r} : run'[q] = run[q]
    BY <1>2, <2>1, StartStep
  <2> QED
    BY <2>1, <2>2 DEF Active
<1> QED
  BY <1>1, <1>2, StepInv

\* "at most one active run": under the skip policy, for every workflow, however many
\* processes launch, look, report and retry, no two runs are running or paused.
THEOREM OnlyOneIsActive == Spec => []OneActiveUnderSkip
<1>1. Init => AtMostOne
  <2> SUFFICES ASSUME Init PROVE \A q \in Run : ~Active(q)
    BY DEF AtMostOne
  <2> QED
    BY DEF Init, NoRun, Row, Active
<1>2. AutoInv /\ AtMostOne /\ [Next]_vars => AtMostOne'
  BY AtMostOneStep
<1>3. AutoInv /\ AtMostOne => OneActiveUnderSkip
  <2> SUFFICES ASSUME AutoInv, AtMostOne, Policy = "skip"
               PROVE  Cardinality({r \in Run : Active(r)}) <= 1
    BY DEF OneActiveUnderSkip, AutoInv
  <2> DEFINE A == {r \in Run : Active(r)}
  <2>1. CASE A = {}
    BY <2>1, FS_EmptySet
  <2>2. CASE A # {}
    <3>1. PICK r : r \in A
      BY <2>2
    <3>2. A = {r}
      BY <3>1 DEF AtMostOne
    <3>3. Cardinality(A) = 1
      BY <3>2, FS_Singleton
    <3> QED
      BY <3>3
  <2> QED
    BY <2>1, <2>2
<1> QED
  BY <1>1, <1>2, <1>3, AutoInvariant, PTL DEF Spec

\* Whatever reports, wake-ups and hand-outs of its steps come late, the row of a run that
\* completed, failed or was cancelled never changes.
THEOREM EndedRunsStay == Spec => EndedRunsStand
<1>1. AutoInv /\ [Next]_vars =>
        [\A r \in Run : run[r].status \in {"completed", "failed", "cancelled"} =>
           run'[r] = run[r]]_vars
  <2> SUFFICES ASSUME AutoInv, [Next]_vars, NEW r \in Run,
                      run[r].status \in {"completed", "failed", "cancelled"}
               PROVE  run'[r] = run[r]
    OBVIOUS
  <2>1. ~Active(r)
    BY DEF Active
  <2>2. CASE Stand
    BY <2>1, <2>2 DEF Stand
  <2>3. ASSUME NEW p \in Processes, NEW q \in Run, Start(p, q)
        PROVE  run'[r] = run[r]
    BY <2>1, <2>3, StartStep
  <2> QED
    BY <2>2, <2>3, StepInv
<1> QED
  BY <1>1, AutoInvariant, PTL DEF Spec, EndedRunsStand

-----------------------------------------------------------------------------
(* The inductive invariant *)

\* The attempt a run is at, and the attempt a job is about.
Current(r) == [run |-> r, step |-> run[r].step, attempt |-> run[r].attempt]

KeyOf(job) == [run |-> job.run, step |-> job.step, attempt |-> job.attempt]

Queued(job) == \E p \in Processes : \E i \in 1..Len(queue[p]) : queue[p][i] = job

AtWork(job) == \E p \in Processes : work[p].pc # "idle" /\ work[p].job = job

\* An attempt its run is at or has been at.
Within(of) ==
  /\ of.run \in Run
  /\ \/ of.step < run[of.run].step
     \/ of.step = run[of.run].step /\ of.attempt <= run[of.run].attempt

\* Step j of run r was completed by a task of an attempt that nothing exceeds: no task and
\* no job that is still about.
Backed(r, j) ==
  Steps[j] \in {"task", "email"} =>
    \E t \in OfStep(r, j) :
      /\ task[t].status = "completed"
      /\ \A s \in OfStep(r, j) : task[s].of.attempt <= task[t].of.attempt
      /\ \A job \in Job : (Queued(job) \/ AtWork(job)) /\ job.run = r /\ job.step = j =>
           job.attempt <= task[t].of.attempt

\* What was asked for, by a task or by a job, belongs to an attempt that was begun.
Begun ==
  /\ \A t \in AgentTask :
       IF task[t].status = "none" THEN task[t].of.run = 0 ELSE Within(task[t].of)
  /\ \A job \in Job : Queued(job) \/ AtWork(job) => Within(KeyOf(job))

PastBacked == \A r \in Run : \A j \in StepNo : j < run[r].step => Backed(r, j)

\* Rows, dispatchers and drafts name tasks of the very attempt they are about.
RowLinked(r) ==
  /\ run[r].task # 0 => task[run[r].task].of = Current(r)
  /\ run[r].status = "paused" => run[r].step \in StepNo /\ Steps[run[r].step] = "pause"

WorkLinked(p) ==
  work[p].found # 0 => work[p].pc # "idle" /\ task[work[p].found].of = KeyOf(work[p].job)

DraftLinked(k) ==
  draft[k] \in AgentTask =>
    task[draft[k]].of = [run |-> k[1], step |-> k[2], attempt |-> k[3]]

StepInvariant ==
  /\ AutoInv /\ Begun /\ PastBacked
  /\ \A r \in Run : RowLinked(r)
  /\ \A p \in Processes : WorkLinked(p)
  /\ \A k \in DraftKey : DraftLinked(k)

-----------------------------------------------------------------------------
(* What a step may do, whichever it is *)

\* A task stays that of its attempt and completed, or is new: for an attempt a run is at
\* now, or for an attempt a job is about.
TaskGrows(t) ==
  \/ /\ task'[t].of = task[t].of
     /\ task[t].status = "none" <=> task'[t].status = "none"
     /\ task[t].status = "completed" => task'[t].status = "completed"
  \/ /\ task[t].status = "none" /\ task'[t].status # "none"
     /\ \/ \E r \in Run : task'[t].of = Current(r)'
        \/ \E job \in Job : (Queued(job) \/ AtWork(job)) /\ task'[t].of = KeyOf(job)

JobGrows(job) ==
  Queued(job)' \/ AtWork(job)' => Queued(job) \/ AtWork(job) \/ KeyOf(job) = Current(job.run)'

\* A run goes on to a later attempt, and past backed steps only.
Ahead(r) ==
  /\ run'[r].step >= run[r].step
  /\ run'[r].step = run[r].step => run'[r].attempt >= run[r].attempt
  /\ \A j \in StepNo : run[r].step <= j /\ j < run'[r].step => Backed(r, j)

Grown ==
  /\ \A t \in AgentTask : TaskGrows(t)
  /\ \A job \in Job : JobGrows(job)
  /\ \A r \in Run : Ahead(r)

\* An attempt its run will have been at after the step.
WithinNext(of) ==
  /\ of.run \in Run
  /\ \/ of.step < run'[of.run].step
     \/ of.step = run'[of.run].step /\ of.attempt <= run'[of.run].attempt

AttemptKey == [run : 0..MaxRuns, step : 0..Len(Steps), attempt : 0..MaxAttempts]

LEMMA KeyFacts ==
  /\ \A job \in Job : KeyOf(job) \in AttemptKey /\ KeyOf(job).run = job.run
       /\ KeyOf(job).step = job.step /\ KeyOf(job).attempt = job.attempt
       /\ job.run \in Run /\ job.step \in StepNo /\ job.attempt \in 1..MaxAttempts
  /\ AutoTypeOK => \A t \in AgentTask : task[t].of \in AttemptKey
<1>1. \A job \in Job : job.run \in Run /\ job.step \in StepNo /\ job.attempt \in 1..MaxAttempts
  BY DEF Job
<1>2. ASSUME NEW job \in Job PROVE KeyOf(job) \in AttemptKey
  BY <1>1, Bounds DEF KeyOf, AttemptKey, Run, StepNo
<1> QED
  BY <1>1, <1>2 DEF KeyOf, AttemptKey, AutoTypeOK, TaskRow

LEMMA RowNumbers ==
  ASSUME AutoTypeOK, NEW r \in Run
  PROVE  run[r].step \in Nat /\ run[r].step >= 1 /\ run[r].attempt \in Nat
         /\ run[r].step \in 1..Len(Steps) + 1 /\ run[r].attempt \in 0..MaxAttempts
BY Bounds DEF AutoTypeOK, RunRow

\* An attempt that was begun stays one.
LEMMA WithinStays ==
  ASSUME AutoTypeOK, AutoTypeOK', Grown, NEW of \in AttemptKey, Within(of)
  PROVE  WithinNext(of)
<1>1. of.run \in Run /\ of.step \in Nat /\ of.attempt \in Nat
  BY Bounds DEF Within, AttemptKey
<1>2. run'[of.run].step \in Nat /\ run'[of.run].attempt \in Nat
  BY <1>1, Bounds DEF AutoTypeOK, RunRow
<1>3. run[of.run].step \in Nat /\ run[of.run].attempt \in Nat
  BY <1>1, RowNumbers
<1>4. /\ run'[of.run].step >= run[of.run].step
      /\ run'[of.run].step = run[of.run].step => run'[of.run].attempt >= run[of.run].attempt
  BY <1>1 DEF Grown, Ahead
<1> QED
  BY <1>1, <1>2, <1>3, <1>4 DEF Within, WithinNext

\* The attempt a run is at was begun.
LEMMA CurrentIsWithin ==
  ASSUME AutoTypeOK', NEW r \in Run
  PROVE  /\ WithinNext(Current(r)')
         /\ Current(r)'.run = r /\ Current(r)'.step = run'[r].step
<1>1. run'[r].attempt \in Nat
  BY Bounds DEF AutoTypeOK, RunRow
<1> QED
  BY <1>1 DEF WithinNext, Current

LEMMA GrownKeepsBegun ==
  ASSUME AutoTypeOK, AutoTypeOK', Begun, Grown
  PROVE  Begun'
<1>1. ASSUME NEW job \in Job, Queued(job)' \/ AtWork(job)'
      PROVE  WithinNext(KeyOf(job))
  <2>1. CASE Queued(job) \/ AtWork(job)
    BY <2>1, KeyFacts, WithinStays DEF Begun
  <2>2. CASE KeyOf(job) = Current(job.run)'
    BY <2>2, KeyFacts, CurrentIsWithin
  <2> QED
    BY <1>1, <2>1, <2>2 DEF Grown, JobGrows
<1>2. ASSUME NEW t \in AgentTask
      PROVE  IF task'[t].status = "none" THEN task'[t].of.run = 0 ELSE WithinNext(task'[t].of)
  <2>1. CASE task'[t].of = task[t].of /\ (task[t].status = "none" <=> task'[t].status = "none")
    <3>1. task[t].status # "none" => WithinNext(task[t].of)
      BY KeyFacts, WithinStays DEF Begun
    <3> QED
      BY <2>1, <3>1 DEF Begun
  <2>2. ASSUME task'[t].status # "none", NEW r \in Run, task'[t].of = Current(r)'
        PROVE  WithinNext(task'[t].of)
    BY <2>2, CurrentIsWithin
  <2>3. ASSUME task'[t].status # "none", NEW job \in Job, Queued(job) \/ AtWork(job),
               task'[t].of = KeyOf(job)
        PROVE  WithinNext(task'[t].of)
    <3>1. WithinNext(KeyOf(job))
      BY <2>3, KeyFacts, WithinStays DEF Begun
    <3> QED
      BY <2>3, <3>1
  <2> QED
    BY <2>1, <2>2, <2>3 DEF Grown, TaskGrows
<1> QED
  BY <1>1, <1>2 DEF Begun, Within, WithinNext, KeyOf

\* A task some row, dispatcher, draft or step names is not new: it stays that of its attempt.
LEMMA KeptOf ==
  ASSUME Begun, Grown, NEW t \in AgentTask, task[t].of.run # 0
  PROVE  task'[t].of = task[t].of
BY DEF Begun, Grown, TaskGrows

\* What backs a step still does: what is new is for the attempt a run is at, or for one a
\* job was about.
LEMMA BackedStays ==
  ASSUME AutoTypeOK, AutoTypeOK', Begun, Grown, NEW r \in Run, NEW j \in StepNo,
         Backed(r, j), j < run'[r].step
  PROVE  Backed(r, j)'
<1> SUFFICES ASSUME Steps[j] \in {"task", "email"}
             PROVE  \E t \in OfStep(r, j)' :
                      /\ task'[t].status = "completed"
                      /\ \A s \in OfStep(r, j)' : task'[s].of.attempt <= task'[t].of.attempt
                      /\ \A job \in Job :
                           (Queued(job)' \/ AtWork(job)') /\ job.run = r /\ job.step = j =>
                             job.attempt <= task'[t].of.attempt
  BY DEF Backed
<1>1. PICK t \in OfStep(r, j) :
        /\ task[t].status = "completed"
        /\ \A s \in OfStep(r, j) : task[s].of.attempt <= task[t].of.attempt
        /\ \A job \in Job : (Queued(job) \/ AtWork(job)) /\ job.run = r /\ job.step = j =>
             job.attempt <= task[t].of.attempt
  BY DEF Backed
<1>2. t \in AgentTask /\ task'[t].of = task[t].of /\ task'[t].status = "completed"
      /\ task[t].of.run = r /\ task[t].of.step = j
  BY <1>1 DEF OfStep, Grown, TaskGrows
<1>3. t \in OfStep(r, j)'
  BY <1>2 DEF OfStep
<1>4. Current(r)'.step # j /\ \A q \in Run : Current(q)'.run = q
  <2>1. run'[r].step # j
    BY Bounds DEF AutoTypeOK, RunRow, StepNo
  <2> QED
    BY <2>1 DEF Current
<1>5. ASSUME NEW s \in AgentTask, task'[s].of.run = r, task'[s].of.step = j
      PROVE  task'[s].of.attempt <= task[t].of.attempt
  <2>1. CASE task'[s].of = task[s].of
    BY <1>1, <1>5, <2>1 DEF OfStep
  <2>2. ASSUME NEW q \in Run, task'[s].of = Current(q)'
        PROVE  FALSE
    BY <1>4, <1>5, <2>2
  <2>3. ASSUME NEW job \in Job, Queued(job) \/ AtWork(job), task'[s].of = KeyOf(job)
        PROVE  task'[s].of.attempt <= task[t].of.attempt
    BY <1>1, <1>5, <2>3, KeyFacts
  <2> QED
    BY <2>1, <2>2, <2>3 DEF Grown, TaskGrows
<1>6. ASSUME NEW job \in Job, Queued(job)' \/ AtWork(job)', job.run = r, job.step = j
      PROVE  job.attempt <= task[t].of.attempt
  <2>1. KeyOf(job) # Current(job.run)'
    BY <1>4, <1>6, KeyFacts
  <2> QED
    BY <1>1, <1>6, <2>1 DEF Grown, JobGrows
<1>7. \A s \in OfStep(r, j)' : task'[s].of.attempt <= task[t].of.attempt
  BY <1>5 DEF OfStep
<1> QED
  BY <1>2, <1>3, <1>6, <1>7

LEMMA GrownKeepsBacked ==
  ASSUME AutoTypeOK, AutoTypeOK', Begun, PastBacked, Grown
  PROVE  PastBacked'
<1> SUFFICES ASSUME NEW r \in Run, NEW j \in StepNo, j < run'[r].step
             PROVE  Backed(r, j)'
  BY DEF PastBacked
<1>1. Backed(r, j)
  <2>1. run[r].step \in Nat /\ j \in Nat
    BY RowNumbers, Bounds
  <2>2. CASE j < run[r].step
    BY <2>2 DEF PastBacked
  <2>3. CASE run[r].step <= j
    BY <2>3 DEF Grown, Ahead
  <2> QED
    BY <2>1, <2>2, <2>3
<1> QED
  BY <1>1, BackedStays

\* Rows, dispatchers and drafts that stay keep naming tasks of their attempt.
LEMMA LinksStay ==
  ASSUME AutoInv, Begun, Grown
  PROVE  /\ \A r \in Run : RowLinked(r) /\ run'[r].step = run[r].step
                           /\ run'[r].attempt = run[r].attempt
                           /\ run'[r].task \in {0, run[r].task}
                           /\ (run'[r].status = "paused" => run[r].status = "paused")
                             => RowLinked(r)'
         /\ \A p \in Processes : WorkLinked(p) /\ work'[p] = work[p] => WorkLinked(p)'
         /\ \A k \in DraftKey : DraftLinked(k) /\ draft'[k] = draft[k] => DraftLinked(k)'
<1>1. ASSUME NEW r \in Run, RowLinked(r), run'[r].step = run[r].step,
             run'[r].attempt = run[r].attempt, run'[r].task \in {0, run[r].task},
             run'[r].status = "paused" => run[r].status = "paused"
      PROVE  RowLinked(r)'
  <2>1. ASSUME run'[r].task # 0
        PROVE  task'[run'[r].task].of = Current(r)'
    <3>1. run'[r].task = run[r].task /\ run[r].task \in AgentTask
      BY <1>1, <2>1, Bounds DEF AutoInv, AutoTypeOK, RunRow, AgentTask
    <3>2. task[run[r].task].of = Current(r) /\ r # 0
      BY <1>1, <2>1, <3>1 DEF RowLinked, Run
    <3>3. task'[run[r].task].of = task[run[r].task].of
      BY <3>1, <3>2, KeptOf DEF Current
    <3> QED
      BY <1>1, <3>1, <3>2, <3>3 DEF Current
  <2> QED
    BY <1>1, <2>1 DEF RowLinked
<1>2. ASSUME NEW p \in Processes, WorkLinked(p), work'[p] = work[p]
      PROVE  WorkLinked(p)'
  <2> SUFFICES ASSUME work[p].found # 0
               PROVE  task'[work[p].found].of = KeyOf(work[p].job) /\ work[p].pc # "idle"
    BY <1>2 DEF WorkLinked, KeyOf
  <2>1. work[p].pc # "idle" /\ task[work[p].found].of = KeyOf(work[p].job)
    BY <1>2 DEF WorkLinked
  <2>2. work[p].found \in AgentTask
    BY Bounds DEF AutoInv, AutoTypeOK, Work, AgentTask
  <2>3. work[p].job \in Job /\ KeyOf(work[p].job).run # 0
    BY <2>1 DEF AutoInv, Busy, KeyOf, Job, Run
  <2> QED
    BY <2>1, <2>2, <2>3, KeptOf
<1>3. ASSUME NEW k \in DraftKey, DraftLinked(k), draft'[k] = draft[k]
      PROVE  DraftLinked(k)'
  <2> SUFFICES ASSUME draft[k] \in AgentTask
               PROVE  task'[draft[k]].of = [run |-> k[1], step |-> k[2], attempt |-> k[3]]
    BY <1>3 DEF DraftLinked
  <2>1. task[draft[k]].of = [run |-> k[1], step |-> k[2], attempt |-> k[3]] /\ k[1] # 0
    BY <1>3 DEF DraftLinked, DraftKey, Run
  <2> QED
    BY <2>1, KeptOf
<1> QED
  BY <1>1, <1>2, <1>3

-----------------------------------------------------------------------------
(* What a look at a run, and the steps it begins, do *)

LEMMA DeferQueued ==
  ASSUME AutoTypeOK, NEW p \in Processes, NEW job \in Job, Defer(p, job),
         NEW x \in Job, Queued(x)'
  PROVE  Queued(x) \/ x = job
<1>1. PICK q \in Processes : \E i \in 1..Len(queue'[q]) : queue'[q][i] = x
  BY DEF Queued
<1>2. PICK i \in 1..Len(queue'[q]) : queue'[q][i] = x
  BY <1>1
<1>3. queue[q] \in Seq(Job)
  BY DEF AutoTypeOK
<1>4. CASE q # p
  <2>1. queue'[q] = queue[q]
    BY <1>4 DEF Defer, AutoTypeOK
  <2> QED
    BY <1>2, <2>1 DEF Queued
<1>5. CASE q = p
  <2>1. queue'[q] = Append(queue[q], job)
    BY <1>5 DEF Defer, AutoTypeOK
  <2>2. CASE i \in 1..Len(queue[q])
    <3>1. queue[q][i] = x
      BY <1>2, <1>3, <2>1, <2>2
    <3> QED
      BY <2>2, <3>1 DEF Queued
  <2>3. CASE i \notin 1..Len(queue[q])
    <3>1. i = Len(queue[q]) + 1
      BY <1>2, <1>3, <2>1, <2>3
    <3> QED
      BY <1>2, <1>3, <2>1, <3>1
  <2> QED
    BY <2>2, <2>3
<1> QED
  BY <1>4, <1>5

\* Between the step a run goes on from and the one it halts at there are only notes.
LEMMA NotesBetween ==
  ASSUME NEW i \in Nat, i >= 1, NEW k \in StepNo, i <= k,
         Halts(i) # {} => k < NextHalt(i)
  PROVE  Steps[k] = "note"
<1> SUFFICES ASSUME Steps[k] # "note" PROVE FALSE
  OBVIOUS
<1>1. k \in Halts(i)
  BY Bounds DEF Halts, StepNo
<1>2. Halts(i) \in SUBSET Nat
  BY Bounds DEF Halts
<1>3. NextHalt(i) <= k
  BY <1>1, <1>2, LeastNumber DEF NextHalt
<1>4. NextHalt(i) \in Nat /\ k \in Nat
  BY <1>1, NextHaltIsStep, Bounds
<1> QED
  BY <1>1, <1>3, <1>4

\* What a step about run r may do to agent tasks, to queues and to the row of r.
Moved(r) ==
  /\ \A t \in AgentTask : TaskGrows(t)
  /\ \A job \in Job : Queued(job)' => Queued(job) \/ KeyOf(job) = Current(job.run)'
  /\ Ahead(r)
  /\ RowLinked(r)'

LEMMA SameTasks ==
  ASSUME UNCHANGED task, NEW t \in AgentTask PROVE TaskGrows(t)
BY DEF TaskGrows

LEMMA SameQueues ==
  ASSUME UNCHANGED queue, NEW job PROVE Queued(job)' => Queued(job)
BY DEF Queued

\* A job of a row that stands at an attempt is about that attempt.
LEMMA JobIsCurrent ==
  ASSUME NEW r \in Run, NEW rec, SameAttempt(run'[r], rec)
  PROVE  KeyOf(JobOf(r, rec)) = Current(r)' /\ JobOf(r, rec).run = r
BY DEF KeyOf, JobOf, Current, SameAttempt

LEMMA BeginsMoves ==
  ASSUME AutoTypeOK, Begun, NEW p \in Processes, NEW r \in Run, NEW runs \in [Run -> RunRow],
         NEW j \in StepNo, NEW attempt \in 1..MaxAttempts,
         Steps[j] \in {"task", "email", "pause"},
         Begins(p, r, runs, j, attempt)
  PROVE  /\ \A t \in AgentTask : TaskGrows(t)
         /\ \A job \in Job : Queued(job)' => Queued(job) \/ KeyOf(job) = Current(job.run)'
         /\ RowLinked(r)'
         /\ run'[r].step = j /\ run'[r].attempt = attempt
<1>1. 0 \in 0..MaxTasks /\ \A t \in AgentTask : t \in 0..MaxTasks
  BY Bounds DEF AgentTask
<1>2. CASE Steps[j] = "pause"
  <2>1. run' = [runs EXCEPT ![r] = Row("paused", j, attempt, "no", 0)]
        /\ UNCHANGED <<task, queue>>
    BY <1>2 DEF Begins
  <2>2. run'[r] = Row("paused", j, attempt, "no", 0)
    BY <2>1
  <2>3. RowLinked(r)' /\ run'[r].step = j /\ run'[r].attempt = attempt
    BY <1>2, <2>2 DEF Row, RowLinked
  <2> QED
    BY <2>1, <2>3, SameTasks, SameQueues
<1>3. CASE Steps[j] = "email"
  <2> DEFINE rec == Row("running", j, attempt, "start", 0)
  <2>1. run' = [runs EXCEPT ![r] = rec] /\ Defer(p, JobOf(r, rec)) /\ UNCHANGED task
    BY <1>3 DEF Begins
  <2>2. run'[r] = rec /\ JobOf(r, rec) \in Job
    BY <1>1, <2>1, RowTypes
  <2>3. RowLinked(r)' /\ run'[r].step = j /\ run'[r].attempt = attempt
        /\ SameAttempt(run'[r], rec)
    BY <2>2 DEF Row, RowLinked, SameAttempt
  <2> HIDE DEF rec
  <2>4. \A job \in Job : Queued(job)' => Queued(job) \/ job = JobOf(r, rec)
    BY <2>1, <2>2, DeferQueued
  <2> QED
    BY <2>1, <2>3, <2>4, SameTasks, JobIsCurrent
<1>4. CASE Steps[j] = "task"
  <2> DEFINE rec(t) == Row("running", j, attempt, "task", t)
             new == [status |-> "created", of |-> [run |-> r, step |-> j, attempt |-> attempt]]
  <2>1. PICK t \in AgentTask :
          /\ Free(t)
          /\ task' = [task EXCEPT ![t] = new]
          /\ run' = [runs EXCEPT ![r] = rec(t)]
          /\ Defer(p, JobOf(r, rec(t)))
    BY <1>4 DEF Begins
  <2>2. run'[r] = rec(t) /\ JobOf(r, rec(t)) \in Job
    BY <1>1, <2>1, RowTypes
  <2>3. /\ run'[r].step = j /\ run'[r].attempt = attempt /\ run'[r].task = t
        /\ run'[r].status = "running" /\ SameAttempt(run'[r], rec(t))
    BY <2>2 DEF Row, SameAttempt
  <2> HIDE DEF rec
  <2>4. \A job \in Job : Queued(job)' => Queued(job) \/ job = JobOf(r, rec(t))
    BY <2>1, <2>2, DeferQueued
  <2>5. task'[t] = new /\ new.of = Current(r)' /\ new.status = "created"
    BY <2>1, <2>3 DEF AutoTypeOK, Current
  <2>6. RowLinked(r)'
    BY <2>3, <2>5 DEF RowLinked
  <2>7. ASSUME NEW s \in AgentTask PROVE TaskGrows(s)
    <3>1. CASE s = t
      BY <2>1, <2>5, <3>1 DEF Free, TaskGrows
    <3>2. CASE s # t
      BY <2>1, <3>2 DEF AutoTypeOK, TaskGrows
    <3> QED
      BY <3>1, <3>2
  <2> HIDE DEF new
  <2> QED
    BY <2>3, <2>4, <2>6, <2>7, JobIsCurrent
<1> QED
  BY <1>2, <1>3, <1>4

LEMMA ExecutesMoves ==
  ASSUME AutoTypeOK, Begun, NEW p \in Processes, NEW r \in Run, NEW runs \in [Run -> RunRow],
         SameAttempt(runs[r], run[r]), run[r].step \in StepNo,
         NEW i \in Nat, i >= 1, i >= run[r].step,
         i = run[r].step => run[r].attempt < MaxAttempts,
         \A k \in StepNo : run[r].step <= k /\ k < i => Backed(r, k),
         Executes(p, r, runs, i)
  PROVE  Moved(r)
<1>1. run[r].step \in Nat /\ run[r].attempt \in Nat /\ run[r].attempt \in 0..MaxAttempts
      /\ Len(Steps) \in Nat /\ run[r].step <= Len(Steps)
  BY RowNumbers, Bounds DEF StepNo
<1>2. CASE Halts(i) = {}
  <2> DEFINE rec == Row("completed", Len(Steps) + 1, 0, "no", 0)
  <2>1. run' = [runs EXCEPT ![r] = rec] /\ UNCHANGED <<task, queue>>
    BY <1>2 DEF Executes
  <2>2. run'[r] = rec
    BY <2>1
  <2>3. RowLinked(r)' /\ run'[r].step = Len(Steps) + 1
    BY <2>2 DEF Row, RowLinked
  <2>4. ASSUME NEW k \in StepNo, run[r].step <= k PROVE Backed(r, k)
    <3>1. CASE k < i
      BY <2>4, <3>1
    <3>2. CASE i <= k
      BY <1>2, <3>2, NotesBetween DEF Backed
    <3> QED
      BY <3>1, <3>2, Bounds
  <2>5. Ahead(r)
    BY <1>1, <2>3, <2>4 DEF Ahead
  <2> QED
    BY <2>1, <2>3, <2>5, SameTasks, SameQueues DEF Moved
<1>3. CASE Halts(i) # {}
  <2> DEFINE j == NextHalt(i)
             attempt == IF j = runs[r].step THEN runs[r].attempt + 1 ELSE 1
  <2>1. Begins(p, r, runs, j, attempt)
    BY <1>3 DEF Executes
  <2>2. j \in StepNo /\ j >= i /\ Steps[j] \in {"task", "email", "pause"} /\ j \in Nat
    BY <1>3, NextHaltIsStep, Bounds
  <2>3. attempt \in 1..MaxAttempts /\ (j = run[r].step => attempt = run[r].attempt + 1)
    BY <1>1, <2>2, Bounds DEF SameAttempt
  <2>4. ASSUME NEW k \in StepNo, run[r].step <= k, k < j PROVE Backed(r, k)
    <3>1. CASE k < i
      BY <2>4, <3>1
    <3>2. CASE i <= k
      BY <2>4, <3>2, NotesBetween DEF Backed
    <3> QED
      BY <3>1, <3>2, Bounds
  <2> HIDE DEF j, attempt
  <2>5. /\ \A t \in AgentTask : TaskGrows(t)
        /\ \A job \in Job : Queued(job)' => Queued(job) \/ KeyOf(job) = Current(job.run)'
        /\ RowLinked(r)' /\ run'[r].step = j /\ run'[r].attempt = attempt
    BY <2>1, <2>2, <2>3, BeginsMoves
  <2>6. Ahead(r)
    BY <1>1, <2>2, <2>3, <2>4, <2>5 DEF Ahead
  <2> QED
    BY <2>5, <2>6 DEF Moved
<1> QED
  BY <1>2, <1>3

\* A row that stands at the attempt its run is at, and names no other attempt's task.
Standing(r, rec) ==
  /\ rec \in RunRow /\ SameAttempt(rec, run[r]) /\ rec.status # "paused"
  /\ rec.task # 0 => task[rec.task].of = Current(r)

LEMMA SameAttemptAhead ==
  ASSUME AutoTypeOK, NEW r \in Run, SameAttempt(run'[r], run[r])
  PROVE  Ahead(r)
<1>1. run[r].step \in Nat /\ run[r].attempt \in Nat
  BY RowNumbers
<1>2. ASSUME NEW k \in StepNo, run[r].step <= k, k < run'[r].step
      PROVE  Backed(r, k)
  BY <1>1, <1>2, Bounds DEF SameAttempt
<1> QED
  BY <1>1, <1>2 DEF Ahead, SameAttempt

\* A run whose row is replaced by one that stands, when no task changes.
LEMMA StandingMoves ==
  ASSUME AutoTypeOK, NEW r \in Run, NEW rec, Standing(r, rec),
         run' = [run EXCEPT ![r] = rec], UNCHANGED task,
         \A job \in Job : Queued(job)' => Queued(job) \/ KeyOf(job) = Current(job.run)'
  PROVE  Moved(r)
<1>1. run'[r] = rec
  BY DEF AutoTypeOK
<1>2. Ahead(r)
  BY <1>1, SameAttemptAhead DEF Standing
<1>3. RowLinked(r)'
  BY <1>1 DEF RowLinked, Standing, SameAttempt, Current
<1> QED
  BY <1>2, <1>3, SameTasks DEF Moved

LEMMA SetRowMoves ==
  ASSUME AutoTypeOK, NEW r \in Run, NEW rec, Standing(r, rec), SetRow(r, rec)
  PROVE  Moved(r)
<1>1. \A job \in Job : Queued(job)' => Queued(job)
  BY SameQueues DEF SetRow
<1> QED
  BY <1>1, StandingMoves DEF SetRow

LEMMA HandsOutMoves ==
  ASSUME AutoTypeOK, NEW p \in Processes, NEW r \in Run, NEW rec, Standing(r, rec),
         RowOK(rec), rec.waits # "no", HandsOut(p, r, rec)
  PROVE  Moved(r)
<1>1. CASE HandsOutAgain(rec)
  <2> DEFINE a == [rec EXCEPT !.stale = FALSE]
  <2>1. run' = [run EXCEPT ![r] = a] /\ Defer(p, JobOf(r, rec)) /\ UNCHANGED task
    BY <1>1 DEF HandsOut
  <2>2. a \in RunRow
    BY RowFields DEF Standing
  <2>3. a.step = rec.step /\ a.attempt = rec.attempt /\ a.task = rec.task /\ a.status = rec.status
    BY DEF Standing, RunRow
  <2>4. JobOf(r, rec) \in Job
    BY DEF JobOf, Job, RowOK, RunRow, Standing
  <2> HIDE DEF a
  <2>5. Standing(r, a)
    BY <2>2, <2>3 DEF Standing, SameAttempt
  <2>6. SameAttempt(run'[r], rec)
    BY <2>1, <2>3 DEF AutoTypeOK, SameAttempt
  <2>7. \A job \in Job : Queued(job)' => Queued(job) \/ job = JobOf(r, rec)
    BY <2>1, <2>4, DeferQueued
  <2> QED
    BY <2>1, <2>5, <2>6, <2>7, JobIsCurrent, StandingMoves
<1>2. CASE ~HandsOutAgain(rec)
  BY <1>2, SetRowMoves DEF HandsOut
<1> QED
  BY <1>1, <1>2

\* The step a run stands at is backed once the task its row names completed.
LEMMA CompletedBacks ==
  ASSUME AutoTypeOK, Begun, NEW r \in Run, NEW t \in AgentTask, task[t].of = Current(r),
         task[t].status = "completed"
  PROVE  Backed(r, run[r].step)
<1>1. t \in OfStep(r, run[r].step) /\ task[t].of.attempt = run[r].attempt
  BY DEF OfStep, Current
<1>2. run[r].step \in Nat /\ run[r].attempt \in Nat /\ r # 0
  BY RowNumbers DEF Run
<1>3. ASSUME NEW s \in OfStep(r, run[r].step)
      PROVE  task[s].of.attempt <= run[r].attempt
  <2>1. s \in AgentTask /\ task[s].of.run = r /\ task[s].of.step = run[r].step
    BY DEF OfStep
  <2>2. Within(task[s].of)
    BY <1>2, <2>1 DEF Begun
  <2> QED
    BY <1>2, <2>1, <2>2 DEF Within
<1>4. ASSUME NEW job \in Job, Queued(job) \/ AtWork(job), job.run = r, job.step = run[r].step
      PROVE  job.attempt <= run[r].attempt
  <2>1. Within(KeyOf(job))
    BY <1>4 DEF Begun
  <2> QED
    BY <1>2, <1>4, <2>1, KeyFacts DEF Within
<1> QED
  BY <1>1, <1>3, <1>4 DEF Backed

LEMMA LooksAtTaskMoves ==
  ASSUME AutoTypeOK, Begun, NEW p \in Processes, NEW r \in Run, NEW rec, Standing(r, rec),
         RowOK(rec), rec.waits # "no", rec.task # 0, LooksAtTask(p, r, rec)
  PROVE  Moved(r)
<1> DEFINE status == task[rec.task].status
<1>1. status \in {"none", "created", "waiting", "completed", "failed", "declined"} \cup RunningStatus
      /\ rec.task \in AgentTask /\ rec \in RunRow
  <2>1. rec.task \in AgentTask
    BY Bounds DEF RunRow, AgentTask, Standing
  <2>2. task[rec.task] \in TaskRow
    BY <2>1 DEF AutoTypeOK
  <2> QED
    BY <2>1, <2>2 DEF TaskRow, Standing
<1>2. ASSUME NEW waits \in {"task", "approval"}
      PROVE  Standing(r, [rec EXCEPT !.waits = waits])
  <2>1. /\ [rec EXCEPT !.waits = waits] \in RunRow
        /\ RowOK([rec EXCEPT !.waits = waits])
        /\ [rec EXCEPT !.waits = waits].waits # "no"
        /\ [rec EXCEPT !.waits = waits].task = rec.task
        /\ SameAttempt([rec EXCEPT !.waits = waits], rec)
    BY <1>1, WaitsFor
  <2>2. [rec EXCEPT !.waits = waits].status # "paused"
    BY <2>1 DEF RowOK
  <2> QED
    BY <2>1, <2>2 DEF Standing, SameAttempt
<1>3. ASSUME NEW retryable \in BOOLEAN
      PROVE  Standing(r, Failed(rec, retryable))
  BY <1>1, FailedTypes DEF Standing, SameAttempt
<1>4. CASE status = "completed"
  <2> DEFINE runs == [run EXCEPT ![r] = rec]
  <2>1. Executes(p, r, runs, rec.step + 1)
    BY <1>4 DEF LooksAtTask, RunningStatus
  <2>2. runs \in [Run -> RunRow] /\ SameAttempt(runs[r], run[r])
    BY <1>1 DEF AutoTypeOK, Standing
  <2> HIDE DEF runs
  <2>3. rec.step = run[r].step /\ run[r].step \in StepNo /\ run[r].step \in Nat
    BY <1>1, Bounds DEF Standing, SameAttempt, RowOK
  <2>4. Backed(r, run[r].step)
    BY <1>1, <1>4, CompletedBacks DEF Standing
  <2> DEFINE i == rec.step + 1
  <2>5. i \in Nat /\ i >= 1 /\ i >= run[r].step /\ i # run[r].step
    BY <2>3
  <2>6. \A k \in StepNo : run[r].step <= k /\ k < i => Backed(r, k)
    BY <2>3, <2>4, Bounds
  <2>7. Executes(p, r, runs, i)
    BY <2>1
  <2> HIDE DEF i
  <2> QED
    BY <2>2, <2>3, <2>5, <2>6, <2>7, ExecutesMoves
<1>5. CASE status = "failed"
  BY <1>3, <1>5, SetRowMoves DEF LooksAtTask, RunningStatus
<1>6. CASE status \in {"declined", "none"}
  BY <1>3, <1>6, SetRowMoves DEF LooksAtTask, RunningStatus
<1>7. CASE status = "waiting"
  BY <1>2, <1>7, SetRowMoves DEF LooksAtTask, RunningStatus
<1>8. CASE status \in RunningStatus
  BY <1>2, <1>8, SetRowMoves DEF LooksAtTask, RunningStatus
<1>9. CASE status = "created"
  <2>1. RowOK([rec EXCEPT !.waits = "task"]) /\ [rec EXCEPT !.waits = "task"].waits # "no"
    BY <1>1, WaitsFor
  <2> QED
    BY <1>2, <1>9, <2>1, SetRowMoves, HandsOutMoves DEF LooksAtTask, RunningStatus
<1> QED
  BY <1>1, <1>4, <1>5, <1>6, <1>7, <1>8, <1>9

\* A look, with no report or with one whose task is that of the attempt it is about.
LEMMA AdvanceMoves ==
  ASSUME AutoTypeOK, Begun, NEW p \in Processes, NEW r \in Run, RowOK(run[r]), RowLinked(r),
         NEW report, report.found \in 0..MaxTasks,
         report.found # 0 => task[report.found].of =
           [run |-> r, step |-> report.step, attempt |-> report.attempt],
         Advance(p, r, report)
  PROVE  Moved(r)
<1>1. run[r] \in RunRow
  BY DEF AutoTypeOK
<1>2. CASE ~Waits(r)
  <2>1. UNCHANGED <<run, task, queue>>
    BY <1>2 DEF Advance
  <2>2. Ahead(r)
    BY <2>1, SameAttemptAhead DEF SameAttempt
  <2>3. RowLinked(r)'
    BY <2>1 DEF RowLinked, Current
  <2> QED
    BY <2>1, <2>2, <2>3, SameTasks, SameQueues DEF Moved
<1>3. CASE Waits(r)
  <2>1. run[r].waits # "no" /\ run[r].status = "running"
    BY <1>3 DEF Waits
  <2>2. CASE Matches(report, run[r]) /\ report.failed # "no"
    <3>1. SetRow(r, Failed(run[r], report.failed = "again"))
      BY <1>3, <2>2 DEF Advance
    <3>2. ASSUME NEW retryable \in BOOLEAN PROVE Standing(r, Failed(run[r], retryable))
      BY <1>1, <2>1, FailedTypes DEF Standing
    <3> QED
      BY <3>1, <3>2, SetRowMoves
  <2>3. CASE ~(Matches(report, run[r]) /\ report.failed # "no")
    <3> DEFINE rec == WithReport(run[r], report)
    <3>1. IF rec.waits = "start" \/ rec.task = 0 THEN HandsOut(p, r, rec)
          ELSE LooksAtTask(p, r, rec)
      BY <1>3, <2>3 DEF Advance
    <3>2. /\ rec \in RunRow /\ RowOK(rec) /\ rec.waits # "no" /\ SameAttempt(rec, run[r])
          /\ \/ rec.task = run[r].task
             \/ Matches(report, run[r]) /\ rec.task = report.found /\ report.found # 0
      BY <1>1, <2>1, WithReportTypes
    <3> HIDE DEF rec
    <3>3. rec.task # 0 => task[rec.task].of = Current(r)
      BY <3>2 DEF RowLinked, Matches, Current
    <3>4. Standing(r, rec)
      BY <3>2, <3>3 DEF Standing, RowOK
    <3> QED
      BY <3>1, <3>2, <3>4, HandsOutMoves, LooksAtTaskMoves
  <2> QED
    BY <2>2, <2>3
<1> QED
  BY <1>2, <1>3

-----------------------------------------------------------------------------
(* The invariant, action by action *)

LEMMA StepInvariantFrom ==
  ASSUME StepInvariant, AutoInv', Grown, \A r \in Run : RowLinked(r)',
         \A p \in Processes : WorkLinked(p)', \A k \in DraftKey : DraftLinked(k)'
  PROVE  StepInvariant'
<1>1. AutoTypeOK /\ AutoTypeOK' /\ Begun /\ PastBacked
  BY DEF StepInvariant, AutoInv
<1> QED
  BY <1>1, GrownKeepsBegun, GrownKeepsBacked DEF StepInvariant

\* A step about run r: other runs stay at their attempt, and are cancelled at most.
LEMMA MovedStep ==
  ASSUME StepInvariant, AutoInv', NEW r \in Run, Moved(r), UNCHANGED draft,
         \A q \in Run \ {r} : /\ SameAttempt(run'[q], run[q])
                              /\ run'[q].task \in {0, run[q].task}
                              /\ run'[q].status = "paused" => run[q].status = "paused",
         \A job \in Job : AtWork(job)' => AtWork(job),
         \A p \in Processes : work'[p] = work[p] \/ work'[p].found = 0
  PROVE  StepInvariant'
<1>1. AutoTypeOK /\ Begun /\ AutoInv
  BY DEF StepInvariant, AutoInv
<1>2. Grown
  <2>1. \A q \in Run : Ahead(q)
    BY <1>1, SameAttemptAhead DEF Moved
  <2> QED
    BY <2>1 DEF Grown, Moved, JobGrows
<1>3. \A q \in Run : RowLinked(q)'
  BY <1>1, <1>2, LinksStay DEF StepInvariant, SameAttempt, Moved
<1>4. \A p \in Processes : WorkLinked(p)'
  <2>1. ASSUME NEW p \in Processes, work'[p].found = 0 PROVE WorkLinked(p)'
    BY <2>1 DEF WorkLinked
  <2> QED
    BY <1>1, <1>2, <2>1, LinksStay DEF StepInvariant
<1>5. \A k \in DraftKey : DraftLinked(k)'
  BY <1>1, <1>2, LinksStay DEF StepInvariant
<1> QED
  BY <1>2, <1>3, <1>4, <1>5, StepInvariantFrom

\* A step of a dispatcher, or of a task: no row changes, and no job is new.
LEMMA WorkGrown ==
  ASSUME AutoTypeOK, UNCHANGED run, \A t \in AgentTask : TaskGrows(t),
         \A job \in Job : Queued(job)' \/ AtWork(job)' => Queued(job) \/ AtWork(job)
  PROVE  Grown
<1>1. \A r \in Run : Ahead(r)
  BY SameAttemptAhead DEF SameAttempt
<1> QED
  BY <1>1 DEF Grown, JobGrows

LEMMA WorkStep ==
  ASSUME StepInvariant, AutoInv', Grown, UNCHANGED run, NEW p \in Processes, WorkLinked(p)',
         \A q \in Processes \ {p} : work'[q] = work[q],
         \A k \in DraftKey : draft'[k] = draft[k] \/ DraftLinked(k)'
  PROVE  StepInvariant'
<1>1. AutoInv /\ Begun
  BY DEF StepInvariant
<1>2. (\A r \in Run : RowLinked(r)') /\ (\A q \in Processes : WorkLinked(q)')
      /\ (\A k \in DraftKey : DraftLinked(k)')
  BY <1>1, LinksStay DEF StepInvariant
<1> QED
  BY <1>2, StepInvariantFrom

\* A dispatcher that goes on with its job, or lets go of it, takes no other one.
LEMMA SameJob ==
  ASSUME AutoTypeOK, NEW p \in Processes, NEW doing, work' = [work EXCEPT ![p] = doing],
         doing.pc # "idle" => work[p].pc # "idle" /\ doing.job = work[p].job,
         NEW job, AtWork(job)'
  PROVE  AtWork(job)
BY DEF AtWork, AutoTypeOK

LEMMA StepInit == Init => StepInvariant
<1> SUFFICES ASSUME Init PROVE StepInvariant
  OBVIOUS
<1>1. AutoInv
  BY InitInv
<1>2. /\ \A r \in Run : run[r].step = 1 /\ run[r].task = 0 /\ run[r].status = "none"
      /\ \A t \in AgentTask : task[t].status = "none" /\ task[t].of.run = 0
      /\ \A p \in Processes : work[p].pc = "idle" /\ work[p].found = 0 /\ queue[p] = <<>>
      /\ \A k \in DraftKey : draft[k] = 0
  BY DEF Init, NoRun, Row, Nobody, Idle, At
<1>3. Begun
  BY <1>2 DEF Begun, Queued, AtWork
<1>4. PastBacked
  BY <1>2, Bounds DEF PastBacked, StepNo
<1> QED
  BY <1>1, <1>2, <1>3, <1>4
     DEF StepInvariant, RowLinked, WorkLinked, DraftLinked, AgentTask

LEMMA StartKeeps ==
  ASSUME StepInvariant, AutoInv', NEW p \in Processes, NEW r \in Run, Start(p, r)
  PROVE  StepInvariant'
<1> DEFINE runs == [q \in Run |->
         IF Policy = "cancel_previous" /\ Active(q) THEN Cancelled(run[q]) ELSE run[q]]
<1>1. Executes(p, r, runs, 1) /\ run[r].status = "none" /\ UNCHANGED <<draft, work, faults>>
  BY DEF Start
<1>2. AutoInv /\ AutoTypeOK /\ Begun
  BY DEF StepInvariant, AutoInv
<1>3. ASSUME NEW q \in Run
      PROVE  /\ runs[q] \in RunRow /\ SameAttempt(runs[q], run[q])
             /\ runs[q].task \in {0, run[q].task}
             /\ runs[q].status = "paused" => run[q].status = "paused"
  <2>1. run[q] \in RunRow /\ SameAttempt(run[q], run[q])
    BY <1>2 DEF AutoTypeOK, SameAttempt
  <2>2. Active(q) => run[q].status # "none"
    BY DEF Active
  <2> QED
    BY <2>1, <2>2, CancelledTypes
<1>4. runs \in [Run -> RunRow]
  BY <1>3
<1>5. run[r].step = 1 /\ run[r].attempt < MaxAttempts /\ 1 \in StepNo
  BY <1>1, <1>2, Bounds DEF AutoInv, RowOK, StepNo
<1> HIDE DEF runs
<1>6. Moved(r)
  <2> DEFINE i == 1
  <2>1. Executes(p, r, runs, i) /\ i \in Nat /\ i >= 1 /\ i >= run[r].step
    BY <1>1, <1>5
  <2>2. \A k \in StepNo : run[r].step <= k /\ k < i => Backed(r, k)
    BY <1>5, Bounds
  <2> HIDE DEF i
  <2> QED
    BY <1>2, <1>3, <1>4, <1>5, <2>1, <2>2, ExecutesMoves
<1>7. \A q \in Run \ {r} : run'[q] = runs[q]
  BY <1>1, <1>2, <1>4, <1>5, <1>3, ExecutesTypes DEF SameAttempt
<1>8. \A job \in Job : AtWork(job)' => AtWork(job)
  BY <1>1 DEF AtWork
<1> QED
  BY <1>1, <1>3, <1>6, <1>7, <1>8, MovedStep

\* A step about one run, by a person or the scheduler: no dispatcher and no draft changes.
LEMMA RunStep ==
  ASSUME StepInvariant, AutoInv', NEW r \in Run, Moved(r), UNCHANGED <<draft, work>>,
         \A q \in Run \ {r} : run'[q] = run[q]
  PROVE  StepInvariant'
<1>1. \A job \in Job : AtWork(job)' => AtWork(job)
  BY DEF AtWork
<1> QED
  BY <1>1, MovedStep DEF SameAttempt

LEMMA ResumeKeeps ==
  ASSUME StepInvariant, AutoInv', NEW p \in Processes, NEW r \in Run, Resume(p, r)
  PROVE  StepInvariant'
<1> DEFINE i == run[r].step + 1
<1>1. run[r].status = "paused" /\ Executes(p, r, run, i) /\ UNCHANGED <<draft, work, faults>>
  BY DEF Resume
<1>2. AutoTypeOK /\ Begun /\ run \in [Run -> RunRow]
  BY DEF StepInvariant, AutoInv, AutoTypeOK
<1>3. run[r].step \in StepNo /\ Steps[run[r].step] = "pause" /\ run[r].step \in Nat
      /\ run[r].step >= 1
  BY <1>1, <1>2, RowNumbers DEF StepInvariant, RowLinked
<1>4. i \in Nat /\ i >= 1 /\ i >= run[r].step /\ i # run[r].step
  BY <1>3
<1>5. \A k \in StepNo : run[r].step <= k /\ k < i => Backed(r, k)
  BY <1>3, Bounds DEF Backed
<1> HIDE DEF i
<1>6. Moved(r)
  BY <1>1, <1>2, <1>3, <1>4, <1>5, ExecutesMoves DEF SameAttempt
<1>7. \A q \in Run \ {r} : run'[q] = run[q]
  BY <1>1, <1>2, <1>4, ExecutesTypes
<1> QED
  BY <1>1, <1>6, <1>7, RunStep

LEMMA RetryKeeps ==
  ASSUME StepInvariant, AutoInv', NEW p \in Processes, NEW r \in Run, RetryIsDue(p, r)
  PROVE  StepInvariant'
<1> DEFINE i == run[r].step
<1>1. run[r].waits = "retry" /\ Executes(p, r, run, i) /\ UNCHANGED <<draft, work, faults>>
  BY DEF RetryIsDue
<1>2. AutoTypeOK /\ Begun /\ run \in [Run -> RunRow] /\ RowOK(run[r])
  BY DEF StepInvariant, AutoInv, AutoTypeOK
<1>3. run[r].step \in StepNo /\ run[r].attempt < MaxAttempts /\ run[r].step \in Nat
      /\ run[r].step >= 1
  BY <1>1, <1>2, RowNumbers DEF RowOK
<1>4. i \in Nat /\ i >= 1 /\ i >= run[r].step
  BY <1>3
<1>5. \A k \in StepNo : run[r].step <= k /\ k < i => Backed(r, k)
  BY <1>3, Bounds
<1> HIDE DEF i
<1>6. Moved(r)
  BY <1>1, <1>2, <1>3, <1>4, <1>5, ExecutesMoves DEF SameAttempt
<1>7. \A q \in Run \ {r} : run'[q] = run[q]
  BY <1>1, <1>2, <1>3, <1>4, ExecutesTypes
<1> QED
  BY <1>1, <1>6, <1>7, RunStep

LEMMA LookKeeps ==
  ASSUME StepInvariant, AutoInv', NEW p \in Processes, NEW r \in Run, Look(p, r)
  PROVE  StepInvariant'
<1>1. Advance(p, r, NoReport) /\ UNCHANGED <<draft, work, faults>>
  BY DEF Look
<1>2. AutoTypeOK /\ Begun /\ RowOK(run[r]) /\ RowLinked(r) /\ \A q \in Run : RowOK(run[q])
  BY DEF StepInvariant, AutoInv
<1>3. NoReport.found = 0 /\ NoReport.found \in 0..MaxTasks
  BY Bounds DEF NoReport
<1>4. Moved(r)
  BY <1>1, <1>2, <1>3, AdvanceMoves
<1>5. \A q \in Run \ {r} : run'[q] = run[q]
  BY <1>1, <1>2, <1>3, AdvanceTypes DEF Looked
<1> QED
  BY <1>1, <1>4, <1>5, RunStep

LEMMA ReportKeeps ==
  ASSUME StepInvariant, AutoInv', NEW p \in Processes, Report(p)
  PROVE  StepInvariant'
<1> DEFINE r == work[p].job.run
           report == [step |-> work[p].job.step, attempt |-> work[p].job.attempt,
                      found |-> work[p].found, failed |-> work[p].failed]
<1>1. Advance(p, r, report) /\ work[p].pc = "reports" /\ UNCHANGED <<draft, faults>>
      /\ work' = [work EXCEPT ![p] = Idle]
  BY DEF Report
<1>2. AutoTypeOK /\ Begun /\ (\A q \in Run : RowOK(run[q])) /\ (\A q \in Run : RowLinked(q))
  BY DEF StepInvariant, AutoInv
<1>3. r \in Run
  BY <1>1 DEF StepInvariant, AutoInv, Busy, Job
<1>4. /\ report.found \in 0..MaxTasks
      /\ report.found # 0 => task[report.found].of =
           [run |-> r, step |-> report.step, attempt |-> report.attempt]
  BY <1>2 DEF AutoTypeOK, Work, StepInvariant, WorkLinked, KeyOf
<1>5. Idle.pc = "idle" /\ Idle.found = 0
  BY DEF Idle, At
<1>6. \A job \in Job : AtWork(job)' => AtWork(job)
  BY <1>1, <1>2, <1>5, SameJob
<1>7. \A q \in Processes : work'[q] = work[q] \/ work'[q].found = 0
  BY <1>1, <1>2, <1>5 DEF AutoTypeOK
<1> HIDE DEF r, report
<1>8. Moved(r)
  BY <1>1, <1>2, <1>3, <1>4, AdvanceMoves
<1>9. \A q \in Run \ {r} : run'[q] = run[q]
  BY <1>1, <1>2, <1>3, <1>4, AdvanceTypes DEF Looked
<1> QED
  BY <1>1, <1>3, <1>6, <1>7, <1>8, <1>9, MovedStep DEF SameAttempt

LEMMA CancelRunKeeps ==
  ASSUME StepInvariant, AutoInv', NEW r \in Run, CancelRun(r)
  PROVE  StepInvariant'
<1>1. run' = [run EXCEPT ![r] = Cancelled(run[r])] /\ UNCHANGED <<task, draft, queue, work>>
      /\ run[r].status # "none"
  BY DEF CancelRun, Active
<1>2. AutoTypeOK /\ run[r] \in RunRow
  BY DEF StepInvariant, AutoInv, AutoTypeOK
<1>3. Standing(r, Cancelled(run[r]))
  BY <1>1, <1>2, CancelledTypes DEF Standing
<1>4. Moved(r)
  BY <1>1, <1>2, <1>3, StandingMoves, SameQueues
<1>5. \A q \in Run \ {r} : run'[q] = run[q]
  BY <1>1, <1>2 DEF AutoTypeOK
<1> QED
  BY <1>1, <1>4, <1>5, RunStep

LEMMA GoesStaleKeeps ==
  ASSUME StepInvariant, AutoInv', NEW r \in Run, GoesStale(r)
  PROVE  StepInvariant'
<1> DEFINE rec == [run[r] EXCEPT !.stale = TRUE]
<1>1. Waits(r) /\ run' = [run EXCEPT ![r] = rec] /\ UNCHANGED <<task, draft, queue, work>>
  BY DEF GoesStale, StepInvariant, AutoInv, AutoTypeOK
<1>2. AutoTypeOK /\ run[r] \in RunRow /\ run[r].status = "running"
      /\ (run[r].task # 0 => task[run[r].task].of = Current(r))
  BY <1>1 DEF StepInvariant, AutoInv, AutoTypeOK, Waits, RowLinked
<1>3. rec \in RunRow
  BY <1>2, RowFields
<1>4. SameAttempt(rec, run[r]) /\ rec.status = run[r].status /\ rec.task = run[r].task
  BY <1>2 DEF RunRow, SameAttempt
<1> HIDE DEF rec
<1>5. Standing(r, rec)
  BY <1>2, <1>3, <1>4 DEF Standing
<1>6. Moved(r)
  BY <1>1, <1>2, <1>5, StandingMoves, SameQueues
<1>7. \A q \in Run \ {r} : run'[q] = run[q]
  BY <1>1, <1>2 DEF AutoTypeOK
<1> QED
  BY <1>1, <1>6, <1>7, RunStep

LEMMA TakeJobKeeps ==
  ASSUME StepInvariant, AutoInv', NEW p \in Processes, TakeJob(p)
  PROVE  StepInvariant'
<1> DEFINE doing == At("begins", Head(queue[p]), 0, "no")
<1>1. work' = [work EXCEPT ![p] = doing] /\ queue' = [queue EXCEPT ![p] = Tail(queue[p])]
      /\ UNCHANGED <<run, task, draft>> /\ queue[p] # <<>>
  BY DEF TakeJob, StepInvariant, AutoInv, AutoTypeOK
<1>2. AutoTypeOK /\ queue[p] \in Seq(Job) /\ doing.found = 0 /\ doing.job = Head(queue[p])
  BY DEF StepInvariant, AutoInv, AutoTypeOK, At
<1>3. Queued(Head(queue[p]))
  <2>1. 1 \in 1..Len(queue[p]) /\ queue[p][1] = Head(queue[p])
    BY <1>1, <1>2
  <2> QED
    BY <2>1 DEF Queued
<1>4. ASSUME NEW job \in Job, Queued(job)' PROVE Queued(job)
  <2>1. PICK q \in Processes : \E i \in 1..Len(queue'[q]) : queue'[q][i] = job
    BY <1>4 DEF Queued
  <2>2. PICK i \in 1..Len(queue'[q]) : queue'[q][i] = job
    BY <2>1
  <2>3. CASE q # p
    <3>1. queue'[q] = queue[q]
      BY <1>1, <1>2, <2>3 DEF AutoTypeOK
    <3> QED
      BY <2>2, <3>1 DEF Queued
  <2>4. CASE q = p
    <3>1. queue'[q] = Tail(queue[p])
      BY <1>1, <1>2, <2>4 DEF AutoTypeOK
    <3> DEFINE jobs == queue[p]
    <3>2. jobs \in Seq(Job) /\ jobs # <<>> /\ i \in 1..Len(Tail(jobs)) /\ Tail(jobs)[i] = job
      BY <1>1, <1>2, <2>2, <3>1
    <3> HIDE DEF jobs
    <3>3. Len(Tail(jobs)) = Len(jobs) - 1 /\ Len(jobs) \in Nat
      BY <3>2
    <3>4. i \in Nat /\ Tail(jobs)[i] = jobs[i + 1]
      BY <3>2, <3>3
    <3>5. i + 1 \in 1..Len(jobs) /\ jobs[i + 1] = job
      BY <3>2, <3>3, <3>4
    <3>6. i + 1 \in 1..Len(queue[p]) /\ queue[p][i + 1] = job
      BY <3>5 DEF jobs
    <3> QED
      BY <3>6 DEF Queued
  <2> QED
    BY <2>3, <2>4
<1>5. ASSUME NEW job \in Job, AtWork(job)' PROVE AtWork(job) \/ Queued(job)
  BY <1>1, <1>2, <1>3, <1>5 DEF AtWork, AutoTypeOK
<1>6. WorkLinked(p)' /\ \A q \in Processes \ {p} : work'[q] = work[q]
  BY <1>1, <1>2 DEF WorkLinked, AutoTypeOK
<1> HIDE DEF doing
<1>7. Grown
  BY <1>1, <1>2, <1>4, <1>5, SameTasks, WorkGrown
<1> QED
  BY <1>1, <1>6, <1>7, WorkStep

\* A dispatcher goes on with its job, the queues stay.
LEMMA SameJobStep ==
  ASSUME StepInvariant, AutoInv', NEW p \in Processes, NEW doing, UNCHANGED <<run, queue>>,
         work' = [work EXCEPT ![p] = doing],
         doing.pc # "idle" => work[p].pc # "idle" /\ doing.job = work[p].job,
         \A t \in AgentTask : TaskGrows(t),
         doing.found # 0 =>
           doing.pc # "idle" /\ task'[doing.found].of = KeyOf(work[p].job),
         \A k \in DraftKey : draft'[k] = draft[k] \/ DraftLinked(k)'
  PROVE  StepInvariant'
<1>1. AutoTypeOK
  BY DEF StepInvariant, AutoInv
<1>2. \A job \in Job : AtWork(job)' => AtWork(job)
  BY <1>1, SameJob
<1>3. Grown
  BY <1>1, <1>2, SameQueues, WorkGrown
<1>4. WorkLinked(p)' /\ \A q \in Processes \ {p} : work'[q] = work[q]
  BY <1>1 DEF WorkLinked, AutoTypeOK, KeyOf
<1> QED
  BY <1>3, <1>4, WorkStep

LEMMA ReportsAre ==
  ASSUME StepInvariant, NEW p \in Processes, NEW found, NEW failed, Reports(p, found, failed)
  PROVE  /\ work' = [work EXCEPT ![p] = At("reports", work[p].job, found, failed)]
         /\ At("reports", work[p].job, found, failed).job = work[p].job
         /\ At("reports", work[p].job, found, failed).found = found
         /\ At("reports", work[p].job, found, failed).pc = "reports"
BY DEF Reports, StepInvariant, AutoInv, AutoTypeOK, At

\* An agent task that exists and has not completed may change its status.
LEMMA StatusGrows ==
  ASSUME AutoTypeOK, NEW t, NEW to, to # "none",
         task[t].status \notin {"none", "completed"},
         task' = [task EXCEPT ![t].status = to], NEW s \in AgentTask
  PROVE  TaskGrows(s)
<1>1. CASE s = t
  <2>1. task[s] \in TaskRow /\ task'[s] = [task[s] EXCEPT !.status = to]
    BY <1>1 DEF AutoTypeOK
  <2>2. task'[s].of = task[s].of /\ task'[s].status = to
    BY <2>1 DEF TaskRow
  <2> QED
    BY <1>1, <2>2 DEF TaskGrows
<1>2. CASE s # t
  BY <1>2 DEF AutoTypeOK, TaskGrows
<1> QED
  BY <1>1, <1>2

LEMMA TouchedGrows ==
  ASSUME AutoTypeOK, NEW t, TaskTouched(t), NEW s \in AgentTask
  PROVE  TaskGrows(s)
<1>1. CASE UNCHANGED task
  BY <1>1, SameTasks
<1>2. CASE ~UNCHANGED task
  <2>1. PICK to \in {"created", "waiting", "completed", "failed", "declined"} \cup RunningStatus :
          task' = [task EXCEPT ![t].status = to]
    BY <1>2 DEF TaskTouched
  <2>2. to # "none"
    BY <2>1 DEF RunningStatus
  <2> QED
    BY <1>2, <2>1, <2>2, StatusGrows DEF TaskTouched
<1> QED
  BY <1>1, <1>2

LEMMA RunnerKeeps ==
  ASSUME StepInvariant, AutoInv', NEW p \in Processes, Runner(p)
  PROVE  StepInvariant'
<1>1. AutoInv /\ AutoTypeOK
  BY DEF StepInvariant, AutoInv
<1>2. work[p].pc # "idle" /\ UNCHANGED <<run, draft, queue>> /\ TaskTouched(work[p].job.task)
  BY <1>1, RunnerActs
<1>3. PICK doing : /\ work' = [work EXCEPT ![p] = doing] /\ doing.found = 0
                   /\ doing.job = work[p].job
  BY <1>1, RunnerActs
<1>4. \A s \in AgentTask : TaskGrows(s)
  BY <1>1, <1>2, TouchedGrows
<1> QED
  BY <1>2, <1>3, <1>4, SameJobStep

LEMMA WorkFailsKeeps ==
  ASSUME StepInvariant, AutoInv', NEW p \in Processes, WorkFails(p)
  PROVE  StepInvariant'
<1>1. work[p].pc # "idle" /\ UNCHANGED <<run, task, draft, queue>>
  BY DEF WorkFails
<1>2. PICK failed : Reports(p, 0, failed)
  BY DEF WorkFails
<1> QED
  BY <1>1, <1>2, ReportsAre, SameTasks, SameJobStep

LEMMA StoreDraftKeeps ==
  ASSUME StepInvariant, AutoInv', NEW p \in Processes, StoreDraft(p)
  PROVE  StepInvariant'
<1>1. work[p].pc # "idle" /\ UNCHANGED <<run, task, queue>>
  BY DEF StoreDraft, IsAt
<1>2. Key(p) \in DraftKey /\ work[p].job \in Job
  BY <1>1, KeyTypes DEF StepInvariant
<1>3. CASE draft[Key(p)] \in AgentTask
  <2>1. Reports(p, draft[Key(p)], "no") /\ UNCHANGED draft
    BY <1>3 DEF StoreDraft
  <2>2. task[draft[Key(p)]].of = KeyOf(work[p].job)
    BY <1>2, <1>3 DEF StepInvariant, DraftLinked, Key, KeyOf
  <2> QED
    BY <1>1, <2>1, <2>2, ReportsAre, SameTasks, SameJobStep
<1>4. CASE draft[Key(p)] \notin AgentTask
  <2> DEFINE doing == At("stored", work[p].job, 0, "no")
  <2>1. draft' = [draft EXCEPT ![Key(p)] = Stored] /\ work' = [work EXCEPT ![p] = doing]
    BY <1>4 DEF StoreDraft, StepInvariant, AutoInv, AutoTypeOK
  <2>2. doing.job = work[p].job /\ doing.found = 0
    BY DEF At
  <2> HIDE DEF doing
  <2>3. Stored \notin AgentTask
    BY Bounds DEF Stored, AgentTask
  <2>4. \A k \in DraftKey : draft'[k] = draft[k] \/ DraftLinked(k)'
    BY <2>1, <2>3 DEF DraftLinked, StepInvariant, AutoInv, AutoTypeOK
  <2> QED
    BY <1>1, <2>1, <2>2, <2>4, SameTasks, SameJobStep
<1> QED
  BY <1>3, <1>4

LEMMA AskToSendKeeps ==
  ASSUME StepInvariant, AutoInv', NEW p \in Processes, AskToSend(p)
  PROVE  StepInvariant'
<1> DEFINE new == [status |-> "waiting", of |-> KeyOf(work[p].job)]
           doing(t) == At("asked", work[p].job, t, "no")
<1>1. work[p].pc # "idle" /\ UNCHANGED <<run, draft, queue>> /\ AutoTypeOK
  BY DEF AskToSend, IsAt, StepInvariant, AutoInv
<1>2. PICK t \in AgentTask :
        Free(t) /\ task' = [task EXCEPT ![t] = new] /\ work' = [work EXCEPT ![p] = doing(t)]
  BY <1>1 DEF AskToSend, AutoTypeOK, KeyOf
<1>3. work[p].job \in Job /\ AtWork(work[p].job)
  BY <1>1, KeyTypes DEF StepInvariant, AtWork
<1>4. doing(t).job = work[p].job /\ doing(t).found = t /\ doing(t).pc = "asked"
  BY DEF At
<1>5. task'[t] = new /\ new.of = KeyOf(work[p].job) /\ new.status = "waiting"
  BY <1>1, <1>2 DEF AutoTypeOK
<1> HIDE DEF new, doing
<1>6. ASSUME NEW s \in AgentTask PROVE TaskGrows(s)
  <2>1. CASE s = t
    BY <1>2, <1>3, <1>5, <2>1 DEF Free, TaskGrows
  <2>2. CASE s # t
    BY <1>1, <1>2, <2>2 DEF AutoTypeOK, TaskGrows
  <2> QED
    BY <2>1, <2>2
<1> QED
  BY <1>1, <1>2, <1>4, <1>5, <1>6, SameJobStep

LEMMA LinkDraftKeeps ==
  ASSUME StepInvariant, AutoInv', NEW p \in Processes, LinkDraft(p)
  PROVE  StepInvariant'
<1>1. work[p].pc # "idle" /\ UNCHANGED <<run, task, queue>> /\ AutoTypeOK
      /\ draft' = [draft EXCEPT ![Key(p)] = work[p].found] /\ Reports(p, work[p].found, "no")
  BY DEF LinkDraft, IsAt, StepInvariant, AutoInv
<1>2. Key(p) \in DraftKey
  BY <1>1, KeyTypes DEF StepInvariant
<1>3. work[p].found # 0 => task[work[p].found].of = KeyOf(work[p].job)
  BY DEF StepInvariant, WorkLinked
<1>4. ASSUME NEW k \in DraftKey PROVE draft'[k] = draft[k] \/ DraftLinked(k)'
  <2>1. CASE k # Key(p)
    BY <1>1, <2>1 DEF AutoTypeOK
  <2>2. CASE k = Key(p)
    <3>1. draft'[k] = work[p].found
      BY <1>1, <1>2, <2>2 DEF AutoTypeOK
    <3>2. KeyOf(work[p].job) = [run |-> k[1], step |-> k[2], attempt |-> k[3]]
      BY <2>2 DEF Key, KeyOf
    <3>3. work[p].found \in AgentTask => work[p].found # 0
      BY DEF AgentTask
    <3> QED
      BY <1>1, <1>3, <3>1, <3>2, <3>3 DEF DraftLinked
  <2> QED
    BY <2>1, <2>2
<1> QED
  BY <1>1, <1>3, <1>4, ReportsAre, SameTasks, SameJobStep

LEMMA CrashKeeps ==
  ASSUME StepInvariant, AutoInv', NEW p \in Processes, Crash(p)
  PROVE  StepInvariant'
<1>1. work' = [work EXCEPT ![p] = Idle] /\ queue' = [queue EXCEPT ![p] = <<>>]
      /\ UNCHANGED <<run, draft>> /\ AutoTypeOK
  BY DEF Crash, StepInvariant, AutoInv
<1>2. Idle.pc = "idle" /\ Idle.found = 0
  BY DEF Idle, At
<1>3. \A job \in Job : AtWork(job)' => AtWork(job)
  BY <1>1, <1>2, SameJob
<1>4. \A job \in Job : Queued(job)' => Queued(job)
  BY <1>1 DEF Queued, AutoTypeOK
<1>5. Grown
  <2>1. \A s \in AgentTask : TaskGrows(s)
    BY <1>1, CrashTouches, TouchedGrows
  <2> QED
    BY <1>1, <1>3, <1>4, <2>1, WorkGrown
<1>6. WorkLinked(p)' /\ \A q \in Processes \ {p} : work'[q] = work[q]
  BY <1>1, <1>2 DEF WorkLinked, AutoTypeOK
<1> QED
  BY <1>1, <1>5, <1>6, WorkStep

LEMMA TaskStepKeeps ==
  ASSUME StepInvariant, AutoInv', NEW t \in AgentTask, TaskStep(t)
  PROVE  StepInvariant'
<1>1. AutoInv /\ Begun /\ AutoTypeOK
  BY DEF StepInvariant, AutoInv
<1>2. UNCHANGED <<run, draft, queue, work>> /\ \A s \in AgentTask : TaskGrows(s)
  BY <1>1, TaskStepActs, TouchedGrows
<1>3. Grown
  <2>1. \A job \in Job : AtWork(job)' => AtWork(job)
    BY <1>2 DEF AtWork
  <2> QED
    BY <1>1, <1>2, <2>1, SameQueues, WorkGrown
<1>4. (\A r \in Run : RowLinked(r)') /\ (\A q \in Processes : WorkLinked(q)')
      /\ (\A k \in DraftKey : DraftLinked(k)')
  BY <1>1, <1>2, <1>3, LinksStay DEF StepInvariant
<1> QED
  BY <1>3, <1>4, StepInvariantFrom

LEMMA QuietKeeps ==
  ASSUME StepInvariant, AutoInv', UNCHANGED vars
  PROVE  StepInvariant'
<1>1. AutoInv /\ Begun /\ AutoTypeOK /\ UNCHANGED <<run, task, draft, queue, work>>
  BY DEF StepInvariant, AutoInv, vars
<1>2. Grown
  <2>1. \A job \in Job : AtWork(job)' => AtWork(job)
    BY <1>1 DEF AtWork
  <2> QED
    BY <1>1, <2>1, SameTasks, SameQueues, WorkGrown
<1>3. (\A r \in Run : RowLinked(r)') /\ (\A q \in Processes : WorkLinked(q)')
      /\ (\A k \in DraftKey : DraftLinked(k)')
  BY <1>1, <1>2, LinksStay DEF StepInvariant
<1> QED
  BY <1>2, <1>3, StepInvariantFrom

LEMMA StepKeeps ==
  ASSUME StepInvariant, [Next]_vars
  PROVE  StepInvariant'
<1> AutoInv'
  BY StepInv DEF StepInvariant
<1>1. CASE UNCHANGED vars
  BY <1>1, QuietKeeps
<1>2. ASSUME NEW p \in Processes, Dispatch(p) \/ TaskReleased(p) \/ WorkFails(p) \/ Crash(p)
      PROVE  StepInvariant'
  BY <1>2, TakeJobKeeps, RunnerKeeps, StoreDraftKeeps, AskToSendKeeps, LinkDraftKeeps,
     ReportKeeps, WorkFailsKeeps, CrashKeeps DEF Dispatch, Runner
<1>3. ASSUME NEW p \in Processes, NEW r \in Run,
             Start(p, r) \/ Resume(p, r) \/ Look(p, r) \/ RetryIsDue(p, r)
      PROVE  StepInvariant'
  BY <1>3, StartKeeps, ResumeKeeps, LookKeeps, RetryKeeps
<1>4. ASSUME NEW r \in Run, CancelRun(r) \/ GoesStale(r)
      PROVE  StepInvariant'
  BY <1>4, CancelRunKeeps, GoesStaleKeeps
<1>5. ASSUME NEW t \in AgentTask, TaskStep(t)
      PROVE  StepInvariant'
  BY <1>5, TaskStepKeeps
<1> QED
  BY <1>1, <1>2, <1>3, <1>4, <1>5 DEF Next, TaskStep

-----------------------------------------------------------------------------
(* The theorem *)

\* No run gets past a task step or an email step before a task of that step completed, of
\* an attempt no other task of the step exceeds: not by a late, repeated or misplaced
\* report, not by a job handed out twice, a crash, a retry or a resumption.
THEOREM StepsStayBacked == Spec => []StepsAreBacked
<1>1. StepInvariant /\ [Next]_vars => StepInvariant'
  BY StepKeeps
<1>2. StepInvariant => StepsAreBacked
  <2> SUFFICES ASSUME StepInvariant, NEW r \in Run, NEW j \in 1..run[r].step - 1,
                      Steps[j] \in {"task", "email"}
               PROVE  \E t \in OfStep(r, j) :
                        /\ task[t].status = "completed"
                        /\ \A s \in OfStep(r, j) : task[s].of.attempt <= task[t].of.attempt
    BY DEF StepsAreBacked
  <2>1. j \in StepNo /\ j < run[r].step
    BY RowNumbers, Bounds DEF StepInvariant, AutoInv, StepNo
  <2> QED
    BY <2>1 DEF StepInvariant, PastBacked, Backed
<1> QED
  BY StepInit, <1>1, <1>2, PTL DEF Spec
=============================================================================
