------------------------- MODULE DurableRunsProofs -------------------------
(***************************************************************************)
(* Theorems about DurableRuns, for every number of workers, runs, approvals*)
(* lost attempts and requests beside the API's own.                        *)
(***************************************************************************)
EXTENDS DurableRuns, AgentRuntimeProofs

-----------------------------------------------------------------------------
(* The calls of an open run *)

\* Every call after a run's first one was preceded by an approval of the task.
Counted(r, n) ==
  /\ r.phase \notin Ended => r.call <= n + 1
  /\ r.phase = "planning" => r.call = 0
  /\ r.phase \notin Ended \cup {"planning"} => r.call >= 1

CallsCounted == \A i \in RunId : Counted(runs[i], asked)

Bounded == DurableTypeOK /\ CallsCounted

\* The latest run, a run that a transaction is about to commit included.
Newest == IF queue.open THEN latest + 1 ELSE latest

-----------------------------------------------------------------------------
(* What one step does to a run *)

Kept(i) == runs'[i] = runs[i]

Ends(i) == i <= latest /\ runs'[i].phase \in Ended

Born(i) == i = latest + 1 /\ latest' = latest + 1 /\ runs'[i] = NewRun

\* The run waits for the approval the step requested.
AsksFor(i) ==
  /\ asked' = asked + 1 /\ asked + 1 \in ApprovalId
  /\ runs'[i].approval = asked + 1 /\ approvals'[asked + 1].run = i

\* The model proposed the run's next call.
Proposes(i) ==
  /\ i <= latest
  /\ runs[i].phase \in {"planning", "executing"}
  /\ runs'[i].call = runs[i].call + 1
  /\ \/ runs'[i].phase = "waiting_approval" /\ AsksFor(i)
     \/ runs'[i].phase = "tool_ready" /\ runs[i].phase = "planning"

\* A call that was ready is held for a person after all.
Pauses(i) ==
  /\ i <= latest
  /\ runs[i].phase = "tool_ready" /\ runs'[i].phase = "waiting_approval"
  /\ runs'[i].call = runs[i].call /\ AsksFor(i)

Starts(i) ==
  /\ i <= latest
  /\ runs[i].phase \in {"tool_ready", "waiting_approval"}
  /\ runs'[i].phase = "executing" /\ runs'[i].call = runs[i].call

Moves(i) == Kept(i) \/ Ends(i) \/ Born(i) \/ Proposes(i) \/ Pauses(i) \/ Starts(i)

\* The step does not reach the second unit of an attempt, nor end one that works.
Rests ==
  /\ \A v \in Workers : at'[v].pc = "second" => at'[v] = at[v]
  /\ \A i \in RunId :
       Kept(i) \/ Ends(i) \/ Born(i) \/ Pauses(i) \/ (Proposes(i) /\ runs[i].phase = "planning")
  /\ \A i \in RunId, c \in Calls : acts'[i][c] # acts[i][c] =>
       i \in Idempotent /\ runs[i].phase = "executing" /\ runs[i].call = c

\* Attempt w commits run i as executing.
BeginsUnit(w, i) ==
  /\ at[w].pc = "first" /\ at[w].run = i
  /\ at'[w].pc = "second" /\ at'[w].run = i /\ at'[w].call = runs[i].call
  /\ \A v \in Workers : v # w => at'[v] = at[v]
  /\ Starts(i) /\ OthersKept(i)
  /\ UNCHANGED <<acts, latest>>

\* Attempt w works on its call in the second unit: it settles run i, or dies in it.
WorksUnit(w, i) ==
  /\ at[w].pc = "second" /\ at[w].run = i /\ runs[i].phase = "executing"
  /\ at'[w].pc # "second"
  /\ \A v \in Workers : v # w => at'[v] = at[v]
  /\ Kept(i) \/ Ends(i) \/ Proposes(i)
  /\ OthersKept(i)
  /\ acts' = acts \/ Reached(i, at[w].call)
  /\ UNCHANGED latest

\* What was decided stays decided, and what was let through stays let through.
DecisionsStand ==
  /\ allowed \subseteq allowed' /\ asked <= asked'
  /\ \A a \in 1..asked : /\ approvals'[a].run = approvals[a].run
                         /\ approvals'[a].call = approvals[a].call
                         /\ approvals[a].status = "approved" => approvals'[a].status = "approved"

-----------------------------------------------------------------------------
(* Values of the variables *)

LEMMA DurableBounds ==
  /\ MaxRuns \in Nat /\ MaxApprovals \in Nat /\ MaxLosses \in Nat /\ MaxLosses >= 0
  /\ 0 \in 0..MaxRuns /\ 0 \in 0..MaxApprovals
  /\ \A i \in RunId : i \in Nat /\ i \in 0..MaxRuns /\ i >= 1 /\ i <= MaxRuns
  /\ \A a \in ApprovalId : a \in Nat /\ a \in 0..MaxApprovals
  /\ \A i \in 0..MaxRuns : i \in Nat /\ (i # 0 => i \in RunId)
BY StoreBounds, WorkersAssumption DEF RunId

LEMMA AttemptFields ==
  ASSUME NEW q \in Attempt
  PROVE  /\ \A pc \in {"idle", "first", "second", "reports"} : [q EXCEPT !.pc = pc] \in Attempt
         /\ \A i \in 0..MaxRuns : [q EXCEPT !.run = i] \in Attempt
         /\ \A n \in Nat : [q EXCEPT !.call = n] \in Attempt
         /\ \A a \in 0..MaxApprovals : [q EXCEPT !.by = a] \in Attempt
         /\ \A phase \in RunPhase : [q EXCEPT !.phase = phase] \in Attempt
BY DEF Attempt

LEMMA RestingTypes ==
  /\ Resting \in Attempt
  /\ \A i \in 0..MaxRuns : [Resting EXCEPT !.pc = "first", !.run = i] \in Attempt
<1>1. Resting \in Attempt
  BY DurableBounds DEF Resting, Attempt, RunPhase
<1>2. ASSUME NEW i \in 0..MaxRuns
      PROVE  [Resting EXCEPT !.pc = "first", !.run = i] \in Attempt
  BY <1>1, AttemptFields
<1> QED
  BY <1>1, <1>2

LEMMA WorkflowFields ==
  ASSUME NEW f \in Workflow
  PROVE  /\ \A open \in BOOLEAN : [f EXCEPT !.open = open] \in Workflow
         /\ \A i \in 0..MaxRuns : [f EXCEPT !.run = i] \in Workflow
         /\ \A w \in Workers \cup {None} : [f EXCEPT !.attempt = w] \in Workflow
         /\ \A waits \in BOOLEAN : [f EXCEPT !.waits = waits] \in Workflow
BY DEF Workflow

LEMMA WorkflowTypes ==
  ASSUME DurableTypeOK
  PROVE  /\ \A phase : Returned(phase) \in Workflow
         /\ \A w \in Workers : Retried(w) \in Workflow
<1>1. wf \in Workflow /\ None \in Workers \cup {None}
  BY DEF DurableTypeOK
<1>2. ASSUME NEW phase PROVE Returned(phase) \in Workflow
  <2>1. (phase \notin Ended) \in BOOLEAN /\ (phase = "waiting_approval") \in BOOLEAN
    OBVIOUS
  <2>2. [wf EXCEPT !.attempt = None] \in Workflow
    BY <1>1, WorkflowFields
  <2>3. \A open \in BOOLEAN, waits \in BOOLEAN :
          [wf EXCEPT !.attempt = None, !.open = open, !.waits = waits] \in Workflow
    BY <2>2, WorkflowFields
  <2> QED
    BY <2>1, <2>3 DEF Returned
<1>3. ASSUME NEW w \in Workers PROVE Retried(w) \in Workflow
  <2>1. wf.attempt \in Workers \cup {None}
    BY <1>1 DEF Workflow
  <2> QED
    BY <1>1, <2>1, WorkflowFields DEF Retried
<1> QED
  BY <1>2, <1>3

LEMMA StartTypes ==
  ASSUME DurableTypeOK, NEW i \in 0..MaxRuns, NEW replace, StartWorkflow(i, replace)
  PROVE  wf' \in Workflow
<1>1. [open |-> TRUE, run |-> i, attempt |-> None, waits |-> FALSE] \in Workflow
  BY DEF Workflow
<1> QED
  BY <1>1 DEF StartWorkflow, DurableTypeOK

LEMMA QueueTypes ==
  ASSUME DurableTypeOK, NEW saw \in Task, NEW replace, Queue(saw, replace)
  PROVE  queue' \in [open : BOOLEAN, save : Task] /\ wf' \in Workflow
<1>1. latest + 1 \in 0..MaxRuns
  BY DurableBounds DEF Queue, DurableTypeOK, StoreTypeOK
<1>2. wf' \in Workflow
  BY <1>1, StartTypes DEF Queue
<1>3. [saw EXCEPT !.status = "queued", !.stale = FALSE] \in Task
  <2>1. "queued" \in TaskStatus /\ FALSE \in BOOLEAN
    BY DEF TaskStatus
  <2> QED
    BY <2>1, TaskFields
<1> QED
  BY <1>2, <1>3 DEF Queue

-----------------------------------------------------------------------------
(* The variables stay well-formed: per action *)

LEMMA QueueingTypes ==
  ASSUME DurableTypeOK,
         \/ QueueRun \/ QueueRetry \/ \E h \in Chats : QueueChat(h)
         \/ \E h \in Automations : HandOffReads(h) \/ HandOffQueues(h)
  PROVE  DurableTypeOK'
<1>1. task \in Task /\ asking \in [Automations \cup Chats -> [pc : {"new", "read", "done"}, saw : Task]]
  BY DEF DurableTypeOK, StoreTypeOK
<1>2. ASSUME NEW h \in Automations \cup Chats, NEW pc \in {"new", "read", "done"},
             asking' = [asking EXCEPT ![h].pc = pc]
      PROVE  asking' \in [Automations \cup Chats -> [pc : {"new", "read", "done"}, saw : Task]]
  BY <1>1, <1>2
<1>3. ASSUME NEW saw \in Task, NEW replace, Queue(saw, replace),
             asking' \in [Automations \cup Chats -> [pc : {"new", "read", "done"}, saw : Task]]
      PROVE  DurableTypeOK'
  <2>1. queue' \in [open : BOOLEAN, save : Task] /\ wf' \in Workflow
    BY <1>3, QueueTypes
  <2>2. UNCHANGED <<task, runs, latest, approvals, asked, at, resumed, acts, allowed, losses>>
    BY <1>3 DEF Queue, store
  <2> QED
    BY <1>3, <2>1, <2>2 DEF DurableTypeOK, StoreTypeOK
<1>4. CASE QueueRun
  BY <1>1, <1>3, <1>4 DEF QueueRun
<1>5. CASE QueueRetry
  BY <1>1, <1>3, <1>5 DEF QueueRetry
<1>6. ASSUME NEW h \in Chats, QueueChat(h) PROVE DurableTypeOK'
  BY <1>1, <1>2, <1>3, <1>6 DEF QueueChat
<1>7. ASSUME NEW h \in Automations, HandOffQueues(h) PROVE DurableTypeOK'
  BY <1>1, <1>2, <1>3, <1>7 DEF HandOffQueues
<1>8. ASSUME NEW h \in Automations, HandOffReads(h) PROVE DurableTypeOK'
  <2>1. asking' \in [Automations \cup Chats -> [pc : {"new", "read", "done"}, saw : Task]]
    BY <1>1, <1>8 DEF HandOffReads
  <2>2. UNCHANGED <<task, runs, latest, approvals, asked, queue, wf, at, resumed, acts, allowed, losses>>
    BY <1>8 DEF HandOffReads, store
  <2> QED
    BY <2>1, <2>2 DEF DurableTypeOK, StoreTypeOK
<1> QED
  BY <1>4, <1>5, <1>6, <1>7, <1>8

LEMMA TransactionTypes ==
  ASSUME DurableTypeOK, queue.open => latest < MaxRuns,
         QueueCommits \/ QueueAborts \/ ResumeChecks \/ ResumeStarts
  PROVE  DurableTypeOK'
<1>1. CASE QueueCommits
  <2>0. latest + 1 \in 0..MaxRuns
    BY <1>1, DurableBounds DEF QueueCommits, DurableTypeOK, StoreTypeOK
  <2>1. /\ queue' \in [open : BOOLEAN, save : Task] /\ task' \in Task
        /\ latest' \in 0..MaxRuns /\ runs' \in [RunId -> Run]
    <3>1. queue' \in [open : BOOLEAN, save : Task] /\ task' \in Task
      BY <1>1 DEF QueueCommits, DurableTypeOK
    <3>2. runs' \in [RunId -> Run]
      BY <1>1, CheckpointTypes DEF QueueCommits, DurableTypeOK, StoreTypeOK
    <3> QED
      BY <1>1, <2>0, <3>1, <3>2 DEF QueueCommits
  <2>2. UNCHANGED <<approvals, asked, wf, at, asking, resumed, acts, allowed, losses>>
    BY <1>1 DEF QueueCommits
  <2> QED
    BY <2>1, <2>2 DEF DurableTypeOK, StoreTypeOK
<1>2. CASE QueueAborts
  <2>1. queue' \in [open : BOOLEAN, save : Task]
    BY <1>2 DEF QueueAborts, DurableTypeOK
  <2>2. wf' \in Workflow
    <3>1. \A i \in 0..MaxRuns : (IF i = latest + 1 THEN 0 ELSE i) \in 0..MaxRuns
      BY DurableBounds
    <3>2. wf \in Workflow /\ wf.run \in 0..MaxRuns
      BY DEF DurableTypeOK, Workflow
    <3> QED
      BY <1>2, <3>1, <3>2, WorkflowFields DEF QueueAborts
  <2>3. at' \in [Workers -> Attempt]
    <3>1. ASSUME NEW v \in Workers
          PROVE  [at[v] EXCEPT !.run = IF @ = latest + 1 THEN 0 ELSE @] \in Attempt
      <4>1. at[v] \in Attempt /\ at[v].run \in 0..MaxRuns
        BY DEF DurableTypeOK, Attempt
      <4> QED
        BY <4>1, DurableBounds, AttemptFields
    <3> QED
      BY <1>2, <3>1 DEF QueueAborts
  <2>4. UNCHANGED <<task, runs, latest, approvals, asked, asking, resumed, acts, allowed, losses>>
    BY <1>2 DEF QueueAborts, store
  <2> QED
    BY <2>1, <2>2, <2>3, <2>4 DEF DurableTypeOK, StoreTypeOK
<1>3. CASE ResumeChecks
  BY <1>3, DurableBounds DEF ResumeChecks, DurableTypeOK, StoreTypeOK, store
<1>4. CASE ResumeStarts
  <2>1. wf' \in Workflow
    BY <1>4, StartTypes DEF ResumeStarts, DurableTypeOK
  <2>2. resumed' \in 0..MaxRuns
    BY <1>4, DurableBounds DEF ResumeStarts
  <2> QED
    BY <1>4, <2>1, <2>2 DEF ResumeStarts, DurableTypeOK, StoreTypeOK, store
<1> QED
  BY <1>1, <1>2, <1>3, <1>4

LEMMA ReachedTypes ==
  ASSUME DurableTypeOK, NEW i \in RunId, NEW call, Reached(i, call)
  PROVE  acts' \in [RunId -> [Calls -> 0..2]]
<1>1. acts[i] \in [Calls -> 0..2]
  BY DEF DurableTypeOK
<1>2. ASSUME NEW f \in [Calls -> 0..2]
      PROVE  [f EXCEPT ![call] = IF @ < 2 THEN @ + 1 ELSE @] \in [Calls -> 0..2]
  <2>1. \A n \in 0..2 : (IF n < 2 THEN n + 1 ELSE n) \in 0..2
    OBVIOUS
  <2>2. CASE call \in Calls
    BY <2>1, <2>2
  <2>3. CASE call \notin Calls
    BY <2>3
  <2> QED
    BY <2>2, <2>3
<1>3. acts' = [acts EXCEPT ![i] = [acts[i] EXCEPT ![call] = IF @ < 2 THEN @ + 1 ELSE @]]
  BY DEF Reached
<1> QED
  BY <1>1, <1>2, <1>3 DEF DurableTypeOK

LEMMA AttemptMovesTypes ==
  ASSUME DurableTypeOK, NEW w \in Workers,
         StartAttempt(w) \/ Reports(w) \/ TimesOut(w) \/ Dies(w) \/ Missing(w)
  PROVE  DurableTypeOK'
<1>0. wf \in Workflow /\ wf.run \in 0..MaxRuns /\ at \in [Workers -> Attempt]
  BY DEF DurableTypeOK, Workflow
<1>1. at' \in [Workers -> Attempt]
  BY <1>0, RestingTypes DEF StartAttempt, Reports, TimesOut, Dies, Missing
<1>2. wf' \in Workflow
  <2>1. CASE StartAttempt(w)
    BY <1>0, <2>1, WorkflowFields DEF StartAttempt
  <2>2. CASE Reports(w) \/ TimesOut(w) \/ Dies(w) \/ Missing(w)
    BY <1>0, <2>2, WorkflowTypes DEF Reports, TimesOut, Dies, Missing
  <2> QED
    BY <2>1, <2>2
<1>3. acts' \in [RunId -> [Calls -> 0..2]]
  <2>1. CASE UNCHANGED acts
    BY <2>1 DEF DurableTypeOK
  <2>2. CASE \E i \in RunId : \E call : Reached(i, call)
    BY <2>2, ReachedTypes
  <2> QED
    BY <2>1, <2>2 DEF StartAttempt, Reports, TimesOut, Dies, Missing
<1>4. losses' \in 0..MaxLosses
  BY DurableBounds DEF StartAttempt, Reports, TimesOut, Dies, Missing, DurableTypeOK, others
<1>5. UNCHANGED <<task, runs, latest, approvals, asked, queue, asking, resumed, allowed>>
  BY DEF StartAttempt, Reports, TimesOut, Dies, Missing, others, store
<1> QED
  BY <1>1, <1>2, <1>3, <1>4, <1>5 DEF DurableTypeOK, StoreTypeOK

LEMMA DoneMoves ==
  ASSUME DurableTypeOK, NEW w \in Workers, NEW i \in RunId,
         runs' \in [RunId -> Run], Done(w, i)
  PROVE  /\ at' \in [Workers -> Attempt]
         /\ at'[w].pc = "reports" /\ at'[w].run = at[w].run /\ at'[w].phase = runs'[i].phase
         /\ \A v \in Workers : v # w => at'[v] = at[v]
         /\ UNCHANGED <<latest, queue, wf, asking, resumed, losses>>
<1> DEFINE phase == runs'[i].phase
<1>1. phase \in RunPhase
  BY DEF Run
<1>2. at[w] \in Attempt
  BY DEF DurableTypeOK
<1>3. at' = [at EXCEPT ![w] = [at[w] EXCEPT !.pc = "reports", !.phase = phase]]
  BY <1>2 DEF Done, Answer, DurableTypeOK
<1> HIDE DEF phase
<1>4. [at[w] EXCEPT !.pc = "reports", !.phase = phase] \in Attempt
  BY <1>1, <1>2, AttemptFields
<1>5. /\ [at[w] EXCEPT !.pc = "reports", !.phase = phase].pc = "reports"
      /\ [at[w] EXCEPT !.pc = "reports", !.phase = phase].run = at[w].run
      /\ [at[w] EXCEPT !.pc = "reports", !.phase = phase].phase = phase
  BY <1>2 DEF Attempt
<1>6. UNCHANGED <<latest, queue, wf, asking, resumed, losses>>
  BY DEF Done, others
<1> QED
  BY <1>3, <1>4, <1>5, <1>6 DEF DurableTypeOK, phase

LEMMA BeginMoves ==
  ASSUME DurableTypeOK, NEW w \in Workers, NEW i \in RunId, NEW by \in 0..MaxApprovals,
         Begins(w, i, by)
  PROVE  /\ at' \in [Workers -> Attempt] /\ runs' \in [RunId -> Run] /\ task' \in Task
         /\ at'[w].pc = "second" /\ at'[w].run = at[w].run /\ at'[w].call = runs[i].call
         /\ \A v \in Workers : v # w => at'[v] = at[v]
         /\ runs'[i].phase = "executing" /\ runs'[i].call = runs[i].call
         /\ OthersKept(i) /\ task'.status = "running"
         /\ UNCHANGED <<latest, queue, wf, asking, resumed, losses>>
<1> DEFINE call == runs[i].call
<1>1. StoreTypeOK /\ runs[i] \in Run /\ Executing(runs[i]) \in Run /\ call \in Nat
  BY CheckpointTypes DEF DurableTypeOK, StoreTypeOK, Run
<1>2. /\ runs' \in [RunId -> Run] /\ task' \in Task
      /\ runs'[i] = Executing(runs[i]) /\ OthersKept(i)
      /\ task'.status = StatusOf(Executing(runs[i]).phase)
  BY <1>1, SaveTypes, SaveWrites DEF Begins
<1>3. runs'[i].phase = "executing" /\ runs'[i].call = runs[i].call /\ task'.status = "running"
  BY <1>1, <1>2, CheckpointFields DEF StatusOf
<1>4. at[w] \in Attempt
  BY DEF DurableTypeOK
<1>5. at' = [at EXCEPT ![w] = [at[w] EXCEPT !.pc = "second", !.call = call, !.by = by]]
  BY <1>4 DEF Begins, DurableTypeOK
<1> HIDE DEF call
<1>6. [at[w] EXCEPT !.pc = "second", !.call = call, !.by = by] \in Attempt
  BY <1>1, <1>4, AttemptFields
<1>7. /\ [at[w] EXCEPT !.pc = "second", !.call = call, !.by = by].pc = "second"
      /\ [at[w] EXCEPT !.pc = "second", !.call = call, !.by = by].run = at[w].run
      /\ [at[w] EXCEPT !.pc = "second", !.call = call, !.by = by].call = call
  BY <1>4 DEF Attempt
<1>8. UNCHANGED <<latest, queue, wf, asking, resumed, losses>>
  BY DEF Begins, others
<1> QED
  BY <1>2, <1>3, <1>5, <1>6, <1>7, <1>8 DEF DurableTypeOK, call

\* A run ends failed: what a unit does that may not go on.
LEMMA FailsWrites ==
  ASSUME DurableTypeOK, NEW i \in RunId, Fails(i)
  PROVE  /\ runs' \in [RunId -> Run] /\ task' \in Task
         /\ runs'[i].phase = "failed" /\ OthersKept(i) /\ task'.status = "failed"
<1>1. StoreTypeOK /\ runs[i] \in Run
  BY DEF DurableTypeOK, StoreTypeOK
<1>2. EndedAs(runs[i], "failed") \in Run /\ EndedAs(runs[i], "failed").phase = "failed"
  BY <1>1, CheckpointTypes, CheckpointFields DEF Ended
<1> QED
  BY <1>1, <1>2, SaveTypes, SaveWrites DEF Fails, StatusOf

LEMMA PauseAsks ==
  ASSUME StoreTypeOK, NEW i \in RunId, NEW r \in Run, PauseForApproval(i, r)
  PROVE  /\ runs'[i].phase = "waiting_approval" /\ runs'[i].call = r.call
         /\ AsksFor(i) /\ OthersKept(i) /\ task'.status = "waiting_approval"
<1>1. /\ asked' = asked + 1 /\ asked + 1 \in ApprovalId
      /\ runs'[i].approval = asked + 1
      /\ approvals'[asked + 1] = [status |-> "pending", run |-> i, call |-> r.call,
                                  lapsed |-> FALSE]
  BY PauseWrites
<1>2. approvals'[asked + 1].run = i
  BY <1>1
<1>3. AsksFor(i)
  BY <1>1, <1>2 DEF AsksFor
<1> QED
  BY <1>3, PauseWrites

-----------------------------------------------------------------------------
(* What each unit of an attempt does: the store it leaves, and its kind *)

\* A unit writes run i alone, and reports what it wrote.
ReportsUnit(w, i) ==
  /\ at'[w].pc = "reports" /\ at'[w].run = i /\ at'[w].phase = runs'[i].phase
  /\ \A v \in Workers : v # w => at'[v] = at[v]
  /\ OthersKept(i)
  /\ UNCHANGED <<latest, queue, wf, asking, resumed, losses>>

LEMMA StoppedUnit ==
  ASSUME DurableTypeOK, NEW w \in Workers, NEW i \in RunId,
         First(w, i),
         \/ /\ Stopped(i)
            /\ runs' = IF runs[i].phase = "cancelled" THEN runs
                       ELSE [runs EXCEPT ![i] = EndedAs(runs[i], "cancelled")]
         \/ runs[i].phase \in {"completed", "failed"} /\ UNCHANGED runs,
         Done(w, i), UNCHANGED <<task, approvals, asked, acts, allowed>>
  PROVE  /\ DurableTypeOK' /\ ReportsUnit(w, i) /\ runs'[i].phase \in Ended
<1>1. EndedAs(runs[i], "cancelled") \in Run /\ EndedAs(runs[i], "cancelled").phase = "cancelled"
  BY CheckpointTypes, CheckpointFields DEF DurableTypeOK, StoreTypeOK, Ended
<1>2. runs' \in [RunId -> Run] /\ OthersKept(i) /\ runs'[i].phase \in Ended
  BY <1>1 DEF DurableTypeOK, StoreTypeOK, OthersKept, Ended
<1>3. at' \in [Workers -> Attempt] /\ ReportsUnit(w, i)
  BY <1>2, DoneMoves DEF First, ReportsUnit
<1> QED
  BY <1>2, <1>3 DEF DurableTypeOK, StoreTypeOK, ReportsUnit

LEMMA PlansUnit ==
  ASSUME Bounded, NEW w \in Workers, NEW i \in RunId,
         First(w, i), runs[i].phase = "planning",
         \/ /\ \E r \in {runs[i], Proposed(runs[i])} : Save(i, EndedAs(r, "failed"))
            /\ KeepApprovals
         \/ PauseForApproval(i, Proposed(runs[i]))
         \/ Save(i, Proposed(runs[i])) /\ KeepApprovals,
         Done(w, i), UNCHANGED <<acts, allowed>>
  PROVE  /\ DurableTypeOK' /\ ReportsUnit(w, i)
         /\ runs'[i].phase \in {"failed", "waiting_approval", "tool_ready"}
         /\ runs'[i].phase # "failed" => runs'[i].call = runs[i].call + 1
         /\ runs'[i].phase = "waiting_approval" => AsksFor(i)
         /\ task'.status = StatusOf(runs'[i].phase)
         /\ KeepApprovals \/ PauseForApproval(i, Proposed(runs[i]))
<1>1. StoreTypeOK /\ runs[i] \in Run /\ Proposed(runs[i]) \in Run
  BY CheckpointTypes DEF Bounded, DurableTypeOK, StoreTypeOK
<1> DEFINE Written ==
      /\ runs' \in [RunId -> Run] /\ task' \in Task
      /\ approvals' \in [ApprovalId -> Approval] /\ asked' \in 0..MaxApprovals
      /\ OthersKept(i)
      /\ runs'[i].phase \in {"failed", "waiting_approval", "tool_ready"}
      /\ runs'[i].phase # "failed" => runs'[i].call = runs[i].call + 1
      /\ runs'[i].phase = "waiting_approval" => AsksFor(i)
      /\ task'.status = StatusOf(runs'[i].phase)
      /\ KeepApprovals \/ PauseForApproval(i, Proposed(runs[i]))
<1>2. ASSUME NEW r \in {runs[i], Proposed(runs[i])}, Save(i, EndedAs(r, "failed")), KeepApprovals
      PROVE  Written
  <2>1. EndedAs(r, "failed") \in Run /\ EndedAs(r, "failed").phase = "failed"
    BY <1>1, CheckpointTypes, CheckpointFields DEF Ended
  <2> QED
    BY <1>1, <1>2, <2>1, SaveTypes, SaveWrites DEF KeepApprovals, StoreTypeOK
<1>3. ASSUME PauseForApproval(i, Proposed(runs[i])) PROVE Written
  <2>1. Proposed(runs[i]).call = runs[i].call + 1
    BY <1>1, ProposedFields
  <2>2. /\ runs'[i].phase = "waiting_approval" /\ runs'[i].call = runs[i].call + 1
        /\ AsksFor(i) /\ OthersKept(i) /\ task'.status = "waiting_approval"
    BY <1>1, <1>3, <2>1, PauseAsks
  <2>3. StatusOf("waiting_approval") = "waiting_approval"
    BY DEF StatusOf
  <2> QED
    BY <1>1, <1>3, <2>2, <2>3, PauseTypes
<1>4. ASSUME Save(i, Proposed(runs[i])), KeepApprovals PROVE Written
  BY <1>1, <1>4, ProposedFields, SaveTypes, SaveWrites DEF KeepApprovals, StoreTypeOK
<1>5. Written
  BY <1>2, <1>3, <1>4
<1>6. at' \in [Workers -> Attempt] /\ ReportsUnit(w, i)
  BY <1>5, DoneMoves DEF First, ReportsUnit, Bounded
<1> QED
  BY <1>5, <1>6 DEF DurableTypeOK, StoreTypeOK, ReportsUnit, Bounded

\* Everything a unit that reports leaves of an attempt, and of the task row.
LEMMA UnitTypes ==
  ASSUME DurableTypeOK, NEW w \in Workers, NEW i \in RunId, at[w].run = i,
         Done(w, i), runs' \in [RunId -> Run], task' \in Task,
         approvals' \in [ApprovalId -> Approval], asked' \in 0..MaxApprovals,
         acts' \in [RunId -> [Calls -> 0..2]], allowed' = allowed, OthersKept(i)
  PROVE  DurableTypeOK' /\ ReportsUnit(w, i)
BY DoneMoves DEF DurableTypeOK, StoreTypeOK, ReportsUnit

LEMMA ReadyUnit ==
  ASSUME Bounded, NEW w \in Workers, NEW i \in RunId, i <= latest,
         First(w, i), runs[i].phase = "tool_ready",
         \/ Fails(i) /\ KeepApprovals /\ Done(w, i) /\ UNCHANGED allowed
         \/ PauseForApproval(i, runs[i]) /\ Done(w, i) /\ UNCHANGED allowed
         \/ /\ Begins(w, i, 0) /\ KeepApprovals
            /\ allowed' = allowed \cup {<<i, runs[i].call>>},
         UNCHANGED acts
  PROVE  /\ DurableTypeOK' /\ task'.status = StatusOf(runs'[i].phase)
         /\ \/ ReportsUnit(w, i) /\ runs'[i].phase = "failed" /\ KeepApprovals
            \/ ReportsUnit(w, i) /\ Pauses(i) /\ PauseForApproval(i, runs[i])
            \/ /\ BeginsUnit(w, i) /\ KeepApprovals /\ <<i, runs[i].call>> \in allowed'
               /\ UNCHANGED <<queue, wf, resumed>>
         /\ allowed \subseteq allowed'
<1>1. /\ StoreTypeOK /\ runs[i] \in Run /\ DurableTypeOK
      /\ acts \in [RunId -> [Calls -> 0..2]] /\ 0 \in 0..MaxApprovals
      /\ at[w].run = i /\ at[w].pc = "first"
  BY DurableBounds DEF Bounded, DurableTypeOK, StoreTypeOK, First
<1>2. CASE Fails(i) /\ KeepApprovals /\ Done(w, i) /\ UNCHANGED allowed
  <2>1. /\ runs' \in [RunId -> Run] /\ task' \in Task
        /\ runs'[i].phase = "failed" /\ OthersKept(i) /\ task'.status = "failed"
    BY <1>1, <1>2, FailsWrites
  <2>2. approvals' \in [ApprovalId -> Approval] /\ asked' \in 0..MaxApprovals
    BY <1>1, <1>2 DEF KeepApprovals, StoreTypeOK
  <2> QED
    BY <1>1, <1>2, <2>1, <2>2, UnitTypes DEF StatusOf
<1>3. CASE PauseForApproval(i, runs[i]) /\ Done(w, i) /\ UNCHANGED allowed
  <2>1. /\ runs'[i].phase = "waiting_approval" /\ runs'[i].call = runs[i].call
        /\ AsksFor(i) /\ OthersKept(i) /\ task'.status = "waiting_approval"
    BY <1>1, <1>3, PauseAsks
  <2>2. Pauses(i)
    BY <2>1 DEF Pauses
  <2>3. DurableTypeOK' /\ ReportsUnit(w, i)
    BY <1>1, <1>3, <2>1, PauseTypes, UnitTypes
  <2> QED
    BY <1>3, <2>1, <2>2, <2>3 DEF StatusOf
<1>4. CASE /\ Begins(w, i, 0) /\ KeepApprovals
           /\ allowed' = allowed \cup {<<i, runs[i].call>>}
  <2>1. /\ at' \in [Workers -> Attempt] /\ runs' \in [RunId -> Run] /\ task' \in Task
        /\ at'[w].pc = "second" /\ at'[w].run = at[w].run /\ at'[w].call = runs[i].call
        /\ \A v \in Workers : v # w => at'[v] = at[v]
        /\ runs'[i].phase = "executing" /\ runs'[i].call = runs[i].call
        /\ OthersKept(i) /\ task'.status = "running"
        /\ UNCHANGED <<latest, queue, wf, asking, resumed, losses>>
    BY <1>1, <1>4, BeginMoves
  <2>2. BeginsUnit(w, i)
    BY <1>1, <2>1 DEF BeginsUnit, Starts
  <2>3. runs[i].call \in Calls
    <3>1. runs[i].call \in Nat /\ runs[i].call >= 1 /\ runs[i].call <= asked + 1
      BY <1>1, EndedIsNotOpen DEF Run, Bounded, CallsCounted, Counted
    <3> QED
      BY <1>1, <3>1, DurableBounds DEF Calls, StoreTypeOK
  <2>4. allowed' \subseteq RunId \X Calls
    BY <1>4, <2>3 DEF Bounded, DurableTypeOK
  <2>5. DurableTypeOK'
    BY <1>1, <1>4, <2>1, <2>4 DEF Bounded, DurableTypeOK, StoreTypeOK, KeepApprovals
  <2>6. task'.status = StatusOf(runs'[i].phase)
    BY <2>1 DEF StatusOf
  <2> QED
    BY <1>4, <2>1, <2>2, <2>5, <2>6
<1> QED
  BY <1>2, <1>3, <1>4

LEMMA WaitingUnit ==
  ASSUME Bounded, NEW w \in Workers, NEW i \in RunId, NEW a \in ApprovalId, i <= latest,
         First(w, i), runs[i].phase = "waiting_approval", a = runs[i].approval,
         \/ /\ approvals[a].status = "pending" /\ ~approvals[a].lapsed
            /\ UNCHANGED <<runs, task, approvals>> /\ Done(w, i)
         \/ /\ approvals[a].status = "pending" /\ approvals[a].lapsed
            /\ Decided(a, "expired") /\ Fails(i) /\ Done(w, i)
         \/ /\ approvals[a].status # "pending"
            /\ Fails(i) /\ Done(w, i) /\ UNCHANGED approvals
         \/ /\ approvals[a].status # "pending" /\ Lets(a, i)
            /\ Begins(w, i, a) /\ UNCHANGED approvals,
         UNCHANGED <<asked, acts, allowed>>
  PROVE  /\ DurableTypeOK'
         /\ \/ ReportsUnit(w, i) /\ UNCHANGED <<runs, task, approvals>>
            \/ /\ ReportsUnit(w, i) /\ runs'[i].phase = "failed" /\ task'.status = "failed"
               /\ \/ approvals[a].status = "pending" /\ Decided(a, "expired")
                  \/ approvals[a].status # "pending" /\ UNCHANGED approvals
            \/ /\ BeginsUnit(w, i) /\ Lets(a, i) /\ UNCHANGED <<approvals, queue, wf, resumed>>
               /\ task'.status = "running"
<1>1. /\ StoreTypeOK /\ runs[i] \in Run /\ DurableTypeOK
      /\ acts' \in [RunId -> [Calls -> 0..2]] /\ a \in 0..MaxApprovals
      /\ at[w].run = i /\ at[w].pc = "first" /\ asked' \in 0..MaxApprovals
  BY DurableBounds DEF Bounded, DurableTypeOK, StoreTypeOK, First
<1>2. ASSUME UNCHANGED <<runs, task, approvals>>, Done(w, i)
      PROVE  DurableTypeOK' /\ ReportsUnit(w, i)
  BY <1>1, <1>2, UnitTypes DEF StoreTypeOK, OthersKept
<1>3. ASSUME Fails(i), Done(w, i), Decided(a, "expired") \/ UNCHANGED approvals
      PROVE  /\ DurableTypeOK' /\ ReportsUnit(w, i)
             /\ runs'[i].phase = "failed" /\ task'.status = "failed"
  <2>1. approvals' \in [ApprovalId -> Approval]
    BY <1>1, <1>3, DecidedTypes DEF StoreTypeOK, ApprovalStatus
  <2> QED
    BY <1>1, <1>3, <2>1, FailsWrites, UnitTypes
<1>4. ASSUME Begins(w, i, a), UNCHANGED approvals
      PROVE  /\ DurableTypeOK' /\ BeginsUnit(w, i) /\ UNCHANGED <<queue, wf, resumed>>
             /\ task'.status = "running"
  <2>1. /\ at' \in [Workers -> Attempt] /\ runs' \in [RunId -> Run] /\ task' \in Task
        /\ at'[w].pc = "second" /\ at'[w].run = at[w].run /\ at'[w].call = runs[i].call
        /\ \A v \in Workers : v # w => at'[v] = at[v]
        /\ runs'[i].phase = "executing" /\ runs'[i].call = runs[i].call
        /\ OthersKept(i) /\ task'.status = "running"
        /\ UNCHANGED <<latest, queue, wf, asking, resumed, losses>>
    BY <1>1, <1>4, BeginMoves
  <2>2. BeginsUnit(w, i)
    BY <1>1, <2>1 DEF BeginsUnit, Starts
  <2>3. DurableTypeOK'
    BY <1>1, <1>4, <2>1 DEF DurableTypeOK, StoreTypeOK
  <2> QED
    BY <2>1, <2>2, <2>3
<1> QED
  BY <1>2, <1>3, <1>4

LEMMA RecoversUnit ==
  ASSUME Bounded, NEW w \in Workers, NEW i \in RunId, i <= latest,
         First(w, i), runs[i].phase = "executing",
         \/ Fails(i) /\ UNCHANGED <<approvals, asked, acts>>
         \/ /\ Recoverable(i) /\ Reached(i, runs[i].call)
            /\ \E outcome \in {"succeeded", "failed"} :
                 SettleOutcome(i, [runs[i] EXCEPT !.version = @ + 1], outcome),
         Done(w, i), UNCHANGED allowed
  PROVE  /\ DurableTypeOK' /\ ReportsUnit(w, i) /\ KeepApprovals
         /\ runs'[i].phase \in {"completed", "failed"} /\ task'.status = runs'[i].phase
         /\ acts' = acts \/ (i \in Idempotent /\ Reached(i, runs[i].call))
<1>1. /\ StoreTypeOK /\ runs[i] \in Run /\ DurableTypeOK /\ at[w].run = i
      /\ [runs[i] EXCEPT !.version = @ + 1] \in Run
  BY RunFields DEF Bounded, DurableTypeOK, StoreTypeOK, First
<1> DEFINE r == [runs[i] EXCEPT !.version = @ + 1]
<1>2. CASE Fails(i) /\ UNCHANGED <<approvals, asked, acts>>
  <2>1. /\ approvals' \in [ApprovalId -> Approval] /\ asked' \in 0..MaxApprovals
        /\ acts' \in [RunId -> [Calls -> 0..2]]
    BY <1>1, <1>2 DEF DurableTypeOK, StoreTypeOK
  <2> QED
    BY <1>1, <1>2, <2>1, FailsWrites, UnitTypes DEF KeepApprovals
<1>3. ASSUME Recoverable(i), Reached(i, runs[i].call), NEW outcome \in {"succeeded", "failed"},
             SettleOutcome(i, r, outcome)
      PROVE  /\ DurableTypeOK' /\ ReportsUnit(w, i) /\ KeepApprovals
             /\ runs'[i].phase \in {"completed", "failed"} /\ task'.status = runs'[i].phase
             /\ i \in Idempotent
  <2> HIDE DEF r
  <2>1. /\ KeepApprovals /\ OthersKept(i)
        /\ \E phase \in {"completed", "failed"} :
             runs'[i].phase = phase /\ task'.status = phase
    BY <1>1, <1>3, SettleWrites DEF r
  <2>2. UNCHANGED latest
    BY DEF Done
  <2>3. StoreTypeOK'
    BY <1>1, <1>3, <2>2, SettleTypes DEF r
  <2>4. acts' \in [RunId -> [Calls -> 0..2]]
    BY <1>1, <1>3, ReachedTypes
  <2>5. DurableTypeOK' /\ ReportsUnit(w, i)
    BY <1>1, <2>1, <2>3, <2>4, UnitTypes DEF StoreTypeOK
  <2> QED
    BY <1>3, <2>1, <2>5 DEF Recoverable, Repeatable
<1> HIDE DEF r
<1> QED
  BY <1>2, <1>3 DEF r

LEMMA SecondUnit ==
  ASSUME Bounded, NEW w \in Workers, NEW i \in RunId, i <= latest,
         at[w].pc = "second", at[w].run = i, runs[i].phase = "executing",
         \/ /\ Reached(i, at[w].call)
            /\ \E outcome \in {"succeeded", "failed", "paused"} :
                 /\ outcome = "paused" => ~Repeatable(i)
                 /\ SettleOutcome(i, runs[i], outcome)
         \/ SettleOutcome(i, runs[i], "failed") /\ UNCHANGED acts,
         Done(w, i), UNCHANGED allowed
  PROVE  /\ DurableTypeOK' /\ ReportsUnit(w, i) /\ WorksUnit(w, i)
         /\ \/ /\ runs'[i].phase \in {"completed", "failed"} /\ KeepApprovals
               /\ task'.status = runs'[i].phase
            \/ PauseForApproval(i, Proposed(runs[i])) /\ Proposes(i)
<1>1. /\ StoreTypeOK /\ runs[i] \in Run /\ DurableTypeOK
      /\ Proposed(runs[i]) \in Run /\ Proposed(runs[i]).call = runs[i].call + 1
  BY CheckpointTypes, ProposedFields DEF Bounded, DurableTypeOK, StoreTypeOK
<1>2. UNCHANGED latest
  BY DEF Done
<1>3. acts' = acts \/ Reached(i, at[w].call)
  OBVIOUS
<1>4. acts' \in [RunId -> [Calls -> 0..2]]
  BY <1>1, <1>3, ReachedTypes DEF DurableTypeOK
<1> PICK outcome : SettleOutcome(i, runs[i], outcome)
  OBVIOUS
<1>5. StoreTypeOK'
  BY <1>1, <1>2, SettleTypes
<1>6. CASE KeepApprovals /\ OthersKept(i) /\ \E phase \in {"completed", "failed"} :
             runs'[i].phase = phase /\ task'.status = phase
  <2>1. DurableTypeOK' /\ ReportsUnit(w, i)
    BY <1>1, <1>4, <1>5, <1>6, UnitTypes DEF StoreTypeOK
  <2>2. WorksUnit(w, i)
    BY <1>2, <1>3, <1>6, <2>1 DEF WorksUnit, ReportsUnit, Ends, Ended
  <2> QED
    BY <1>6, <2>1, <2>2
<1>7. CASE PauseForApproval(i, Proposed(runs[i]))
  <2>1. /\ runs'[i].phase = "waiting_approval" /\ runs'[i].call = runs[i].call + 1
        /\ AsksFor(i) /\ OthersKept(i)
    BY <1>1, <1>7, PauseAsks
  <2>2. DurableTypeOK' /\ ReportsUnit(w, i)
    BY <1>1, <1>4, <1>5, <2>1, UnitTypes DEF StoreTypeOK
  <2>3. Proposes(i)
    BY <2>1 DEF Proposes
  <2>4. WorksUnit(w, i)
    BY <1>2, <1>3, <2>1, <2>2, <2>3 DEF WorksUnit, ReportsUnit
  <2> QED
    BY <1>7, <2>2, <2>3, <2>4
<1> QED
  BY <1>1, <1>6, <1>7, SettleWrites

-----------------------------------------------------------------------------
(* Every step is of one of three kinds *)

LEMMA ReachedOnly ==
  ASSUME DurableTypeOK, NEW i \in RunId, NEW call, Reached(i, call)
  PROVE  /\ \A j \in RunId, c \in Calls : acts'[j][c] # acts[j][c] => j = i /\ c = call
         /\ \A c \in Calls : acts'[i][c] \in Nat /\ acts'[i][c] <= acts[i][c] + 1
<1>1. acts[i] \in [Calls -> 0..2] /\ DOMAIN acts = RunId
  BY DEF DurableTypeOK
<1>2. acts' = [acts EXCEPT ![i] = [acts[i] EXCEPT ![call] = IF @ < 2 THEN @ + 1 ELSE @]]
  BY DEF Reached
<1>3. \A j \in RunId : j # i => acts'[j] = acts[j]
  BY <1>1, <1>2
<1>4. acts'[i] = [acts[i] EXCEPT ![call] = IF @ < 2 THEN @ + 1 ELSE @]
  BY <1>1, <1>2
<1>5. ASSUME NEW f \in [Calls -> 0..2], NEW g,
             g = [f EXCEPT ![call] = IF @ < 2 THEN @ + 1 ELSE @]
      PROVE  \A c \in Calls : /\ c # call => g[c] = f[c]
                              /\ g[c] \in Nat /\ g[c] <= f[c] + 1
  BY <1>5
<1> QED
  BY <1>1, <1>3, <1>4, <1>5

\* The call that starts was let through, or approved by a person.
Authority(i) ==
  \/ <<i, runs[i].call>> \in allowed'
  \/ /\ runs[i].phase = "waiting_approval" /\ runs[i].approval \in ApprovalId
     /\ Lets(runs[i].approval, i)

Kind ==
  \/ Rests
  \/ \E w \in Workers, i \in RunId :
       (BeginsUnit(w, i) /\ Authority(i)) \/ WorksUnit(w, i)

\* What the transaction that queues a run, the workflow and the attempts name.
AttemptsFollow ==
  \A v \in Workers :
    \/ at'[v] = at[v] \/ at'[v].run = 0
    \/ at'[v].pc = "first" /\ at'[v].run = wf.run
    \/ at'[v].run = at[v].run /\ (Unlocked \/ at[v].pc # "first")

NoTransaction ==
  /\ UNCHANGED <<latest, queue>>
  /\ wf'.run = wf.run \/ wf'.run = resumed
  /\ resumed' <= latest \/ resumed' = resumed
  /\ AttemptsFollow

Opens ==
  /\ Unlocked /\ latest < MaxRuns /\ queue'.open
  /\ UNCHANGED <<latest, at, resumed>>
  /\ wf'.run = wf.run \/ wf'.run = latest + 1

Closes ==
  /\ queue.open /\ ~queue'.open /\ UNCHANGED resumed
  /\ \/ latest' = latest + 1 /\ UNCHANGED <<wf, at>>
     \/ /\ latest' = latest
        /\ wf'.run = (IF wf.run = latest + 1 THEN 0 ELSE wf.run)
        /\ \A v \in Workers : at'[v].run = IF at[v].run = latest + 1 THEN 0 ELSE at[v].run

Books == NoTransaction \/ Opens \/ Closes

GoodStep == DurableTypeOK' /\ Kind /\ DecisionsStand /\ Books

LEMMA UnitRests ==
  ASSUME DurableTypeOK, NEW w \in Workers, NEW i \in RunId, at[w].run = i,
         Unlocked \/ at[w].pc # "first",
         ReportsUnit(w, i),
         Kept(i) \/ Ends(i) \/ Pauses(i) \/ (Proposes(i) /\ runs[i].phase = "planning"),
         \/ acts' = acts
         \/ i \in Idempotent /\ runs[i].phase = "executing" /\ Reached(i, runs[i].call)
  PROVE  Rests /\ NoTransaction
<1>1. \A v \in Workers : at'[v].pc = "second" => at'[v] = at[v]
  BY DEF ReportsUnit
<1>2. \A j \in RunId :
        Kept(j) \/ Ends(j) \/ Born(j) \/ Pauses(j) \/ (Proposes(j) /\ runs[j].phase = "planning")
  BY DEF ReportsUnit, OthersKept, Kept
<1>3. \A j \in RunId, c \in Calls : acts'[j][c] # acts[j][c] =>
        j \in Idempotent /\ runs[j].phase = "executing" /\ runs[j].call = c
  BY ReachedOnly
<1>4. NoTransaction
  BY DEF NoTransaction, AttemptsFollow, ReportsUnit
<1> QED
  BY <1>1, <1>2, <1>3, <1>4 DEF Rests

\* Steps that leave the store, or write only the task row.
LEMMA QuietStep ==
  ASSUME DurableTypeOK,
         UNCHANGED <<runs, approvals, asked, acts, allowed>>,
         \A v \in Workers : at'[v].pc = "second" => at'[v] = at[v]
  PROVE  Rests /\ DecisionsStand
<1>1. asked <= asked'
  BY DurableBounds DEF DurableTypeOK, StoreTypeOK
<1> QED
  BY <1>1 DEF Rests, DecisionsStand, Kept

LEMMA KeptDecisions ==
  ASSUME StoreTypeOK, KeepApprovals, allowed \subseteq allowed'
  PROVE  DecisionsStand
<1>1. asked <= asked'
  BY DurableBounds DEF StoreTypeOK, KeepApprovals
<1> QED
  BY <1>1 DEF DecisionsStand, KeepApprovals

LEMMA PausedDecisions ==
  ASSUME StoreTypeOK, NEW i \in RunId, NEW r \in Run, PauseForApproval(i, r),
         allowed \subseteq allowed'
  PROVE  DecisionsStand
<1>0. asked' = asked + 1 /\ \A a \in ApprovalId : a # asked + 1 => approvals'[a] = approvals[a]
  BY PauseWrites
<1>1. asked \in Nat /\ asked <= asked'
  BY <1>0, DurableBounds DEF StoreTypeOK
<1>2. \A a \in 1..asked : a \in ApprovalId /\ a # asked + 1
  BY <1>1, DurableBounds DEF StoreTypeOK, ApprovalId
<1> QED
  BY <1>0, <1>1, <1>2 DEF DecisionsStand

LEMMA DecidedDecisions ==
  ASSUME StoreTypeOK, NEW a \in ApprovalId, approvals[a].status # "approved",
         NEW status, Decided(a, status), UNCHANGED <<asked, allowed>>
  PROVE  DecisionsStand
<1>1. asked <= asked'
  BY DurableBounds DEF StoreTypeOK
<1>2. \A b \in ApprovalId : /\ approvals'[b].run = approvals[b].run
                            /\ approvals'[b].call = approvals[b].call
                            /\ b # a => approvals'[b] = approvals[b]
  BY DEF StoreTypeOK, Decided, Approval
<1>3. \A b \in 1..asked : b \in ApprovalId
  BY DurableBounds DEF StoreTypeOK, ApprovalId
<1> QED
  BY <1>1, <1>2, <1>3 DEF DecisionsStand

-----------------------------------------------------------------------------
(* The invariant that places runs and attempts *)

Placed ==
  /\ Unborn
  /\ queue.open => latest < MaxRuns
  /\ wf.run <= Newest /\ resumed <= latest
  /\ \A w \in Workers : at[w].run <= IF at[w].pc = "first" THEN Newest ELSE latest

\* An attempt at work is at work on a run that exists.
LEMMA UnitIsPlaced ==
  ASSUME DurableTypeOK, Placed, NEW w \in Workers, NEW i \in RunId, at[w].run = i,
         Unlocked \/ at[w].pc = "second"
  PROVE  i <= latest
BY DEF Placed, Newest, Unlocked

LEMMA FirstUnitSteps ==
  ASSUME Bounded, Placed, NEW w \in Workers,
         \/ AdvanceStopped(w) \/ AdvanceEnded(w) \/ AdvancePlans(w)
         \/ AdvanceReady(w) \/ AdvanceWaiting(w) \/ AdvanceRecovers(w)
  PROVE  GoodStep
<1>0. DurableTypeOK /\ StoreTypeOK /\ \A i \in RunId : runs[i] \in Run /\ Proposed(runs[i]) \in Run
  BY CheckpointTypes DEF Bounded, DurableTypeOK, StoreTypeOK
<1> PICK i \in RunId : First(w, i) /\
       \/ /\ Stopped(i) /\ Done(w, i)
          /\ runs' = IF runs[i].phase = "cancelled" THEN runs
                     ELSE [runs EXCEPT ![i] = EndedAs(runs[i], "cancelled")]
          /\ UNCHANGED <<task, approvals, asked, acts, allowed>>
       \/ /\ runs[i].phase \in {"completed", "failed"} /\ UNCHANGED runs /\ Done(w, i)
          /\ UNCHANGED <<task, approvals, asked, acts, allowed>>
       \/ AdvancePlans(w) \/ AdvanceReady(w) \/ AdvanceWaiting(w) \/ AdvanceRecovers(w)
  BY DEF AdvanceStopped, AdvanceEnded, AdvancePlans, AdvanceReady, AdvanceWaiting,
         AdvanceRecovers
<1>1. /\ at[w].run = i /\ at[w].pc = "first" /\ Unlocked /\ i <= latest
      /\ \A j \in RunId : First(w, j) => j = i
  BY <1>0, UnitIsPlaced DEF First
<1>2. ASSUME /\ Stopped(i) /\ Done(w, i)
             /\ runs' = IF runs[i].phase = "cancelled" THEN runs
                        ELSE [runs EXCEPT ![i] = EndedAs(runs[i], "cancelled")]
             /\ UNCHANGED <<task, approvals, asked, acts, allowed>>
      PROVE  GoodStep
  <2>1. DurableTypeOK' /\ ReportsUnit(w, i) /\ runs'[i].phase \in Ended
    BY <1>0, <1>2, StoppedUnit
  <2>2. Rests /\ NoTransaction /\ DecisionsStand
    BY <1>0, <1>1, <1>2, <2>1, UnitRests, KeptDecisions DEF Ends, KeepApprovals
  <2> QED
    BY <2>1, <2>2 DEF GoodStep, Kind, Books
<1>3. ASSUME /\ runs[i].phase \in {"completed", "failed"} /\ UNCHANGED runs /\ Done(w, i)
             /\ UNCHANGED <<task, approvals, asked, acts, allowed>>
      PROVE  GoodStep
  <2>1. DurableTypeOK' /\ ReportsUnit(w, i) /\ runs'[i].phase \in Ended
    BY <1>0, <1>3, StoppedUnit
  <2>2. Rests /\ NoTransaction /\ DecisionsStand
    BY <1>0, <1>1, <1>3, <2>1, UnitRests, KeptDecisions DEF Ends, KeepApprovals
  <2> QED
    BY <2>1, <2>2 DEF GoodStep, Kind, Books
<1>4. CASE AdvancePlans(w)
  <2>1. /\ DurableTypeOK' /\ ReportsUnit(w, i) /\ UNCHANGED <<acts, allowed>>
        /\ runs[i].phase = "planning"
        /\ runs'[i].phase \in {"failed", "waiting_approval", "tool_ready"}
        /\ runs'[i].phase # "failed" => runs'[i].call = runs[i].call + 1
        /\ runs'[i].phase = "waiting_approval" => AsksFor(i)
        /\ KeepApprovals \/ PauseForApproval(i, Proposed(runs[i]))
    BY <1>1, <1>4, PlansUnit DEF AdvancePlans
  <2>2. Ends(i) \/ (Proposes(i) /\ runs[i].phase = "planning")
    BY <1>1, <2>1 DEF Ends, Proposes, Ended
  <2>3. Rests /\ NoTransaction
    BY <1>0, <1>1, <2>1, <2>2, UnitRests
  <2>4. DecisionsStand
    BY <1>0, <2>1, KeptDecisions, PausedDecisions
  <2> QED
    BY <2>1, <2>3, <2>4 DEF GoodStep, Kind, Books
<1>5. CASE AdvanceReady(w)
  <2>1. /\ DurableTypeOK' /\ acts' = acts /\ allowed \subseteq allowed'
        /\ \/ ReportsUnit(w, i) /\ runs'[i].phase = "failed" /\ KeepApprovals
           \/ ReportsUnit(w, i) /\ Pauses(i) /\ PauseForApproval(i, runs[i])
           \/ /\ BeginsUnit(w, i) /\ KeepApprovals /\ <<i, runs[i].call>> \in allowed'
              /\ UNCHANGED <<queue, wf, resumed>>
    BY <1>1, <1>5, ReadyUnit DEF AdvanceReady
  <2>2. DecisionsStand
    BY <1>0, <2>1, KeptDecisions, PausedDecisions
  <2>3. CASE ReportsUnit(w, i) /\ (runs'[i].phase = "failed" \/ Pauses(i))
    <3>1. Rests /\ NoTransaction
      BY <1>0, <1>1, <2>1, <2>3, UnitRests DEF Ends, Ended
    <3> QED
      BY <2>1, <2>2, <3>1 DEF GoodStep, Kind, Books
  <2>4. CASE /\ BeginsUnit(w, i) /\ <<i, runs[i].call>> \in allowed'
             /\ UNCHANGED <<queue, wf, resumed>>
    <3>1. NoTransaction
      BY <1>1, <2>4 DEF NoTransaction, AttemptsFollow, BeginsUnit
    <3> QED
      BY <2>1, <2>2, <2>4, <3>1 DEF GoodStep, Kind, Books, Authority
  <2> QED
    BY <2>1, <2>3, <2>4
<1>6. CASE AdvanceWaiting(w)
  <2> PICK a \in ApprovalId :
         /\ runs[i].phase = "waiting_approval" /\ a = runs[i].approval
         /\ \/ /\ approvals[a].status = "pending" /\ ~approvals[a].lapsed
               /\ UNCHANGED <<runs, task, approvals>> /\ Done(w, i)
            \/ /\ approvals[a].status = "pending" /\ approvals[a].lapsed
               /\ Decided(a, "expired") /\ Fails(i) /\ Done(w, i)
            \/ /\ approvals[a].status # "pending"
               /\ Fails(i) /\ Done(w, i) /\ UNCHANGED approvals
            \/ /\ approvals[a].status # "pending" /\ Lets(a, i)
               /\ Begins(w, i, a) /\ UNCHANGED approvals
         /\ UNCHANGED <<asked, acts, allowed>>
    BY <1>1, <1>6 DEF AdvanceWaiting
  <2>1. /\ DurableTypeOK' /\ UNCHANGED <<asked, acts, allowed>>
        /\ \/ ReportsUnit(w, i) /\ UNCHANGED <<runs, task, approvals>>
           \/ /\ ReportsUnit(w, i) /\ runs'[i].phase = "failed"
              /\ \/ approvals[a].status = "pending" /\ Decided(a, "expired")
                 \/ UNCHANGED approvals
           \/ BeginsUnit(w, i) /\ Lets(a, i) /\ UNCHANGED <<approvals, queue, wf, resumed>>
    BY <1>1, WaitingUnit
  <2>2. DecisionsStand
    BY <1>0, <2>1, KeptDecisions, DecidedDecisions DEF KeepApprovals
  <2>3. CASE ReportsUnit(w, i) /\ (Kept(i) \/ runs'[i].phase = "failed")
    <3>1. Rests /\ NoTransaction
      BY <1>0, <1>1, <2>1, <2>3, UnitRests DEF Ends, Ended
    <3> QED
      BY <2>1, <2>2, <3>1 DEF GoodStep, Kind, Books
  <2>4. CASE BeginsUnit(w, i) /\ Lets(a, i) /\ UNCHANGED <<approvals, queue, wf, resumed>>
    <3>1. NoTransaction
      BY <1>1, <2>4 DEF NoTransaction, AttemptsFollow, BeginsUnit
    <3> QED
      BY <2>1, <2>2, <2>4, <3>1 DEF GoodStep, Kind, Books, Authority
  <2> QED
    BY <2>1, <2>3, <2>4 DEF Kept
<1>7. CASE AdvanceRecovers(w)
  <2>1. /\ DurableTypeOK' /\ ReportsUnit(w, i) /\ KeepApprovals /\ allowed' = allowed
        /\ runs[i].phase = "executing" /\ runs'[i].phase \in {"completed", "failed"}
        /\ acts' = acts \/ (i \in Idempotent /\ Reached(i, runs[i].call))
    BY <1>1, <1>7, RecoversUnit DEF AdvanceRecovers
  <2>2. Rests /\ NoTransaction /\ DecisionsStand
    BY <1>0, <1>1, <2>1, UnitRests, KeptDecisions DEF Ends, Ended
  <2> QED
    BY <2>1, <2>2 DEF GoodStep, Kind, Books
<1> QED
  BY <1>2, <1>3, <1>4, <1>5, <1>6, <1>7

LEMMA SecondUnitSteps ==
  ASSUME Bounded, Placed, NEW w \in Workers, SecondSkips(w) \/ SecondSettles(w)
  PROVE  GoodStep
<1>0. DurableTypeOK /\ StoreTypeOK /\ \A i \in RunId : runs[i] \in Run /\ Proposed(runs[i]) \in Run
  BY CheckpointTypes DEF Bounded, DurableTypeOK, StoreTypeOK
<1> PICK i \in RunId : at[w].pc = "second" /\ Unlocked /\ at[w].run = i
  BY DEF SecondSkips, SecondSettles
<1>1. i <= latest /\ at[w].pc # "first" /\ \A j \in RunId : at[w].run = j => j = i
  BY <1>0, UnitIsPlaced
<1>2. CASE SecondSkips(w)
  <2>1. UNCHANGED <<task, runs, approvals, asked, acts, allowed>> /\ Done(w, i)
    BY <1>1, <1>2 DEF SecondSkips
  <2>2. DurableTypeOK' /\ ReportsUnit(w, i)
    BY <1>0, <2>1, UnitTypes DEF DurableTypeOK, StoreTypeOK, OthersKept
  <2>3. Rests /\ NoTransaction
    BY <1>0, <1>1, <2>1, <2>2, UnitRests DEF Kept
  <2>4. DecisionsStand
    BY <1>0, <2>1, KeptDecisions DEF KeepApprovals
  <2> QED
    BY <2>2, <2>3, <2>4 DEF GoodStep, Kind, Books
<1>3. CASE SecondSettles(w)
  <2>1. /\ DurableTypeOK' /\ ReportsUnit(w, i) /\ WorksUnit(w, i) /\ allowed' = allowed
        /\ KeepApprovals \/ PauseForApproval(i, Proposed(runs[i]))
    BY <1>1, <1>3, SecondUnit DEF SecondSettles, StillExecuting
  <2>2. DecisionsStand
    BY <1>0, <2>1, KeptDecisions, PausedDecisions
  <2>3. NoTransaction
    BY <2>1 DEF NoTransaction, AttemptsFollow, ReportsUnit
  <2> QED
    BY <2>1, <2>2, <2>3 DEF GoodStep, Kind, Books
<1> QED
  BY <1>2, <1>3

LEMMA AttemptSteps ==
  ASSUME Bounded, Placed, NEW w \in Workers,
         StartAttempt(w) \/ Reports(w) \/ TimesOut(w) \/ Dies(w) \/ Missing(w)
  PROVE  GoodStep
<1>0. /\ DurableTypeOK /\ at \in [Workers -> Attempt] /\ wf \in Workflow
      /\ asked \in 0..MaxApprovals /\ StoreTypeOK
  BY DEF Bounded, DurableTypeOK, StoreTypeOK
<1>1. DurableTypeOK'
  BY <1>0, AttemptMovesTypes
<1>2. /\ UNCHANGED <<runs, approvals, asked, allowed, latest, queue, resumed>>
      /\ wf'.run = wf.run
      /\ \A v \in Workers : v # w => at'[v] = at[v]
      /\ \/ at'[w] = at[w]
         \/ at'[w] = Resting
         \/ at'[w].pc = "first" /\ at'[w].run = wf.run
  <2>1. UNCHANGED <<runs, approvals, asked, allowed, latest, queue, resumed>>
    BY DEF StartAttempt, Reports, TimesOut, Dies, Missing, others, store
  <2>2. wf'.run = wf.run
    <3>1. Retried(w).run = wf.run /\ \A phase : Returned(phase).run = wf.run
      BY <1>0 DEF Retried, Returned, Workflow
    <3>2. StartAttempt(w) => wf'.run = wf.run
      BY <1>0 DEF StartAttempt, Workflow
    <3> QED
      BY <3>1, <3>2 DEF Reports, TimesOut, Dies, Missing
  <2>3. CASE StartAttempt(w)
    <3>1. /\ [Resting EXCEPT !.pc = "first", !.run = wf.run].pc = "first"
          /\ [Resting EXCEPT !.pc = "first", !.run = wf.run].run = wf.run
      BY DEF Resting
    <3> QED
      BY <1>0, <2>1, <2>2, <2>3, <3>1 DEF StartAttempt
  <2>4. CASE Reports(w) \/ Dies(w) \/ Missing(w)
    BY <1>0, <2>1, <2>2, <2>4 DEF Reports, Dies, Missing
  <2>5. CASE TimesOut(w)
    BY <2>1, <2>2, <2>5 DEF TimesOut
  <2> QED
    BY <2>3, <2>4, <2>5
<1>3. Resting.pc = "idle" /\ Resting.run = 0
  BY DEF Resting
<1>4. NoTransaction
  BY <1>2, <1>3 DEF NoTransaction, AttemptsFollow
<1>5. \A v \in Workers : at'[v].pc = "second" => at'[v] = at[v]
  BY <1>2, <1>3
<1>6. DecisionsStand
  BY <1>0, <1>2, DurableBounds DEF DecisionsStand
<1>7. Kind
  <2>1. CASE UNCHANGED acts
    BY <1>0, <1>2, <1>5, <2>1, QuietStep DEF Kind
  <2>2. CASE Dies(w) /\ ~UNCHANGED acts
    <3> PICK i \in RunId :
          /\ Unlocked /\ at[w].run = i /\ runs[i].phase = "executing"
          /\ \/ at[w].pc = "second" /\ Reached(i, at[w].call)
             \/ at[w].pc = "first" /\ Repeatable(i) /\ Reached(i, runs[i].call)
      BY <2>2 DEF Dies
    <3>1. CASE at[w].pc = "second" /\ Reached(i, at[w].call)
      <4>1. at'[w].pc # "second" /\ Kept(i) /\ OthersKept(i) /\ UNCHANGED latest
        BY <1>0, <1>2, <1>3, <2>2 DEF Dies, Kept, OthersKept
      <4> QED
        BY <1>2, <3>1, <4>1 DEF Kind, WorksUnit
    <3>2. CASE at[w].pc = "first" /\ Repeatable(i) /\ Reached(i, runs[i].call)
      <4>1. \A j \in RunId, c \in Calls : acts'[j][c] # acts[j][c] =>
              j \in Idempotent /\ runs[j].phase = "executing" /\ runs[j].call = c
        BY <1>0, <3>2, ReachedOnly DEF Repeatable
      <4> QED
        BY <1>2, <1>5, <4>1 DEF Kind, Rests, Kept
    <3> QED
      BY <3>1, <3>2
  <2>3. ~Dies(w) => UNCHANGED acts
    BY DEF StartAttempt, Reports, TimesOut, Missing, others
  <2> QED
    BY <2>1, <2>2, <2>3
<1> QED
  BY <1>1, <1>4, <1>6, <1>7 DEF GoodStep, Books

LEMMA WakeSteps == ASSUME Bounded, Placed, Wakes PROVE GoodStep
<1>0. /\ DurableTypeOK /\ wf \in Workflow /\ wf' = [wf EXCEPT !.waits = FALSE]
      /\ UNCHANGED <<task, runs, latest, approvals, asked, queue, at, resumed, asking, acts, allowed,
                     losses>>
  BY DEF Bounded, DurableTypeOK, Wakes, others, store
<1>1. wf' \in Workflow /\ wf'.run = wf.run
  BY <1>0 DEF Workflow
<1>2. DurableTypeOK'
  BY <1>0, <1>1 DEF DurableTypeOK, StoreTypeOK
<1>3. Rests /\ DecisionsStand
  BY <1>0, QuietStep
<1>4. NoTransaction
  BY <1>0, <1>1 DEF NoTransaction, AttemptsFollow
<1> QED
  BY <1>2, <1>3, <1>4 DEF GoodStep, Kind, Books

LEMMA QueueingSteps ==
  ASSUME Bounded, Placed,
         \/ QueueRun \/ QueueRetry \/ \E h \in Chats : QueueChat(h)
         \/ \E h \in Automations : HandOffReads(h) \/ HandOffQueues(h)
  PROVE  GoodStep
<1>0. DurableTypeOK
  BY DEF Bounded
<1>1. DurableTypeOK'
  BY <1>0, QueueingTypes
<1>2. UNCHANGED <<runs, approvals, asked, acts, allowed, at, latest, resumed>>
  BY DEF QueueRun, QueueRetry, QueueChat, HandOffReads, HandOffQueues, Queue, store
<1>3. Rests /\ DecisionsStand
  BY <1>0, <1>2, QuietStep
<1>4. Books
  <2>1. CASE UNCHANGED <<queue, wf>>
    BY <1>2, <2>1 DEF Books, NoTransaction, AttemptsFollow
  <2>2. ASSUME NEW saw, NEW replace, Queue(saw, replace) PROVE Opens
    BY <1>2, <2>2 DEF Queue, StartWorkflow, Opens
  <2> QED
    BY <2>1, <2>2 DEF QueueRun, QueueRetry, QueueChat, HandOffReads, HandOffQueues, Books
<1> QED
  BY <1>1, <1>3, <1>4 DEF GoodStep, Kind

LEMMA TransactionSteps ==
  ASSUME Bounded, Placed, QueueCommits \/ QueueAborts \/ ResumeChecks \/ ResumeStarts
  PROVE  GoodStep
<1>0. DurableTypeOK /\ StoreTypeOK /\ latest \in Nat
  BY DurableBounds DEF Bounded, DurableTypeOK, StoreTypeOK
<1>1. DurableTypeOK'
  BY <1>0, TransactionTypes DEF Placed
<1>2. CASE QueueCommits
  <2>1. /\ UNCHANGED <<approvals, asked, wf, at, resumed, acts, allowed>>
        /\ queue.open /\ ~queue'.open /\ latest' = latest + 1
        /\ runs' = [runs EXCEPT ![latest + 1] = NewRun]
    BY <1>0, <1>2 DEF QueueCommits, DurableTypeOK
  <2>2. \A i \in RunId : Kept(i) \/ Born(i)
    BY <1>0, <2>1 DEF Kept, Born, StoreTypeOK
  <2>3. Rests
    BY <2>1, <2>2 DEF Rests
  <2>4. DecisionsStand
    BY <1>0, <2>1, KeptDecisions DEF KeepApprovals
  <2>5. Closes
    BY <2>1 DEF Closes
  <2> QED
    BY <1>1, <2>3, <2>4, <2>5 DEF GoodStep, Kind, Books
<1>3. CASE QueueAborts
  <2>1. /\ UNCHANGED <<runs, latest, approvals, asked, acts, allowed, resumed>>
        /\ queue.open /\ ~queue'.open
    BY <1>0, <1>3 DEF QueueAborts, store, DurableTypeOK
  <2>2. wf'.run = IF wf.run = latest + 1 THEN 0 ELSE wf.run
    BY <1>0, <1>3 DEF QueueAborts, DurableTypeOK, Workflow
  <2>3. \A v \in Workers : /\ at'[v].pc = at[v].pc
                           /\ at'[v].run = IF at[v].run = latest + 1 THEN 0 ELSE at[v].run
                           /\ at[v].run # latest + 1 => at'[v] = at[v]
    <3>1. ASSUME NEW v \in Workers
          PROVE  /\ at'[v].pc = at[v].pc
                 /\ at'[v].run = IF at[v].run = latest + 1 THEN 0 ELSE at[v].run
                 /\ at[v].run # latest + 1 => at'[v] = at[v]
      <4>1. at[v] \in Attempt /\ at'[v] = [at[v] EXCEPT !.run = IF @ = latest + 1 THEN 0 ELSE @]
        BY <1>0, <1>3 DEF QueueAborts, DurableTypeOK
      <4> QED
        BY <4>1 DEF Attempt
    <3> QED
      BY <3>1
  <2>4. \A v \in Workers : at'[v].pc = "second" => at'[v] = at[v]
    <3>1. \A v \in Workers : at[v].pc = "second" => at[v].run <= latest /\ at[v].run \in Nat
      BY <1>0, DurableBounds DEF Placed, DurableTypeOK, Attempt
    <3> QED
      BY <1>0, <2>3, <3>1
  <2>5. Rests /\ DecisionsStand
    BY <1>0, <2>1, <2>4, QuietStep
  <2>6. Closes
    BY <2>1, <2>2, <2>3 DEF Closes
  <2> QED
    BY <1>1, <2>5, <2>6 DEF GoodStep, Kind, Books
<1>4. CASE ResumeChecks \/ ResumeStarts
  <2>1. /\ UNCHANGED <<runs, latest, approvals, asked, acts, allowed, queue, at>>
        /\ wf'.run = wf.run \/ wf'.run = resumed
        /\ resumed' <= latest
    BY <1>0, <1>4 DEF ResumeChecks, ResumeStarts, StartWorkflow, store
  <2>2. Rests /\ DecisionsStand
    BY <1>0, <2>1, QuietStep
  <2>3. NoTransaction
    BY <2>1 DEF NoTransaction, AttemptsFollow
  <2> QED
    BY <1>1, <2>2, <2>3 DEF GoodStep, Kind, Books
<1> QED
  BY <1>2, <1>3, <1>4

LEMMA RouteSteps ==
  ASSUME Bounded, Placed,
         \/ \E a \in ApprovalId : ApprovalLapses(a) \/ Decide(a) \/ RefuseChangedTarget(a)
         \/ Cancel \/ Archive \/ Unarchive
  PROVE  GoodStep
<1>0. DurableTypeOK /\ StoreTypeOK /\ latest \in Nat
  BY DurableBounds DEF Bounded, DurableTypeOK, StoreTypeOK
<1>1. /\ UNCHANGED <<latest, asked, queue, wf, at, acts, allowed, asking, resumed, losses>>
  BY DEF ApprovalLapses, Decide, RefuseChangedTarget, Cancel, Archive, Unarchive, RouteUnit,
         CancelRows, others
<1>2. NoTransaction
  BY <1>1 DEF NoTransaction, AttemptsFollow
<1>3. ASSUME StoreTypeOK' PROVE DurableTypeOK'
  BY <1>0, <1>1, <1>3 DEF DurableTypeOK
<1>4. ASSUME \A i \in RunId : Kept(i) \/ Ends(i) PROVE Rests
  BY <1>1, <1>4 DEF Rests
<1>5. CASE Archive \/ Unarchive
  <2>1. UNCHANGED <<runs, approvals>>
    BY <1>5 DEF Archive, Unarchive
  <2>2. task' \in Task
    BY <1>0, <1>5, TaskFields DEF Archive, Unarchive, StoreTypeOK
  <2>3. StoreTypeOK'
    BY <1>0, <1>1, <2>1, <2>2 DEF StoreTypeOK
  <2>4. Rests /\ DecisionsStand
    BY <1>0, <1>1, <2>1, QuietStep
  <2> QED
    BY <1>2, <1>3, <2>3, <2>4 DEF GoodStep, Kind, Books
<1>6. CASE Cancel
  <2>1. CancelRows
    BY <1>6 DEF Cancel
  <2>2. StoreTypeOK'
    BY <1>0, <2>1, CancelTypes
  <2>3. Rests
    <3>1. ASSUME NEW i \in RunId PROVE Kept(i) \/ Ends(i)
      <4>1. \/ runs'[i] = runs[i]
            \/ i = latest /\ runs'[i].phase = "cancelled"
        BY <1>0, <2>1, CancelWrites
      <4> QED
        BY <1>0, <4>1 DEF Kept, Ends, Ended
    <3> QED
      BY <1>4, <3>1
  <2>4. DecisionsStand
    <3>1. \A a \in ApprovalId : /\ approvals'[a].run = approvals[a].run
                                /\ approvals'[a].call = approvals[a].call
                                /\ approvals[a].status = "approved" => approvals'[a].status = "approved"
      BY <1>0, <2>1, CancelWrites
    <3>2. \A a \in 1..asked : a \in ApprovalId
      BY <1>0, DurableBounds DEF StoreTypeOK, ApprovalId
    <3>3. asked <= asked'
      BY <1>0, <1>1, DurableBounds DEF StoreTypeOK
    <3> QED
      BY <1>1, <3>1, <3>2, <3>3 DEF DecisionsStand
  <2> QED
    BY <1>2, <1>3, <2>2, <2>3, <2>4 DEF GoodStep, Kind, Books
<1>7. ASSUME NEW a \in ApprovalId, ApprovalLapses(a) PROVE GoodStep
  <2>1. UNCHANGED <<task, runs>> /\ approvals' = [approvals EXCEPT ![a].lapsed = TRUE]
    BY <1>7 DEF ApprovalLapses
  <2>2. approvals' \in [ApprovalId -> Approval]
    BY <1>0, <2>1 DEF StoreTypeOK, Approval
  <2>3. StoreTypeOK'
    BY <1>0, <1>1, <2>1, <2>2 DEF StoreTypeOK
  <2>4. DecisionsStand
    <3>1. \A b \in ApprovalId : /\ approvals'[b].run = approvals[b].run
                                /\ approvals'[b].call = approvals[b].call
                                /\ approvals'[b].status = approvals[b].status
      BY <1>0, <2>1 DEF StoreTypeOK, Approval
    <3>2. \A b \in 1..asked : b \in ApprovalId
      BY <1>0, DurableBounds DEF StoreTypeOK, ApprovalId
    <3>3. asked <= asked'
      BY <1>0, <1>1, DurableBounds DEF StoreTypeOK
    <3> QED
      BY <1>1, <3>1, <3>2, <3>3 DEF DecisionsStand
  <2>5. Rests
    BY <1>4, <2>1 DEF Kept
  <2> QED
    BY <1>2, <1>3, <2>3, <2>4, <2>5 DEF GoodStep, Kind, Books
<1>8. ASSUME NEW a \in ApprovalId, Decide(a) \/ RefuseChangedTarget(a) PROVE GoodStep
  <2>1. PICK status \in ApprovalStatus : Decided(a, status)
    BY <1>8 DEF Decide, RefuseChangedTarget, ApprovalStatus
  <2>2. approvals[a].status # "approved"
    BY <1>8 DEF Decide, RefuseChangedTarget, Pending
  <2>3. approvals' \in [ApprovalId -> Approval]
    BY <1>0, <2>1, DecidedTypes
  <2>4. DecisionsStand
    BY <1>0, <1>1, <2>1, <2>2, DecidedDecisions
  <2>5. CASE UNCHANGED <<task, runs>>
    <3>1. StoreTypeOK' /\ Rests
      BY <1>0, <1>1, <1>4, <2>3, <2>5 DEF StoreTypeOK, Kept
    <3> QED
      BY <1>2, <1>3, <2>4, <3>1 DEF GoodStep, Kind, Books
  <2>6. CASE ~UNCHANGED <<task, runs>>
    <3>1. PICK i \in RunId : i = approvals[a].run
      BY <1>0 DEF StoreTypeOK, Approval
    <3>2. Fails(i) /\ runs[i].approval = a
      BY <1>8, <2>6, <3>1 DEF Decide, RefuseChangedTarget
    <3>3. i <= latest
      <4>1. NewRun.approval = 0 /\ a # 0
        BY DurableBounds DEF NewRun, ApprovalId
      <4> QED
        BY <1>0, <3>2, <4>1, DurableBounds DEF Placed, Unborn
    <3>4. /\ runs' \in [RunId -> Run] /\ task' \in Task
          /\ runs'[i].phase = "failed" /\ OthersKept(i)
      BY <1>0, <3>2, FailsWrites
    <3>5. StoreTypeOK' /\ Rests
      BY <1>0, <1>1, <1>4, <2>3, <3>3, <3>4 DEF StoreTypeOK, Kept, Ends, Ended, OthersKept
    <3> QED
      BY <1>2, <1>3, <2>4, <3>5 DEF GoodStep, Kind, Books
  <2> QED
    BY <2>5, <2>6
<1> QED
  BY <1>5, <1>6, <1>7, <1>8

LEMMA StepKinds == Bounded /\ Placed /\ [Next]_vars => GoodStep
<1> SUFFICES ASSUME Bounded, Placed, [Next]_vars PROVE GoodStep
  OBVIOUS
<1>1. CASE \/ QueueCommits \/ QueueAborts \/ Route
  BY <1>1, QueueingSteps, TransactionSteps, RouteSteps DEF Route
<1>2. ASSUME NEW w \in Workers, Works(w) \/ TimesOut(w) \/ Dies(w) PROVE GoodStep
  BY <1>2, FirstUnitSteps, SecondUnitSteps, AttemptSteps DEF Works, FirstUnit
<1>3. CASE Wakes
  BY <1>3, WakeSteps
<1>4. CASE UNCHANGED vars
  <2>1. DurableTypeOK' /\ UNCHANGED <<runs, latest, approvals, asked, queue, wf, at, resumed, acts, allowed>>
    BY <1>4 DEF vars, store, Bounded, DurableTypeOK, StoreTypeOK
  <2>2. Rests /\ DecisionsStand
    BY <2>1, QuietStep DEF Bounded
  <2>3. NoTransaction
    BY <2>1 DEF NoTransaction, AttemptsFollow
  <2> QED
    BY <2>1, <2>2, <2>3 DEF GoodStep, Kind, Books
<1> QED
  BY <1>1, <1>2, <1>3, <1>4 DEF Next

-----------------------------------------------------------------------------
(* The inductive invariant of every deployment *)

\* A run at work in a second unit is executing the call the attempt holds in memory,
\* and no other attempt is in a second unit on it.
SecondUnits ==
  \A w \in Workers, i \in RunId : at[w].pc = "second" /\ at[w].run = i =>
    /\ runs[i].phase \in Ended \cup {"executing"}
    /\ runs[i].phase = "executing" =>
         /\ at[w].call = runs[i].call
         /\ \A v \in Workers : at[v].pc = "second" /\ at[v].run = i => v = w

Authorised(i, c) ==
  \/ <<i, c>> \in allowed
  \/ \E a \in 1..asked : /\ approvals[a].run = i /\ approvals[a].call = c
                         /\ approvals[a].status = "approved"

ExecutingIsAuthorised ==
  \A i \in RunId :
    /\ runs[i].phase = "executing" => Authorised(i, runs[i].call)
    /\ runs[i].phase = "waiting_approval" => /\ runs[i].approval \in 1..asked
                                             /\ approvals[runs[i].approval].run = i

\* The handler has not been reached for a call that an attempt is still to make.
ReachedOnce ==
  \A i \in RunId \ Idempotent, c \in Calls :
    /\ acts[i][c] <= 1
    /\ runs[i].phase \notin Ended /\ runs[i].call < c => acts[i][c] = 0
    /\ runs[i].phase \in {"planning", "tool_ready", "waiting_approval"} /\ runs[i].call = c =>
         acts[i][c] = 0
    /\ runs[i].phase = "executing" /\ runs[i].call = c
         /\ (\E w \in Workers : at[w].pc = "second" /\ at[w].run = i) => acts[i][c] = 0

DurableInv == Bounded /\ Placed /\ SecondUnits /\ ExecutingIsAuthorised /\ ReachedOnce

LEMMA KindMoves ==
  ASSUME Kind, NEW i \in RunId
  PROVE  Moves(i)
<1>1. CASE Rests
  BY <1>1 DEF Rests, Moves
<1>2. ASSUME NEW w \in Workers, NEW j \in RunId, BeginsUnit(w, j) \/ WorksUnit(w, j)
      PROVE  Moves(i)
  BY <1>2 DEF BeginsUnit, WorksUnit, Moves, OthersKept, Kept
<1> QED
  BY <1>1, <1>2 DEF Kind

LEMMA CountedStep ==
  ASSUME Bounded, GoodStep
  PROVE  CallsCounted'
<1> SUFFICES ASSUME NEW i \in RunId PROVE Counted(runs'[i], asked')
  BY DEF CallsCounted
<1>1. /\ Moves(i) /\ asked \in Nat /\ asked' \in Nat /\ asked <= asked'
      /\ runs[i].call \in Nat /\ Counted(runs[i], asked)
  BY KindMoves DEF GoodStep, DecisionsStand, Bounded, CallsCounted, DurableTypeOK, StoreTypeOK, Run
<1>2. CASE Kept(i)
  BY <1>1, <1>2 DEF Kept, Counted
<1>3. CASE Ends(i)
  BY <1>3, EndedIsNotOpen DEF Ends, Counted
<1>4. CASE Born(i)
  <2>1. runs'[i].phase = "planning" /\ runs'[i].call = 0
    BY <1>4 DEF Born, NewRun
  <2>2. \A n \in Nat : 0 <= n + 1
    OBVIOUS
  <2>3. runs'[i].call <= asked' + 1
    BY <1>1, <2>1, <2>2
  <2> QED
    BY <2>1, <2>3 DEF Counted
<1>5. CASE Pauses(i) \/ Starts(i)
  BY <1>1, <1>5, EndedIsNotOpen DEF Pauses, Starts, Counted
<1>6. CASE Proposes(i)
  <2>1. CASE runs[i].phase = "planning"
    BY <1>1, <1>6, <2>1, EndedIsNotOpen DEF Proposes, Counted
  <2>2. CASE runs[i].phase = "executing"
    BY <1>1, <1>6, <2>2, EndedIsNotOpen DEF Proposes, Counted, AsksFor
  <2> QED
    BY <1>6, <2>1, <2>2 DEF Proposes
<1> QED
  BY <1>1, <1>2, <1>3, <1>4, <1>5, <1>6 DEF Moves

LEMMA PlacedStep ==
  ASSUME Bounded, Placed, GoodStep
  PROVE  Placed'
<1>1. /\ latest \in Nat /\ latest' \in Nat /\ MaxRuns \in Nat /\ wf.run \in Nat /\ wf'.run \in Nat
      /\ resumed \in Nat /\ resumed' \in Nat /\ latest <= MaxRuns
      /\ \A v \in Workers : at[v].run \in Nat /\ at'[v].run \in Nat
      /\ \A i \in RunId : i \in Nat
      /\ queue.open \in BOOLEAN /\ queue'.open \in BOOLEAN
  BY DurableBounds DEF Bounded, GoodStep, DurableTypeOK, StoreTypeOK, Workflow, Attempt
<1>2. latest <= latest'
  BY <1>1 DEF GoodStep, Books, NoTransaction, Opens, Closes
<1>3. Unborn'
  <2> SUFFICES ASSUME NEW i \in RunId, i > latest' PROVE runs'[i] = NewRun
    BY DEF Unborn
  <2>1. Moves(i) /\ i > latest
    BY <1>1, <1>2, KindMoves DEF GoodStep
  <2>2. Kept(i) \/ Born(i)
    BY <1>1, <2>1 DEF Moves, Ends, Proposes, Pauses, Starts
  <2> QED
    BY <2>1, <2>2 DEF Kept, Born, Placed, Unborn
<1>4. CASE NoTransaction
  <2>1. /\ latest' = latest /\ queue'.open = queue.open /\ Newest' = Newest /\ latest <= Newest
        /\ Newest \in Nat /\ (Unlocked => Newest = latest)
    BY <1>1, <1>4 DEF NoTransaction, Newest, Unlocked
  <2>2. wf'.run <= Newest /\ resumed' <= latest
    BY <1>1, <1>4, <2>1 DEF NoTransaction, Placed
  <2>3. ASSUME NEW v \in Workers
        PROVE  at'[v].run <= IF at'[v].pc = "first" THEN Newest ELSE latest
    <3>1. at[v].run <= Newest /\ (Unlocked \/ at[v].pc # "first" => at[v].run <= latest)
      BY <1>1, <2>1 DEF Placed
    <3> QED
      BY <1>1, <1>4, <2>1, <3>1 DEF NoTransaction, AttemptsFollow, Placed
  <2> QED
    BY <1>3, <2>1, <2>2, <2>3 DEF Placed
<1>5. CASE Opens
  <2>1. /\ latest' = latest /\ queue'.open /\ Newest' = latest + 1 /\ Newest = latest
        /\ at' = at /\ resumed' = resumed /\ latest < MaxRuns
    BY <1>5 DEF Opens, Newest, Unlocked
  <2>2. wf'.run <= latest + 1
    BY <1>1, <1>5, <2>1 DEF Opens, Placed
  <2>3. \A v \in Workers : at[v].run <= latest
    BY <2>1 DEF Placed
  <2> QED
    BY <1>1, <1>3, <2>1, <2>2, <2>3 DEF Placed
<1>6. CASE Closes
  <2>1. Newest = latest + 1 /\ Newest' = latest' /\ ~queue'.open /\ resumed' = resumed
    BY <1>6 DEF Closes, Newest
  <2>2. CASE latest' = latest + 1 /\ UNCHANGED <<wf, at>>
    BY <1>1, <1>3, <2>1, <2>2 DEF Placed
  <2>3. CASE /\ latest' = latest
             /\ wf'.run = (IF wf.run = latest + 1 THEN 0 ELSE wf.run)
             /\ \A v \in Workers : at'[v].run = IF at[v].run = latest + 1 THEN 0 ELSE at[v].run
    <3>1. wf.run <= latest + 1 /\ \A v \in Workers : at[v].run <= latest + 1
      BY <1>1, <2>1 DEF Placed
    <3>2. wf'.run <= latest /\ \A v \in Workers : at'[v].run <= latest
      BY <1>1, <2>3, <3>1
    <3> QED
      BY <1>3, <2>1, <2>3, <3>2 DEF Placed
  <2> QED
    BY <1>6, <2>2, <2>3 DEF Closes
<1> QED
  BY <1>4, <1>5, <1>6 DEF GoodStep, Books

\* A run that an attempt is at work on is not born by the step.
LEMMA SecondIsBorn ==
  ASSUME Bounded, Placed, NEW w \in Workers, NEW i \in RunId,
         at[w].pc = "second", at[w].run = i
  PROVE  ~Born(i)
<1>1. i <= latest /\ i \in Nat /\ latest \in Nat
  BY UnitIsPlaced, DurableBounds DEF Bounded, DurableTypeOK, StoreTypeOK
<1> QED
  BY <1>1 DEF Born

LEMMA SecondUnitsStep ==
  ASSUME DurableInv, GoodStep
  PROVE  SecondUnits'
<1> SUFFICES ASSUME NEW w \in Workers, NEW i \in RunId, at'[w].pc = "second", at'[w].run = i
             PROVE  /\ runs'[i].phase \in Ended \cup {"executing"}
                    /\ runs'[i].phase = "executing" =>
                         /\ at'[w].call = runs'[i].call
                         /\ \A v \in Workers : at'[v].pc = "second" /\ at'[v].run = i => v = w
  BY DEF SecondUnits
<1>1. CASE Rests
  <2>1. at'[w] = at[w] /\ \A v \in Workers : at'[v].pc = "second" => at'[v] = at[v]
    BY <1>1 DEF Rests
  <2>2. Kept(i) \/ Ends(i) \/ Pauses(i) \/ (Proposes(i) /\ runs[i].phase = "planning")
    BY <1>1, <2>1, SecondIsBorn DEF Rests, DurableInv
  <2>3. /\ runs[i].phase \in Ended \cup {"executing"}
        /\ runs[i].phase = "executing" =>
             /\ at[w].call = runs[i].call
             /\ \A v \in Workers : at[v].pc = "second" /\ at[v].run = i => v = w
    BY <2>1 DEF DurableInv, SecondUnits
  <2>4. Kept(i) \/ Ends(i)
    BY <2>2, <2>3, EndedIsNotOpen DEF Pauses
  <2> QED
    BY <2>1, <2>3, <2>4, EndedIsNotOpen DEF Kept, Ends
<1>2. ASSUME NEW u \in Workers, NEW j \in RunId, BeginsUnit(u, j)
      PROVE  /\ runs'[i].phase \in Ended \cup {"executing"}
             /\ runs'[i].phase = "executing" =>
                  /\ at'[w].call = runs'[i].call
                  /\ \A v \in Workers : at'[v].pc = "second" /\ at'[v].run = i => v = w
  \* The run was not executing, so no attempt was in its second unit on it.
  <2>1. \A v \in Workers : ~(at[v].pc = "second" /\ at[v].run = j)
    BY <1>2, EndedIsNotOpen DEF BeginsUnit, Starts, DurableInv, SecondUnits
  <2>2. CASE i = j
    BY <1>2, <2>1, <2>2 DEF BeginsUnit, Starts
  <2>3. CASE i # j
    <3>1. /\ w # u /\ at'[w] = at[w] /\ runs'[i] = runs[i]
          /\ \A v \in Workers : at'[v].pc = "second" /\ at'[v].run = i => at'[v] = at[v]
      BY <1>2, <2>3 DEF BeginsUnit, OthersKept
    <3> QED
      BY <3>1 DEF DurableInv, SecondUnits
  <2> QED
    BY <2>2, <2>3
<1>3. ASSUME NEW u \in Workers, NEW j \in RunId, WorksUnit(u, j)
      PROVE  /\ runs'[i].phase \in Ended \cup {"executing"}
             /\ runs'[i].phase = "executing" =>
                  /\ at'[w].call = runs'[i].call
                  /\ \A v \in Workers : at'[v].pc = "second" /\ at'[v].run = i => v = w
  <2>1. \A v \in Workers : at'[v].pc = "second" => v # u /\ at'[v] = at[v]
    BY <1>3 DEF WorksUnit
  \* The attempt at work was the only one on its run.
  <2>2. i # j
    BY <1>3, <2>1 DEF WorksUnit, DurableInv, SecondUnits
  <2>3. runs'[i] = runs[i]
    BY <1>3, <2>2 DEF WorksUnit, OthersKept
  <2> QED
    BY <2>1, <2>3 DEF DurableInv, SecondUnits
<1> QED
  BY <1>1, <1>2, <1>3 DEF GoodStep, Kind

LEMMA AuthorisedStands ==
  ASSUME DecisionsStand, asked \in Nat, asked' \in Nat, NEW i, NEW c, Authorised(i, c)
  PROVE  Authorised(i, c)'
<1>1. CASE <<i, c>> \in allowed
  BY <1>1 DEF DecisionsStand, Authorised
<1>2. ASSUME NEW a \in 1..asked, approvals[a].run = i, approvals[a].call = c,
             approvals[a].status = "approved"
      PROVE  Authorised(i, c)'
  <2>1. a \in 1..asked'
    BY DEF DecisionsStand
  <2> QED
    BY <1>2, <2>1 DEF DecisionsStand, Authorised
<1> QED
  BY <1>1, <1>2 DEF Authorised

LEMMA AuthorisedStep ==
  ASSUME DurableInv, GoodStep
  PROVE  ExecutingIsAuthorised'
<1>0. /\ DecisionsStand /\ asked \in Nat /\ asked' \in Nat /\ asked <= asked'
      /\ \A i \in RunId : Moves(i)
  BY KindMoves DEF GoodStep, DecisionsStand, DurableInv, Bounded, DurableTypeOK, StoreTypeOK
<1>1. ASSUME NEW i \in RunId, NEW c, runs'[i].phase = "executing", runs'[i].call = c
      PROVE  Authorised(i, c)'
  <2>1. Kept(i) \/ Starts(i)
    BY <1>0, <1>1, EndedIsNotOpen DEF Moves, Ends, Born, Proposes, Pauses, NewRun
  <2>2. CASE Kept(i)
    <3>1. Authorised(i, c)
      BY <1>1, <2>2 DEF Kept, DurableInv, ExecutingIsAuthorised
    <3> QED
      BY <1>0, <3>1, AuthorisedStands
  <2>3. CASE Starts(i)
    <3>1. c = runs[i].call
      BY <1>1, <2>3 DEF Starts
    <3>2. Authority(i)
      <4>1. ~Rests
        BY <2>3, <1>1, EndedIsNotOpen
           DEF Rests, Starts, Kept, Ends, Born, Pauses, Proposes, NewRun
      <4>2. PICK w \in Workers, j \in RunId :
              (BeginsUnit(w, j) /\ Authority(j)) \/ WorksUnit(w, j)
        BY <4>1 DEF GoodStep, Kind
      <4>3. i = j
        BY <2>3, <4>2 DEF BeginsUnit, WorksUnit, OthersKept, Starts
      <4>4. ~WorksUnit(w, i)
        BY <2>3 DEF WorksUnit, Starts
      <4> QED
        BY <4>2, <4>3, <4>4
    <3>3. CASE <<i, c>> \in allowed'
      BY <3>1, <3>3 DEF Authorised
    <3>4. CASE /\ runs[i].phase = "waiting_approval" /\ runs[i].approval \in ApprovalId
               /\ Lets(runs[i].approval, i)
      <4>1. PICK a \in 1..asked : a = runs[i].approval
        BY <3>4 DEF DurableInv, ExecutingIsAuthorised
      <4>2. approvals[a].run = i /\ approvals[a].call = c /\ approvals[a].status = "approved"
        BY <3>1, <3>4, <4>1 DEF DurableInv, ExecutingIsAuthorised, Lets
      <4>3. Authorised(i, c)
        BY <4>2 DEF Authorised
      <4> QED
        BY <1>0, <4>3, AuthorisedStands
    <3> QED
      BY <3>1, <3>2, <3>3, <3>4 DEF Authority
  <2> QED
    BY <2>1, <2>2, <2>3
<1>2. ASSUME NEW i \in RunId, runs'[i].phase = "waiting_approval"
      PROVE  /\ runs'[i].approval \in 1..asked'
             /\ approvals'[runs'[i].approval].run = i
  <2>1. Kept(i) \/ AsksFor(i)
    BY <1>0, <1>2, EndedIsNotOpen DEF Moves, Ends, Born, Proposes, Pauses, Starts, NewRun
  <2>2. CASE Kept(i)
    <3>1. PICK a \in 1..asked : a = runs[i].approval /\ approvals[a].run = i
      BY <1>2, <2>2 DEF Kept, DurableInv, ExecutingIsAuthorised
    <3>2. a \in 1..asked'
      BY <1>0, <3>1
    <3> QED
      BY <1>0, <2>2, <3>1, <3>2 DEF Kept, DecisionsStand
  <2>3. CASE AsksFor(i)
    BY <1>0, <2>3 DEF AsksFor
  <2> QED
    BY <2>1, <2>2, <2>3
<1> QED
  BY <1>1, <1>2 DEF ExecutingIsAuthorised

LEMMA ReachedStep ==
  ASSUME DurableInv, GoodStep
  PROVE  ReachedOnce'
<1> SUFFICES ASSUME NEW i \in RunId \ Idempotent, NEW c \in Calls
             PROVE  /\ acts'[i][c] <= 1
                    /\ runs'[i].phase \notin Ended /\ runs'[i].call < c => acts'[i][c] = 0
                    /\ runs'[i].phase \in {"planning", "tool_ready", "waiting_approval"}
                         /\ runs'[i].call = c => acts'[i][c] = 0
                    /\ runs'[i].phase = "executing" /\ runs'[i].call = c
                         /\ (\E w \in Workers : at'[w].pc = "second" /\ at'[w].run = i) =>
                         acts'[i][c] = 0
  BY DEF ReachedOnce
<1>0. /\ runs[i].call \in Nat /\ runs'[i].call \in Nat /\ c \in Nat
      /\ acts[i][c] \in Nat /\ DurableTypeOK
  <2>1. runs[i].call \in Nat /\ runs'[i].call \in Nat /\ c \in Nat
    BY DEF GoodStep, DurableInv, Bounded, DurableTypeOK, StoreTypeOK, Run, Calls
  <2>2. acts[i] \in [Calls -> 0..2] /\ DurableTypeOK
    BY DEF DurableInv, Bounded, DurableTypeOK
  <2>3. acts[i][c] \in 0..2
    BY <2>2
  <2> QED
    BY <2>1, <2>2, <2>3
<1>1. /\ acts[i][c] <= 1
      /\ runs[i].phase \notin Ended /\ runs[i].call < c => acts[i][c] = 0
      /\ runs[i].phase \in {"planning", "tool_ready", "waiting_approval"} /\ runs[i].call = c =>
           acts[i][c] = 0
      /\ runs[i].phase = "executing" /\ runs[i].call = c
           /\ (\E w \in Workers : at[w].pc = "second" /\ at[w].run = i) => acts[i][c] = 0
  BY DEF DurableInv, ReachedOnce
\* A run that was not created yet has reached nothing: its first call is to come.
<1>2. ASSUME Born(i) PROVE acts[i][c] = 0
  <2>1. runs[i] = NewRun
    BY <1>2, DurableBounds DEF Born, DurableInv, Placed, Unborn, Bounded, DurableTypeOK, StoreTypeOK
  <2>2. c > 0
    BY DEF Calls
  <2> QED
    BY <1>0, <1>1, <2>1, <2>2, EndedIsNotOpen DEF NewRun
<1>3. CASE Rests
  <2>1. acts'[i][c] = acts[i][c]
    BY <1>3 DEF Rests
  <2>2. \A w \in Workers : at'[w].pc = "second" => at'[w] = at[w]
    BY <1>3 DEF Rests
  <2>3. CASE Kept(i)
    <3>1. (\E w \in Workers : at'[w].pc = "second" /\ at'[w].run = i) =>
            (\E w \in Workers : at[w].pc = "second" /\ at[w].run = i)
      BY <2>2
    <3> QED
      BY <1>1, <2>1, <2>3, <3>1 DEF Kept
  <2>5. CASE Ends(i)
    BY <1>1, <2>1, <2>5, EndedIsNotOpen DEF Ends
  <2>4. CASE Born(i) \/ Pauses(i) \/ (Proposes(i) /\ runs[i].phase = "planning")
    <3>1. acts[i][c] = 0 \/ (runs'[i].phase = "waiting_approval" \/ runs'[i].phase = "tool_ready")
      BY <1>2, <2>4 DEF Pauses, Proposes
    <3>2. CASE Born(i)
      BY <1>0, <1>2, <2>1, <3>2
    <3>3. CASE Pauses(i) \/ (Proposes(i) /\ runs[i].phase = "planning")
      BY <1>0, <1>1, <2>1, <3>3, EndedIsNotOpen DEF Pauses, Proposes
    <3> QED
      BY <2>4, <3>2, <3>3
  <2> QED
    BY <1>3, <2>3, <2>4, <2>5 DEF Rests
<1>4. ASSUME NEW w \in Workers, NEW j \in RunId, BeginsUnit(w, j)
      PROVE  /\ acts'[i][c] <= 1
             /\ runs'[i].phase \notin Ended /\ runs'[i].call < c => acts'[i][c] = 0
             /\ runs'[i].phase \in {"planning", "tool_ready", "waiting_approval"}
                  /\ runs'[i].call = c => acts'[i][c] = 0
             /\ runs'[i].phase = "executing" /\ runs'[i].call = c
                  /\ (\E v \in Workers : at'[v].pc = "second" /\ at'[v].run = i) =>
                  acts'[i][c] = 0
  <2>1. acts'[i][c] = acts[i][c]
    BY <1>4 DEF BeginsUnit
  <2>2. CASE i = j
    BY <1>0, <1>1, <1>4, <2>1, <2>2, EndedIsNotOpen DEF BeginsUnit, Starts
  <2>3. CASE i # j
    <3>1. /\ runs'[i] = runs[i]
          /\ \A v \in Workers : at'[v].pc = "second" /\ at'[v].run = i => at'[v] = at[v]
      BY <1>4, <2>3 DEF BeginsUnit, OthersKept
    <3> QED
      BY <1>1, <2>1, <3>1
  <2> QED
    BY <2>2, <2>3
<1>5. ASSUME NEW w \in Workers, NEW j \in RunId, WorksUnit(w, j)
      PROVE  /\ acts'[i][c] <= 1
             /\ runs'[i].phase \notin Ended /\ runs'[i].call < c => acts'[i][c] = 0
             /\ runs'[i].phase \in {"planning", "tool_ready", "waiting_approval"}
                  /\ runs'[i].call = c => acts'[i][c] = 0
             /\ runs'[i].phase = "executing" /\ runs'[i].call = c
                  /\ (\E v \in Workers : at'[v].pc = "second" /\ at'[v].run = i) =>
                  acts'[i][c] = 0
  <2>1. /\ at[w].call = runs[j].call
        /\ \A v \in Workers : at[v].pc = "second" /\ at[v].run = j => v = w
    BY <1>5 DEF WorksUnit, DurableInv, SecondUnits
  <2>2. \A v \in Workers : at'[v].pc = "second" => v # w /\ at'[v] = at[v]
    BY <1>5 DEF WorksUnit
  <2>3. CASE i = j
    <3>1. \A v \in Workers : ~(at'[v].pc = "second" /\ at'[v].run = i)
      BY <2>1, <2>2, <2>3
    <3>2. /\ c # runs[i].call => acts'[i][c] = acts[i][c]
          /\ acts'[i][c] \in Nat /\ acts'[i][c] <= acts[i][c] + 1
      <4>1. CASE acts' = acts
        BY <1>0, <4>1
      <4>2. CASE Reached(j, at[w].call)
        BY <1>0, <2>1, <2>3, <4>2, ReachedOnly
      <4> QED
        BY <1>5, <4>1, <4>2 DEF WorksUnit
    <3>3. c = runs[i].call => acts[i][c] = 0
      BY <1>1, <1>5, <2>3 DEF WorksUnit
    <3>4. acts'[i][c] <= 1
      BY <1>0, <1>1, <3>2, <3>3
    <3>5. runs[i].phase = "executing" /\ (Kept(i) \/ Ends(i) \/ Proposes(i))
      BY <1>5, <2>3 DEF WorksUnit
    <3> QED
      BY <1>0, <1>1, <3>1, <3>2, <3>4, <3>5, EndedIsNotOpen DEF Kept, Ends, Proposes
  <2>4. CASE i # j
    <3>1. runs'[i] = runs[i]
      BY <1>5, <2>4 DEF WorksUnit, OthersKept
    <3>2. acts'[i][c] = acts[i][c]
      BY <1>5, <2>4, <1>0, ReachedOnly DEF WorksUnit
    <3> QED
      BY <1>1, <2>2, <3>1, <3>2
  <2> QED
    BY <2>3, <2>4
<1> QED
  BY <1>3, <1>4, <1>5 DEF GoodStep, Kind

LEMMA DurableInit == Init => DurableInv
<1> SUFFICES ASSUME Init PROVE DurableInv
  OBVIOUS
<1>1. /\ task \in Task /\ latest = 0 /\ asked = 0 /\ resumed = 0 /\ losses = 0
      /\ runs = [i \in RunId |-> NewRun]
      /\ queue = [open |-> FALSE, save |-> task]
  BY DEF Init, Task, TaskStatus
<1>2. \A i \in RunId : runs[i] = NewRun /\ NewRun \in Run
                       /\ NewRun.phase = "planning" /\ NewRun.call = 0
  BY <1>1, CheckpointTypes DEF NewRun
<1>3. approvals \in [ApprovalId -> Approval]
  BY DurableBounds, StoreBounds DEF Init, Approval, ApprovalStatus
<1>4. wf \in Workflow /\ wf.run = 0
  BY DurableBounds DEF Init, Workflow
<1>5. at \in [Workers -> Attempt] /\ \A v \in Workers : at[v].pc = "idle" /\ at[v].run = 0
  BY RestingTypes DEF Init, Resting
<1>6. asking \in [Automations \cup Chats -> [pc : {"new", "read", "done"}, saw : Task]]
  BY <1>1 DEF Init
<1>7. /\ acts \in [RunId -> [Calls -> 0..2]] /\ allowed = {}
      /\ \A i \in RunId, c \in Calls : acts[i][c] = 0
  BY DEF Init
<1>8. DurableTypeOK
  BY <1>1, <1>2, <1>3, <1>4, <1>5, <1>6, <1>7, DurableBounds DEF DurableTypeOK, StoreTypeOK
<1>9. Bounded
  <2>1. \A i \in RunId : Counted(runs[i], asked)
    BY <1>1, <1>2 DEF Counted
  <2> QED
    BY <1>8, <2>1 DEF Bounded, CallsCounted
<1>10. Placed
  BY <1>1, <1>2, <1>4, <1>5 DEF Placed, Unborn, Newest
<1>11. SecondUnits /\ ReachedOnce
  BY <1>5, <1>7 DEF SecondUnits, ReachedOnce
<1>12. ExecutingIsAuthorised
  BY <1>2 DEF ExecutingIsAuthorised
<1> QED
  BY <1>9, <1>10, <1>11, <1>12 DEF DurableInv

LEMMA DurableStep == DurableInv /\ [Next]_vars => DurableInv'
<1> SUFFICES ASSUME DurableInv, [Next]_vars PROVE DurableInv'
  OBVIOUS
<1>1. GoodStep
  BY StepKinds DEF DurableInv
<1> QED
  BY <1>1, CountedStep, PlacedStep, SecondUnitsStep, AuthorisedStep, ReachedStep
     DEF DurableInv, Bounded, GoodStep

LEMMA DurableInvariant == Spec => []DurableInv
BY DurableInit, DurableStep, PTL DEF Spec

-----------------------------------------------------------------------------
(* What every deployment keeps *)

\* The rows, the workflow and the attempts keep the shape the code relies on.
THEOREM DurableTypeCorrect == Spec => []DurableTypeOK
<1>1. DurableInv => DurableTypeOK
  BY DEF DurableInv, Bounded
<1> QED
  BY <1>1, DurableInvariant, PTL

\* However many attempts time out, die or go on beside their successor, the handler of a
\* call that is not declared idempotent is reached at most once.
THEOREM CallsAreNeverRepeated == Spec => []NeverRepeated
<1>1. DurableInv => NeverRepeated
  BY DEF DurableInv, ReachedOnce, NeverRepeated
<1> QED
  BY <1>1, DurableInvariant, PTL

LEMMA HandlerStep ==
  ASSUME DurableInv, GoodStep, NEW i \in RunId, NEW c \in Calls, acts'[i][c] # acts[i][c]
  PROVE  runs[i].phase = "executing" /\ runs[i].call = c
<1>1. CASE Rests
  BY <1>1 DEF Rests
<1>2. ASSUME NEW w \in Workers, NEW j \in RunId, BeginsUnit(w, j) \/ WorksUnit(w, j)
      PROVE  runs[i].phase = "executing" /\ runs[i].call = c
  <2>1. WorksUnit(w, j) /\ Reached(j, at[w].call)
    BY <1>2 DEF BeginsUnit, WorksUnit
  <2>2. i = j /\ c = at[w].call
    BY <2>1, ReachedOnly DEF DurableInv, Bounded
  <2> QED
    BY <2>1, <2>2 DEF WorksUnit, DurableInv, SecondUnits
<1> QED
  BY <1>1, <1>2 DEF GoodStep, Kind

\* A late attempt never makes another call than the one its run has checkpointed.
THEOREM HandlersRunTheCheckpoint == Spec => HandlerRunsTheCheckpoint
<1>1. DurableInv /\ [Next]_vars =>
        [\A i \in RunId, c \in Calls : acts'[i][c] # acts[i][c] =>
           runs[i].phase = "executing" /\ runs[i].call = c]_vars
  BY StepKinds, HandlerStep DEF DurableInv
<1> QED
  BY <1>1, DurableInvariant, PTL DEF Spec, HandlerRunsTheCheckpoint

\* A handler is reached only for a call the policy let through or a person approved.
THEOREM DurableHandlersAreAuthorised == Spec => HandlerIsAuthorised
<1>1. DurableInv /\ [Next]_vars =>
        [\A i \in RunId, c \in Calls : acts'[i][c] # acts[i][c] =>
           \/ <<i, c>> \in allowed
           \/ \E a \in 1..asked : /\ approvals[a].run = i /\ approvals[a].call = c
                                  /\ approvals[a].status = "approved"]_vars
  <2> SUFFICES ASSUME DurableInv, [Next]_vars,
                      NEW i \in RunId, NEW c \in Calls, acts'[i][c] # acts[i][c]
               PROVE  Authorised(i, c)
    BY DEF Authorised
  <2>1. runs[i].phase = "executing" /\ runs[i].call = c
    BY StepKinds, HandlerStep DEF DurableInv
  <2> QED
    BY <2>1 DEF DurableInv, ExecutingIsAuthorised
<1> QED
  BY <1>1, DurableInvariant, PTL DEF Spec, HandlerIsAuthorised

-----------------------------------------------------------------------------
(* Without a hand-over of an automation step: what the rows keep *)

\* An automation step saves a task it read without the row lock: with it, the facts below
\* do not hold.  They need nothing else: chats may queue, and transactions may roll back.
NoHandOver == Automations = {}

RowStatus(phase) == IF phase = "planning" THEN "queued" ELSE StatusOf(phase)

\* The task row tells what its newest run does, open or ended.
RowTells == \A i \in RunId : i = latest => task.status = RowStatus(runs[i].phase)

\* A run is followed by another one only when it failed or was cancelled.
FailedBefore ==
  \A i \in RunId : i < latest \/ (i = latest /\ queue.open) =>
    runs[i].phase \in {"failed", "cancelled"}

QueuedRow == queue.open => queue.save.status = "queued"

RowsInv == RowTells /\ FailedBefore /\ QueuedRow /\ PendingIsAwaited

\* The approvals that are still pending after the step were pending before.
SamePending(a) ==
  /\ Pending(a)
  /\ approvals'[a].run = approvals[a].run /\ approvals'[a].call = approvals[a].call

LeavesRuns ==
  /\ UNCHANGED <<runs, latest>> /\ task'.status = task.status
  /\ \A a \in ApprovalId : Pending(a)' => SamePending(a)
  /\ UNCHANGED queue \/ (queue.open /\ ~queue'.open)

OpensQueue ==
  /\ Unlocked /\ UNCHANGED <<task, runs, latest, approvals, asked>>
  /\ queue'.save.status = "queued"
  /\ latest = 0 \/ task.status \in {"failed", "cancelled"}

Commits ==
  /\ queue.open /\ ~queue'.open /\ latest' = latest + 1
  /\ task'.status = "queued" /\ runs' = [runs EXCEPT ![latest + 1] = NewRun]
  /\ UNCHANGED <<approvals, asked>>

\* A unit of work moves the open run i forward.
WritesRun(i) ==
  /\ Unlocked /\ i <= latest /\ OthersKept(i)
  /\ UNCHANGED <<latest, queue>>
  /\ runs[i].phase \notin Ended /\ runs'[i].phase # "planning"
  /\ task'.status = StatusOf(runs'[i].phase)
  /\ \A a \in ApprovalId : Pending(a)' =>
       \/ SamePending(a) /\ approvals[a].run # i
       \/ /\ approvals'[a].run = i /\ approvals'[a].call = runs'[i].call
          /\ runs'[i].phase = "waiting_approval" /\ runs'[i].approval = a

\* A late attempt finds the task cancelled, and its own run not.
StopsRun(i) ==
  /\ Unlocked /\ i <= latest /\ OthersKept(i)
  /\ UNCHANGED <<task, latest, approvals, asked, queue>>
  /\ task.status = "cancelled" /\ runs[i].phase # "cancelled"
  /\ runs'[i].phase = "cancelled"

CancelsTask ==
  /\ Unlocked /\ CancelRows /\ UNCHANGED queue
  /\ task.status \notin Ended

RowKind ==
  \/ LeavesRuns \/ OpensQueue \/ Commits \/ CancelsTask
  \/ \E i \in RunId : WritesRun(i) \/ StopsRun(i)

LEMMA RowStatusFacts ==
  /\ \A phase \in RunPhase : phase # "planning" => RowStatus(phase) = StatusOf(phase)
  /\ RowStatus("planning") = "queued"
  /\ \A phase \in RunPhase : RowStatus(phase) = "cancelled" => phase = "cancelled"
  /\ \A phase \in RunPhase : RowStatus(phase) = "failed" => phase = "failed"
  /\ \A phase \in RunPhase : RowStatus(phase) = "completed" => phase = "completed"
  /\ \A phase \in Ended : RowStatus(phase) = phase
BY DEF RowStatus, StatusOf, RunPhase, Ended

LEMMA RowsKindStep ==
  ASSUME Bounded, Placed, DurableTypeOK', RowsInv, RowKind
  PROVE  RowsInv'
<1>0. /\ latest \in Nat /\ asked \in Nat /\ \A i \in RunId : i \in Nat
      /\ \A i \in RunId : runs[i] \in Run /\ runs[i].phase \in RunPhase
                          /\ runs'[i] \in Run /\ runs'[i].phase \in RunPhase
      /\ \A a \in ApprovalId : approvals[a].run \in RunId /\ approvals'[a].run \in RunId
  BY DurableBounds DEF Bounded, DurableTypeOK, StoreTypeOK, Run, Approval
<1>1. ASSUME NEW a \in ApprovalId, Pending(a)
      PROVE  /\ approvals[a].run <= latest /\ runs[approvals[a].run].phase = "waiting_approval"
             /\ runs[approvals[a].run].approval = a
             /\ runs[approvals[a].run].call = approvals[a].call
  BY <1>1 DEF Pending, RowsInv, PendingIsAwaited
<1>2. ASSUME \A a \in ApprovalId : Pending(a)' =>
               /\ approvals'[a].run <= latest'
               /\ runs'[approvals'[a].run].phase = "waiting_approval"
               /\ runs'[approvals'[a].run].approval = a
               /\ runs'[approvals'[a].run].call = approvals'[a].call
      PROVE  PendingIsAwaited'
  BY <1>2 DEF Pending, PendingIsAwaited
<1>3. CASE LeavesRuns
  <2>1. PendingIsAwaited'
    BY <1>0, <1>1, <1>2, <1>3 DEF LeavesRuns, SamePending
  <2>2. RowTells' /\ FailedBefore' /\ QueuedRow'
    BY <1>3 DEF LeavesRuns, RowsInv, RowTells, FailedBefore, QueuedRow
  <2> QED
    BY <2>1, <2>2 DEF RowsInv
<1>4. CASE OpensQueue
  <2>1. PendingIsAwaited' /\ RowTells' /\ QueuedRow'
    BY <1>4 DEF OpensQueue, RowsInv, RowTells, PendingIsAwaited, QueuedRow
  <2>2. \A i \in RunId : i = latest => runs[i].phase \in {"failed", "cancelled"}
    BY <1>0, <1>4, RowStatusFacts, DurableBounds DEF OpensQueue, RowsInv, RowTells
  <2>3. FailedBefore'
    BY <1>4, <2>2 DEF OpensQueue, RowsInv, FailedBefore
  <2> QED
    BY <2>1, <2>3 DEF RowsInv
<1>5. CASE Commits
  <2>1. /\ \A i \in RunId : i # latest + 1 => runs'[i] = runs[i]
        /\ \A i \in RunId : i = latest + 1 => runs'[i] = NewRun
    BY <1>5 DEF Commits, Bounded, DurableTypeOK, StoreTypeOK
  <2>2. RowTells'
    <3>1. NewRun.phase = "planning"
      BY DEF NewRun
    <3> QED
      BY <1>5, <2>1, <3>1, RowStatusFacts DEF Commits, RowTells
  <2>3. FailedBefore'
    <3> SUFFICES ASSUME NEW i \in RunId, i < latest + 1
                 PROVE  runs'[i].phase \in {"failed", "cancelled"}
      BY <1>5 DEF Commits, FailedBefore
    <3>1. i < latest \/ i = latest
      BY <1>0
    <3> QED
      BY <1>0, <1>5, <2>1, <3>1 DEF Commits, RowsInv, FailedBefore
  <2>4. PendingIsAwaited'
    <3>1. ASSUME NEW a \in ApprovalId, Pending(a)'
          PROVE  /\ Pending(a) /\ approvals'[a] = approvals[a]
                 /\ runs'[approvals[a].run] = runs[approvals[a].run]
      <4>1. Pending(a) /\ approvals'[a] = approvals[a]
        BY <1>5, <3>1 DEF Commits, Pending
      <4>2. approvals[a].run # latest + 1
        BY <1>0, <1>1, <4>1
      <4> QED
        BY <1>0, <2>1, <4>1, <4>2
    <3>2. latest <= latest' /\ \A a \in ApprovalId : approvals[a].run \in Nat
      BY <1>0, <1>5 DEF Commits
    <3>3. latest' \in Nat
      BY <1>0, <1>5 DEF Commits
    <3> QED
      BY <1>0, <1>1, <1>2, <3>1, <3>2, <3>3
  <2>5. QueuedRow'
    BY <1>5 DEF Commits, QueuedRow
  <2> QED
    BY <2>2, <2>3, <2>4, <2>5 DEF RowsInv
<1>6. ASSUME NEW i \in RunId, WritesRun(i) PROVE RowsInv'
  <2>1. i = latest
    <3>1. ~(i < latest)
      BY <1>6, EndedIsNotOpen DEF WritesRun, RowsInv, FailedBefore, Ended
    <3> QED
      BY <1>0, <1>6, <3>1 DEF WritesRun
  <2>2. RowTells'
    BY <1>0, <1>6, <2>1, RowStatusFacts DEF WritesRun, RowTells
  <2>3. FailedBefore' /\ QueuedRow'
    BY <1>0, <1>6, <2>1 DEF WritesRun, RowsInv, FailedBefore, QueuedRow, OthersKept, Unlocked
  <2>4. PendingIsAwaited'
    <3>1. ASSUME NEW a \in ApprovalId, Pending(a)'
          PROVE  /\ approvals'[a].run <= latest'
                 /\ runs'[approvals'[a].run].phase = "waiting_approval"
                 /\ runs'[approvals'[a].run].approval = a
                 /\ runs'[approvals'[a].run].call = approvals'[a].call
      <4>1. CASE SamePending(a) /\ approvals[a].run # i
        BY <1>0, <1>1, <1>6, <4>1 DEF SamePending, WritesRun, OthersKept
      <4>2. CASE ~(SamePending(a) /\ approvals[a].run # i)
        BY <1>0, <1>6, <3>1, <4>2 DEF WritesRun
      <4> QED
        BY <4>1, <4>2
    <3> QED
      BY <1>2, <3>1
  <2> QED
    BY <2>2, <2>3, <2>4 DEF RowsInv
<1>7. ASSUME NEW i \in RunId, StopsRun(i) PROVE RowsInv'
  <2>1. i < latest
    <3>1. i # latest
      BY <1>0, <1>7, RowStatusFacts DEF StopsRun, RowsInv, RowTells
    <3> QED
      BY <1>0, <1>7, <3>1 DEF StopsRun
  <2>2. runs[i].phase = "failed"
    BY <1>7, <2>1 DEF StopsRun, RowsInv, FailedBefore
  <2>3. RowTells' /\ FailedBefore' /\ QueuedRow'
    BY <1>0, <1>7, <2>1 DEF StopsRun, RowsInv, RowTells, FailedBefore, QueuedRow, OthersKept, Unlocked
  <2>4. ASSUME NEW a \in ApprovalId, Pending(a)'
        PROVE  /\ approvals'[a].run <= latest'
               /\ runs'[approvals'[a].run].phase = "waiting_approval"
               /\ runs'[approvals'[a].run].approval = a
               /\ runs'[approvals'[a].run].call = approvals'[a].call
    <3>1. Pending(a) /\ approvals' = approvals /\ latest' = latest
      BY <1>7, <2>4 DEF StopsRun, Pending
    <3>2. approvals[a].run # i
      BY <1>1, <2>2, <3>1
    <3> QED
      BY <1>0, <1>1, <1>7, <3>1, <3>2 DEF StopsRun, OthersKept
  <2> QED
    BY <1>2, <2>3, <2>4 DEF RowsInv
<1>8. CASE CancelsTask
  <2>1. /\ \A i \in RunId : \/ runs'[i] = runs[i]
                            \/ i = latest /\ runs'[i].phase = "cancelled"
        /\ \A i \in RunId : i = latest => runs'[i].phase \in Ended
        /\ \A a \in ApprovalId : a <= asked => approvals'[a].status # "pending"
        /\ task'.status = "cancelled" /\ UNCHANGED <<latest, asked>>
    BY <1>8, CancelWrites DEF CancelsTask, Bounded, DurableTypeOK
  <2>2. RowTells'
    <3>1. ASSUME NEW i \in RunId, i = latest PROVE runs'[i].phase = "cancelled"
      <4>1. runs[i].phase \notin Ended
        BY <1>0, <1>8, <3>1, RowStatusFacts DEF CancelsTask, RowsInv, RowTells
      <4> QED
        BY <2>1, <3>1, <4>1
    <3> QED
      BY <2>1, <3>1, RowStatusFacts DEF RowTells, Ended
  <2>3. FailedBefore' /\ QueuedRow'
    BY <1>0, <1>8, <2>1 DEF CancelsTask, RowsInv, FailedBefore, QueuedRow, Unlocked
  <2>4. PendingIsAwaited'
    BY <2>1 DEF PendingIsAwaited
  <2> QED
    BY <2>2, <2>3, <2>4 DEF RowsInv
<1> QED
  BY <1>3, <1>4, <1>5, <1>6, <1>7, <1>8 DEF RowKind

\* A completed or cancelled run is written by none of these.
LEMMA RowsKindStays ==
  ASSUME Bounded, RowsInv, RowKind, NEW i \in RunId, i <= latest,
         runs[i].phase \in {"completed", "cancelled"}
  PROVE  runs'[i] = runs[i]
<1>0. /\ latest \in Nat /\ i \in Nat /\ StoreTypeOK
      /\ \A j \in RunId : runs[j].phase \in RunPhase
  BY DurableBounds DEF Bounded, DurableTypeOK, StoreTypeOK, Run
<1>1. CASE LeavesRuns \/ OpensQueue
  BY <1>1 DEF LeavesRuns, OpensQueue
<1>2. CASE Commits
  BY <1>0, <1>2 DEF Commits, StoreTypeOK
<1>3. CASE CancelsTask
  BY <1>0, <1>3, CancelWrites DEF CancelsTask, Ended
<1>4. ASSUME NEW j \in RunId, WritesRun(j) PROVE runs'[i] = runs[i]
  BY <1>4 DEF WritesRun, OthersKept, Ended
<1>5. ASSUME NEW j \in RunId, StopsRun(j) PROVE runs'[i] = runs[i]
  <2>1. CASE j # i
    BY <1>5, <2>1 DEF StopsRun, OthersKept
  <2>2. CASE j = i
    <3>1. i # latest
      BY <1>0, <1>5, <2>2, RowStatusFacts DEF StopsRun, RowsInv, RowTells
    <3>2. runs[i].phase \in {"failed", "cancelled"}
      BY <1>0, <3>1 DEF RowsInv, FailedBefore
    <3> QED
      BY <1>5, <2>2, <3>2 DEF StopsRun
  <2> QED
    BY <2>1, <2>2
<1> QED
  BY <1>1, <1>2, <1>3, <1>4, <1>5 DEF RowKind

\* What may be pending after a unit that writes run i.
PendingAfter(i, a) ==
  \/ SamePending(a) /\ approvals[a].run # i
  \/ /\ approvals'[a].run = i /\ approvals'[a].call = runs'[i].call
     /\ runs'[i].phase = "waiting_approval" /\ runs'[i].approval = a

\* Only a waiting run has a pending approval, and only the one it waits for.
LEMMA PendingOfRun ==
  ASSUME RowsInv, NEW a \in ApprovalId, Pending(a)
  PROVE  /\ runs[approvals[a].run].phase = "waiting_approval"
         /\ runs[approvals[a].run].approval = a
BY DEF RowsInv, PendingIsAwaited, Pending

LEMMA KeptPending ==
  ASSUME RowsInv, KeepApprovals, NEW i \in RunId, runs[i].phase # "waiting_approval",
         NEW a \in ApprovalId, Pending(a)'
  PROVE  PendingAfter(i, a)
<1>1. Pending(a) /\ approvals' = approvals
  BY DEF KeepApprovals, Pending
<1> QED
  BY <1>1, PendingOfRun DEF PendingAfter, SamePending

LEMMA PausePending ==
  ASSUME Bounded, RowsInv, NEW i \in RunId, NEW r \in Run, PauseForApproval(i, r),
         runs[i].phase # "waiting_approval", NEW a \in ApprovalId, Pending(a)'
  PROVE  PendingAfter(i, a)
<1>1. /\ asked' = asked + 1 /\ asked + 1 \in ApprovalId /\ asked \in Nat /\ a \in Nat
      /\ runs'[i].phase = "waiting_approval" /\ runs'[i].call = r.call
      /\ runs'[i].approval = asked + 1
      /\ approvals'[asked + 1] = [status |-> "pending", run |-> i, call |-> r.call,
                                  lapsed |-> FALSE]
      /\ \A b \in ApprovalId : b # asked + 1 => approvals'[b] = approvals[b]
  <2>1. asked \in Nat /\ a \in Nat /\ StoreTypeOK
    BY DurableBounds DEF Bounded, DurableTypeOK, StoreTypeOK
  <2> QED
    BY <2>1, PauseWrites
<1>2. CASE a = asked + 1
  BY <1>1, <1>2 DEF PendingAfter
<1>3. CASE a # asked + 1
  <2>1. a <= asked /\ approvals'[a] = approvals[a]
    BY <1>1, <1>3 DEF Pending
  <2>2. Pending(a)
    BY <2>1 DEF Pending
  <2> QED
    BY <2>1, <2>2, PendingOfRun DEF PendingAfter, SamePending
<1> QED
  BY <1>2, <1>3

LEMMA UnitRows ==
  ASSUME Bounded, Placed, RowsInv, NEW w \in Workers,
         \/ AdvanceStopped(w) \/ AdvanceEnded(w) \/ AdvancePlans(w) \/ AdvanceReady(w)
         \/ AdvanceWaiting(w) \/ AdvanceRecovers(w) \/ SecondSkips(w) \/ SecondSettles(w)
  PROVE  RowKind
<1>0. /\ DurableTypeOK /\ StoreTypeOK
      /\ \A i \in RunId : /\ runs[i] \in Run /\ Proposed(runs[i]) \in Run
                          /\ EndedAs(runs[i], "cancelled").phase = "cancelled"
  BY CheckpointTypes, CheckpointFields DEF Bounded, DurableTypeOK, StoreTypeOK
<1> PICK i \in RunId : at[w].run = i
  BY DEF AdvanceStopped, AdvanceEnded, AdvancePlans, AdvanceReady, AdvanceWaiting,
         AdvanceRecovers, SecondSkips, SecondSettles, First
<1>1. /\ Unlocked /\ i <= latest /\ UNCHANGED <<latest, queue>>
      /\ \A j \in RunId : First(w, j) => j = i
      /\ \A j \in RunId : at[w].run = j => j = i
  <2>1. Unlocked
    BY DEF AdvanceStopped, AdvanceEnded, AdvancePlans, AdvanceReady, AdvanceWaiting,
           AdvanceRecovers, SecondSkips, SecondSettles, First
  <2>2. UNCHANGED <<latest, queue>>
    BY DEF AdvanceStopped, AdvanceEnded, AdvancePlans, AdvanceReady, AdvanceWaiting,
           AdvanceRecovers, SecondSkips, SecondSettles, Done, Begins
  <2> QED
    BY <1>0, <2>1, <2>2, UnitIsPlaced DEF First
<1>2. ASSUME UNCHANGED <<task, runs, approvals, asked>> PROVE RowKind
  BY <1>1, <1>2 DEF RowKind, LeavesRuns, SamePending, Pending
<1>3. ASSUME OthersKept(i), runs[i].phase \notin Ended, runs'[i].phase # "planning",
             task'.status = StatusOf(runs'[i].phase),
             \A a \in ApprovalId : Pending(a)' => PendingAfter(i, a)
      PROVE  RowKind
  BY <1>1, <1>3 DEF RowKind, WritesRun, PendingAfter
<1>4. CASE AdvanceStopped(w)
  <2>1. /\ Stopped(i) /\ UNCHANGED <<task, approvals, asked>>
        /\ runs' = IF runs[i].phase = "cancelled" THEN runs
                   ELSE [runs EXCEPT ![i] = EndedAs(runs[i], "cancelled")]
    BY <1>1, <1>4 DEF AdvanceStopped
  <2>2. CASE runs[i].phase = "cancelled"
    BY <1>2, <2>1, <2>2
  <2>3. CASE runs[i].phase # "cancelled"
    <3>1. task.status = "cancelled" /\ runs'[i].phase = "cancelled" /\ OthersKept(i)
      BY <1>0, <2>1, <2>3 DEF Stopped, OthersKept, StoreTypeOK
    <3> QED
      BY <1>1, <2>1, <2>3, <3>1 DEF RowKind, StopsRun
  <2> QED
    BY <2>2, <2>3
<1>5. CASE AdvanceEnded(w) \/ SecondSkips(w)
  BY <1>2, <1>5 DEF AdvanceEnded, SecondSkips
<1>6. CASE AdvancePlans(w)
  <2>1. /\ ReportsUnit(w, i) /\ runs[i].phase = "planning"
        /\ runs'[i].phase \in {"failed", "waiting_approval", "tool_ready"}
        /\ task'.status = StatusOf(runs'[i].phase)
        /\ KeepApprovals \/ PauseForApproval(i, Proposed(runs[i]))
    BY <1>1, <1>6, PlansUnit DEF AdvancePlans
  <2>2. \A a \in ApprovalId : Pending(a)' => PendingAfter(i, a)
    BY <1>0, <2>1, KeptPending, PausePending
  <2> QED
    BY <1>3, <2>1, <2>2, EndedIsNotOpen DEF ReportsUnit
<1>7. CASE AdvanceReady(w)
  <2>1. /\ runs[i].phase = "tool_ready" /\ task'.status = StatusOf(runs'[i].phase)
        /\ \/ ReportsUnit(w, i) /\ runs'[i].phase = "failed" /\ KeepApprovals
           \/ ReportsUnit(w, i) /\ Pauses(i) /\ PauseForApproval(i, runs[i])
           \/ BeginsUnit(w, i) /\ KeepApprovals
    BY <1>1, <1>7, ReadyUnit DEF AdvanceReady
  <2>2. OthersKept(i) /\ runs'[i].phase # "planning"
    BY <2>1 DEF ReportsUnit, BeginsUnit, Pauses, Starts
  <2>3. \A a \in ApprovalId : Pending(a)' => PendingAfter(i, a)
    BY <1>0, <2>1, KeptPending, PausePending
  <2> QED
    BY <1>3, <2>1, <2>2, <2>3, EndedIsNotOpen
<1>8. CASE AdvanceWaiting(w)
  <2> PICK b \in ApprovalId :
         /\ runs[i].phase = "waiting_approval" /\ b = runs[i].approval
         /\ \/ /\ approvals[b].status = "pending" /\ ~approvals[b].lapsed
               /\ UNCHANGED <<runs, task, approvals>> /\ Done(w, i)
            \/ /\ approvals[b].status = "pending" /\ approvals[b].lapsed
               /\ Decided(b, "expired") /\ Fails(i) /\ Done(w, i)
            \/ /\ approvals[b].status # "pending"
               /\ Fails(i) /\ Done(w, i) /\ UNCHANGED approvals
            \/ /\ approvals[b].status # "pending" /\ Lets(b, i)
               /\ Begins(w, i, b) /\ UNCHANGED approvals
         /\ UNCHANGED <<asked, acts, allowed>>
    BY <1>1, <1>8 DEF AdvanceWaiting
  <2>0. First(w, i)
    BY <1>1, <1>8 DEF AdvanceWaiting
  <2>1. \/ ReportsUnit(w, i) /\ UNCHANGED <<runs, task, approvals>>
        \/ /\ ReportsUnit(w, i) /\ runs'[i].phase = "failed" /\ task'.status = "failed"
           /\ \/ approvals[b].status = "pending" /\ Decided(b, "expired")
              \/ approvals[b].status # "pending" /\ UNCHANGED approvals
        \/ /\ BeginsUnit(w, i) /\ Lets(b, i) /\ UNCHANGED approvals
           /\ task'.status = "running"
    BY <1>1, <2>0, WaitingUnit
  <2>2. CASE UNCHANGED <<runs, task, approvals>>
    BY <1>2, <2>2
  <2>3. ASSUME \/ approvals[b].status = "pending" /\ Decided(b, "expired")
               \/ approvals[b].status # "pending" /\ UNCHANGED approvals,
               NEW a \in ApprovalId, Pending(a)'
        PROVE  PendingAfter(i, a)
    <3>1. a # b /\ approvals'[a] = approvals[a] /\ Pending(a)
      BY <1>0, <2>3 DEF Pending, Decided, StoreTypeOK, Approval
    <3>2. approvals[a].run # i
      BY <3>1, PendingOfRun
    <3> QED
      BY <3>1, <3>2 DEF PendingAfter, SamePending
  <2>4. CASE /\ ReportsUnit(w, i) /\ runs'[i].phase = "failed" /\ task'.status = "failed"
             /\ \/ approvals[b].status = "pending" /\ Decided(b, "expired")
                \/ approvals[b].status # "pending" /\ UNCHANGED approvals
    <3>1. StatusOf("failed") = "failed"
      BY DEF StatusOf
    <3> QED
      BY <1>3, <2>3, <2>4, <3>1, EndedIsNotOpen DEF ReportsUnit
  <2>5. CASE /\ BeginsUnit(w, i) /\ Lets(b, i) /\ UNCHANGED approvals
             /\ task'.status = "running"
    <3>1. approvals[b].status # "pending"
      BY <2>5 DEF Lets
    <3>2. runs'[i].phase = "executing" /\ StatusOf("executing") = "running" /\ OthersKept(i)
      BY <2>5 DEF StatusOf, BeginsUnit, Starts
    <3> QED
      BY <1>3, <2>3, <2>5, <3>1, <3>2, EndedIsNotOpen
  <2> QED
    BY <2>1, <2>2, <2>4, <2>5
<1>9. CASE AdvanceRecovers(w)
  <2>1. /\ ReportsUnit(w, i) /\ KeepApprovals /\ runs[i].phase = "executing"
        /\ runs'[i].phase \in {"completed", "failed"} /\ task'.status = runs'[i].phase
    BY <1>1, <1>9, RecoversUnit DEF AdvanceRecovers
  <2>2. \A a \in ApprovalId : Pending(a)' => PendingAfter(i, a)
    BY <2>1, KeptPending
  <2> QED
    BY <1>3, <2>1, <2>2, EndedIsNotOpen DEF ReportsUnit, StatusOf
<1>10. CASE SecondSettles(w)
  <2>1. /\ ReportsUnit(w, i) /\ runs[i].phase = "executing"
        /\ \/ /\ runs'[i].phase \in {"completed", "failed"} /\ KeepApprovals
              /\ task'.status = runs'[i].phase
           \/ PauseForApproval(i, Proposed(runs[i])) /\ Proposes(i)
    BY <1>1, <1>10, SecondUnit DEF SecondSettles, StillExecuting
  <2>2. \A a \in ApprovalId : Pending(a)' => PendingAfter(i, a)
    BY <1>0, <2>1, KeptPending, PausePending
  <2>3. task'.status = StatusOf(runs'[i].phase) /\ runs'[i].phase # "planning"
    <3>1. CASE runs'[i].phase \in {"completed", "failed"} /\ task'.status = runs'[i].phase
      BY <3>1 DEF StatusOf
    <3>2. CASE PauseForApproval(i, Proposed(runs[i]))
      <4>1. runs'[i].phase = "waiting_approval" /\ task'.status = "waiting_approval"
        BY <1>0, <3>2, PauseAsks
      <4> QED
        BY <4>1 DEF StatusOf
    <3> QED
      BY <2>1, <3>1, <3>2
  <2> QED
    BY <1>3, <2>1, <2>2, <2>3, EndedIsNotOpen DEF ReportsUnit
<1> QED
  BY <1>4, <1>5, <1>6, <1>7, <1>8, <1>9, <1>10

LEMMA RouteRows ==
  ASSUME Bounded, Placed, RowsInv,
         \/ \E a \in ApprovalId : ApprovalLapses(a) \/ Decide(a) \/ RefuseChangedTarget(a)
         \/ Cancel \/ Archive \/ Unarchive
  PROVE  RowKind
<1>0. DurableTypeOK /\ StoreTypeOK
  BY DEF Bounded, DurableTypeOK, StoreTypeOK
<1>1. UNCHANGED <<latest, asked, queue>>
  BY DEF ApprovalLapses, Decide, RefuseChangedTarget, Cancel, Archive, Unarchive, RouteUnit,
         CancelRows, others
<1>2. ASSUME UNCHANGED <<runs, approvals>>, task'.status = task.status PROVE RowKind
  BY <1>1, <1>2 DEF RowKind, LeavesRuns, SamePending, Pending
<1>3. CASE Archive \/ Unarchive
  BY <1>0, <1>2, <1>3 DEF Archive, Unarchive, StoreTypeOK, Task
<1>4. CASE Cancel
  <2>1. Unlocked /\ CancelRows
    BY <1>4 DEF Cancel
  <2>2. CASE task.status \notin Ended
    BY <1>1, <2>1, <2>2 DEF RowKind, CancelsTask
  <2>3. CASE task.status \in {"running", "queued"}
    BY <1>1, <2>1, <2>3 DEF RowKind, CancelsTask, Ended
  <2> QED
    BY <1>4, <2>2, <2>3 DEF Cancel
<1>5. ASSUME NEW a \in ApprovalId, ApprovalLapses(a) PROVE RowKind
  <2>1. /\ UNCHANGED <<task, runs>>
        /\ \A b \in ApprovalId : /\ approvals'[b].status = approvals[b].status
                                 /\ approvals'[b].run = approvals[b].run
                                 /\ approvals'[b].call = approvals[b].call
    BY <1>0, <1>5 DEF ApprovalLapses, StoreTypeOK, Approval
  <2> QED
    BY <1>1, <2>1 DEF RowKind, LeavesRuns, SamePending, Pending
<1>6. ASSUME NEW a \in ApprovalId, Decide(a) \/ RefuseChangedTarget(a) PROVE RowKind
  <2>1. PICK status : Decided(a, status) /\ status # "pending"
    BY <1>6 DEF Decide, RefuseChangedTarget
  <2>2. Pending(a) /\ Unlocked
    BY <1>6 DEF Decide, RefuseChangedTarget, RouteUnit
  <2>3. \A b \in ApprovalId : Pending(b)' => b # a /\ SamePending(b)
    BY <1>0, <1>1, <2>1 DEF Decided, SamePending, Pending, StoreTypeOK, Approval
  <2>4. CASE UNCHANGED <<task, runs>>
    BY <1>1, <2>3, <2>4 DEF RowKind, LeavesRuns
  <2>5. CASE ~UNCHANGED <<task, runs>>
    <3>1. PICK i \in RunId : i = approvals[a].run
      BY <1>0 DEF StoreTypeOK, Approval
    <3>2. Fails(i)
      BY <1>6, <2>5, <3>1 DEF Decide, RefuseChangedTarget
    <3>3. /\ runs[i].phase = "waiting_approval" /\ runs[i].approval = a /\ i <= latest
      BY <2>2, <3>1 DEF RowsInv, PendingIsAwaited, Pending
    <3>4. runs'[i].phase = "failed" /\ OthersKept(i) /\ task'.status = "failed"
      BY <1>0, <3>2, FailsWrites
    <3>5. \A b \in ApprovalId : Pending(b)' => SamePending(b) /\ approvals[b].run # i
      BY <2>3, <3>3, PendingOfRun DEF SamePending
    <3>6. WritesRun(i)
      BY <1>1, <2>2, <3>3, <3>4, <3>5, EndedIsNotOpen DEF WritesRun, StatusOf
    <3> QED
      BY <3>6 DEF RowKind
  <2> QED
    BY <2>4, <2>5
<1> QED
  BY <1>3, <1>4, <1>5, <1>6

LEMMA RowKinds ==
  ASSUME NoHandOver, DurableInv, RowsInv, [Next]_vars
  PROVE  RowKind
<1>0. /\ Bounded /\ Placed /\ DurableTypeOK /\ \A h \in Automations : FALSE
  BY DEF DurableInv, Bounded, NoHandOver
<1>1. ASSUME UNCHANGED <<task, runs, latest, approvals, asked>>,
             UNCHANGED queue \/ (queue.open /\ ~queue'.open)
      PROVE  RowKind
  BY <1>1 DEF RowKind, LeavesRuns, SamePending, Pending
<1>2. ASSUME NEW replace, Queue(task, replace), latest = 0 \/ task.status \in {"failed", "cancelled"}
      PROVE  RowKind
  <2>1. queue'.save.status = "queued"
    BY <1>0, <1>2 DEF Queue, DurableTypeOK, StoreTypeOK, Task
  <2>2. OpensQueue
    BY <1>2, <2>1 DEF Queue, OpensQueue, store
  <2> QED
    BY <2>2 DEF RowKind
<1>3. CASE QueueRun \/ QueueRetry \/ \E h \in Chats : QueueChat(h)
  BY <1>2, <1>3 DEF QueueRun, QueueRetry, QueueChat, Retryable
<1>4. CASE \E h \in Automations : HandOffReads(h) \/ HandOffQueues(h)
  BY <1>0, <1>4
<1>5. CASE QueueCommits
  <2>1. Commits
    BY <1>0, <1>5 DEF QueueCommits, Commits, RowsInv, QueuedRow, DurableTypeOK
  <2> QED
    BY <2>1 DEF RowKind
<1>6. CASE QueueAborts
  <2>1. UNCHANGED <<task, runs, latest, approvals, asked>> /\ queue.open /\ ~queue'.open
    BY <1>0, <1>6 DEF QueueAborts, store, DurableTypeOK
  <2> QED
    BY <1>1, <2>1
<1>7. CASE ResumeChecks \/ ResumeStarts \/ Wakes \/ UNCHANGED vars
  BY <1>1, <1>7 DEF ResumeChecks, ResumeStarts, Wakes, vars, others, store
<1>8. ASSUME NEW w \in Workers,
             StartAttempt(w) \/ Reports(w) \/ TimesOut(w) \/ Dies(w) \/ Missing(w)
      PROVE  RowKind
  BY <1>1, <1>8 DEF StartAttempt, Reports, TimesOut, Dies, Missing, others, store
<1>9. ASSUME NEW w \in Workers, Works(w) \/ TimesOut(w) \/ Dies(w) PROVE RowKind
  BY <1>0, <1>8, <1>9, UnitRows DEF Works, FirstUnit
<1>10. CASE Route
  BY <1>0, <1>3, <1>4, <1>7, <1>10, RouteRows DEF Route
<1> QED
  BY <1>5, <1>6, <1>7, <1>9, <1>10 DEF Next

LEMMA RowsInit == Init => RowsInv
<1> SUFFICES ASSUME Init PROVE RowsInv
  OBVIOUS
<1>1. latest = 0 /\ ~queue.open /\ asked = 0 /\ \A i \in RunId : ~(i < 0) /\ i # 0
  <2>1. \A i \in RunId : i \in Nat /\ i >= 1
    BY DurableBounds
  <2>2. latest = 0 /\ ~queue.open /\ asked = 0
    BY DEF Init
  <2> QED
    BY <2>1, <2>2
<1>2. \A a \in ApprovalId : ~(a <= asked)
  BY <1>1, StoreBounds DEF ApprovalId
<1>3. RowTells /\ FailedBefore /\ QueuedRow
  BY <1>1 DEF RowTells, FailedBefore, QueuedRow
<1> QED
  BY <1>2, <1>3 DEF RowsInv, PendingIsAwaited

LEMMA RowsStep ==
  ASSUME NoHandOver
  PROVE  DurableInv /\ RowsInv /\ [Next]_vars => RowsInv'
<1> SUFFICES ASSUME DurableInv, RowsInv, [Next]_vars PROVE RowsInv'
  OBVIOUS
<1>1. Bounded /\ Placed
  BY DEF DurableInv
<1>2. DurableTypeOK'
  BY <1>1, StepKinds DEF GoodStep
<1>3. RowKind
  BY RowKinds
<1> QED
  BY <1>1, <1>2, <1>3, RowsKindStep

LEMMA RowsInvariant ==
  ASSUME NoHandOver
  PROVE  Spec => [](DurableInv /\ RowsInv)
BY DurableInit, DurableStep, RowsInit, RowsStep, PTL DEF Spec

\* Without a hand-over, a run is followed by another one only after it has ended, even
\* when transactions roll back and chats queue beside the task routes.
THEOREM DurableOnlyLatestOpen ==
  ASSUME NoHandOver
  PROVE  Spec => []OnlyLatestOpen
<1>1. RowsInv => OnlyLatestOpen
  BY DEF RowsInv, FailedBefore, OnlyLatestOpen, Ended
<1> QED
  BY <1>1, RowsInvariant, PTL

\* ... a pending approval is the one its run waits for, for the call it shows ...
THEOREM DurablePendingIsAwaited ==
  ASSUME NoHandOver
  PROVE  Spec => []PendingIsAwaited
<1>1. RowsInv => PendingIsAwaited
  BY DEF RowsInv
<1> QED
  BY <1>1, RowsInvariant, PTL

\* ... and a completed or cancelled run is never written again, however late an attempt.
THEOREM EndedRunsStay ==
  ASSUME NoHandOver
  PROVE  Spec => CompletedRunsStay
<1>1. DurableInv /\ RowsInv /\ [Next]_vars =>
        [\A i \in RunId : i <= latest /\ runs[i].phase \in {"completed", "cancelled"} =>
           runs'[i] = runs[i]]_vars
  BY RowKinds, RowsKindStays DEF DurableInv
<1> QED
  BY <1>1, RowsInvariant, PTL DEF Spec, CompletedRunsStay

-----------------------------------------------------------------------------
(* The workflow serves the open run *)

\* The open workflow belongs to the newest run, or to the one about to commit.  One that a
\* rolled back transaction left behind has no run: before the first one it is reused, after
\* it a retry replaces it.
Served ==
  /\ queue.open => (wf.open /\ wf.run = latest + 1) \/ (wf.run = 0 /\ latest = 0)
  /\ Unlocked /\ latest = 0 /\ wf.open => wf.run = 0
  /\ Unlocked => \A i \in RunId : i = latest /\ runs[i].phase \notin Ended =>
       (wf.open /\ wf.run = i) \/ Orphaned(i)

\* No workflow has begun on a run yet, or none serves the first one.
Lost == wf.run = 0 /\ \A i \in RunId : i <= latest => i = 1 /\ runs[i].phase = "planning"

\* The workflow's attempt works on its run, and reports an end only of a run that ended;
\* nobody works on a run that has no workflow.
AttemptsServe ==
  /\ \A w \in Workers : at[w].pc \in {"second", "reports"} => at[w].run >= 1
  /\ \A w \in Workers : wf.attempt = w => at[w].run = wf.run
  /\ \A w \in Workers, i \in RunId :
       at[w].pc = "reports" /\ at[w].run = i /\ at[w].phase \in Ended => runs[i].phase \in Ended
  /\ Lost => \A w \in Workers : at[w].run = 0

ServedInv == DurableInv /\ RowsInv /\ Served /\ AttemptsServe

LEMMA EndedStays ==
  ASSUME DurableInv, GoodStep, NEW i \in RunId, i <= latest, runs[i].phase \in Ended
  PROVE  runs'[i].phase \in Ended
<1>1. Moves(i) /\ i \in Nat /\ latest \in Nat
  BY KindMoves, DurableBounds DEF GoodStep, DurableInv, Bounded, DurableTypeOK, StoreTypeOK
<1> QED
  BY <1>1, EndedIsNotOpen DEF Moves, Kept, Ends, Born, Proposes, Pauses, Starts

LEMMA PlanningWas ==
  ASSUME DurableInv, GoodStep, NEW i \in RunId, i <= latest, runs'[i].phase = "planning"
  PROVE  runs[i].phase = "planning"
<1>1. Moves(i) /\ i \in Nat /\ latest \in Nat
  BY KindMoves, DurableBounds DEF GoodStep, DurableInv, Bounded, DurableTypeOK, StoreTypeOK
<1> QED
  BY <1>1 DEF Moves, Kept, Ends, Born, Proposes, Pauses, Starts, Ended

LEMMA LostWas ==
  ASSUME ServedInv, GoodStep, UNCHANGED latest, wf'.run = wf.run
  PROVE  Lost' => Lost
BY PlanningWas DEF Lost, ServedInv

\* No run goes on planning, or past it, other than to its end.
Stays == \A i \in RunId : runs'[i].phase = runs[i].phase \/ runs'[i].phase \in Ended

\* Steps that keep the workflow's run, and may end its attempt.
LEMMA WorkflowKept ==
  ASSUME ServedInv, GoodStep, UNCHANGED <<latest, queue>>, Lost => Stays,
         wf'.open = wf.open, wf'.run = wf.run
  PROVE  Served'
<1>1. \A i \in RunId : i = latest /\ runs'[i].phase \notin Ended => runs[i].phase \notin Ended
  BY EndedStays DEF ServedInv, DurableInv, Bounded, DurableTypeOK, StoreTypeOK
<1>2. ASSUME NEW i \in RunId, i = latest, runs'[i].phase \notin Ended, Orphaned(i)
      PROVE  Orphaned(i)'
  <2>1. Lost
    BY <1>2, DurableBounds DEF Orphaned, Lost
  <2> QED
    BY <1>2, <2>1 DEF Orphaned, Stays
<1> QED
  BY <1>1, <1>2 DEF Served, ServedInv, Unlocked

\* One attempt moves, and the others and what they found stay.
LEMMA AttemptMoves ==
  ASSUME ServedInv, GoodStep, NEW w \in Workers, UNCHANGED latest,
         \A v \in Workers : v # w => at'[v] = at[v],
         wf'.run = wf.run,
         \A v \in Workers : wf'.attempt = v => wf.attempt = v \/ v = w,
         \/ at'[w] = Resting /\ wf'.attempt # w
         \/ at'[w].pc = "first" /\ at'[w].run = wf.run
         \/ /\ at[w].pc # "idle" /\ at'[w].run = at[w].run /\ at[w].run >= 1
            /\ wf'.attempt = wf.attempt
            /\ at'[w].pc = "reports" => \A i \in RunId : i = at[w].run => at'[w].phase = runs'[i].phase
  PROVE  AttemptsServe'
<1>0. Resting.pc = "idle" /\ Resting.run = 0
  BY DEF Resting
<1>1. \A v \in Workers : at'[v].pc \in {"second", "reports"} => at'[v].run >= 1
  BY <1>0 DEF ServedInv, AttemptsServe
<1>2. \A v \in Workers : wf'.attempt = v => at'[v].run = wf'.run
  BY DEF ServedInv, AttemptsServe
<1>3. ASSUME NEW v \in Workers, NEW i \in RunId,
             at'[v].pc = "reports", at'[v].run = i, at'[v].phase \in Ended
      PROVE  runs'[i].phase \in Ended
  <2>1. CASE v = w
    BY <1>0, <1>3, <2>1
  <2>2. CASE v # w
    <3>1. at[v].pc = "reports" /\ at[v].run = i /\ runs[i].phase \in Ended
      BY <1>3, <2>2 DEF ServedInv, AttemptsServe
    <3>2. i <= latest
      BY <3>1 DEF ServedInv, DurableInv, Placed
    <3> QED
      BY <3>1, <3>2, EndedStays DEF ServedInv
  <2> QED
    BY <2>1, <2>2
<1>4. Lost' => \A v \in Workers : at'[v].run = 0
  BY <1>0, LostWas DEF ServedInv, AttemptsServe, Lost
<1> QED
  BY <1>1, <1>2, <1>3, <1>4 DEF AttemptsServe

LEMMA AttemptsKept ==
  ASSUME ServedInv, GoodStep, UNCHANGED at, Lost' => Lost,
         \A v \in Workers : wf'.attempt = v => wf.attempt = v /\ wf'.run = wf.run
  PROVE  AttemptsServe'
<1>1. ASSUME NEW v \in Workers, NEW i \in RunId,
             at[v].pc = "reports", at[v].run = i, at[v].phase \in Ended
      PROVE  runs'[i].phase \in Ended
  <2>1. runs[i].phase \in Ended /\ i <= latest
    BY <1>1 DEF ServedInv, AttemptsServe, DurableInv, Placed
  <2> QED
    BY <2>1, EndedStays DEF ServedInv
<1> QED
  BY <1>1 DEF ServedInv, AttemptsServe

LEMMA ServedTypes ==
  ASSUME ServedInv
  PROVE  /\ DurableTypeOK /\ StoreTypeOK /\ wf \in Workflow /\ at \in [Workers -> Attempt]
         /\ latest \in Nat /\ wf.run \in Nat /\ wf.attempt \in Workers \cup {None}
         /\ \A v \in Workers : at[v] \in Attempt /\ at[v].run \in 0..MaxRuns /\ v # None
         /\ \A phase : Returned(phase).attempt = None /\ Returned(phase).run = wf.run
                       /\ (phase \notin Ended => Returned(phase).open = wf.open \/ Returned(phase).open)
                       /\ (phase \in Ended => ~Returned(phase).open)
         /\ \A v \in Workers : /\ Retried(v).open = wf.open /\ Retried(v).run = wf.run
                               /\ Retried(v).attempt # v
                               /\ \A u \in Workers : Retried(v).attempt = u => wf.attempt = u
<1>1. DurableTypeOK /\ StoreTypeOK /\ wf \in Workflow /\ at \in [Workers -> Attempt]
  BY DEF ServedInv, DurableInv, Bounded, DurableTypeOK, StoreTypeOK
<1>2. latest \in Nat /\ wf.run \in Nat /\ wf.attempt \in Workers \cup {None}
  BY <1>1, DurableBounds DEF StoreTypeOK, Workflow
<1>3. \A v \in Workers : at[v] \in Attempt /\ at[v].run \in 0..MaxRuns /\ v # None
  BY <1>1, WorkersAssumption DEF Attempt
<1>4. ASSUME NEW phase
      PROVE  /\ Returned(phase).attempt = None /\ Returned(phase).run = wf.run
             /\ Returned(phase).open = (phase \notin Ended)
  BY <1>1 DEF Returned, Workflow
<1>5. ASSUME NEW v \in Workers
      PROVE  /\ Retried(v).open = wf.open /\ Retried(v).run = wf.run
             /\ Retried(v).attempt = IF wf.attempt = v THEN None ELSE wf.attempt
  BY <1>1 DEF Retried, Workflow
<1> QED
  BY <1>1, <1>2, <1>3, <1>4, <1>5

LEMMA ServedUnits ==
  ASSUME ServedInv, GoodStep, NEW w \in Workers,
         \/ AdvanceStopped(w) \/ AdvanceEnded(w) \/ AdvancePlans(w) \/ AdvanceReady(w)
         \/ AdvanceWaiting(w) \/ AdvanceRecovers(w) \/ SecondSkips(w) \/ SecondSettles(w)
  PROVE  Served' /\ AttemptsServe'
<1>0. DurableTypeOK /\ 0 \in 0..MaxApprovals /\ \A a \in ApprovalId : a \in 0..MaxApprovals
  BY DurableBounds DEF ServedInv, DurableInv, Bounded
<1> PICK i \in RunId, by \in 0..MaxApprovals :
      /\ at[w].run = i /\ at[w].pc # "idle"
      /\ Done(w, i) \/ Begins(w, i, by)
  BY <1>0 DEF AdvanceStopped, AdvanceEnded, AdvancePlans, AdvanceReady, AdvanceWaiting,
              AdvanceRecovers, SecondSkips, SecondSettles, First
<1>1. /\ \A v \in Workers : v # w => at'[v] = at[v]
      /\ at'[w].run = at[w].run
      /\ at'[w].pc = "reports" => at'[w].phase = runs'[i].phase
      /\ UNCHANGED <<latest, queue, wf>>
  <2>1. CASE Done(w, i)
    <3>1. runs' \in [RunId -> Run]
      BY DEF GoodStep, DurableTypeOK, StoreTypeOK
    <3> QED
      BY <1>0, <2>1, <3>1, DoneMoves
  <2>2. CASE Begins(w, i, by)
    BY <1>0, <2>2, BeginMoves
  <2> QED
    BY <2>1, <2>2
<1>2. at[w].run >= 1 /\ ~Lost
  BY DurableBounds DEF ServedInv, AttemptsServe
<1>3. Served'
  BY <1>1, <1>2, WorkflowKept
<1>4. AttemptsServe'
  BY <1>1, <1>2, AttemptMoves
<1> QED
  BY <1>3, <1>4

LEMMA ServedAttempts ==
  ASSUME ServedInv, GoodStep, NEW w \in Workers,
         StartAttempt(w) \/ Reports(w) \/ TimesOut(w) \/ Dies(w) \/ Missing(w)
  PROVE  Served' /\ AttemptsServe'
<1>0. UNCHANGED <<latest, queue, runs>> /\ Stays
  BY DEF StartAttempt, Reports, TimesOut, Dies, Missing, store, others, Stays
<1>1. CASE StartAttempt(w)
  <2>1. /\ wf' = [wf EXCEPT !.attempt = w] /\ wf.open
        /\ at' = [at EXCEPT ![w] = [Resting EXCEPT !.pc = "first", !.run = wf.run]]
    BY <1>1 DEF StartAttempt
  <2>2. wf'.open = wf.open /\ wf'.run = wf.run /\ wf'.attempt = w
    BY <2>1, ServedTypes DEF Workflow, ServedInv, Served
  <2>3. /\ [Resting EXCEPT !.pc = "first", !.run = wf.run].pc = "first"
        /\ [Resting EXCEPT !.pc = "first", !.run = wf.run].run = wf.run
    BY DEF Resting
  <2>4. /\ \A v \in Workers : v # w => at'[v] = at[v]
        /\ at'[w].pc = "first" /\ at'[w].run = wf.run
    BY <2>1, <2>3, ServedTypes
  <2>5. \A v \in Workers : wf'.attempt = v => v = w
    BY <2>2
  <2> QED
    BY <1>0, <2>2, <2>4, <2>5, WorkflowKept, AttemptMoves
<1>2. CASE TimesOut(w)
  <2>1. wf' = Retried(w) /\ UNCHANGED at
    BY <1>2 DEF TimesOut
  <2>2. /\ wf'.open = wf.open /\ wf'.run = wf.run
        /\ \A v \in Workers : wf'.attempt = v => wf.attempt = v
    BY <2>1, ServedTypes
  <2> QED
    BY <1>0, <2>1, <2>2, LostWas, WorkflowKept, AttemptsKept
<1>3. CASE Dies(w)
  <2>1. wf' = Retried(w) /\ at' = [at EXCEPT ![w] = Resting]
    BY <1>3 DEF Dies
  <2>2. /\ wf'.open = wf.open /\ wf'.run = wf.run /\ wf'.attempt # w
        /\ \A v \in Workers : wf'.attempt = v => wf.attempt = v
        /\ at'[w] = Resting /\ \A v \in Workers : v # w => at'[v] = at[v]
    BY <2>1, ServedTypes
  <2> QED
    BY <1>0, <2>2, WorkflowKept, AttemptMoves
\* An attempt on a run that will never exist: the workflow may fail.
<1>4. CASE Missing(w)
  <2>1. /\ at[w].run = 0 /\ at'[w] = Resting
        /\ \A v \in Workers : v # w => at'[v] = at[v]
        /\ wf' = Retried(w) \/ wf' = IF wf.attempt = w THEN Returned("failed") ELSE wf
    BY <1>4, ServedTypes DEF Missing, First
  <2>2. /\ wf'.run = wf.run /\ wf'.attempt # w
        /\ \A v \in Workers : wf'.attempt = v => wf.attempt = v
    BY <2>1, ServedTypes
  <2>3. AttemptsServe'
    BY <1>0, <2>1, <2>2, AttemptMoves
  <2>4. CASE wf' = Retried(w) \/ wf.attempt # w
    <3>1. wf'.open = wf.open
      BY <2>1, <2>4, ServedTypes
    <3> QED
      BY <1>0, <2>2, <2>3, <3>1, WorkflowKept
  <2>5. CASE wf.attempt = w
    <3>1. wf.run = 0
      BY <2>1, <2>5 DEF ServedInv, AttemptsServe
    <3>2. ASSUME NEW i \in RunId, Unlocked, i = latest, runs[i].phase \notin Ended
          PROVE  Orphaned(i)
      BY <3>1, <3>2, DurableBounds DEF ServedInv, Served
    <3>3. queue.open => latest = 0
      BY <3>1, ServedTypes DEF ServedInv, Served
    <3>4. Served'
      BY <1>0, <2>2, <3>1, <3>2, <3>3 DEF Served, Unlocked, Orphaned
    <3> QED
      BY <2>3, <3>4
  <2> QED
    BY <2>4, <2>5
<1>5. CASE Reports(w)
  <2>1. /\ at[w].pc = "reports" /\ at'[w] = Resting
        /\ \A v \in Workers : v # w => at'[v] = at[v]
        /\ wf' = IF wf.attempt = w THEN Returned(at[w].phase) ELSE wf
    BY <1>5, ServedTypes DEF Reports
  <2>2. /\ wf'.run = wf.run /\ wf'.attempt # w
        /\ \A v \in Workers : wf'.attempt = v => wf.attempt = v
    BY <2>1, ServedTypes
  <2>3. AttemptsServe'
    BY <1>0, <2>1, <2>2, AttemptMoves
  <2>4. Served'
    <3>1. CASE wf.attempt # w
      BY <1>0, <2>1, <3>1, WorkflowKept
    <3>2. CASE wf.attempt = w
      <4>1. PICK i \in RunId : i = at[w].run
        <5>1. at[w].run \in 0..MaxRuns /\ at[w].run >= 1
          BY <2>1, ServedTypes DEF ServedInv, AttemptsServe
        <5> QED
          BY <5>1, DurableBounds
      <4>2. i <= latest /\ wf.run = i /\ i \in Nat
        BY <2>1, <3>2, <4>1, DurableBounds DEF ServedInv, DurableInv, Placed, AttemptsServe
      <4>3. Unlocked
        BY <4>2, ServedTypes, DurableBounds DEF ServedInv, Served, Unlocked
      <4>4. ASSUME NEW j \in RunId, j = latest, runs'[j].phase \notin Ended
            PROVE  wf'.open /\ wf'.run = j
        <5>1. runs[j].phase \notin Ended
          BY <4>4, ServedTypes, EndedStays DEF ServedInv
        <5>2. wf.run = j
          BY <4>2, <4>3, <4>4, <5>1, DurableBounds DEF ServedInv, Served, Orphaned
        <5>3. at[w].phase \notin Ended
          BY <2>1, <4>1, <4>2, <5>1, <5>2 DEF ServedInv, AttemptsServe
        <5>4. Returned(at[w].phase).open
          BY <4>2, <4>3, <4>4, <5>1, <5>3, ServedTypes, DurableBounds DEF ServedInv, Served, Orphaned
        <5> QED
          BY <2>1, <2>2, <3>2, <5>2, <5>4
      <4>5. latest # 0
        BY <4>1, <4>2, ServedTypes, DurableBounds
      <4> QED
        BY <1>0, <4>3, <4>4, <4>5 DEF Served, Unlocked
    <3> QED
      BY <3>1, <3>2
  <2> QED
    BY <2>3, <2>4
<1> QED
  BY <1>1, <1>2, <1>3, <1>4, <1>5

\* The workflow, and an attempt that began already, lose the run that was about to commit;
\* the run before it, if there is one, has ended.
LEMMA ServedAborts ==
  ASSUME ServedInv, QueueAborts
  PROVE  Served' /\ AttemptsServe'
<1> DEFINE Left(i) == IF i = latest + 1 THEN 0 ELSE i
<1>1. /\ queue.open /\ ~queue'.open /\ UNCHANGED <<latest, runs>>
      /\ wf'.run = Left(wf.run) /\ wf'.open = wf.open /\ wf'.attempt = wf.attempt
      /\ \A v \in Workers : /\ at'[v].run = Left(at[v].run) /\ at'[v].pc = at[v].pc
                            /\ at'[v].phase = at[v].phase
  <2>1. queue'.open = FALSE /\ queue.open /\ UNCHANGED <<latest, runs>>
    BY ServedTypes DEF QueueAborts, DurableTypeOK, store
  <2>2. wf'.run = Left(wf.run) /\ wf'.open = wf.open /\ wf'.attempt = wf.attempt
    BY ServedTypes DEF QueueAborts, Workflow
  <2>3. ASSUME NEW v \in Workers
        PROVE  at'[v].run = Left(at[v].run) /\ at'[v].pc = at[v].pc /\ at'[v].phase = at[v].phase
    BY ServedTypes DEF QueueAborts, Attempt
  <2> QED
    BY <2>1, <2>2, <2>3
<1>2. latest \in Nat /\ \A i \in RunId : i = latest => runs[i].phase \in {"failed", "cancelled"}
  BY <1>1, ServedTypes DEF ServedInv, RowsInv, FailedBefore
<1>3. wf.run = latest + 1 \/ (wf.run = 0 /\ latest = 0)
  BY <1>1 DEF ServedInv, Served
<1>4. Served'
  BY <1>1, <1>2, <1>3 DEF Served, Unlocked, Ended
<1>5. ASSUME NEW v \in Workers
      PROVE  /\ at[v].run \in Nat /\ at[v].run <= latest + 1
             /\ at[v].pc # "first" => at[v].run <= latest
  BY <1>1, <1>2, ServedTypes, DurableBounds DEF ServedInv, DurableInv, Placed, Newest
<1>6. \A v \in Workers : at[v].pc \in {"second", "reports"} => at'[v].run = at[v].run
  BY <1>1, <1>2, <1>5
<1>7. Lost' => \A v \in Workers : at'[v].run = 0
  <2> SUFFICES ASSUME Lost', NEW v \in Workers PROVE at'[v].run = 0
    OBVIOUS
  <2>1. latest = 0
    <3>1. latest \in RunId => runs[latest].phase = "planning"
      BY <1>1, <1>2 DEF Lost
    <3> QED
      BY <1>2, <3>1, ServedTypes, DurableBounds DEF StoreTypeOK
  <2> QED
    BY <1>1, <1>5, <2>1
<1> QED
  BY <1>1, <1>4, <1>6, <1>7 DEF ServedInv, AttemptsServe

LEMMA ServedQueueing ==
  ASSUME NoHandOver, ServedInv, GoodStep,
         \/ QueueRun \/ QueueRetry \/ \E h \in Chats : QueueChat(h)
         \/ \E h \in Automations : HandOffReads(h) \/ HandOffQueues(h)
         \/ QueueCommits \/ QueueAborts \/ ResumeChecks \/ ResumeStarts
  PROVE  Served' /\ AttemptsServe'
<1>0. \A h \in Automations : FALSE
  BY DEF NoHandOver
<1>1. ASSUME NEW replace, Queue(task, replace), replace \/ latest = 0
      PROVE  Served' /\ AttemptsServe'
  <2>1. /\ Unlocked /\ queue'.open /\ UNCHANGED <<latest, at, runs>>
    BY <1>1 DEF Queue, store
  \* Before the first run: the workflow of a request that rolled back is reused.
  <2>2. CASE wf.open /\ ~replace
    <3>1. UNCHANGED wf /\ latest = 0 /\ wf.run = 0
      BY <1>1, <2>1, <2>2 DEF Queue, StartWorkflow, ServedInv, Served
    <3>2. Served'
      BY <2>1, <3>1 DEF Served, Unlocked
    <3> QED
      BY <2>1, <3>1, <3>2, LostWas, AttemptsKept
  <2>3. CASE ~(wf.open /\ ~replace)
    <3>1. wf' = [open |-> TRUE, run |-> latest + 1, attempt |-> None, waits |-> FALSE]
      BY <1>1, <2>3 DEF Queue, StartWorkflow
    <3>2. wf'.open /\ wf'.run = latest + 1 /\ wf'.attempt = None /\ wf'.run # 0
      BY <3>1, ServedTypes
    <3>3. Served'
      BY <2>1, <3>2, ServedTypes DEF Served, Unlocked
    <3>4. \A v \in Workers : wf'.attempt # v
      BY <3>2, ServedTypes
    <3>5. ~Lost'
      BY <3>2 DEF Lost
    <3> QED
      BY <2>1, <3>3, <3>4, <3>5, AttemptsKept
  <2> QED
    BY <2>2, <2>3
<1>2. CASE QueueRun \/ QueueRetry \/ \E h \in Chats : QueueChat(h)
  BY <1>1, <1>2 DEF QueueRun, QueueRetry, QueueChat
<1>3. CASE QueueCommits
  <2>1. /\ queue.open /\ ~queue'.open /\ latest' = latest + 1 /\ UNCHANGED <<wf, at>>
        /\ runs' = [runs EXCEPT ![latest + 1] = NewRun] /\ latest \in Nat
    BY <1>3, ServedTypes DEF QueueCommits, DurableTypeOK
  <2>2. CASE wf.open /\ wf.run = latest + 1
    <3>1. Served'
      BY <2>1, <2>2, ServedTypes DEF Served, Unlocked
    <3>2. ~Lost'
      BY <2>1, <2>2 DEF Lost
    <3> QED
      BY <2>1, <3>1, <3>2, AttemptsKept
  <2>3. CASE wf.run = 0 /\ latest = 0
    <3>1. \A i \in RunId : i = latest' => Orphaned(i)'
      <4>1. NewRun.phase = "planning"
        BY DEF NewRun
      <4> QED
        BY <2>1, <2>3, <4>1, ServedTypes DEF Orphaned, StoreTypeOK
    <3>2. Served'
      BY <2>1, <2>3, <3>1 DEF Served, Unlocked
    <3>3. Lost
      BY <2>3, DurableBounds DEF Lost
    <3> QED
      BY <2>1, <3>2, <3>3, AttemptsKept
  <2> QED
    BY <2>1, <2>2, <2>3 DEF ServedInv, Served
<1>4. CASE ResumeChecks
  <2>1. UNCHANGED <<latest, queue, wf, at>>
    BY <1>4 DEF ResumeChecks, store
  <2>2. Stays
    BY <1>4 DEF ResumeChecks, store, Stays
  <2> QED
    BY <2>1, <2>2, LostWas, WorkflowKept, AttemptsKept
<1>5. CASE ResumeStarts
  <2>1. /\ resumed # 0 /\ StartWorkflow(resumed, FALSE)
        /\ UNCHANGED <<latest, runs, queue, at>> /\ Stays
    BY <1>5 DEF ResumeStarts, store, Stays
  <2>2. resumed \in Nat /\ resumed <= latest
    BY ServedTypes, DurableBounds DEF DurableTypeOK, ServedInv, DurableInv, Placed
  <2>3. CASE wf.open
    <3>1. UNCHANGED wf
      BY <2>1, <2>3 DEF StartWorkflow
    <3> QED
      BY <2>1, <3>1, LostWas, WorkflowKept, AttemptsKept
  \* The newest run has ended, or its workflow would be open, or it had none until now.
  <2>4. CASE ~wf.open
    <3>1. wf' = [open |-> TRUE, run |-> resumed, attempt |-> None, waits |-> FALSE]
      BY <2>1, <2>4 DEF StartWorkflow
    <3>2. wf'.open /\ wf'.run = resumed /\ wf'.attempt = None
      BY <3>1
    <3>3. Served'
      <4>1. Unlocked /\ latest # 0
        BY <2>1, <2>2, <2>4, ServedTypes DEF ServedInv, Served, Unlocked
      <4>2. ASSUME NEW i \in RunId, i = latest, runs[i].phase \notin Ended
            PROVE  wf'.run = i
        <5>1. i = 1
          BY <2>4, <4>1, <4>2 DEF ServedInv, Served, Orphaned
        <5> QED
          BY <2>1, <2>2, <3>2, <4>2, <5>1
      <4> QED
        BY <2>1, <3>2, <4>1, <4>2 DEF Served, Unlocked
    <3>4. (\A v \in Workers : wf'.attempt # v) /\ ~Lost'
      BY <2>1, <3>2, ServedTypes DEF Lost
    <3> QED
      BY <2>1, <3>3, <3>4, AttemptsKept
  <2> QED
    BY <2>3, <2>4
<1>6. CASE QueueAborts
  BY <1>6, ServedAborts
<1> QED
  BY <1>0, <1>2, <1>3, <1>4, <1>5, <1>6

LEMMA ServedStep ==
  ASSUME NoHandOver
  PROVE  ServedInv /\ [Next]_vars => ServedInv'
<1> SUFFICES ASSUME ServedInv, [Next]_vars PROVE ServedInv'
  OBVIOUS
<1>1. GoodStep /\ DurableInv' /\ RowsInv'
  BY StepKinds, DurableStep, RowsStep DEF ServedInv, DurableInv
<1>2. ASSUME UNCHANGED <<latest, queue, at>>, Stays, wf'.open = wf.open, wf'.run = wf.run,
             wf'.attempt = wf.attempt
      PROVE  Served' /\ AttemptsServe'
  BY <1>1, <1>2, LostWas, WorkflowKept, AttemptsKept
<1>3. ASSUME \/ \E a \in ApprovalId : ApprovalLapses(a) \/ Decide(a) \/ RefuseChangedTarget(a)
             \/ Cancel \/ Archive \/ Unarchive \/ UNCHANGED vars
      PROVE  Served' /\ AttemptsServe'
  <2>1. UNCHANGED <<latest, queue, wf, at>>
    BY <1>3 DEF ApprovalLapses, Decide, RefuseChangedTarget, Cancel, Archive, Unarchive,
                RouteUnit, CancelRows, others, vars, store
  <2>2. Stays
    <3>1. StoreTypeOK /\ DurableTypeOK
      BY ServedTypes
    <3>2. CASE Cancel
      BY <3>1, <3>2, CancelWrites DEF Cancel, Stays, Ended
    <3>3. ASSUME NEW i \in RunId, Fails(i) PROVE Stays
      BY <3>1, <3>3, FailsWrites DEF Stays, Ended, OthersKept
    <3>4. CASE UNCHANGED runs
      BY <3>4 DEF Stays
    <3>5. \A a \in ApprovalId : approvals[a].run \in RunId
      BY <3>1 DEF StoreTypeOK, Approval
    <3> QED
      BY <1>3, <3>2, <3>3, <3>4, <3>5 DEF ApprovalLapses, Decide, RefuseChangedTarget, Archive,
                                      Unarchive, vars, store
  <2> QED
    BY <1>2, <2>1, <2>2
<1>4. ASSUME Wakes
      PROVE  Served' /\ AttemptsServe'
  <2>1. UNCHANGED <<latest, queue, at>> /\ Stays /\ wf' = [wf EXCEPT !.waits = FALSE]
    BY <1>4 DEF Wakes, store, Stays
  <2>2. wf'.open = wf.open /\ wf'.run = wf.run /\ wf'.attempt = wf.attempt
    BY <2>1, ServedTypes DEF Workflow
  <2> QED
    BY <1>2, <2>1, <2>2
<1>5. ASSUME Route \/ QueueCommits \/ QueueAborts
      PROVE  Served' /\ AttemptsServe'
  BY <1>1, <1>3, <1>5, ServedQueueing DEF Route
<1>6. ASSUME NEW w \in Workers, Works(w) \/ TimesOut(w) \/ Dies(w)
      PROVE  Served' /\ AttemptsServe'
  BY <1>1, <1>6, ServedUnits, ServedAttempts DEF Works, FirstUnit
<1>7. Served' /\ AttemptsServe'
  BY <1>3, <1>4, <1>5, <1>6 DEF Next
<1> QED
  BY <1>1, <1>7 DEF ServedInv

LEMMA ServedInit == Init => Served /\ AttemptsServe
<1> SUFFICES ASSUME Init PROVE Served /\ AttemptsServe
  OBVIOUS
<1>1. ~queue.open /\ latest = 0 /\ ~wf.open /\ wf.attempt = None
  BY DEF Init
<1>2. \A v \in Workers : at[v].pc = "idle" /\ at[v].run = 0 /\ v # None
  BY WorkersAssumption DEF Init, Resting
<1>3. \A i \in RunId : i # 0
  BY DurableBounds DEF RunId
<1> QED
  BY <1>1, <1>2, <1>3 DEF Served, AttemptsServe

\* Whatever queueing transactions roll back, and however attempts are lost: a run that has
\* not ended has the open workflow that moves it on, but for a first run that was queued
\* beside the workflow of a request that rolled back; and the task row tells what it does.
THEOREM OpenRunsAreServed ==
  ASSUME NoHandOver
  PROVE  Spec => []OpenRunIsServed
<1>1. Init => ServedInv
  BY DurableInit, RowsInit, ServedInit DEF ServedInv
<1>2. ServedInv /\ [Next]_vars => ServedInv'
  BY ServedStep
<1>3. ServedInv => OpenRunIsServed
  <2> SUFFICES ASSUME ServedInv PROVE OpenRunIsServed
    OBVIOUS
  <2>1. \A i \in RunId : Unlocked /\ i = latest /\ runs[i].phase \notin Ended =>
          (wf.open /\ wf.run = i) \/ Orphaned(i)
    BY DEF ServedInv, Served
  <2>2. \A i \in RunId : i = latest =>
          task.status = IF runs[i].phase = "planning" THEN "queued" ELSE StatusOf(runs[i].phase)
    BY DEF ServedInv, RowsInv, RowTells, RowStatus
  <2> QED
    BY <2>1, <2>2 DEF OpenRunIsServed, ServedInv, DurableInv, Bounded
<1> QED
  BY <1>1, <1>2, <1>3, PTL DEF Spec
=============================================================================
