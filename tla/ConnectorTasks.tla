--------------------------- MODULE ConnectorTasks ---------------------------
(***************************************************************************)
(* Tasks a connector creates with a run that is planned already, and that  *)
(* the task routes (TaskRuns) then cancel, retry and archive like any      *)
(* other:                                                                  *)
(*  - a direct send (delivery.request_delivery, whatsapp.send): when policy*)
(*    allows it the sending request runs the tool itself and settles with  *)
(*    runtime.finish_execution_in_units;                                   *)
(*  - a held request (email drafts, merges, publications): it waits for an *)
(*    approval its draft remembers, and is retired when the draft changes. *)
(***************************************************************************)
EXTENDS TaskRuns

VARIABLES
  sender,  \* the sending request: [pc, run], run is its in-memory copy
  held     \* the approval the draft remembers, 0 for none

connVars == <<vars, sender, held>>

SenderPc == {"sending", "settling", "failing", "saving", "done"}
Sender == [pc : SenderPc, run : Run]

\* The unit that creates the task, its run and the policy's verdict on the call.
ProposeTask(checkpoint) ==
  /\ task = [status |-> StatusOf(checkpoint.phase), archived |-> FALSE, stale |-> FALSE]
  /\ runs = [i \in RunId |-> IF i = 1 THEN checkpoint ELSE NewRun]
  /\ latest = 1
  /\ req = [r \in Reqs |-> Idle]
  /\ acts = [i \in RunId |-> 0]
  /\ approvals = [a \in ApprovalId |->
                    [status |-> IF checkpoint.approval = a THEN "pending" ELSE "expired",
                     run |-> 1, call |-> checkpoint.call, lapsed |-> FALSE]]
  /\ asked = checkpoint.approval

ProposeAllowed ==
  LET checkpoint == Executing(Proposed(NewRun)) IN
  /\ ProposeTask(checkpoint)
  /\ allowed = {1} /\ held = 0
  /\ sender = [pc |-> "sending", run |-> checkpoint]

ProposeHeld ==
  LET checkpoint == Waiting(Proposed(NewRun), 1) IN
  /\ MaxApprovals > 0
  /\ ProposeTask(checkpoint)
  /\ allowed = {} /\ held = 1
  /\ sender = [pc |-> "done", run |-> checkpoint]

ProposeBlocked ==
  LET checkpoint == EndedAs(Proposed(NewRun), "failed") IN
  /\ ProposeTask(checkpoint)
  /\ allowed = {} /\ held = 0
  /\ sender = [pc |-> "done", run |-> checkpoint]

ConnInit == ProposeAllowed \/ ProposeHeld \/ ProposeBlocked

-----------------------------------------------------------------------------
(* runtime.finish_execution_in_units *)

SendReturns ==
  /\ sender.pc = "sending"
  /\ \E pc \in {"settling", "failing"} : sender' = [sender EXCEPT !.pc = pc]
  /\ acts' = [acts EXCEPT ![1] = @ + 1]
  /\ UNCHANGED <<store, req, allowed, held>>

\* save_task and save_run of the objects this request holds since it began: the
\* stored rows are not read again, and its copy of the task was not archived.
SaveOwnCopy(r) ==
  /\ runs' = [runs EXCEPT ![1] = r]
  /\ task' = [status |-> StatusOf(r.phase), archived |-> FALSE, stale |-> FALSE]
  /\ UNCHANGED <<latest, approvals, asked, req, acts, allowed, held>>

SettleSend ==
  \E phase \in {"completed", "failed"} :
    /\ sender.pc = "settling" \/ (sender.pc = "failing" /\ phase = "failed")
    /\ SaveOwnCopy(EndedAs(sender.run, phase))
    /\ sender' = [pc |-> IF sender.pc = "settling" THEN "saving" ELSE "done",
                  run |-> EndedAs(sender.run, phase)]

\* whatsapp.send stores both once more with the message's own outcome; a
\* delivery is done.
SaveSend ==
  /\ sender.pc = "saving"
  /\ SaveOwnCopy(sender.run) \/ UNCHANGED <<vars, held>>
  /\ sender' = [sender EXCEPT !.pc = "done"]

SenderDies ==
  /\ MayDie /\ sender.pc # "done"
  /\ sender' = [sender EXCEPT !.pc = "done"]
  /\ UNCHANGED <<vars, held>>

-----------------------------------------------------------------------------

\* Mutant of Retire: the approval is expired even when it was decided.
RetireDecided ==
  /\ held # 0 /\ task.status \notin Ended
  /\ task' = [task EXCEPT !.status = "cancelled", !.stale = FALSE]
  /\ runs' = [i \in RunId |->
                IF i = latest /\ runs[i].phase \notin Ended
                THEN EndedAs(runs[i], "cancelled") ELSE runs[i]]
  /\ approvals' = [approvals EXCEPT ![held].status = "expired"]
  /\ MarkClaims
  /\ UNCHANGED <<latest, asked, acts, allowed, sender, held>>

\* email_api._retire, developer._retire_merge_task, marketing retire_approval
Retire ==
  /\ held # 0 /\ task.status \notin Ended
  /\ task' = [task EXCEPT !.status = "cancelled", !.stale = FALSE]
  /\ runs' = [i \in RunId |->
                IF i = latest /\ runs[i].phase \notin Ended
                THEN EndedAs(runs[i], "cancelled") ELSE runs[i]]
  /\ approvals' = [a \in ApprovalId |->
                     IF a = held /\ Pending(a)
                     THEN [approvals[a] EXCEPT !.status = "expired"] ELSE approvals[a]]
  /\ MarkClaims
  /\ UNCHANGED <<latest, asked, acts, allowed, sender, held>>

ConnNext ==
  \/ SendReturns \/ SettleSend \/ SaveSend \/ SenderDies
  \/ Retire
  \/ Next /\ UNCHANGED <<sender, held>>

ConnSpec == ConnInit /\ [][ConnNext]_connVars

-----------------------------------------------------------------------------

\* The sender's own copy is a run, and the draft remembers an approval or none.
ConnTypeOK == TypeOK /\ sender \in Sender /\ held \in 0..MaxApprovals
=============================================================================
