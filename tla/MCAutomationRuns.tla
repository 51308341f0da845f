-------------------------- MODULE MCAutomationRuns --------------------------
(* AutomationRuns on a small workflow. *)
EXTENDS AutomationRuns, TLC

TaskPauseEmail == <<"task", "note", "pause", "email">>
=============================================================================
