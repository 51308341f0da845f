CONSTANTS
  p1 = p1
  Processes = {p1}
  Steps <- TaskPauseEmail
  Policy = "skip"
  MaxAttempts = 2
  MaxRuns = 2
  MaxTasks = 3
  MaxCopies = 2
  MaxFaults = 1
SPECIFICATION LiveSpec
INVARIANTS
  OneActiveUnderSkip
  StepsAreBacked
PROPERTIES
  EndedRunsStand
  RunsMoveOn
CHECK_DEADLOCK FALSE
