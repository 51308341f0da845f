CONSTANTS
  p1 = p1
  Processes = {p1}
  Steps <- TaskPauseEmail
  Policy = "skip"
  MaxAttempts = 2
  MaxRuns = 1
  MaxTasks = 2
  MaxCopies = 1
  MaxFaults = 1
SPECIFICATION LiveSpec
PROPERTIES
  UnfinishedWorkIsPickedUp
CHECK_DEADLOCK FALSE
