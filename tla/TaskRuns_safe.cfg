CONSTANTS
  r1 = r1
  c = c
  Reqs = {r1, c}
  Chats = {c}
  MaxRuns = 3
  MaxApprovals = 1
  RunLimit = 2
  MayDie = TRUE
SPECIFICATION Spec
INVARIANTS
  OnlyLatestOpen
  PendingIsAwaited
  WaitingIsDecidable
  StatusAgrees
  OneWorker
  ToolCallsBacked
  ArchivedIsIdle
  WithinRunLimit
PROPERTIES
  EndedRunsStay
  ToolCallsAuthorised
  EndedTaskNeedsClaim
