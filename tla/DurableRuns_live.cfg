CONSTANTS
  w1 = w1
  w2 = w2
  None = None
  Workers = {w1, w2}
  Automations = {}
  Chats = {}
  MaxRuns = 2
  MaxApprovals = 1
  RunLimit = 2
  Idempotent = {2}
  MaxLosses = 1
SPECIFICATION LiveSpec
INVARIANTS
  OnlyLatestOpen
  PendingIsAwaited
  NeverRepeated
  OpenRunIsServed
PROPERTIES
  HandlerRunsTheCheckpoint
  CompletedRunsStay
  RunSettles
