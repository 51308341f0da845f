CONSTANTS
  w1 = w1
  w2 = w2
  None = None
  c = c
  h = h
  Workers = {w1, w2}
  Automations = {h}
  Chats = {c}
  MaxRuns = 2
  MaxApprovals = 1
  RunLimit = 1
  Idempotent = {2}
  MaxLosses = 1
SPECIFICATION Spec
SYMMETRY WorkerSymmetry
INVARIANTS
  NeverRepeated
PROPERTIES
  HandlerRunsTheCheckpoint
  HandlerIsAuthorised
