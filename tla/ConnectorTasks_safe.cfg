CONSTANTS
  r1 = r1
  Reqs = {r1}
  Chats = {}
  MaxRuns = 2
  MaxApprovals = 2
  RunLimit = 2
  MayDie = TRUE
SPECIFICATION ConnSpec
INVARIANTS
  ToolCallsBacked
PROPERTIES
  ToolCallsAuthorised
