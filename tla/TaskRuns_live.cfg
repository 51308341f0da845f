CONSTANTS
  r1 = r1
  r2 = r2
  Reqs = {r1, r2}
  Chats = {}
  MaxRuns = 2
  MaxApprovals = 2
  RunLimit = 2
  MayDie = FALSE
SPECIFICATION LiveSpec
PROPERTIES
  RunningEnds
