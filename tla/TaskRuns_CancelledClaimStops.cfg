CONSTANTS
  r1 = r1
  r2 = r2
  Reqs = {r1, r2}
  Chats = {}
  MaxRuns = 2
  MaxApprovals = 1
  RunLimit = 2
  MayDie = TRUE
SPECIFICATION Spec
INVARIANT
  CancelledClaimStops
