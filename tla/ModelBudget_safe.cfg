CONSTANTS
  Org = Org
  NoLimit = NoLimit
  w1 = w1
  w2 = w2
  c1 = c1
  c2 = c2
  Workspaces = {w1, w2}
  Callers = {c1, c2}
  Limits = {3, NoLimit}
  First <- FirstLimits
  MaxCost = 2
  Percents = {50, 100}
  MaxMonth = 2
  MaxUsed = 2
  MaxChanges = 1
  MaxDeaths = 1
SPECIFICATION Spec
SYMMETRY CallerSymmetry
VIEW BudgetView
INVARIANTS
  WithinOvershoot
  CrossedOnce
CHECK_DEADLOCK FALSE
