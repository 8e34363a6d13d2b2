SPECIFICATION MCSpec
CONSTANTS
  Audits = {a1, a2, a3}
  Viewers = {v1}
  Jobs = {j1, j2}
  MaxPush = 1
  MaxRuns = 3
  MaxFaults = 3
  NoJob = None
  PageSize = 2
  MaxItems = 4
  MaxResponse = 2
  MaxTotal = 20
  MaxRequests = 12
  Sizes = {1, 2}
  MaxStart = 3
  MaxChanges = 2
  l1 = l1
  l2 = l2
  b = b
  g1 = g1
  g2 = g2
  j1 = j1
  j2 = j2
  None = None
INVARIANTS
  Typed
  ExclusiveUntilReaped
  VerdictsAreSealed
  HistoryIsWhole
  GreenIsEarned
CHECK_DEADLOCK FALSE
