SPECIFICATION HostSpec
CONSTANTS
  Heads = {h1, h2}
  Keys = {k1, k2}
  RuntimeCalls = 6
  Answers = 1
  Fixes = 1
  Reviews = 2
  Generations = 2
  Defs = {d1, d2}
  Junk = Junk
  None = None
  MaxCode = 1
  MaxOps = 2
  MaxFaults = 3
  Required = {1}
  Revs = {r1}
  Nothing = Nothing
  MaxHead = 1
  MaxBase = 1
  MaxRuns = 1
  MaxMishaps = 1
SYMMETRY Symmetry
INVARIANTS ServiceIsKept TypeOK SpendingIsRecorded ReviewIsOfFinishedWork
PROPERTIES QuietAfterStop ReviewsAreGrounded
CHECK_DEADLOCK FALSE
