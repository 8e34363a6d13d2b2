SPECIFICATION Spec
CONSTANTS
  Lanes = {l1}
  Builder = b
  Gates = {g1, g2}
  Triggers = {"event"}
  Uses = {"committed", "override"}
  Faults = {}
  MaxHead = 1
  MaxAudits = 0
  MaxEvents = 3
  MaxAttempts = 1
  None = None
INVARIANT
  OwnerSawTheHead
CHECK_DEADLOCK FALSE
