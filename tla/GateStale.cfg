SPECIFICATION Spec
CONSTANTS
  Lanes = {l1}
  Builder = b
  Gates = {g1}
  Triggers = {"comment"}
  Uses = {"committed"}
  Faults = {"history"}
  MaxHead = 1
  MaxAudits = 1
  MaxEvents = 3
  MaxAttempts = 1
  None = None
INVARIANT
  StaleIsRequeued
CHECK_DEADLOCK FALSE
