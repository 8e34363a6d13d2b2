SPECIFICATION LockSpec
CONSTANTS
  Audits = {a1, a2, a3}
  Viewers = {v1}
INVARIANT
  OneActiveAudit
CHECK_DEADLOCK FALSE
