SPECIFICATION Spec
CONSTANTS
    codex = codex
    cursor = cursor
    devin = devin
    None = None
INVARIANTS TypeOK HeadlineIsEarned AttemptIsPaidOnce
PROPERTIES CommandsKeep OrdersAreBound
CHECK_DEADLOCK FALSE
