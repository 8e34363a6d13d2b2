SPECIFICATION Spec
CONSTANTS
    cursor = cursor
    codex = codex
    claude = claude
    devin = devin
    s1 = s1
    c1 = c1
    owner = owner
    r1 = r1
    r2 = r2
    r3 = r3
    p1 = p1
    p2 = p2
    None = None
PROPERTIES PollsConclude HandoffsEnd ContextIsAttached
CHECK_DEADLOCK FALSE
