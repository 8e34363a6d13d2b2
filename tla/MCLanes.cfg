SPECIFICATION Spec
CONSTANTS
    codex = codex
    claude = claude
    devin = devin
    outsider = outsider
    None = None
    MaxPulls = 1
    MaxPushes = 2
    MaxOutside = 1
    MaxRounds = 2
SYMMETRY Symmetry
INVARIANTS TypeOK HandoffIsSafe LineageIsPublic DeliveryIsReal
 
CHECK_DEADLOCK FALSE
