CONSTANTS
    Messages = {m1, m2}
    Cancels = {k1}
    Inputs = {i1, i2}
    OpLimit = 2
    NoRecord = NoRecord
    NoResult = NoResult
SPECIFICATION MCSpec
SYMMETRY Symmetric
INVARIANTS TypeOK OnceAndCurrent
PROPERTIES SendsAreSafe ObservedRoundIsCurrent
