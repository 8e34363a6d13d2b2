SPECIFICATION Spec
CONSTANTS
  Runs = {r1, r2}
  Prs = {p1, p2}
  Events = {"opened"}
  Requests <- Asked
  Moves = 1
SYMMETRY Symmetry
INVARIANTS TypeOK WrittenOnce
PROPERTY WritesAreOwned
CHECK_DEADLOCK FALSE
