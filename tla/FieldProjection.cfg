SPECIFICATION Spec
CONSTANTS
  Writers = {w1, w2, w3}
  Paths = {p1, p2}
  MaxTxs = 4
SYMMETRY Symmetric
CHECK_DEADLOCK FALSE
INVARIANTS
  ProjectionIsLatest

