SPECIFICATION Spec
CONSTANTS
  Threads = {t1, t2}
  None = None
  Height = 3
  Parsed = {1, 2}
  Depths <- MCDepths
  Clamp = 2
  Faults = {"alloc", "symbols", "popen"}
  Fds = {3, 4, 5}
SYMMETRY MCSymmetry
INVARIANTS
  TypeOK
  StreamOwnership
  BacktraceFits
  LineInBounds
PROPERTIES
  Implements
  ConstructionBounded
CHECK_DEADLOCK FALSE
