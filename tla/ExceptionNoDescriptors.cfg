SPECIFICATION Spec
CONSTANTS
  Threads = {t1, t2}
  None = None
  Height = 3
  Parsed = {1, 3}
  Depths = {3}
  Clamp = 2
  Faults = {}
  Fds = {3, 4, 5}
INVARIANTS
  FailedPopenFallsBack
CHECK_DEADLOCK FALSE
