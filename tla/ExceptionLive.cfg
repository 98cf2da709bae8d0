SPECIFICATION FairSpec
CONSTANTS
  Threads = {t1, t2}
  None = None
  Height = 2
  Parsed = {1}
  Depths = {0, 2}
  Clamp = 2
  Faults = {"alloc"}
  Fds = {3, 4, 5, 6}
INVARIANTS
  TwoDescriptorsPerThreadSuffice
PROPERTIES
  ConstructionEnds
CHECK_DEADLOCK FALSE
