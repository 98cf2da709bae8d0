SPECIFICATION Spec
CONSTANTS
  MaxFd = 5
  Inherited <- MCFull
  Allowed = {5}
  BufferSize = 3
  MaxChanges = 0
  MaxDeaths = 0
INVARIANTS
  ReleaseStarts
CHECK_DEADLOCK FALSE
