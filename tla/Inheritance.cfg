SPECIFICATION FairSpec
CONSTANTS
  MaxFd = 11
  Inherited <- MCInherited
  Allowed = {5}
  BufferSize = 3
  MaxChanges = 2
  MaxDeaths = 1
INVARIANTS
  TypeOK
  LeaksReported
  ReportsAreFiles
  FalseAlarmsExplained
  MixedOncePerDeath
  WarnedOnce
  OwnDescriptors
  FatalInDebugOnly
PROPERTIES
  ScanEnds
  ScanBounded
CHECK_DEADLOCK FALSE
