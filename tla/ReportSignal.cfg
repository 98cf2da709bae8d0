SPECIFICATION FairSpec
CONSTANTS
  Threads = {"main", "worker"}
  Main = "main"
  Nobody = "nobody"
  Signals <- MCSignals
  Unblockable = {"SIGKILL"}
  Inherited <- MCInherited
  Hangups = {"ignore"}
  Lists = {{}}
  Sanitizer = TRUE
  Faults = {"SIGBUS", "SIGSEGV"}
  Arenas = {1, 2}
  Layouts <- MCLayouts
  MaxInits = 2
  MaxNested = 2
INVARIANTS
  TypeOK
  SilentDeathExplained
  SanitizedCrashHandled
  ReportedOncePerInit
PROPERTIES
  CrashEnds
  DeadlockStays
CHECK_DEADLOCK FALSE
