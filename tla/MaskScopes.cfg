SPECIFICATION Spec
CONSTANTS
  Threads = {"main", "worker"}
  Main = "main"
  Signals = {"SIGKILL", "SIGSEGV", "SIGUSR1", "SIGUSR2"}
  Unblockable = {"SIGKILL"}
  Incompatible = {"SIGKILL", "SIGSEGV"}
  Inherited <- MCInherited
  Lists <- MCLists
  Sanitizer = TRUE
  ProbeFirst = TRUE
  MaxMasks = 3
INVARIANTS
  TypeOK
  SavedChain
  SanitizerSignalsFree
PROPERTIES
  ImplementsScopes
CHECK_DEADLOCK FALSE
