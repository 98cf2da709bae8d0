SPECIFICATION Spec
CONSTANTS
  Threads = {"main", "worker"}
  Main = "main"
  Signals = {"SIGKILL", "SIGSEGV", "SIGUSR1", "SIGUSR2"}
  Unblockable = {"SIGKILL"}
  Incompatible = {"SIGKILL", "SIGSEGV"}
  Inherited <- MCInherited
  Lists <- MCTwoLists
  Sanitizer = TRUE
  ProbeFirst = FALSE
  MaxMasks = 2
INVARIANTS
  SanitizerSignalsFree
CHECK_DEADLOCK FALSE
