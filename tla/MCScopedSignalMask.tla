-------------------------- MODULE MCScopedSignalMask -------------------------
(* Model values of ScopedSignalMask: SIGKILL cannot be blocked, SIGSEGV is *)
(* incompatible with the sanitizer, 99 is not a signal.                    *)
EXTENDS ScopedSignalMask

MCLists     == {{}, {"SIGSEGV", "SIGUSR1"}, {"SIGKILL", "SIGUSR2"}, {"SIGUSR1", "99"}}
MCTwoLists  == {{}, {"SIGSEGV", "SIGUSR1"}}
MCInherited == {{}, {"SIGUSR1"}, {"SIGSEGV"}}
=============================================================================
