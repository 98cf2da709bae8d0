--------------------------- MODULE MCReportSignal ----------------------------
(* Model values of ReportSignal: the signals of crashes and SIGKILL; the   *)
(* process may be started with SIGSEGV blocked; each thread allocates from *)
(* an arena of its own, and frees memory of the other one's too.           *)
EXTENDS ReportSignal

MCSignals   == Crashes \cup {"SIGKILL"}
MCInherited == {{}, {"SIGSEGV"}}
MCLayouts   == {[t \in Threads |-> IF t = Main THEN 1 ELSE 2]}
=============================================================================
