---------------------------- MODULE ReportSignal -----------------------------
(***************************************************************************)
(* init_report_signal() and its handler (libexcept/report_signal.cpp), in  *)
(* a process whose threads also block signals with scoped_signal_mask.  A  *)
(* thread may crash anywhere: in the program, in malloc() with its lock    *)
(* taken, in the loop of init_report_signal(), in the handler.             *)
(*                                                                         *)
(* The masks are those the class allows and not only nested scopes: an     *)
(* object can be copied, and one held through its pointer_t dies in any    *)
(* order and in any thread.  has_sanitizer() is known, and a constructor   *)
(* is one step: ScopedSignalMask is about what happens inside.             *)
(***************************************************************************)
EXTENDS Naturals, Sequences, FiniteSets

CONSTANTS Threads, Main,  \* the threads, and the one that runs main()
          Nobody,         \* not a thread
          Signals,        \* the signals sigfillset() adds
          Unblockable,    \* SIGKILL and SIGSTOP, which the kernel never blocks
          Inherited,      \* the masks the process may start with
          Hangups,        \* what it may start with for SIGHUP: nohup ignores it
          Lists,          \* the block_signals passed; {} stands for the empty list
          Sanitizer,      \* whether __lsan_enable is linked in
          Faults,         \* the signals raised by what a thread executes
          Arenas,         \* the arenas of malloc(), each with a lock
          Layouts,        \* which arena each thread allocates from
          MaxInits,       \* a bound on the calls of init_report_signal() ...
          MaxNested       \* ... and on those of report_signal() in a thread

g_incompatible_signals ==
  {"SIGHUP", "SIGINT", "SIGILL", "SIGABRT", "SIGFPE", "SIGKILL", "SIGSEGV", "SIGTERM",
   "SIGCONT", "SIGSTOP", "SIGTSTP", "SIGPROF", "SIGIO"}

\* Mutant of sigs: the loop stops before the last signal.
sigs_OffByOne == <<"SIGHUP", "SIGILL", "SIGTRAP", "SIGBUS", "SIGFPE">>

\* The signals init_report_signal() selects, in the order of its loop.
sigs == <<"SIGHUP", "SIGILL", "SIGTRAP", "SIGBUS", "SIGFPE", "SIGSEGV">>

\* The signals that mean a crash, for its documentation.
Crashes == {"SIGHUP", "SIGILL", "SIGTRAP", "SIGBUS", "SIGFPE", "SIGSEGV"}

ASSUME ConstantsAssumption ==
  /\ IsFiniteSet(Threads) /\ Main \in Threads /\ Nobody \notin Threads
  /\ Crashes \subseteq Signals /\ Faults \subseteq Signals
  /\ Unblockable \subseteq Signals
  /\ Inherited \subseteq SUBSET (Signals \ Unblockable)
  /\ Hangups \subseteq {"default", "ignore"}
  /\ Lists \subseteq SUBSET Signals
  /\ Layouts \subseteq [Threads -> Arenas]
  /\ Sanitizer \in BOOLEAN /\ MaxInits \in Nat /\ MaxNested \in Nat

VARIABLES
  started,           \* the threads that run
  mask,              \* the signals the kernel blocks in each thread
  inherited,         \* history: the mask the process started with
  originals,         \* the f_original_mask of the objects made so far
  disposition,       \* what the kernel does with each signal
  promised,          \* history: the signals with the handler so far, and all of
                     \* them once a call of init_report_signal() has returned
  inits,             \* the calls of init_report_signal() so far
  at,                \* the iteration of its loop; 0 when it is not running
  reports,           \* the calls of report_signal() in each thread, innermost last:
                     \* the signal, and whether it has the stack trace
  arena,             \* the arena of each thread
  heap,              \* who holds the lock of each arena: a thread, with the number
                     \* of its calls of report_signal() at the time
  over               \* how the process ended, by which signal in which thread

masks  == <<started, inherited, originals>>
loop   == <<promised, inits, at>>
malloc == <<arena, heap>>
memory == <<originals, heap>>
report == <<disposition, loop, reports, malloc, over>>
vars   == <<masks, mask, report>>

Init ==
  /\ started = {Main}
  /\ inherited \in Inherited
  /\ mask = [t \in Threads |-> IF t = Main THEN inherited ELSE {}]
  /\ originals = {}
  /\ \E hangup \in Hangups :
       disposition = [s \in Signals |-> IF s = "SIGHUP" THEN hangup ELSE "default"]
  /\ promised = {} /\ inits = 0 /\ at = 0
  /\ reports = [t \in Threads |-> <<>>]
  /\ arena \in Layouts
  /\ heap = [a \in Arenas |-> <<Nobody, 0>>]
  /\ over = [how |-> "no", sig |-> "none", thread |-> Nobody]

-----------------------------------------------------------------------------
\* A thread that runs: it executes the program or a call of report_signal().
Runs(t) == over.how = "no" /\ t \in started

\* The innermost call of report_signal() in thread t; 0 in the program.
Inner(t) == Len(reports[t])

\* It holds the lock of an arena.
InMalloc(t) == \E a \in Arenas : heap[a] = <<t, Inner(t)>>

\* Thread t executes the program, outside of malloc() ...
InProgram(t) == Runs(t) /\ reports[t] = <<>> /\ ~InMalloc(t)

\* ... and of init_report_signal(), which is "not thread safe": one thread calls it.
Outside(t) == InProgram(t) /\ (t = Main => at = 0)

\* A thread starts another one, as pthread_create() does.
StartThread(t, u) ==
  /\ Outside(t)
  /\ u \notin started
  /\ started' = started \cup {u}
  /\ mask' = [mask EXCEPT ![u] = mask[t]]
  /\ UNCHANGED <<inherited, originals, report>>

\* Mutant of Requested: the incompatible signals stay in the set.
Requested_All(list) == IF list = {} THEN Signals ELSE list

\* The set the constructor of scoped_signal_mask blocks.
Requested(list) ==
  (IF list = {} THEN Signals ELSE list) \ IF Sanitizer THEN g_incompatible_signals ELSE {}

\* That constructor.
Construct(t, list) ==
  /\ Outside(t)
  /\ originals' = originals \cup {mask[t]}
  /\ mask' = [mask EXCEPT ![t] = @ \cup (Requested(list) \ Unblockable)]
  /\ UNCHANGED <<started, inherited, report>>

\* The destructor, in any thread.  A copy of the object, with the same mask, may be
\* left: as each can be copied, no mask that was saved is gone for good.
Destroy(t, original) ==
  /\ Outside(t)
  /\ mask' = [mask EXCEPT ![t] = original]
  /\ UNCHANGED <<masks, report>>

-----------------------------------------------------------------------------
\* init_report_signal() is called.
CallInit ==
  /\ Outside(Main)
  /\ inits < MaxInits
  /\ at' = 1
  /\ inits' = inits + 1
  /\ UNCHANGED <<masks, mask, disposition, promised, reports, malloc, over>>

\* Mutant of Install: the loop does not end after the last signal.
Install_Endless ==
  /\ InProgram(Main)
  /\ at \in DOMAIN sigs
  /\ disposition' = [disposition EXCEPT ![sigs[at]] = "handler"]
  /\ promised' = promised \cup {sigs[at]}
  /\ at' = at + 1
  /\ UNCHANGED <<masks, mask, inits, reports, malloc, over>>

\* One iteration of its loop, and the return after the last.  What sigaction() saves
\* in g_signal_actions is never read.
Install ==
  /\ InProgram(Main)
  /\ at \in DOMAIN sigs
  /\ disposition' = [disposition EXCEPT ![sigs[at]] = "handler"]
  /\ promised' = IF at = Len(sigs) THEN Crashes ELSE promised \cup {sigs[at]}
  /\ at' = IF at = Len(sigs) THEN 0 ELSE at + 1
  /\ UNCHANGED <<masks, mask, inits, reports, malloc, over>>

\* make_shared() throws std::bad_alloc, which leaves the loop half done.
InstallFails ==
  /\ InProgram(Main)
  /\ at \in DOMAIN sigs
  /\ at' = 0
  /\ UNCHANGED <<masks, mask, disposition, promised, inits, reports, malloc, over>>

-----------------------------------------------------------------------------
\* Mutant of Deliver: without SA_RESETHAND.
Deliver_NoReset(t, s) ==
  /\ disposition[s] = "handler" /\ s \notin mask[t]
  /\ mask' = [mask EXCEPT ![t] = @ \cup {s}]
  /\ reports' = [reports EXCEPT ![t] = Append(@, [sig |-> s, traced |-> FALSE])]
  /\ UNCHANGED <<disposition, memory, over>>

\* The kernel calls report_signal(), installed with SA_RESETHAND and an empty
\* sa_mask, with the signal blocked.
Deliver(t, s) ==
  /\ disposition[s] = "handler" /\ s \notin mask[t]
  /\ disposition' = [disposition EXCEPT ![s] = "default"]
  /\ mask' = [mask EXCEPT ![t] = @ \cup {s}]
  /\ reports' = [reports EXCEPT ![t] = Append(@, [sig |-> s, traced |-> FALSE])]
  /\ UNCHANGED <<memory, over>>

\* The kernel ends the process, and takes its memory back.
End(how, s, t) ==
  /\ over' = [how |-> how, sig |-> s, thread |-> t]
  /\ originals' = {}
  /\ heap' = [a \in Arenas |-> <<Nobody, 0>>]

Kill(t, s) ==
  /\ End("killed", s, t)
  /\ UNCHANGED <<disposition, mask, reports>>

\* An instruction of thread t faults; a fault cannot be blocked or ignored.
Fault(t, s) ==
  /\ Runs(t) /\ Inner(t) < MaxNested
  /\ \/ Deliver(t, s)
     \/ (disposition[s] # "handler" \/ s \in mask[t]) /\ Kill(t, s)
  /\ UNCHANGED <<started, inherited, loop, arena>>

\* The terminal has hung up: a thread that does not block SIGHUP takes it, at once
\* or when it no longer blocks it.
TakeHangup(t) ==
  /\ Runs(t) /\ Inner(t) < MaxNested
  /\ "SIGHUP" \notin mask[t]
  /\ \/ Deliver(t, "SIGHUP")
     \/ disposition["SIGHUP"] = "default" /\ Kill(t, "SIGHUP")
     \/ disposition["SIGHUP"] = "ignore" /\ UNCHANGED <<disposition, mask, reports, memory, over>>
  /\ UNCHANGED <<started, inherited, loop, arena>>

-----------------------------------------------------------------------------
\* The program of a thread enters malloc(), or free() of memory that any of them
\* allocated, and leaves it.  Before there is a second thread the arenas have no lock.
Malloc(t, a) ==
  /\ InProgram(t) /\ started # {Main}
  /\ heap[a][1] = Nobody
  /\ heap' = [heap EXCEPT ![a] = <<t, 0>>]
  /\ UNCHANGED <<masks, mask, disposition, loop, reports, arena, over>>

\* Thread t gives its lock back.
Release(t) ==
  heap' = [a \in Arenas |-> IF heap[a] = <<t, Inner(t)>> THEN <<Nobody, 0>> ELSE heap[a]]

Free(t) ==
  /\ Runs(t)
  /\ reports[t] = <<>> /\ InMalloc(t)
  /\ Release(t)
  /\ UNCHANGED <<masks, mask, disposition, loop, reports, arena, over>>

\* The innermost call of report_signal() in thread t has its trace, or not yet.
Traced(t)     == reports[t] # <<>> /\ reports[t][Inner(t)].traced
Collecting(t) == reports[t] # <<>> /\ ~reports[t][Inner(t)].traced

\* collect_stack_trace() allocates, once the lock of the arena is free ...
Allocate(t) ==
  /\ Runs(t) /\ started # {Main}
  /\ Collecting(t) /\ ~InMalloc(t)
  /\ heap[arena[t]][1] = Nobody
  /\ heap' = [heap EXCEPT ![arena[t]] = <<t, Inner(t)>>]
  /\ UNCHANGED <<masks, mask, disposition, loop, reports, arena, over>>

\* Mutant of Collect: the trace is collected without an allocation.
Collect_Unallocated(t) ==
  /\ Runs(t)
  /\ Collecting(t)
  /\ reports' = [reports EXCEPT ![t][Inner(t)].traced = TRUE]
  /\ UNCHANGED <<masks, mask, disposition, loop, malloc, over>>

\* ... and has the trace.
Collect(t) ==
  /\ Runs(t)
  /\ Collecting(t)
  /\ InMalloc(t) \/ started = {Main}
  /\ Release(t)
  /\ reports' = [reports EXCEPT ![t][Inner(t)].traced = TRUE]
  /\ UNCHANGED <<masks, mask, disposition, loop, arena, over>>

\* Mutant of Abort: the handler raises its signal again, which waits as it is blocked.
Abort_Raise(t) == Runs(t) /\ Traced(t) /\ UNCHANGED vars

\* The handler prints the trace and ends in abort(), which nothing blocks.
Abort(t) ==
  /\ Runs(t)
  /\ Traced(t)
  /\ End("aborted", "SIGABRT", t)
  /\ UNCHANGED <<started, inherited, mask, disposition, loop, reports, arena>>

Next ==
  \/ CallInit \/ Install \/ InstallFails
  \/ \E t \in Threads :
       \/ \E u \in Threads : StartThread(t, u)
       \/ \E list \in Lists : Construct(t, list)
       \/ \E original \in originals : Destroy(t, original)
       \/ \E s \in Faults : Fault(t, s)
       \/ TakeHangup(t)
       \/ \E u \in Threads : Malloc(t, arena[u])
       \/ Free(t) \/ Allocate(t) \/ Collect(t) \/ Abort(t)

Spec == Init /\ [][Next]_vars

\* Threads run, and one that waits for a lock that is free again and again gets it.
FairSpec ==
  Spec /\ \A t \in Threads : SF_vars(Free(t) \/ Allocate(t) \/ Collect(t) \/ Abort(t))

-----------------------------------------------------------------------------
TypeOK ==
  /\ started \subseteq Threads /\ Main \in started
  /\ mask \in [Threads -> SUBSET Signals]
  /\ inherited \subseteq Signals /\ originals \subseteq SUBSET Signals
  /\ disposition \in [Signals -> {"default", "ignore", "handler"}]
  /\ promised \subseteq Crashes /\ inits \in 0..MaxInits /\ at \in 0..6
  /\ reports \in [Threads -> Seq([sig : Signals, traced : BOOLEAN])]
  /\ arena \in [Threads -> Arenas]
  /\ heap \in [Arenas -> (Threads \cup {Nobody}) \X Nat]
  /\ over \in [how : {"no", "killed", "aborted"}, sig : Signals \cup {"none", "SIGABRT"},
               thread : Threads \cup {Nobody}]

\* A call of report_signal() in thread t is about s.
Reports(t, s) == \E i \in DOMAIN reports[t] : reports[t][i].sig = s

\* report_signal() was entered for s; its report may be cut short.
Entered(s) == \E t \in Threads : Reports(t, s)

(***************************************************************************)
(* "This function sets up the callbacks of all the signals representing a  *)
(* crash.  The callback will print the stack to stderr"                    *)
(* (report_signal.cpp:97).  For every signal once it has returned, and for *)
(* those already done when it has not, the signal kills the process,       *)
(* before the abort() that ends a report, in two cases only.  The thread   *)
(* that crashes blocks it, as it does during its own report of it.  Or, by *)
(* SA_RESETHAND, the handler was taken by another thread, whose report     *)
(* this crash may cut short with nothing printed.                          *)
(***************************************************************************)
SilentDeathExplained ==
  over.how = "killed" /\ over.sig \in promised =>
    \/ over.sig \in mask[over.thread]
    \/ \E t \in Threads \ {over.thread} : Reports(t, over.sig)

(***************************************************************************)
(* With the sanitizer no scoped_signal_mask keeps the handler from being   *)
(* entered: whatever is copied, in whatever order and thread the objects   *)
(* die, and wherever threads are started, no crash by one of               *)
(* g_incompatible_signals kills the process before report_signal() was     *)
(* entered for it, unless the process was started with the signal blocked. *)
(* How far the report gets is the matter of SilentDeathExplained.          *)
(***************************************************************************)
SanitizedCrashHandled ==
  /\ Sanitizer /\ over.how = "killed"
  /\ over.sig \in (promised \cap g_incompatible_signals) \ inherited
  => Entered(over.sig)

(***************************************************************************)
(* SA_RESETHAND (report_signal.cpp:130) and the blocked signal keep        *)
(* crashes from being reported for ever: a thread does not report a signal *)
(* inside the report of that signal, and the threads together enter the    *)
(* handler for it at most once for each call of init_report_signal().      *)
(***************************************************************************)
ReportedOncePerInit ==
  /\ \A t \in Threads : \A i, j \in DOMAIN reports[t] :
       reports[t][i].sig = reports[t][j].sig => i = j
  /\ \A s \in Signals : Cardinality({t \in Threads : Reports(t, s)}) <= inits

\* Thread t, in its report, waits for a lock that u took before its own report began.
WaitsFor(t, u) ==
  /\ Collecting(t)
  /\ \E n \in 0..Inner(u) - 1 : heap[arena[t]] = <<u, n>>

\* The threads of D wait for each other: for itself, a thread that crashed in malloc();
\* for one another, two that crashed in free(), each with the lock of the other's arena.
Deadlocked(D) == \A t \in D : \E u \in D : WaitsFor(t, u)

(***************************************************************************)
(* What excuses a report from its end (CrashEnds) is a deadlock: as        *)
(* report_signal() allocates (report_signal.cpp:75), the threads that wait *)
(* for the locks they hold themselves wait for ever, whatever the others   *)
(* do and whatever further signal is delivered to them, as long as the     *)
(* process lasts.                                                          *)
(***************************************************************************)
DeadlockStays ==
  [][\A D \in SUBSET Threads : Deadlocked(D) => Deadlocked(D)' \/ over'.how # "no"]_vars

(***************************************************************************)
(* Crashes that enter report_signal() end the process, in spite of what    *)
(* the other threads allocate and of crashes inside the reports, unless    *)
(* all the threads in a report wait for each other, for locks they took in *)
(* malloc() or free() before they crashed.                                 *)
(***************************************************************************)
CrashEnds ==
  (\E t \in Threads : reports[t] # <<>>) ~>
    (over.how # "no" \/ Deadlocked({t \in Threads : reports[t] # <<>>}))
=============================================================================
