# A TLA+ verification of libexcept

libexcept gives C++ programs exceptions that carry a stack trace, and a few
helpers a process needs around them: a scoped signal mask, a check of the files
it inherited, a handler that reports a crash.  The library is small and looks
sequential, but it runs inside other people's processes: in any thread, while
memory, descriptors or symbols are missing, with child processes and signal
masks that outlive the function that touched them.  These modules are about
that part.

All paths below are relative to the root of the repository; the C++ files are
in `libexcept/`.

## 1. Inventory

| Component | State | Operations | Module |
|---|---|---|---|
| exception construction (`exception.cpp`) | `g_collect_stack`; the `f_stack_trace`, `f_parameters` and message of an object | `set_collect_stack()`, the constructors, `set_parameter()`, `get_parameter()`, `what()`, the copies made by throw and catch | `Exception` (construction), `ExceptionObject` (the objects) |
| stack trace collectors (`stack_trace.cpp`) | none of their own; the locals of a call: array, list of symbols, pipe, child process, vector | `collect_stack_trace()`, `collect_stack_trace_with_line_numbers()` | `Exception`, `FrameLine`, `FrameConversion` |
| demangler (`demangle.cpp`) | none | `demangle_cpp_name()` | `FrameLine.Demangle` |
| scoped signal mask (`scoped_signal_mask.cpp`) | the mask of each thread (kernel), `f_original_mask` of each object, `g_has_sanitizer`, `g_has_sanitizer_defined` | constructor, destructor, `has_sanitizer()` | `ScopedSignalMask` (scopes), `ReportSignal` (copies and `pointer_t`) |
| inherited files (`file_inheritance.cpp`) | the descriptor table (kernel), the open directory, `errcnt` | `verify_inherited_files()`, `get_command_line()` | `FileInheritance` |
| crash reporter (`report_signal.cpp`) | the dispositions of signals, `g_signal_actions` | `init_report_signal()`, the handler `report_signal()` | `ReportSignal` |
| version (`version.cpp`) | none | return constants | none: nothing can go wrong |
| `tools/verify_file_inheritance.cpp` | none | a `main()` that calls `verify_inherited_files()` | none |

How they interact:

* an exception's constructor reads the global mode and calls one collector;
  the complete collector runs `eu-addr2line` through `popen()`, once per frame,
  and calls the demangler;
* the crash handler calls the plain collector, which allocates memory; whether
  the kernel calls it at all depends on the masks that `scoped_signal_mask` left;
* the masks and the descriptor table belong to the process: they are what the
  components, their threads and their children share without calling one
  another.

What is hard, and which property answers for it:

| Hard behaviour | Properties |
|---|---|
| the mode changes while exceptions are being built in other threads | `Implements` |
| `std::bad_alloc` in the middle of a collector, with a pipe and a child open | `StreamOwnership`, `Implements`, `ConstructionEnds`, `ConstructionBounded` |
| every thread needs two descriptors at a time for its `popen()` | `TwoDescriptorsPerThreadSuffice`, `FailedPopenFallsBack` |
| the array and the depth of `backtrace()` are computed apart | `BacktraceFits`, `LineInBounds`, `DepthClamped` |
| names with the characters the scanner stops at | `FieldsRecovered`, `NeverMislabels`, `RawLineWhenConversionFails` |
| nested masks are saved and restored whole | `SavedChain`, `ImplementsScopes` |
| the cache of `has_sanitizer()` is marked as valid before it is | `SanitizerSignalsFree` |
| files are opened and closed while `/proc/<pid>/fd` is read in pieces | `LeaksReported`, `ReportsAreFiles`, `FalseAlarmsExplained`, `WarnedOnce`, `ScanEnds`, `ScanBounded` |
| the throw of the debug build, or a `std::bad_alloc`, must close what the scan opened | `OwnDescriptors`, `FatalInDebugOnly` |
| no descriptor is left, precisely when many were inherited | `ReleaseStarts` |
| the parent dies between the two calls of `getppid()` | `MixedOncePerDeath` |
| copies of a mask object, and objects that die in another order or thread | `SanitizedCrashHandled`, `SilentDeathExplained` |
| a crash inside a scope that blocks its signal, between two iterations of `init_report_signal()`, or after one that threw | `SilentDeathExplained` |
| two threads that crash by the same signal: the second one cuts the report of the first short | `SilentDeathExplained` |
| a crash inside the report | `ReportedOncePerInit`, `CrashEnds` |
| a crash inside `malloc()` or `free()`, whose locks the handler needs | `CrashEnds`, `DeadlockStays` |
| a second `init_report_signal()` | `ReportedOncePerInit` |
| catch by value and `throw e.set_parameter()` copy the object | `NeverPassedOver`, `LastValueWins` |
| memory runs out inside `set_parameter()` or a copy | `LastValueWins` |
| messages with a NUL, classes declared over declared classes | `MessageKept` |

## 2. The modules

    ExceptionPromise      what constructing an exception promises
      ^ Implements
    Exception             mode, constructor, collectors, pipes, children
      MCException         its values for TLC;  Exception_proofs  its theorems

    FrameLine             the text of a raw line taken apart and converted
    FrameConversion       one conversion, for every frame and every answer
      MCFrameConversion;  FrameConversion_proofs

    MaskScopes            what scoped masks promise: scopes of blocked signals
      ^ ImplementsScopes
    ScopedSignalMask      objects, sigprocmask(), has_sanitizer(), threads
      MCScopedSignalMask; ScopedSignalMask_proofs

    FileInheritance       the scan of the descriptors, other threads beside it
      MCFileInheritance;  FileInheritance_proofs

    ReportSignal          crashes, their report, and the masks in between
      MCReportSignal;  ReportSignal_proofs

    ExceptionObject       an exception from its construction to its handler
      MCExceptionObject;  ExceptionObject_proofs

### Exception

One construction is a sequence of steps of its thread, cut where another thread,
the kernel or a failure can come in between: `Construct`, `Switch` (the `switch`
on `get_collect_stack()` and the resize), `Symbols`/`SymbolsFail`, then for the
plain collector `Copy`, and for the complete one, frame by frame, `PushRaw` or
`OpenPipe`, `Spawn`, `Convert`, and at last `Return`.  `BadAlloc` may strike
wherever the code allocates, and `Unwind` runs the destructors of the
`unique_ptr`s: `pclose()` waits for the child.  `SetCollectStack` is any other
thread.  `ChildExits` is `eu-addr2line`.

A call stack is the numbers `1..Height`; an entry of a trace is the frame it is
about and whether it is the raw line or a conversion.  What a conversion says is
the matter of `FrameLine`.  `Parsed` are the frames whose raw line the scanner
can take apart.

Two accesses to `g_collect_stack` without synchronisation are a data race.  On
the targets of the library the variable is an aligned `int`, a load gives the
old or the new value, and the interleaving of `Switch` and `SetCollectStack`
produces both.

`crashed` stands for the null pointers the code follows: `fgetc(nullptr)` when
`popen()` fails and the list that `backtrace_symbols()` did not return.  The
process is gone; nothing moves any more.

`ExceptionPromise` is the abstract specification: an exception gets the whole
trace of one mode that was in effect at some moment of its construction, or the
caller gets `std::bad_alloc`.  Under the mapping a thread is *building* while it
is not idle; every step but `Construct`, `SetCollectStack` and the last one of a
construction is a stutter.

### FrameLine and FrameConversion

`FrameLine` is the body of the loop of `collect_stack_trace_with_line_numbers()`:
the scan of `<filename>(<function-name>+<offset>) [<addr>]` and the entry put
together from its fields.  A line is a sequence of tokens; the characters the
scanner stops at are tokens of their own, so that file names containing them can
be enumerated, and so are the four characters ` [0x`, which it only ever tests
together (`Bracket`).  `Stops` are these tokens and `Words` the texts without any
of them; a file name may consist of both.  `FrameConversion` picks a frame, renders it the way the C
library does and compares the entry with the frame.  A file may be named like
the end of a raw line, `x(y) [0x`: no scanner could tell, and `NeverMislabels`
leaves out these names (`Imitates`) and those with a `(` that nothing closes.

### ScopedSignalMask

Each thread has a mask in the kernel and a stack of live objects, each with the
mask it saved.  The constructor is five steps, `Construct`, `TestDefined`,
`Define` and `Dlsym` (for those who find `g_has_sanitizer_defined` down, maybe
several) and `Block`, because another thread can run between them; `Refuse` is the throw on a bad signal;
`Destroy` is the destructor of the last object made, as for automatic variables,
which is how the class is meant to be used.  `StartThread` gives a new thread
the mask of its creator, whatever scopes the creator is in.  A thread that never
runs `Destroy` for an inherited mask keeps it: that is what `base` remembers.

`MaskScopes` is the abstract specification: at all times a thread blocks what it
started with and the union of its open scopes.  The mapping takes what each
object blocked as the set of its scope.

`ProbeFirst` is the constant that says whether `has_sanitizer()` has been called
(by a first mask in `main()`, say) before a second thread exists.  With it, the
refinement holds; without it, see the findings.

### FileInheritance

The scan is modelled below the level of `readdir()`: `Getdents` walks up the
descriptor table one position at a time into a buffer of `BufferSize` entries,
`Readdir` consumes it, and between any two steps other threads `Open` and
`Close` files and `ParentDies`.  A warning is four steps, because each can meet a
change: `Readlink` (and the first `getppid()`, which is printed), `Getppid` (the
second one), `OpenCmdline` and `Warn`.  `get_command_line()` opens a file of its
own, which takes the lowest free descriptor and is closed again before the
directory is read on; it finds nothing when the process it was asked about is
dead.  `BadAlloc` leaves the function wherever it allocates, with `Closedir` and
the destructor of the `ifstream` as on the other ways out.  The
file of a descriptor is the one it was inherited with, another one, or none;
parents are numbered in the order in which the process gets them, and a dead
parent's PID is not used again while the scan runs.
Descriptors have one or two digits, and names
are compared digit by digit as the code does.  `debug` is the `_DEBUG` of the
build, either way.

### ReportSignal

The state is what the kernel knows (the disposition of each signal, the mask of
each thread), what the library knows (where the loop of `init_report_signal()`
is, the saved masks of the `scoped_signal_mask` objects that live), the locks of
`malloc()`, and the calls of `report_signal()` that are on each thread's stack:
the signal of each, and whether it has its trace.  `CallInit` and `Install` are
`init_report_signal()`, one iteration at a time, since a crash can come between
two; `InstallFails` is a `std::bad_alloc` of `make_shared()`, which leaves the
rest of the loop undone.  `Fault` is an instruction of a thread that raises a
signal: the kernel calls the handler (`Deliver`: the disposition goes back to the
default, as `SA_RESETHAND` asks, and the signal is blocked), or ends the process
(`Kill`) when there is no handler or the thread blocks the signal.  `TakeHangup`
is `SIGHUP`, the one of the six that comes from outside, may wait until a thread
unblocks it, and may be ignored from the start, by `nohup`.  The handler is
`Allocate` and `Collect` (`collect_stack_trace()`, which allocates) and `Abort`
(the trace is printed, and `abort()`); it can fault itself before each of them.

`malloc()` has arenas, each with a lock, and a thread allocates from one of them
(`arena`, by any of the `Layouts`); `free()` takes the lock of the arena the
memory came from, which may be any thread's.  So `Malloc` and `Free`, the
program's own use of the allocator, may take the lock of any thread's arena, and
`Allocate` needs that of its own.  As long as only `Main` runs, the allocator
takes no lock.  An allocation that a cache of the thread serves takes no lock
either, which is to skip `Malloc` in the program; the handler is taken to need
its arena, as the vector of a thousand addresses does.

`promised` remembers for which signals the library has said that the crash is
reported: those already installed, and all six once `init_report_signal()` has
returned.

A `scoped_signal_mask` is its saved mask.  `Construct` is the constructor in one
step with `has_sanitizer()` known, since what happens inside is the matter of
`ScopedSignalMask`; `Destroy` restores any saved mask in any thread.  As objects
can be copied, a restored mask may be left in another object or not, and the set
of the saved masks is all there is to know.

### ExceptionObject

One thread of a program: `Construct` an exception of any class, `SetParameter`,
`Throw` it, or `ThrowSet` (`throw e.set_parameter(...)`), let it `FlyPast` the
handlers around it until one matches (`Catch`, by reference or by value) or none
is left (`Terminate`), then complete, `Rethrow` or drop it (`Handled`).  Each
throw and each catch by value copies: `Sliced` makes the object of the static
type from the one there is.  `SetParameterFails` and `OutOfMemory` are the
`std::bad_alloc` of an allocation, the former with its two outcomes: the name is
in the map with an empty value, or not at all.

A message is a sequence of words, with a token for the NUL at which `c_str()`
ends it and one for the `": "` of the macros.  The stack trace is copied with the
object by the implicit copy constructor, and is left out.  What C++ does itself (matching of handlers,
slicing, `std::terminate()`) is marked as external.  Each object carries its
history (what it was given, its class and message, whether it was sliced), which the
properties compare it with and no action reads.

## 3. Runs

| Run | Instance | What it shows |
|---|---|---|
| `exception_faults` | 2 threads, 3 frames (2 convertible), depths -1, 0, 1, 4, clamp 2, 3 descriptors, all faults; 66,000 states up to the symmetry of threads | the construction implements its promise; nothing leaks; no overflow; every step is one towards the end |
| `exception_live` | 2 threads, 2 frames, 4 descriptors, allocation failures; 33,000 states | no crash with two descriptors per thread; every construction ends |
| `exception_clamp` | one depth above the clamp | *violation* of `DepthClamped` |
| `exception_no_descriptors` | 2 threads, 3 descriptors, no injected fault | *violation* of `FailedPopenFallsBack` |
| `frame_conversion` | file names of up to 5 tokens, of a text and the five stops; 222,000 states | fields are recovered, frames never mislabelled |
| `frame_conversion_fails` | file names of 1 token | *violation* of `RawLineWhenConversionFails` |
| `mask_scopes` | 2 threads, up to 3 nested objects, 4 signals, 4 lists (empty, incompatible, unblockable, bad), 3 inherited masks; 172,000 states | the objects implement scopes |
| `mask_sanitizer_race` | the same, threads started before the first mask | *violation* of `SanitizerSignalsFree` |
| `inheritance` | descriptors 0 to 11, four inherited sets, a buffer of 3, 2 changes by other threads, 1 parent that dies, allocations that fail; 823,000 states | the scan is complete, sound and tidy, gives no false alarm of its own, is fatal in debug only, warns once for a descriptor, mixes two parents once at most, and ends in a bounded number of steps |
| `inheritance_full` | every descriptor inherited | *violation* of `ReleaseStarts` |
| `crash_report` | 2 threads, faults `SIGBUS` (not in `g_incompatible_signals`) and `SIGSEGV` (in it), `SIGHUP` ignored at the start, `SIGSEGV` blocked from the start or not, sanitizer, an arena for each thread, 2 calls of `init_report_signal()`, 2 nested reports; 430,000 states | which deaths cut a report short or come without one, how often a signal is reported, that the process ends, and which deadlocks are the exception |
| `exception_object` | five stacks of three handlers, every class, 2 names and the empty one, 2 values, 2 parameters per object, every allocation may fail; 70,000 states | objects keep what they were given, and their handlers catch them |

Why the bounds are enough.  Two threads are all that any interaction here needs:
the threads share one flag, a table of descriptors and a cache, and each hazard
involves one thread in the middle of a call and one other.  The depths are one
below zero, zero, one below the clamp, and one above the clamp and the height of
the stack; three frames give two conversions and a raw line, and one at which a
collector that goes a frame too far is caught converting.  Three descriptors let one thread have its pipe
while the other fails.  Three nested objects are one more than is needed for the
restore of an object that is neither the first nor the last.  Twelve
descriptors give two digit names beginning with each of the digits of a standard
stream that a run can have open; the buffer of three makes several calls of
`getdents()`; two changes are enough to close one file and open another in its
place; one dead parent is enough to mix two.  Two calls of
`init_report_signal()` let the second one find the handler of the first; two
nested reports are a crash inside a report; a bigger nesting repeats it, and none
is deeper than six (`NestingBounded`).  Two arenas are enough for two threads to
crash in `free()`, each with the lock of the other's; `SIGHUP` is ignored at the
start because the default, which kills, is what the other five show.  Two parameters are one set twice, or two of different names, on
an object that is then copied.  `TypeOK` and most safety properties are proved besides for every
value of the constants (5), these bounds included.

`MaxMasks`, `MaxChanges`, `MaxDeaths`, `MaxInits`, `MaxNested` and `MaxSets` are
the only bounds that appear in guards.
`CHECK_DEADLOCK FALSE` is given in every run because every system may stop: a
process that has crashed or was aborted, a scan that is over, a single conversion, a thread that
has constructed all the masks the bound allows.

## 4. Fairness

Liveness is checked under weak fairness of

* each thread's `Step`: the scheduler runs a thread that can run.  Nothing in
  the library waits except `pclose()`, which is a guard of `Pclose`;
* `ChildExits`: `eu-addr2line` reads an executable file and terminates.  Without
  it a construction can hang, and the code has no timeout;
* `Scan`: the thread that called `verify_inherited_files()` is scheduled.  The
  other threads are not required to do anything, and `MaxChanges` bounds how
  often they may interfere; the scan ends in any case because the directory has
  a last position;
* in `ReportSignal`, `Free`, `Allocate`, `Collect` and `Abort` of each thread
  together, under strong fairness: a thread that runs gets out of the allocator
  and on with its handler, and one that waits for a mutex that is released again
  and again gets it: a futex has waiters, and none of them is passed over for
  ever.
  Nothing is asked of the program's other steps, nor of the faults.

## 5. Proofs

The proofs hold for any threads, signals, depths and descriptors that satisfy
the `ConstantsAssumption` of the module.

`Exception_proofs`:

* `TypeCorrect`, `BacktraceFitsCorrect`, `LineInBoundsCorrect`.  `TypeOK` is not
  inductive: that a converted frame exists (`frame : 1..Height`) depends on the
  loop's position.  `Locals` is the strengthening: per thread, what it knows from
  where it is (a positive depth that fits the array, a list of symbols, a trace
  that is a prefix of the call stack with a frame left) and what it holds.
  `TypeOK /\ Locals` is inductive and implies the three;
* `StreamOwnershipCorrect` adds `Streams`: which thread owns each descriptor and
  child, and that no two ends coincide, including the write ends that live only
  inside `popen()`;
* `NoCrashCorrect` counts: when a thread calls `popen()` it holds nothing, each
  other thread holds at most two descriptors, so two are free.  It assumes
  finitely many threads;
* `ImplementsCorrect`: the refinement of `ExceptionPromise`.  It needs `History`,
  that the mode of a running collector is one of those seen since the
  construction began;
* `ConstructionBoundedCorrect`: `Work` counts the steps a construction may still
  take, three for a frame that is left, and the proof goes through the steps to see
  it fall; `Locals` is needed for the frames left (`Size(t) -
  Len(trace[t])`) never to be less than the loop has to go.  `ConstructionEnds`
  adds that a thread with work left can take its step, or waits for a child;
* `ClampedBelow`: the other half of the finding `exception_clamp`.  When no depth
  is above the clamp, no trace is either.

`FrameConversion_proofs`, for lines of any length:

* the scanning loops are a `CHOOSE`, and `ScanFacts` and `ScanIs` say that it is
  the first stop: a set of positions that is not empty has a least one, which
  takes well-foundedness and no induction over the line;
* `ParseExact` is what the scanner does with any line.  `Laid` says where the five
  stops are; the scanner has a result for a line exactly when there are positions
  that satisfy it, and its fields are what is `Between` them;
* `RenderFacts` says what `backtrace_symbols()` wrote, token by token, and
  `ParseRecovers` finds `Laid` in it for a file without a `(`: that is
  `FieldsRecoveredCorrect`.  `ParseRejects` shows that a file whose `(` are all
  closed in its name, with no address behind, leaves no such positions, so the
  raw line is kept: with `ParseRejectsNoFile` that is `NeverMislabelsCorrect`.

`ScopedSignalMask_proofs`:

* `TypeCorrect` needs `ValidSets`: a thread past `sigaddset()` has only signals
  that exist;
* `SavedChainCorrect` by induction with `Unstarted`: a thread that has not
  started has no object, so a mask inherited from a creator that is inside a
  scope starts a new chain;
* `SanitizerSignalsFreeCorrect`, assuming `ProbeFirst`: `AnswerKnown` (the answer
  is right once a second thread exists), `SetsFromLists` and `MasksFromLists`
  (what is about to be blocked, and what is blocked, is what a list asks for);
* `ImplementsScopesCorrect`, assuming `ProbeFirst`: the refinement of
  `MaskScopes`.  `Layers` says that the mask after k objects is what the k objects
  blocked besides the inherited mask; with `SavedChain` it turns the saved mask
  that a destructor puts back into the union of the remaining scopes.

`FileInheritance_proofs`, for tables of up to a hundred descriptors:

* `SkippedNameFacts` is about the comparison of characters alone: of all names
  with one or two digits, it skips the three standard streams;
* `LeaksReportedCorrect` needs `Found`: a leak that stays open is ahead of the
  position in the directory, in the buffer, or reported.  `ReportsAreFiles` and
  `OwnDescriptors` need `Own` (what the scan and the application hold is apart)
  and `Buffered` (an entry is a descriptor the application had, or the scan's
  own);
* `FatalInDebugOnlyCorrect` needs `Counted`: `errcnt` is zero exactly when
  nothing was reported;
* `FalseAlarmsExplainedCorrect` gives each descriptor warned about with another
  file than its own to a change: those the application had and that are not
  steady are no more than the changes, and `WarnedOnce` makes the warnings no
  more than the descriptors;
* `MixedOncePerDeathCorrect` needs `Times`: the parents a warning speaks of are
  in the order in which they died, and not later than the next warning's;
* `WarnedOnceCorrect` needs `Ordered`: what was reported, what is in the buffer
  and the position of the kernel are in ascending order, so that a descriptor
  closed and opened again behind the position is not met again;
* `ScanBoundedCorrect`: `Work` is eight for a position of the directory and seven
  for an entry of the buffer, as an entry that `Getdents` adds costs a position
  and the steps of its warning.  Other threads change neither;
* `ProcessStarts`: the other half of the finding `inheritance_full`.  When what is
  inherited and what other threads may open leave one descriptor free, `opendir()`
  succeeds.  `Room` counts both.

`ReportSignal_proofs`:

* `SilentDeathExplainedCorrect` needs `Armed`: a promised signal has the handler
  or a call of `report_signal()` (`Passed` adds up the iterations of the loop); and
  `Blocked`: a thread blocks the signals it reports.  So a promised signal that
  kills is blocked, or its handler was taken by a call in another thread.
  `SanitizedCrashHandledCorrect` adds `Masked`: every mask and every saved mask
  holds, of `g_incompatible_signals`, only what the process inherited, with the
  exception of a signal a thread reports;
* `ReportedOncePerInitCorrect` counts threads: `Counted` says that the threads
  that report a signal, and one more while the handler is installed, are not more
  than the calls of `init_report_signal()` that have passed its iteration;
* `DeadlockStaysCorrect` needs `OwnArena` (a call of `report_signal()` holds no
  lock but that of its thread's arena): a thread that waits cannot leave its
  innermost call, what is below that call cannot give a lock back, and a further
  signal only puts one more call above that waits for the same lock (`WaitsStep`);
* `NestingBounded` needs `OnlyCrashes`, that no other signal has the handler: with
  `Blocked` the calls on a thread's stack are an injection into the six signals.

`ExceptionObject_proofs`:

* `IsFacts` and `TypesFacts` compute what each class derives from;
  `CStrFacts` and `CStrPrefixed` say what `c_str()` leaves of a message, alone
  and behind a prefix; `TextFacts` puts the two together for each class;
* what holds of an object is `Good`.  `SetGood`, `SetFailsGood`, `SlicedGood` and
  `NewGood` are one lemma for each way to get an object;
* `Matched` relates the handler entered to the exception: the static type of the
  name in the code is one the object derives from, so that slicing to it loses
  nothing it should keep.  `NeverPassedOver` is inductive with it.

Model-checked only: the liveness properties (`ConstructionEnds`, `ScanEnds`,
`CrashEnds`), as fairness is out of reach of the prover.  For the first two the
safety half is proved (`ConstructionBounded`, `ScanBounded`); what is left to TLC
is that a thread that is not done can always take a step, or waits for a child
that ends.  `CrashEnds` has no such measure, since a thread may be delivered
another signal at any time; `NestingBounded` and `ReportedOncePerInit` limit how
often.  Every other property of the passing runs is a theorem.  The properties of
the violation runs are false of the code; `NoCrashCorrect`, `ClampedBelow`,
`ProcessStarts` and `SanitizerSignalsFreeCorrect` say when four of the five cannot
fail.

## 6. Findings

Places where the code and what is written about it disagree, each shown by a run
that TLC ends with a counterexample:

* `exception_clamp`: `stack_trace.cpp:78` says the depth is clamped to 1,000;
  line 107 takes the maximum, and gives `backtrace()` the depth itself;
* `exception_no_descriptors`: two threads collecting complete traces with three
  free descriptors; the `popen()` of one fails and line 256 reads from a null
  stream, while the comment at line 299 promises the raw line;
* `frame_conversion_fails`: when `eu-addr2line` prints nothing, the result is
  ` in <name>` and never empty, so that the fallback of line 299 is not taken and
  the file and the address are lost;
* `mask_sanitizer_race`: `has_sanitizer()` sets `g_has_sanitizer_defined` before
  `g_has_sanitizer`; a second thread reads the old answer and blocks the signals
  that must stay free, though `exception.cpp:128` calls the library thread safe.
  The documentation of the function itself (`scoped_signal_mask.cpp:159`) asks
  for a first call before any thread is started;
* `inheritance_full`: `opendir()` fails when the inherited descriptors fill the
  table and line 113 calls `readdir(nullptr)`; `file_inheritance.cpp:87` says that
  in Release mode the process still starts.

## 7. Not modelled

* The pipe of a `popen()` inherited by a program that another thread starts at
  that moment, which then fails to verify its files.  `StreamOwnership` says that
  the library closes its side; the rest happens in another process.
* What the crash handler and the warnings print, apart from what the properties
  are about: a report cut short while it is printed is one that has its trace and
  no `Abort`; `std::cerr` and its buffer, whose locks the handler may need as well
  as those of `malloc()`.
* A `std::bad_alloc` inside the handler, from which no caller can catch it, and
  the actions that `sigaction()` saves in `g_signal_actions`, which nothing reads.
* `opendir()` that fails for lack of memory (its crash is the one of a full table,
  `inheritance_full`), and a `std::bad_alloc` that `std::getline()` swallows.
* A construction whose `backtrace_symbols()` returns a null pointer to the
  complete collector: the step is there and ends in `crashed`, but no property is
  about it.
* The constructors that take a `char const *` are those of a message without
  NUL; a null pointer is undefined behaviour of the caller.
* The depth of the stack trace an object is given, once it is collected.
* PIDs that are used again while the scan runs, and directories of more than a
  hundred descriptors.
* The version functions, which return four constants of the build, and the tool,
  whose `main()` is one call of `verify_inherited_files()` with nothing allowed.
* Errors of `sigprocmask()`, which cannot happen with the arguments given.
* Formatting.

## 8. Plan

Done: the constructor and its collectors with their promise, the conversion of a
frame, the masks with their promise, the scan with its parents, the crash
reporter composed with masks of any owner, the exception objects; the proofs of
section 5.

Left:

1. `ScopedSignalMask` with more than one owner per object inside its
   constructor: a crash between `sigaddset()` and `sigprocmask()`, which
   `ReportSignal` takes as one step.
2. That a construction, or a scan, which is not done can take a step, as an
   invariant on the guards beside the measures of section 5.
