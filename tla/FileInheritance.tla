--------------------------- MODULE FileInheritance ---------------------------
(***************************************************************************)
(* verify_inherited_files() (libexcept/file_inheritance.cpp), run by one   *)
(* thread while the other threads of the process open and close files and  *)
(* its parents may die, one after the other.                               *)
(*                                                                         *)
(* /proc/<pid>/fd is read as the C library and the kernel do it: readdir() *)
(* hands out the entries of a buffer, which getdents() fills with the      *)
(* descriptors it finds open as it walks up the table.                     *)
(***************************************************************************)
EXTENDS Integers, Sequences, FiniteSets

CONSTANTS MaxFd,       \* the last descriptor the process may have
          Inherited,   \* the sets of descriptors it may inherit
          Allowed,     \* the argument allowed
          BufferSize,  \* the entries that fit in the buffer of readdir()
          MaxChanges,  \* a bound on what the other threads open and close ...
          MaxDeaths    \* ... and on the parents that die

ASSUME ConstantsAssumption ==
  /\ MaxFd \in 0..99
  /\ Inherited \subseteq SUBSET (0..MaxFd)
  /\ BufferSize \in Nat \ {0} /\ MaxChanges \in Nat /\ MaxDeaths \in Nat

VARIABLES
  debug,      \* whether _DEBUG was defined for the build; never changes
  pc,         \* where the scan is
  files,      \* the descriptors open for the application ...
  dir,        \* ... for opendir(), a set of at most one ...
  cmdline,    \* ... and for the ifstream of get_command_line(), likewise
  pos,        \* the position of the kernel in the directory
  buffer,     \* the entries readdir() has not returned yet
  warning,    \* the warning being put together: what readlink() gave, the
              \* parent whose PID is printed, and the one whose command line is
  reported,   \* the warnings: descriptor, file, and these two
  errcnt,
  outcome,    \* how the function ended
  parent,     \* the number of parents that died, which tells what getppid() gives
  changes,    \* the number of changes made by the other threads
  steady,     \* history: the inherited descriptors never closed so far
  used        \* history: the descriptors the application had during the scan

env  == <<debug, parent, files, changes, steady, used>>   \* what the scan leaves alone
scan == <<pc, dir, cmdline, pos, buffer, warning, reported, errcnt, outcome>>
vars == <<env, scan>>

Free == (0..MaxFd) \ (files \cup dir \cup cmdline)

\* The lowest of a set of descriptors, as a set; empty when there is none.
Lowest(S) == {n \in S : \A m \in S : n <= m}

\* The entries of the directory: ".", ".." and one name per descriptor.
Digits == <<"0", "1", "2", "3", "4", "5", "6", "7", "8", "9">>

Basename(p) == CASE p = -2 -> <<".">>
                 [] p = -1 -> <<".", ".">>
                 [] p \in 0..9 -> <<Digits[p + 1]>>
                 [] OTHER -> <<Digits[(p \div 10) + 1], Digits[(p % 10) + 1]>>

Listed(p) == p \in {-2, -1} \cup files \cup dir

\* Mutant of SkippedName: "." and ".." are not expected in the directory.
SkippedName_NotHidden(basename) == basename[1] \in {"0", "1", "2"} /\ Len(basename) = 1

\* Mutant of SkippedName: only the first digit is compared.
SkippedName_FirstDigit(basename) == basename[1] \in {".", "0", "1", "2"}

\* The entries skipped by their name: hidden files, stdin, stdout and stderr.
SkippedName(basename) ==
  \/ basename[1] = "."
  \/ basename[1] \in {"0", "1", "2"} /\ Len(basename) = 1

\* Mutant of Skipped: the descriptor of opendir() is not recognised.
Skipped_NotDir(p) == SkippedName(Basename(p)) \/ p \in Allowed

\* The entries the loop continues on.
Skipped(p) == SkippedName(Basename(p)) \/ p \in dir \/ p \in Allowed

\* No warning is being put together.
NoWarning == [file |-> "", ppid |-> 0, asked |-> 0]

Init ==
  /\ debug \in BOOLEAN
  /\ pc = "opendir"
  /\ files \in Inherited
  /\ dir = {} /\ cmdline = {}
  /\ pos = -2
  /\ buffer = <<>>
  /\ warning = NoWarning
  /\ reported = {}
  /\ errcnt = 0
  /\ outcome = "none"
  /\ parent = 0 /\ changes = 0
  /\ steady = files
  /\ used = files

-----------------------------------------------------------------------------
\* Another thread opens a file, which gets the lowest free descriptor ...
Open ==
  /\ changes < MaxChanges
  /\ Free # {}
  /\ files' = files \cup Lowest(Free)
  /\ used' = used \cup Lowest(Free)
  /\ changes' = changes + 1
  /\ UNCHANGED <<debug, parent, steady, scan>>

\* ... or closes one.
Close(fd) ==
  /\ changes < MaxChanges
  /\ fd \in files
  /\ files' = files \ {fd}
  /\ steady' = steady \ {fd}
  /\ changes' = changes + 1
  /\ UNCHANGED <<debug, parent, used, scan>>

\* The parent dies, and the process gets another one.
ParentDies ==
  /\ parent < MaxDeaths
  /\ parent' = parent + 1
  /\ UNCHANGED <<debug, files, changes, steady, used, scan>>

\* opendir(), whose failure is not tested: readdir(nullptr) is a crash.
Opendir ==
  /\ pc = "opendir"
  /\ dir' = Lowest(Free)
  /\ pc' = IF dir' = {} THEN "crashed" ELSE "getdents"
  /\ UNCHANGED <<env, cmdline, pos, buffer, warning, reported, errcnt, outcome>>

\* getdents() looks at one position of the directory.
Getdents ==
  /\ pc = "getdents"
  /\ pos <= MaxFd
  /\ Len(buffer) < BufferSize
  /\ buffer' = IF Listed(pos) THEN Append(buffer, pos) ELSE buffer
  /\ pos' = pos + 1
  /\ UNCHANGED <<env, pc, dir, cmdline, warning, reported, errcnt, outcome>>

\* Mutant of GetdentsReturns: the end of the directory is not noticed.
GetdentsReturns_NoEnd ==
  /\ pc = "getdents"
  /\ pos > MaxFd \/ Len(buffer) = BufferSize
  /\ pc' = "readdir"
  /\ UNCHANGED <<env, dir, cmdline, pos, buffer, warning, reported, errcnt, outcome>>

\* It returns, because the buffer is full or the directory at its end.
GetdentsReturns ==
  /\ pc = "getdents"
  /\ pos > MaxFd \/ Len(buffer) = BufferSize
  /\ pc' = IF buffer = <<>> THEN "end" ELSE "readdir"
  /\ UNCHANGED <<env, dir, cmdline, pos, buffer, warning, reported, errcnt, outcome>>

\* readdir() has an entry, and the loop continues or warns about it.
Readdir ==
  /\ pc = "readdir"
  /\ buffer # <<>>
  /\ IF Skipped(Head(buffer)) THEN buffer' = Tail(buffer) /\ UNCHANGED pc
                              ELSE pc' = "report" /\ UNCHANGED buffer
  /\ UNCHANGED <<env, dir, cmdline, pos, warning, reported, errcnt, outcome>>

\* readdir() has none left and asks the kernel.
ReaddirRefills ==
  /\ pc = "readdir"
  /\ buffer = <<>>
  /\ pc' = "getdents"
  /\ UNCHANGED <<env, dir, cmdline, pos, buffer, warning, reported, errcnt, outcome>>

\* What readlink() gives for a descriptor: the file inherited, another one, or nothing.
Link(fd) == IF fd \in steady THEN "inherited" ELSE IF fd \in files THEN "other" ELSE ""

\* Mutant of Printed: the PID was kept when the process started.
Printed_Kept == 0

\* The first getppid(), whose result is printed.
Printed == parent

\* The warning: the file of the descriptor, and a PID ...
Readlink ==
  /\ pc = "report"
  /\ warning' = [file |-> Link(Head(buffer)), ppid |-> Printed, asked |-> 0]
  /\ pc' = "getppid"
  /\ UNCHANGED <<env, dir, cmdline, pos, buffer, reported, errcnt, outcome>>

\* ... another getppid(), for get_command_line() ...
Getppid ==
  /\ pc = "getppid"
  /\ warning' = [warning EXCEPT !.asked = parent]
  /\ pc' = "open"
  /\ UNCHANGED <<env, dir, cmdline, pos, buffer, reported, errcnt, outcome>>

\* ... which opens a file of its own, if it can and the parent still lives ...
OpenCmdline ==
  /\ pc = "open"
  /\ cmdline' = IF warning.asked = parent THEN Lowest(Free) ELSE {}
  /\ pc' = "warn"
  /\ UNCHANGED <<env, dir, pos, buffer, warning, reported, errcnt, outcome>>

\* Mutant of Incremented: a flag rather than a count.
Incremented_Flag == 1

\* ++errcnt
Incremented == errcnt + 1

\* ... reads it, if the parent lives, and closes it.
Warn ==
  /\ pc = "warn"
  /\ reported' = reported \cup
       {[fd |-> Head(buffer), file |-> warning.file, ppid |-> warning.ppid,
         cmdline |-> IF cmdline # {} /\ warning.asked = parent THEN {parent} ELSE {}]}
  /\ cmdline' = {}
  /\ warning' = NoWarning
  /\ errcnt' = Incremented
  /\ buffer' = Tail(buffer)
  /\ pc' = "readdir"
  /\ UNCHANGED <<env, dir, pos, outcome>>

\* Mutant of Outcome: one leak is tolerated.
Outcome_OffByOne == IF debug /\ errcnt > 1 THEN "file_inherited" ELSE "returned"

\* file_inherited is thrown, or the function returns.
Outcome == IF debug /\ errcnt > 0 THEN "file_inherited" ELSE "returned"

\* Mutant of Closedir: the directory is closed on the normal path only.
Closedir_NotUnwound == dir' = IF Outcome = "returned" THEN {} ELSE dir

\* auto_close, whether the function throws or not.
Closedir == dir' = {}

\* The end of the function.
Return ==
  /\ pc = "end"
  /\ Closedir
  /\ outcome' = Outcome
  /\ pc' = "over"
  /\ UNCHANGED <<env, cmdline, pos, buffer, warning, reported, errcnt>>

\* std::bad_alloc of a path, of a file name or of the buffer of the ifstream leaves the
\* function: auto_close frees the directory with its buffer, and the ifstream its file.
BadAlloc ==
  /\ pc \in {"opendir", "report", "open"} \/ cmdline # {}
  /\ Closedir
  /\ cmdline' = {}
  /\ buffer' = <<>>
  /\ warning' = NoWarning
  /\ outcome' = "bad_alloc"
  /\ pc' = "over"
  /\ UNCHANGED <<env, pos, reported, errcnt>>

Scan == \/ Opendir \/ Getdents \/ GetdentsReturns \/ Readdir \/ ReaddirRefills
        \/ Readlink \/ Getppid \/ OpenCmdline \/ Warn \/ Return \/ BadAlloc

\* The other threads work, and parents die, until the function is over.
Others == pc \notin {"over", "crashed"} /\ (Open \/ (\E fd \in files : Close(fd)) \/ ParentDies)

Next == Scan \/ Others

Spec == Init /\ [][Next]_vars

\* The thread of the scan is scheduled.
FairSpec == Spec /\ WF_vars(Scan)

-----------------------------------------------------------------------------
Links == {"inherited", "other", ""}

TypeOK ==
  /\ debug \in BOOLEAN
  /\ pc \in {"opendir", "getdents", "readdir", "report", "getppid", "open", "warn", "end",
            "over", "crashed"}
  /\ files \subseteq 0..MaxFd
  /\ dir \subseteq 0..MaxFd /\ cmdline \subseteq 0..MaxFd
  /\ pos \in -2..MaxFd + 1
  /\ buffer \in Seq(-2..MaxFd)
  /\ warning \in [file : Links, ppid : 0..MaxDeaths, asked : 0..MaxDeaths]
  /\ reported \subseteq
       [fd : 0..MaxFd, file : Links, ppid : 0..MaxDeaths, cmdline : SUBSET (0..MaxDeaths)]
  /\ errcnt \in Nat /\ changes \in 0..MaxChanges /\ parent \in 0..MaxDeaths
  /\ outcome \in {"none", "returned", "file_inherited", "bad_alloc"}
  /\ steady \subseteq files /\ files \subseteq used /\ used \subseteq 0..MaxFd

Standard == {0, 1, 2}

(***************************************************************************)
(* Nothing escapes verify_inherited_files(): a descriptor inherited and    *)
(* never closed is reported with its own file, unless it is a standard     *)
(* stream or allowed, however the directory is cut in buffers and whatever *)
(* the other threads and the warnings open and close meanwhile.  Only a    *)
(* function left by std::bad_alloc has not seen them all.                  *)
(***************************************************************************)
LeaksReported ==
  pc = "over" /\ outcome # "bad_alloc" =>
    \A fd \in steady \ (Standard \cup Allowed) :
      \E w \in reported : w.fd = fd /\ w.file = "inherited"

(***************************************************************************)
(* Each warning of verify_inherited_files() is about a file the            *)
(* application has or had meanwhile, and that is not exempt: never about   *)
(* the descriptors of opendir() and of get_command_line().  When no file   *)
(* is printed, or one opened since, the inherited one has been closed.     *)
(***************************************************************************)
ReportsAreFiles ==
  \A w \in reported : /\ w.fd \in used \ (Standard \cup Allowed)
                      /\ w.file # "inherited" => w.fd \notin steady

(***************************************************************************)
(* A warning about a file that was not inherited, for which a debug build  *)
(* throws, takes another thread: verify_inherited_files() prints no more   *)
(* of them than the files the other threads opened or closed meanwhile,    *)
(* and none in a process of one thread.                                    *)
(***************************************************************************)
FalseAlarmsExplained == Cardinality({w \in reported : w.file # "inherited"}) <= changes

\* The command line of a warning is not that of the process whose PID it prints.
Mixed(w) == w.cmdline \notin {{}, {w.ppid}}

(***************************************************************************)
(* A warning may print the PID of one parent and the command line of       *)
(* another, as getppid() is called twice (file_inheritance.cpp:161), but   *)
(* only once for each parent that dies: the next warning has them right.   *)
(***************************************************************************)
MixedOncePerDeath ==
  \A v, w \in reported : Mixed(v) /\ Mixed(w) /\ v.cmdline = w.cmdline => v = w

(***************************************************************************)
(* There is one warning for a descriptor and one count for a warning,      *)
(* though a descriptor may be closed and opened again between two reads of *)
(* the directory: what the loop of file_inheritance.cpp:111 has seen does  *)
(* not come back.                                                          *)
(***************************************************************************)
WarnedOnce ==
  /\ \A v, w \in reported : v.fd = w.fd => v = w
  /\ errcnt = Cardinality(reported)

(***************************************************************************)
(* verify_inherited_files() leaves no descriptor of its own behind, when   *)
(* it returns, when it throws and when std::bad_alloc leaves it in the     *)
(* middle, and none of them is ever shared with the application or with    *)
(* one another.                                                            *)
(***************************************************************************)
OwnDescriptors ==
  /\ pc = "over" => dir = {} /\ cmdline = {}
  /\ dir \cap cmdline = {}
  /\ files \cap (dir \cup cmdline) = {}

(***************************************************************************)
(* "In Debug mode, the error is fatal" (file_inheritance.cpp:85): a debug  *)
(* program that goes on has kept no descriptor it should not have          *)
(* inherited, and file_inherited is thrown in such a program only, when it *)
(* had a file that is not exempt.                                          *)
(***************************************************************************)
FatalInDebugOnly ==
  /\ outcome = "returned" => ~debug \/ steady \subseteq Standard \cup Allowed
  /\ outcome = "file_inherited" => debug /\ ~(used \subseteq Standard \cup Allowed)

(***************************************************************************)
(* verify_inherited_files() ends although the directory changes while it   *)
(* reads it (or it has crashed, in opendir()).                             *)
(***************************************************************************)
ScanEnds == <>(pc \in {"over", "crashed"})

\* Where the scan is in its work on one buffer and on one entry.
Rank == CASE pc = "opendir"  -> 3
          [] pc = "getdents" -> 2
          [] pc = "readdir"  -> IF buffer = <<>> THEN 3 ELSE 1
          [] pc = "report"   -> 0
          [] pc = "getppid"  -> -1
          [] pc = "open"     -> -2
          [] pc = "warn"     -> -3
          [] pc = "end"      -> 1
          [] OTHER           -> 0

\* The steps the scan may still take: at most eight for a position of the directory
\* that getdents() has not reached and seven for an entry of the buffer.
Work == 8 * (MaxFd + 1 - pos) + 7 * Len(buffer) + Rank

(***************************************************************************)
(* The scan of verify_inherited_files() is bounded by the size of the      *)
(* table of descriptors: each of its steps brings it nearer to its end,    *)
(* and nothing the other threads open or close puts the end off.           *)
(***************************************************************************)
ScanBounded == [][Work' \in 0..Work /\ (Scan => Work' < Work)]_vars

-----------------------------------------------------------------------------
(***************************************************************************)
(* file_inheritance.cpp:87 says that in Release mode "the error is just a  *)
(* warning so the process still starts".                                   *)
(***************************************************************************)
ReleaseStarts == ~debug => pc # "crashed"
=============================================================================
