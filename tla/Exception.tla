------------------------------ MODULE Exception ------------------------------
(***************************************************************************)
(* Threads of a process construct libexcept exceptions while other threads *)
(* change the global collection mode: exception_base_t's constructor       *)
(* (libexcept/exception.cpp) and the two collectors it calls               *)
(* (libexcept/stack_trace.cpp), with the descriptors and the child         *)
(* processes of popen() that the complete collector uses.                  *)
(*                                                                         *)
(* Every thread has a call stack of Height frames, the innermost first.    *)
(* An entry of a trace is the frame it describes and whether it is the raw *)
(* line or a conversion; FrameLine says what the text of a conversion is.  *)
(***************************************************************************)
EXTENDS Integers, Sequences, FiniteSets

CONSTANTS Threads,    \* the threads of the process
          Height,     \* the number of frames of a thread's whole call stack
          Parsed,     \* the frames whose raw line can be taken apart
          Depths,     \* the stack_trace_depth arguments passed
          Clamp,      \* the 1'000 of collect_stack_trace()
          Faults,     \* the calls that may fail: "alloc", "symbols", "popen"
          Fds,        \* the descriptors the application leaves unused
          None        \* no descriptor

ASSUME ConstantsAssumption ==
  /\ Height \in Nat \ {0}
  /\ Parsed \subseteq 1..Height
  /\ Depths \subseteq Int
  /\ Clamp \in Nat \ {0}
  /\ Faults \subseteq {"alloc", "symbols", "popen"}
  /\ Fds \subseteq Nat /\ IsFiniteSet(Fds) /\ None \notin Fds

VARIABLES
  collect,    \* g_collect_stack
  pc,         \* where each thread is
  mode,       \* the case its constructor is in
  depth,      \* stack_trace_depth
  array,      \* the length of the vector that receives the addresses
  lists,      \* the threads that hold the list of backtrace_symbols()
  trace,      \* the stack_trace a thread is building
  handle,     \* the read end of its pipe, held by its unique_ptr<FILE>
  wend,       \* the write end, while popen() is in progress
  fds,        \* the descriptors open for pipes, process wide
  children,   \* the children of popen(), by the read end of their pipe
  crashed,    \* the process followed a null pointer
  result,     \* what the last construction of each thread gave
  seen        \* history: the modes in effect during that construction

locals == <<mode, depth, array, lists, trace, handle, wend, fds, children>>
vars   == <<collect, pc, locals, crashed, result, seen>>

Modes == {"NO", "YES", "COMPLETE"}

min(a, b) == IF a <= b THEN a ELSE b

\* Mutant of max: the vector is clamped, but not the depth given to backtrace().
max_Clamped(a, b) == min(a, b)

max(a, b) == IF a >= b THEN a ELSE b

Lowest(S) == CHOOSE n \in S : \A m \in S : n <= m

\* Mutant of Size: the loop runs to the depth instead of what backtrace() gave.
Size_Depth(t) == depth[t]

\* The number of addresses backtrace() stores, and the number of frames of the
\* trace of thread t.
Size(t) == min(depth[t], Height)

Texts == {"raw", "converted"}
Entry(i, text) == [frame |-> i, text |-> text]

\* The frame thread t works on.
Frame(t) == Len(trace[t]) + 1

\* Mutant of More: idx <= size.
More_Inclusive(t) == Frame(t) <= Size(t) + 1

\* idx < size: there is such a frame.
More(t) == Frame(t) <= Size(t)

\* Mutant of Push: the loop does not go on to the next frame.
Push_Nothing(t, text) == UNCHANGED trace

\* stack_trace.push_back() of an entry of that frame.
Push(t, text) == trace' = [trace EXCEPT ![t] = Append(@, Entry(Frame(t), text))]

Init ==
  /\ collect  = "YES"
  /\ pc       = [t \in Threads |-> "idle"]
  /\ mode     = [t \in Threads |-> "NO"]
  /\ depth    = [t \in Threads |-> 0]
  /\ array    = [t \in Threads |-> 0]
  /\ lists    = {}
  /\ trace    = [t \in Threads |-> <<>>]
  /\ handle   = [t \in Threads |-> None]
  /\ wend     = [t \in Threads |-> None]
  /\ fds      = {}
  /\ children = <<>>
  /\ crashed  = FALSE
  /\ result   = [t \in Threads |-> [outcome |-> "none", trace |-> <<>>]]
  /\ seen     = [t \in Threads |-> {}]

-----------------------------------------------------------------------------
\* set_collect_stack(), by any thread.
SetCollectStack(m) ==
  /\ ~crashed
  /\ collect' = m
  /\ seen' = [t \in Threads |-> IF pc[t] = "idle" THEN seen[t] ELSE seen[t] \cup {m}]
  /\ UNCHANGED <<pc, locals, crashed, result>>

\* Thread t enters the constructor of an exception, which copies the message
\* into the standard base and then runs exception_base_t(d).
Construct(t, d) ==
  /\ ~crashed
  /\ pc[t] = "idle"
  /\ pc' = [pc EXCEPT ![t] = "switch"]
  /\ depth' = [depth EXCEPT ![t] = d]
  /\ result' = [result EXCEPT ![t] = [outcome |-> "none", trace |-> <<>>]]
  /\ seen' = [seen EXCEPT ![t] = {collect}]
  /\ UNCHANGED <<collect, mode, array, lists, trace, handle, wend, fds, children, crashed>>

\* The constructor of thread t ends: with f_stack_trace = tr, or with a
\* std::bad_alloc.  The locals of the collector are gone.
End(t, outcome, tr) ==
  /\ pc' = [pc EXCEPT ![t] = "idle"]
  /\ result' = [result EXCEPT ![t] = [outcome |-> outcome, trace |-> tr]]
  /\ mode' = [mode EXCEPT ![t] = "NO"]
  /\ depth' = [depth EXCEPT ![t] = 0]
  /\ array' = [array EXCEPT ![t] = 0]
  /\ lists' = lists \ {t}
  /\ trace' = [trace EXCEPT ![t] = <<>>]
  /\ UNCHANGED <<collect, wend, crashed, seen>>

\* switch(get_collect_stack()), then the test of the depth and the resize.
Switch(t) ==
  /\ ~crashed
  /\ pc[t] = "switch"
  /\ IF collect = "NO" \/ depth[t] <= 0
     THEN End(t, "built", <<>>) /\ UNCHANGED <<handle, fds, children>>
     ELSE /\ mode' = [mode EXCEPT ![t] = collect]
          /\ array' = [array EXCEPT
               ![t] = IF collect = "YES" THEN max(depth[t], Clamp) ELSE depth[t]]
          /\ pc' = [pc EXCEPT ![t] = "symbols"]
          /\ UNCHANGED <<collect, depth, lists, trace, handle, wend, fds, children,
                         crashed, result, seen>>

\* backtrace_symbols() returns the list of raw lines.
Symbols(t) ==
  /\ ~crashed
  /\ pc[t] = "symbols"
  /\ lists' = lists \cup {t}
  /\ pc' = [pc EXCEPT ![t] = IF mode[t] = "YES" THEN "copy" ELSE "frame"]
  /\ UNCHANGED <<collect, mode, depth, array, trace, handle, wend, fds, children,
                 crashed, result, seen>>

\* backtrace_symbols() returns nullptr: only collect_stack_trace() tests it.
SymbolsFail(t) ==
  /\ ~crashed
  /\ pc[t] = "symbols"
  /\ "symbols" \in Faults
  /\ \/ /\ mode[t] = "YES"
        /\ End(t, "built", <<>>)
        /\ UNCHANGED <<handle, fds, children>>
     \/ /\ mode[t] = "COMPLETE"
        /\ crashed' = TRUE
        /\ UNCHANGED <<collect, pc, locals, result, seen>>

\* The loop of collect_stack_trace().
Copy(t) ==
  /\ ~crashed
  /\ pc[t] = "copy"
  /\ End(t, "built", [i \in 1..Size(t) |-> Entry(i, "raw")])
  /\ UNCHANGED <<handle, fds, children>>

\* A raw line that cannot be taken apart is pushed as it is.
PushRaw(t) ==
  /\ ~crashed
  /\ pc[t] = "frame"
  /\ More(t)
  /\ Frame(t) \notin Parsed
  /\ Push(t, "raw")
  /\ UNCHANGED <<collect, pc, mode, depth, array, lists, handle, wend, fds, children,
                 crashed, result, seen>>

\* popen() of eu-addr2line: pipe() takes the two lowest descriptors ...
OpenPipe(t) ==
  /\ ~crashed
  /\ pc[t] = "frame"
  /\ More(t)
  /\ Frame(t) \in Parsed
  /\ Cardinality(Fds \ fds) >= 2
  /\ LET rd == Lowest(Fds \ fds)
         wr == Lowest(Fds \ (fds \cup {rd}))
     IN  /\ fds' = fds \cup {rd, wr}
         /\ handle' = [handle EXCEPT ![t] = rd]
         /\ wend' = [wend EXCEPT ![t] = wr]
  /\ pc' = [pc EXCEPT ![t] = "spawn"]
  /\ UNCHANGED <<collect, mode, depth, array, lists, trace, children, crashed, result, seen>>

\* ... and the child inherits the write end, which the parent closes.
Spawn(t) ==
  /\ ~crashed
  /\ pc[t] = "spawn"
  /\ fds' = fds \ {wend[t]}
  /\ wend' = [wend EXCEPT ![t] = None]
  /\ children' = [fd \in DOMAIN children \cup {handle[t]} |->
                    IF fd = handle[t] THEN "running" ELSE children[fd]]
  /\ pc' = [pc EXCEPT ![t] = "read"]
  /\ UNCHANGED <<collect, mode, depth, array, lists, trace, handle, crashed, result, seen>>

\* popen() returns nullptr, for want of descriptors or of a process, and the
\* loop calls fgetc() on it.
PopenFails(t) ==
  /\ ~crashed
  /\ \/ /\ pc[t] = "frame"
        /\ More(t)
        /\ Frame(t) \in Parsed
        /\ Cardinality(Fds \ fds) < 2
     \/ /\ pc[t] = "spawn"
        /\ "popen" \in Faults
  /\ crashed' = TRUE
  /\ UNCHANGED <<collect, pc, locals, result, seen>>

\* A child has printed its line and exits (or fails, having printed nothing).
ChildExits(fd) ==
  /\ ~crashed
  /\ fd \in DOMAIN children
  /\ children[fd] = "running"
  /\ children' = [children EXCEPT ![fd] = "exited"]
  /\ UNCHANGED <<collect, pc, mode, depth, array, lists, trace, handle, wend, fds,
                 crashed, result, seen>>

\* Mutant of Pclose: the FILE is a plain pointer, which nothing closes.
Pclose_Forgotten(t) == handle' = [handle EXCEPT ![t] = None] /\ UNCHANGED <<fds, children>>

\* pclose(), run by the unique_ptr: waits for the child, closes the pipe.
Pclose(t) ==
  /\ handle[t] # None => children[handle[t]] = "exited"
  /\ fds' = fds \ {handle[t]}
  /\ children' = [fd \in DOMAIN children \ {handle[t]} |-> children[fd]]
  /\ handle' = [handle EXCEPT ![t] = None]

\* fgetc() until the end of the file, pclose(), demangle and push_back().
Convert(t) ==
  /\ ~crashed
  /\ pc[t] = "read"
  /\ Push(t, "converted")
  /\ Pclose(t)
  /\ pc' = [pc EXCEPT ![t] = "frame"]
  /\ UNCHANGED <<collect, mode, depth, array, lists, wend, crashed, result, seen>>

\* The loop over the frames is over.
Return(t) ==
  /\ ~crashed
  /\ pc[t] = "frame"
  /\ ~More(t)
  /\ End(t, "built", trace[t])
  /\ UNCHANGED <<handle, fds, children>>

\* A std::bad_alloc from the message, the vector, a string or the list.
BadAlloc(t) ==
  /\ ~crashed
  /\ "alloc" \in Faults
  /\ pc[t] \in {"switch", "symbols", "copy", "frame", "read"}
  /\ pc' = [pc EXCEPT ![t] = "unwind"]
  /\ UNCHANGED <<collect, locals, crashed, result, seen>>

\* Mutant of Unwind: the std::bad_alloc is swallowed and the trace kept.
Unwind_Partial(t) ==
  /\ ~crashed
  /\ pc[t] = "unwind"
  /\ Pclose(t)
  /\ End(t, "built", trace[t])

\* The destructors run and the std::bad_alloc replaces the exception.
Unwind(t) ==
  /\ ~crashed
  /\ pc[t] = "unwind"
  /\ Pclose(t)
  /\ End(t, "bad_alloc", <<>>)

Step(t) ==
  \/ Switch(t) \/ Symbols(t) \/ SymbolsFail(t) \/ Copy(t) \/ PushRaw(t)
  \/ OpenPipe(t) \/ Spawn(t) \/ PopenFails(t) \/ Convert(t) \/ Return(t)
  \/ BadAlloc(t) \/ Unwind(t)

Next ==
  \/ \E m \in Modes : SetCollectStack(m)
  \/ \E t \in Threads : Step(t) \/ \E d \in Depths : Construct(t, d)
  \/ \E fd \in Fds : ChildExits(fd)

Spec == Init /\ [][Next]_vars

\* The scheduler runs every thread that can run, and eu-addr2line terminates.
Fairness == /\ \A t \in Threads : WF_vars(Step(t))
            /\ \A fd \in Fds : WF_vars(ChildExits(fd))

FairSpec == Spec /\ Fairness

-----------------------------------------------------------------------------
(***************************************************************************)
(* What the constructor promises, whatever the interleaving with           *)
(* set_collect_stack() and the failures inside the collectors: see         *)
(* ExceptionPromise.  A thread is building an exception while it is not    *)
(* idle.                                                                   *)
(***************************************************************************)
Promise == INSTANCE ExceptionPromise WITH
             building <- [t \in Threads |-> pc[t] # "idle"]

Implements == Promise!Spec

TypeOK ==
  /\ collect \in Modes
  /\ pc \in [Threads -> {"idle", "switch", "symbols", "copy", "frame", "spawn", "read", "unwind"}]
  /\ mode \in [Threads -> Modes]
  /\ depth \in [Threads -> Depths \cup {0}]
  /\ array \in [Threads -> Nat]
  /\ lists \subseteq Threads
  /\ trace \in [Threads -> Seq([frame : 1..Height, text : Texts])]
  /\ handle \in [Threads -> Fds \cup {None}]
  /\ wend \in [Threads -> Fds \cup {None}]
  /\ fds \subseteq Fds
  /\ children \in [DOMAIN children -> {"running", "exited"}] /\ DOMAIN children \subseteq Fds
  /\ crashed \in BOOLEAN
  /\ result \in [Threads -> [outcome : {"none", "built", "bad_alloc"},
                            trace   : Seq([frame : 1..Height, text : Texts])]]
  /\ seen \in [Threads -> SUBSET Modes]

(***************************************************************************)
(* No pipe, child process or list of symbols outlives or escapes the       *)
(* collector that made it, on the normal path and when a std::bad_alloc    *)
(* unwinds it: the open descriptors are exactly the ends held by the       *)
(* threads, each child belongs to the one thread that reads from it, and   *)
(* an idle thread holds nothing (the unique_ptr's of stack_trace.cpp).     *)
(***************************************************************************)
StreamOwnership ==
  /\ fds = ({handle[t] : t \in Threads} \cup {wend[t] : t \in Threads}) \ {None}
  /\ DOMAIN children = {handle[t] : t \in {u \in Threads : pc[u] # "spawn"}} \ {None}
  /\ \A t, u \in Threads :
       (t # u /\ handle[t] # None) => handle[t] \notin {handle[u], wend[u]}
  /\ \A t \in Threads : pc[t] = "idle" => t \notin lists /\ handle[t] = None

(***************************************************************************)
(* backtrace() never writes past the vector of addresses: the depth given  *)
(* to it is at most the length the vector was resized to, for any depth    *)
(* and in both collectors (stack_trace.cpp:107 and :159).                  *)
(***************************************************************************)
BacktraceFits == \A t \in Threads : pc[t] = "symbols" => depth[t] <= array[t]

(***************************************************************************)
(* A thread that converts a frame is in the complete collector, owns the   *)
(* list of symbols it reads from, and still has that frame in the list:    *)
(* stack_string_list.get()[idx] is never read out of bounds.               *)
(***************************************************************************)
LineInBounds ==
  \A t \in Threads :
    pc[t] \in {"spawn", "read"} =>
      /\ mode[t] = "COMPLETE"
      /\ t \in lists
      /\ Frame(t) <= Size(t)

(***************************************************************************)
(* With two free descriptors per thread no collector runs out of them, so  *)
(* that no exception brings the process down: each thread has at most one  *)
(* pipe however deep its stack is.                                         *)
(***************************************************************************)
TwoDescriptorsPerThreadSuffice ==
  (Faults \subseteq {"alloc"} /\ Cardinality(Fds) >= 2 * Cardinality(Threads)) => ~crashed

(***************************************************************************)
(* Every construction ends: the thread is back in its caller with an       *)
(* exception or with a std::bad_alloc.                                     *)
(***************************************************************************)
ConstructionEnds == \A t \in Threads : pc[t] = "switch" ~> pc[t] = "idle"

\* The steps a construction may still take, from where its thread is and the
\* frames it has left: at most three for a frame.
Work(t) ==
  LET left == Size(t) - Len(trace[t])
  IN  CASE pc[t] = "idle"    -> 0
        [] pc[t] = "unwind"  -> 1
        [] pc[t] = "copy"    -> 2
        [] pc[t] = "read"    -> 3 * left
        [] pc[t] = "spawn"   -> 3 * left + 1
        [] pc[t] = "frame"   -> 3 * left + 2
        [] pc[t] = "symbols" -> 3 * Height + 3
        [] pc[t] = "switch"  -> 3 * Height + 4

(***************************************************************************)
(* No construction goes on for ever, whoever is scheduled: each step of    *)
(* the thread brings it nearer to its end, no step of another thread,      *)
(* nor set_collect_stack(), puts the end off, and 3 * Height + 4 steps are *)
(* always enough, for any depth (the loops of stack_trace.cpp:112 and      *)
(* :165, whatever fails in them).                                          *)
(***************************************************************************)
ConstructionBounded ==
  [][\A t \in Threads : pc[t] # "idle" =>
       /\ Work(t)' \in 0..Work(t)
       /\ Step(t) => crashed' \/ Work(t)' < Work(t)]_vars

-----------------------------------------------------------------------------
(***************************************************************************)
(* stack_trace.cpp:78 says that the depth "is silently clamped to 1,000":  *)
(* no trace is longer than that.                                           *)
(***************************************************************************)
DepthClamped == \A t \in Threads : Len(result[t].trace) <= Clamp

(***************************************************************************)
(* stack_trace.cpp:299 says that the raw line is the fallback when "a      *)
(* conversion somehow fails": a popen() that fails, for want of            *)
(* descriptors, costs one conversion and not the process.                  *)
(***************************************************************************)
FailedPopenFallsBack == (Faults = {}) => ~crashed
=============================================================================
