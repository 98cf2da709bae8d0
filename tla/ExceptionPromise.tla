--------------------------- MODULE ExceptionPromise ---------------------------
(***************************************************************************)
(* What constructing a libexcept exception promises, as documented for     *)
(* set_collect_stack() and the two collectors: the stack trace of an       *)
(* exception is the one of a single mode, a mode that was in effect at     *)
(* some moment while the exception was being constructed, and it describes *)
(* the innermost frames in order, one entry per frame.                     *)
(***************************************************************************)
EXTENDS Integers, Sequences

CONSTANTS Threads, Height, Parsed, Depths, Faults

VARIABLES collect,    \* the global mode
          building,   \* whether a thread is constructing an exception
          depth,      \* the depth it asked for
          seen,       \* the modes in effect since it began
          result      \* what the last construction gave

vars == <<collect, building, depth, seen, result>>

Modes == {"NO", "YES", "COMPLETE"}

\* The number of frames described at depth d in mode m.
Frames(m, d) ==
  IF m = "NO" \/ d <= 0 THEN 0 ELSE IF d <= Height THEN d ELSE Height

\* tr is a trace of depth d in mode m.  A plain trace may also be missing, when
\* its symbols cannot be obtained.
Describes(tr, m, d) ==
  \/ /\ DOMAIN tr = 1..Frames(m, d)
     /\ \A i \in DOMAIN tr :
          tr[i] = [frame |-> i,
                   text  |-> IF m = "COMPLETE" /\ i \in Parsed THEN "converted" ELSE "raw"]
  \/ m = "YES" /\ "symbols" \in Faults /\ tr = <<>>

Init ==
  /\ collect = "YES"
  /\ building = [t \in Threads |-> FALSE]
  /\ depth = [t \in Threads |-> 0]
  /\ seen = [t \in Threads |-> {}]
  /\ result = [t \in Threads |-> [outcome |-> "none", trace |-> <<>>]]

Set(m) ==
  /\ collect' = m
  /\ seen' = [t \in Threads |-> IF building[t] THEN seen[t] \cup {m} ELSE seen[t]]
  /\ UNCHANGED <<building, depth, result>>

Begin(t, d) ==
  /\ ~building[t]
  /\ building' = [building EXCEPT ![t] = TRUE]
  /\ depth' = [depth EXCEPT ![t] = d]
  /\ seen' = [seen EXCEPT ![t] = {collect}]
  /\ result' = [result EXCEPT ![t] = [outcome |-> "none", trace |-> <<>>]]
  /\ UNCHANGED collect

\* The exception is complete ...
Built(t) ==
  LET tr == result'[t].trace
  IN  /\ \E m \in seen[t] : Describes(tr, m, depth[t])
      /\ result' = [result EXCEPT ![t] = [outcome |-> "built", trace |-> tr]]

\* ... or memory ran out, and the caller gets a std::bad_alloc instead.
Failed(t) ==
  /\ "alloc" \in Faults
  /\ result' = [result EXCEPT ![t] = [outcome |-> "bad_alloc", trace |-> <<>>]]

Finish(t) ==
  /\ building[t]
  /\ Built(t) \/ Failed(t)
  /\ building' = [building EXCEPT ![t] = FALSE]
  /\ depth' = [depth EXCEPT ![t] = 0]
  /\ UNCHANGED <<collect, seen>>

Next ==
  \/ \E m \in Modes : Set(m)
  \/ \E t \in Threads : Finish(t) \/ \E d \in Depths : Begin(t, d)

Spec == Init /\ [][Next]_vars
=============================================================================
