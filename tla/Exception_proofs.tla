--------------------------- MODULE Exception_proofs --------------------------
(***************************************************************************)
(* Proofs about Exception, for any threads, depths, call stacks, failures  *)
(* and descriptors.                                                        *)
(***************************************************************************)
EXTENDS Exception, FiniteSetTheorems, SequenceTheorems, WellFoundedInduction, TLAPS

(***************************************************************************)
(* There is a lowest free descriptor when there is a free one.             *)
(***************************************************************************)
LEMMA LowestFacts ==
  ASSUME NEW S, S \subseteq Nat, S # {}
  PROVE  Lowest(S) \in S
<1>1. PICK x \in S : \A y \in S : <<y, x>> \notin OpToRel(<, Nat)
  BY NatLessThanWellFounded, WFMin, Zenon
<1>2. \A y \in S : ~ (y < x)
  BY <1>1, Zenon DEF OpToRel
<1>3. \A y \in S : x <= y
  BY <1>2
<1> QED
  BY <1>3 DEF Lowest

(***************************************************************************)
(* popen() gets two descriptors, free and different from each other.       *)
(***************************************************************************)
LEMMA TwoLowestFacts ==
  ASSUME NEW used \in SUBSET Fds, Cardinality(Fds \ used) >= 2
  PROVE  LET rd == Lowest(Fds \ used)
             wr == Lowest(Fds \ (used \cup {rd}))
         IN  rd \in Fds \ used /\ wr \in Fds \ used /\ rd # wr
<1> DEFINE S == Fds \ used
           rd == Lowest(S)
           T == Fds \ (used \cup {rd})
<1>1. IsFiniteSet(S) /\ S \subseteq Nat
  BY ConstantsAssumption, FS_Subset
<1>2. S # {}
  BY FS_EmptySet
<1>3. rd \in S
  BY <1>1, <1>2, LowestFacts
<1>4. T = S \ {rd}
  OBVIOUS
<1> HIDE DEF S, rd
<1>5. Cardinality(S) >= 2
  BY DEF S
<1>6. T # {}
  BY <1>1, <1>3, <1>4, <1>5, FS_RemoveElement, FS_EmptySet, FS_CardinalityType
<1>7. Lowest(T) \in T
  BY <1>1, <1>4, <1>6, LowestFacts
<1> QED
  BY <1>3, <1>4, <1>7 DEF S, rd

-----------------------------------------------------------------------------
LEMMA FunctionIsSequence ==
  ASSUME NEW S, NEW n \in Nat, NEW f \in [1..n -> S]
  PROVE  f \in Seq(S)
BY SeqDef

Traces == Seq([frame : 1..Height, text : Texts])

Collecting == {"symbols", "copy", "frame", "spawn", "read"}

\* The entry of frame i in a complete trace.
Line(i) == Entry(i, IF i \in Parsed THEN "converted" ELSE "raw")

(***************************************************************************)
(* What thread t knows from where it is: the depth is positive and fits    *)
(* the array inside a collector, a complete collector has its list, and    *)
(* the trace so far is a prefix of the call stack, with a frame left when  *)
(* one is being converted.                                                 *)
(***************************************************************************)
Local(t) ==
  /\ pc[t] \in Collecting => depth[t] > 0
  /\ pc[t] = "symbols" => mode[t] \in {"YES", "COMPLETE"} /\ depth[t] <= array[t]
  /\ pc[t] = "copy" => mode[t] = "YES"
  /\ pc[t] \in {"frame", "spawn", "read"} =>
       mode[t] = "COMPLETE" /\ t \in lists /\ Len(trace[t]) <= Size(t)
  /\ pc[t] \in {"spawn", "read"} => Frame(t) \in Parsed /\ Frame(t) <= Size(t)
  /\ pc[t] \in {"idle", "switch", "symbols", "copy"} => trace[t] = <<>>
  /\ \A i \in DOMAIN trace[t] : trace[t][i] = Line(i)

\* What it holds: a pipe while it converts a frame, and until it is unwound.
Holds(t) ==
  /\ pc[t] \in {"idle", "switch", "symbols", "copy", "frame"} => handle[t] = None
  /\ pc[t] \in {"spawn", "read"} => handle[t] \in Fds
  /\ IF pc[t] = "spawn" THEN wend[t] \in Fds ELSE wend[t] = None
  /\ pc[t] = "idle" => t \notin lists

Locals == \A t \in Threads : Local(t) /\ Holds(t)

(***************************************************************************)
(* A collector that works on the frame of a trace works on a frame that    *)
(* exists.                                                                 *)
(***************************************************************************)
LEMMA SizeFacts ==
  ASSUME TypeOK, NEW t \in Threads
  PROVE  /\ depth[t] \in Int /\ Size(t) \in Int
         /\ Size(t) <= Height /\ Size(t) <= depth[t]
         /\ depth[t] > 0 => Size(t) > 0
         /\ Len(trace[t]) \in Nat /\ Frame(t) = Len(trace[t]) + 1
         /\ DOMAIN trace[t] = 1..Len(trace[t])
<1>1. depth[t] \in Int
  BY ConstantsAssumption DEF TypeOK
<1>2. trace[t] \in Traces
  BY DEF TypeOK, Traces
<1>3. Len(trace[t]) \in Nat /\ DOMAIN trace[t] = 1..Len(trace[t])
  BY <1>2, LenProperties
<1> QED
  BY <1>1, <1>3, ConstantsAssumption DEF Size, min, Frame

(***************************************************************************)
(* A push adds the entry of the next frame.                                *)
(***************************************************************************)
LEMMA PushFacts ==
  ASSUME TypeOK, NEW t \in Threads, NEW text \in Texts, Push(t, text), Frame(t) <= Size(t)
  PROVE  /\ trace' \in [Threads -> Traces]
         /\ \A u \in Threads \ {t} : trace'[u] = trace[u]
         /\ Len(trace'[t]) = Len(trace[t]) + 1
         /\ DOMAIN trace'[t] = 1..Len(trace[t]) + 1
         /\ trace'[t][Len(trace[t]) + 1] = Entry(Frame(t), text)
         /\ \A i \in 1..Len(trace[t]) : trace'[t][i] = trace[t][i]
<1> DEFINE e == Entry(Frame(t), text)
<1>1. e \in [frame : 1..Height, text : Texts]
  BY SizeFacts, ConstantsAssumption DEF Entry
<1>2. trace \in [Threads -> Traces] /\ trace' = [trace EXCEPT ![t] = Append(trace[t], e)]
  BY DEF TypeOK, Traces, Push
<1> HIDE DEF e
<1>3. Append(trace[t], e) \in Traces
  BY <1>1, <1>2, AppendProperties DEF Traces
<1>4. /\ trace' \in [Threads -> Traces] /\ trace'[t] = Append(trace[t], e)
      /\ \A u \in Threads \ {t} : trace'[u] = trace[u]
  BY <1>2, <1>3
<1>5. /\ Len(trace'[t]) = Len(trace[t]) + 1
      /\ trace'[t][Len(trace[t]) + 1] = e
      /\ \A i \in 1..Len(trace[t]) : trace'[t][i] = trace[t][i]
  BY <1>1, <1>2, <1>4 DEF Traces
<1>6. DOMAIN trace'[t] = 1..Len(trace[t]) + 1
  BY <1>4, <1>5, LenProperties DEF Traces
<1> QED
  BY <1>4, <1>5, <1>6 DEF e

LEMMA PcloseType ==
  ASSUME TypeOK, NEW t \in Threads, Pclose(t)
  PROVE  /\ handle' \in [Threads -> Fds \cup {None}]
         /\ fds' \subseteq Fds
         /\ children' \in [DOMAIN children' -> {"running", "exited"}]
         /\ DOMAIN children' \subseteq Fds
BY DEF TypeOK, Pclose

\* The types of what End leaves to the action it is part of.
LEMMA EndType ==
  ASSUME TypeOK, NEW t \in Threads, NEW outcome \in {"built", "bad_alloc"},
         NEW tr \in Traces, End(t, outcome, tr),
         handle' \in [Threads -> Fds \cup {None}], fds' \subseteq Fds,
         children' \in [DOMAIN children' -> {"running", "exited"}],
         DOMAIN children' \subseteq Fds
  PROVE  TypeOK'
<1>1. /\ trace' \in [Threads -> Traces]
  <2>1. <<>> \in Traces
    BY EmptySeq DEF Traces
  <2> QED
    BY <2>1 DEF TypeOK, End, Traces
<1>2. result' \in [Threads -> [outcome : {"none", "built", "bad_alloc"}, trace : Traces]]
  BY DEF TypeOK, End, Traces
<1> QED
  BY <1>1, <1>2 DEF TypeOK, End, Modes, Traces

LEMMA TypeStep ==
  ASSUME TypeOK, Locals, [Next]_vars
  PROVE  TypeOK'
<1> USE ConstantsAssumption
<1>0. <<>> \in Traces
  BY EmptySeq DEF Traces
<1>1. ASSUME NEW m \in Modes, SetCollectStack(m)
      PROVE  TypeOK'
  BY <1>1 DEF TypeOK, SetCollectStack, locals
<1>2. ASSUME NEW t \in Threads, NEW d \in Depths, Construct(t, d)
      PROVE  TypeOK'
  <2>1. result' \in [Threads -> [outcome : {"none", "built", "bad_alloc"}, trace : Traces]]
    BY <1>0, <1>2 DEF TypeOK, Construct, Traces
  <2> QED
    BY <1>2, <2>1 DEF TypeOK, Construct, Traces
<1>3. ASSUME NEW t \in Threads, Switch(t)
      PROVE  TypeOK'
  <2>1. CASE End(t, "built", <<>>) /\ UNCHANGED <<handle, fds, children>>
    BY <1>0, <2>1, EndType DEF TypeOK
  <2>2. CASE ~ (collect = "NO" \/ depth[t] <= 0)
    <3>1. depth[t] \in Nat /\ max(depth[t], Clamp) \in Nat
      BY <2>2, SizeFacts DEF max
    <3>2. /\ mode' = [mode EXCEPT ![t] = collect]
          /\ array' = [array EXCEPT
               ![t] = IF collect = "YES" THEN max(depth[t], Clamp) ELSE depth[t]]
          /\ pc' = [pc EXCEPT ![t] = "symbols"]
          /\ UNCHANGED <<collect, depth, lists, trace, handle, wend, fds, children,
                         crashed, result, seen>>
      BY <1>3, <2>2 DEF Switch
    <3>3. array' \in [Threads -> Nat]
      BY <3>1, <3>2 DEF TypeOK
    <3> QED
      BY <3>2, <3>3 DEF TypeOK
  <2> QED
    BY <1>3, <2>1, <2>2 DEF Switch
<1>4. ASSUME NEW t \in Threads, Symbols(t)
      PROVE  TypeOK'
  BY <1>4 DEF TypeOK, Symbols
<1>5. ASSUME NEW t \in Threads, SymbolsFail(t)
      PROVE  TypeOK'
  <2>1. CASE End(t, "built", <<>>) /\ UNCHANGED <<handle, fds, children>>
    BY <1>0, <2>1, EndType DEF TypeOK
  <2>2. CASE crashed' = TRUE /\ UNCHANGED <<collect, pc, locals, result, seen>>
    BY <2>2 DEF TypeOK, locals
  <2> QED
    BY <1>5, <2>1, <2>2 DEF SymbolsFail
<1>6. ASSUME NEW t \in Threads, Copy(t)
      PROVE  TypeOK'
  <2> DEFINE tr == [i \in 1..Size(t) |-> Entry(i, "raw")]
  <2>1. Size(t) \in Nat /\ Size(t) <= Height
    BY <1>6, SizeFacts DEF Copy, Locals, Local, Collecting
  <2>2. tr \in [1..Size(t) -> [frame : 1..Height, text : Texts]]
    BY <2>1 DEF Entry, Texts
  <2> HIDE DEF tr
  <2>3. tr \in Traces
    BY <2>1, <2>2, FunctionIsSequence DEF Traces
  <2> QED
    BY <1>6, <2>3, EndType DEF TypeOK, Copy, tr
<1>7. ASSUME NEW t \in Threads, PushRaw(t)
      PROVE  TypeOK'
  <2>1. trace' \in [Threads -> Traces]
    BY <1>7, PushFacts DEF PushRaw, More, Texts
  <2> QED
    BY <1>7, <2>1 DEF TypeOK, PushRaw, Traces
<1>8. ASSUME NEW t \in Threads, OpenPipe(t)
      PROVE  TypeOK'
  <2> DEFINE rd == Lowest(Fds \ fds)
             wr == Lowest(Fds \ (fds \cup {rd}))
  <2>1. rd \in Fds /\ wr \in Fds
    BY <1>8, TwoLowestFacts DEF TypeOK, OpenPipe
  <2>2. /\ fds' = fds \cup {rd, wr}
        /\ handle' = [handle EXCEPT ![t] = rd]
        /\ wend' = [wend EXCEPT ![t] = wr]
    BY <1>8 DEF OpenPipe
  <2>3. /\ pc' = [pc EXCEPT ![t] = "spawn"]
        /\ UNCHANGED <<collect, mode, depth, array, lists, trace, children, crashed,
                       result, seen>>
    BY <1>8 DEF OpenPipe
  <2> HIDE DEF rd, wr
  <2> QED
    BY <2>1, <2>2, <2>3 DEF TypeOK
<1>9. ASSUME NEW t \in Threads, Spawn(t)
      PROVE  TypeOK'
  <2>1. handle[t] \in Fds
    BY <1>9 DEF Spawn, Locals, Holds
  <2>2. /\ children' \in [DOMAIN children' -> {"running", "exited"}]
        /\ DOMAIN children' \subseteq Fds
    BY <1>9, <2>1 DEF TypeOK, Spawn
  <2> QED
    BY <1>9, <2>2 DEF TypeOK, Spawn
<1>10. ASSUME NEW t \in Threads, PopenFails(t)
       PROVE  TypeOK'
  BY <1>10 DEF TypeOK, PopenFails, locals
<1>11. ASSUME NEW fd \in Fds, ChildExits(fd)
       PROVE  TypeOK'
  BY <1>11 DEF TypeOK, ChildExits
<1>12. ASSUME NEW t \in Threads, Convert(t)
       PROVE  TypeOK'
  <2>1. trace' \in [Threads -> Traces]
    BY <1>12, PushFacts DEF Convert, Locals, Local, Texts
  <2>2. Pclose(t)
    BY <1>12 DEF Convert
  <2> QED
    BY <1>12, <2>1, <2>2, PcloseType DEF TypeOK, Convert, Traces
<1>13. ASSUME NEW t \in Threads, Return(t)
       PROVE  TypeOK'
  <2>1. trace[t] \in Traces
    BY DEF TypeOK, Traces
  <2> QED
    BY <1>13, <2>1, EndType DEF TypeOK, Return
<1>14. ASSUME NEW t \in Threads, BadAlloc(t)
       PROVE  TypeOK'
  BY <1>14 DEF TypeOK, BadAlloc, locals
<1>15. ASSUME NEW t \in Threads, Unwind(t)
       PROVE  TypeOK'
  BY <1>0, <1>15, EndType, PcloseType DEF Unwind
<1>16. CASE UNCHANGED vars
  BY <1>16 DEF TypeOK, vars, locals
<1> QED
  BY <1>1, <1>2, <1>3, <1>4, <1>5, <1>6, <1>7, <1>8, <1>9, <1>10, <1>11, <1>12, <1>13,
     <1>14, <1>15, <1>16 DEF Next, Step

-----------------------------------------------------------------------------
(***************************************************************************)
(* A thread changes nothing of what belongs to another one.                *)
(***************************************************************************)
Same(u) ==
  /\ pc'[u] = pc[u] /\ mode'[u] = mode[u] /\ depth'[u] = depth[u] /\ array'[u] = array[u]
  /\ trace'[u] = trace[u] /\ handle'[u] = handle[u] /\ wend'[u] = wend[u]
  /\ u \in lists' <=> u \in lists

LEMMA StepOfOthers ==
  ASSUME TypeOK, NEW t \in Threads, Step(t), NEW u \in Threads, u # t
  PROVE  Same(u)
<1>1. CASE PushRaw(t) \/ Convert(t)
  BY <1>1 DEF PushRaw, Convert, Push, Pclose, TypeOK, Same
<1>2. CASE Symbols(t) \/ OpenPipe(t) \/ Spawn(t)
  BY <1>2 DEF Symbols, OpenPipe, Spawn, TypeOK, Same
<1>3. CASE Switch(t) \/ SymbolsFail(t)
  BY <1>3 DEF Switch, SymbolsFail, End, TypeOK, Same, locals
<1>4. CASE Copy(t) \/ Return(t) \/ Unwind(t)
  BY <1>4 DEF Copy, Return, Unwind, Pclose, End, TypeOK, Same
<1>5. CASE PopenFails(t) \/ BadAlloc(t)
  BY <1>5 DEF PopenFails, BadAlloc, TypeOK, Same, locals
<1> QED
  BY <1>1, <1>2, <1>3, <1>4, <1>5 DEF Step

LEMMA LocalsOfSame ==
  ASSUME NEW u \in Threads, Local(u), Holds(u), Same(u)
  PROVE  Local(u)' /\ Holds(u)'
<1>1. Size(u)' = Size(u) /\ Frame(u)' = Frame(u)
  BY DEF Same, Size, Frame, min
<1> QED
  BY <1>1 DEF Local, Holds, Same, Line

LEMMA LocalsOfEnd ==
  ASSUME TypeOK, NEW t \in Threads, NEW outcome, NEW tr, End(t, outcome, tr),
         handle'[t] = None, wend[t] = None
  PROVE  Local(t)' /\ Holds(t)'
<1>1. pc'[t] = "idle" /\ trace'[t] = <<>> /\ t \notin lists' /\ wend'[t] = None
  BY DEF TypeOK, End
<1>2. DOMAIN trace'[t] = {}
  BY <1>1
<1> QED
  BY <1>1, <1>2 DEF Local, Holds, Collecting

LEMMA LocalsStep ==
  ASSUME TypeOK, Locals, [Next]_vars
  PROVE  Locals'
<1>1. ASSUME \A u \in Threads : Same(u)
      PROVE  Locals'
  BY <1>1, LocalsOfSame DEF Locals
<1>2. ASSUME NEW t \in Threads, Local(t)' /\ Holds(t)', \A u \in Threads \ {t} : Same(u)
      PROVE  Locals'
  BY <1>2, LocalsOfSame DEF Locals
<1>3. ASSUME NEW t \in Threads, NEW d \in Depths, Construct(t, d)
      PROVE  Locals'
  <2>1. \A u \in Threads \ {t} : Same(u)
    BY <1>3 DEF Construct, TypeOK, Same
  <2>2. /\ pc[t] = "idle" /\ pc'[t] = "switch" /\ trace' = trace
        /\ handle' = handle /\ wend' = wend
    BY <1>3 DEF Construct, TypeOK
  <2>3. Local(t) /\ Holds(t)
    BY DEF Locals
  <2>4. Local(t)' /\ Holds(t)'
    BY <2>2, <2>3 DEF Local, Holds, Collecting, Line
  <2> QED
    BY <1>2, <2>1, <2>4
<1>4. ASSUME NEW t \in Threads, Step(t)
      PROVE  Local(t)' /\ Holds(t)'
  <2>1. Local(t) /\ Holds(t)
    BY DEF Locals
  <2>2. CASE Switch(t)
    <3>1. CASE collect = "NO" \/ depth[t] <= 0
      BY <2>1, <2>2, <3>1, LocalsOfEnd DEF Switch, Holds
    <3>2. CASE ~ (collect = "NO" \/ depth[t] <= 0)
      <4>1. /\ pc[t] = "switch" /\ pc'[t] = "symbols" /\ mode'[t] \in {"YES", "COMPLETE"}
            /\ array'[t] = IF collect = "YES" THEN max(depth[t], Clamp) ELSE depth[t]
            /\ UNCHANGED <<depth, trace, handle, wend>>
        BY <2>2, <3>2 DEF Switch, TypeOK, Modes
      <4>2. depth'[t] > 0 /\ depth'[t] <= array'[t]
        BY <3>2, <4>1, SizeFacts, ConstantsAssumption DEF max
      <4> QED
        BY <2>1, <4>1, <4>2 DEF Local, Holds, Line
    <3> QED
      BY <3>1, <3>2
  <2>3. CASE Symbols(t)
    <3>1. /\ pc[t] = "symbols" /\ pc'[t] = IF mode[t] = "YES" THEN "copy" ELSE "frame"
          /\ t \in lists' /\ UNCHANGED <<mode, depth, trace, handle, wend>>
      BY <2>3 DEF Symbols, TypeOK
    <3>2. Len(trace'[t]) <= Size(t)'
      BY <2>1, <3>1, SizeFacts DEF Local, Collecting, Size, min
    <3> QED
      BY <2>1, <3>1, <3>2 DEF Local, Holds, Collecting, Line
  <2>4. CASE SymbolsFail(t)
    <3>1. CASE UNCHANGED <<pc, locals>>
      BY <2>1, <3>1, LocalsOfSame DEF Same, locals
    <3> QED
      BY <2>1, <2>4, <3>1, LocalsOfEnd DEF SymbolsFail, Holds, locals
  <2>5. CASE Copy(t)
    BY <2>1, <2>5, LocalsOfEnd DEF Copy, Holds
  <2>6. CASE PushRaw(t)
    <3>1. /\ pc[t] = "frame" /\ Frame(t) <= Size(t) /\ Frame(t) \notin Parsed
          /\ Push(t, "raw")
          /\ UNCHANGED <<pc, mode, depth, lists, handle, wend>>
      BY <2>6 DEF PushRaw, More
    <3>2. /\ Len(trace'[t]) = Len(trace[t]) + 1
          /\ DOMAIN trace'[t] = 1..Len(trace[t]) + 1
          /\ trace'[t][Len(trace[t]) + 1] = Entry(Frame(t), "raw")
          /\ \A i \in 1..Len(trace[t]) : trace'[t][i] = trace[t][i]
      BY <3>1, PushFacts DEF Texts
    <3>3. Size(t)' = Size(t)
      BY <3>1 DEF Size, min
    <3>4. \A i \in DOMAIN trace'[t] : trace'[t][i] = Line(i)
      BY <2>1, <3>1, <3>2, SizeFacts DEF Local, Line
    <3> QED
      BY <2>1, <3>1, <3>2, <3>3, <3>4, SizeFacts DEF Local, Holds, Collecting
  <2>7. CASE OpenPipe(t)
    <3>1. /\ pc[t] = "frame" /\ pc'[t] = "spawn"
          /\ Frame(t) \in Parsed /\ Frame(t) <= Size(t)
          /\ UNCHANGED <<mode, depth, lists, trace>>
          /\ handle'[t] = Lowest(Fds \ fds)
          /\ wend'[t] = Lowest(Fds \ (fds \cup {Lowest(Fds \ fds)}))
      BY <2>7 DEF OpenPipe, More, TypeOK
    <3>2. handle'[t] \in Fds /\ wend'[t] \in Fds
      <4> DEFINE rd == Lowest(Fds \ fds)
                 wr == Lowest(Fds \ (fds \cup {rd}))
      <4>1. rd \in Fds /\ wr \in Fds
        BY <2>7, TwoLowestFacts DEF TypeOK, OpenPipe
      <4> QED
        BY <3>1, <4>1
    <3>3. Size(t)' = Size(t) /\ Frame(t)' = Frame(t)
      BY <3>1 DEF Size, min, Frame
    <3> QED
      BY <2>1, <3>1, <3>2, <3>3 DEF Local, Holds, Collecting, Line
  <2>8. CASE Spawn(t)
    <3>1. /\ pc[t] = "spawn" /\ pc'[t] = "read" /\ wend'[t] = None
          /\ UNCHANGED <<mode, depth, lists, trace, handle>>
      BY <2>8 DEF Spawn, TypeOK
    <3>2. Size(t)' = Size(t) /\ Frame(t)' = Frame(t)
      BY <3>1 DEF Size, min, Frame
    <3> QED
      BY <2>1, <3>1, <3>2 DEF Local, Holds, Collecting, Line
  <2>9. CASE PopenFails(t)
    BY <2>1, <2>9, LocalsOfSame DEF PopenFails, Same, locals
  <2>10. CASE Convert(t)
    <3>1. /\ pc[t] = "read" /\ pc'[t] = "frame" /\ handle'[t] = None
          /\ Push(t, "converted")
          /\ UNCHANGED <<mode, depth, lists, wend>>
      BY <2>10 DEF Convert, Pclose, TypeOK
    <3>2. Frame(t) \in Parsed /\ Frame(t) <= Size(t)
      BY <2>1, <3>1 DEF Local
    <3>3. /\ Len(trace'[t]) = Len(trace[t]) + 1
          /\ DOMAIN trace'[t] = 1..Len(trace[t]) + 1
          /\ trace'[t][Len(trace[t]) + 1] = Entry(Frame(t), "converted")
          /\ \A i \in 1..Len(trace[t]) : trace'[t][i] = trace[t][i]
      BY <3>1, <3>2, PushFacts DEF Texts
    <3>4. Size(t)' = Size(t)
      BY <3>1 DEF Size, min
    <3>5. \A i \in DOMAIN trace'[t] : trace'[t][i] = Line(i)
      BY <2>1, <3>2, <3>3, SizeFacts DEF Local, Line
    <3> QED
      BY <2>1, <3>1, <3>2, <3>3, <3>4, <3>5, SizeFacts DEF Local, Holds, Collecting
  <2>11. CASE Return(t)
    BY <2>1, <2>11, LocalsOfEnd DEF Return, Holds
  <2>12. CASE BadAlloc(t)
    <3>1. /\ pc[t] # "spawn" /\ pc'[t] = "unwind"
          /\ UNCHANGED <<mode, depth, lists, trace, handle, wend>>
      BY <2>12 DEF BadAlloc, TypeOK, locals
    <3> QED
      BY <2>1, <3>1 DEF Local, Holds, Collecting, Line
  <2>13. CASE Unwind(t)
    <3>1. pc[t] = "unwind" /\ handle'[t] = None /\ End(t, "bad_alloc", <<>>)
      BY <2>13 DEF Unwind, Pclose, TypeOK
    <3> QED
      BY <2>1, <3>1, LocalsOfEnd DEF Holds
  <2> QED
    BY <1>4, <2>2, <2>3, <2>4, <2>5, <2>6, <2>7, <2>8, <2>9, <2>10, <2>11, <2>12, <2>13 DEF Step
<1>5. ASSUME NEW t \in Threads, Step(t)
      PROVE  Locals'
  BY <1>2, <1>4, <1>5, StepOfOthers
<1>6. ASSUME NEW m \in Modes, SetCollectStack(m)
      PROVE  Locals'
  BY <1>1, <1>6 DEF SetCollectStack, locals, Same
<1>7. ASSUME NEW fd \in Fds, ChildExits(fd)
      PROVE  Locals'
  BY <1>1, <1>7 DEF ChildExits, Same
<1>8. CASE UNCHANGED vars
  BY <1>1, <1>8 DEF vars, locals, Same
<1> QED
  BY <1>3, <1>5, <1>6, <1>7, <1>8 DEF Next

(***************************************************************************)
(* Types and what the threads know, together: one does not hold without    *)
(* the other, for a frame that does not exist would be of another type.    *)
(***************************************************************************)
LEMMA LocalsInvariant == Spec => [](TypeOK /\ Locals)
<1>1. Init => TypeOK
  <2> SUFFICES ASSUME Init
               PROVE  TypeOK
    OBVIOUS
  <2>1. <<>> \in Traces
    BY EmptySeq DEF Traces
  <2>2. trace \in [Threads -> Traces]
    BY <2>1 DEF Init
  <2>3. result \in [Threads -> [outcome : {"none", "built", "bad_alloc"}, trace : Traces]]
    BY <2>1 DEF Init
  <2>4. children \in [DOMAIN children -> {"running", "exited"}] /\ DOMAIN children = {}
    BY DEF Init
  <2> QED
    BY <2>2, <2>3, <2>4, ConstantsAssumption DEF Init, TypeOK, Traces, Modes
<1>2. Init => Locals
  BY DEF Init, Locals, Local, Holds, Collecting
<1>3. TypeOK /\ Locals /\ [Next]_vars => (TypeOK /\ Locals)'
  BY TypeStep, LocalsStep
<1> QED
  BY <1>1, <1>2, <1>3, PTL DEF Spec

(***************************************************************************)
(* Every variable of Exception has its type: no entry of a trace describes *)
(* a frame that does not exist, whatever the depth asked for.              *)
(***************************************************************************)
THEOREM TypeCorrect == Spec => []TypeOK
BY LocalsInvariant, PTL

(***************************************************************************)
(* backtrace() never writes past the array (stack_trace.cpp:107 and :159), *)
(* for any depth.                                                          *)
(***************************************************************************)
THEOREM BacktraceFitsCorrect == Spec => []BacktraceFits
<1>1. Locals => BacktraceFits
  BY DEF Locals, Local, BacktraceFits
<1> QED
  BY <1>1, LocalsInvariant, PTL

(***************************************************************************)
(* The list of symbols is never read out of bounds by the complete         *)
(* collector (stack_trace.cpp:165), nor read by a thread without a list.   *)
(***************************************************************************)
THEOREM LineInBoundsCorrect == Spec => []LineInBounds
<1>1. Locals => LineInBounds
  BY DEF Locals, Local, LineInBounds
<1> QED
  BY <1>1, LocalsInvariant, PTL

-----------------------------------------------------------------------------
(***************************************************************************)
(* The descriptors and the children, each with the one thread it belongs   *)
(* to; the two ends of a pipe are never the same, nor those of two pipes.  *)
(***************************************************************************)
Streams ==
  /\ \A fd : fd \in fds <=> fd # None /\ \E t \in Threads : handle[t] = fd \/ wend[t] = fd
  /\ \A fd : fd \in DOMAIN children
               <=> fd # None /\ \E t \in Threads : pc[t] # "spawn" /\ handle[t] = fd
  /\ \A t, u \in Threads : t # u /\ handle[t] # None => handle[t] # handle[u]
  /\ \A t, u \in Threads : handle[t] # None => handle[t] # wend[u]
  /\ \A t, u \in Threads : t # u /\ wend[t] # None => wend[t] # wend[u]

LEMMA StreamsOfUnchanged ==
  ASSUME Streams, UNCHANGED <<handle, wend, fds>>, DOMAIN children' = DOMAIN children,
         \A t \in Threads : pc'[t] = "spawn" <=> pc[t] = "spawn"
  PROVE  Streams'
BY DEF Streams

LEMMA StreamsOfPclose ==
  ASSUME TypeOK, Streams, NEW t \in Threads, Pclose(t), UNCHANGED wend, pc[t] # "spawn",
         \A u \in Threads : pc'[u] = "spawn" <=> pc[u] = "spawn"
  PROVE  Streams'
<1>1. /\ fds' = fds \ {handle[t]} /\ DOMAIN children' = DOMAIN children \ {handle[t]}
      /\ handle'[t] = None /\ \A u \in Threads \ {t} : handle'[u] = handle[u]
  BY DEF Pclose, TypeOK
<1> QED
  BY <1>1 DEF Streams

LEMMA StreamsStep ==
  ASSUME TypeOK, Locals, Streams, [Next]_vars
  PROVE  Streams'
<1>1. ASSUME NEW t \in Threads, OpenPipe(t)
      PROVE  Streams'
  <2> DEFINE rd == Lowest(Fds \ fds)
             wr == Lowest(Fds \ (fds \cup {rd}))
  <2>1. rd \in Fds \ fds /\ wr \in Fds \ fds /\ rd # wr
    BY <1>1, TwoLowestFacts DEF TypeOK, OpenPipe
  <2>2. /\ pc[t] = "frame" /\ pc' = [pc EXCEPT ![t] = "spawn"] /\ UNCHANGED children
        /\ fds' = fds \cup {rd, wr}
        /\ handle' = [handle EXCEPT ![t] = rd]
        /\ wend' = [wend EXCEPT ![t] = wr]
    BY <1>1 DEF OpenPipe
  <2>3. handle[t] = None /\ wend[t] = None
    BY <2>2 DEF Locals, Holds
  <2> HIDE DEF rd, wr
  <2>4. /\ pc'[t] = "spawn" /\ handle'[t] = rd /\ wend'[t] = wr
        /\ \A u \in Threads \ {t} :
             pc'[u] = pc[u] /\ handle'[u] = handle[u] /\ wend'[u] = wend[u]
    BY <2>2 DEF TypeOK
  <2>5. rd # None /\ wr # None
    BY <2>1, ConstantsAssumption
  <2> QED
    BY <2>1, <2>2, <2>3, <2>4, <2>5 DEF Streams
<1>2. ASSUME NEW t \in Threads, Spawn(t)
      PROVE  Streams'
  <2>1. /\ pc[t] = "spawn" /\ pc'[t] = "read" /\ wend'[t] = None /\ handle' = handle
        /\ fds' = fds \ {wend[t]} /\ DOMAIN children' = DOMAIN children \cup {handle[t]}
        /\ \A u \in Threads \ {t} : pc'[u] = pc[u] /\ wend'[u] = wend[u]
    BY <1>2 DEF Spawn, TypeOK
  <2>2. handle[t] \in Fds /\ wend[t] \in Fds /\ None \notin Fds
    BY <2>1, ConstantsAssumption DEF Locals, Holds
  <2> QED
    BY <2>1, <2>2 DEF Streams
<1>3. ASSUME NEW t \in Threads, Convert(t)
      PROVE  Streams'
  BY <1>3, StreamsOfPclose DEF Convert, TypeOK
<1>4. ASSUME NEW t \in Threads, Unwind(t)
      PROVE  Streams'
  BY <1>4, StreamsOfPclose DEF Unwind, End, TypeOK
<1>5. ASSUME NEW t \in Threads, NEW outcome, NEW tr, End(t, outcome, tr),
             UNCHANGED <<handle, fds, children>>, pc[t] # "spawn"
      PROVE  Streams'
  BY <1>5, StreamsOfUnchanged DEF End, TypeOK
<1>6. ASSUME NEW t \in Threads, Switch(t) \/ SymbolsFail(t) \/ Copy(t) \/ Return(t)
      PROVE  Streams'
  <2>1. CASE UNCHANGED <<handle, wend, fds, children, pc>>
    BY <2>1, StreamsOfUnchanged
  <2>2. pc[t] # "spawn"
    BY <1>6 DEF Switch, SymbolsFail, Copy, Return
  <2>3. CASE Copy(t) \/ Return(t)
    BY <1>5, <2>2, <2>3 DEF Copy, Return
  <2>4. CASE SymbolsFail(t)
    BY <1>5, <2>1, <2>2, <2>4 DEF SymbolsFail, locals
  <2>5. CASE Switch(t)
    <3>1. CASE collect = "NO" \/ depth[t] <= 0
      BY <1>5, <2>2, <2>5, <3>1 DEF Switch
    <3>2. CASE ~ (collect = "NO" \/ depth[t] <= 0)
      BY <2>2, <2>5, <3>2, StreamsOfUnchanged DEF Switch, TypeOK
    <3> QED
      BY <3>1, <3>2
  <2> QED
    BY <1>6, <2>3, <2>4, <2>5
<1>7. ASSUME NEW t \in Threads, Symbols(t) \/ PushRaw(t) \/ PopenFails(t) \/ BadAlloc(t)
      PROVE  Streams'
  <2>1. /\ UNCHANGED <<handle, wend, fds, children>>
        /\ \A u \in Threads : pc'[u] = "spawn" <=> pc[u] = "spawn"
    BY <1>7 DEF Symbols, PushRaw, PopenFails, BadAlloc, locals, TypeOK
  <2> QED
    BY <2>1, StreamsOfUnchanged
<1>8. ASSUME NEW t \in Threads, NEW d \in Depths, Construct(t, d)
      PROVE  Streams'
  BY <1>8, StreamsOfUnchanged DEF Construct, TypeOK
<1>9. ASSUME NEW m \in Modes, SetCollectStack(m)
      PROVE  Streams'
  BY <1>9, StreamsOfUnchanged DEF SetCollectStack, locals
<1>10. ASSUME NEW fd \in Fds, ChildExits(fd)
       PROVE  Streams'
  BY <1>10, StreamsOfUnchanged DEF ChildExits, TypeOK
<1>11. CASE UNCHANGED vars
  BY <1>11, StreamsOfUnchanged DEF vars, locals
<1> QED
  BY <1>1, <1>2, <1>3, <1>4, <1>6, <1>7, <1>8, <1>9, <1>10, <1>11 DEF Next, Step

LEMMA StreamsInvariant == Spec => []Streams
<1>1. Init => Streams
  BY DEF Init, Streams
<1>2. TypeOK /\ Locals /\ Streams /\ [Next]_vars => Streams'
  BY StreamsStep
<1> QED
  BY <1>1, <1>2, LocalsInvariant, PTL DEF Spec

(***************************************************************************)
(* No pipe, child or list of symbols escapes the collector that made it,   *)
(* not even when a std::bad_alloc unwinds it: the unique_ptr's of          *)
(* stack_trace.cpp own them all, whatever the number of threads.           *)
(***************************************************************************)
THEOREM StreamOwnershipCorrect == Spec => []StreamOwnership
<1>1. Locals /\ Streams => StreamOwnership
  <2> SUFFICES ASSUME Locals, Streams
               PROVE  StreamOwnership
    OBVIOUS
  <2>1. fds = ({handle[t] : t \in Threads} \cup {wend[t] : t \in Threads}) \ {None}
    BY DEF Streams
  <2>2. DOMAIN children = {handle[t] : t \in {u \in Threads : pc[u] # "spawn"}} \ {None}
    <3> DEFINE D == DOMAIN children
    <3>1. \A fd : fd \in D <=> fd # None /\ \E t \in Threads : pc[t] # "spawn" /\ handle[t] = fd
      BY DEF Streams
    <3> HIDE DEF D
    <3>2. D = {handle[t] : t \in {u \in Threads : pc[u] # "spawn"}} \ {None}
      BY <3>1
    <3> QED
      BY <3>2 DEF D
  <2>3. \A t, u \in Threads :
          (t # u /\ handle[t] # None) => handle[t] \notin {handle[u], wend[u]}
    BY DEF Streams
  <2>4. \A t \in Threads : pc[t] = "idle" => t \notin lists /\ handle[t] = None
    BY DEF Locals, Holds
  <2> QED
    BY <2>1, <2>2, <2>3, <2>4 DEF StreamOwnership
<1> QED
  BY <1>1, LocalsInvariant, StreamsInvariant, PTL

(***************************************************************************)
(* A function on a finite set has no more values than arguments.           *)
(***************************************************************************)
LEMMA ImageFacts ==
  ASSUME NEW S, IsFiniteSet(S), NEW f
  PROVE  IsFiniteSet({f[x] : x \in S}) /\ Cardinality({f[x] : x \in S}) <= Cardinality(S)
<1> DEFINE T == {f[x] : x \in S}
           g == [x \in S |-> f[x]]
<1>1. g \in Surjection(S, T)
  BY DEF Surjection
<1> HIDE DEF T, g
<1>2. IsFiniteSet(T) /\ Cardinality(T) <= Cardinality(S)
  BY <1>1, FS_Surjection
<1> QED
  BY <1>2 DEF T

(***************************************************************************)
(* While a thread is about to call popen(), the other threads hold at most *)
(* two descriptors each.                                                   *)
(***************************************************************************)
LEMMA TwoAreFree ==
  ASSUME TypeOK, Locals, Streams, IsFiniteSet(Threads),
         Cardinality(Fds) >= 2 * Cardinality(Threads), NEW t \in Threads, pc[t] = "frame"
  PROVE  Cardinality(Fds \ fds) >= 2
<1> DEFINE O == Threads \ {t}
           H == {handle[u] : u \in O}
           W == {wend[u] : u \in O}
<1>1. IsFiniteSet(O) /\ Cardinality(O) = Cardinality(Threads) - 1
  BY FS_RemoveElement
<1>2. Cardinality(Threads) \in Nat /\ Cardinality(O) \in Nat
  BY <1>1, FS_CardinalityType
<1> HIDE DEF O
<1>3. IsFiniteSet(H) /\ Cardinality(H) <= Cardinality(O)
  BY <1>1, ImageFacts
<1>4. IsFiniteSet(W) /\ Cardinality(W) <= Cardinality(O)
  BY <1>1, ImageFacts
<1>5. fds \subseteq H \cup W
  <2>1. handle[t] = None /\ wend[t] = None
    BY DEF Locals, Holds
  <2> QED
    BY <2>1 DEF Streams, O
<1> HIDE DEF H, W
<1>6. /\ IsFiniteSet(H \cup W)
      /\ Cardinality(H \cup W) = Cardinality(H) + Cardinality(W) - Cardinality(H \cap W)
  BY <1>3, <1>4, FS_Union
<1>7. /\ Cardinality(H) \in Nat /\ Cardinality(W) \in Nat
      /\ Cardinality(H \cap W) \in Nat /\ Cardinality(H \cup W) \in Nat
  BY <1>3, <1>4, <1>6, FS_Intersection, FS_CardinalityType
<1>8. IsFiniteSet(fds) /\ Cardinality(fds) <= Cardinality(H \cup W) /\ Cardinality(fds) \in Nat
  BY <1>5, <1>6, FS_Subset, FS_CardinalityType
<1>9. Cardinality(Fds \ fds) = Cardinality(Fds) - Cardinality(fds) /\ Cardinality(Fds) \in Nat
  <2>1. Fds \cap fds = fds
    BY DEF TypeOK
  <2> QED
    BY <2>1, ConstantsAssumption, FS_Difference, FS_CardinalityType
<1> QED
  BY <1>1, <1>2, <1>3, <1>4, <1>6, <1>7, <1>8, <1>9

(***************************************************************************)
(* Two free descriptors per thread are enough, for any number of threads:  *)
(* when nothing but an allocation fails, no exception brings the process   *)
(* down in the popen() of stack_trace.cpp:252.                             *)
(***************************************************************************)
THEOREM NoCrashCorrect ==
  ASSUME IsFiniteSet(Threads)
  PROVE  Spec => []TwoDescriptorsPerThreadSuffice
<1>1. Init => TwoDescriptorsPerThreadSuffice
  BY DEF Init, TwoDescriptorsPerThreadSuffice
<1>2. TypeOK /\ Locals /\ Streams /\ TwoDescriptorsPerThreadSuffice /\ [Next]_vars
        => TwoDescriptorsPerThreadSuffice'
  <2> SUFFICES ASSUME TypeOK, Locals, Streams, [Next]_vars, ~crashed,
                      Faults \subseteq {"alloc"},
                      Cardinality(Fds) >= 2 * Cardinality(Threads)
               PROVE  ~crashed'
    BY DEF TwoDescriptorsPerThreadSuffice
  <2>1. ASSUME NEW t \in Threads, SymbolsFail(t) \/ PopenFails(t)
        PROVE  FALSE
    <3>1. "symbols" \notin Faults /\ "popen" \notin Faults
      OBVIOUS
    <3>2. PopenFails(t)
      BY <2>1, <3>1 DEF SymbolsFail
    <3>3. pc[t] = "frame" /\ Cardinality(Fds \ fds) < 2
      BY <3>1, <3>2 DEF PopenFails
    <3>4. Cardinality(Fds \ fds) >= 2
      BY <3>3, TwoAreFree
    <3>5. Cardinality(Fds \ fds) \in Nat
      BY ConstantsAssumption, FS_Difference, FS_CardinalityType
    <3> QED
      BY <3>3, <3>4, <3>5
  <2>2. ASSUME NEW t \in Threads,
               \/ Switch(t) \/ Symbols(t) \/ Copy(t) \/ PushRaw(t) \/ OpenPipe(t) \/ Spawn(t)
               \/ Convert(t) \/ Return(t) \/ BadAlloc(t) \/ Unwind(t)
               \/ \E d \in Depths : Construct(t, d)
        PROVE  crashed' = crashed
    <3>1. CASE Switch(t) \/ Copy(t) \/ Return(t) \/ Unwind(t)
      BY <3>1 DEF Switch, Copy, Return, Unwind, End
    <3>2. CASE Symbols(t) \/ PushRaw(t) \/ OpenPipe(t) \/ Spawn(t) \/ Convert(t) \/ BadAlloc(t)
               \/ \E d \in Depths : Construct(t, d)
      BY <3>2 DEF Symbols, PushRaw, OpenPipe, Spawn, Convert, BadAlloc, Construct
    <3> QED
      BY <2>2, <3>1, <3>2
  <2>3. ASSUME (\E m \in Modes : SetCollectStack(m)) \/ (\E fd \in Fds : ChildExits(fd))
               \/ UNCHANGED vars
        PROVE  crashed' = crashed
    BY <2>3 DEF SetCollectStack, ChildExits, vars
  <2> QED
    BY <2>1, <2>2, <2>3 DEF Next, Step
<1> QED
  BY <1>1, <1>2, LocalsInvariant, StreamsInvariant, PTL DEF Spec

-----------------------------------------------------------------------------
(***************************************************************************)
(* The mode of a collector was in effect during the construction, and so   *)
(* is the present one; only an allocation that failed is unwound.          *)
(***************************************************************************)
Timely(t) ==
  /\ pc[t] # "idle" => collect \in seen[t]
  /\ pc[t] \in Collecting => mode[t] \in seen[t]
  /\ pc[t] = "unwind" => "alloc" \in Faults

History == \A t \in Threads : Timely(t)

LEMMA HistoryStep ==
  ASSUME TypeOK, History, [Next]_vars
  PROVE  History'
<1>1. ASSUME NEW t \in Threads, Step(t)
      PROVE  UNCHANGED <<collect, seen>>
  <2>1. CASE Switch(t) \/ SymbolsFail(t) \/ Copy(t) \/ Return(t) \/ Unwind(t)
    BY <2>1 DEF Switch, SymbolsFail, Copy, Return, Unwind, End
  <2>2. CASE Symbols(t) \/ PushRaw(t) \/ OpenPipe(t) \/ Spawn(t) \/ PopenFails(t) \/ Convert(t)
             \/ BadAlloc(t)
    BY <2>2 DEF Symbols, PushRaw, OpenPipe, Spawn, PopenFails, Convert, BadAlloc
  <2> QED
    BY <1>1, <2>1, <2>2 DEF Step
<1>2. ASSUME NEW t \in Threads, Step(t)
      PROVE  Timely(t)'
  <2>1. Timely(t) /\ collect' = collect /\ seen' = seen
    BY <1>1, <1>2 DEF History
  <2>2. CASE pc'[t] = "idle"
    BY <2>2 DEF Timely, Collecting
  <2>3. CASE Switch(t)
    <3>1. /\ pc[t] = "switch"
          /\ pc'[t] = "idle" \/ (pc'[t] = "symbols" /\ mode'[t] = collect)
      <4>1. CASE collect = "NO" \/ depth[t] <= 0
        <5>1. pc[t] = "switch" /\ End(t, "built", <<>>)
          BY <2>3, <4>1 DEF Switch
        <5> QED
          BY <5>1 DEF End, TypeOK
      <4>2. CASE ~ (collect = "NO" \/ depth[t] <= 0)
        BY <2>3, <4>2 DEF Switch, TypeOK
      <4> QED
        BY <4>1, <4>2
    <3> QED
      BY <2>1, <3>1 DEF Timely, Collecting
  <2>4. CASE Copy(t) \/ Return(t) \/ Unwind(t)
    BY <2>2, <2>4 DEF Copy, Return, Unwind, End, TypeOK
  <2>5. CASE SymbolsFail(t)
    BY <2>1, <2>2, <2>5 DEF SymbolsFail, End, TypeOK, Timely, locals
  <2>6. CASE Symbols(t) \/ PushRaw(t) \/ OpenPipe(t) \/ Spawn(t) \/ Convert(t)
    <3>1. pc[t] \in Collecting /\ pc'[t] \in Collecting /\ mode' = mode
      BY <2>6 DEF Symbols, PushRaw, OpenPipe, Spawn, Convert, TypeOK, Collecting
    <3> QED
      BY <2>1, <3>1 DEF Timely, Collecting
  <2>7. CASE PopenFails(t)
    BY <2>1, <2>7 DEF PopenFails, Timely, locals
  <2>8. CASE BadAlloc(t)
    <3>1. pc[t] # "idle" /\ pc'[t] = "unwind" /\ "alloc" \in Faults
      BY <2>8 DEF BadAlloc, TypeOK
    <3> QED
      BY <2>1, <3>1 DEF Timely, Collecting
  <2> QED
    BY <1>2, <2>3, <2>4, <2>5, <2>6, <2>7, <2>8 DEF Step
<1>3. ASSUME NEW t \in Threads, Step(t)
      PROVE  History'
  <2>1. ASSUME NEW u \in Threads, u # t
        PROVE  Timely(u)'
    BY <1>1, <1>3, <2>1, StepOfOthers DEF Same, History, Timely
  <2> QED
    BY <1>2, <1>3, <2>1 DEF History
<1>4. ASSUME NEW t \in Threads, NEW d \in Depths, Construct(t, d)
      PROVE  History'
  BY <1>4 DEF Construct, TypeOK, History, Timely, Collecting
<1>5. ASSUME NEW m \in Modes, SetCollectStack(m)
      PROVE  History'
  BY <1>5 DEF SetCollectStack, locals, TypeOK, History, Timely, Collecting
<1>6. ASSUME NEW fd \in Fds, ChildExits(fd)
      PROVE  History'
  BY <1>6 DEF ChildExits, History, Timely
<1>7. CASE UNCHANGED vars
  BY <1>7 DEF vars, locals, History, Timely
<1> QED
  BY <1>3, <1>4, <1>5, <1>6, <1>7 DEF Next

LEMMA HistoryInvariant == Spec => []History
<1>1. Init => History
  BY DEF Init, History, Timely, Collecting
<1>2. TypeOK /\ History /\ [Next]_vars => History'
  BY HistoryStep
<1> QED
  BY <1>1, <1>2, LocalsInvariant, PTL DEF Spec

(***************************************************************************)
(* The end of a constructor is a Finish of the promise when its trace is   *)
(* the one of a mode that was in effect, or when an allocation failed.     *)
(***************************************************************************)
LEMMA EndFinishes ==
  ASSUME TypeOK, NEW t \in Threads, pc[t] # "idle", NEW outcome, NEW tr,
         End(t, outcome, tr),
         \/ outcome = "built" /\ \E m \in seen[t] : Promise!Describes(tr, m, depth[t])
         \/ outcome = "bad_alloc" /\ tr = <<>> /\ "alloc" \in Faults
  PROVE  Promise!Finish(t)
<1>1. /\ pc' = [pc EXCEPT ![t] = "idle"]
      /\ result' = [result EXCEPT ![t] = [outcome |-> outcome, trace |-> tr]]
      /\ depth' = [depth EXCEPT ![t] = 0]
      /\ UNCHANGED <<collect, seen>>
  BY DEF End
<1>2. result'[t].trace = tr
  BY <1>1 DEF TypeOK
<1>3. Promise!Built(t) \/ Promise!Failed(t)
  BY <1>1, <1>2 DEF Promise!Built, Promise!Failed
<1>4. [u \in Threads |-> pc[u] # "idle"]'
        = [[u \in Threads |-> pc[u] # "idle"] EXCEPT ![t] = FALSE]
  BY <1>1 DEF TypeOK
<1>5. [u \in Threads |-> pc[u] # "idle"][t]
  OBVIOUS
<1> QED
  BY <1>1, <1>3, <1>4, <1>5 DEF Promise!Finish

LEMMA FramesFacts ==
  ASSUME TypeOK, NEW t \in Threads, depth[t] > 0, NEW m \in {"YES", "COMPLETE"}
  PROVE  Promise!Frames(m, depth[t]) = Size(t)
BY SizeFacts, ConstantsAssumption DEF Promise!Frames, Size, min

(***************************************************************************)
(* What each return of a collector gives is what the promise describes.    *)
(***************************************************************************)
LEMMA SwitchDescribes ==
  ASSUME NEW t \in Threads, collect = "NO" \/ depth[t] <= 0
  PROVE  Promise!Describes(<<>>, collect, depth[t])
<1>1. Promise!Frames(collect, depth[t]) = 0
  BY DEF Promise!Frames
<1>2. DOMAIN <<>> = 1..0
  OBVIOUS
<1> QED
  BY <1>1, <1>2 DEF Promise!Describes

LEMMA CopyDescribes ==
  ASSUME TypeOK, Locals, NEW t \in Threads, pc[t] = "copy"
  PROVE  Promise!Describes([i \in 1..Size(t) |-> Entry(i, "raw")], "YES", depth[t])
<1>1. Promise!Frames("YES", depth[t]) = Size(t)
  BY FramesFacts DEF Locals, Local, Collecting
<1> QED
  BY <1>1 DEF Promise!Describes, Entry

LEMMA ReturnDescribes ==
  ASSUME TypeOK, Locals, NEW t \in Threads, pc[t] = "frame", ~More(t)
  PROVE  Promise!Describes(trace[t], "COMPLETE", depth[t])
<1>1. /\ Len(trace[t]) <= Size(t) /\ depth[t] > 0
      /\ \A i \in DOMAIN trace[t] : trace[t][i] = Line(i)
  BY DEF Locals, Local, Collecting
<1>2. Len(trace[t]) = Size(t) /\ DOMAIN trace[t] = 1..Size(t)
  BY <1>1, SizeFacts DEF More
<1>3. Promise!Frames("COMPLETE", depth[t]) = Size(t)
  BY <1>1, FramesFacts
<1> QED
  BY <1>1, <1>2, <1>3 DEF Promise!Describes, Line, Entry

(***************************************************************************)
(* A step of a thread finishes its construction as promised, or changes    *)
(* nothing of what the promise is about.                                   *)
(***************************************************************************)
LEMMA StepOfPromise ==
  ASSUME TypeOK, Locals, History, NEW t \in Threads, Step(t)
  PROVE  Promise!Finish(t) \/ UNCHANGED Promise!vars
<1>0. Local(t) /\ Timely(t)
  BY DEF Locals, History
<1>1. ASSUME UNCHANGED <<collect, depth, result, seen>>,
             \A u \in Threads : pc'[u] = "idle" <=> pc[u] = "idle"
      PROVE  UNCHANGED Promise!vars
  BY <1>1 DEF Promise!vars
<1>2. CASE Switch(t)
  <2>1. CASE collect = "NO" \/ depth[t] <= 0
    <3>1. /\ pc[t] # "idle" /\ End(t, "built", <<>>) /\ collect \in seen[t]
      BY <1>0, <1>2, <2>1 DEF Switch, Timely
    <3> QED
      BY <2>1, <3>1, SwitchDescribes, EndFinishes
  <2>2. CASE ~ (collect = "NO" \/ depth[t] <= 0)
    BY <1>1, <1>2, <2>2 DEF Switch, TypeOK
  <2> QED
    BY <2>1, <2>2
<1>3. CASE SymbolsFail(t)
  <2>1. CASE mode[t] = "YES" /\ End(t, "built", <<>>)
    <3>1. pc[t] # "idle" /\ "YES" \in seen[t] /\ "symbols" \in Faults
      BY <1>0, <1>3, <2>1 DEF SymbolsFail, Timely, Collecting
    <3>2. Promise!Describes(<<>>, "YES", depth[t])
      BY <3>1 DEF Promise!Describes
    <3> QED
      BY <2>1, <3>1, <3>2, EndFinishes
  <2>2. CASE UNCHANGED <<collect, pc, locals, result, seen>>
    BY <1>1, <2>2 DEF locals
  <2> QED
    BY <1>3, <2>1, <2>2 DEF SymbolsFail
<1>4. CASE Copy(t)
  <2>1. pc[t] = "copy" /\ mode[t] = "YES" /\ "YES" \in seen[t]
    BY <1>0, <1>4 DEF Copy, Local, Timely, Collecting
  <2>2. End(t, "built", [i \in 1..Size(t) |-> Entry(i, "raw")])
    BY <1>4 DEF Copy
  <2> QED
    BY <2>1, <2>2, CopyDescribes, EndFinishes
<1>5. CASE Return(t)
  <2>1. pc[t] = "frame" /\ ~More(t) /\ mode[t] = "COMPLETE" /\ "COMPLETE" \in seen[t]
    BY <1>0, <1>5 DEF Return, Local, Timely, Collecting
  <2>2. End(t, "built", trace[t])
    BY <1>5 DEF Return
  <2> QED
    BY <2>1, <2>2, ReturnDescribes, EndFinishes
<1>6. CASE Unwind(t)
  <2>1. pc[t] = "unwind" /\ "alloc" \in Faults /\ End(t, "bad_alloc", <<>>)
    BY <1>0, <1>6 DEF Unwind, Timely
  <2> QED
    BY <2>1, EndFinishes
<1>7. CASE PopenFails(t)
  BY <1>1, <1>7 DEF PopenFails, locals
<1>8. CASE Symbols(t) \/ PushRaw(t) \/ OpenPipe(t) \/ Spawn(t) \/ Convert(t) \/ BadAlloc(t)
  <2>1. /\ UNCHANGED <<collect, depth, result, seen>>
        /\ \A u \in Threads : pc'[u] = "idle" <=> pc[u] = "idle"
    BY <1>8 DEF Symbols, PushRaw, OpenPipe, Spawn, Convert, BadAlloc, TypeOK, locals
  <2> QED
    BY <1>1, <2>1
<1> QED
  BY <1>2, <1>3, <1>4, <1>5, <1>6, <1>7, <1>8 DEF Step

LEMMA NextOfPromise ==
  ASSUME TypeOK, Locals, History, [Next]_vars
  PROVE  [Promise!Next]_(Promise!vars)
<1>1. ASSUME NEW m \in Modes, SetCollectStack(m)
      PROVE  Promise!Set(m)
  <2>1. /\ collect' = m
        /\ seen' = [t \in Threads |-> IF pc[t] = "idle" THEN seen[t] ELSE seen[t] \cup {m}]
        /\ UNCHANGED <<pc, depth, result>>
    BY <1>1 DEF SetCollectStack, locals
  <2>2. seen' = [t \in Threads |->
                   IF [u \in Threads |-> pc[u] # "idle"][t] THEN seen[t] \cup {m} ELSE seen[t]]
    BY <2>1
  <2> QED
    BY <2>1, <2>2 DEF Promise!Set
<1>2. ASSUME NEW t \in Threads, NEW d \in Depths, Construct(t, d)
      PROVE  Promise!Begin(t, d)
  <2>1. /\ pc[t] = "idle" /\ pc' = [pc EXCEPT ![t] = "switch"]
        /\ depth' = [depth EXCEPT ![t] = d]
        /\ result' = [result EXCEPT ![t] = [outcome |-> "none", trace |-> <<>>]]
        /\ seen' = [seen EXCEPT ![t] = {collect}]
        /\ collect' = collect
    BY <1>2 DEF Construct
  <2>2. [u \in Threads |-> pc[u] # "idle"]'
          = [[u \in Threads |-> pc[u] # "idle"] EXCEPT ![t] = TRUE]
    BY <2>1 DEF TypeOK
  <2>3. ~ [u \in Threads |-> pc[u] # "idle"][t]
    BY <2>1
  <2> QED
    BY <2>1, <2>2, <2>3 DEF Promise!Begin
<1>3. ASSUME NEW fd \in Fds, ChildExits(fd)
      PROVE  UNCHANGED Promise!vars
  BY <1>3 DEF ChildExits, Promise!vars
<1>4. CASE UNCHANGED vars
  BY <1>4 DEF vars, locals, Promise!vars
<1>5. Modes = Promise!Modes
  BY DEF Modes, Promise!Modes
<1> QED
  BY <1>1, <1>2, <1>3, <1>4, <1>5, StepOfPromise DEF Next, Promise!Next

LEMMA InitOfPromise == Init => Promise!Init
BY DEF Init, Promise!Init

(***************************************************************************)
(* The constructor and its collectors keep the promise: whatever the other *)
(* threads do to the mode and whatever fails, the trace of an exception is *)
(* the whole trace of one mode in effect while it was constructed.         *)
(***************************************************************************)
THEOREM ImplementsCorrect == Spec => Implements
<1>1. Init => Promise!Init
  BY InitOfPromise
<1>2. TypeOK /\ Locals /\ History /\ [Next]_vars => [Promise!Next]_(Promise!vars)
  BY NextOfPromise
<1> QED
  BY <1>1, <1>2, LocalsInvariant, HistoryInvariant, PTL DEF Spec, Implements, Promise!Spec
-----------------------------------------------------------------------------
(***************************************************************************)
(* With a depth of at most the clamp of stack_trace.cpp:107, such as the   *)
(* default one, the documentation of collect_stack_trace() is right: no    *)
(* trace is longer than the clamp.                                         *)
(***************************************************************************)
THEOREM ClampedBelow ==
  ASSUME \A d \in Depths : d <= Clamp
  PROVE  Spec => []DepthClamped
<1>1. Init => DepthClamped
  BY ConstantsAssumption DEF Init, DepthClamped
<1>2. TypeOK /\ Locals /\ DepthClamped /\ [Next]_vars => DepthClamped'
  <2> SUFFICES ASSUME TypeOK, Locals, DepthClamped, [Next]_vars
               PROVE  DepthClamped'
    OBVIOUS
  <2>1. ASSUME NEW t \in Threads, NEW outcome, NEW tr, End(t, outcome, tr), Len(tr) <= Clamp
        PROVE  DepthClamped'
    BY <2>1 DEF End, TypeOK, DepthClamped
  <2>2. ASSUME UNCHANGED result
        PROVE  DepthClamped'
    BY <2>2 DEF DepthClamped
  <2>3. Len(<<>>) <= Clamp
    BY ConstantsAssumption
  <2>4. ASSUME NEW t \in Threads
        PROVE  Size(t) <= Clamp
    <3>1. depth[t] <= Clamp
      BY ConstantsAssumption DEF TypeOK
    <3> QED
      BY <3>1, SizeFacts, ConstantsAssumption
  <2>5. ASSUME NEW t \in Threads, Copy(t)
        PROVE  DepthClamped'
    <3> DEFINE tr == [i \in 1..Size(t) |-> Entry(i, "raw")]
    <3>1. pc[t] = "copy" /\ End(t, "built", tr)
      BY <2>5 DEF Copy
    <3>2. Size(t) \in Nat
      BY <3>1, SizeFacts DEF Locals, Local, Collecting
    <3>3. tr \in [1..Size(t) -> {Entry(i, "raw") : i \in 1..Size(t)}]
      OBVIOUS
    <3>4. DOMAIN tr = 1..Size(t)
      OBVIOUS
    <3> HIDE DEF tr
    <3>5. Len(tr) = Size(t)
      <4>1. tr \in Seq({Entry(i, "raw") : i \in 1..Size(t)})
        BY <3>2, <3>3, FunctionIsSequence
      <4> QED
        BY <3>2, <3>4, <4>1, LenProperties
    <3> QED
      BY <2>1, <2>4, <3>1, <3>5
  <2>6. ASSUME NEW t \in Threads, Return(t)
        PROVE  DepthClamped'
    <3>1. pc[t] = "frame" /\ End(t, "built", trace[t])
      BY <2>6 DEF Return
    <3>2. Len(trace[t]) <= Clamp
      <4>1. Len(trace[t]) <= Size(t)
        BY <3>1 DEF Locals, Local
      <4> QED
        BY <2>4, <4>1, SizeFacts, ConstantsAssumption
    <3> QED
      BY <2>1, <3>1, <3>2
  <2>7. ASSUME NEW t \in Threads, Switch(t) \/ SymbolsFail(t) \/ Unwind(t)
        PROVE  DepthClamped'
    <3>1. CASE UNCHANGED result
      BY <2>2, <3>1
    <3>2. CASE End(t, "built", <<>>) \/ End(t, "bad_alloc", <<>>)
      BY <2>1, <2>3, <3>2
    <3> QED
      BY <2>7, <3>1, <3>2 DEF Switch, SymbolsFail, Unwind
  <2>8. ASSUME NEW t \in Threads,
               \/ Symbols(t) \/ PushRaw(t) \/ OpenPipe(t) \/ Spawn(t) \/ PopenFails(t)
               \/ Convert(t) \/ BadAlloc(t)
        PROVE  DepthClamped'
    BY <2>2, <2>8 DEF Symbols, PushRaw, OpenPipe, Spawn, PopenFails, Convert, BadAlloc
  <2>9. ASSUME NEW t \in Threads, NEW d \in Depths, Construct(t, d)
        PROVE  DepthClamped'
    BY <2>3, <2>9 DEF Construct, TypeOK, DepthClamped
  <2>10. ASSUME \/ \E m \in Modes : SetCollectStack(m)
                \/ \E fd \in Fds : ChildExits(fd)
                \/ UNCHANGED vars
         PROVE  DepthClamped'
    BY <2>2, <2>10 DEF SetCollectStack, ChildExits, vars
  <2> QED
    BY <2>5, <2>6, <2>7, <2>8, <2>9, <2>10 DEF Next, Step
<1> QED
  BY <1>1, <1>2, LocalsInvariant, PTL DEF Spec

-----------------------------------------------------------------------------
(***************************************************************************)
(* The frames left to a thread: at least the one it converts.              *)
(***************************************************************************)
Left(t) == Size(t) - Len(trace[t])

LEMMA LeftFacts ==
  ASSUME TypeOK, Locals, NEW t \in Threads
  PROVE  /\ Left(t) \in Int
         /\ pc[t] = "frame" => Left(t) >= 0
         /\ pc[t] \in {"spawn", "read"} => Left(t) >= 1
         /\ pc[t] \in {"symbols", "copy"} => Left(t) <= Height
<1>1. Local(t)
  BY DEF Locals
<1>2. /\ Size(t) \in Int /\ Len(trace[t]) \in Nat /\ Size(t) <= Height
      /\ Frame(t) = Len(trace[t]) + 1
  BY SizeFacts
<1>3. CASE pc[t] \in {"frame", "spawn", "read"}
  BY <1>1, <1>2, <1>3 DEF Local, Left
<1>4. CASE pc[t] \notin {"frame", "spawn", "read"}
  BY <1>2, <1>4, ConstantsAssumption DEF Left
<1> QED
  BY <1>3, <1>4

LEMMA WorkIs ==
  ASSUME NEW t \in Threads
  PROVE  /\ pc[t] = "idle"    => Work(t) = 0
         /\ pc[t] = "unwind"  => Work(t) = 1
         /\ pc[t] = "copy"    => Work(t) = 2
         /\ pc[t] = "read"    => Work(t) = 3 * Left(t)
         /\ pc[t] = "spawn"   => Work(t) = 3 * Left(t) + 1
         /\ pc[t] = "frame"   => Work(t) = 3 * Left(t) + 2
         /\ pc[t] = "symbols" => Work(t) = 3 * Height + 3
         /\ pc[t] = "switch"  => Work(t) = 3 * Height + 4
BY DEF Work, Left

(***************************************************************************)
(* A construction has some work left until it is over.                     *)
(***************************************************************************)
LEMMA WorkFacts ==
  ASSUME TypeOK, Locals, NEW t \in Threads
  PROVE  Work(t) \in Nat /\ (pc[t] # "idle" => Work(t) > 0)
<1>1. pc[t] \in {"idle", "switch", "symbols", "copy", "frame", "spawn", "read", "unwind"}
  BY DEF TypeOK
<1> HIDE DEF Work
<1> QED
  BY <1>1, LeftFacts, WorkIs, ConstantsAssumption

LEMMA WorkInvariant == Spec => [](\A t \in Threads : Work(t) \in Nat)
<1>1. TypeOK /\ Locals => \A t \in Threads : Work(t) \in Nat
  BY WorkFacts
<1> QED
  BY <1>1, LocalsInvariant, PTL

\* The next step of the loop over the frames is one frame nearer to its end.
LEMMA LeftOfPush ==
  ASSUME TypeOK, NEW t \in Threads, NEW text \in Texts, Push(t, text),
         Frame(t) <= Size(t), UNCHANGED depth
  PROVE  Left(t)' = Left(t) - 1
<1>1. Len(trace'[t]) = Len(trace[t]) + 1
  BY PushFacts
<1>2. Size(t)' = Size(t)
  BY DEF Size, min
<1> QED
  BY <1>1, <1>2, SizeFacts DEF Left

LEMMA WorkOfStep ==
  ASSUME TypeOK, Locals, NEW t \in Threads, Step(t)
  PROVE  (crashed' /\ Work(t)' = Work(t)) \/ Work(t)' < Work(t)
<1> DEFINE w == Work(t)
           v == Work(t)'
           left == Left(t)
<1>0. /\ left \in Int
      /\ pc[t] = "frame" => left >= 0
      /\ pc[t] \in {"spawn", "read"} => left >= 1
  BY LeftFacts
<1>1. /\ pc'[t] = "idle"   => v = 0
      /\ pc'[t] = "unwind" => v = 1
      /\ pc'[t] = "copy"   => v = 2
      /\ pc'[t] = "read"   => v = 3 * Left(t)'
      /\ pc'[t] = "spawn"  => v = 3 * Left(t)' + 1
      /\ pc'[t] = "frame"  => v = 3 * Left(t)' + 2
      /\ pc'[t] = "symbols" => v = 3 * Height + 3
  BY DEF Work, Left
<1>2. pc[t] # "idle" => w \in Nat /\ w > 0
  BY WorkFacts
<1>3. CASE pc[t] # "idle" /\ pc'[t] = "idle"
  BY <1>1, <1>2, <1>3
<1>4. CASE crashed' /\ UNCHANGED <<pc, locals>>
  BY <1>4 DEF Work, Size, min, locals
<1>5. CASE Switch(t)
  <2>1. CASE collect = "NO" \/ depth[t] <= 0
    BY <1>3, <1>5, <2>1 DEF Switch, End, TypeOK
  <2>2. CASE ~ (collect = "NO" \/ depth[t] <= 0)
    <3>1. pc[t] = "switch" /\ pc'[t] = "symbols"
      BY <1>5, <2>2 DEF Switch, TypeOK
    <3>2. w = 3 * Height + 4 /\ v = 3 * Height + 3
      BY <1>1, <3>1, WorkIs
    <3> HIDE DEF w, v
    <3>3. v < w
      BY <3>2, ConstantsAssumption
    <3> QED
      BY <3>3 DEF w, v
  <2> QED
    BY <2>1, <2>2
<1>6. CASE Symbols(t)
  <2>1. /\ pc[t] = "symbols" /\ pc'[t] \in {"copy", "frame"} /\ UNCHANGED <<depth, trace>>
    BY <1>6 DEF Symbols, TypeOK
  <2>2. Left(t)' = left /\ left <= Height
    BY <2>1, LeftFacts DEF Left, Size, min
  <2>3. w = 3 * Height + 3 /\ (v = 2 \/ v = 3 * left + 2)
    BY <1>1, <2>1, <2>2, WorkIs
  <2> HIDE DEF w, v, left
  <2>4. v < w
    BY <1>0, <2>2, <2>3, ConstantsAssumption
  <2> QED
    BY <2>4 DEF w, v
<1>7. CASE SymbolsFail(t)
  BY <1>3, <1>4, <1>7 DEF SymbolsFail, End, TypeOK
<1>8. CASE Copy(t) \/ Return(t) \/ Unwind(t)
  BY <1>3, <1>8 DEF Copy, Return, Unwind, End, TypeOK
<1>9. CASE PushRaw(t)
  <2>1. /\ pc[t] = "frame" /\ pc'[t] = "frame" /\ Frame(t) <= Size(t)
        /\ Push(t, "raw") /\ UNCHANGED depth
    BY <1>9 DEF PushRaw, More
  <2>2. Left(t)' = left - 1
    BY <2>1, LeftOfPush DEF Texts
  <2>3. w = 3 * left + 2 /\ v = 3 * (left - 1) + 2
    BY <1>1, <2>1, <2>2, WorkIs
  <2> HIDE DEF w, v, left
  <2>4. v < w
    BY <1>0, <2>3
  <2> QED
    BY <2>4 DEF w, v
<1>10. CASE OpenPipe(t) \/ Spawn(t)
  <2>1. /\ \/ pc[t] = "frame" /\ pc'[t] = "spawn"
           \/ pc[t] = "spawn" /\ pc'[t] = "read"
        /\ UNCHANGED <<depth, trace>>
    BY <1>10 DEF OpenPipe, Spawn, TypeOK
  <2>2. Left(t)' = left
    BY <2>1 DEF Left, Size, min
  <2>3. \/ w = 3 * left + 2 /\ v = 3 * left + 1
        \/ w = 3 * left + 1 /\ v = 3 * left
    BY <1>1, <2>1, <2>2, WorkIs
  <2> HIDE DEF w, v, left
  <2>4. v < w
    BY <1>0, <2>3
  <2> QED
    BY <2>4 DEF w, v
<1>11. CASE PopenFails(t)
  BY <1>4, <1>11 DEF PopenFails
<1>12. CASE Convert(t)
  <2>1. /\ pc[t] = "read" /\ pc'[t] = "frame" /\ Push(t, "converted") /\ UNCHANGED depth
    BY <1>12 DEF Convert, TypeOK
  <2>2. Frame(t) <= Size(t)
    BY <2>1 DEF Locals, Local
  <2>3. Left(t)' = left - 1
    BY <2>1, <2>2, LeftOfPush DEF Texts
  <2>4. w = 3 * left /\ v = 3 * (left - 1) + 2
    BY <1>1, <2>1, <2>3, WorkIs
  <2> HIDE DEF w, v, left
  <2>5. v < w
    BY <1>0, <2>4
  <2> QED
    BY <2>5 DEF w, v
<1>13. CASE BadAlloc(t)
  <2>1. pc[t] \in {"switch", "symbols", "copy", "frame", "read"} /\ pc'[t] = "unwind"
    BY <1>13 DEF BadAlloc, TypeOK
  <2>2. v = 1
    BY <1>1, <2>1
  <2>3. \/ w \in {3 * Height + 4, 3 * Height + 3, 2}
        \/ left >= 0 /\ w = 3 * left + 2
        \/ left >= 1 /\ w = 3 * left
    BY <1>0, <2>1, WorkIs
  <2> HIDE DEF w, v, left
  <2>4. v < w
    BY <1>0, <2>2, <2>3, ConstantsAssumption
  <2> QED
    BY <2>4 DEF w, v
<1> QED
  BY <1>5, <1>6, <1>7, <1>8, <1>9, <1>10, <1>11, <1>12, <1>13 DEF Step

(***************************************************************************)
(* Every construction is bounded, for any depth and any call stack: the    *)
(* step of a thread is a step towards the end of its construction, and no  *)
(* other step takes it farther from it.  With the fairness that every      *)
(* thread runs and every child exits, this is why constructions end.       *)
(***************************************************************************)
THEOREM ConstructionBoundedCorrect == Spec => ConstructionBounded
<1> DEFINE Natural == \A t \in Threads : Work(t) \in Nat
           Nearer == \A t \in Threads : pc[t] # "idle" =>
                       /\ Work(t)' \in 0..Work(t)
                       /\ Step(t) => crashed' \/ Work(t)' < Work(t)
<1>1. ASSUME TypeOK, Locals, Natural, Natural', [Next]_vars
      PROVE  [Nearer]_vars
  <2>1. \A t \in Threads : Work(t) \in Nat /\ Work(t)' \in Nat
    BY <1>1
  <2>2. ASSUME NEW t \in Threads, Same(t)
        PROVE  Work(t)' = Work(t)
    BY <2>2 DEF Same, Work, Size, min
  <2>3. ASSUME NEW t \in Threads, Step(t)
        PROVE  (crashed' /\ Work(t)' = Work(t)) \/ Work(t)' < Work(t)
    BY <1>1, <2>3, WorkOfStep
  <2>4. ASSUME NEW t \in Threads, pc[t] # "idle"
        PROVE  Work(t)' = Work(t) \/ Work(t)' < Work(t)
    <3>1. ASSUME NEW u \in Threads, Step(u)
          PROVE  Work(t)' = Work(t) \/ Work(t)' < Work(t)
      <4>1. CASE u = t
        BY <2>3, <3>1, <4>1
      <4>2. CASE u # t
        BY <1>1, <2>2, <3>1, <4>2, StepOfOthers
      <4> QED
        BY <4>1, <4>2
    <3>2. ASSUME NEW u \in Threads, NEW d \in Depths, Construct(u, d)
          PROVE  Same(t)
      BY <1>1, <2>4, <3>2 DEF Construct, TypeOK, Same
    <3>3. ASSUME NEW m \in Modes, SetCollectStack(m)
          PROVE  Same(t)
      BY <3>3 DEF SetCollectStack, locals, Same
    <3>4. ASSUME NEW fd \in Fds, ChildExits(fd)
          PROVE  Same(t)
      BY <3>4 DEF ChildExits, Same
    <3>5. ASSUME UNCHANGED vars
          PROVE  Same(t)
      BY <3>5 DEF vars, locals, Same
    <3> QED
      BY <1>1, <2>2, <3>1, <3>2, <3>3, <3>4, <3>5 DEF Next
  <2>5. ASSUME NEW t \in Threads, pc[t] # "idle"
        PROVE  /\ Work(t)' \in 0..Work(t)
               /\ Step(t) => crashed' \/ Work(t)' < Work(t)
    <3>1. Work(t)' \in 0..Work(t)
      BY <2>1, <2>4, <2>5
    <3> QED
      BY <2>3, <3>1
  <2> QED
    BY <2>5
<1>2. TypeOK /\ Locals /\ Natural /\ Natural' /\ [Next]_vars => [Nearer]_vars
  BY <1>1
<1>3. Spec => []Natural
  BY WorkInvariant
<1> QED
  BY <1>2, <1>3, LocalsInvariant, PTL DEF Spec, ConstructionBounded
=============================================================================
