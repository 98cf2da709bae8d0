------------------------ MODULE ReportSignal_proofs -------------------------
(***************************************************************************)
(* Proofs about ReportSignal, for any finite number of threads, any        *)
(* signals, lists and inherited masks, any number of calls of              *)
(* init_report_signal() and any nesting of report_signal().                *)
(***************************************************************************)
EXTENDS ReportSignal, FiniteSetTheorems, SequenceTheorems, TLAPS

Call == [sig : Signals, traced : BOOLEAN]

(***************************************************************************)
(* Append adds one element behind the others.                              *)
(***************************************************************************)
LEMMA AppendFacts ==
  ASSUME NEW S, NEW s \in Seq(S), NEW e \in S
  PROVE  /\ Append(s, e) \in Seq(S)
         /\ Len(s) \in Nat /\ DOMAIN s = 1..Len(s)
         /\ DOMAIN Append(s, e) = 1..Len(s) + 1
         /\ \A i \in DOMAIN s : Append(s, e)[i] = s[i]
         /\ Append(s, e)[Len(s) + 1] = e
OBVIOUS

(***************************************************************************)
(* The loop of init_report_signal() meets each crash signal once.          *)
(***************************************************************************)
LEMMA SigsFacts ==
  /\ DOMAIN sigs = 1..6 /\ Len(sigs) = 6
  /\ \A i \in 1..6 : sigs[i] \in Crashes
  /\ \A s \in Crashes : \E i \in 1..6 : sigs[i] = s
  /\ \A i, j \in 1..6 : sigs[i] = sigs[j] => i = j
BY DEF sigs, Crashes

-----------------------------------------------------------------------------
(***************************************************************************)
(* What a delivery does, and that every variable keeps its type.           *)
(***************************************************************************)
\* One more call of report_signal() in a thread.
LEMMA DeliverFacts ==
  ASSUME TypeOK, NEW t \in Threads, NEW s \in Signals, Deliver(t, s)
  PROVE  /\ disposition[s] = "handler" /\ s \notin mask[t]
         /\ disposition' = [disposition EXCEPT ![s] = "default"]
         /\ mask' = [mask EXCEPT ![t] = @ \cup {s}]
         /\ UNCHANGED <<originals, heap, over>>
         /\ reports' \in [Threads -> Seq(Call)]
         /\ \A u \in Threads \ {t} : reports'[u] = reports[u]
         /\ Len(reports[t]) \in Nat /\ DOMAIN reports[t] = 1..Len(reports[t])
         /\ DOMAIN reports'[t] = 1..Len(reports[t]) + 1
         /\ \A i \in DOMAIN reports[t] : reports'[t][i] = reports[t][i]
         /\ reports'[t][Len(reports[t]) + 1].sig = s
         /\ reports'[t][Len(reports[t]) + 1].traced = FALSE
<1> DEFINE r == [sig |-> s, traced |-> FALSE]
<1>1. r \in Call /\ r.sig = s /\ r.traced = FALSE
      /\ reports \in [Threads -> Seq(Call)] /\ reports[t] \in Seq(Call)
  BY DEF Call, TypeOK
<1>2. /\ disposition[s] = "handler" /\ s \notin mask[t]
      /\ disposition' = [disposition EXCEPT ![s] = "default"]
      /\ mask' = [mask EXCEPT ![t] = @ \cup {s}]
      /\ UNCHANGED <<originals, heap, over>>
      /\ reports' = [reports EXCEPT ![t] = Append(@, r)]
  BY DEF Deliver, memory
<1> HIDE DEF r
<1>3. /\ reports'[t] = Append(reports[t], r)
      /\ \A u \in Threads \ {t} : reports'[u] = reports[u]
  BY <1>1, <1>2
<1>4. /\ Append(reports[t], r) \in Seq(Call)
      /\ Len(reports[t]) \in Nat /\ DOMAIN reports[t] = 1..Len(reports[t])
      /\ DOMAIN Append(reports[t], r) = 1..Len(reports[t]) + 1
      /\ \A i \in DOMAIN reports[t] : Append(reports[t], r)[i] = reports[t][i]
      /\ Append(reports[t], r)[Len(reports[t]) + 1] = r
  BY <1>1, AppendFacts
<1>5. reports' \in [Threads -> Seq(Call)]
  BY <1>1, <1>2, <1>4
<1> QED
  BY <1>1, <1>2, <1>3, <1>4, <1>5

\* A signal that thread t takes, or ends the process with; s is the signal.
Taken(t, s) ==
  /\ over.how = "no" /\ t \in started
  /\ UNCHANGED <<started, inherited, loop, arena>>
  /\ \/ Deliver(t, s)
     \/ (disposition[s] # "handler" \/ s \in mask[t]) /\ Kill(t, s)
     \/ UNCHANGED <<disposition, mask, reports, memory, over>>

LEMMA SignalStep ==
  ASSUME TypeOK, NEW t \in Threads,
         (\E s \in Faults : Fault(t, s)) \/ TakeHangup(t)
  PROVE  \E s \in Signals : Taken(t, s)
<1>1. CASE \E s \in Faults : Fault(t, s)
  BY <1>1, ConstantsAssumption DEF Fault, Taken, Runs
<1>2. CASE TakeHangup(t)
  <2>1. "SIGHUP" \in Signals
    BY ConstantsAssumption DEF Crashes
  <2> QED
    BY <1>2, <2>1 DEF TakeHangup, Taken, Runs
<1> QED
  BY <1>1, <1>2

\* A step that takes no signal and changes no mask, in the program or in malloc().
Quiet ==
  /\ UNCHANGED <<masks, mask, disposition, loop, arena, over>>
  /\ reports' \in [Threads -> Seq(Call)]
  /\ \A t \in Threads : /\ DOMAIN reports'[t] = DOMAIN reports[t]
                        /\ \A i \in DOMAIN reports[t] : reports'[t][i].sig = reports[t][i].sig

LEMMA QuietStep ==
  ASSUME TypeOK,
         \/ UNCHANGED vars
         \/ \E t \in Threads : \/ \E u \in Threads : Malloc(t, arena[u])
                               \/ Free(t) \/ Allocate(t) \/ Collect(t)
  PROVE  Quiet /\ heap' \in [Arenas -> (Threads \cup {Nobody}) \X Nat]
<1> DEFINE Locks == (Threads \cup {Nobody}) \X Nat
<1>1. /\ reports \in [Threads -> Seq(Call)] /\ heap \in [Arenas -> Locks]
      /\ <<Nobody, 0>> \in Locks /\ \A t \in Threads : <<t, 0>> \in Locks
  BY DEF TypeOK, Call
<1>2. \A t \in Threads : Inner(t) \in Nat /\ <<t, Inner(t)>> \in Locks
  BY <1>1 DEF Inner
<1> HIDE DEF Locks
<1>3. CASE UNCHANGED vars
  BY <1>1, <1>3 DEF vars, report, loop, malloc, masks, Quiet, Locks
<1>4. ASSUME NEW t \in Threads,
             \/ \E u \in Threads : Malloc(t, arena[u])
             \/ Free(t) \/ Allocate(t)
      PROVE  Quiet /\ heap' \in [Arenas -> Locks]
  <2>1. \/ \E a : heap' = [heap EXCEPT ![a] = <<t, 0>>]
        \/ heap' = [heap EXCEPT ![arena[t]] = <<t, Inner(t)>>]
        \/ Release(t)
    BY <1>4 DEF Malloc, Free, Allocate
  <2>2. heap' \in [Arenas -> Locks]
    BY <1>1, <1>2, <2>1 DEF Release
  <2>3. Quiet
    BY <1>1, <1>4 DEF Malloc, Free, Allocate, Quiet
  <2> QED
    BY <2>2, <2>3
<1>5. ASSUME NEW t \in Threads, Collect(t)
      PROVE  Quiet /\ heap' \in [Arenas -> Locks]
  <2> DEFINE n == Inner(t)
             calls == [reports[t] EXCEPT ![n].traced = TRUE]
  <2>1. /\ UNCHANGED <<masks, mask, disposition, loop, arena, over>>
        /\ Release(t) /\ reports[t] # <<>>
        /\ reports' = [reports EXCEPT ![t] = calls]
    BY <1>1, <1>5 DEF Collect, Collecting
  <2>2. /\ reports[t] \in Seq(Call) /\ n = Len(reports[t]) /\ n \in Nat
        /\ DOMAIN reports[t] = 1..n
        /\ \A i \in 1..n : reports[t][i] \in Call
    BY <1>1 DEF Inner
  <2>3. /\ DOMAIN calls = 1..n /\ calls \in [1..n -> Call]
        /\ \A i \in 1..n : calls[i].sig = reports[t][i].sig
    BY <2>2 DEF Call
  <2> HIDE DEF calls, n
  <2>4. calls \in Seq(Call)
    BY <2>2, <2>3, SeqDef
  <2>5. reports' \in [Threads -> Seq(Call)]
    BY <1>1, <2>1, <2>4
  <2>6. \A u \in Threads : /\ DOMAIN reports'[u] = DOMAIN reports[u]
                          /\ \A i \in DOMAIN reports[u] :
                               reports'[u][i].sig = reports[u][i].sig
    BY <1>1, <2>1, <2>2, <2>3
  <2>7. heap' \in [Arenas -> Locks]
    BY <1>1, <2>1 DEF Release
  <2> QED
    BY <2>1, <2>5, <2>6, <2>7 DEF Quiet
<1> QED
  BY <1>3, <1>4, <1>5 DEF Locks

\* The loop of init_report_signal() runs only once it is called.
LoopRuns == at # 0 => inits # 0

LEMMA TypeInit == Init => TypeOK /\ LoopRuns
<1> SUFFICES ASSUME Init
             PROVE  TypeOK
  BY DEF Init, LoopRuns
<1>1. mask \in [Threads -> SUBSET Signals] /\ inherited \subseteq Signals
  BY ConstantsAssumption DEF Init
<1>2. disposition \in [Signals -> {"default", "ignore", "handler"}]
  <2>1. PICK hangup \in Hangups :
          disposition = [s \in Signals |-> IF s = "SIGHUP" THEN hangup ELSE "default"]
    BY DEF Init
  <2> QED
    BY <2>1, ConstantsAssumption
<1>3. /\ inits \in 0..MaxInits /\ at \in 0..6
      /\ arena \in [Threads -> Arenas] /\ heap \in [Arenas -> (Threads \cup {Nobody}) \X Nat]
      /\ originals \subseteq SUBSET Signals
  BY ConstantsAssumption DEF Init
<1>4. reports \in [Threads -> Seq([sig : Signals, traced : BOOLEAN])]
  <2>1. <<>> \in Seq([sig : Signals, traced : BOOLEAN])
    OBVIOUS
  <2> QED
    BY <2>1 DEF Init
<1>5. /\ over \in [how : {"no", "killed", "aborted"}, sig : Signals \cup {"none", "SIGABRT"},
                  thread : Threads \cup {Nobody}]
      /\ started \subseteq Threads /\ Main \in started /\ promised \subseteq Crashes
  BY ConstantsAssumption DEF Init
<1> QED
  BY <1>1, <1>2, <1>3, <1>4, <1>5 DEF TypeOK

LEMMA TypeStep == TypeOK /\ LoopRuns /\ [Next]_vars => (TypeOK /\ LoopRuns)'
<1> SUFFICES ASSUME TypeOK, LoopRuns, [Next]_vars
             PROVE  TypeOK' /\ LoopRuns'
  OBVIOUS
<1> USE DEF LoopRuns
<1>1. CASE CallInit
  <2>1. at' = 1 /\ inits' = inits + 1 /\ inits < MaxInits
        /\ UNCHANGED <<masks, mask, disposition, promised, reports, malloc, over>>
    BY <1>1 DEF CallInit
  <2>2. inits' \in 0..MaxInits /\ inits' # 0 /\ at' \in 0..6
    BY <2>1, ConstantsAssumption DEF TypeOK
  <2> QED
    BY <2>1, <2>2 DEF TypeOK, masks, malloc
<1>2. CASE Install \/ InstallFails
  <2>1. CASE InstallFails
    <3>1. at' = 0 /\ UNCHANGED <<masks, mask, disposition, promised, inits, reports, malloc, over>>
      BY <2>1 DEF InstallFails
    <3>2. at' \in 0..6 /\ LoopRuns'
      BY <3>1
    <3> QED
      BY <3>1, <3>2 DEF TypeOK, masks, malloc
  <2>2. CASE Install
    <3>1. /\ at \in 1..6 /\ at' \in 0..6 /\ sigs[at] \in Crashes /\ sigs[at] \in Signals
          /\ disposition' = [disposition EXCEPT ![sigs[at]] = "handler"]
          /\ promised' \in {Crashes, promised \cup {sigs[at]}}
          /\ UNCHANGED <<masks, mask, inits, reports, malloc, over>>
      BY <2>2, SigsFacts, ConstantsAssumption DEF Install
    <3>2. /\ disposition' \in [Signals -> {"default", "ignore", "handler"}]
          /\ promised' \subseteq Crashes /\ inits' # 0
      BY <3>1 DEF TypeOK
    <3> QED
      BY <3>1, <3>2 DEF TypeOK, masks, malloc
  <2> QED
    BY <1>2, <2>1, <2>2
<1>3. ASSUME NEW t \in Threads, NEW u \in Threads, StartThread(t, u)
      PROVE  TypeOK' /\ LoopRuns'
  BY <1>3 DEF TypeOK, StartThread, report, loop, malloc
<1>4. ASSUME NEW t \in Threads, NEW list \in Lists, Construct(t, list)
      PROVE  TypeOK' /\ LoopRuns'
  <2>1. Requested(list) \subseteq Signals
    BY ConstantsAssumption DEF Requested
  <2>2. /\ mask' = [mask EXCEPT ![t] = @ \cup (Requested(list) \ Unblockable)]
        /\ originals' = originals \cup {mask[t]}
        /\ UNCHANGED <<started, inherited, report>>
    BY <1>4 DEF Construct
  <2>3. mask' \in [Threads -> SUBSET Signals] /\ originals' \subseteq SUBSET Signals
    BY <2>1, <2>2 DEF TypeOK
  <2> QED
    BY <2>2, <2>3 DEF TypeOK, report, loop, malloc
<1>5. ASSUME NEW t \in Threads, NEW original \in originals, Destroy(t, original)
      PROVE  TypeOK' /\ LoopRuns'
  <2>1. original \subseteq Signals
    BY DEF TypeOK
  <2> QED
    BY <1>5, <2>1 DEF TypeOK, Destroy, masks, report, loop, malloc
<1>6. ASSUME NEW t \in Threads, (\E s \in Faults : Fault(t, s)) \/ TakeHangup(t)
      PROVE  TypeOK' /\ LoopRuns'
  <2>1. PICK s \in Signals : Taken(t, s)
    BY <1>6, SignalStep
  <2>2. UNCHANGED <<started, inherited, promised, inits, at, arena>>
    BY <2>1 DEF Taken, loop
  <2>3. CASE Deliver(t, s)
    <3>1. /\ disposition' = [disposition EXCEPT ![s] = "default"]
          /\ mask' = [mask EXCEPT ![t] = @ \cup {s}]
          /\ UNCHANGED <<originals, heap, over>> /\ reports' \in [Threads -> Seq(Call)]
      BY <2>3, DeliverFacts
    <3>2. /\ disposition' \in [Signals -> {"default", "ignore", "handler"}]
          /\ mask' \in [Threads -> SUBSET Signals]
      BY <3>1 DEF TypeOK
    <3> QED
      BY <2>2, <3>1, <3>2 DEF TypeOK, Call
  <2>4. CASE Kill(t, s)
    BY <2>2, <2>4 DEF Kill, End, TypeOK
  <2>5. CASE UNCHANGED <<disposition, mask, reports, memory, over>>
    BY <2>2, <2>5 DEF TypeOK, memory
  <2> QED
    BY <2>1, <2>3, <2>4, <2>5 DEF Taken
<1>7. CASE \/ UNCHANGED vars
           \/ \E t \in Threads : \/ \E u \in Threads : Malloc(t, arena[u])
                                 \/ Free(t) \/ Allocate(t) \/ Collect(t)
  <2>1. Quiet /\ heap' \in [Arenas -> (Threads \cup {Nobody}) \X Nat]
    BY <1>7, QuietStep
  <2> QED
    BY <2>1 DEF Quiet, TypeOK, Call, masks, loop
<1>8. ASSUME NEW t \in Threads, Abort(t)
      PROVE  TypeOK' /\ LoopRuns'
  BY <1>8 DEF TypeOK, Abort, End, loop
<1> QED
  BY <1>1, <1>2, <1>3, <1>4, <1>5, <1>6, <1>7, <1>8 DEF Next

-----------------------------------------------------------------------------
(***************************************************************************)
(* What each step does to the calls of report_signal().                    *)
(***************************************************************************)
LEMMA QuietReports ==
  ASSUME Quiet, NEW t \in Threads, NEW s
  PROVE  Reports(t, s)' <=> Reports(t, s)
BY DEF Quiet, Reports

LEMMA DeliverReports ==
  ASSUME TypeOK, NEW t \in Threads, NEW s \in Signals, Deliver(t, s), NEW u \in Threads, NEW x
  PROVE  Reports(u, x)' <=> Reports(u, x) \/ (u = t /\ x = s)
<1>1. /\ \A v \in Threads \ {t} : reports'[v] = reports[v]
      /\ Len(reports[t]) \in Nat /\ DOMAIN reports[t] = 1..Len(reports[t])
      /\ DOMAIN reports'[t] = 1..Len(reports[t]) + 1
      /\ \A i \in DOMAIN reports[t] : reports'[t][i] = reports[t][i]
      /\ reports'[t][Len(reports[t]) + 1].sig = s
  BY DeliverFacts
<1>2. CASE u # t
  BY <1>1, <1>2 DEF Reports
<1>3. CASE u = t
  <2> DEFINE n == Len(reports[t]) + 1
  <2>1. n \in DOMAIN reports'[t] /\ DOMAIN reports[t] \subseteq DOMAIN reports'[t]
        /\ \A i \in DOMAIN reports'[t] : i \in DOMAIN reports[t] \/ i = n
    BY <1>1
  <2> HIDE DEF n
  <2>2. reports'[t][n].sig = s
    BY <1>1 DEF n
  <2> QED
    BY <1>1, <1>3, <2>1, <2>2 DEF Reports
<1> QED
  BY <1>2, <1>3

\* The steps that leave the calls, the handlers and the end of the process alone.
MaskStep ==
  \/ \E t, u \in Threads : StartThread(t, u)
  \/ \E t \in Threads : \/ \E list \in Lists : Construct(t, list)
                        \/ \E original \in originals : Destroy(t, original)

LEMMA MaskStepFacts ==
  ASSUME MaskStep
  PROVE  over.how = "no" /\ UNCHANGED <<inherited, report>>
BY DEF MaskStep, StartThread, Construct, Destroy, Outside, InProgram, Runs, masks

(***************************************************************************)
(* The kinds of steps the invariants distinguish.                          *)
(***************************************************************************)
LEMMA Kinds ==
  ASSUME TypeOK, [Next]_vars
  PROVE  \/ Quiet \/ CallInit \/ Install \/ InstallFails \/ MaskStep
         \/ \E t \in Threads, s \in Signals : Taken(t, s)
         \/ \E t \in Threads : Abort(t)
<1>1. CASE \E t \in Threads : (\E s \in Faults : Fault(t, s)) \/ TakeHangup(t)
  BY <1>1, SignalStep
<1>2. CASE \/ UNCHANGED vars
           \/ \E t \in Threads : \/ \E u \in Threads : Malloc(t, arena[u])
                                 \/ Free(t) \/ Allocate(t) \/ Collect(t)
  BY <1>2, QuietStep
<1>3. CASE CallInit \/ Install \/ InstallFails \/ MaskStep \/ \E t \in Threads : Abort(t)
  BY <1>3
<1> QED
  BY <1>1, <1>2, <1>3 DEF Next, MaskStep

-----------------------------------------------------------------------------
(***************************************************************************)
(* A thread blocks the signals it reports, and so reports each of them     *)
(* once; a thread that has not started reports nothing.                    *)
(***************************************************************************)
Blocked ==
  \A t \in Threads :
    /\ \A i \in DOMAIN reports[t] : reports[t][i].sig \in mask[t]
    /\ \A i, j \in DOMAIN reports[t] : reports[t][i].sig = reports[t][j].sig => i = j
    /\ t \notin started => DOMAIN reports[t] = {}

LEMMA BlockedInit == Init => Blocked
BY DEF Init, Blocked

LEMMA BlockedStep == TypeOK /\ Blocked /\ [Next]_vars => Blocked'
<1> SUFFICES ASSUME TypeOK, Blocked, [Next]_vars
             PROVE  Blocked'
  OBVIOUS
<1>1. CASE Quiet
  <2> SUFFICES ASSUME NEW t \in Threads
               PROVE  /\ \A i \in DOMAIN reports'[t] : reports'[t][i].sig \in mask'[t]
                      /\ \A i, j \in DOMAIN reports'[t] :
                           reports'[t][i].sig = reports'[t][j].sig => i = j
                      /\ t \notin started' => DOMAIN reports'[t] = {}
    BY DEF Blocked
  <2>1. /\ mask' = mask /\ started' = started /\ DOMAIN reports'[t] = DOMAIN reports[t]
        /\ \A i \in DOMAIN reports[t] : reports'[t][i].sig = reports[t][i].sig
    BY <1>1 DEF Quiet, masks
  <2> QED
    BY <2>1 DEF Blocked
<1>2. CASE CallInit \/ Install \/ InstallFails \/ \E t \in Threads : Abort(t)
  BY <1>2 DEF CallInit, Install, InstallFails, Abort, masks, Blocked
<1>3. CASE MaskStep
  <2>1. ASSUME NEW t \in Threads, NEW u \in Threads, StartThread(t, u)
        PROVE  Blocked'
    <3>1. DOMAIN reports[u] = {} /\ reports' = reports /\ started \subseteq started'
          /\ \A v \in Threads \ {u} : mask'[v] = mask[v]
      BY <2>1 DEF StartThread, Blocked, report, TypeOK
    <3> QED
      BY <3>1 DEF Blocked
  <2>2. ASSUME NEW t \in Threads, NEW list \in Lists, Construct(t, list)
        PROVE  Blocked'
    BY <2>2 DEF Construct, Blocked, report, loop, malloc, TypeOK
  <2>3. ASSUME NEW t \in Threads, NEW original \in originals, Destroy(t, original)
        PROVE  Blocked'
    <3>1. /\ reports[t] = <<>> /\ reports' = reports /\ started = started'
          /\ \A v \in Threads \ {t} : mask'[v] = mask[v]
      BY <2>3 DEF Destroy, Outside, InProgram, masks, report, TypeOK
    <3> QED
      BY <3>1 DEF Blocked
  <2> QED
    BY <1>3, <2>1, <2>2, <2>3 DEF MaskStep
<1>4. ASSUME NEW t \in Threads, NEW s \in Signals, Taken(t, s)
      PROVE  Blocked'
  <2>1. CASE Deliver(t, s)
    <3>1. /\ s \notin mask[t] /\ started' = started
          /\ mask' = [mask EXCEPT ![t] = @ \cup {s}]
          /\ \A v \in Threads \ {t} : reports'[v] = reports[v]
          /\ Len(reports[t]) \in Nat /\ DOMAIN reports[t] = 1..Len(reports[t])
          /\ DOMAIN reports'[t] = 1..Len(reports[t]) + 1
          /\ \A i \in DOMAIN reports[t] : reports'[t][i] = reports[t][i]
          /\ reports'[t][Len(reports[t]) + 1].sig = s
      BY <1>4, <2>1, DeliverFacts DEF Taken
    <3>2. t \in started
      BY <1>4 DEF Taken
    <3> DEFINE n == Len(reports[t]) + 1
    <3>3. /\ n \notin DOMAIN reports[t]
          /\ DOMAIN reports'[t] = DOMAIN reports[t] \cup {n}
      BY <3>1
    <3> HIDE DEF n
    <3>4. reports'[t][n].sig = s
      BY <3>1 DEF n
    <3>5. mask'[t] = mask[t] \cup {s} /\ \A v \in Threads \ {t} : mask'[v] = mask[v]
      BY <3>1 DEF TypeOK
    <3>6. /\ \A i \in DOMAIN reports'[t] : reports'[t][i].sig \in mask'[t]
          /\ \A i, j \in DOMAIN reports'[t] :
               reports'[t][i].sig = reports'[t][j].sig => i = j
      <4>1. /\ \A i \in DOMAIN reports[t] : reports[t][i].sig \in mask[t]
            /\ \A i, j \in DOMAIN reports[t] :
                 reports[t][i].sig = reports[t][j].sig => i = j
        BY DEF Blocked
      <4>2. \A i \in DOMAIN reports[t] : reports'[t][i].sig = reports[t][i].sig
        BY <3>1
      <4>3. \A i \in DOMAIN reports[t] : reports'[t][i].sig # s
        BY <3>1, <4>1, <4>2
      <4> QED
        BY <3>3, <3>4, <3>5, <4>1, <4>2, <4>3, Zenon
    <3> SUFFICES ASSUME NEW v \in Threads
                 PROVE  /\ \A i \in DOMAIN reports'[v] : reports'[v][i].sig \in mask'[v]
                        /\ \A i, j \in DOMAIN reports'[v] :
                             reports'[v][i].sig = reports'[v][j].sig => i = j
                        /\ v \notin started' => DOMAIN reports'[v] = {}
      BY DEF Blocked
    <3>7. CASE v = t
      BY <3>1, <3>2, <3>6, <3>7, Zenon
    <3>8. CASE v # t
      <4>1. reports'[v] = reports[v] /\ mask'[v] = mask[v] /\ started' = started
        BY <3>1, <3>5, <3>8
      <4> QED
        BY <4>1 DEF Blocked
    <3> QED
      BY <3>7, <3>8
  <2>2. CASE UNCHANGED <<disposition, mask, reports>>
    BY <1>4, <2>2 DEF Taken, Blocked
  <2> QED
    BY <1>4, <2>1, <2>2 DEF Taken, Kill
<1> QED
  BY <1>1, <1>2, <1>3, <1>4, Kinds

-----------------------------------------------------------------------------
(***************************************************************************)
(* A signal that is promised has its handler or has been reported.  The    *)
(* loop promises the signals it has passed, so that those of the last      *)
(* iteration are the six.                                                  *)
(***************************************************************************)
Armed == \A s \in promised : disposition[s] = "handler" \/ Entered(s)

Passed == \A k \in 1..6 : k < at => sigs[k] \in promised

\* A signal that kills is blocked in its thread, or its handler was taken by another.
Explained(t, s) ==
  s \in promised => s \in mask[t] \/ \E u \in Threads \ {t} : Reports(u, s)

Killed == over.how = "killed" => over.thread \in Threads /\ Explained(over.thread, over.sig)

LEMMA EnteredGrows ==
  ASSUME TypeOK, [Next]_vars, NEW s, Entered(s)
  PROVE  Entered(s)'
<1>1. PICK t \in Threads : Reports(t, s)
  BY DEF Entered
<1>2. CASE reports' = reports
  BY <1>1, <1>2 DEF Reports, Entered
<1>3. CASE Quiet
  BY <1>1, <1>3, QuietReports DEF Entered
<1>4. ASSUME NEW u \in Threads, NEW x \in Signals, Deliver(u, x)
      PROVE  Entered(s)'
  BY <1>1, <1>4, DeliverReports DEF Entered
<1> QED
  BY <1>2, <1>3, <1>4, Kinds, MaskStepFacts
     DEF CallInit, Install, InstallFails, Abort, Taken, Kill, report

LEMMA ArmedStep == TypeOK /\ Armed /\ Passed /\ [Next]_vars => Armed' /\ Passed'
<1> SUFFICES ASSUME TypeOK, Armed, Passed, [Next]_vars
             PROVE  Armed' /\ Passed'
  OBVIOUS
<1>1. at \in 0..6 /\ promised \subseteq Crashes /\ Crashes \subseteq Signals
  BY ConstantsAssumption DEF TypeOK
<1>2. ASSUME NEW s \in promised, disposition'[s] = disposition[s]
      PROVE  disposition'[s] = "handler" \/ Entered(s)'
  BY <1>2, EnteredGrows DEF Armed
<1>3. CASE UNCHANGED <<promised, disposition>> /\ at' \in {0, 1, at}
  <2>1. Armed'
    BY <1>2, <1>3 DEF Armed
  <2>2. \A k \in 1..6 : k < at' => k < at
    BY <1>1, <1>3
  <2> QED
    BY <1>3, <2>1, <2>2 DEF Passed
<1>4. CASE Install
  <2>1. /\ at \in 1..6 /\ at' = IF at = 6 THEN 0 ELSE at + 1
        /\ disposition' = [disposition EXCEPT ![sigs[at]] = "handler"]
        /\ promised' = IF at = 6 THEN Crashes ELSE promised \cup {sigs[at]}
    BY <1>4, SigsFacts DEF Install
  <2>2. promised' \subseteq promised \cup {sigs[at]}
    <3>1. ASSUME at = 6, NEW s \in Crashes
          PROVE  s \in promised \cup {sigs[at]}
      <4>1. PICK k \in 1..6 : sigs[k] = s
        BY SigsFacts
      <4>2. k < at \/ k = at
        BY <3>1
      <4> QED
        BY <4>1, <4>2 DEF Passed
    <3> QED
      BY <2>1, <3>1
  <2>3. Armed'
    <3> SUFFICES ASSUME NEW s \in promised'
                 PROVE  disposition'[s] = "handler" \/ Entered(s)'
      BY DEF Armed
    <3>1. CASE s = sigs[at]
      BY <1>1, <2>1, <3>1, SigsFacts DEF TypeOK
    <3>2. CASE s # sigs[at]
      <4>1. s \in promised /\ disposition'[s] = disposition[s]
        BY <1>1, <2>1, <2>2, <3>2 DEF TypeOK
      <4> QED
        BY <1>2, <4>1
    <3> QED
      BY <3>1, <3>2
  <2>4. Passed'
    <3> SUFFICES ASSUME NEW k \in 1..6, k < at'
                 PROVE  sigs[k] \in promised'
      BY DEF Passed
    <3>1. at # 6 /\ (k < at \/ k = at)
      BY <2>1
    <3> QED
      BY <2>1, <3>1 DEF Passed
  <2> QED
    BY <2>3, <2>4
<1>5. ASSUME NEW t \in Threads, NEW x \in Signals, Taken(t, x), Deliver(t, x)
      PROVE  Armed' /\ Passed'
  <2>1. /\ UNCHANGED <<promised, at>>
        /\ disposition' = [disposition EXCEPT ![x] = "default"]
    BY <1>5 DEF Taken, loop, Deliver
  <2>2. ASSUME NEW s \in promised
        PROVE  disposition'[s] = "handler" \/ Entered(s)'
    <3>1. CASE s = x
      BY <1>5, <3>1, DeliverReports DEF Entered
    <3>2. CASE s # x
      BY <1>1, <1>2, <2>1, <3>2 DEF TypeOK
    <3> QED
      BY <3>1, <3>2
  <2> QED
    BY <2>1, <2>2 DEF Armed, Passed
<1>6. CASE Quiet \/ CallInit \/ InstallFails \/ MaskStep \/ \E t \in Threads : Abort(t)
  BY <1>3, <1>6, MaskStepFacts DEF Quiet, CallInit, InstallFails, Abort, report, loop
<1>7. ASSUME NEW t \in Threads, NEW x \in Signals, Taken(t, x), ~Deliver(t, x)
      PROVE  Armed' /\ Passed'
  BY <1>3, <1>7 DEF Taken, Kill, loop
<1> QED
  BY <1>4, <1>5, <1>6, <1>7, Kinds

LEMMA KilledStep == TypeOK /\ Blocked /\ Armed /\ Killed /\ [Next]_vars => Killed'
<1> SUFFICES ASSUME TypeOK, Blocked, Armed, Killed, [Next]_vars, over'.how = "killed"
             PROVE  \E t, s : /\ t \in Threads /\ over'.thread = t /\ over'.sig = s
                             /\ Explained(t, s)'
  BY DEF Killed, Explained, Reports
<1>1. CASE Quiet
  <2>1. PICK t, s : t = over.thread /\ s = over.sig
    OBVIOUS
  <2>2. over' = over /\ mask' = mask /\ promised' = promised
    BY <1>1 DEF Quiet, loop
  <2>3. t \in Threads /\ Explained(t, s)
    BY <2>1, <2>2 DEF Killed
  <2>4. \A u \in Threads : Reports(u, s)' <=> Reports(u, s)
    BY <1>1, QuietReports
  <2>5. Explained(t, s)'
    BY <2>2, <2>3, <2>4 DEF Explained
  <2> QED
    BY <2>1, <2>2, <2>3, <2>5
<1>2. CASE CallInit \/ Install \/ InstallFails \/ MaskStep
  BY <1>2, MaskStepFacts
     DEF CallInit, Install, InstallFails, Outside, InProgram, Runs, report
<1>3. ASSUME NEW t \in Threads, Abort(t)
      PROVE  FALSE
  BY <1>3 DEF Abort, End
<1>4. ASSUME NEW t \in Threads, NEW s \in Signals, Taken(t, s)
      PROVE  over'.thread = t /\ over'.sig = s /\ Explained(t, s)'
  <2>1. Kill(t, s) /\ (disposition[s] # "handler" \/ s \in mask[t])
    BY <1>4 DEF Taken, Deliver, memory
  <2>2. /\ over'.sig = s /\ over'.thread = t
        /\ UNCHANGED <<mask, promised, reports>>
    BY <1>4, <2>1 DEF Kill, End, Taken, loop
  <2>3. ASSUME s \in promised, s \notin mask[t]
        PROVE  \E u \in Threads \ {t} : Reports(u, s)
    <3>1. PICK u \in Threads : Reports(u, s)
      BY <2>1, <2>3 DEF Armed, Entered
    <3>2. u # t
      BY <2>3, <3>1 DEF Blocked, Reports
    <3> QED
      BY <3>1, <3>2
  <2> QED
    BY <2>2, <2>3 DEF Explained, Reports
<1> QED
  BY <1>1, <1>2, <1>3, <1>4, Kinds

-----------------------------------------------------------------------------
(***************************************************************************)
(* With the sanitizer, an incompatible signal is in a mask, or in one that *)
(* an object will restore, only when it was inherited or reported.         *)
(***************************************************************************)
Masks == originals \cup {mask[t] : t \in Threads}

Masked ==
  Sanitizer => \A m \in Masks : \A s \in m \cap g_incompatible_signals :
                 s \in inherited \/ Entered(s)

LEMMA MaskedStep == TypeOK /\ Masked /\ [Next]_vars => Masked'
<1> SUFFICES ASSUME TypeOK, Masked, [Next]_vars, Sanitizer, NEW m \in Masks',
                    NEW s \in m \cap g_incompatible_signals
             PROVE  s \in inherited' \/ Entered(s)'
  BY DEF Masked
<1>1. inherited' = inherited
  BY Kinds, MaskStepFacts DEF Quiet, CallInit, Install, InstallFails, Abort, Taken, masks
<1>2. ASSUME NEW n \in Masks, s \in n
      PROVE  s \in inherited' \/ Entered(s)'
  BY <1>1, <1>2, EnteredGrows DEF Masked
<1>3. CASE UNCHANGED <<originals, mask>>
  BY <1>2, <1>3 DEF Masks
<1>4. CASE MaskStep
  <2>1. ASSUME NEW t \in Threads, NEW u \in Threads, StartThread(t, u)
        PROVE  m \in Masks
    BY <2>1 DEF StartThread, Masks, TypeOK
  <2>2. ASSUME NEW t \in Threads, NEW list \in Lists, Construct(t, list)
        PROVE  \E n \in Masks : s \in n
    <3>1. s \notin Requested(list)
      BY DEF Requested
    <3> QED
      BY <2>2, <3>1 DEF Construct, Masks, TypeOK
  <2>3. ASSUME NEW t \in Threads, NEW original \in originals, Destroy(t, original)
        PROVE  m \in Masks
    BY <2>3 DEF Destroy, masks, Masks, TypeOK
  <2> QED
    BY <1>2, <1>4, <2>1, <2>2, <2>3 DEF MaskStep
<1>5. ASSUME NEW t \in Threads, NEW x \in Signals, Taken(t, x), Deliver(t, x)
      PROVE  s \in inherited' \/ Entered(s)'
  <2>1. CASE s = x
    BY <1>5, <2>1, DeliverReports DEF Entered
  <2>2. CASE s # x
    <3>1. \E n \in Masks : s \in n
      BY <1>5, <2>2 DEF Deliver, memory, Masks, TypeOK
    <3> QED
      BY <1>2, <3>1
  <2> QED
    BY <2>1, <2>2
<1>6. CASE originals' = {} /\ mask' = mask
  BY <1>2, <1>6 DEF Masks
<1>7. CASE Quiet \/ CallInit \/ Install \/ InstallFails \/ \E t \in Threads : Abort(t)
  BY <1>3, <1>6, <1>7 DEF Quiet, CallInit, Install, InstallFails, Abort, End, masks
<1>8. ASSUME NEW t \in Threads, NEW x \in Signals, Taken(t, x), ~Deliver(t, x)
      PROVE  s \in inherited' \/ Entered(s)'
  BY <1>3, <1>6, <1>8 DEF Taken, Kill, End, memory
<1> QED
  BY <1>4, <1>5, <1>7, <1>8, Kinds

-----------------------------------------------------------------------------
(***************************************************************************)
(* A call of init_report_signal() pays for one report of each signal: when *)
(* its handler is installed, the report is still to come.                  *)
(***************************************************************************)
Callers(s) == {t \in Threads : Reports(t, s)}

Ready(s) == IF disposition[s] = "handler" THEN 1 ELSE 0

\* The present call has not reached the signal.
Left(s) == IF at # 0 /\ \E k \in at..6 : sigs[k] = s THEN 1 ELSE 0

Counted == \A s \in Signals : Cardinality(Callers(s)) + Ready(s) + Left(s) <= inits

LEMMA CallersFinite ==
  ASSUME NEW s
  PROVE  IsFiniteSet(Callers(s)) /\ Cardinality(Callers(s)) \in Nat
BY ConstantsAssumption, FS_Subset, FS_CardinalityType DEF Callers

LEMMA CountedInit == Init => Counted
<1> SUFFICES ASSUME Init, NEW s \in Signals
             PROVE  Cardinality(Callers(s)) + Ready(s) + Left(s) <= inits
  BY DEF Counted
<1>1. Callers(s) = {}
  BY DEF Init, Callers, Reports
<1>2. Ready(s) = 0
  BY ConstantsAssumption DEF Init, Ready
<1>3. Left(s) = 0 /\ inits = 0
  BY DEF Init, Left
<1> QED
  BY <1>1, <1>2, <1>3, FS_EmptySet

LEMMA CountedStep == TypeOK /\ LoopRuns /\ Counted /\ [Next]_vars => Counted'
<1> SUFFICES ASSUME TypeOK, LoopRuns, Counted, [Next]_vars, NEW s \in Signals
             PROVE  Cardinality(Callers(s)') + Ready(s)' + Left(s)' <= inits'
  BY DEF Counted
<1>1. /\ Cardinality(Callers(s)) \in Nat /\ IsFiniteSet(Callers(s))
      /\ Ready(s) \in {0, 1} /\ Left(s) \in {0, 1} /\ inits \in Nat /\ at \in 0..6
      /\ Cardinality(Callers(s)) + Ready(s) + Left(s) <= inits
  BY CallersFinite, ConstantsAssumption DEF TypeOK, Ready, Left, Counted
<1>2. ASSUME UNCHANGED <<inits, at, disposition>>, Callers(s)' = Callers(s)
      PROVE  Cardinality(Callers(s)') + Ready(s)' + Left(s)' <= inits'
  BY <1>1, <1>2 DEF Ready, Left
<1>3. reports' = reports => Callers(s)' = Callers(s)
  BY DEF Callers, Reports
<1>4. CASE Quiet
  <2>1. Callers(s)' = Callers(s)
    BY <1>4, QuietReports DEF Callers
  <2> QED
    BY <1>2, <1>4, <2>1 DEF Quiet, loop
<1>5. CASE CallInit
  <2>1. /\ at = 0 /\ inits' = inits + 1 /\ disposition' = disposition /\ reports' = reports
    BY <1>5 DEF CallInit, Outside
  <2>2. Left(s) = 0 /\ Left(s)' \in {0, 1} /\ Ready(s)' = Ready(s)
    BY <2>1 DEF Left, Ready
  <2> QED
    BY <1>1, <1>3, <2>1, <2>2
<1>6. CASE Install
  <2>1. /\ at \in 1..6 /\ inits' = inits /\ reports' = reports
        /\ at' = IF at = 6 THEN 0 ELSE at + 1
        /\ disposition' = [disposition EXCEPT ![sigs[at]] = "handler"]
    BY <1>6, SigsFacts DEF Install
  <2>2. CASE s = sigs[at]
    <3>1. \A k \in at'..6 : at' # 0 => sigs[k] # s
      BY <2>1, <2>2, SigsFacts
    <3>2. Left(s) = 1 /\ Left(s)' = 0 /\ Ready(s)' \in {0, 1}
      BY <2>1, <2>2, <3>1 DEF Left, Ready
    <3> QED
      BY <1>1, <1>3, <2>1, <3>2
  <2>3. CASE s # sigs[at]
    <3>1. Ready(s)' = Ready(s)
      BY <2>1, <2>3 DEF Ready, TypeOK
    <3>2. at' # 0 => at'..6 \subseteq at..6
      BY <2>1
    <3>3. Left(s)' <= Left(s) /\ Left(s)' \in {0, 1}
      BY <2>1, <3>2 DEF Left
    <3> QED
      BY <1>1, <1>3, <2>1, <3>1, <3>3
  <2> QED
    BY <2>2, <2>3
<1>7. ASSUME NEW t \in Threads, NEW x \in Signals, Taken(t, x), Deliver(t, x)
      PROVE  Cardinality(Callers(s)') + Ready(s)' + Left(s)' <= inits'
  <2>1. /\ UNCHANGED <<inits, at>> /\ disposition[x] = "handler"
        /\ disposition' = [disposition EXCEPT ![x] = "default"]
    BY <1>7 DEF Taken, loop, Deliver
  <2>2. Left(s)' = Left(s)
    BY <2>1 DEF Left
  <2>3. CASE s = x
    <3>1. Callers(s)' = Callers(s) \cup {t}
      BY <1>7, <2>3, DeliverReports DEF Callers
    <3>2. /\ Cardinality(Callers(s)') <= Cardinality(Callers(s)) + 1
          /\ Cardinality(Callers(s)') \in Nat
      <4> DEFINE C == Callers(s)
      <4>1. /\ IsFiniteSet(C \cup {t}) /\ Cardinality(C) \in Nat
            /\ Cardinality(C \cup {t}) = IF t \in C THEN Cardinality(C) ELSE Cardinality(C) + 1
        BY <1>1, FS_AddElement
      <4> QED
        BY <3>1, <4>1
    <3>3. Ready(s) = 1 /\ Ready(s)' = 0
      BY <2>1, <2>3 DEF Ready, TypeOK
    <3> QED
      BY <1>1, <2>1, <2>2, <3>2, <3>3
  <2>4. CASE s # x
    <3>1. Callers(s)' = Callers(s)
      BY <1>7, <2>4, DeliverReports DEF Callers
    <3>2. Ready(s)' = Ready(s)
      BY <2>1, <2>4 DEF Ready, TypeOK
    <3> QED
      BY <1>1, <2>1, <2>2, <3>1, <3>2
  <2> QED
    BY <2>3, <2>4
<1>8. CASE InstallFails
  <2>1. at' = 0 /\ UNCHANGED <<inits, disposition, reports>>
    BY <1>8 DEF InstallFails
  <2>2. Left(s)' = 0 /\ Ready(s)' = Ready(s)
    BY <2>1 DEF Left, Ready
  <2> QED
    BY <1>1, <1>3, <2>1, <2>2
<1> QED
  BY <1>2, <1>3, <1>4, <1>5, <1>6, <1>7, <1>8, Kinds, MaskStepFacts
     DEF Abort, Taken, Kill, report, loop

-----------------------------------------------------------------------------
(***************************************************************************)
(* The arenas are locked only once there are threads to keep out, and a    *)
(* call of report_signal() locks the arena of its own thread.              *)
(***************************************************************************)
Shared == (\E a \in Arenas : heap[a][1] # Nobody) => started # {Main}

OwnArena ==
  \A a \in Arenas : heap[a][1] \in Threads /\ heap[a][2] # 0 => a = arena[heap[a][1]]

LEMMA LocksStep == TypeOK /\ Shared /\ OwnArena /\ [Next]_vars => Shared' /\ OwnArena'
<1> SUFFICES ASSUME TypeOK, Shared, OwnArena, [Next]_vars
             PROVE  Shared' /\ OwnArena'
  OBVIOUS
<1>1. ASSUME started' = started, arena' = arena,
             \A a \in Arenas : heap'[a] \in {heap[a], <<Nobody, 0>>}
      PROVE  Shared' /\ OwnArena'
  BY <1>1, ConstantsAssumption DEF Shared, OwnArena
<1>2. ASSUME NEW t \in Threads, NEW a \in Arenas, NEW n, heap' = [heap EXCEPT ![a] = <<t, n>>],
             n # 0 => a = arena[t], started' = started, started # {Main}, arena' = arena
      PROVE  Shared' /\ OwnArena'
  <2>1. heap \in [Arenas -> (Threads \cup {Nobody}) \X Nat]
    BY DEF TypeOK
  <2>2. heap'[a] = <<t, n>> /\ \A b \in Arenas \ {a} : heap'[b] = heap[b]
    BY <1>2, <2>1
  <2>3. Shared'
    BY <1>2 DEF Shared
  <2>4. OwnArena'
    BY <1>2, <2>2 DEF OwnArena
  <2> QED
    BY <2>3, <2>4
<1>3. ASSUME NEW t \in Threads, NEW u \in Threads, Malloc(t, arena[u])
      PROVE  Shared' /\ OwnArena'
  <2>1. /\ heap' = [heap EXCEPT ![arena[u]] = <<t, 0>>] /\ arena[u] \in Arenas
        /\ started' = started /\ started # {Main} /\ arena' = arena
    BY <1>3 DEF Malloc, masks, TypeOK
  <2> QED
    BY <1>2, <2>1
<1>4. ASSUME NEW t \in Threads, Allocate(t)
      PROVE  Shared' /\ OwnArena'
  <2>1. /\ heap' = [heap EXCEPT ![arena[t]] = <<t, Inner(t)>>] /\ arena[t] \in Arenas
        /\ started' = started /\ started # {Main} /\ arena' = arena
    BY <1>4 DEF Allocate, masks, TypeOK
  <2> QED
    BY <1>2, <2>1
<1>5. ASSUME NEW t \in Threads, Free(t) \/ Collect(t)
      PROVE  Shared' /\ OwnArena'
  <2>1. /\ started' = started /\ arena' = arena
        /\ \A a \in Arenas : heap'[a] \in {heap[a], <<Nobody, 0>>}
    BY <1>5 DEF Free, Collect, Release, masks
  <2> QED
    BY <1>1, <2>1
<1>6. CASE MaskStep
  <2>1. UNCHANGED <<heap, arena>> /\ (started # {Main} => started' # {Main})
    <3>1. UNCHANGED <<heap, arena>>
      BY <1>6, MaskStepFacts DEF report, malloc
    <3>2. started \subseteq started' /\ Main \in started
      BY <1>6 DEF MaskStep, StartThread, Construct, Destroy, masks, TypeOK
    <3> QED
      BY <3>1, <3>2
  <2> QED
    BY <2>1 DEF Shared, OwnArena
<1>7. ASSUME NEW t \in Threads, NEW s \in Signals, Taken(t, s)
      PROVE  Shared' /\ OwnArena'
  <2>1. /\ started' = started /\ arena' = arena
        /\ \A a \in Arenas : heap'[a] \in {heap[a], <<Nobody, 0>>}
    BY <1>7 DEF Taken, Deliver, Kill, End, memory
  <2> QED
    BY <1>1, <2>1
<1>8. ASSUME NEW t \in Threads, Abort(t)
      PROVE  Shared' /\ OwnArena'
  <2>1. /\ started' = started /\ arena' = arena
        /\ \A a \in Arenas : heap'[a] \in {heap[a], <<Nobody, 0>>}
    BY <1>8 DEF Abort, End
  <2> QED
    BY <1>1, <2>1
<1>9. CASE UNCHANGED vars \/ CallInit \/ Install \/ InstallFails
  <2>1. UNCHANGED <<started, arena, heap>>
    BY <1>9 DEF vars, report, malloc, masks, CallInit, Install, InstallFails
  <2> QED
    BY <1>1, <2>1
<1>10. ASSUME NEW t \in Threads, (\E s \in Faults : Fault(t, s)) \/ TakeHangup(t)
       PROVE  Shared' /\ OwnArena'
  BY <1>7, <1>10, SignalStep
<1> QED
  BY <1>3, <1>4, <1>5, <1>6, <1>8, <1>9, <1>10 DEF Next, MaskStep

-----------------------------------------------------------------------------
IInv ==
  /\ TypeOK /\ LoopRuns /\ Blocked /\ Armed /\ Passed /\ Killed /\ Masked /\ Counted
  /\ Shared /\ OwnArena

LEMMA InitInvariant == Init => IInv
<1> SUFFICES ASSUME Init
             PROVE  IInv
  OBVIOUS
<1>1. Armed /\ Killed
  BY DEF Init, Armed, Killed
<1>2. Masked
  BY ConstantsAssumption DEF Init, Masked, Masks
<1>3. Passed /\ Shared /\ OwnArena
  BY ConstantsAssumption DEF Init, Passed, Shared, OwnArena
<1> QED
  BY <1>1, <1>2, <1>3, TypeInit, BlockedInit, CountedInit DEF IInv

LEMMA StepInvariant == IInv /\ [Next]_vars => IInv'
BY TypeStep, BlockedStep, ArmedStep, KilledStep, MaskedStep, CountedStep, LocksStep DEF IInv

THEOREM Invariant == Spec => []IInv
BY InitInvariant, StepInvariant, PTL DEF Spec

(***************************************************************************)
(* Every variable of ReportSignal has its type: the loop of                *)
(* init_report_signal() stays within its six signals.                      *)
(***************************************************************************)
THEOREM TypeCorrect == Spec => []TypeOK
<1>1. IInv => TypeOK
  BY DEF IInv
<1> QED
  BY <1>1, Invariant, PTL

(***************************************************************************)
(* What init_report_signal() has promised a report for kills the process   *)
(* only in a thread that blocks it, or while or after another thread       *)
(* reports it: for any threads, masks, nested crashes, and for calls of    *)
(* init_report_signal() that std::bad_alloc leaves half done.              *)
(***************************************************************************)
THEOREM SilentDeathExplainedCorrect == Spec => []SilentDeathExplained
<1>1. IInv => SilentDeathExplained
  BY DEF IInv, Killed, Explained, SilentDeathExplained
<1> QED
  BY <1>1, Invariant, PTL

(***************************************************************************)
(* With the sanitizer, report_signal() is entered for the incompatible     *)
(* signals unless the process inherited a mask that blocks them, whatever  *)
(* the program does with its scoped_signal_mask objects.                   *)
(***************************************************************************)
THEOREM SanitizedCrashHandledCorrect == Spec => []SanitizedCrashHandled
<1>1. IInv => SanitizedCrashHandled
  BY DEF IInv, Killed, Explained, Masked, Masks, Entered, SanitizedCrashHandled
<1> QED
  BY <1>1, Invariant, PTL

(***************************************************************************)
(* The threads report a signal at most once for each call of               *)
(* init_report_signal(), and none of them twice.                           *)
(***************************************************************************)
THEOREM ReportedOncePerInitCorrect == Spec => []ReportedOncePerInit
<1>1. ASSUME IInv
      PROVE  ReportedOncePerInit
  <2>1. \A s \in Signals : Cardinality(Callers(s)) <= inits
    <3> SUFFICES ASSUME NEW s \in Signals
                 PROVE  Cardinality(Callers(s)) <= inits
      OBVIOUS
    <3>1. /\ Cardinality(Callers(s)) \in Nat /\ Ready(s) \in {0, 1} /\ Left(s) \in {0, 1}
          /\ inits \in Nat /\ Cardinality(Callers(s)) + Ready(s) + Left(s) <= inits
      BY <1>1, CallersFinite, ConstantsAssumption DEF IInv, TypeOK, Counted, Ready, Left
    <3> QED
      BY <3>1
  <2>2. \A t \in Threads : \A i, j \in DOMAIN reports[t] :
          reports[t][i].sig = reports[t][j].sig => i = j
    BY <1>1 DEF IInv, Blocked
  <2> QED
    BY <2>1, <2>2 DEF ReportedOncePerInit, Callers
<1> QED
  BY <1>1, Invariant, PTL

-----------------------------------------------------------------------------
(***************************************************************************)
(* Threads that wait for each other wait for ever: none of them has a step *)
(* of its own but to take another signal, and no other thread can free     *)
(* what they hold.                                                         *)
(***************************************************************************)
\* What a thread waits for is not in the hands of a running call.
LEMMA WaitsFacts ==
  ASSUME TypeOK, Shared, OwnArena, NEW t \in Threads, NEW u \in Threads, WaitsFor(t, u)
  PROVE  /\ arena[t] \in Arenas /\ heap[arena[t]][1] # Nobody
         /\ \A v \in Threads : heap[arena[t]] # <<v, Inner(v)>>
         /\ ~Collect(t)
<1>1. reports \in [Threads -> Seq(Call)] /\ arena[t] \in Arenas
  BY DEF TypeOK, Call
<1>2. \A v \in Threads : Inner(v) \in Nat /\ (reports[v] # <<>> => Inner(v) # 0)
  BY <1>1 DEF Inner
<1>3. PICK n \in 0..Inner(u) - 1 : heap[arena[t]] = <<u, n>>
  BY DEF WaitsFor
<1>4. n \in Nat /\ n < Inner(u) /\ n # Inner(u)
  BY <1>2, <1>3
<1>5. \A v \in Threads : heap[arena[t]] # <<v, Inner(v)>>
  BY <1>3, <1>4
<1>6. heap[arena[t]][1] # Nobody
  BY <1>3, ConstantsAssumption
<1>7. ASSUME Collect(t)
      PROVE  FALSE
  <2>1. reports[t] # <<>> /\ InMalloc(t)
    BY <1>1, <1>6, <1>7 DEF Collect, Collecting, Shared
  <2>2. PICK a \in Arenas : heap[a] = <<t, Inner(t)>>
    BY <2>1 DEF InMalloc
  <2>3. a = arena[t]
    BY <1>2, <2>1, <2>2 DEF OwnArena
  <2> QED
    BY <1>5, <2>2, <2>3
<1> QED
  BY <1>1, <1>5, <1>6, <1>7

\* It waits on while the lock and its own calls stay, and the holder has no fewer.
LEMMA WaitsOn ==
  ASSUME NEW t \in Threads, NEW u \in Threads, WaitsFor(t, u), arena' = arena,
         heap'[arena[t]] = heap[arena[t]], Collecting(t)',
         Inner(u) \in Nat, Inner(u)' \in Nat, Inner(u) <= Inner(u)'
  PROVE  WaitsFor(t, u)'
<1>1. PICK n \in 0..Inner(u) - 1 : heap[arena[t]] = <<u, n>>
  BY DEF WaitsFor
<1>2. n \in 0..Inner(u)' - 1
  BY <1>1
<1> QED
  BY <1>1, <1>2 DEF WaitsFor

LEMMA WaitsStep ==
  ASSUME TypeOK, TypeOK', Shared, OwnArena, [Next]_vars, over'.how = "no",
         NEW t \in Threads, NEW u \in Threads, WaitsFor(t, u)
  PROVE  WaitsFor(t, u)'
<1>1. /\ arena[t] \in Arenas /\ heap[arena[t]][1] # Nobody
      /\ \A v \in Threads : heap[arena[t]] # <<v, Inner(v)>>
      /\ ~Collect(t)
  BY WaitsFacts
<1>2. /\ reports \in [Threads -> Seq(Call)] /\ reports' \in [Threads -> Seq(Call)]
      /\ heap \in [Arenas -> (Threads \cup {Nobody}) \X Nat]
  BY DEF TypeOK, Call
<1>3. Collecting(t) /\ Inner(u) \in Nat /\ Inner(u)' \in Nat
  BY <1>2 DEF WaitsFor, Inner
<1>4. ASSUME reports' = reports, arena' = arena, heap'[arena[t]] = heap[arena[t]]
      PROVE  WaitsFor(t, u)'
  <2>1. Collecting(t)' /\ Inner(u)' = Inner(u)
    BY <1>3, <1>4 DEF Collecting, Inner
  <2> QED
    BY <1>3, <1>4, <2>1, WaitsOn
<1>5. CASE UNCHANGED vars \/ CallInit \/ Install \/ InstallFails \/ MaskStep
  BY <1>4, <1>5, MaskStepFacts DEF vars, report, malloc, CallInit, Install, InstallFails
<1>6. ASSUME NEW v \in Threads, (\E w \in Threads : Malloc(v, arena[w])) \/ Allocate(v)
      PROVE  WaitsFor(t, u)'
  <2>1. PICK a, x : heap[a][1] = Nobody /\ heap' = [heap EXCEPT ![a] = x]
    BY <1>6 DEF Malloc, Allocate
  <2>2. heap'[arena[t]] = heap[arena[t]]
    BY <1>1, <1>2, <2>1
  <2> QED
    BY <1>4, <1>6, <2>2 DEF Malloc, Allocate
<1>7. ASSUME NEW v \in Threads, Free(v)
      PROVE  WaitsFor(t, u)'
  BY <1>1, <1>4, <1>7 DEF Free, Release
<1>8. ASSUME NEW v \in Threads, Collect(v)
      PROVE  WaitsFor(t, u)'
  <2>1. v # t /\ arena' = arena /\ heap'[arena[t]] = heap[arena[t]]
    BY <1>1, <1>8 DEF Collect, Release
  <2>2. reports' = [reports EXCEPT ![v][Inner(v)].traced = TRUE]
    BY <1>8 DEF Collect
  <2>3. reports'[t] = reports[t]
    BY <1>2, <2>1, <2>2
  <2>4. Collecting(t)'
    BY <1>3, <2>3 DEF Collecting, Inner
  <2>5. Inner(u)' = Inner(u)
    <3>1. DOMAIN reports'[u] = DOMAIN reports[u]
      BY <1>8, QuietStep DEF Quiet
    <3>2. /\ DOMAIN reports[u] = 1..Inner(u)
          /\ DOMAIN reports'[u] = 1..Inner(u)'
      BY <1>2 DEF Inner
    <3> QED
      BY <1>3, <3>1, <3>2
  <2> QED
    BY <1>3, <2>1, <2>4, <2>5, WaitsOn
<1>9. ASSUME NEW v \in Threads, (\E s \in Faults : Fault(v, s)) \/ TakeHangup(v)
      PROVE  WaitsFor(t, u)'
  <2>1. PICK s \in Signals : Taken(v, s)
    BY <1>9, SignalStep
  <2>2. arena' = arena
    BY <2>1 DEF Taken
  <2>3. CASE Deliver(v, s)
    <3> DEFINE n == Len(reports[v])
    <3>1. /\ heap' = heap /\ \A x \in Threads \ {v} : reports'[x] = reports[x]
          /\ n \in Nat /\ DOMAIN reports'[v] = 1..n + 1
          /\ reports'[v][n + 1].traced = FALSE
      BY <2>3, DeliverFacts
    <3>2. Len(reports'[v]) = n + 1
      <4>1. reports'[v] \in Seq(Call)
        BY <1>2
      <4>2. Len(reports'[v]) \in Nat /\ DOMAIN reports'[v] = 1..Len(reports'[v])
        BY <4>1
      <4> QED
        BY <3>1, <4>2
    <3>3. Collecting(t)'
      <4>1. CASE t = v
        <5>1. reports'[t] # <<>>
          BY <3>1, <3>2, <4>1
        <5> QED
          BY <3>1, <3>2, <4>1, <5>1 DEF Collecting, Inner
      <4>2. CASE t # v
        BY <1>3, <3>1, <4>2 DEF Collecting, Inner
      <4> QED
        BY <4>1, <4>2
    <3>4. Inner(u) <= Inner(u)'
      BY <1>3, <3>1, <3>2 DEF Inner
    <3> QED
      BY <1>3, <2>2, <3>1, <3>3, <3>4, WaitsOn
  <2>4. CASE ~Deliver(v, s)
    <3>1. UNCHANGED <<reports, heap>>
      BY <2>1, <2>4 DEF Taken, Kill, End, memory
    <3> QED
      BY <1>4, <2>2, <3>1
  <2> QED
    BY <2>3, <2>4
<1>10. ASSUME NEW v \in Threads, Abort(v)
       PROVE  FALSE
  BY <1>10 DEF Abort, End
<1> QED
  BY <1>5, <1>6, <1>7, <1>8, <1>9, <1>10 DEF Next, MaskStep

(***************************************************************************)
(* Threads that wait for the locks of one another, taken in malloc() or    *)
(* free() before they crashed, wait as long as the process lasts: for any  *)
(* number of threads and arenas, and any signals that still come.          *)
(***************************************************************************)
THEOREM DeadlockStaysCorrect == Spec => DeadlockStays
<1>1. ASSUME IInv, IInv', [Next]_vars
      PROVE  [\A D \in SUBSET Threads :
                Deadlocked(D) => Deadlocked(D)' \/ over'.how # "no"]_vars
  <2> SUFFICES ASSUME NEW D \in SUBSET Threads, Deadlocked(D), over'.how = "no"
               PROVE  Deadlocked(D)'
    OBVIOUS
  <2>1. \A t, u \in D : WaitsFor(t, u) => WaitsFor(t, u)'
    BY <1>1, WaitsStep DEF IInv
  <2> QED
    BY <2>1 DEF Deadlocked
<1> QED
  BY <1>1, Invariant, PTL DEF Spec, DeadlockStays

-----------------------------------------------------------------------------
\* Only the crash signals have the handler, and only they are reported.
OnlyCrashes ==
  /\ \A s \in Signals : disposition[s] = "handler" => s \in Crashes
  /\ \A t \in Threads : \A s : Reports(t, s) => s \in Crashes

LEMMA OnlyCrashesStep == TypeOK /\ OnlyCrashes /\ [Next]_vars => OnlyCrashes'
<1> SUFFICES ASSUME TypeOK, OnlyCrashes, [Next]_vars
             PROVE  OnlyCrashes'
  OBVIOUS
<1>1. CASE Quiet
  <2>1. \A t \in Threads : \A s : Reports(t, s)' => Reports(t, s)
    BY <1>1 DEF Quiet, Reports
  <2> QED
    BY <1>1, <2>1 DEF Quiet, OnlyCrashes
<1>2. CASE CallInit \/ InstallFails \/ MaskStep \/ \E t \in Threads : Abort(t)
  <2>1. UNCHANGED <<disposition, reports>>
    BY <1>2, MaskStepFacts DEF CallInit, InstallFails, Abort, report
  <2> QED
    BY <2>1 DEF OnlyCrashes, Reports
<1>3. CASE Install
  <2>1. /\ at \in 1..6 /\ reports' = reports
        /\ disposition' = [disposition EXCEPT ![sigs[at]] = "handler"]
    BY <1>3, SigsFacts DEF Install
  <2>2. sigs[at] \in Crashes
    BY <2>1, SigsFacts
  <2>3. \A s \in Signals : disposition'[s] = "handler" => s \in Crashes
    BY <2>1, <2>2 DEF OnlyCrashes, TypeOK
  <2> QED
    BY <2>1, <2>3 DEF OnlyCrashes, Reports
<1>4. ASSUME NEW t \in Threads, NEW s \in Signals, Taken(t, s)
      PROVE  OnlyCrashes'
  <2>1. CASE Deliver(t, s)
    <3>1. /\ disposition[s] = "handler"
          /\ disposition' = [disposition EXCEPT ![s] = "default"]
      BY <2>1 DEF Deliver
    <3>2. \A x \in Signals : disposition'[x] = "handler" => x \in Crashes
      BY <3>1 DEF OnlyCrashes, TypeOK
    <3>3. ASSUME NEW u \in Threads, NEW x, Reports(u, x)'
          PROVE  x \in Crashes
      <4>1. Reports(u, x) \/ x = s
        BY <2>1, <3>3, DeliverReports
      <4> QED
        BY <3>1, <4>1 DEF OnlyCrashes
    <3> QED
      BY <3>2, <3>3 DEF OnlyCrashes
  <2>2. CASE ~Deliver(t, s)
    <3>1. UNCHANGED <<disposition, reports>>
      BY <1>4, <2>2 DEF Taken, Kill
    <3> QED
      BY <3>1 DEF OnlyCrashes, Reports
  <2> QED
    BY <2>1, <2>2
<1> QED
  BY <1>1, <1>2, <1>3, <1>4, Kinds

LEMMA CrashesFinite == IsFiniteSet(Crashes) /\ Cardinality(Crashes) <= 6
<1> DEFINE f == [i \in 1..6 |-> sigs[i]]
<1>1. f \in Surjection(1..6, Crashes)
  BY SigsFacts DEF Surjection
<1>2. IsFiniteSet(1..6) /\ Cardinality(1..6) = 6
  <2>1. 1 \in Int /\ 6 \in Int /\ ~ (1 > 6) /\ 6 - 1 + 1 = 6
    OBVIOUS
  <2> QED
    BY <2>1, FS_Interval
<1> HIDE DEF f
<1>3. IsFiniteSet(Crashes) /\ Cardinality(Crashes) <= Cardinality(1..6)
  BY <1>1, <1>2, FS_Surjection
<1> QED
  BY <1>2, <1>3

(***************************************************************************)
(* A crash inside the report of a crash, and so on, is at most six deep:   *)
(* as many as init_report_signal() installs the handler for, however often *)
(* it is called.  The stack of a thread holds no more calls of             *)
(* report_signal(), and a bound MaxNested of six bounds nothing.           *)
(***************************************************************************)
THEOREM NestingBounded == Spec => [](\A t \in Threads : Len(reports[t]) <= 6)
<1>1. Init => OnlyCrashes
  BY ConstantsAssumption DEF Init, OnlyCrashes, Reports
<1>2. ASSUME IInv, OnlyCrashes
      PROVE  \A t \in Threads : Len(reports[t]) <= 6
  <2> SUFFICES ASSUME NEW t \in Threads
               PROVE  Len(reports[t]) <= 6
    OBVIOUS
  <2> DEFINE n == Len(reports[t])
             f == [i \in 1..n |-> reports[t][i].sig]
  <2>1. n \in Nat /\ DOMAIN reports[t] = 1..n
    <3>1. reports \in [Threads -> Seq(Call)]
      BY <1>2 DEF IInv, TypeOK, Call
    <3> QED
      BY <3>1
  <2>2. f \in Injection(1..n, Crashes)
    <3>1. \A i \in 1..n : reports[t][i].sig \in Crashes
      BY <1>2, <2>1 DEF OnlyCrashes, Reports
    <3>2. \A i, j \in 1..n : reports[t][i].sig = reports[t][j].sig => i = j
      BY <1>2, <2>1 DEF IInv, Blocked
    <3> QED
      BY <3>1, <3>2 DEF Injection, IsInjective
  <2>3. Cardinality(1..n) <= Cardinality(Crashes) /\ Cardinality(Crashes) \in Nat
    <3> HIDE DEF f, n
    <3>1. Cardinality(1..n) <= Cardinality(Crashes)
      BY <2>2, CrashesFinite, FS_Injection
    <3> QED
      BY <3>1, CrashesFinite, FS_CardinalityType
  <2>4. Cardinality(1..n) = n
    <3> HIDE DEF n
    <3> QED
      BY <2>1, FS_Interval
  <2> QED
    BY <2>1, <2>3, <2>4, CrashesFinite
<1>3. IInv /\ OnlyCrashes /\ [Next]_vars => OnlyCrashes'
  BY OnlyCrashesStep DEF IInv
<1> QED
  BY <1>1, <1>2, <1>3, Invariant, PTL DEF Spec
=============================================================================
