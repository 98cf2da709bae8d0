---------------------- MODULE ScopedSignalMask_proofs -----------------------
(***************************************************************************)
(* Proofs about ScopedSignalMask, for any threads, signals and lists and   *)
(* any depth of nesting.                                                   *)
(***************************************************************************)
EXTENDS ScopedSignalMask, SequenceTheorems, TLAPS

Objects == [blocked : SUBSET Signals, saved : SUBSET Signals]

(***************************************************************************)
(* One object less: what Destroy leaves of the objects of a thread.        *)
(***************************************************************************)
LEMMA FrontFacts ==
  ASSUME NEW S, NEW s \in Seq(S), s # <<>>
  PROVE  /\ Len(s) \in Nat \ {0}
         /\ s[Len(s)] \in S
         /\ SubSeq(s, 1, Len(s) - 1) \in Seq(S)
         /\ Len(SubSeq(s, 1, Len(s) - 1)) = Len(s) - 1
         /\ \A i \in 1..Len(s) - 1 : SubSeq(s, 1, Len(s) - 1)[i] = s[i]
<1> DEFINE n == Len(s) - 1
<1>1. Len(s) \in Nat \ {0} /\ n \in Nat /\ 1 \in Int /\ n \in Int
  BY EmptySeq
<1>2. \A i \in 1..Len(s) : s[i] \in S
  BY ElementOfSeq
<1>3. \A i \in 1..n : s[i] \in S
  BY <1>1, <1>2
<1> HIDE DEF n
<1>4. /\ SubSeq(s, 1, n) \in Seq(S)
      /\ Len(SubSeq(s, 1, n)) = IF 1 <= n THEN n - 1 + 1 ELSE 0
      /\ \A i \in 1..n - 1 + 1 : SubSeq(s, 1, n)[i] = s[1 + i - 1]
  BY <1>1, <1>3, SubSeqProperties
<1>5. Len(SubSeq(s, 1, n)) = n /\ \A i \in 1..n : SubSeq(s, 1, n)[i] = s[i]
  BY <1>1, <1>4
<1> QED
  BY <1>1, <1>2, <1>4, <1>5 DEF n

(***************************************************************************)
(* The constructor is past sigaddset() only with signals that exist.       *)
(***************************************************************************)
ValidSets == \A t \in Threads : pc[t] \in {"define", "dlsym", "block"} => set[t] \subseteq Signals

(***************************************************************************)
(* Every variable of ScopedSignalMask has its type, whatever the threads   *)
(* do: no bad signal gets into a mask.                                     *)
(***************************************************************************)
THEOREM TypeCorrect == Spec => [](TypeOK /\ ValidSets)
<1>1. Init => TypeOK /\ ValidSets
  <2> SUFFICES ASSUME Init
               PROVE  TypeOK /\ ValidSets
    OBVIOUS
  <2>1. base \in [Threads -> SUBSET Signals]
    BY ConstantsAssumption DEF Init
  <2>2. masks \in [Threads -> Seq(Objects)]
    BY EmptySeq DEF Init
  <2> QED
    BY <2>1, <2>2 DEF Init, TypeOK, ValidSets, Objects
<1>2. TypeOK /\ ValidSets /\ [Next]_vars => (TypeOK /\ ValidSets)'
  <2> SUFFICES ASSUME TypeOK, ValidSets, [Next]_vars
               PROVE  (TypeOK /\ ValidSets)'
    OBVIOUS
  <2> USE ConstantsAssumption DEF ValidSets
  <2>1. ASSUME NEW t \in Threads, NEW list \in Lists, Construct(t, list)
        PROVE  (TypeOK /\ ValidSets)'
    BY <2>1 DEF TypeOK, Construct, Requested
  <2>2. ASSUME NEW t \in Threads, Refuse(t)
        PROVE  (TypeOK /\ ValidSets)'
    BY <2>2 DEF TypeOK, Refuse
  <2>3. ASSUME NEW t \in Threads, TestDefined(t)
        PROVE  (TypeOK /\ ValidSets)'
    <3>1. CASE defined
      <4>1. /\ set' = [set EXCEPT ![t] = IF has THEN set[t] \ Incompatible ELSE set[t]]
            /\ pc' = [pc EXCEPT ![t] = "block"]
            /\ set[t] \subseteq Signals
        BY <2>3, <3>1 DEF TestDefined, Answer, Valid
      <4>2. /\ set' = [set EXCEPT ![t] = set'[t]]
            /\ set'[t] \subseteq set[t]
        BY <4>1 DEF TypeOK
      <4> QED
        BY <2>3, <4>1, <4>2 DEF TypeOK, TestDefined
    <3>2. CASE ~defined
      BY <2>3, <3>2 DEF TypeOK, TestDefined, Valid
    <3> QED
      BY <3>1, <3>2
  <2>4. ASSUME NEW t \in Threads, Dlsym(t)
        PROVE  (TypeOK /\ ValidSets)'
    BY <2>4 DEF TypeOK, Dlsym, Answer
  <2>5. ASSUME NEW t \in Threads, Block(t)
        PROVE  (TypeOK /\ ValidSets)'
    <3>1. [blocked |-> set[t] \ Unblockable, saved |-> mask[t]] \in Objects
      BY <2>5 DEF TypeOK, Objects, Block
    <3>2. masks \in [Threads -> Seq(Objects)]
      BY DEF TypeOK, Objects
    <3>3. masks' \in [Threads -> Seq(Objects)]
      BY <2>5, <3>1, <3>2 DEF Block
    <3>4. mask' \in [Threads -> SUBSET Signals]
      BY <2>5 DEF TypeOK, Block
    <3> QED
      BY <2>5, <3>3, <3>4 DEF TypeOK, Block, Objects
  <2>6. ASSUME NEW t \in Threads, Destroy(t)
        PROVE  (TypeOK /\ ValidSets)'
    <3>1. masks[t] \in Seq(Objects) /\ masks[t] # <<>>
      BY <2>6 DEF TypeOK, Destroy, Objects
    <3>2. /\ SubSeq(masks[t], 1, Len(masks[t]) - 1) \in Seq(Objects)
          /\ masks[t][Len(masks[t])] \in Objects
      BY <3>1, FrontFacts
    <3>3. masks' \in [Threads -> Seq(Objects)]
      BY <2>6, <3>2 DEF TypeOK, Destroy, Objects
    <3>4. mask' \in [Threads -> SUBSET Signals]
      BY <2>6, <3>2 DEF TypeOK, Destroy, Restored, Objects
    <3> QED
      BY <2>6, <3>3, <3>4 DEF TypeOK, Destroy, Objects
  <2>7. ASSUME NEW t \in Threads, NEW u \in Threads, StartThread(t, u)
        PROVE  (TypeOK /\ ValidSets)'
    BY <2>7 DEF TypeOK, StartThread
  <2>8. ASSUME NEW t \in Threads, Define(t)
        PROVE  (TypeOK /\ ValidSets)'
    BY <2>8 DEF TypeOK, Define
  <2>9. CASE UNCHANGED vars
    BY <2>9 DEF TypeOK, vars
  <2> QED
    BY <2>1, <2>2, <2>3, <2>4, <2>5, <2>6, <2>7, <2>8, <2>9 DEF Next
<1> QED
  BY <1>1, <1>2, PTL DEF Spec

(***************************************************************************)
(* A thread that has not started has no object.                            *)
(***************************************************************************)
Unstarted == \A t \in Threads : pc[t] = "none" => masks[t] = <<>>

\* The part of SavedChain that is about one thread.
Chain(t) ==
  /\ \A i \in DOMAIN masks[t] : masks[t][i].saved = Left(t, i - 1)
  /\ mask[t] = Left(t, Len(masks[t]))

LEMMA ChainOfOthers ==
  ASSUME NEW t \in Threads, Chain(t),
         masks'[t] = masks[t], mask'[t] = mask[t], base'[t] = base[t]
  PROVE  Chain(t)'
BY DEF Chain, Left

(***************************************************************************)
(* What Block and Destroy do to the objects and the masks, in terms of     *)
(* the number n of objects the thread has before the step.                 *)
(***************************************************************************)
LEMMA ObjectsFacts ==
  ASSUME TypeOK, NEW t \in Threads
  PROVE  /\ masks[t] \in Seq(Objects)
         /\ Len(masks[t]) \in Nat
         /\ DOMAIN masks[t] = 1..Len(masks[t])
BY LenProperties DEF TypeOK, Objects

LEMMA BlockFacts ==
  ASSUME TypeOK, ValidSets, NEW t \in Threads, Block(t), NEW n \in Nat, n = Len(masks[t])
  PROVE  /\ pc[t] = "block" /\ pc' = [pc EXCEPT ![t] = "idle"] /\ base' = base
         /\ mask' = [mask EXCEPT ![t] = mask[t] \cup (set[t] \ Unblockable)]
         /\ \A u \in Threads \ {t} : masks'[u] = masks[u]
         /\ Len(masks'[t]) = n + 1 /\ DOMAIN masks'[t] = 1..n + 1
         /\ masks'[t][n + 1].saved = mask[t]
         /\ masks'[t][n + 1].blocked = set[t] \ Unblockable
         /\ \A i \in 1..n : masks'[t][i] = masks[t][i]
<1> DEFINE o == [blocked |-> set[t] \ Unblockable, saved |-> mask[t]]
<1>1. /\ masks' = [masks EXCEPT ![t] = Append(masks[t], o)]
      /\ mask' = [mask EXCEPT ![t] = mask[t] \cup (set[t] \ Unblockable)]
      /\ pc[t] = "block" /\ pc' = [pc EXCEPT ![t] = "idle"]
      /\ base' = base
  BY DEF Block
<1>2. /\ o \in Objects
      /\ o.saved = mask[t]
      /\ o.blocked = set[t] \ Unblockable
  BY <1>1 DEF TypeOK, ValidSets, Objects
<1> HIDE DEF o
<1>3. masks'[t] = Append(masks[t], o) /\ \A u \in Threads \ {t} : masks'[u] = masks[u]
  BY <1>1 DEF TypeOK
<1>4. /\ Len(masks'[t]) = n + 1 /\ DOMAIN masks'[t] = 1..n + 1
      /\ masks'[t][n + 1] = o
      /\ \A i \in 1..n : masks'[t][i] = masks[t][i]
  BY <1>2, <1>3, ObjectsFacts
<1> QED
  BY <1>1, <1>2, <1>3, <1>4

LEMMA DestroyFacts ==
  ASSUME TypeOK, NEW t \in Threads, Destroy(t), NEW n \in Nat, n = Len(masks[t])
  PROVE  /\ n # 0 /\ pc[t] = "idle" /\ pc' = pc /\ base' = base
         /\ mask' = [mask EXCEPT ![t] = masks[t][n].saved]
         /\ \A u \in Threads \ {t} : masks'[u] = masks[u]
         /\ Len(masks'[t]) = n - 1 /\ DOMAIN masks'[t] = 1..n - 1
         /\ \A i \in 1..n - 1 : masks'[t][i] = masks[t][i]
<1>1. /\ masks' = [masks EXCEPT ![t] = SubSeq(masks[t], 1, n - 1)]
      /\ mask' = [mask EXCEPT ![t] = masks[t][n].saved]
      /\ masks[t] # <<>> /\ pc[t] = "idle" /\ pc' = pc /\ base' = base
  BY DEF Destroy, Restored
<1>2. masks'[t] = SubSeq(masks[t], 1, n - 1) /\ \A u \in Threads \ {t} : masks'[u] = masks[u]
  BY <1>1 DEF TypeOK
<1>3. /\ n # 0
      /\ masks'[t] \in Seq(Objects)
      /\ Len(masks'[t]) = n - 1
      /\ \A i \in 1..n - 1 : masks'[t][i] = masks[t][i]
  BY <1>1, <1>2, ObjectsFacts, FrontFacts
<1>4. DOMAIN masks'[t] = 1..n - 1
  BY <1>3, LenProperties
<1> QED
  BY <1>1, <1>2, <1>3, <1>4

LEMMA ChainStep ==
  ASSUME TypeOK, ValidSets, Unstarted, SavedChain, [Next]_vars
  PROVE  (Unstarted /\ SavedChain)'
<1>0. \A t \in Threads : Chain(t)
  BY DEF SavedChain, Chain
<1> SUFFICES Unstarted' /\ \A u \in Threads : Chain(u)'
  BY DEF SavedChain, Chain
<1>1. ASSUME NEW t \in Threads, Block(t)
      PROVE  Unstarted' /\ \A u \in Threads : Chain(u)'
  <2>n. PICK n \in Nat : n = Len(masks[t])
    BY ObjectsFacts
  <2>1. /\ pc[t] = "block" /\ pc' = [pc EXCEPT ![t] = "idle"] /\ base' = base
        /\ mask' = [mask EXCEPT ![t] = mask[t] \cup (set[t] \ Unblockable)]
        /\ \A u \in Threads \ {t} : masks'[u] = masks[u]
        /\ Len(masks'[t]) = n + 1 /\ DOMAIN masks'[t] = 1..n + 1
        /\ masks'[t][n + 1].saved = mask[t]
        /\ masks'[t][n + 1].blocked = set[t] \ Unblockable
        /\ \A i \in 1..n : masks'[t][i] = masks[t][i]
    BY <1>1, <2>n, BlockFacts
  <2>2. Unstarted'
    BY <2>1 DEF Unstarted, TypeOK
  <2>3. ASSUME NEW u \in Threads, u # t
        PROVE  Chain(u)'
    BY <1>0, <2>1, <2>3, ChainOfOthers DEF TypeOK
  <2>4. Chain(t)'
    <3>1. mask[t] = Left(t, n)
      BY <1>0, <2>n DEF Chain
    <3>2. ASSUME NEW i \in 0..n
          PROVE  Left(t, i)' = Left(t, i)
      <4>1. i # 0 => masks'[t][i] = masks[t][i]
        BY <2>1
      <4> QED
        BY <2>1, <4>1 DEF Left
    <3>3. Left(t, n + 1)' = mask[t] \cup (set[t] \ Unblockable)
      <4>1. n + 1 # 0
        OBVIOUS
      <4> QED
        BY <2>1, <4>1 DEF Left
    <3>4. \A i \in 1..n : masks[t][i].saved = Left(t, i - 1)
      BY <1>0, <2>n, ObjectsFacts DEF Chain
    <3>5. ASSUME NEW i \in 1..n + 1
          PROVE  masks'[t][i].saved = Left(t, i - 1)'
      <4>1. CASE i = n + 1
        BY <2>1, <3>1, <3>2, <4>1
      <4>2. CASE i \in 1..n
        <5>1. i - 1 \in 0..n
          BY <4>2
        <5>2. masks'[t][i] = masks[t][i] /\ masks[t][i].saved = Left(t, i - 1)
          BY <2>1, <3>4, <4>2
        <5>3. Left(t, i - 1)' = Left(t, i - 1)
          BY <3>2, <5>1
        <5> QED
          BY <5>2, <5>3
      <4> QED
        BY <4>1, <4>2
    <3>6. mask'[t] = Left(t, Len(masks[t]))'
      BY <2>1, <3>3 DEF TypeOK
    <3> QED
      BY <2>1, <3>5, <3>6 DEF Chain
  <2> QED
    BY <2>2, <2>3, <2>4
<1>2. ASSUME NEW t \in Threads, Destroy(t)
      PROVE  Unstarted' /\ \A u \in Threads : Chain(u)'
  <2>n. PICK n \in Nat : n = Len(masks[t])
    BY ObjectsFacts
  <2>1. /\ n # 0 /\ pc[t] = "idle" /\ pc' = pc /\ base' = base
        /\ mask' = [mask EXCEPT ![t] = masks[t][n].saved]
        /\ \A u \in Threads \ {t} : masks'[u] = masks[u]
        /\ Len(masks'[t]) = n - 1 /\ DOMAIN masks'[t] = 1..n - 1
        /\ \A i \in 1..n - 1 : masks'[t][i] = masks[t][i]
    BY <1>2, <2>n, DestroyFacts
  <2>2. Unstarted'
    BY <2>1 DEF Unstarted, TypeOK
  <2>3. ASSUME NEW u \in Threads, u # t
        PROVE  Chain(u)'
    BY <1>0, <2>1, <2>3, ChainOfOthers DEF TypeOK
  <2>4. Chain(t)'
    <3>1. ASSUME NEW i \in 0..n - 1
          PROVE  Left(t, i)' = Left(t, i)
      <4>1. i # 0 => masks'[t][i] = masks[t][i]
        BY <2>1
      <4> QED
        BY <2>1, <4>1 DEF Left
    <3>2. \A i \in 1..n : masks[t][i].saved = Left(t, i - 1)
      BY <1>0, <2>n, ObjectsFacts DEF Chain
    <3>3. mask'[t] = Left(t, n - 1)
      BY <2>1, <3>2 DEF TypeOK
    <3>4. mask'[t] = Left(t, Len(masks[t]))'
      BY <2>1, <3>1, <3>3
    <3>5. ASSUME NEW i \in 1..n - 1
          PROVE  masks'[t][i].saved = Left(t, i - 1)'
      <4>1. i - 1 \in 0..n - 1 /\ i \in 1..n
        OBVIOUS
      <4>2. masks'[t][i].saved = Left(t, i - 1)
        BY <2>1, <3>2, <4>1
      <4> QED
        BY <3>1, <4>1, <4>2
    <3> QED
      BY <2>1, <3>4, <3>5 DEF Chain
  <2> QED
    BY <2>2, <2>3, <2>4
<1>3. ASSUME NEW t \in Threads, NEW u \in Threads, StartThread(t, u)
      PROVE  Unstarted' /\ \A v \in Threads : Chain(v)'
  <2>1. /\ pc[u] = "none" /\ pc' = [pc EXCEPT ![u] = "idle"]
        /\ mask' = [mask EXCEPT ![u] = mask[t]]
        /\ base' = [base EXCEPT ![u] = mask[t]]
        /\ masks' = masks
    BY <1>3 DEF StartThread
  <2>2. Unstarted'
    BY <2>1 DEF Unstarted, TypeOK
  <2>3. ASSUME NEW v \in Threads, v # u
        PROVE  Chain(v)'
    BY <1>0, <2>1, <2>3, ChainOfOthers DEF TypeOK
  <2>4. masks'[u] = <<>> /\ mask'[u] = base'[u]
    BY <2>1 DEF Unstarted, TypeOK
  <2>5. Chain(u)'
    BY <2>4 DEF Chain, Left
  <2> QED
    BY <2>2, <2>3, <2>5
<1>4. ASSUME UNCHANGED <<masks, mask, base>>,
             \A t \in Threads : pc'[t] = "none" => pc[t] = "none"
      PROVE  Unstarted' /\ \A u \in Threads : Chain(u)'
  BY <1>0, <1>4, ChainOfOthers DEF Unstarted
<1>5. ASSUME NEW t \in Threads, NEW list \in Lists, Construct(t, list)
      PROVE  Unstarted' /\ \A u \in Threads : Chain(u)'
  BY <1>4, <1>5 DEF Construct, TypeOK
<1>6. ASSUME NEW t \in Threads, Refuse(t)
      PROVE  Unstarted' /\ \A u \in Threads : Chain(u)'
  BY <1>4, <1>6 DEF Refuse, TypeOK
<1>7. ASSUME NEW t \in Threads, TestDefined(t)
      PROVE  Unstarted' /\ \A u \in Threads : Chain(u)'
  BY <1>4, <1>7 DEF TestDefined, Answer, TypeOK
<1>8. ASSUME NEW t \in Threads, Dlsym(t)
      PROVE  Unstarted' /\ \A u \in Threads : Chain(u)'
  BY <1>4, <1>8 DEF Dlsym, Answer, TypeOK
<1>9. ASSUME NEW t \in Threads, Define(t)
      PROVE  Unstarted' /\ \A u \in Threads : Chain(u)'
  BY <1>4, <1>9 DEF Define, TypeOK
<1>10. CASE UNCHANGED vars
  BY <1>4, <1>10 DEF vars
<1> QED
  BY <1>1, <1>2, <1>3, <1>5, <1>6, <1>7, <1>8, <1>9, <1>10 DEF Next

LEMMA ChainInvariant == Spec => [](Unstarted /\ SavedChain)
<1>1. Init => Unstarted /\ SavedChain
  BY DEF Init, Unstarted, SavedChain, Left
<1>2. TypeOK /\ ValidSets /\ (Unstarted /\ SavedChain) /\ [Next]_vars
        => (Unstarted /\ SavedChain)'
  BY ChainStep
<1> QED
  BY <1>1, <1>2, TypeCorrect, PTL DEF Spec

(***************************************************************************)
(* Each object saved the mask the previous one left: whatever the nesting, *)
(* destroying the objects in reverse order restores every mask.            *)
(***************************************************************************)
THEOREM SavedChainCorrect == Spec => []SavedChain
BY ChainInvariant, PTL

-----------------------------------------------------------------------------
\* The signals that has_sanitizer() makes the constructor remove.
Removed == IF Sanitizer THEN Incompatible ELSE {}

\* The local set of thread t comes from a valid list, less some signals.
FromList(t, less) ==
  \E l \in Lists : l \subseteq Signals /\ set[t] = Requested(l) \ less

(***************************************************************************)
(* The answer of has_sanitizer() is known to every thread but the main     *)
(* one, which computes it before it starts another.                        *)
(***************************************************************************)
AnswerKnown ==
  /\ defined => has = Sanitizer \/ pc[Main] = "dlsym"
  /\ \A t \in Threads \ {Main} :
       pc[t] # "none" => defined /\ has = Sanitizer /\ pc[t] \notin {"define", "dlsym"}

\* What the constructor of a thread has put in its set so far.
SetFromList(t) ==
  /\ pc[t] = "list"  => \E l \in Lists : set[t] = Requested(l)
  /\ pc[t] \in {"define", "dlsym"} => FromList(t, {})
  /\ pc[t] = "block" => FromList(t, Removed)

SetsFromLists == \A t \in Threads : SetFromList(t)

LEMMA SetOfOthers ==
  ASSUME NEW t, SetFromList(t), pc'[t] = pc[t], set'[t] = set[t]
  PROVE  SetFromList(t)'
BY DEF SetFromList, FromList

LEMMA AnswerStep ==
  ASSUME ProbeFirst, TypeOK, AnswerKnown, SetsFromLists, [Next]_vars
  PROVE  (AnswerKnown /\ SetsFromLists)'
<1> USE ConstantsAssumption
<1>1. ASSUME NEW t \in Threads, NEW list \in Lists, Construct(t, list)
      PROVE  (AnswerKnown /\ SetsFromLists)'
  <2>1. AnswerKnown'
    BY <1>1 DEF Construct, TypeOK, AnswerKnown
  <2>2. set'[t] = Requested(list) /\ pc'[t] = "list"
    BY <1>1 DEF Construct, TypeOK, Requested
  <2>3. \A u \in Threads \ {t} : pc'[u] = pc[u] /\ set'[u] = set[u]
    BY <1>1 DEF Construct, TypeOK
  <2>4. SetFromList(t)'
    BY <2>2 DEF SetFromList, Requested
  <2>5. SetsFromLists'
    BY <2>3, <2>4, SetOfOthers DEF SetsFromLists
  <2> QED
    BY <2>1, <2>5
<1>2. ASSUME NEW t \in Threads, Refuse(t)
      PROVE  (AnswerKnown /\ SetsFromLists)'
  <2>1. AnswerKnown'
    BY <1>2 DEF Refuse, TypeOK, AnswerKnown
  <2>2. SetFromList(t)'
    BY <1>2 DEF Refuse, TypeOK, SetFromList
  <2>3. SetsFromLists'
    BY <1>2, <2>2, SetOfOthers DEF Refuse, TypeOK, SetsFromLists
  <2> QED
    BY <2>1, <2>3
<1>3. ASSUME NEW t \in Threads, TestDefined(t)
      PROVE  (AnswerKnown /\ SetsFromLists)'
  <2>1. FromList(t, {})
    <3>1. PICK l \in Lists : set[t] = Requested(l)
      BY <1>3 DEF TestDefined, SetsFromLists, SetFromList
    <3>2. l \subseteq Signals
      BY <1>3, <3>1 DEF TestDefined, Valid, Requested
    <3> QED
      BY <3>1, <3>2 DEF FromList
  <2>2. CASE defined
    <3>1. has = Sanitizer
      BY <1>3, <2>2 DEF TestDefined, AnswerKnown
    <3>2. /\ set' = [set EXCEPT ![t] = set[t] \ Removed]
          /\ pc' = [pc EXCEPT ![t] = "block"]
          /\ defined' = defined /\ has' = has
      BY <1>3, <2>2, <3>1 DEF TestDefined, Answer, Removed, TypeOK
    <3>3. AnswerKnown'
      BY <2>2, <3>1, <3>2 DEF AnswerKnown, TypeOK
    <3>4. FromList(t, Removed)'
      BY <2>1, <3>2 DEF FromList, TypeOK
    <3>5. \A u \in Threads \ {t} : pc'[u] = pc[u] /\ set'[u] = set[u]
      BY <3>2 DEF TypeOK
    <3>6. SetFromList(t)'
      BY <3>2, <3>4 DEF SetFromList, TypeOK
    <3>7. SetsFromLists'
      BY <3>5, <3>6, SetOfOthers DEF SetsFromLists
    <3> QED
      BY <3>3, <3>7
  <2>3. CASE ~defined
    <3>1. t = Main
      BY <1>3, <2>3 DEF TestDefined, AnswerKnown
    <3>2. /\ set' = set
          /\ pc' = [pc EXCEPT ![t] = "define"]
          /\ defined' = defined /\ has' = has
      BY <1>3, <2>3 DEF TestDefined
    <3>3. AnswerKnown'
      BY <2>3, <3>1, <3>2 DEF AnswerKnown, TypeOK
    <3>4. SetsFromLists'
      <4>1. SetFromList(t)'
        BY <2>1, <3>2 DEF SetFromList, FromList, TypeOK
      <4> QED
        BY <3>2, <4>1, SetOfOthers DEF SetsFromLists, TypeOK
    <3> QED
      BY <3>3, <3>4
  <2> QED
    BY <2>2, <2>3
<1>4. ASSUME NEW t \in Threads, Dlsym(t)
      PROVE  (AnswerKnown /\ SetsFromLists)'
  <2>1. /\ set' = [set EXCEPT ![t] = set[t] \ Removed]
        /\ pc' = [pc EXCEPT ![t] = "block"]
        /\ defined' = defined /\ has' = Sanitizer
        /\ pc[t] = "dlsym"
    BY <1>4 DEF Dlsym, Answer, Removed, TypeOK
  <2>2. AnswerKnown'
    BY <2>1 DEF AnswerKnown, TypeOK
  <2>3. FromList(t, Removed)'
    <3>1. PICK l \in Lists : l \subseteq Signals /\ set[t] = Requested(l) \ {}
      BY <2>1 DEF SetsFromLists, SetFromList, FromList
    <3>2. set'[t] = Requested(l) \ Removed
      BY <2>1, <3>1 DEF TypeOK
    <3> QED
      BY <3>1, <3>2 DEF FromList, Requested, Removed
  <2>4. \A u \in Threads \ {t} : pc'[u] = pc[u] /\ set'[u] = set[u]
    BY <2>1 DEF TypeOK
  <2>5. SetFromList(t)'
    BY <2>1, <2>3 DEF SetFromList, TypeOK
  <2>6. SetsFromLists'
    BY <2>4, <2>5, SetOfOthers DEF SetsFromLists
  <2> QED
    BY <2>2, <2>6
<1>5. ASSUME NEW t \in Threads, Block(t)
      PROVE  (AnswerKnown /\ SetsFromLists)'
  BY <1>5 DEF Block, TypeOK, AnswerKnown, SetsFromLists, SetFromList, FromList
<1>6. ASSUME NEW t \in Threads, Destroy(t)
      PROVE  (AnswerKnown /\ SetsFromLists)'
  BY <1>6 DEF Destroy, AnswerKnown, SetsFromLists, SetFromList, FromList
<1>7. ASSUME NEW t \in Threads, NEW u \in Threads, StartThread(t, u)
      PROVE  (AnswerKnown /\ SetsFromLists)'
  BY <1>7 DEF StartThread, TypeOK, AnswerKnown, SetsFromLists, SetFromList, FromList
<1>8. ASSUME NEW t \in Threads, Define(t)
      PROVE  (AnswerKnown /\ SetsFromLists)'
  <2>1. /\ pc[t] = "define" /\ pc' = [pc EXCEPT ![t] = "dlsym"]
        /\ defined' = TRUE /\ has' = has /\ set' = set
    BY <1>8 DEF Define
  <2>2. t = Main
    BY <2>1 DEF AnswerKnown
  <2>3. AnswerKnown'
    BY <2>1, <2>2 DEF AnswerKnown, TypeOK
  <2>4. SetFromList(t)'
    BY <2>1 DEF SetsFromLists, SetFromList, FromList, TypeOK
  <2>5. SetsFromLists'
    BY <2>1, <2>4, SetOfOthers DEF SetsFromLists, TypeOK
  <2> QED
    BY <2>3, <2>5
<1>9. CASE UNCHANGED vars
  BY <1>9 DEF vars, AnswerKnown, SetsFromLists, SetFromList, FromList
<1> QED
  BY <1>1, <1>2, <1>3, <1>4, <1>5, <1>6, <1>7, <1>8, <1>9 DEF Next

LEMMA AnswerInvariant ==
  ASSUME ProbeFirst
  PROVE  Spec => [](AnswerKnown /\ SetsFromLists)
<1>1. Init => AnswerKnown /\ SetsFromLists
  BY ConstantsAssumption DEF Init, AnswerKnown, SetsFromLists, SetFromList
<1>2. TypeOK /\ (AnswerKnown /\ SetsFromLists) /\ [Next]_vars
        => (AnswerKnown /\ SetsFromLists)'
  BY AnswerStep
<1> QED
  BY <1>1, <1>2, TypeCorrect, PTL DEF Spec

-----------------------------------------------------------------------------
(***************************************************************************)
(* Each object of thread t blocked what a scope of a valid list blocks.    *)
(***************************************************************************)
MasksFromLists ==
  \A t \in Threads : \A i \in DOMAIN masks[t] :
    \E l \in Lists : l \subseteq Signals /\ masks[t][i].blocked = Effective(l)

LEMMA BlockedIsEffective ==
  ASSUME SetsFromLists, NEW t \in Threads, pc[t] = "block"
  PROVE  \E l \in Lists : l \subseteq Signals /\ set[t] \ Unblockable = Effective(l)
BY DEF SetsFromLists, SetFromList, FromList, Effective, Requested, Removed

LEMMA MasksFromListsStep ==
  ASSUME TypeOK, ValidSets, SetsFromLists, MasksFromLists, [Next]_vars
  PROVE  MasksFromLists'
<1>1. ASSUME NEW t \in Threads, Block(t)
      PROVE  MasksFromLists'
  <2>n. PICK n \in Nat : n = Len(masks[t])
    BY ObjectsFacts
  <2>1. /\ pc[t] = "block"
        /\ \A u \in Threads \ {t} : masks'[u] = masks[u]
        /\ DOMAIN masks'[t] = 1..n + 1
        /\ masks'[t][n + 1].blocked = set[t] \ Unblockable
        /\ \A i \in 1..n : masks'[t][i] = masks[t][i]
    BY <1>1, <2>n, BlockFacts
  <2>2. PICK l \in Lists : l \subseteq Signals /\ masks'[t][n + 1].blocked = Effective(l)
    BY <2>1, BlockedIsEffective
  <2>3. \A i \in 1..n : \E k \in Lists : k \subseteq Signals /\ masks'[t][i].blocked = Effective(k)
    BY <2>n, <2>1, ObjectsFacts DEF MasksFromLists
  <2>4. \A i \in 1..n + 1 : i \in 1..n \/ i = n + 1
    OBVIOUS
  <2>5. \A i \in DOMAIN masks'[t] :
          \E k \in Lists : k \subseteq Signals /\ masks'[t][i].blocked = Effective(k)
    BY <2>1, <2>2, <2>3, <2>4
  <2> QED
    BY <2>1, <2>5 DEF MasksFromLists
<1>2. ASSUME NEW t \in Threads, Destroy(t)
      PROVE  MasksFromLists'
  <2>n. PICK n \in Nat : n = Len(masks[t])
    BY ObjectsFacts
  <2>1. /\ \A u \in Threads \ {t} : masks'[u] = masks[u]
        /\ DOMAIN masks'[t] = 1..n - 1
        /\ \A i \in 1..n - 1 : masks'[t][i] = masks[t][i]
    BY <1>2, <2>n, DestroyFacts
  <2>2. \A i \in DOMAIN masks'[t] : i \in DOMAIN masks[t] /\ masks'[t][i] = masks[t][i]
    BY <2>n, <2>1, ObjectsFacts
  <2> QED
    BY <2>1, <2>2 DEF MasksFromLists
<1>3. ASSUME UNCHANGED masks
      PROVE  MasksFromLists'
  BY <1>3 DEF MasksFromLists
<1>4. ASSUME NEW t \in Threads,
             \/ \E list \in Lists : Construct(t, list)
             \/ Refuse(t) \/ TestDefined(t) \/ Define(t) \/ Dlsym(t)
             \/ \E u \in Threads : StartThread(t, u)
      PROVE  UNCHANGED masks
  BY <1>4 DEF Construct, Refuse, TestDefined, Define, Dlsym, StartThread
<1>5. CASE UNCHANGED vars
  BY <1>3, <1>5 DEF vars
<1> QED
  BY <1>1, <1>2, <1>3, <1>4, <1>5 DEF Next

LEMMA MasksFromListsInvariant ==
  ASSUME ProbeFirst
  PROVE  Spec => []MasksFromLists
<1>1. Init => MasksFromLists
  BY DEF Init, MasksFromLists
<1>2. TypeOK /\ ValidSets /\ SetsFromLists /\ MasksFromLists /\ [Next]_vars => MasksFromLists'
  BY MasksFromListsStep
<1> QED
  BY <1>1, <1>2, TypeCorrect, AnswerInvariant, PTL DEF Spec

(***************************************************************************)
(* When has_sanitizer() is called before any thread is started, no object  *)
(* ever blocks a signal the sanitizer needs.                               *)
(***************************************************************************)
THEOREM SanitizerSignalsFreeCorrect ==
  ASSUME ProbeFirst
  PROVE  Spec => []SanitizerSignalsFree
<1>1. MasksFromLists => SanitizerSignalsFree
  BY DEF MasksFromLists, SanitizerSignalsFree, Effective
<1> QED
  BY <1>1, MasksFromListsInvariant, PTL

-----------------------------------------------------------------------------
(***************************************************************************)
(* What the objects of a thread blocked, outermost first: the refinement   *)
(* mapping of scopes.                                                      *)
(***************************************************************************)
ScopesOf(t) == [i \in DOMAIN masks[t] |-> masks[t][i].blocked]

\* The mask after k objects is what they blocked besides the inherited mask.
Layer(t, k) == base[t] \cup UNION {masks[t][i].blocked : i \in 1..k}

Layers == \A t \in Threads : \A k \in 0..Len(masks[t]) : Left(t, k) = Layer(t, k)

LEMMA LayersStep ==
  ASSUME TypeOK, ValidSets, Unstarted, SavedChain, Layers, [Next]_vars
  PROVE  Layers'
<1>1. ASSUME NEW t \in Threads, Block(t)
      PROVE  Layers'
  <2>n. PICK n \in Nat : n = Len(masks[t])
    BY ObjectsFacts
  <2>1. /\ base' = base
        /\ \A u \in Threads \ {t} : masks'[u] = masks[u]
        /\ Len(masks'[t]) = n + 1
        /\ masks'[t][n + 1].saved = mask[t]
        /\ \A i \in 1..n : masks'[t][i] = masks[t][i]
    BY <1>1, <2>n, BlockFacts
  <2>2. ASSUME NEW k \in 0..n
        PROVE  Left(t, k)' = Layer(t, k)'
    <3>1. \A i \in 1..k : masks'[t][i] = masks[t][i]
      BY <2>1
    <3>2. k # 0 => masks'[t][k] = masks[t][k]
      BY <2>1
    <3>3. Left(t, k)' = Left(t, k)
      BY <2>1, <3>2 DEF Left
    <3>4. Layer(t, k)' = Layer(t, k)
      BY <2>1, <3>1 DEF Layer
    <3>5. Left(t, k) = Layer(t, k)
      BY <2>n DEF Layers
    <3> QED
      BY <3>3, <3>4, <3>5
  <2>3. Left(t, n + 1)' = Layer(t, n + 1)'
    <3>1. Left(t, n + 1)' = mask[t] \cup masks'[t][n + 1].blocked
      BY <2>1 DEF Left
    <3>2. mask[t] = Layer(t, n)
      BY <2>n DEF SavedChain, Layers
    <3>3. \A i \in 1..n + 1 : i \in 1..n \/ i = n + 1
      OBVIOUS
    <3>4. Layer(t, n + 1)' = Layer(t, n) \cup masks'[t][n + 1].blocked
      BY <2>1, <3>3 DEF Layer
    <3> QED
      BY <3>1, <3>2, <3>4
  <2>4. \A k \in 0..n + 1 : k \in 0..n \/ k = n + 1
    OBVIOUS
  <2>5. \A k \in 0..n + 1 : Left(t, k)' = Layer(t, k)'
    BY <2>2, <2>3, <2>4
  <2>6. ASSUME NEW u \in Threads \ {t}, NEW k \in 0..Len(masks'[u])
        PROVE  Left(u, k)' = Layer(u, k)'
    <3>1. masks'[u] = masks[u] /\ base'[u] = base[u] /\ Left(u, k) = Layer(u, k)
      BY <2>1, <2>6 DEF Layers
    <3> QED
      BY <3>1 DEF Left, Layer
  <2>7. \A k \in 0..Len(masks'[t]) : Left(t, k)' = Layer(t, k)'
    BY <2>1, <2>5
  <2> QED
    BY <2>6, <2>7 DEF Layers
<1>2. ASSUME NEW t \in Threads, Destroy(t)
      PROVE  Layers'
  <2>n. PICK n \in Nat : n = Len(masks[t])
    BY ObjectsFacts
  <2>1. /\ n # 0 /\ base' = base
        /\ \A u \in Threads \ {t} : masks'[u] = masks[u]
        /\ Len(masks'[t]) = n - 1
        /\ \A i \in 1..n - 1 : masks'[t][i] = masks[t][i]
    BY <1>2, <2>n, DestroyFacts
  <2>2. ASSUME NEW k \in 0..n - 1
        PROVE  Left(t, k)' = Layer(t, k)'
    <3>1. \A i \in 1..k : masks'[t][i] = masks[t][i]
      BY <2>1
    <3>2. k # 0 => masks'[t][k] = masks[t][k]
      BY <2>1
    <3>3. Left(t, k)' = Left(t, k)
      BY <2>1, <3>2 DEF Left
    <3>4. Layer(t, k)' = Layer(t, k)
      BY <2>1, <3>1 DEF Layer
    <3>5. Left(t, k) = Layer(t, k)
      BY <2>n DEF Layers
    <3> QED
      BY <3>3, <3>4, <3>5
  <2> QED
    BY <2>1, <2>2 DEF Layers, Left, Layer
<1>3. ASSUME NEW t \in Threads, NEW u \in Threads, StartThread(t, u)
      PROVE  Layers'
  <2>1. /\ masks' = masks /\ masks[u] = <<>>
        /\ \A v \in Threads \ {u} : base'[v] = base[v]
    BY <1>3 DEF StartThread, Unstarted, TypeOK
  <2>2. Left(u, 0)' = Layer(u, 0)'
    BY DEF Left, Layer
  <2>3. 0..Len(masks'[u]) = {0}
    BY <2>1
  <2> QED
    BY <2>1, <2>2, <2>3 DEF Layers, Left, Layer
<1>4. ASSUME UNCHANGED <<masks, base>>
      PROVE  Layers'
  BY <1>4 DEF Layers, Left, Layer
<1>5. ASSUME NEW t \in Threads,
             \/ \E list \in Lists : Construct(t, list)
             \/ Refuse(t) \/ TestDefined(t) \/ Define(t) \/ Dlsym(t)
      PROVE  UNCHANGED <<masks, base>>
  BY <1>5 DEF Construct, Refuse, TestDefined, Define, Dlsym
<1>6. CASE UNCHANGED vars
  BY <1>4, <1>6 DEF vars
<1> QED
  BY <1>1, <1>2, <1>3, <1>4, <1>5, <1>6 DEF Next

(***************************************************************************)
(* Every layer is what it should be, whatever the program does.            *)
(***************************************************************************)
LEMMA LayersInvariant == Spec => []Layers
<1>1. Init => Layers
  BY DEF Init, Layers, Left, Layer
<1>2. TypeOK /\ ValidSets /\ (Unstarted /\ SavedChain) /\ Layers /\ [Next]_vars => Layers'
  BY LayersStep
<1> QED
  BY <1>1, <1>2, TypeCorrect, ChainInvariant, PTL DEF Spec

(***************************************************************************)
(* The scopes of a thread are a sequence of sets of signals.               *)
(***************************************************************************)
LEMMA ScopesOfFacts ==
  ASSUME TypeOK, NEW t \in Threads
  PROVE  /\ ScopesOf(t) \in Seq(SUBSET Signals)
         /\ Len(ScopesOf(t)) = Len(masks[t])
<1>1. PICK n \in Nat : n = Len(masks[t])
  BY ObjectsFacts
<1>2. /\ DOMAIN masks[t] = 1..n
      /\ \A i \in 1..n : masks[t][i].blocked \in SUBSET Signals
  <2>1. DOMAIN masks[t] = 1..n /\ \A i \in 1..n : masks[t][i] \in Objects
    BY <1>1, ObjectsFacts, ElementOfSeq
  <2> QED
    BY <2>1 DEF Objects
<1>3. ScopesOf(t) \in [1..n -> SUBSET Signals]
  BY <1>2 DEF ScopesOf
<1>4. ScopesOf(t) \in Seq(SUBSET Signals)
  BY <1>3, SeqDef
<1>5. DOMAIN ScopesOf(t) = 1..n /\ DOMAIN ScopesOf(t) = 1..Len(ScopesOf(t))
  BY <1>3, <1>4, LenProperties
<1>6. Len(ScopesOf(t)) = n
  BY <1>4, <1>5, LenProperties
<1> QED
  BY <1>1, <1>4, <1>6

LEMMA BlockOpensScope ==
  ASSUME TypeOK, TypeOK', ValidSets, SetsFromLists, NEW t \in Threads, Block(t)
  PROVE  Scopes!Open(t)
<1>n. PICK n \in Nat : n = Len(masks[t])
  BY ObjectsFacts
<1>1. /\ pc[t] = "block" /\ pc' = [pc EXCEPT ![t] = "idle"] /\ base' = base
      /\ mask' = [mask EXCEPT ![t] = mask[t] \cup (set[t] \ Unblockable)]
      /\ \A u \in Threads \ {t} : masks'[u] = masks[u]
      /\ Len(masks'[t]) = n + 1 /\ DOMAIN masks'[t] = 1..n + 1
      /\ masks'[t][n + 1].blocked = set[t] \ Unblockable
      /\ \A i \in 1..n : masks'[t][i] = masks[t][i]
  BY <1>n, BlockFacts
<1>2. PICK l \in Lists : l \subseteq Signals /\ set[t] \ Unblockable = Effective(l)
  BY <1>1, BlockedIsEffective
<1>3. {u \in Threads : pc[u] # "none"}' = {u \in Threads : pc[u] # "none"}
  BY <1>1 DEF TypeOK
<1>4. ScopesOf(t)' = Append(ScopesOf(t), Effective(l))
  <2> DEFINE e == Effective(l)
  <2>1. e \in SUBSET Signals
    BY <1>2, ConstantsAssumption DEF TypeOK, ValidSets, Effective, Requested
  <2>2. ScopesOf(t) \in Seq(SUBSET Signals) /\ Len(ScopesOf(t)) = n
    BY <1>n, ScopesOfFacts
  <2>3. ScopesOf(t)' \in Seq(SUBSET Signals) /\ Len(ScopesOf(t)') = n + 1
    <3>1. (ScopesOf(t) \in Seq(SUBSET Signals) /\ Len(ScopesOf(t)) = Len(masks[t]))'
      BY ScopesOfFacts, PTL
    <3> QED
      BY <1>1, <3>1
  <2>4. ScopesOf(t)'[n + 1] = e
    <3>1. n + 1 \in DOMAIN masks'[t]
      BY <1>1
    <3>2. ScopesOf(t)'[n + 1] = masks'[t][n + 1].blocked
      BY <3>1 DEF ScopesOf
    <3> QED
      BY <1>1, <1>2, <3>2
  <2>5. \A i \in 1..n : ScopesOf(t)'[i] = ScopesOf(t)[i]
    <3>1. /\ DOMAIN masks[t] = 1..n
          /\ \A i \in 1..n : i \in DOMAIN masks'[t] /\ masks'[t][i] = masks[t][i]
      BY <1>n, <1>1, ObjectsFacts
    <3> QED
      BY <3>1 DEF ScopesOf
  <2> HIDE DEF e
  <2>6. /\ Append(ScopesOf(t), e) \in Seq(SUBSET Signals)
        /\ Len(Append(ScopesOf(t), e)) = n + 1
        /\ Append(ScopesOf(t), e)[n + 1] = e
        /\ \A i \in 1..n : Append(ScopesOf(t), e)[i] = ScopesOf(t)[i]
    BY <2>1, <2>2
  <2>7. \A i \in 1..n + 1 : ScopesOf(t)'[i] = Append(ScopesOf(t), e)[i]
    BY <2>4, <2>5, <2>6
  <2>8. ScopesOf(t)' = Append(ScopesOf(t), e)
    BY <2>3, <2>6, <2>7, SeqEqual
  <2> QED
    BY <2>8 DEF e
<1>5. \A u \in Threads \ {t} : ScopesOf(u)' = ScopesOf(u)
  BY <1>1 DEF ScopesOf
<1>6. [u \in Threads |-> ScopesOf(u)]'
        = [[u \in Threads |-> ScopesOf(u)] EXCEPT ![t] = Append(@, Effective(l))]
  BY <1>4, <1>5
<1>7. t \in {u \in Threads : pc[u] # "none"}
  BY <1>1
<1>8. PICK S \in {Effective(list) : list \in {k \in Lists : k \subseteq Signals}} :
        S = Effective(l)
  BY <1>2
<1>9. mask' = [mask EXCEPT ![t] = mask[t] \cup S]
  BY <1>1, <1>2, <1>8
<1>10. [u \in Threads |-> [i \in DOMAIN masks[u] |-> masks[u][i].blocked]]'
         = [[u \in Threads |-> [i \in DOMAIN masks[u] |-> masks[u][i].blocked]]
              EXCEPT ![t] = Append(@, S)]
  BY <1>6, <1>8 DEF ScopesOf
<1> QED
  BY <1>1, <1>3, <1>7, <1>9, <1>10 DEF Scopes!Open

(***************************************************************************)
(* The destructor closes the innermost scope: the mask it puts back is     *)
(* the layer below, made of what the remaining scopes block.               *)
(***************************************************************************)
LEMMA DestroyClosesScope ==
  ASSUME TypeOK, TypeOK', SavedChain, Layers, NEW t \in Threads, Destroy(t)
  PROVE  Scopes!Close(t)
<1>n. PICK n \in Nat : n = Len(masks[t])
  BY ObjectsFacts
<1>1. /\ n # 0 /\ pc[t] = "idle" /\ pc' = pc /\ base' = base
      /\ mask' = [mask EXCEPT ![t] = masks[t][n].saved]
      /\ \A u \in Threads \ {t} : masks'[u] = masks[u]
      /\ Len(masks'[t]) = n - 1 /\ DOMAIN masks'[t] = 1..n - 1
      /\ \A i \in 1..n - 1 : masks'[t][i] = masks[t][i]
  BY <1>n, DestroyFacts
<1> DEFINE s == ScopesOf(t)
<1> DEFINE rest == SubSeq(s, 1, Len(s) - 1)
<1>2. s \in Seq(SUBSET Signals) /\ Len(s) = n /\ s # <<>>
  <2>1. s \in Seq(SUBSET Signals) /\ Len(s) = n
    BY <1>n, ScopesOfFacts
  <2> HIDE DEF s
  <2> QED
    BY <1>1, <2>1
<1>3. /\ rest \in Seq(SUBSET Signals) /\ Len(rest) = n - 1 /\ DOMAIN rest = 1..n - 1
      /\ \A i \in 1..n - 1 : rest[i] = s[i]
  <2> HIDE DEF s
  <2>1. /\ rest \in Seq(SUBSET Signals) /\ Len(rest) = n - 1
        /\ \A i \in 1..n - 1 : rest[i] = s[i]
    BY <1>2, FrontFacts
  <2> HIDE DEF rest
  <2> QED
    BY <2>1, LenProperties
<1>4. \A i \in 1..n - 1 : s[i] = masks[t][i].blocked
  <2>1. \A i \in 1..n - 1 : i \in DOMAIN masks[t]
    BY <1>n, ObjectsFacts
  <2> QED
    BY <2>1 DEF ScopesOf
<1>5. ScopesOf(t)' = rest
  <2>1. ScopesOf(t)' \in Seq(SUBSET Signals) /\ Len(ScopesOf(t)') = n - 1
    <3>1. (ScopesOf(t) \in Seq(SUBSET Signals) /\ Len(ScopesOf(t)) = Len(masks[t]))'
      BY ScopesOfFacts, PTL
    <3> QED
      BY <1>1, <3>1
  <2>2. \A i \in 1..n - 1 : ScopesOf(t)'[i] = masks'[t][i].blocked
    BY <1>1 DEF ScopesOf
  <2>3. \A i \in 1..n - 1 : ScopesOf(t)'[i] = rest[i]
    BY <1>1, <1>3, <1>4, <2>2
  <2> HIDE DEF rest
  <2> QED
    BY <1>3, <2>1, <2>3, SeqEqual
<1>6. masks[t][n].saved = base[t] \cup UNION {rest[i] : i \in DOMAIN rest}
  <2>1. n \in DOMAIN masks[t]
    BY <1>n, <1>1, ObjectsFacts
  <2>2. n - 1 \in 0..Len(masks[t])
    BY <1>n, <1>1
  <2>3. masks[t][n].saved = Layer(t, n - 1)
    BY <2>1, <2>2 DEF SavedChain, Layers
  <2>4. \A i \in 1..n - 1 : rest[i] = masks[t][i].blocked
    BY <1>3, <1>4
  <2> HIDE DEF rest
  <2> QED
    BY <1>3, <2>3, <2>4 DEF Layer
<1>7. [u \in Threads |-> [i \in DOMAIN masks[u] |-> masks[u][i].blocked]]'
        = [[u \in Threads |-> [i \in DOMAIN masks[u] |-> masks[u][i].blocked]]
             EXCEPT ![t] = rest]
  <2>1. \A u \in Threads \ {t} : ScopesOf(u)' = ScopesOf(u)
    BY <1>1 DEF ScopesOf
  <2>2. [u \in Threads |-> ScopesOf(u)]' = [[u \in Threads |-> ScopesOf(u)] EXCEPT ![t] = rest]
    <3> HIDE DEF rest
    <3> QED
      BY <1>5, <2>1
  <2> QED
    BY <2>2 DEF ScopesOf
<1>8. mask' = [mask EXCEPT ![t] = base[t] \cup UNION {rest[i] : i \in DOMAIN rest}]
  BY <1>1, <1>6
<1>9. [u \in Threads |-> [i \in DOMAIN masks[u] |-> masks[u][i].blocked]][t] = s
  BY DEF ScopesOf
<1>10. UNCHANGED <<{u \in Threads : pc[u] # "none"}, base>>
  BY <1>1
<1> DEFINE all == [u \in Threads |-> [i \in DOMAIN masks[u] |-> masks[u][i].blocked]]
<1>11. all[t] # <<>> /\ rest = SubSeq(all[t], 1, Len(all[t]) - 1)
  <2> HIDE DEF s, all
  <2> QED
    BY <1>2, <1>9 DEF all
<1> DEFINE below == SubSeq(all[t], 1, Len(all[t]) - 1)
<1>12. /\ all[t] # <<>>
       /\ all' = [all EXCEPT ![t] = below]
       /\ mask' = [mask EXCEPT ![t] = base[t] \cup UNION {below[i] : i \in DOMAIN below}]
  <2>1. rest = below
    BY <1>11
  <2> HIDE DEF rest, below
  <2>2. all' = [all EXCEPT ![t] = below]
    BY <1>7, <2>1, Zenon
  <2>3. mask' = [mask EXCEPT ![t] = base[t] \cup UNION {below[i] : i \in DOMAIN below}]
    BY <1>8, <2>1, Zenon
  <2> QED
    BY <1>11, <2>2, <2>3, Zenon
<1> QED
  BY <1>10, <1>12, Zenon DEF Scopes!Close

LEMMA StartStartsThread ==
  ASSUME TypeOK, NEW t \in Threads, NEW u \in Threads, StartThread(t, u)
  PROVE  Scopes!Start(t, u)
<1>1. /\ pc[t] = "idle" /\ pc[u] = "none" /\ pc' = [pc EXCEPT ![u] = "idle"]
      /\ mask' = [mask EXCEPT ![u] = mask[t]]
      /\ base' = [base EXCEPT ![u] = mask[t]]
      /\ masks' = masks
  BY DEF StartThread
<1>2. /\ t \in {v \in Threads : pc[v] # "none"} /\ u \notin {v \in Threads : pc[v] # "none"}
      /\ {v \in Threads : pc[v] # "none"}' = {v \in Threads : pc[v] # "none"} \cup {u}
  BY <1>1 DEF TypeOK
<1> QED
  BY <1>1, <1>2 DEF Scopes!Start

LEMMA InitOfScopes == Init => Scopes!Init
<1> SUFFICES ASSUME Init
             PROVE  Scopes!Init
  OBVIOUS
<1>1. {t \in Threads : pc[t] # "none"} = {Main}
  BY ConstantsAssumption DEF Init
<1>2. [t \in Threads |-> [i \in DOMAIN masks[t] |-> masks[t][i].blocked]]
        = [t \in Threads |-> <<>>]
  <2>1. \A t \in Threads : masks[t] = <<>>
    BY DEF Init
  <2>2. ASSUME NEW t \in Threads
        PROVE  ScopesOf(t) = <<>>
    <3>1. DOMAIN masks[t] = 1..0
      BY <2>1
    <3>2. ScopesOf(t) \in [1..0 -> {}]
      BY <3>1 DEF ScopesOf
    <3>3. ScopesOf(t) \in Seq({}) /\ Len(ScopesOf(t)) = 0
      BY <3>2, SeqDef, LenProperties
    <3> QED
      BY <3>3, EmptySeq
  <2> QED
    BY <2>2 DEF ScopesOf
<1>3. mask = base /\ \E m \in Inherited : base = [t \in Threads |-> IF t = Main THEN m ELSE {}]
  BY DEF Init
<1> QED
  BY <1>1, <1>2, <1>3 DEF Scopes!Init

(***************************************************************************)
(* A step of the code is a step of the scopes or changes nothing of them.  *)
(***************************************************************************)
LEMMA NextOfScopes ==
  ASSUME TypeOK, TypeOK', ValidSets, SetsFromLists, SavedChain, Layers, [Next]_vars
  PROVE  [Scopes!Next]_(Scopes!vars)
<1>1. ASSUME NEW t \in Threads, Block(t)
      PROVE  Scopes!Next
  BY <1>1, BlockOpensScope DEF Scopes!Next
<1>2. ASSUME NEW t \in Threads, Destroy(t)
      PROVE  Scopes!Next
  BY <1>2, DestroyClosesScope DEF Scopes!Next
<1>3. ASSUME NEW t \in Threads, NEW u \in Threads, StartThread(t, u)
      PROVE  Scopes!Next
  BY <1>3, StartStartsThread DEF Scopes!Next
<1>4. ASSUME UNCHANGED <<masks, mask, base>>,
             \A t \in Threads : pc'[t] = "none" <=> pc[t] = "none"
      PROVE  UNCHANGED Scopes!vars
  BY <1>4 DEF Scopes!vars
<1>5. ASSUME NEW t \in Threads, NEW list \in Lists, Construct(t, list)
      PROVE  UNCHANGED Scopes!vars
  BY <1>4, <1>5 DEF Construct, TypeOK
<1>6. ASSUME NEW t \in Threads, Refuse(t)
      PROVE  UNCHANGED Scopes!vars
  BY <1>4, <1>6 DEF Refuse, TypeOK
<1>7. ASSUME NEW t \in Threads, TestDefined(t)
      PROVE  UNCHANGED Scopes!vars
  BY <1>4, <1>7 DEF TestDefined, Answer, TypeOK
<1>8. ASSUME NEW t \in Threads, Dlsym(t)
      PROVE  UNCHANGED Scopes!vars
  BY <1>4, <1>8 DEF Dlsym, Answer, TypeOK
<1>9. ASSUME NEW t \in Threads, Define(t)
      PROVE  UNCHANGED Scopes!vars
  BY <1>4, <1>9 DEF Define, TypeOK
<1>10. CASE UNCHANGED vars
  BY <1>4, <1>10 DEF vars
<1> QED
  BY <1>1, <1>2, <1>3, <1>5, <1>6, <1>7, <1>8, <1>9, <1>10 DEF Next

(***************************************************************************)
(* When has_sanitizer() is called before any thread is started, the        *)
(* objects of scoped_signal_mask.cpp implement scopes: at all times a      *)
(* thread blocks what it started with and what its live objects ask for.   *)
(***************************************************************************)
THEOREM ImplementsScopesCorrect ==
  ASSUME ProbeFirst
  PROVE  Spec => ImplementsScopes
<1>1. Init => Scopes!Init
  BY InitOfScopes
<1>2. /\ TypeOK /\ ValidSets /\ (TypeOK /\ ValidSets)' /\ AnswerKnown /\ SetsFromLists
      /\ Unstarted /\ SavedChain /\ Layers /\ [Next]_vars
      => [Scopes!Next]_(Scopes!vars)
  BY NextOfScopes
<1> QED
  BY <1>1, <1>2, TypeCorrect, AnswerInvariant, ChainInvariant, LayersInvariant, PTL
     DEF Spec, ImplementsScopes, Scopes!Spec
=============================================================================
