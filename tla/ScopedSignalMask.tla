-------------------------- MODULE ScopedSignalMask ---------------------------
(***************************************************************************)
(* The scoped_signal_mask objects of the threads of a process and          *)
(* has_sanitizer() (libexcept/scoped_signal_mask.cpp).  sigprocmask() acts *)
(* on the mask of the thread that calls it; a thread inherits the mask of  *)
(* its creator.                                                            *)
(***************************************************************************)
EXTENDS Naturals, Sequences

CONSTANTS Threads, Main,  \* the threads, and the one that runs main()
          Signals,        \* the signals sigfillset() adds
          Unblockable,    \* SIGKILL and SIGSTOP, which the kernel never blocks
          Incompatible,   \* g_incompatible_signals
          Inherited,      \* the masks the process may start with
          Lists,          \* the block_signals passed; {} stands for the empty list
          Sanitizer,      \* whether __lsan_enable is linked in
          ProbeFirst,     \* has_sanitizer() is called before any thread is started
          MaxMasks        \* a bound on the objects of a thread

ASSUME ConstantsAssumption ==
  /\ Main \in Threads
  /\ Unblockable \subseteq Signals
  /\ Inherited \subseteq SUBSET (Signals \ Unblockable)
  /\ Sanitizer \in BOOLEAN /\ ProbeFirst \in BOOLEAN
  /\ MaxMasks \in Nat

VARIABLES
  pc,        \* where each thread is; "none" before it starts
  set,       \* the local set of its constructor
  masks,     \* its live objects: what sigprocmask() blocked, f_original_mask
  mask,      \* the signals the kernel blocks in it
  base,      \* history: the mask it started with
  defined,   \* g_has_sanitizer_defined
  has        \* g_has_sanitizer

vars == <<pc, set, masks, mask, base, defined, has>>

Init ==
  /\ pc = [t \in Threads |-> IF t = Main THEN "idle" ELSE "none"]
  /\ set = [t \in Threads |-> {}]
  /\ masks = [t \in Threads |-> <<>>]
  /\ \E m \in Inherited : base = [t \in Threads |-> IF t = Main THEN m ELSE {}]
  /\ mask = base
  /\ defined = FALSE
  /\ has = FALSE

-----------------------------------------------------------------------------
\* A thread starts another one, as pthread_create() does.
StartThread(t, u) ==
  /\ pc[t] = "idle" /\ pc[u] = "none"
  /\ ProbeFirst => defined
  /\ pc' = [pc EXCEPT ![u] = "idle"]
  /\ mask' = [mask EXCEPT ![u] = mask[t]]
  /\ base' = [base EXCEPT ![u] = mask[t]]
  /\ UNCHANGED <<set, masks, defined, has>>

\* Mutant of Requested: an empty list blocks nothing.
Requested_Empty(list) == list

\* The signals asked for: all of them when the list is empty.
Requested(list) == IF list = {} THEN Signals ELSE list

\* The constructor is called: sigfillset() or a loop of sigaddset().
Construct(t, list) ==
  /\ pc[t] = "idle"
  /\ Len(masks[t]) < MaxMasks
  /\ set' = [set EXCEPT ![t] = Requested(list)]
  /\ pc' = [pc EXCEPT ![t] = "list"]
  /\ UNCHANGED <<masks, mask, base, defined, has>>

\* Mutant of Valid: the result of sigaddset() is ignored.
Valid_Ignored(t) == TRUE

\* sigaddset() knows every signal of the set.
Valid(t) == set[t] \subseteq Signals

\* sigaddset() refuses a signal that does not exist, and fixme is thrown.
Refuse(t) ==
  /\ pc[t] = "list"
  /\ ~Valid(t)
  /\ pc' = [pc EXCEPT ![t] = "idle"]
  /\ set' = [set EXCEPT ![t] = {}]
  /\ UNCHANGED <<masks, mask, base, defined, has>>

\* Mutant of Answer: the answer is not used.
Answer_Unused(t, answer) == pc' = [pc EXCEPT ![t] = "block"] /\ UNCHANGED set

\* has_sanitizer() gives answer, and the constructor removes the incompatible
\* signals accordingly.
Answer(t, answer) ==
  /\ set' = [set EXCEPT ![t] = IF answer THEN @ \ Incompatible ELSE @]
  /\ pc' = [pc EXCEPT ![t] = "block"]

\* has_sanitizer() returns the value it finds once the flag is up.  A thread that finds
\* it down raises it ...
TestDefined(t) ==
  /\ pc[t] = "list"
  /\ Valid(t)
  /\ IF defined THEN Answer(t, has)
                ELSE pc' = [pc EXCEPT ![t] = "define"] /\ UNCHANGED set
  /\ UNCHANGED <<masks, mask, base, defined, has>>

Define(t) ==
  /\ pc[t] = "define"
  /\ defined' = TRUE
  /\ pc' = [pc EXCEPT ![t] = "dlsym"]
  /\ UNCHANGED <<set, masks, mask, base, has>>

\* ... and computes the answer afterwards.
Dlsym(t) ==
  /\ pc[t] = "dlsym"
  /\ has' = Sanitizer
  /\ Answer(t, Sanitizer)
  /\ UNCHANGED <<masks, mask, base, defined>>

\* sigprocmask(SIG_BLOCK, &set, &f_original_mask).
Block(t) ==
  /\ pc[t] = "block"
  /\ LET blocked == set[t] \ Unblockable
     IN  /\ masks' = [masks EXCEPT ![t] = Append(@, [blocked |-> blocked, saved |-> mask[t]])]
         /\ mask' = [mask EXCEPT ![t] = @ \cup blocked]
  /\ pc' = [pc EXCEPT ![t] = "idle"]
  /\ set' = [set EXCEPT ![t] = {}]
  /\ UNCHANGED <<base, defined, has>>

\* Mutant of Restored: the destructor unblocks what the constructor blocked.
Restored_Unblocked(t, object) == mask[t] \ object.blocked

\* The mask of sigprocmask(SIG_SETMASK, &f_original_mask, nullptr) in thread t.
Restored(t, object) == object.saved

\* The destructor of an automatic variable, the last one made.
Destroy(t) ==
  /\ pc[t] = "idle"
  /\ masks[t] # <<>>
  /\ LET n == Len(masks[t])
     IN  /\ mask' = [mask EXCEPT ![t] = Restored(t, masks[t][n])]
         /\ masks' = [masks EXCEPT ![t] = SubSeq(@, 1, n - 1)]
  /\ UNCHANGED <<pc, set, base, defined, has>>

Next ==
  \E t \in Threads :
    \/ \E list \in Lists : Construct(t, list)
    \/ Refuse(t) \/ TestDefined(t) \/ Define(t) \/ Dlsym(t) \/ Block(t) \/ Destroy(t)
    \/ \E u \in Threads : StartThread(t, u)

Spec == Init /\ [][Next]_vars

-----------------------------------------------------------------------------
TypeOK ==
  /\ pc \in [Threads -> {"none", "idle", "list", "define", "dlsym", "block"}]
  /\ set \in [Threads -> SUBSET (Signals \cup UNION Lists)]
  /\ masks \in [Threads -> Seq([blocked : SUBSET Signals, saved : SUBSET Signals])]
  /\ mask \in [Threads -> SUBSET Signals]
  /\ base \in [Threads -> SUBSET Signals]
  /\ defined \in BOOLEAN /\ has \in BOOLEAN

\* The signals that a scope made of a valid list blocks.
Effective(list) ==
  (IF list = {} THEN Signals ELSE list) \ (Unblockable \cup IF Sanitizer THEN Incompatible ELSE {})

(***************************************************************************)
(* The objects of scoped_signal_mask.cpp, which only save and put back     *)
(* whole masks, implement scopes: see MaskScopes.  The signals of a scope  *)
(* are blocked as long as its object lives, and they alone besides those   *)
(* the thread started with.                                                *)
(***************************************************************************)
Scopes == INSTANCE MaskScopes WITH
            running <- {t \in Threads : pc[t] # "none"},
            scopes  <- [t \in Threads |-> [i \in DOMAIN masks[t] |-> masks[t][i].blocked]],
            Sets    <- {Effective(list) : list \in {l \in Lists : l \subseteq Signals}}

ImplementsScopes == Scopes!Spec

(***************************************************************************)
(* Each object saved the mask the previous one left, and the mask of the   *)
(* thread is what the last one left: the reason why destroying the objects *)
(* in the reverse order restores every mask of scoped_signal_mask.cpp.     *)
(***************************************************************************)
Left(t, n) == IF n = 0 THEN base[t] ELSE masks[t][n].saved \cup masks[t][n].blocked

SavedChain ==
  \A t \in Threads :
    /\ \A i \in DOMAIN masks[t] : masks[t][i].saved = Left(t, i - 1)
    /\ mask[t] = Left(t, Len(masks[t]))

(***************************************************************************)
(* With the sanitizer, no object of scoped_signal_mask.cpp blocks a signal *)
(* of g_incompatible_signals, in any thread: exception.cpp:128 says that   *)
(* the library is thread safe, and the answer of has_sanitizer() is used   *)
(* only once it is known.                                                  *)
(***************************************************************************)
SanitizerSignalsFree ==
  Sanitizer => \A t \in Threads : \A i \in DOMAIN masks[t] :
                 masks[t][i].blocked \cap Incompatible = {}
=============================================================================
