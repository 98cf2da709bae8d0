------------------------------ MODULE MaskScopes ------------------------------
(***************************************************************************)
(* What scoped signal masks promise: at all times the signals blocked in a *)
(* thread are those it started with and those of the scopes it is in, and  *)
(* a thread starts with what its creator blocks at that moment.            *)
(***************************************************************************)
EXTENDS Naturals, Sequences

CONSTANTS Threads, Main,
          Inherited,      \* the masks the process may start with
          Sets            \* the sets of signals a scope may block

VARIABLES running,  \* the threads that have started
          base,     \* the mask each of them started with
          mask,     \* the signals blocked in each of them
          scopes    \* the sets blocked by the scopes it is in, outermost first

vars == <<running, base, mask, scopes>>

Init == /\ running = {Main}
        /\ \E m \in Inherited : base = [t \in Threads |-> IF t = Main THEN m ELSE {}]
        /\ mask = base
        /\ scopes = [t \in Threads |-> <<>>]

Open(t) == \E S \in Sets :
  /\ t \in running
  /\ scopes' = [scopes EXCEPT ![t] = Append(@, S)]
  /\ mask' = [mask EXCEPT ![t] = @ \cup S]
  /\ UNCHANGED <<running, base>>

Close(t) ==
  /\ scopes[t] # <<>>
  /\ LET rest == SubSeq(scopes[t], 1, Len(scopes[t]) - 1)
     IN  /\ scopes' = [scopes EXCEPT ![t] = rest]
         /\ mask' = [mask EXCEPT ![t] = base[t] \cup UNION {rest[i] : i \in DOMAIN rest}]
  /\ UNCHANGED <<running, base>>

Start(t, u) ==
  /\ t \in running /\ u \notin running
  /\ running' = running \cup {u}
  /\ base' = [base EXCEPT ![u] = mask[t]]
  /\ mask' = [mask EXCEPT ![u] = mask[t]]
  /\ UNCHANGED scopes

Next == \E t \in Threads : Open(t) \/ Close(t) \/ \E u \in Threads : Start(t, u)

Spec == Init /\ [][Next]_vars
=============================================================================
