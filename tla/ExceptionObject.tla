--------------------------- MODULE ExceptionObject ---------------------------
(***************************************************************************)
(* What becomes of an exception of libexcept (exception.cpp, exception.h)  *)
(* between its construction and the handler that ends it: it is given      *)
(* parameters, copied by throw, sliced to the static type of the           *)
(* expression thrown or of a handler that takes it by value, caught,       *)
(* completed and thrown again, while any allocation may fail.  The stack   *)
(* trace it carries is the matter of Exception.                            *)
(***************************************************************************)
EXTENDS Naturals, Sequences

CONSTANTS Words,     \* the words of messages, "NUL" for '\0' and "COLON" for ": " among them
          Messages,  \* the messages given: sequences of words
          Names,     \* the names of parameters, "" among them
          Values,    \* their values
          Tries,     \* the handlers around the code, the innermost first
          MaxSets    \* a bound on the parameters given to an object

\* Classes declared with the macros: the fixme of the library, and one for each of
\* the other macros, DECLARE_EXCEPTION(failure, detail) among them.
Declared == {"fixme", "bounds", "failure", "detail"}

\* The exceptions of the C++ library among the types thrown or caught.
Std == {"std::exception", "std::logic_error", "std::out_of_range", "std::runtime_error",
        "std::bad_alloc"}

\* All of these types.
Types == Std \cup Declared
             \cup {"exception_base_t", "logic_exception_t", "out_of_range_t", "exception_t"}

ASSUME ConstantsAssumption ==
  /\ Messages \subseteq Seq(Words)
  /\ Tries \subseteq Seq([type : Types \ {"std::bad_alloc"}, byValue : BOOLEAN])
  /\ MaxSets \in Nat

\* What the exceptions of the C++ library derive from ...
StdBases(type) == CASE type = "std::exception"    -> {}
                    [] type = "std::out_of_range" -> {"std::logic_error"}
                    [] OTHER                      -> {"std::exception"}

\* ... what those of libexcept do ...
logic_exception_t_bases == {"std::logic_error", "exception_base_t"}
out_of_range_t_bases == {"std::out_of_range", "exception_base_t"}

\* Mutant of exception_t_bases: only the library's base class.
exception_t_bases_NotStd == {"exception_base_t"}

exception_t_bases == {"std::runtime_error", "exception_base_t"}

\* ... and what each type does.
Bases(type) == CASE type \in Std               -> StdBases(type)
                 [] type = "exception_base_t"  -> {}
                 [] type = "logic_exception_t" -> logic_exception_t_bases
                 [] type = "out_of_range_t"    -> out_of_range_t_bases
                 [] type = "exception_t"       -> exception_t_bases
                 [] type = "fixme"             -> {"logic_exception_t"}
                 [] type = "bounds"            -> {"out_of_range_t"}
                 [] type = "failure"           -> {"exception_t"}
                 [] type = "detail"            -> {"failure"}

\* Types with those they derive from; four times leads from any type to the top.
WithBases(S) == S \cup UNION {Bases(type) : type \in S}

\* A type with all the types it derives from.
Is(type) == WithBases(WithBases(WithBases(WithBases({type}))))

-----------------------------------------------------------------------------
\* what.c_str(): the characters before the first '\0'.
c_str(what) ==
  LET ends == {i \in DOMAIN what : what[i] = "NUL"}
  IN  IF ends = {} THEN what
      ELSE SubSeq(what, 1, (CHOOSE i \in ends : \A j \in ends : i <= j) - 1)

\* f_parameters of a new object.
NoParameters == [name \in {} |-> ""]

\* The implicit members of exception_base_t, with the history of an object: the
\* parameters it was given, how it was made, whether it was ever sliced.
Object(type, text, message) ==
  [type |-> type, text |-> text, parameters |-> NoParameters, log |-> <<>>,
   origin |-> [type |-> type, message |-> message], sliced |-> FALSE]

\* The constructors and the text that what() gives back.
logic_exception_t(what) == c_str(what)
out_of_range_t(what) == c_str(what)
exception_t(what) == c_str(what)

\* The classes the macros declare.
DECLARE_LOGIC_ERROR(name, msg) == logic_exception_t(<<name, "COLON">> \o msg)
DECLARE_OUT_OF_RANGE(name, msg) == out_of_range_t(<<name, "COLON">> \o msg)
DECLARE_MAIN_EXCEPTION(name, msg) == exception_t(<<name, "COLON">> \o msg)

\* Mutant of DECLARE_EXCEPTION: the name is put in front of the one of the base.
DECLARE_EXCEPTION_Prefixed(base, name, msg) ==
  DECLARE_MAIN_EXCEPTION(base, <<name, "COLON">> \o msg)

DECLARE_EXCEPTION(base, name, msg) == DECLARE_MAIN_EXCEPTION(base, msg)

\* The text of a new exception, by its class.
Text(type, msg) == CASE type = "logic_exception_t" -> logic_exception_t(msg)
                     [] type = "out_of_range_t"    -> out_of_range_t(msg)
                     [] type = "exception_t"       -> exception_t(msg)
                     [] type = "fixme"             -> DECLARE_LOGIC_ERROR("fixme", msg)
                     [] type = "bounds"            -> DECLARE_OUT_OF_RANGE("bounds", msg)
                     [] type = "failure"           -> DECLARE_MAIN_EXCEPTION("failure", msg)
                     [] type = "detail"            -> DECLARE_EXCEPTION("failure", "detail", msg)

\* The classes the program constructs.
Constructible == Declared \cup {"logic_exception_t", "out_of_range_t", "exception_t"}

\* The value of a parameter; "" when there is none.
get_parameter(o, name) == IF name \in DOMAIN o.parameters THEN o.parameters[name] ELSE ""

\* The object with f_parameters[name] = value.
With(o, name, value) ==
  [o EXCEPT !.parameters =
     [n \in DOMAIN o.parameters \cup {name} |-> IF n = name THEN value ELSE o.parameters[n]]]

\* Mutant of set_parameter: the first value of a name is kept, as by insert().
set_parameter_Insert(o, name, value) ==
  IF name = "" \/ name \in DOMAIN o.parameters THEN o ELSE With(o, name, value)

\* Mutant of set_parameter: the empty name is a name.
set_parameter_Unnamed(o, name, value) == With(o, name, value)

\* The object after a set_parameter() that succeeds.
set_parameter(o, name, value) == IF name = "" THEN o ELSE With(o, name, value)

\* A std::bad_alloc in it: the name may be there already, with an empty value.
set_parameter_fails(o, name) ==
  IF name = "" \/ name \in DOMAIN o.parameters THEN {o} ELSE {o, With(o, name, "")}

\* The object of static type type made from o by the implicit copy constructor: what
\* the type does not have is gone.
Sliced(o, type) ==
  LET kept == [o EXCEPT !.type = type, !.sliced = @ \/ type # o.type]
      base == IF "exception_base_t" \in Is(type) THEN kept
              ELSE [kept EXCEPT !.parameters = NoParameters]
  IN  IF type \in {"std::exception", "exception_base_t"} THEN [base EXCEPT !.text = <<>>]
      ELSE base

\* What the allocator throws, and no object at all.
BadAlloc == Object("std::bad_alloc", <<>>, <<>>)
None == Object("std::exception", <<>>, <<>>)

-----------------------------------------------------------------------------
VARIABLES
  pc,        \* what the thread does
  handlers,  \* the handlers around it
  local,     \* the object it prepares
  flying,    \* the exception object
  variable,  \* the variable of the handler entered: its type, whether it is a copy, and the copy
  passed     \* history: the types of the handlers the exception object flew past

vars == <<pc, handlers, local, flying, variable, passed>>

\* No handler is entered.
NoVariable == [type |-> "std::exception", byValue |-> FALSE, copy |-> None]

Init ==
  /\ pc = "running"
  /\ handlers \in Tries
  /\ local = None /\ flying = None
  /\ variable = NoVariable
  /\ passed = {}

\* The program constructs an exception.
Construct(type, msg) ==
  /\ pc = "running"
  /\ local' = Object(type, Text(type, msg), msg)
  /\ pc' = "preparing"
  /\ UNCHANGED <<handlers, flying, variable, passed>>

\* An exception object starts to look for a handler.
Fly(o) ==
  /\ pc' = "flying"
  /\ flying' = o
  /\ passed' = {}
  /\ local' = None
  /\ variable' = NoVariable

\* The object the code can name: the one it prepares, or the one it has caught.
Named == IF pc = "preparing" THEN local ELSE IF variable.byValue THEN variable.copy ELSE flying

\* The static type of that name.
Static == IF pc = "preparing" THEN local.type ELSE variable.type

\* That object becomes o.
Update(o) ==
  IF pc = "preparing" THEN local' = o /\ UNCHANGED <<flying, variable>>
  ELSE IF variable.byValue
       THEN variable' = [variable EXCEPT !.copy = o] /\ UNCHANGED <<local, flying>>
       ELSE flying' = o /\ UNCHANGED <<local, variable>>

\* The code can call set_parameter() on it.
HasParameters == pc \in {"preparing", "handling"} /\ "exception_base_t" \in Is(Static)

\* The object as set_parameter() leaves it.
Set(name, value) ==
  [set_parameter(Named, name, value) EXCEPT
     !.log = Append(@, [name |-> name, value |-> value])]

\* set_parameter() ...
SetParameter(name, value) ==
  /\ HasParameters
  /\ Len(Named.log) < MaxSets
  /\ Update(Set(name, value))
  /\ UNCHANGED <<pc, handlers, passed>>

\* ... and when it runs out of memory, and the code goes on.
SetParameterFails(name) ==
  /\ HasParameters
  /\ \E o \in set_parameter_fails(Named, name) : Update(o)
  /\ UNCHANGED <<pc, handlers, passed>>

\* throw e;
Throw ==
  /\ pc \in {"preparing", "handling"}
  /\ Fly(Sliced(Named, Static))
  /\ UNCHANGED handlers

\* throw e.set_parameter(name, value); of static type exception_base_t.
ThrowSet(name, value) ==
  /\ HasParameters
  /\ Len(Named.log) < MaxSets
  /\ Fly(Sliced(Set(name, value), "exception_base_t"))
  /\ UNCHANGED handlers

\* A std::bad_alloc: an exception_base_t cannot be constructed, completed or copied.
OutOfMemory ==
  /\ pc = "running" \/ HasParameters
  /\ Fly(BadAlloc)
  /\ UNCHANGED handlers

\* throw;
Rethrow ==
  /\ pc = "handling"
  /\ Fly(flying)
  /\ UNCHANGED handlers

\* The innermost handler does not match ...
FlyPast ==
  /\ pc = "flying"
  /\ handlers # <<>>
  /\ Head(handlers).type \notin Is(flying.type)
  /\ passed' = passed \cup {Head(handlers).type}
  /\ handlers' = Tail(handlers)
  /\ UNCHANGED <<pc, local, flying, variable>>

\* ... or does, and takes the exception object itself or a copy.
Catch ==
  /\ pc = "flying"
  /\ handlers # <<>>
  /\ Head(handlers).type \in Is(flying.type)
  /\ variable' = [type |-> Head(handlers).type, byValue |-> Head(handlers).byValue,
                  copy |-> IF Head(handlers).byValue
                           THEN Sliced(flying, Head(handlers).type) ELSE None]
  /\ handlers' = Tail(handlers)
  /\ pc' = "handling"
  /\ UNCHANGED <<local, flying, passed>>

\* There is no handler, or the copy it takes cannot be made: std::terminate().
Terminate ==
  /\ pc = "flying"
  /\ handlers # <<>> =>
       /\ Head(handlers).byValue
       /\ Head(handlers).type \in Is(flying.type)
       /\ "exception_base_t" \in Is(Head(handlers).type)
  /\ pc' = "terminated"
  /\ UNCHANGED <<handlers, local, flying, variable, passed>>

\* The end of the handler.
Handled ==
  /\ pc = "handling"
  /\ pc' = "running"
  /\ flying' = None
  /\ variable' = NoVariable
  /\ passed' = {}
  /\ UNCHANGED <<handlers, local>>

Next ==
  \/ \E type \in Constructible, msg \in Messages : Construct(type, msg)
  \/ \E name \in Names : \/ SetParameterFails(name)
                         \/ \E value \in Values : SetParameter(name, value)
                                                  \/ ThrowSet(name, value)
  \/ Throw \/ OutOfMemory \/ Rethrow \/ FlyPast \/ Catch \/ Terminate \/ Handled

Spec == Init /\ [][Next]_vars
-----------------------------------------------------------------------------
\* Every object the model can hold.
Objects == [type : Types, text : Seq(Words \cup Declared \cup {"COLON"}),
            parameters : UNION {[N -> Values \cup {""}] : N \in SUBSET (Names \ {""})},
            log : Seq([name : Names, value : Values]),
            origin : [type : Types, message : Seq(Words)], sliced : BOOLEAN]

TypeOK ==
  /\ pc \in {"running", "preparing", "flying", "handling", "terminated"}
  /\ handlers \in Seq([type : Types, byValue : BOOLEAN])
  /\ local \in Objects /\ flying \in Objects
  /\ variable \in [type : Types, byValue : BOOLEAN, copy : Objects]
  /\ passed \subseteq Types

\* The objects that exist, and those of them with what exception_base_t holds.
Living == {local, flying, variable.copy}
Based == {o \in Living : "exception_base_t" \in Is(o.type)}

\* The value of the last parameter of that name an object was given; "" for none.
LastGiven(log, name, value) ==
  \/ value = "" /\ \A i \in DOMAIN log : log[i].name # name
  \/ \E i \in DOMAIN log : /\ log[i] = [name |-> name, value |-> value]
                          /\ \A j \in DOMAIN log : log[j].name = name => j <= i

(***************************************************************************)
(* get_parameter() of exception.cpp gives the last value set_parameter()   *)
(* was given for the name, whichever copy of the object was completed,     *)
(* thrown or caught since, and a set_parameter() that runs out of memory   *)
(* changes nothing of that.                                                *)
(***************************************************************************)
LastValueWins ==
  \A o \in Based : \A name \in Names \ {""} : LastGiven(o.log, name, get_parameter(o, name))

\* The prefix of a class, as the tests of catch_exceptions.cpp expect it.
Prefix(type) == CASE type = "fixme"  -> <<"fixme", "COLON">>
                  [] type = "bounds" -> <<"bounds", "COLON">>
                  [] type \in {"failure", "detail"} -> <<"failure", "COLON">>
                  [] OTHER -> <<>>

(***************************************************************************)
(* what() of exception.cpp gives the message up to its first '\0', behind  *)
(* the name of the class that DECLARE_... made first and behind no other,  *)
(* in every object that still has a message of its own.                    *)
(***************************************************************************)
MessageKept ==
  \A o \in Living :
    o.type \notin {"std::exception", "std::bad_alloc", "exception_base_t"} =>
      LET message == o.origin.message
      IN  \E n \in 0..Len(message) :
            /\ o.text = Prefix(o.origin.type) \o SubSeq(message, 1, n)
            /\ \A i \in 1..n : message[i] # "NUL"
            /\ n < Len(message) => message[n + 1] = "NUL"

(***************************************************************************)
(* An exception of libexcept is both a std::exception and an               *)
(* exception_base_t: handlers of neither type let it fly past, unless it   *)
(* was sliced, as by throw e.set_parameter(...), which exception.cpp:381   *)
(* makes a throw of exception_base_t.                                      *)
(***************************************************************************)
NeverPassedOver ==
  passed \cap {"std::exception", "exception_base_t"} # {} =>
    flying.sliced \/ flying.type = "std::bad_alloc"
=============================================================================
