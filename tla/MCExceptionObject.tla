-------------------------- MODULE MCExceptionObject --------------------------
(* Model values of ExceptionObject: a message with a '\0' inside, and      *)
(* handlers of the bases of a class, by reference and by value.            *)
EXTENDS ExceptionObject

MCMessages == {<<"left", "NUL", "right">>}

Ref(type)   == [type |-> type, byValue |-> FALSE]
Value(type) == [type |-> type, byValue |-> TRUE]

MCTries == {<<Ref("logic_exception_t"), Ref("exception_base_t"), Ref("std::exception")>>,
            <<Ref("failure"), Ref("std::exception"), Ref("exception_base_t")>>,
            <<Value("exception_base_t"), Ref("exception_t"), Ref("std::exception")>>,
            <<Value("std::logic_error"), Value("std::exception"), Ref("exception_base_t")>>,
            <<Value("detail"), Value("failure"), Ref("std::runtime_error")>>}
=============================================================================
