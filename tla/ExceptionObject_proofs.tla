----------------------- MODULE ExceptionObject_proofs -----------------------
(***************************************************************************)
(* Proofs about ExceptionObject, for any messages, names and values, any   *)
(* handlers and any number of parameters.                                  *)
(***************************************************************************)
EXTENDS ExceptionObject, SequenceTheorems, WellFoundedInduction, TLAPS

(***************************************************************************)
(* The types that each type derives from, itself among them.               *)
(***************************************************************************)
LEMMA IsFacts ==
  /\ Is("std::exception") = {"std::exception"}
  /\ Is("std::logic_error") = {"std::logic_error", "std::exception"}
  /\ Is("std::runtime_error") = {"std::runtime_error", "std::exception"}
  /\ Is("std::bad_alloc") = {"std::bad_alloc", "std::exception"}
  /\ Is("std::out_of_range") = {"std::out_of_range", "std::logic_error", "std::exception"}
  /\ Is("exception_base_t") = {"exception_base_t"}
  /\ Is("logic_exception_t") = {"logic_exception_t"} \cup
       {"std::logic_error", "std::exception", "exception_base_t"}
  /\ Is("out_of_range_t") = {"out_of_range_t"} \cup
       {"std::out_of_range", "std::logic_error", "std::exception", "exception_base_t"}
  /\ Is("exception_t") = {"exception_t"} \cup
       {"std::runtime_error", "std::exception", "exception_base_t"}
  /\ Is("fixme") = {"fixme", "logic_exception_t"} \cup
       {"std::logic_error", "std::exception", "exception_base_t"}
  /\ Is("bounds") = {"bounds", "out_of_range_t"} \cup
       {"std::out_of_range", "std::logic_error", "std::exception", "exception_base_t"}
  /\ Is("failure") = {"failure", "exception_t"} \cup
       {"std::runtime_error", "std::exception", "exception_base_t"}
  /\ Is("detail") = {"detail", "failure", "exception_t"} \cup
       {"std::runtime_error", "std::exception", "exception_base_t"}
<1>1. /\ Bases("std::exception") = {} /\ Bases("exception_base_t") = {}
      /\ Bases("std::logic_error") = {"std::exception"}
      /\ Bases("std::runtime_error") = {"std::exception"}
      /\ Bases("std::bad_alloc") = {"std::exception"}
      /\ Bases("std::out_of_range") = {"std::logic_error"}
      /\ Bases("logic_exception_t") = {"std::logic_error", "exception_base_t"}
      /\ Bases("out_of_range_t") = {"std::out_of_range", "exception_base_t"}
      /\ Bases("exception_t") = {"std::runtime_error", "exception_base_t"}
      /\ Bases("fixme") = {"logic_exception_t"}
      /\ Bases("bounds") = {"out_of_range_t"}
      /\ Bases("failure") = {"exception_t"}
      /\ Bases("detail") = {"failure"}
  BY DEF Bases, Std, StdBases, logic_exception_t_bases, out_of_range_t_bases, exception_t_bases
<1>2. \A S, x : x \in WithBases(S) <=> x \in S \/ \E t \in S : x \in Bases(t)
  BY DEF WithBases
<1>3. Is("std::exception") = {"std::exception"}
  <2>1. WithBases({"std::exception"}) = {"std::exception"}
    BY <1>1, <1>2
  <2> QED
    BY <2>1 DEF Is
<1>4. Is("exception_base_t") = {"exception_base_t"}
  <2>1. WithBases({"exception_base_t"}) = {"exception_base_t"}
    BY <1>1, <1>2
  <2> QED
    BY <2>1 DEF Is
<1>5. Is("std::logic_error") = {"std::logic_error", "std::exception"}
  <2>1. WithBases({"std::logic_error"}) = {"std::logic_error", "std::exception"}
    BY <1>1, <1>2
  <2>2. WithBases({"std::logic_error", "std::exception"}) = {"std::logic_error", "std::exception"}
    BY <1>1, <1>2
  <2> QED
    BY <2>1, <2>2 DEF Is
<1>6. Is("std::runtime_error") = {"std::runtime_error", "std::exception"}
  <2>1. WithBases({"std::runtime_error"}) = {"std::runtime_error", "std::exception"}
    BY <1>1, <1>2
  <2>2. WithBases({"std::runtime_error", "std::exception"}) =
          {"std::runtime_error", "std::exception"}
    BY <1>1, <1>2
  <2> QED
    BY <2>1, <2>2 DEF Is
<1>7. Is("std::bad_alloc") = {"std::bad_alloc", "std::exception"}
  <2>1. WithBases({"std::bad_alloc"}) = {"std::bad_alloc", "std::exception"}
    BY <1>1, <1>2
  <2>2. WithBases({"std::bad_alloc", "std::exception"}) = {"std::bad_alloc", "std::exception"}
    BY <1>1, <1>2
  <2> QED
    BY <2>1, <2>2 DEF Is
<1>8. Is("std::out_of_range") = {"std::out_of_range", "std::logic_error", "std::exception"}
  <2>1. WithBases({"std::out_of_range"}) = {"std::out_of_range", "std::logic_error"}
    BY <1>1, <1>2
  <2>2. WithBases({"std::out_of_range", "std::logic_error"}) =
          {"std::out_of_range", "std::logic_error", "std::exception"}
    BY <1>1, <1>2
  <2>3. WithBases({"std::out_of_range", "std::logic_error", "std::exception"}) =
          {"std::out_of_range", "std::logic_error", "std::exception"}
    BY <1>1, <1>2
  <2> QED
    BY <2>1, <2>2, <2>3 DEF Is
<1>9. Is("logic_exception_t") =
        {"logic_exception_t", "std::logic_error", "exception_base_t", "std::exception"}
  <2>1. WithBases({"logic_exception_t"}) =
          {"logic_exception_t", "std::logic_error", "exception_base_t"}
    BY <1>1, <1>2
  <2>2. WithBases({"logic_exception_t", "std::logic_error", "exception_base_t"}) =
          {"logic_exception_t", "std::logic_error", "exception_base_t", "std::exception"}
    BY <1>1, <1>2
  <2>3. WithBases({"logic_exception_t", "std::logic_error", "exception_base_t",
                     "std::exception"}) =
          {"logic_exception_t", "std::logic_error", "exception_base_t", "std::exception"}
    BY <1>1, <1>2
  <2> QED
    BY <2>1, <2>2, <2>3 DEF Is
<1>10. Is("out_of_range_t") =
        {"out_of_range_t", "std::out_of_range", "exception_base_t",
         "std::logic_error", "std::exception"}
  <2>1. WithBases({"out_of_range_t"}) =
          {"out_of_range_t", "std::out_of_range", "exception_base_t"}
    BY <1>1, <1>2
  <2>2. WithBases({"out_of_range_t", "std::out_of_range", "exception_base_t"}) =
          {"out_of_range_t", "std::out_of_range", "exception_base_t", "std::logic_error"}
    BY <1>1, <1>2
  <2>3. WithBases({"out_of_range_t", "std::out_of_range", "exception_base_t",
                     "std::logic_error"}) =
          {"out_of_range_t", "std::out_of_range", "exception_base_t",
           "std::logic_error", "std::exception"}
    BY <1>1, <1>2
  <2>4. WithBases({"out_of_range_t", "std::out_of_range", "exception_base_t",
                     "std::logic_error", "std::exception"}) =
          {"out_of_range_t", "std::out_of_range", "exception_base_t",
           "std::logic_error", "std::exception"}
    BY <1>1, <1>2
  <2> QED
    BY <2>1, <2>2, <2>3, <2>4 DEF Is
<1>11. Is("exception_t") =
        {"exception_t", "std::runtime_error", "exception_base_t", "std::exception"}
  <2>1. WithBases({"exception_t"}) = {"exception_t", "std::runtime_error", "exception_base_t"}
    BY <1>1, <1>2
  <2>2. WithBases({"exception_t", "std::runtime_error", "exception_base_t"}) =
          {"exception_t", "std::runtime_error", "exception_base_t", "std::exception"}
    BY <1>1, <1>2
  <2>3. WithBases({"exception_t", "std::runtime_error", "exception_base_t", "std::exception"}) =
          {"exception_t", "std::runtime_error", "exception_base_t", "std::exception"}
    BY <1>1, <1>2
  <2> QED
    BY <2>1, <2>2, <2>3 DEF Is
<1>12. Is("fixme") =
        {"fixme", "logic_exception_t", "std::logic_error", "exception_base_t", "std::exception"}
  <2>1. WithBases({"fixme"}) = {"fixme", "logic_exception_t"}
    BY <1>1, <1>2
  <2>2. WithBases({"fixme", "logic_exception_t"}) =
          {"fixme", "logic_exception_t", "std::logic_error", "exception_base_t"}
    BY <1>1, <1>2
  <2>3. WithBases({"fixme", "logic_exception_t", "std::logic_error", "exception_base_t"}) =
          {"fixme", "logic_exception_t", "std::logic_error", "exception_base_t", "std::exception"}
    BY <1>1, <1>2
  <2>4. WithBases({"fixme", "logic_exception_t", "std::logic_error",
                     "exception_base_t", "std::exception"}) =
          {"fixme", "logic_exception_t", "std::logic_error", "exception_base_t", "std::exception"}
    BY <1>1, <1>2
  <2> QED
    BY <2>1, <2>2, <2>3, <2>4 DEF Is
<1>13. Is("bounds") =
        {"bounds", "out_of_range_t", "std::out_of_range",
         "exception_base_t", "std::logic_error", "std::exception"}
  <2>1. WithBases({"bounds"}) = {"bounds", "out_of_range_t"}
    BY <1>1, <1>2
  <2>2. WithBases({"bounds", "out_of_range_t"}) =
          {"bounds", "out_of_range_t", "std::out_of_range", "exception_base_t"}
    BY <1>1, <1>2
  <2>3. WithBases({"bounds", "out_of_range_t", "std::out_of_range", "exception_base_t"}) =
          {"bounds", "out_of_range_t", "std::out_of_range",
           "exception_base_t", "std::logic_error"}
    BY <1>1, <1>2
  <2>4. WithBases({"bounds", "out_of_range_t", "std::out_of_range",
                     "exception_base_t", "std::logic_error"}) =
          {"bounds", "out_of_range_t", "std::out_of_range",
           "exception_base_t", "std::logic_error", "std::exception"}
    BY <1>1, <1>2
  <2> QED
    BY <2>1, <2>2, <2>3, <2>4 DEF Is
<1>14. Is("failure") =
        {"failure", "exception_t", "std::runtime_error", "exception_base_t", "std::exception"}
  <2>1. WithBases({"failure"}) = {"failure", "exception_t"}
    BY <1>1, <1>2
  <2>2. WithBases({"failure", "exception_t"}) =
          {"failure", "exception_t", "std::runtime_error", "exception_base_t"}
    BY <1>1, <1>2
  <2>3. WithBases({"failure", "exception_t", "std::runtime_error", "exception_base_t"}) =
          {"failure", "exception_t", "std::runtime_error", "exception_base_t", "std::exception"}
    BY <1>1, <1>2
  <2>4. WithBases({"failure", "exception_t", "std::runtime_error",
                     "exception_base_t", "std::exception"}) =
          {"failure", "exception_t", "std::runtime_error", "exception_base_t", "std::exception"}
    BY <1>1, <1>2
  <2> QED
    BY <2>1, <2>2, <2>3, <2>4 DEF Is
<1>15. Is("detail") =
        {"detail", "failure", "exception_t",
         "std::runtime_error", "exception_base_t", "std::exception"}
  <2>1. WithBases({"detail"}) = {"detail", "failure"}
    BY <1>1, <1>2
  <2>2. WithBases({"detail", "failure"}) = {"detail", "failure", "exception_t"}
    BY <1>1, <1>2
  <2>3. WithBases({"detail", "failure", "exception_t"}) =
          {"detail", "failure", "exception_t", "std::runtime_error", "exception_base_t"}
    BY <1>1, <1>2
  <2>4. WithBases({"detail", "failure", "exception_t",
                     "std::runtime_error", "exception_base_t"}) =
          {"detail", "failure", "exception_t",
           "std::runtime_error", "exception_base_t", "std::exception"}
    BY <1>1, <1>2
  <2> QED
    BY <2>1, <2>2, <2>3, <2>4 DEF Is
<1> QED
  BY <1>3, <1>4, <1>5, <1>6, <1>7, <1>8, <1>9,
     <1>10, <1>11, <1>12, <1>13, <1>14, <1>15

(***************************************************************************)
(* Deriving is transitive, the tops derive from nothing, and what an       *)
(* exception of libexcept can be constructed as derives from both.         *)
(***************************************************************************)
LEMMA TypesFacts ==
  /\ \A type \in Types : type \in Is(type) /\ Is(type) \subseteq Types
  /\ \A type \in Types : \A base \in Is(type) : Is(base) \subseteq Is(type)
  /\ \A type \in Constructible : /\ type \in Types
                                /\ {"std::exception", "exception_base_t"} \subseteq Is(type)
  /\ \A type \in {"std::exception", "std::bad_alloc", "exception_base_t"} :
       /\ type \in Types
       /\ Is(type) \subseteq {"std::exception", "std::bad_alloc", "exception_base_t"}
  /\ \A type \in Types : "exception_base_t" \in Is(type) =>
       type \notin {"std::exception", "std::bad_alloc"}
<1>1. ASSUME NEW type \in Types
      PROVE  type \in Is(type) /\ Is(type) \subseteq Types
  BY IsFacts DEF Types, Std, Declared
<1>2. ASSUME NEW type \in Types, NEW base \in Is(type)
      PROVE  Is(base) \subseteq Is(type)
  BY IsFacts DEF Types, Std, Declared
<1>3. ASSUME NEW type \in Constructible
      PROVE  type \in Types /\ {"std::exception", "exception_base_t"} \subseteq Is(type)
  BY IsFacts DEF Types, Std, Declared, Constructible
<1>4. ASSUME NEW type \in {"std::exception", "std::bad_alloc", "exception_base_t"}
      PROVE  /\ type \in Types
             /\ Is(type) \subseteq {"std::exception", "std::bad_alloc", "exception_base_t"}
  BY IsFacts DEF Types, Std
<1>5. "exception_base_t" \notin Is("std::exception") \cup Is("std::bad_alloc")
  BY IsFacts
<1> QED
  BY <1>1, <1>2, <1>3, <1>4, <1>5

-----------------------------------------------------------------------------
(***************************************************************************)
(* c_str() gives the part of a text before its first NUL.                  *)
(***************************************************************************)
Cut(what, n) ==
  /\ n \in 0..Len(what)
  /\ \A i \in 1..n : what[i] # "NUL"
  /\ n < Len(what) => what[n + 1] = "NUL"

LEMMA CStrFacts ==
  ASSUME NEW S, NEW what \in Seq(S)
  PROVE  \E n : Cut(what, n) /\ c_str(what) = SubSeq(what, 1, n)
<1> DEFINE ends == {i \in DOMAIN what : what[i] = "NUL"}
<1>1. Len(what) \in Nat /\ DOMAIN what = 1..Len(what)
  BY LenProperties
<1>2. CASE ends = {}
  <2>1. c_str(what) = what /\ SubSeq(what, 1, Len(what)) = what
    BY <1>2, SubSeqFull DEF c_str
  <2>2. Cut(what, Len(what))
    BY <1>1, <1>2 DEF Cut
  <2> QED
    BY <2>1, <2>2
<1>3. CASE ends # {}
  <2> DEFINE m == CHOOSE i \in ends : \A j \in ends : i <= j
  <2>1. \E i \in ends : \A j \in ends : i <= j
    <3>1. ends \subseteq Nat
      BY <1>1
    <3> HIDE DEF ends
    <3>2. PICK x \in ends : \A y \in ends : <<y, x>> \notin OpToRel(<, Nat)
      BY <1>3, <3>1, NatLessThanWellFounded, WFMin, Zenon
    <3>3. \A y \in ends : ~ (y < x)
      BY <3>1, <3>2, Zenon DEF OpToRel
    <3>4. \A y \in ends : x <= y
      BY <3>1, <3>3
    <3> QED
      BY <3>4
  <2>2. m \in ends /\ \A j \in ends : m <= j
    BY <2>1
  <2>3. c_str(what) = SubSeq(what, 1, m - 1)
    BY <1>3 DEF c_str
  <2> HIDE DEF m
  <2>4. /\ m \in 1..Len(what) /\ what[m] = "NUL"
        /\ \A j \in 1..Len(what) : what[j] = "NUL" => m <= j
    BY <1>1, <2>2
  <2>5. Cut(what, m - 1)
    BY <1>1, <2>4 DEF Cut
  <2> QED
    BY <2>3, <2>5
<1> QED
  BY <1>2, <1>3

(***************************************************************************)
(* A prefix of two tokens stays; the message behind it is cut as alone.    *)
(***************************************************************************)
LEMMA CStrPrefixed ==
  ASSUME NEW S, NEW p \in Seq(S), Len(p) = 2, p[1] # "NUL", p[2] # "NUL",
         NEW msg \in Seq(S)
  PROVE  \E n : Cut(msg, n) /\ c_str(p \o msg) = p \o SubSeq(msg, 1, n)
<1> DEFINE w == p \o msg
<1>1. Len(p) = 2 /\ Len(msg) \in Nat /\ p[1] # "NUL" /\ p[2] # "NUL"
  BY LenProperties
<1>2. /\ w \in Seq(S) /\ Len(w) = Len(msg) + 2
      /\ \A i \in 1..Len(msg) + 2 : w[i] = IF i <= 2 THEN p[i] ELSE msg[i - 2]
  <2>1. /\ w \in Seq(S) /\ Len(w) = Len(p) + Len(msg)
        /\ \A i \in 1..Len(p) + Len(msg) : w[i] = IF i <= Len(p) THEN p[i] ELSE msg[i - Len(p)]
    BY ConcatProperties, Zenon
  <2> HIDE DEF w
  <2>2. /\ w \in Seq(S) /\ Len(w) = 2 + Len(msg)
        /\ \A i \in 1..2 + Len(msg) : w[i] = IF i <= 2 THEN p[i] ELSE msg[i - 2]
    BY <1>1, <2>1, Zenon
  <2>3. 2 + Len(msg) = Len(msg) + 2
    BY <1>1
  <2> QED
    BY <2>2, <2>3, Zenon
<1> HIDE DEF w
<1>3. PICK k : Cut(w, k) /\ c_str(w) = SubSeq(w, 1, k)
  BY <1>2, CStrFacts
<1>4. k \in 2..Len(msg) + 2
  <2>1. k # 0 /\ k # 1
    BY <1>1, <1>2, <1>3 DEF Cut
  <2> QED
    BY <1>1, <1>2, <1>3, <2>1 DEF Cut
<1>5. Cut(msg, k - 2)
  <2>1. \A i \in 1..k - 2 : w[i + 2] = msg[i]
    BY <1>1, <1>2, <1>4
  <2>2. k < Len(w) => w[k + 1] = msg[k - 1]
    BY <1>1, <1>2, <1>4
  <2>3. /\ \A i \in 1..k : w[i] # "NUL"
        /\ k < Len(w) => w[k + 1] = "NUL"
    BY <1>3 DEF Cut
  <2>4. k - 2 \in 0..Len(msg)
    BY <1>1, <1>4
  <2>5. ASSUME NEW i \in 1..k - 2
        PROVE  msg[i] # "NUL"
    <3>1. i + 2 \in 1..k
      BY <1>1, <1>4
    <3> QED
      BY <2>1, <2>3, <3>1
  <2>6. k - 2 < Len(msg) => msg[k - 2 + 1] = "NUL"
    <3>1. k - 2 + 1 = k - 1 /\ (k - 2 < Len(msg) => k < Len(w))
      BY <1>1, <1>2, <1>4
    <3> QED
      BY <2>2, <2>3, <3>1
  <2> QED
    BY <2>4, <2>5, <2>6 DEF Cut
<1>6. SubSeq(w, 1, k) = p \o SubSeq(msg, 1, k - 2)
  <2> DEFINE left == SubSeq(w, 1, k)
             cut == SubSeq(msg, 1, k - 2)
             right == p \o cut
  <2>1. /\ left \in Seq(S) /\ Len(left) = k /\ \A i \in 1..k : left[i] = w[i]
    <3>1. \A i \in 1..k : w[i] \in S
      BY <1>2, <1>4, ElementOfSeq
    <3>2. k \in Int /\ 1 \in Int /\ k - 1 + 1 = k /\ 1 <= k
      BY <1>1, <1>4
    <3>3. /\ left \in Seq(S)
          /\ Len(left) = IF 1 <= k THEN k - 1 + 1 ELSE 0
          /\ \A i \in 1..k - 1 + 1 : left[i] = w[1 + i - 1]
      BY <3>1, <3>2, SubSeqProperties
    <3> QED
      BY <3>2, <3>3
  <2>2. /\ cut \in Seq(S) /\ Len(cut) = k - 2 /\ \A i \in 1..k - 2 : cut[i] = msg[i]
    <3>1. \A i \in 1..k - 2 : msg[i] \in S
      BY <1>1, <1>4, ElementOfSeq
    <3>2. k - 2 \in Int /\ 1 \in Int /\ (k - 2) - 1 + 1 = k - 2 /\ k - 2 >= 0
      BY <1>1, <1>4
    <3>3. /\ cut \in Seq(S)
          /\ Len(cut) = IF 1 <= k - 2 THEN (k - 2) - 1 + 1 ELSE 0
          /\ \A i \in 1..(k - 2) - 1 + 1 : cut[i] = msg[1 + i - 1]
      BY <3>1, <3>2, SubSeqProperties
    <3> QED
      BY <3>2, <3>3
  <2> HIDE DEF left, cut
  <2>3. /\ right \in Seq(S) /\ Len(right) = 2 + (k - 2)
        /\ \A i \in 1..2 + (k - 2) : right[i] = IF i <= 2 THEN p[i] ELSE cut[i - 2]
    <3>1. /\ right \in Seq(S) /\ Len(right) = Len(p) + Len(cut)
          /\ \A i \in 1..Len(p) + Len(cut) :
               right[i] = IF i <= Len(p) THEN p[i] ELSE cut[i - Len(p)]
      BY <2>2, ConcatProperties, Zenon
    <3> HIDE DEF right
    <3> QED
      BY <1>1, <2>2, <3>1, Zenon
  <2> HIDE DEF right
  <2>4. ASSUME NEW i \in 1..k
        PROVE  left[i] = right[i]
    <3>1. left[i] = w[i] /\ w[i] = IF i <= 2 THEN p[i] ELSE msg[i - 2]
      BY <1>1, <1>2, <1>4, <2>1
    <3>2. right[i] = IF i <= 2 THEN p[i] ELSE cut[i - 2]
      BY <1>1, <1>4, <2>3
    <3>3. CASE i <= 2
      BY <3>1, <3>2, <3>3
    <3>4. CASE ~ (i <= 2)
      <4>1. i - 2 \in 1..k - 2
        BY <1>1, <1>4, <3>4
      <4> QED
        BY <2>2, <3>1, <3>2, <3>4, <4>1
    <3> QED
      BY <3>3, <3>4
  <2>5. Len(left) = Len(right)
    BY <1>4, <2>1, <2>3
  <2> QED
    BY <2>1, <2>3, <2>4, <2>5, SeqEqual DEF left, right, cut
<1> QED
  BY <1>3, <1>5, <1>6 DEF w

\* What a text is made of.
Pieces == Words \cup Declared \cup {"COLON"}

\* The same behind a name and a separator.
Separated(a, b, msg) ==
  /\ <<a, b>> \in Seq(Pieces)
  /\ \E n : Cut(msg, n) /\ c_str(<<a, b>> \o msg) = <<a, b>> \o SubSeq(msg, 1, n)

(***************************************************************************)
(* Such a prefix is one that stays.                                        *)
(***************************************************************************)
LEMMA CStrNamed ==
  ASSUME NEW a \in Pieces, NEW b \in Pieces, a # "NUL", b # "NUL", NEW msg \in Seq(Pieces)
  PROVE  Separated(a, b, msg)
<1> DEFINE p == <<a, b>>
<1>1. p \in Seq(Pieces) /\ Len(p) = 2 /\ p[1] # "NUL" /\ p[2] # "NUL"
  OBVIOUS
<1> HIDE DEF p
<1>2. \E n : Cut(msg, n) /\ c_str(p \o msg) = p \o SubSeq(msg, 1, n)
  BY <1>1, CStrPrefixed
<1> QED
  BY <1>1, <1>2, Zenon DEF p, Separated

\* The text is the message up to its first NUL, behind the prefix of the class.
Worded(text, type, message) ==
  \E n : Cut(message, n) /\ text = Prefix(type) \o SubSeq(message, 1, n)

(***************************************************************************)
(* A new exception is worded so.                                           *)
(***************************************************************************)
LEMMA TextFacts ==
  ASSUME NEW type \in Constructible, NEW msg \in Seq(Words)
  PROVE  Text(type, msg) \in Seq(Pieces) /\ Worded(Text(type, msg), type, msg)
<1>1. msg \in Seq(Pieces) /\ {"fixme", "bounds", "failure", "COLON"} \subseteq Pieces
  <2>1. Words \subseteq Pieces
    BY DEF Pieces
  <2> QED
    BY <2>1, SeqMonotonic DEF Pieces, Declared
<1>2. \A n : Cut(msg, n) => SubSeq(msg, 1, n) \in Seq(Pieces)
  <2> TAKE n
  <2> HAVE Cut(msg, n)
  <2>1. n \in Nat /\ n <= Len(msg) /\ Len(msg) \in Nat
    BY <1>1, LenProperties DEF Cut
  <2>2. \A i \in 1..n : msg[i] \in Pieces
    BY <1>1, <2>1, ElementOfSeq
  <2> QED
    BY <2>1, <2>2, SubSeqProperties
<1>3. PICK n : Cut(msg, n) /\ c_str(msg) = SubSeq(msg, 1, n)
  BY <1>1, CStrFacts, Zenon
<1>4. <<>> \o SubSeq(msg, 1, n) = SubSeq(msg, 1, n)
  BY <1>2, <1>3, ConcatEmptySeq
<1>5. CASE type \in {"logic_exception_t", "out_of_range_t", "exception_t"}
  <2>1. Text(type, msg) = c_str(msg) /\ Prefix(type) = <<>>
    BY <1>5, Zenon DEF Text, Prefix, logic_exception_t, out_of_range_t, exception_t
  <2> QED
    BY <1>2, <1>3, <1>4, <2>1, Zenon DEF Worded
<1>6. ASSUME NEW name \in Pieces, name # "NUL",
             Text(type, msg) = c_str(<<name, "COLON">> \o msg), Prefix(type) = <<name, "COLON">>
      PROVE  Text(type, msg) \in Seq(Pieces) /\ Worded(Text(type, msg), type, msg)
  <2>1. "COLON" \in Pieces /\ "COLON" # "NUL"
    BY <1>1
  <2>2. msg \in Seq(Pieces) /\ name \in Pieces /\ name # "NUL"
    BY <1>1, <1>6
  <2>3. Separated(name, "COLON", msg)
    BY <2>2, <2>1, CStrNamed
  <2>4. /\ <<name, "COLON">> \in Seq(Pieces)
        /\ \E m : /\ Cut(msg, m)
                  /\ c_str(<<name, "COLON">> \o msg) = <<name, "COLON">> \o SubSeq(msg, 1, m)
    BY <2>3, Zenon DEF Separated
  <2>5. Prefix(type) \in Seq(Pieces) /\ Worded(Text(type, msg), type, msg)
    BY <1>6, <2>4, Zenon DEF Worded
  <2>6. Text(type, msg) \in Seq(Pieces)
    BY <1>2, <2>5, ConcatProperties DEF Worded
  <2> QED
    BY <2>5, <2>6
<1>7. CASE type = "fixme"
  <2>1. /\ Text(type, msg) = c_str(<<"fixme", "COLON">> \o msg)
        /\ Prefix(type) = <<"fixme", "COLON">>
    BY <1>7, Zenon DEF Text, Prefix, DECLARE_LOGIC_ERROR, logic_exception_t
  <2>2. "fixme" \in Pieces /\ "fixme" # "NUL"
    BY <1>1
  <2> QED
    BY <1>6, <2>1, <2>2, Zenon
<1>8. CASE type = "bounds"
  <2>1. /\ Text(type, msg) = c_str(<<"bounds", "COLON">> \o msg)
        /\ Prefix(type) = <<"bounds", "COLON">>
    BY <1>8, Zenon DEF Text, Prefix, DECLARE_OUT_OF_RANGE, out_of_range_t
  <2>2. "bounds" \in Pieces /\ "bounds" # "NUL"
    BY <1>1
  <2> QED
    BY <1>6, <2>1, <2>2, Zenon
<1>9. CASE type \in {"failure", "detail"}
  <2>1. /\ Text(type, msg) = c_str(<<"failure", "COLON">> \o msg)
        /\ Prefix(type) = <<"failure", "COLON">>
    BY <1>9, Zenon DEF Text, Prefix, DECLARE_MAIN_EXCEPTION, DECLARE_EXCEPTION, exception_t
  <2>2. "failure" \in Pieces /\ "failure" # "NUL"
    BY <1>1
  <2> QED
    BY <1>6, <2>1, <2>2, Zenon
<1> QED
  BY <1>5, <1>7, <1>8, <1>9, Zenon DEF Constructible, Declared

-----------------------------------------------------------------------------
\* What the parameters of an object can be.
Parameters == UNION {[N -> Values \cup {""}] : N \in SUBSET (Names \ {""})}

\* An object that differs from o in the value of one parameter.
Completed(o, w, name, value) ==
  /\ w \in Objects
  /\ w = [o EXCEPT !.parameters = w.parameters]
  /\ \A n : get_parameter(w, n) = IF n = name THEN value ELSE get_parameter(o, n)

(***************************************************************************)
(* An object with one more parameter, and what get_parameter() says of it. *)
(***************************************************************************)
LEMMA WithFacts ==
  ASSUME NEW o \in Objects, NEW name \in Names, name # "", NEW value \in Values \cup {""}
  PROVE  Completed(o, With(o, name, value), name, value)
<1> DEFINE p == o.parameters
           q == [n \in DOMAIN p \cup {name} |-> IF n = name THEN value ELSE p[n]]
           w == With(o, name, value)
<1>1. PICK N \in SUBSET (Names \ {""}) : p \in [N -> Values \cup {""}]
  BY DEF Objects
<1>2. q \in [N \cup {name} -> Values \cup {""}]
  BY <1>1
<1>3. N \cup {name} \in SUBSET (Names \ {""})
  BY <1>1
<1>4. w = [o EXCEPT !.parameters = q]
  BY DEF With
<1>5. \A n : (IF n \in DOMAIN q THEN q[n] ELSE "") =
              IF n = name THEN value ELSE IF n \in DOMAIN p THEN p[n] ELSE ""
  BY <1>1
<1>6. q \in Parameters
  BY <1>2, <1>3, Zenon DEF Parameters
<1> HIDE DEF q, w
<1>7. w \in Objects /\ w.parameters = q
  BY <1>4, <1>6 DEF Objects, Parameters
<1>8. \A n : get_parameter(w, n) = IF n = name THEN value ELSE get_parameter(o, n)
  BY <1>5, <1>7 DEF get_parameter
<1> QED
  BY <1>4, <1>7, <1>8 DEF w, Completed

\* What holds of every object: the conjuncts of the invariants that speak of one.
Good(o) ==
  /\ "exception_base_t" \in Is(o.type) =>
       \A name \in Names \ {""} : LastGiven(o.log, name, get_parameter(o, name))
  /\ o.type \notin {"std::exception", "std::bad_alloc", "exception_base_t"} =>
       Worded(o.text, o.origin.type, o.origin.message)

\* An exception that a handler of std::exception or of exception_base_t lets pass
\* only when it was sliced, or is none of libexcept.
Real(o) == \/ o.sliced
           \/ o.type = "std::bad_alloc"
           \/ {"std::exception", "exception_base_t"} \subseteq Is(o.type)

\* An object that stays what o is, whatever was done to its parameters.
Same(o, r) == r.type = o.type /\ r.sliced = o.sliced

(***************************************************************************)
(* set_parameter() leaves a good object, ...                               *)
(***************************************************************************)
LEMMA SetGood ==
  ASSUME NEW o \in Objects, Good(o), NEW name \in Names, NEW value \in Values,
         NEW r, r = [set_parameter(o, name, value) EXCEPT
                       !.log = Append(@, [name |-> name, value |-> value])]
  PROVE  r \in Objects /\ Good(r) /\ Same(o, r)
<1> DEFINE s == set_parameter(o, name, value)
           e == [name |-> name, value |-> value]
<1>1. /\ s \in Objects /\ s = [o EXCEPT !.parameters = s.parameters]
      /\ \A n \in Names \ {""} :
           get_parameter(s, n) = IF n = name THEN value ELSE get_parameter(o, n)
  <2>1. CASE name = ""
    <3>1. s = o
      BY <2>1 DEF set_parameter
    <3>2. o = [o EXCEPT !.parameters = o.parameters]
      BY DEF Objects
    <3> QED
      BY <2>1, <3>1, <3>2
  <2>2. CASE name # ""
    <3>1. s = With(o, name, value)
      BY <2>2 DEF set_parameter
    <3>2. name \in Names /\ name # "" /\ value \in Values \cup {""}
      BY <2>2
    <3>3. /\ s \in Objects /\ s = [o EXCEPT !.parameters = s.parameters]
          /\ \A n : get_parameter(s, n) = IF n = name THEN value ELSE get_parameter(o, n)
      <4>1. Completed(o, With(o, name, value), name, value)
        BY <3>2, WithFacts
      <4> QED
        BY <3>1, <4>1 DEF Completed
    <3> QED
      BY <3>3
  <2> QED
    BY <2>1, <2>2
<1> HIDE DEF s
<1>2. r = [s EXCEPT !.log = Append(s.log, e)]
  BY DEF s
<1>3. /\ s.type = o.type /\ s.sliced = o.sliced /\ s.log = o.log
      /\ s.origin = o.origin /\ s.text = o.text
  BY <1>1 DEF Objects
<1>4. e \in [name : Names, value : Values] /\ e.name = name /\ e = [name |-> name, value |-> value]
  OBVIOUS
<1>5. o.log \in Seq([name : Names, value : Values])
  BY DEF Objects
<1> DEFINE given == Append(o.log, e)
           last == Len(o.log) + 1
<1>6. /\ given \in Seq([name : Names, value : Values])
      /\ last \in Nat /\ DOMAIN given = 1..last /\ DOMAIN o.log = 1..last - 1
      /\ \A i \in 1..last - 1 : given[i] = o.log[i]
      /\ given[last] = e
  BY <1>4, <1>5
<1>a. r = [o EXCEPT !.parameters = s.parameters, !.log = given]
  BY <1>1, <1>2, <1>3 DEF Objects
<1> HIDE DEF given, e
<1>b. last \in 1..last /\ (\A j \in 1..last : j <= last) /\ 1..last - 1 \subseteq 1..last
      /\ (\A i \in 1..last : i \in 1..last - 1 \/ i = last)
  BY <1>5
<1> HIDE DEF last
<1>7. /\ r \in Objects /\ r.log = given /\ r.type = o.type /\ r.sliced = o.sliced
      /\ r.origin = o.origin /\ r.text = o.text
      /\ r.parameters = s.parameters
  BY <1>1, <1>3, <1>6, <1>a DEF Objects
<1>8. ASSUME NEW n \in Names \ {""}, LastGiven(o.log, n, get_parameter(o, n))
      PROVE  LastGiven(r.log, n, get_parameter(r, n))
  <2>1. get_parameter(r, n) = IF n = name THEN value ELSE get_parameter(o, n)
    BY <1>1, <1>7 DEF get_parameter
  <2>2. CASE n = name
    <3>1. given[last] = [name |-> n, value |-> get_parameter(r, n)]
      BY <1>4, <1>6, <2>1, <2>2
    <3>2. \A j \in DOMAIN given : j <= last
      BY <1>6, <1>b
    <3>3. last \in DOMAIN given
      BY <1>6, <1>b
    <3> QED
      BY <1>7, <3>1, <3>2, <3>3 DEF LastGiven
  <2>3. CASE n # name
    <3>1. get_parameter(r, n) = get_parameter(o, n)
      BY <2>1, <2>3
    <3>2. given[last].name # n
      BY <1>4, <1>6, <2>3
    <3>3. \A i \in DOMAIN given :
            (i \in DOMAIN o.log /\ given[i] = o.log[i]) \/ i = last
      BY <1>6, <1>b
    <3>4. \A i \in DOMAIN o.log : i \in DOMAIN given /\ given[i] = o.log[i]
      BY <1>6, <1>b
    <3>5. CASE get_parameter(o, n) = "" /\ \A i \in DOMAIN o.log : o.log[i].name # n
      <4>1. \A i \in DOMAIN given : given[i].name # n
        BY <3>2, <3>3, <3>5
      <4> QED
        BY <1>7, <3>1, <3>5, <4>1 DEF LastGiven
    <3>6. ASSUME NEW i \in DOMAIN o.log,
                 o.log[i] = [name |-> n, value |-> get_parameter(o, n)],
                 \A j \in DOMAIN o.log : o.log[j].name = n => j <= i
          PROVE  LastGiven(r.log, n, get_parameter(r, n))
      <4>1. \A j \in DOMAIN given : given[j].name = n => j <= i
        BY <3>2, <3>3, <3>6
      <4>2. i \in DOMAIN given /\ given[i] = [name |-> n, value |-> get_parameter(r, n)]
        BY <3>1, <3>4, <3>6
      <4> QED
        BY <1>7, <4>1, <4>2 DEF LastGiven
    <3> QED
      BY <1>8, <3>5, <3>6 DEF LastGiven
  <2> QED
    BY <2>2, <2>3
<1>9. Good(r)
  BY <1>7, <1>8 DEF Good
<1> QED
  BY <1>7, <1>9 DEF Same

(***************************************************************************)
(* ... and so does one that runs out of memory.                            *)
(***************************************************************************)
LEMMA SetFailsGood ==
  ASSUME NEW o \in Objects, Good(o), NEW name \in Names, NEW r \in set_parameter_fails(o, name)
  PROVE  r \in Objects /\ Good(r) /\ Same(o, r)
<1>1. CASE r = o
  BY <1>1 DEF Same
<1>2. CASE r # o
  <2>1. name # "" /\ name \notin DOMAIN o.parameters /\ r = With(o, name, "")
    BY <1>2 DEF set_parameter_fails
  <2>2. Completed(o, With(o, name, ""), name, "")
    BY <2>1, WithFacts
  <2>3. r \in Objects /\ r = [o EXCEPT !.parameters = r.parameters]
    BY <2>1, <2>2 DEF Completed
  <2>4. ASSUME NEW n
        PROVE  get_parameter(r, n) = get_parameter(o, n)
    <3>1. get_parameter(r, n) = IF n = name THEN "" ELSE get_parameter(o, n)
      BY <2>1, <2>2 DEF Completed
    <3>2. get_parameter(o, name) = ""
      BY <2>1 DEF get_parameter
    <3> QED
      BY <3>1, <3>2
  <2>5. /\ r.type = o.type /\ r.sliced = o.sliced /\ r.log = o.log
        /\ r.origin = o.origin /\ r.text = o.text
    BY <2>3 DEF Objects
  <2>6. Good(r)
    BY <2>4, <2>5 DEF Good
  <2> QED
    BY <2>3, <2>5, <2>6 DEF Same
<1> QED
  BY <1>1, <1>2

(***************************************************************************)
(* The object made from a good one for a type it derives from is good, and *)
(* real when the first is.                                                 *)
(***************************************************************************)
LEMMA SlicedGood ==
  ASSUME NEW o \in Objects, Good(o), NEW type \in Is(o.type)
  PROVE  /\ Sliced(o, type) \in Objects
         /\ Good(Sliced(o, type))
         /\ Sliced(o, type).type = type
         /\ Real(o) => Real(Sliced(o, type))
<1> DEFINE r == Sliced(o, type)
           based == "exception_base_t" \in Is(type)
           blank == type \in {"std::exception", "exception_base_t"}
<1>1. /\ o.type \in Types /\ type \in Types /\ Is(type) \subseteq Is(o.type)
      /\ o.type \in {"std::exception", "std::bad_alloc", "exception_base_t"} =>
           type \in {"std::exception", "std::bad_alloc", "exception_base_t"}
  BY TypesFacts DEF Objects
<1>2. /\ r.type = type
      /\ r.sliced = (o.sliced \/ type # o.type)
      /\ r.text = IF blank THEN <<>> ELSE o.text
      /\ r.log = o.log /\ r.origin = o.origin
      /\ r.parameters = IF based THEN o.parameters ELSE NoParameters
      /\ r = [type |-> r.type, text |-> r.text, parameters |-> r.parameters,
              log |-> r.log, origin |-> r.origin, sliced |-> r.sliced]
  BY DEF Sliced, Objects
<1> HIDE DEF r
<1>3. NoParameters \in Parameters
  <2>1. NoParameters \in [{} -> Values \cup {""}] /\ {} \in SUBSET (Names \ {""})
    BY DEF NoParameters
  <2> QED
    BY <2>1, Zenon DEF Parameters
<1>4. r \in Objects
  <2>1. /\ r.type \in Types
        /\ r.text \in Seq(Pieces)
        /\ r.log \in Seq([name : Names, value : Values])
        /\ r.origin \in [type : Types, message : Seq(Words)]
    <3>1. /\ o.text \in Seq(Pieces)
          /\ o.log \in Seq([name : Names, value : Values])
          /\ o.origin \in [type : Types, message : Seq(Words)]
      BY DEF Objects, Pieces
    <3>2. r.text \in {<<>>, o.text}
      BY <1>2
    <3>3. <<>> \in Seq(Pieces)
      OBVIOUS
    <3> QED
      BY <1>1, <1>2, <3>1, <3>2, <3>3
  <2>2. r.parameters \in Parameters
    BY <1>2, <1>3 DEF Objects, Parameters
  <2>3. r.sliced \in BOOLEAN
    BY <1>2, Zenon
  <2> QED
    BY <1>2, <2>1, <2>2, <2>3, Zenon DEF Objects, Parameters, Pieces
<1>5. Good(r)
  <2>1. CASE based
    BY <1>1, <1>2, <2>1 DEF Good, get_parameter
  <2>2. CASE ~ based
    BY <1>1, <1>2, <2>2 DEF Good
  <2> QED
    BY <2>1, <2>2
<1>6. Real(o) => Real(r)
  <2>1. CASE type = o.type
    BY <1>2, <2>1 DEF Real
  <2>2. CASE type # o.type
    BY <1>2, <2>2 DEF Real
  <2> QED
    BY <2>1, <2>2
<1> QED
  BY <1>2, <1>4, <1>5, <1>6 DEF r

(***************************************************************************)
(* A new object without parameters is good when its text is.               *)
(***************************************************************************)
LEMMA ObjectGood ==
  ASSUME NEW type \in Types, NEW text \in Seq(Pieces), NEW msg \in Seq(Words),
         \/ type \in {"std::exception", "std::bad_alloc"}
         \/ Worded(text, type, msg)
  PROVE  Object(type, text, msg) \in Objects /\ Good(Object(type, text, msg))
<1> DEFINE r == Object(type, text, msg)
<1>1. NoParameters \in Parameters
  <2>1. NoParameters \in [{} -> Values \cup {""}] /\ {} \in SUBSET (Names \ {""})
    BY DEF NoParameters
  <2> QED
    BY <2>1, Zenon DEF Parameters
<1>2. <<>> \in Seq([name : Names, value : Values]) /\ DOMAIN <<>> = {}
  OBVIOUS
<1>3. r \in Objects
  <2>1. [type |-> type, message |-> msg]
          \in [type : Types, message : Seq(Words)]
    OBVIOUS
  <2> QED
    BY <1>1, <1>2, <2>1, Zenon DEF Object, Objects, Parameters, Pieces
<1>4. /\ r.type = type /\ r.text = text /\ r.log = <<>>
      /\ r.parameters = NoParameters
      /\ r.origin.type = type /\ r.origin.message = msg
  BY DEF Object
<1> HIDE DEF r
<1>5. \A name : get_parameter(r, name) = ""
  BY <1>4 DEF get_parameter, NoParameters
<1>6. \A name : LastGiven(r.log, name, get_parameter(r, name))
  BY <1>2, <1>4, <1>5 DEF LastGiven
<1>7. Good(r)
  BY <1>4, <1>6 DEF Good
<1> QED
  BY <1>3, <1>7 DEF r

(***************************************************************************)
(* So are an exception just constructed, a std::bad_alloc and no object.   *)
(***************************************************************************)
LEMMA NewGood ==
  ASSUME NEW type \in Constructible, NEW msg \in Messages,
         NEW r, r = Object(type, Text(type, msg), msg)
  PROVE  r \in Objects /\ Good(r) /\ Real(r)
<1>1. msg \in Seq(Words)
  BY ConstantsAssumption DEF ConstantsAssumption
<1>2. Text(type, msg) \in Seq(Pieces) /\ Worded(Text(type, msg), type, msg)
  BY <1>1, TextFacts
<1>3. type \in Types /\ {"std::exception", "exception_base_t"} \subseteq Is(type)
  BY TypesFacts
<1>4. r \in Objects /\ Good(r)
  BY <1>1, <1>2, <1>3, ObjectGood
<1>5. r.type = type
  BY DEF Object
<1> QED
  BY <1>3, <1>4, <1>5 DEF Real

LEMMA NoneGood ==
  /\ None \in Objects /\ Good(None)
  /\ BadAlloc \in Objects /\ Good(BadAlloc) /\ Real(BadAlloc)
<1>1. /\ "std::exception" \in Types /\ "std::bad_alloc" \in Types
      /\ <<>> \in Seq(Pieces) /\ <<>> \in Seq(Words)
  BY DEF Types, Std
<1>2. None \in Objects /\ Good(None)
  BY <1>1, ObjectGood DEF None
<1>3. BadAlloc \in Objects /\ Good(BadAlloc)
  BY <1>1, ObjectGood DEF BadAlloc
<1>4. BadAlloc.type = "std::bad_alloc"
  BY DEF BadAlloc, Object
<1> QED
  BY <1>2, <1>3, <1>4 DEF Real

-----------------------------------------------------------------------------
\* The object that the code holds, the one that flies and the one a handler has.
AllGood == Good(local) /\ Good(flying) /\ Good(variable.copy)

\* The handler entered is of a type the exception derives from.
Entered == /\ variable.type \in Is(flying.type)
           /\ variable.byValue => variable.copy.type = variable.type /\ Real(variable.copy)

\* An exception prepared or thrown is real, and entered as above when it is caught.
Matched ==
  /\ pc = "preparing" => Real(local)
  /\ pc \in {"flying", "handling"} => Real(flying)
  /\ pc = "handling" => Entered

\* The inductive invariant.
IInv == TypeOK /\ AllGood /\ Matched /\ NeverPassedOver

LEMMA InitIInv == Init => IInv
<1> SUFFICES ASSUME Init PROVE IInv
  OBVIOUS
<1>1. handlers \in Seq([type : Types, byValue : BOOLEAN])
  <2> DEFINE S == [type : Types \ {"std::bad_alloc"}, byValue : BOOLEAN]
             T == [type : Types, byValue : BOOLEAN]
  <2>1. handlers \in Seq(S)
    BY ConstantsAssumption DEF Init, ConstantsAssumption
  <2>2. S \subseteq T
    OBVIOUS
  <2> HIDE DEF S, T
  <2>3. handlers \in Seq(T)
    BY <2>1, <2>2, SeqMonotonic
  <2> QED
    BY <2>3 DEF T
<1>2. /\ NoVariable \in [type : Types, byValue : BOOLEAN, copy : Objects]
      /\ NoVariable.copy = None
  BY NoneGood DEF NoVariable, Types, Std
<1>3. TypeOK
  BY <1>1, <1>2, NoneGood DEF Init, TypeOK
<1>4. AllGood
  BY <1>2, NoneGood DEF Init, AllGood
<1>5. Matched /\ NeverPassedOver
  BY DEF Init, Matched, NeverPassedOver
<1> QED
  BY <1>3, <1>4, <1>5 DEF IInv

(***************************************************************************)
(* The object the code can name, and its static type.                      *)
(***************************************************************************)
LEMMA NamedFacts ==
  ASSUME IInv, pc \in {"preparing", "handling"}
  PROVE  /\ Named \in Objects /\ Good(Named) /\ Real(Named)
         /\ Static \in Types /\ Static \in Is(Named.type)
<1>1. CASE pc = "preparing"
  <2>1. Named = local /\ Static = local.type
    BY <1>1 DEF Named, Static
  <2>2. local \in Objects /\ Good(local) /\ Real(local)
    BY <1>1 DEF IInv, TypeOK, AllGood, Matched
  <2>3. local.type \in Types
    BY <2>2 DEF Objects
  <2> QED
    BY <2>1, <2>2, <2>3, TypesFacts
<1>2. CASE pc = "handling"
  <2>1. variable \in [type : Types, byValue : BOOLEAN, copy : Objects] /\ flying \in Objects
    BY DEF IInv, TypeOK
  <2>2. /\ Good(flying) /\ Good(variable.copy) /\ Real(flying)
        /\ variable.type \in Is(flying.type)
        /\ variable.byValue => variable.copy.type = variable.type /\ Real(variable.copy)
    <3>1. Good(flying) /\ Good(variable.copy) /\ Real(flying) /\ Entered
      BY <1>2 DEF IInv, AllGood, Matched
    <3> QED
      BY <3>1, Zenon DEF Entered
  <2>3. CASE variable.byValue
    <3>1. Named = variable.copy /\ Static = variable.type
      BY <1>2, <2>3 DEF Named, Static
    <3> QED
      BY <2>1, <2>2, <2>3, <3>1, TypesFacts
  <2>4. CASE ~ variable.byValue
    <3>1. Named = flying /\ Static = variable.type
      BY <1>2, <2>4 DEF Named, Static
    <3> QED
      BY <2>1, <2>2, <3>1
  <2> QED
    BY <2>3, <2>4
<1> QED
  BY <1>1, <1>2

(***************************************************************************)
(* Completing that object keeps the invariant.                             *)
(***************************************************************************)
LEMMA UpdateKeeps ==
  ASSUME IInv, pc \in {"preparing", "handling"},
         NEW r, r \in Objects, Good(r), Same(Named, r), Update(r),
         pc' = pc, handlers' = handlers, passed' = passed
  PROVE  IInv'
<1>0. Real(Named) => Real(r)
  BY DEF Real, Same
<1>1. CASE pc = "preparing"
  <2>1. local' = r /\ flying' = flying /\ variable' = variable
    BY <1>1 DEF Update
  <2>2. TypeOK' /\ AllGood' /\ NeverPassedOver'
    BY <2>1 DEF IInv, TypeOK, AllGood, NeverPassedOver
  <2>3. Matched'
    BY <1>0, <1>1, <2>1, NamedFacts DEF Matched, Entered
  <2> QED
    BY <2>2, <2>3 DEF IInv
<1>2. CASE pc = "handling" /\ variable.byValue
  <2>1. /\ variable' = [variable EXCEPT !.copy = r]
        /\ local' = local /\ flying' = flying /\ Named = variable.copy
    BY <1>2 DEF Update, Named
  <2>2. variable \in [type : Types, byValue : BOOLEAN, copy : Objects]
    BY DEF IInv, TypeOK
  <2>3. /\ variable' \in [type : Types, byValue : BOOLEAN, copy : Objects]
        /\ variable'.copy = r /\ variable'.type = variable.type
        /\ variable'.byValue = variable.byValue
    BY <2>1, <2>2
  <2>4. TypeOK' /\ AllGood' /\ NeverPassedOver'
    BY <2>1, <2>3 DEF IInv, TypeOK, AllGood, NeverPassedOver
  <2>5. Matched'
    <3>1. /\ variable.type \in Is(flying.type) /\ Real(flying)
          /\ variable.copy.type = variable.type
      <4>1. Real(flying) /\ Entered
        BY <1>2 DEF IInv, Matched
      <4> QED
        BY <1>2, <4>1, Zenon DEF Entered
    <3>2. r.type = variable.type /\ Real(r)
      BY <1>0, <2>1, <3>1, NamedFacts DEF Same
    <3> QED
      BY <1>2, <2>1, <2>3, <3>1, <3>2 DEF Matched, Entered
  <2> QED
    BY <2>4, <2>5 DEF IInv
<1>3. CASE pc = "handling" /\ ~ variable.byValue
  <2>1. /\ flying' = r /\ local' = local /\ variable' = variable /\ Named = flying
    BY <1>3 DEF Update, Named
  <2>2. TypeOK' /\ AllGood'
    BY <2>1 DEF IInv, TypeOK, AllGood
  <2>3. NeverPassedOver'
    BY <2>1 DEF IInv, NeverPassedOver, Same
  <2>4. Matched'
    <3>1. variable.type \in Is(flying.type)
      <4>1. Entered
        BY <1>3 DEF IInv, Matched
      <4> QED
        BY <4>1, Zenon DEF Entered
    <3>2. r.type = flying.type /\ Real(r)
      BY <1>0, <2>1, NamedFacts DEF Same
    <3> QED
      BY <1>3, <2>1, <3>1, <3>2 DEF Matched, Entered
  <2> QED
    BY <2>2, <2>3, <2>4 DEF IInv
<1> QED
  BY <1>1, <1>2, <1>3

(***************************************************************************)
(* So does throwing a good exception object.                               *)
(***************************************************************************)
LEMMA FlyKeeps ==
  ASSUME IInv, NEW o, o \in Objects, Good(o), Real(o), Fly(o),
         handlers' = handlers
  PROVE  IInv'
<1>1. /\ NoVariable \in [type : Types, byValue : BOOLEAN, copy : Objects]
      /\ NoVariable.copy = None
  BY NoneGood DEF NoVariable, Types, Std
<1>2. /\ pc' = "flying" /\ flying' = o /\ passed' = {} /\ local' = None
      /\ variable' = NoVariable
  BY DEF Fly
<1>3. TypeOK'
  BY <1>1, <1>2, NoneGood DEF IInv, TypeOK
<1>4. AllGood'
  BY <1>1, <1>2, NoneGood DEF AllGood
<1>5. Matched' /\ NeverPassedOver'
  BY <1>2 DEF Matched, Entered, NeverPassedOver
<1> QED
  BY <1>3, <1>4, <1>5 DEF IInv

LEMMA NextIInv == IInv /\ [Next]_vars => IInv'
<1> SUFFICES ASSUME IInv, [Next]_vars PROVE IInv'
  OBVIOUS
<1>1. /\ handlers \in Seq([type : Types, byValue : BOOLEAN])
      /\ local \in Objects /\ flying \in Objects
      /\ variable \in [type : Types, byValue : BOOLEAN, copy : Objects]
      /\ passed \subseteq Types
  BY DEF IInv, TypeOK
<1>2. Good(local) /\ Good(flying) /\ Good(variable.copy)
  BY DEF IInv, AllGood
<1>3. /\ NoVariable \in [type : Types, byValue : BOOLEAN, copy : Objects]
      /\ NoVariable.copy = None
  BY NoneGood DEF NoVariable, Types, Std
<1>4. ASSUME handlers # <<>>
      PROVE  /\ Head(handlers) \in [type : Types, byValue : BOOLEAN]
             /\ Tail(handlers) \in Seq([type : Types, byValue : BOOLEAN])
  BY <1>1, <1>4, HeadTailProperties
<1>5. ASSUME NEW type \in Constructible, NEW msg \in Messages, Construct(type, msg)
      PROVE  IInv'
  <2>1. local' = Object(type, Text(type, msg), msg)
    BY <1>1, <1>5 DEF Construct
  <2>2. local' \in Objects /\ Good(local)' /\ Real(local)'
    BY <2>1, NewGood
  <2>3. /\ pc' = "preparing" /\ handlers' = handlers /\ flying' = flying
        /\ variable' = variable /\ passed' = passed
    BY <1>5 DEF Construct
  <2>4. TypeOK' /\ AllGood'
    BY <1>1, <1>2, <2>1, <2>2, <2>3 DEF TypeOK, AllGood
  <2>5. Matched'
    BY <2>2, <2>3 DEF Matched
  <2>6. NeverPassedOver'
    BY <2>3 DEF IInv, NeverPassedOver
  <2> QED
    BY <2>4, <2>5, <2>6 DEF IInv
<1>6. ASSUME NEW name \in Names, NEW value \in Values, SetParameter(name, value)
      PROVE  IInv'
  <2>1. pc \in {"preparing", "handling"}
    BY <1>6 DEF SetParameter, HasParameters
  <2>2. Named \in Objects /\ Good(Named)
    BY <2>1, NamedFacts
  <2>3. Set(name, value) \in Objects /\ Good(Set(name, value)) /\ Same(Named, Set(name, value))
    BY <2>2, SetGood DEF Set
  <2> QED
    BY <1>6, <2>1, <2>3, UpdateKeeps DEF SetParameter
<1>7. ASSUME NEW name \in Names, SetParameterFails(name)
      PROVE  IInv'
  <2>1. pc \in {"preparing", "handling"}
    BY <1>7 DEF SetParameterFails, HasParameters
  <2>2. PICK o \in set_parameter_fails(Named, name) : Update(o)
    BY <1>7 DEF SetParameterFails
  <2>3. o \in Objects /\ Good(o) /\ Same(Named, o)
    BY <2>1, <2>2, NamedFacts, SetFailsGood
  <2> QED
    BY <1>7, <2>1, <2>2, <2>3, UpdateKeeps DEF SetParameterFails
<1>8. CASE Throw
  <2>1. pc \in {"preparing", "handling"} /\ Fly(Sliced(Named, Static))
    BY <1>8 DEF Throw
  <2>2. Named \in Objects /\ Good(Named) /\ Real(Named) /\ Static \in Is(Named.type)
    BY <2>1, NamedFacts
  <2>3. /\ Sliced(Named, Static) \in Objects
        /\ Good(Sliced(Named, Static)) /\ Real(Sliced(Named, Static))
    BY <2>2, SlicedGood
  <2> QED
    BY <1>8, <2>1, <2>3, FlyKeeps DEF Throw
<1>9. ASSUME NEW name \in Names, NEW value \in Values, ThrowSet(name, value)
      PROVE  IInv'
  <2> DEFINE base == Sliced(Set(name, value), "exception_base_t")
  <2>1. /\ pc \in {"preparing", "handling"} /\ "exception_base_t" \in Is(Static)
        /\ Fly(base) /\ handlers' = handlers
    BY <1>9 DEF ThrowSet, HasParameters
  <2>2. /\ Named \in Objects /\ Good(Named) /\ Real(Named)
        /\ Static \in Types /\ Static \in Is(Named.type)
    BY <2>1, NamedFacts
  <2>3. Set(name, value) \in Objects /\ Good(Set(name, value)) /\ Same(Named, Set(name, value))
    BY <2>2, SetGood DEF Set
  <2>4. Named.type \in Types
    BY <2>2 DEF Objects
  <2>5. "exception_base_t" \in Is(Set(name, value).type) /\ Real(Set(name, value))
    BY <2>1, <2>2, <2>3, <2>4, TypesFacts DEF Same, Real
  <2>6. base \in Objects /\ Good(base) /\ Real(base)
    BY <2>3, <2>5, SlicedGood
  <2> QED
    BY <2>1, <2>6, FlyKeeps
<1>10. CASE OutOfMemory
  BY <1>10, NoneGood, FlyKeeps DEF OutOfMemory
<1>11. CASE Rethrow
  <2>1. Real(flying)
    BY <1>11 DEF Rethrow, IInv, Matched
  <2> QED
    BY <1>1, <1>2, <1>11, <2>1, FlyKeeps DEF Rethrow
<1>12. CASE FlyPast
  <2>1. /\ pc = "flying" /\ handlers # <<>> /\ Head(handlers).type \notin Is(flying.type)
        /\ passed' = passed \cup {Head(handlers).type} /\ handlers' = Tail(handlers)
        /\ pc' = pc /\ local' = local /\ flying' = flying /\ variable' = variable
       
    BY <1>12 DEF FlyPast
  <2>2. Head(handlers).type \in Types
    BY <1>4, <2>1
  <2>3. TypeOK' /\ AllGood'
    BY <1>1, <1>2, <1>4, <2>1, <2>2 DEF IInv, TypeOK, AllGood
  <2>4. Matched'
    BY <2>1 DEF IInv, Matched, Entered
  <2>5. NeverPassedOver'
    <3>1. Real(flying)
      BY <2>1 DEF IInv, Matched
    <3>2. NeverPassedOver
      BY DEF IInv
    <3>3. CASE {"std::exception", "exception_base_t"} \subseteq Is(flying.type)
      <4>1. passed' \cap {"std::exception", "exception_base_t"} =
            passed \cap {"std::exception", "exception_base_t"}
        BY <2>1, <3>3
      <4> QED
        BY <2>1, <3>2, <4>1, Zenon DEF NeverPassedOver
    <3>4. CASE flying.sliced \/ flying.type = "std::bad_alloc"
      BY <2>1, <3>4, Zenon DEF NeverPassedOver
    <3> QED
      BY <3>1, <3>3, <3>4, Zenon DEF Real
  <2> QED
    BY <2>3, <2>4, <2>5 DEF IInv
<1>13. CASE Catch
  <2> DEFINE h == Head(handlers)
             copy == IF h.byValue THEN Sliced(flying, h.type) ELSE None
  <2>1. /\ pc = "flying" /\ handlers # <<>> /\ h.type \in Is(flying.type)
        /\ variable' = [type |-> h.type, byValue |-> h.byValue, copy |-> copy]
        /\ handlers' = Tail(handlers) /\ pc' = "handling" /\ local' = local
        /\ flying' = flying /\ passed' = passed
    BY <1>13 DEF Catch
  <2>2. h \in [type : Types, byValue : BOOLEAN]
    BY <1>4, <2>1
  <2>3. Real(flying)
    BY <2>1 DEF IInv, Matched
  <2>4. CASE h.byValue
    <3>1. copy = Sliced(flying, h.type)
      BY <2>4
    <3>2. copy \in Objects /\ Good(copy) /\ copy.type = h.type /\ Real(copy)
      BY <1>1, <1>2, <2>1, <2>3, <3>1, SlicedGood
    <3> HIDE DEF h, copy
    <3>3. /\ variable' \in [type : Types, byValue : BOOLEAN, copy : Objects]
          /\ variable'.type = h.type /\ variable'.copy = copy
      BY <2>1, <2>2, <3>2
    <3>4. TypeOK' /\ AllGood'
      BY <1>1, <1>2, <1>4, <2>1, <3>2, <3>3 DEF TypeOK, AllGood
    <3>5. Matched'
      BY <2>1, <2>3, <3>2, <3>3 DEF Matched, Entered
    <3>6. NeverPassedOver'
      BY <2>1 DEF IInv, NeverPassedOver
    <3> QED
      BY <3>4, <3>5, <3>6 DEF IInv
  <2>5. CASE ~ h.byValue
    <3>1. copy = None
      BY <2>5
    <3> HIDE DEF h, copy
    <3>2. /\ variable' \in [type : Types, byValue : BOOLEAN, copy : Objects]
          /\ variable'.type = h.type /\ variable'.copy = None
          /\ variable'.byValue = h.byValue
      BY <2>1, <2>2, <3>1, NoneGood
    <3>3. TypeOK' /\ AllGood'
      BY <1>1, <1>2, <1>4, <2>1, <3>2, NoneGood DEF TypeOK, AllGood
    <3>4. Matched'
      BY <2>1, <2>3, <2>5, <3>2 DEF Matched, Entered
    <3>5. NeverPassedOver'
      BY <2>1 DEF IInv, NeverPassedOver
    <3> QED
      BY <3>3, <3>4, <3>5 DEF IInv
  <2> QED
    BY <2>4, <2>5
<1>14. CASE Terminate
  <2>1. /\ pc' = "terminated" /\ handlers' = handlers /\ local' = local /\ flying' = flying
        /\ variable' = variable /\ passed' = passed
    BY <1>14 DEF Terminate
  <2> QED
    BY <1>1, <1>2, <2>1 DEF IInv, TypeOK, AllGood, Matched, NeverPassedOver
<1>15. CASE Handled
  <2>1. /\ pc' = "running" /\ flying' = None /\ variable' = NoVariable /\ passed' = {}
        /\ handlers' = handlers /\ local' = local
    BY <1>15 DEF Handled
  <2> QED
    BY <1>1, <1>2, <1>3, <2>1, NoneGood DEF IInv, TypeOK, AllGood, Matched, NeverPassedOver
<1>16. CASE UNCHANGED vars
  BY <1>16 DEF vars, IInv, TypeOK, AllGood, Matched, Entered, NeverPassedOver
<1> QED
  BY <1>5, <1>6, <1>7, <1>8, <1>9, <1>10, <1>11, <1>12, <1>13, <1>14, <1>15, <1>16 DEF Next

-----------------------------------------------------------------------------
(***************************************************************************)
(* Every state of the objects that exception.cpp and the C++ runtime make, *)
(* complete, copy and throw satisfies the inductive invariant.             *)
(***************************************************************************)
THEOREM Invariant == Spec => []IInv
  BY InitIInv, NextIInv, PTL DEF Spec

(***************************************************************************)
(* The variables of the exceptions of exception.cpp keep their types.      *)
(***************************************************************************)
THEOREM TypeCorrect == Spec => []TypeOK
<1>1. IInv => TypeOK
  BY DEF IInv
<1> QED
  BY <1>1, Invariant, PTL

(***************************************************************************)
(* What holds of every good object, in the words of the properties.        *)
(***************************************************************************)
LEMMA GoodFacts ==
  ASSUME NEW o, Good(o)
  PROVE  /\ "exception_base_t" \in Is(o.type) =>
              \A name \in Names \ {""} : LastGiven(o.log, name, get_parameter(o, name))
         /\ o.type \notin {"std::exception", "std::bad_alloc", "exception_base_t"} =>
              \E n \in 0..Len(o.origin.message) :
                /\ o.text = Prefix(o.origin.type) \o SubSeq(o.origin.message, 1, n)
                /\ \A i \in 1..n : o.origin.message[i] # "NUL"
                /\ n < Len(o.origin.message) => o.origin.message[n + 1] = "NUL"
  BY Zenon DEF Good, Worded, Cut

(***************************************************************************)
(* get_parameter() of exception.cpp gives the last value given, whichever  *)
(* copy of the object was completed, thrown or caught since.               *)
(***************************************************************************)
THEOREM LastValueWinsCorrect == Spec => []LastValueWins
<1>1. IInv => LastValueWins
  BY GoodFacts DEF IInv, AllGood, LastValueWins, Based, Living
<1> QED
  BY <1>1, Invariant, PTL

(***************************************************************************)
(* what() of exception.cpp gives the message up to its first NUL, behind   *)
(* one prefix, in every object that has a message of its own.              *)
(***************************************************************************)
THEOREM MessageKeptCorrect == Spec => []MessageKept
<1>1. IInv => MessageKept
  <2> SUFFICES ASSUME IInv, NEW o \in Living,
                      o.type \notin {"std::exception", "std::bad_alloc", "exception_base_t"}
               PROVE  \E n \in 0..Len(o.origin.message) :
                        /\ o.text = Prefix(o.origin.type) \o SubSeq(o.origin.message, 1, n)
                        /\ \A i \in 1..n : o.origin.message[i] # "NUL"
                        /\ n < Len(o.origin.message) => o.origin.message[n + 1] = "NUL"
    BY Zenon DEF MessageKept
  <2>1. Good(o)
    BY DEF IInv, AllGood, Living
  <2> QED
    BY <2>1, GoodFacts, Zenon
<1> QED
  BY <1>1, Invariant, PTL

(***************************************************************************)
(* Handlers of std::exception and of exception_base_t let no exception of  *)
(* libexcept fly past that was not sliced, as by throw e.set_parameter().  *)
(***************************************************************************)
THEOREM NeverPassedOverCorrect == Spec => []NeverPassedOver
<1>1. IInv => NeverPassedOver
  BY DEF IInv
<1> QED
  BY <1>1, Invariant, PTL
=============================================================================
