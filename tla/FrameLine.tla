------------------------------ MODULE FrameLine ------------------------------
(***************************************************************************)
(* One line of a complete stack trace: how the loop body of                *)
(* collect_stack_trace_with_line_numbers() (libexcept/stack_trace.cpp)     *)
(* takes a raw line of backtrace_symbols() apart and puts an entry of the  *)
(* trace together.                                                         *)
(*                                                                         *)
(* A line is a sequence of tokens.  The characters the scanner stops at    *)
(* are tokens of their own: "(", "+", ")" and "]".  The four characters it *)
(* only ever tests together, right after a ")", are the token Bracket. Any *)
(* other token is a run of text.  No stop character occurs in Bracket or a *)
(* text, so that scanning tokens stops where scanning characters does.     *)
(* The spaces between the parts of an entry are left out.                  *)
(***************************************************************************)
EXTENDS Naturals, Sequences

\* The '\0' that ends a C string; no token of a line.
NUL == "NUL"

\* The beginning of the address.
Bracket == " [0x"

\* The character under the pointer s of the code.
At(line, i) == IF i \in 1..Len(line) THEN line[i] ELSE NUL

\* Mutant of Scan: the last stop character is taken instead of the first.
Scan_Last(line, i, stops) ==
  CHOOSE j \in i..Len(line) + 1 :
    /\ At(line, j) \in stops \cup {NUL}
    /\ \A k \in j + 1..Len(line) : At(line, k) \notin stops
    /\ At(line, j) = NUL => \A k \in i..j - 1 : At(line, k) \notin stops

\* while(*s != stop && *s != '\0') ++s, from position i.
Scan(line, i, stops) ==
  CHOOSE j \in i..Len(line) + 1 :
    /\ At(line, j) \in stops \cup {NUL}
    /\ \A k \in i..j - 1 : At(line, k) \notin stops

\* Mutant of AddressFollows: the text after the ")" is not tested.
AddressFollows_Any(line, rp) == TRUE

\* The closing ")" is followed by the beginning of an address.
AddressFollows(line, rp) == At(line, rp + 1) = Bracket

(***************************************************************************)
(* The fields of <filename>(<function-name>+<offset>) [<addr>].  "ok" says *)
(* that the scan reached the closing "]", the only case in which the code  *)
(* computes a result from the fields.                                      *)
(***************************************************************************)
Parse(line) ==
  LET lp    == Scan(line, 1, {"("})
      mid   == Scan(line, lp + 1, {"+", ")"})
      named == At(line, mid) = "+"
      rp    == IF named THEN Scan(line, mid + 1, {")"}) ELSE mid
      rb    == Scan(line, rp + 2, {"]"})
      ok    == /\ At(line, lp) = "("
               /\ At(line, rp) = ")"
               /\ AddressFollows(line, rp)
               /\ At(line, rb) = "]"
  IN  IF ok
      THEN [ok   |-> TRUE,
            file |-> SubSeq(line, 1, lp - 1),
            func |-> IF named THEN SubSeq(line, lp + 1, mid - 1) ELSE <<>>,
            addr |-> SubSeq(line, rp + 2, rb - 1)]
      ELSE [ok |-> FALSE, file |-> <<>>, func |-> <<>>, addr |-> <<>>]

\* What eu-addr2line prints when it finds no debug information.
Unknown == <<"??:0">>

\* demangle_cpp_name(): the ABI's answer when it accepts the name (status 0),
\* otherwise the name as it was given.
Demangle(name, valid) == IF valid THEN <<"demangled">> \o name ELSE name

\* The first half of a result: the line printed by eu-addr2line, or the file
\* and the address when the tool knows nothing.
Where(p, out) ==
  IF out = Unknown THEN p.file \o <<"[">> \o p.addr \o <<"]">> ELSE out

\* The second half of a result: the name of the function.
Name(p, valid) ==
  IF p.func # <<>> THEN <<"in">> \o Demangle(p.func, valid)
                   ELSE <<"<no function name>">>

\* The entry pushed for a raw line, given what the tool printed and whether the
\* demangler accepts the name; the raw line itself when there is no result.
Entry(line, out, valid) ==
  LET p      == Parse(line)
      result == IF p.ok THEN Where(p, out) \o Name(p, valid) ELSE <<>>
  IN  IF result = <<>> THEN line ELSE result
=============================================================================
