--------------------------- MODULE FrameConversion ---------------------------
(***************************************************************************)
(* The conversion of one frame, for every frame that backtrace_symbols()   *)
(* can describe and everything eu-addr2line and the demangler can answer.  *)
(* The frame is known here, so that the entry the code makes from its      *)
(* rendering can be compared with the frame itself.                        *)
(***************************************************************************)
EXTENDS FrameLine

CONSTANTS Words,      \* the texts in which the scanner never stops
          Files,      \* object file names, as sequences of tokens
          Funcs,      \* symbol names; <<>> when the address has no symbol
          Outputs     \* the lines eu-addr2line may print; <<>> for nothing

\* The tokens the scanner tests for.
Stops == {"(", "+", ")", "]", Bracket}

\* A file may have any name; a symbol is an identifier of the ABI.
ASSUME ConstantsAssumption ==
  /\ Words \cap (Stops \cup {NUL}) = {}
  /\ Files \subseteq Seq(Words \cup Stops)
  /\ Funcs \subseteq Seq(Words)
  /\ Outputs \subseteq Seq(Words)

VARIABLES frame,      \* the frame: its file, symbol, offset and address
          printed,    \* the line read from eu-addr2line
          entry       \* the entry made for it; <<>> before the conversion

vars == <<frame, printed, entry>>

\* "above" and "below": the address lies after or before the symbol (or the
\* base of the file); "none": neither a symbol nor a base is known.
Offsets == [above |-> <<"+", "0x1f">>, below |-> <<"-0x1f">>, none |-> <<>>]

Frames ==
  {f \in [file : Files \cup {<<>>}, func : Funcs, off : DOMAIN Offsets, addr : {<<"c0de">>}] :
     f.off = "none" => f.func = <<>>}

\* The line that backtrace_symbols() of the C library writes for a frame.
Render(f) ==
  IF f.file = <<>>
  THEN <<"[0x">> \o f.addr \o <<"]">>
  ELSE f.file \o <<"(">> \o f.func \o Offsets[f.off]
         \o <<")", Bracket>> \o f.addr \o <<"]">>

Init == /\ frame \in Frames
        /\ printed = <<>>
        /\ entry = <<>>

\* One iteration of the loop over the frames.
Convert == /\ entry = <<>>
           /\ printed' \in Outputs
           /\ \E valid \in BOOLEAN : entry' = Entry(Render(frame), printed', valid)
           /\ UNCHANGED frame

Next == Convert

Spec == Init /\ [][Next]_vars

-----------------------------------------------------------------------------
Tokens(line) == {line[i] : i \in DOMAIN line}

\* Every "(" of the file name is closed inside the name.
Closed(file) ==
  \A i \in DOMAIN file : file[i] = "(" => \E j \in DOMAIN file : j > i /\ file[j] = ")"

\* The name itself has what follows the ")" of a raw line.
Imitates(file) == \E i \in DOMAIN file : file[i] = ")" /\ At(file, i + 1) = Bracket

\* The fields of a frame, as the reader of the trace should see them.
Fields(f) == [ok   |-> TRUE,
              file |-> f.file,
              func |-> IF f.off = "above" THEN f.func ELSE <<>>,
              addr |-> f.addr]

\* The entries that describe a frame truthfully, given what the tool
\* printed.
Truthful(f, out) ==
  {Where(Fields(f), out) \o Name(Fields(f), valid) : valid \in BOOLEAN}

(***************************************************************************)
(* A frame of a file whose name has no "(" is taken apart exactly: the     *)
(* scanner of stack_trace.cpp recovers the file, the function and the      *)
(* address that backtrace_symbols() wrote, whatever else is in the name.   *)
(* Only when the address lies below its symbol, which is written with a    *)
(* "-", is the function left blank although the line names it.             *)
(***************************************************************************)
FieldsRecovered ==
  (frame.file # <<>> /\ "(" \notin Tokens(frame.file)) =>
    Parse(Render(frame)) = Fields(frame)

(***************************************************************************)
(* An entry never blames the wrong file or function: as long as the        *)
(* parentheses of the file name are closed, and none of them is followed   *)
(* by " [0x", the entry pushed by the loop of stack_trace.cpp is the raw   *)
(* line or a truthful description of the frame.                            *)
(***************************************************************************)
NeverMislabels ==
  (entry # <<>> /\ Closed(frame.file) /\ ~Imitates(frame.file)) =>
    entry \in {Render(frame)} \cup Truthful(frame, printed)

(***************************************************************************)
(* stack_trace.cpp:299 says that the raw line is used as a fallback when   *)
(* the line cannot be parsed "or a conversion somehow fails": when         *)
(* eu-addr2line prints nothing at all, the entry is the raw line.          *)
(***************************************************************************)
RawLineWhenConversionFails ==
  (entry # <<>> /\ printed = <<>>) => entry = Render(frame)
=============================================================================
