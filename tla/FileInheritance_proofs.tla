----------------------- MODULE FileInheritance_proofs -----------------------
(***************************************************************************)
(* Proofs about FileInheritance, for any number of descriptors up to 100,  *)
(* any inherited and allowed descriptors, any size of the buffer, and      *)
(* whatever the other threads and the parents do.                          *)
(***************************************************************************)
EXTENDS FileInheritance, FiniteSetTheorems, WellFoundedInduction, TLAPS

Exempt == Standard \cup Allowed

\* The entries readdir() has not returned yet, as a set.
Entries(s) == {s[i] : i \in 1..Len(s)}

(***************************************************************************)
(* The comparison of the characters of a name in verify_inherited_files()  *)
(* skips ".", ".." and the standard streams, and no other descriptor.      *)
(***************************************************************************)
LEMMA SkippedNameFacts ==
  ASSUME NEW p \in -2..99
  PROVE  SkippedName(Basename(p)) <=> p \in {-2, -1} \cup Standard
<1>1. CASE p \in -2..9
  BY <1>1 DEF SkippedName, Basename, Digits, Standard
<1>2. CASE p \in 10..99
  <2> DEFINE d == p \div 10
             m == p % 10
  <2>1. d \in 1..9 /\ m \in 0..9
    BY <1>2
  <2>2. Basename(p) = <<Digits[d + 1], Digits[m + 1]>>
    BY <1>2 DEF Basename
  <2> HIDE DEF d, m
  <2>3. Digits[d + 1] # "."
    BY <2>1 DEF Digits
  <2>4. Len(Basename(p)) = 2 /\ Basename(p)[1] # "."
    BY <2>2, <2>3
  <2> QED
    BY <1>2, <2>4 DEF SkippedName, Standard
<1> QED
  BY <1>1, <1>2

(***************************************************************************)
(* What Append adds to the entries, and Tail takes away.                   *)
(***************************************************************************)
LEMMA AppendEntries ==
  ASSUME NEW S, NEW s \in Seq(S), NEW e \in S
  PROVE  /\ Append(s, e) \in Seq(S)
         /\ Entries(Append(s, e)) = Entries(s) \cup {e}
<1>1. /\ Len(s) \in Nat
      /\ Len(Append(s, e)) = Len(s) + 1
      /\ \A i \in 1..Len(s) : Append(s, e)[i] = s[i]
      /\ Append(s, e)[Len(s) + 1] = e
  OBVIOUS
<1> QED
  BY <1>1 DEF Entries

LEMMA TailEntries ==
  ASSUME NEW S, NEW s \in Seq(S), s # <<>>
  PROVE  /\ Tail(s) \in Seq(S) /\ Head(s) \in S
         /\ Entries(s) = {Head(s)} \cup Entries(Tail(s))
<1>1. /\ Len(s) \in Nat \ {0}
      /\ Tail(s) \in Seq(S) /\ Head(s) = s[1] /\ Head(s) \in S
      /\ Len(Tail(s)) = Len(s) - 1
      /\ \A i \in 1..Len(s) - 1 : Tail(s)[i] = s[i + 1]
  OBVIOUS
<1>2. ASSUME NEW x \in Entries(s)
      PROVE  x \in {Head(s)} \cup Entries(Tail(s))
  <2>1. PICK i \in 1..Len(s) : x = s[i]
    BY DEF Entries
  <2>2. CASE i = 1
    BY <1>1, <2>1, <2>2
  <2>3. CASE i # 1
    <3>1. i - 1 \in 1..Len(s) - 1 /\ Tail(s)[i - 1] = s[(i - 1) + 1]
      BY <1>1, <2>1, <2>3
    <3> QED
      BY <1>1, <2>1, <3>1 DEF Entries
  <2> QED
    BY <2>2, <2>3
<1>3. ASSUME NEW x \in {Head(s)} \cup Entries(Tail(s))
      PROVE  x \in Entries(s)
  <2>1. CASE x = Head(s)
    BY <1>1, <2>1 DEF Entries
  <2>2. CASE x \in Entries(Tail(s))
    <3>1. PICK i \in 1..Len(s) - 1 : x = Tail(s)[i]
      BY <1>1, <2>2 DEF Entries
    <3>2. i + 1 \in 1..Len(s) /\ x = s[i + 1]
      BY <1>1, <3>1
    <3> QED
      BY <3>2 DEF Entries
  <2> QED
    BY <1>3, <2>1, <2>2
<1> QED
  BY <1>1, <1>2, <1>3
-----------------------------------------------------------------------------
\* The descriptors of the scan are its own.
Own ==
  /\ files \cap dir = {} /\ files \cap cmdline = {} /\ dir \cap cmdline = {}
  /\ pc \in {"over", "opendir"} => dir = {}
  /\ pc # "warn" => cmdline = {}

\* The entry at the head of the buffer is being reported.
Reporting == pc \in {"report", "getppid", "open", "warn"}

\* What stands in the buffer, and at its head.
Buffered ==
  /\ pc \in {"opendir", "end", "over"} => buffer = <<>>
  /\ Entries(buffer) \subseteq {-2, -1} \cup used \cup dir
  /\ Reporting => buffer # <<>> /\ ~Skipped(Head(buffer))
  /\ pc \in {"getppid", "open", "warn"} /\ warning.file # "inherited" => Head(buffer) \notin steady

\* A descriptor that is behind the kernel's position and that was inherited and never
\* closed is exempt, in the buffer or reported, unless the scan was left in the middle.
Found == outcome # "bad_alloc" =>
  /\ pc \in {"end", "over"} => pos > MaxFd
  /\ \A fd \in steady :
       fd < pos => \/ fd \in Exempt
                   \/ fd \in Entries(buffer)
                   \/ \E w \in reported : w.fd = fd /\ w.file = "inherited"

\* The warnings and their number; how the function ended.
Counted ==
  /\ errcnt = 0 <=> reported = {}
  /\ outcome # "none" => pc = "over" /\ outcome \in {Outcome, "bad_alloc"}

\* The parents are told in the order of their lives: those of the warnings, then those
\* of the one being put together, then the present one.
Times ==
  /\ \A w \in reported : \A p \in w.cmdline : p <= parent
  /\ pc \in {"getppid", "open", "warn"} =>
       /\ warning.ppid <= parent
       /\ \A w \in reported : \A p \in w.cmdline : p <= warning.ppid
  /\ pc \in {"open", "warn"} => warning.ppid <= warning.asked /\ warning.asked <= parent

IInv == TypeOK /\ Own /\ Buffered /\ Found /\ ReportsAreFiles /\ Counted /\ Times
              /\ MixedOncePerDeath

LEMMA FreeFacts ==
  /\ Lowest(Free) \subseteq 0..MaxFd
  /\ Lowest(Free) \cap (files \cup dir \cup cmdline) = {}
BY DEF Lowest, Free

(***************************************************************************)
(* The invariant holds at first.                                           *)
(***************************************************************************)
LEMMA InitInvariant == Init => IInv
<1> SUFFICES ASSUME Init
             PROVE  IInv
  OBVIOUS
<1> USE ConstantsAssumption
<1>1. files \subseteq 0..MaxFd /\ MaxFd \in 0..99 /\ Entries(buffer) = {}
  BY DEF Init, Entries
<1>2. TypeOK
  <2>1. buffer \in Seq(-2..MaxFd)
    BY DEF Init
  <2>2. warning \in [file : Links, ppid : 0..MaxDeaths, asked : 0..MaxDeaths]
    <3>1. 0 \in 0..MaxDeaths
      OBVIOUS
    <3> QED
      BY <3>1 DEF Init, NoWarning, Links
  <2>3. pos \in -2..MaxFd + 1 /\ parent \in 0..MaxDeaths /\ changes \in 0..MaxChanges
    BY DEF Init
  <2>4. debug \in BOOLEAN
    BY DEF Init
  <2> QED
    BY <1>1, <2>1, <2>2, <2>3, <2>4 DEF Init, TypeOK
<1>3. Own /\ Buffered /\ Counted /\ Times
  BY <1>1 DEF Init, Own, Buffered, Counted, Times, Reporting
<1>4. Found /\ ReportsAreFiles /\ MixedOncePerDeath
  BY <1>1 DEF Init, Found, ReportsAreFiles, MixedOncePerDeath
<1> QED
  BY <1>2, <1>3, <1>4 DEF IInv

(***************************************************************************)
(* The other threads: what they open is no descriptor of the scan, what    *)
(* they close is no longer steady.                                         *)
(***************************************************************************)
LEMMA OpenInvariant ==
  ASSUME IInv, Open
  PROVE  IInv'
<1>1. /\ files' \subseteq 0..MaxFd /\ used' \subseteq 0..MaxFd /\ steady' = steady
      /\ files \subseteq files' /\ used \subseteq used' /\ files' \subseteq used'
      /\ files' \cap dir = {} /\ files' \cap cmdline = {}
      /\ changes' \in 0..MaxChanges
  <2>1. /\ Lowest(Free) \subseteq 0..MaxFd
        /\ Lowest(Free) \cap dir = {} /\ Lowest(Free) \cap cmdline = {}
    BY FreeFacts
  <2>2. /\ files' = files \cup Lowest(Free) /\ used' = used \cup Lowest(Free)
        /\ steady' = steady /\ changes < MaxChanges /\ changes' = changes + 1
    BY DEF Open
  <2>3. /\ files \subseteq 0..MaxFd /\ used \subseteq 0..MaxFd /\ files \subseteq used
        /\ changes \in 0..MaxChanges /\ files \cap dir = {} /\ files \cap cmdline = {}
    BY DEF IInv, TypeOK, Own
  <2>4. changes' \in 0..MaxChanges
    BY <2>2, <2>3, ConstantsAssumption
  <2> QED
    BY <2>1, <2>2, <2>3, <2>4
<1>2. UNCHANGED <<debug, parent, steady, scan>>
  BY DEF Open
<1> USE <1>1, <1>2 DEF IInv, scan
<1>3. TypeOK'
  BY DEF TypeOK
<1>4. Own'
  BY DEF Own
<1>5. Buffered'
  BY DEF Buffered, Skipped, Reporting
<1>6. Found' /\ ReportsAreFiles'
  BY DEF Found, ReportsAreFiles
<1>7. Counted' /\ Times' /\ MixedOncePerDeath'
  BY DEF Counted, Times, MixedOncePerDeath, Outcome
<1> QED
  BY <1>3, <1>4, <1>5, <1>6, <1>7

LEMMA CloseInvariant ==
  ASSUME IInv, NEW fd \in files, Close(fd)
  PROVE  IInv'
<1>1. /\ files' \subseteq files /\ steady' \subseteq files' /\ steady' \subseteq steady
      /\ used' = used
      /\ changes' \in 0..MaxChanges
  BY ConstantsAssumption DEF IInv, TypeOK, Close
<1>2. UNCHANGED <<debug, parent, used, scan>>
  BY DEF Close
<1> USE <1>1, <1>2 DEF IInv, scan
<1>3. TypeOK'
  BY DEF TypeOK
<1>4. Own'
  BY DEF Own
<1>5. Buffered'
  BY DEF Buffered, Skipped, Reporting
<1>6. Found' /\ ReportsAreFiles'
  BY DEF Found, ReportsAreFiles
<1>7. Counted' /\ Times' /\ MixedOncePerDeath'
  BY DEF Counted, Times, MixedOncePerDeath, Outcome
<1> QED
  BY <1>3, <1>4, <1>5, <1>6, <1>7

(***************************************************************************)
(* A parent that dies was among the warnings' parents, the next one not.   *)
(***************************************************************************)
LEMMA ParentDiesInvariant ==
  ASSUME IInv, ParentDies
  PROVE  IInv'
<1>1. parent \in 0..MaxDeaths /\ parent' = parent + 1 /\ parent' \in 0..MaxDeaths
  BY ConstantsAssumption DEF IInv, TypeOK, ParentDies
<1>2. UNCHANGED <<debug, files, changes, steady, used, scan>>
  BY DEF ParentDies
<1> USE <1>1, <1>2 DEF IInv, scan
<1>3. TypeOK' /\ Own' /\ Found' /\ ReportsAreFiles' /\ MixedOncePerDeath'
  BY DEF TypeOK, Own, Found, ReportsAreFiles, MixedOncePerDeath
<1>4. Buffered' /\ Counted'
  BY DEF Buffered, Skipped, Reporting, Counted, Outcome
<1>5. Times'
  <2>1. /\ \A w \in reported : \A p \in w.cmdline : p \in 0..MaxDeaths
        /\ warning.ppid \in 0..MaxDeaths /\ warning.asked \in 0..MaxDeaths
    BY DEF TypeOK
  <2>2. Times
    OBVIOUS
  <2> QED
    BY <2>1, <2>2, ConstantsAssumption DEF Times
<1> QED
  BY <1>3, <1>4, <1>5

(***************************************************************************)
(* opendir() takes a free descriptor, when no entry has been read.         *)
(***************************************************************************)
LEMMA OpendirInvariant ==
  ASSUME IInv, Opendir
  PROVE  IInv'
<1>1. /\ pc = "opendir" /\ pc' \in {"crashed", "getdents"}
      /\ dir' = Lowest(Free) /\ cmdline' = cmdline /\ cmdline = {} /\ buffer = <<>>
  BY DEF IInv, Own, Buffered, Opendir
<1>2. /\ dir' \subseteq 0..MaxFd /\ files \cap dir' = {}
  BY <1>1, FreeFacts
<1>3. UNCHANGED <<env, pos, buffer, warning, reported, errcnt, outcome>>
  BY DEF Opendir
<1> USE <1>1, <1>2, <1>3 DEF IInv, env
<1>4. TypeOK'
  BY DEF TypeOK
<1>5. Own'
  BY DEF Own
<1>6. Buffered'
  BY DEF Buffered, Reporting, Entries
<1>7. Found' /\ ReportsAreFiles'
  BY DEF Found, ReportsAreFiles
<1>8. Counted' /\ Times' /\ MixedOncePerDeath'
  BY DEF Counted, Times, MixedOncePerDeath
<1> QED
  BY <1>4, <1>5, <1>6, <1>7, <1>8

(***************************************************************************)
(* getdents() puts the descriptor at its position into the buffer when it  *)
(* is open: no steady descriptor is passed without an entry.               *)
(***************************************************************************)
LEMMA GetdentsInvariant ==
  ASSUME IInv, Getdents
  PROVE  IInv'
<1>1. /\ pc = "getdents" /\ pos <= MaxFd /\ pos' = pos + 1
      /\ buffer' = IF Listed(pos) THEN Append(buffer, pos) ELSE buffer
      /\ UNCHANGED <<env, pc, dir, cmdline, warning, reported, errcnt, outcome>>
  BY DEF Getdents
<1>2. /\ pos \in -2..MaxFd /\ pos' \in -2..MaxFd + 1
      /\ buffer \in Seq(-2..MaxFd) /\ cmdline = {}
      /\ steady \subseteq files /\ files \subseteq used /\ steady \subseteq 0..MaxFd
  BY <1>1, ConstantsAssumption DEF IInv, TypeOK, Own
<1>5. /\ buffer' \in Seq(-2..MaxFd)
      /\ Entries(buffer) \subseteq Entries(buffer')
      /\ Entries(buffer') \subseteq Entries(buffer) \cup ({pos} \cap ({-2, -1} \cup used \cup dir))
      /\ pos \in steady => pos \in Entries(buffer')
  <2>1. CASE Listed(pos)
    <3>1. /\ buffer' \in Seq(-2..MaxFd)
          /\ Entries(buffer') = Entries(buffer) \cup {pos}
      <4> DEFINE S == -2..MaxFd
      <4>1. buffer \in Seq(S) /\ pos \in S
        BY <1>2
      <4> HIDE DEF S
      <4>2. /\ Append(buffer, pos) \in Seq(S)
            /\ Entries(Append(buffer, pos)) = Entries(buffer) \cup {pos}
        BY <4>1, AppendEntries
      <4> QED
        BY <1>1, <2>1, <4>2 DEF S
    <3>2. pos \in {-2, -1} \cup used \cup dir
      BY <1>2, <2>1 DEF Listed
    <3> QED
      BY <3>1, <3>2
  <2>2. CASE ~Listed(pos)
    BY <1>1, <1>2, <2>2 DEF Listed
  <2> QED
    BY <2>1, <2>2
<1> USE DEF IInv, env
<1>6. TypeOK'
  BY <1>1, <1>2, <1>5 DEF TypeOK
<1>7. Own'
  BY <1>1 DEF Own
<1>8. Buffered'
  BY <1>1, <1>5 DEF Buffered, Reporting
<1>9. Found'
  <2> SUFFICES ASSUME outcome # "bad_alloc", NEW fd \in steady, fd < pos'
               PROVE  \/ fd \in Exempt
                      \/ fd \in Entries(buffer')
                      \/ \E w \in reported : w.fd = fd /\ w.file = "inherited"
    BY <1>1 DEF Found
  <2>1. fd < pos \/ fd = pos
    BY <1>1, <1>2
  <2> QED
    BY <1>5, <2>1 DEF Found
<1>10. ReportsAreFiles' /\ Counted' /\ Times' /\ MixedOncePerDeath'
  BY <1>1 DEF ReportsAreFiles, Counted, Times, MixedOncePerDeath
<1> QED
  BY <1>6, <1>7, <1>8, <1>9, <1>10

(***************************************************************************)
(* An empty buffer after getdents() means the end of the directory.        *)
(***************************************************************************)
LEMMA GetdentsReturnsInvariant ==
  ASSUME IInv, GetdentsReturns
  PROVE  IInv'
<1>1. /\ pc = "getdents" /\ pc' \in {"end", "readdir"}
      /\ pc' = "end" => buffer = <<>> /\ pos > MaxFd
      /\ UNCHANGED <<env, dir, cmdline, pos, buffer, warning, reported, errcnt, outcome>>
  BY ConstantsAssumption DEF GetdentsReturns
<1> USE <1>1 DEF IInv, env
<1>2. TypeOK' /\ Own' /\ Buffered'
  BY DEF TypeOK, Own, Buffered, Reporting
<1>3. Found' /\ ReportsAreFiles' /\ Counted' /\ Times' /\ MixedOncePerDeath'
  BY DEF Found, ReportsAreFiles, Counted, Times, MixedOncePerDeath
<1> QED
  BY <1>2, <1>3

LEMMA ReaddirRefillsInvariant ==
  ASSUME IInv, ReaddirRefills
  PROVE  IInv'
<1>1. /\ pc = "readdir" /\ pc' = "getdents"
      /\ UNCHANGED <<env, dir, cmdline, pos, buffer, warning, reported, errcnt, outcome>>
  BY DEF ReaddirRefills
<1> USE <1>1 DEF IInv, env
<1>2. TypeOK' /\ Own' /\ Buffered'
  BY DEF TypeOK, Own, Buffered, Reporting
<1>3. Found' /\ ReportsAreFiles' /\ Counted' /\ Times' /\ MixedOncePerDeath'
  BY DEF Found, ReportsAreFiles, Counted, Times, MixedOncePerDeath
<1> QED
  BY <1>2, <1>3

(***************************************************************************)
(* What readdir() drops is no steady descriptor that is not exempt.        *)
(***************************************************************************)
LEMMA ReaddirInvariant ==
  ASSUME IInv, Readdir
  PROVE  IInv'
<1>1. /\ pc = "readdir" /\ buffer # <<>>
      /\ UNCHANGED <<env, dir, cmdline, pos, warning, reported, errcnt, outcome>>
  BY DEF Readdir
<1>2. /\ buffer \in Seq(-2..MaxFd) /\ steady \subseteq files /\ files \cap dir = {}
      /\ files \subseteq 0..MaxFd
  BY DEF IInv, TypeOK, Own
<1>3. /\ Tail(buffer) \in Seq(-2..MaxFd) /\ Head(buffer) \in -2..MaxFd
      /\ Entries(buffer) = {Head(buffer)} \cup Entries(Tail(buffer))
  <2> DEFINE S == -2..MaxFd
  <2>1. buffer \in Seq(S)
    BY <1>2
  <2> HIDE DEF S
  <2>2. /\ Tail(buffer) \in Seq(S) /\ Head(buffer) \in S
        /\ Entries(buffer) = {Head(buffer)} \cup Entries(Tail(buffer))
    BY <1>1, <2>1, TailEntries
  <2> QED
    BY <2>2 DEF S
<1>4. /\ Head(buffer) \in -2..99
      /\ SkippedName(Basename(Head(buffer))) <=> Head(buffer) \in {-2, -1} \cup Standard
  <2>1. Head(buffer) \in -2..99
    <3>1. \A p \in -2..MaxFd : p \in -2..99
      BY ConstantsAssumption
    <3> QED
      BY <1>3, <3>1
  <2> QED
    BY <2>1, SkippedNameFacts
<1> USE DEF IInv, env
<1>5. CASE Skipped(Head(buffer))
  <2>1. pc' = pc /\ buffer' = Tail(buffer)
    BY <1>1, <1>5 DEF Readdir
  <2>2. Head(buffer) \in steady => Head(buffer) \in Exempt
    <3> DEFINE h == Head(buffer)
    <3>1. /\ SkippedName(Basename(h)) \/ h \in dir \/ h \in Allowed
          /\ SkippedName(Basename(h)) => h \in {-2, -1} \cup Standard
      BY <1>4, <1>5 DEF Skipped
    <3> HIDE DEF h
    <3>2. h \in steady => h \in 0..MaxFd /\ h \notin dir
      BY <1>2
    <3>3. h \in steady => h \in Exempt
      BY <3>1, <3>2, ConstantsAssumption DEF Exempt
    <3> QED
      BY <3>3 DEF h
  <2>3. TypeOK' /\ Own' /\ Buffered'
    BY <1>1, <1>3, <2>1 DEF TypeOK, Own, Buffered, Reporting
  <2>4. Found'
    BY <1>1, <1>3, <2>1, <2>2 DEF Found
  <2>5. ReportsAreFiles' /\ Counted' /\ Times' /\ MixedOncePerDeath'
    BY <1>1, <2>1 DEF ReportsAreFiles, Counted, Times, MixedOncePerDeath
  <2> QED
    BY <2>3, <2>4, <2>5
<1>6. CASE ~Skipped(Head(buffer))
  <2>1. pc' = "report" /\ buffer' = buffer
    BY <1>1, <1>6 DEF Readdir
  <2>2. TypeOK' /\ Own' /\ Buffered'
    BY <1>1, <1>6, <2>1 DEF TypeOK, Own, Buffered, Reporting, Skipped
  <2>3. Found' /\ ReportsAreFiles' /\ Counted' /\ Times' /\ MixedOncePerDeath'
    BY <1>1, <2>1 DEF Found, ReportsAreFiles, Counted, Times, MixedOncePerDeath
  <2> QED
    BY <2>2, <2>3
<1> QED
  BY <1>5, <1>6

(***************************************************************************)
(* readlink() gives the inherited file of a steady descriptor; the parents *)
(* of the earlier warnings are no younger than the one of this PID.        *)
(***************************************************************************)
LEMMA ReadlinkInvariant ==
  ASSUME IInv, Readlink
  PROVE  IInv'
<1>1. /\ pc = "report" /\ pc' = "getppid"
      /\ warning' = [file |-> Link(Head(buffer)), ppid |-> parent, asked |-> 0]
      /\ UNCHANGED <<env, dir, cmdline, pos, buffer, reported, errcnt, outcome>>
  BY DEF Readlink, Printed
<1>2. /\ Link(Head(buffer)) \in Links
      /\ Link(Head(buffer)) # "inherited" => Head(buffer) \notin steady
  BY DEF Link, Links
<1>3. parent \in 0..MaxDeaths /\ 0 \in 0..MaxDeaths
  BY ConstantsAssumption DEF IInv, TypeOK
<1> USE DEF IInv, env
<1>4. TypeOK' /\ Own'
  BY <1>1, <1>2, <1>3 DEF TypeOK, Own
<1>5. Buffered'
  BY <1>1, <1>2 DEF Buffered, Reporting, Skipped
<1>6. Found' /\ ReportsAreFiles' /\ Counted' /\ MixedOncePerDeath'
  BY <1>1 DEF Found, ReportsAreFiles, Counted, MixedOncePerDeath
<1>7. Times'
  BY <1>1, <1>3 DEF Times
<1> QED
  BY <1>4, <1>5, <1>6, <1>7

LEMMA GetppidInvariant ==
  ASSUME IInv, Getppid
  PROVE  IInv'
<1>1. /\ pc = "getppid" /\ pc' = "open"
      /\ warning' = [warning EXCEPT !.asked = parent]
      /\ UNCHANGED <<env, dir, cmdline, pos, buffer, reported, errcnt, outcome>>
  BY DEF Getppid
<1>2. /\ warning' \in [file : Links, ppid : 0..MaxDeaths, asked : 0..MaxDeaths]
      /\ warning'.file = warning.file /\ warning'.ppid = warning.ppid
      /\ warning'.asked = parent /\ parent \in 0..MaxDeaths
  BY <1>1 DEF IInv, TypeOK
<1> USE DEF IInv, env
<1>3. TypeOK' /\ Own'
  BY <1>1, <1>2 DEF TypeOK, Own
<1>4. Buffered'
  BY <1>1, <1>2 DEF Buffered, Reporting, Skipped
<1>5. Found' /\ ReportsAreFiles' /\ Counted' /\ MixedOncePerDeath'
  BY <1>1 DEF Found, ReportsAreFiles, Counted, MixedOncePerDeath
<1>6. Times'
  BY <1>1, <1>2 DEF Times
<1> QED
  BY <1>3, <1>4, <1>5, <1>6

LEMMA OpenCmdlineInvariant ==
  ASSUME IInv, OpenCmdline
  PROVE  IInv'
<1>1. /\ pc = "open" /\ pc' = "warn"
      /\ cmdline' = Lowest(Free) \/ cmdline' = {}
      /\ UNCHANGED <<env, dir, pos, buffer, warning, reported, errcnt, outcome>>
  BY DEF OpenCmdline
<1>2. cmdline' \subseteq 0..MaxFd /\ files \cap cmdline' = {} /\ dir \cap cmdline' = {}
  BY <1>1, FreeFacts
<1> USE DEF IInv, env
<1>3. TypeOK'
  BY <1>1, <1>2 DEF TypeOK
<1>4. Own'
  BY <1>1, <1>2 DEF Own
<1>5. Buffered'
  BY <1>1 DEF Buffered, Reporting, Skipped
<1>6. Found' /\ ReportsAreFiles' /\ Counted' /\ MixedOncePerDeath' /\ Times'
  BY <1>1 DEF Found, ReportsAreFiles, Counted, MixedOncePerDeath, Times
<1> QED
  BY <1>3, <1>4, <1>5, <1>6

(***************************************************************************)
(* The warning is about a file of the application, the inherited one when  *)
(* the descriptor is steady; its parents are younger than all before.      *)
(***************************************************************************)
LEMMA WarnInvariant ==
  ASSUME IInv, Warn
  PROVE  IInv'
<1> DEFINE h == Head(buffer)
           c == IF cmdline # {} /\ warning.asked = parent THEN {parent} ELSE {}
           new == [fd |-> h, file |-> warning.file, ppid |-> warning.ppid, cmdline |-> c]
<1>1. /\ pc = "warn" /\ pc' = "readdir"
      /\ reported' = reported \cup {new}
      /\ cmdline' = {} /\ warning' = NoWarning /\ errcnt' = errcnt + 1
      /\ buffer' = Tail(buffer)
      /\ UNCHANGED <<env, dir, pos, outcome>>
  BY DEF Warn, Incremented
<1>2. /\ buffer \in Seq(-2..MaxFd) /\ buffer # <<>>
      /\ SkippedName(Basename(h)) \/ h \in dir \/ h \in Allowed => FALSE
      /\ Entries(buffer) \subseteq {-2, -1} \cup used \cup dir
      /\ warning.file # "inherited" => h \notin steady
  BY <1>1 DEF IInv, TypeOK, Buffered, Reporting, Skipped
<1>3. /\ Tail(buffer) \in Seq(-2..MaxFd) /\ h \in -2..MaxFd
      /\ Entries(buffer) = {h} \cup Entries(Tail(buffer))
  <2> DEFINE S == -2..MaxFd
  <2>1. buffer \in Seq(S)
    BY <1>2
  <2> HIDE DEF S
  <2>2. /\ Tail(buffer) \in Seq(S) /\ Head(buffer) \in S
        /\ Entries(buffer) = {Head(buffer)} \cup Entries(Tail(buffer))
    BY <1>2, <2>1, TailEntries
  <2> QED
    BY <2>2 DEF S
<1>4. h \notin {-2, -1} \cup Standard
  <2>1. \A p \in -2..MaxFd : p \in -2..99
    BY ConstantsAssumption
  <2>2. h \in -2..99
    BY <1>3, <2>1
  <2> QED
    BY <1>2, <2>2, SkippedNameFacts
<1>5. h \in used \ (Standard \cup Allowed) /\ h \in 0..MaxFd
  <2>1. h \in used \ (Standard \cup Allowed)
    BY <1>2, <1>3, <1>4
  <2> QED
    BY <2>1 DEF IInv, TypeOK
<1>6. /\ parent \in 0..MaxDeaths /\ warning.ppid \in 0..MaxDeaths
      /\ warning.ppid <= parent
      /\ c \in {{}, {parent}}
      /\ \A w \in reported : \A p \in w.cmdline : p \in 0..MaxDeaths /\ p <= warning.ppid
  BY <1>1 DEF IInv, TypeOK, Times
<1>7. /\ new.fd = h /\ new.file = warning.file /\ new.ppid = warning.ppid /\ new.cmdline = c
      /\ warning.file \in Links
      /\ NoWarning \in [file : Links, ppid : 0..MaxDeaths, asked : 0..MaxDeaths]
  <2>1. 0 \in 0..MaxDeaths
    BY ConstantsAssumption
  <2> QED
    BY <2>1 DEF IInv, TypeOK, NoWarning, Links
<1>8. new \in [fd : 0..MaxFd, file : Links, ppid : 0..MaxDeaths, cmdline : SUBSET (0..MaxDeaths)]
  <2>1. c \in SUBSET (0..MaxDeaths)
    BY <1>6
  <2> QED
    BY <1>5, <1>6, <1>7, <2>1
<1> HIDE DEF h, c, new
<1> USE DEF IInv, env
<1>9. TypeOK'
  BY <1>1, <1>3, <1>7, <1>8 DEF TypeOK
<1>10. Own'
  BY <1>1 DEF Own
<1>11. Buffered'
  BY <1>1, <1>2, <1>3 DEF Buffered, Reporting
<1>12. Found'
  <2> SUFFICES ASSUME outcome # "bad_alloc", NEW fd \in steady, fd < pos
               PROVE  \/ fd \in Exempt
                      \/ fd \in Entries(buffer')
                      \/ \E w \in reported' : w.fd = fd /\ w.file = "inherited"
    BY <1>1 DEF Found
  <2>1. CASE fd = h
    BY <1>1, <1>2, <1>7, <2>1
  <2>2. CASE fd # h
    BY <1>1, <1>3, <2>2 DEF Found
  <2> QED
    BY <2>1, <2>2
<1>13. ReportsAreFiles'
  BY <1>1, <1>2, <1>5, <1>7 DEF ReportsAreFiles
<1>14. Counted'
  <2>1. errcnt' # 0 /\ reported' # {}
    BY <1>1 DEF TypeOK
  <2> QED
    BY <1>1, <2>1 DEF Counted
<1>15. Times'
  BY <1>1, <1>6, <1>7 DEF Times
<1>16. MixedOncePerDeath'
  <2> SUFFICES ASSUME NEW v \in reported', NEW w \in reported',
                      Mixed(v), Mixed(w), v.cmdline = w.cmdline
               PROVE  v = w
    BY DEF MixedOncePerDeath
  <2>1. ASSUME Mixed(new), NEW x \in reported, x.cmdline = new.cmdline
        PROVE  FALSE
    <3>1. new.cmdline = {parent} /\ warning.ppid < parent
      BY <1>6, <1>7, <2>1 DEF Mixed
    <3> QED
      BY <1>6, <2>1, <3>1
  <2>2. CASE v \in reported /\ w \in reported
    BY <2>2 DEF MixedOncePerDeath
  <2>3. CASE v = new \/ w = new
    BY <1>1, <2>1, <2>3
  <2> QED
    BY <1>1, <2>2, <2>3
<1> QED
  BY <1>9, <1>10, <1>11, <1>12, <1>13, <1>14, <1>15, <1>16

(***************************************************************************)
(* The end of the function closes the directory on both paths.             *)
(***************************************************************************)
LEMMA ReturnInvariant ==
  ASSUME IInv, Return
  PROVE  IInv'
<1>1. /\ pc = "end" /\ pc' = "over" /\ dir' = {} /\ outcome' = Outcome
      /\ UNCHANGED <<env, cmdline, pos, buffer, warning, reported, errcnt>>
  BY DEF Return, Closedir
<1>2. Outcome' = Outcome /\ Outcome \in {"returned", "file_inherited"}
  BY <1>1 DEF Outcome, env
<1> USE DEF IInv, env
<1>3. TypeOK' /\ Own'
  BY <1>1, <1>2 DEF TypeOK, Own
<1>4. Buffered' /\ Counted'
  BY <1>1, <1>2 DEF Buffered, Counted, Reporting, Entries
<1>5. outcome = "none"
  BY <1>1 DEF Counted
<1>6. Found' /\ ReportsAreFiles' /\ MixedOncePerDeath' /\ Times'
  BY <1>1, <1>5 DEF Found, ReportsAreFiles, MixedOncePerDeath, Times
<1> QED
  BY <1>3, <1>4, <1>6

(***************************************************************************)
(* std::bad_alloc leaves nothing open either.                              *)
(***************************************************************************)
LEMMA BadAllocInvariant ==
  ASSUME IInv, BadAlloc
  PROVE  IInv'
<1>1. /\ pc' = "over" /\ dir' = {} /\ cmdline' = {} /\ buffer' = <<>>
      /\ warning' = NoWarning /\ outcome' = "bad_alloc"
      /\ UNCHANGED <<env, pos, reported, errcnt>>
  BY DEF BadAlloc, Closedir
<1> USE DEF IInv, env
<1>2. TypeOK'
  <2>1. /\ NoWarning \in [file : Links, ppid : 0..MaxDeaths, asked : 0..MaxDeaths]
        /\ <<>> \in Seq(-2..MaxFd)
    <3>1. 0 \in 0..MaxDeaths
      BY ConstantsAssumption
    <3> QED
      BY <3>1 DEF NoWarning, Links
  <2> QED
    BY <1>1, <2>1 DEF TypeOK
<1>3. Own' /\ Buffered' /\ Found' /\ Counted'
  BY <1>1 DEF Own, Buffered, Reporting, Entries, Found, Counted
<1>4. ReportsAreFiles' /\ Times' /\ MixedOncePerDeath'
  BY <1>1 DEF ReportsAreFiles, Times, MixedOncePerDeath
<1> QED
  BY <1>2, <1>3, <1>4

(***************************************************************************)
(* No step leaves the invariant.                                           *)
(***************************************************************************)
LEMMA StepInvariant == IInv /\ [Next]_vars => IInv'
<1> SUFFICES ASSUME IInv, [Next]_vars
             PROVE  IInv'
  OBVIOUS
<1>1. CASE Scan
  BY <1>1, OpendirInvariant, GetdentsInvariant, GetdentsReturnsInvariant, ReaddirInvariant,
     ReaddirRefillsInvariant, ReadlinkInvariant, GetppidInvariant, OpenCmdlineInvariant,
     WarnInvariant, ReturnInvariant, BadAllocInvariant DEF Scan
<1>2. CASE Others
  BY <1>2, OpenInvariant, CloseInvariant, ParentDiesInvariant DEF Others
<1>3. CASE UNCHANGED vars
  <2> USE <1>3 DEF IInv, vars, env, scan
  <2>1. TypeOK' /\ Own' /\ Buffered'
    BY DEF TypeOK, Own, Buffered, Reporting, Skipped
  <2>2. Found' /\ ReportsAreFiles' /\ Counted' /\ Times' /\ MixedOncePerDeath'
    BY DEF Found, ReportsAreFiles, Counted, Outcome, Times, MixedOncePerDeath
  <2> QED
    BY <2>1, <2>2
<1> QED
  BY <1>1, <1>2, <1>3 DEF Next

THEOREM Invariant == Spec => []IInv
BY InitInvariant, StepInvariant, PTL DEF Spec

-----------------------------------------------------------------------------
(***************************************************************************)
(* Every variable of FileInheritance has its type: no entry that is no     *)
(* descriptor is ever reported.                                            *)
(***************************************************************************)
THEOREM TypeCorrect == Spec => []TypeOK
<1>1. IInv => TypeOK
  BY DEF IInv
<1> QED
  BY <1>1, Invariant, PTL

(***************************************************************************)
(* verify_inherited_files() misses no inherited descriptor, for any size   *)
(* of the buffer of readdir() and any number of changes meanwhile.         *)
(***************************************************************************)
THEOREM LeaksReportedCorrect == Spec => []LeaksReported
<1>1. IInv => LeaksReported
  <2> SUFFICES ASSUME IInv, pc = "over", outcome # "bad_alloc",
                      NEW fd \in steady \ (Standard \cup Allowed)
               PROVE  \E w \in reported : w.fd = fd /\ w.file = "inherited"
    BY DEF LeaksReported
  <2>1. pos > MaxFd /\ pos \in Int /\ fd \in 0..MaxFd
    BY ConstantsAssumption DEF IInv, TypeOK, Found
  <2>2. fd < pos /\ fd \notin Entries(buffer)
    BY <2>1, ConstantsAssumption DEF IInv, Buffered, Entries
  <2> QED
    BY <2>2 DEF IInv, Found, Exempt
<1> QED
  BY <1>1, Invariant, PTL

(***************************************************************************)
(* Its warnings are about files of the application, and print the file     *)
(* that was inherited unless it has been closed.                           *)
(***************************************************************************)
THEOREM ReportsAreFilesCorrect == Spec => []ReportsAreFiles
<1>1. IInv => ReportsAreFiles
  BY DEF IInv
<1> QED
  BY <1>1, Invariant, PTL

(***************************************************************************)
(* It shares no descriptor with the application and leaves none open.      *)
(***************************************************************************)
THEOREM OwnDescriptorsCorrect == Spec => []OwnDescriptors
<1>1. IInv => OwnDescriptors
  BY DEF IInv, Own, OwnDescriptors
<1> QED
  BY <1>1, Invariant, PTL

(***************************************************************************)
(* It throws in Debug mode only, and then precisely on a leak.             *)
(***************************************************************************)
THEOREM FatalInDebugOnlyCorrect == Spec => []FatalInDebugOnly
<1>1. ASSUME IInv
      PROVE  FatalInDebugOnly
  <2>1. CASE outcome = "returned"
    <3>1. pc = "over" /\ ~(debug /\ errcnt > 0) /\ errcnt \in Nat
      BY <1>1, <2>1 DEF IInv, TypeOK, Counted, Outcome
    <3>2. debug => reported = {}
      BY <1>1, <3>1 DEF IInv, Counted
    <3>3. pos > MaxFd /\ pos \in Int /\ Entries(buffer) = {}
      BY <1>1, <2>1, <3>1, ConstantsAssumption DEF IInv, TypeOK, Found, Buffered, Entries
    <3>4. \A fd \in steady : fd < pos
      BY <1>1, <3>3, ConstantsAssumption DEF IInv, TypeOK
    <3>5. debug => steady \subseteq Standard \cup Allowed
      BY <1>1, <2>1, <3>2, <3>3, <3>4 DEF IInv, Found, Exempt
    <3> QED
      BY <2>1, <3>5 DEF FatalInDebugOnly
  <2>2. CASE outcome = "file_inherited"
    <3>1. debug /\ errcnt # 0
      BY <1>1, <2>2 DEF IInv, TypeOK, Counted, Outcome
    <3>2. PICK w \in reported : TRUE
      BY <1>1, <3>1 DEF IInv, Counted
    <3> QED
      BY <1>1, <2>2, <3>1, <3>2 DEF IInv, ReportsAreFiles, FatalInDebugOnly
  <2> QED
    BY <2>1, <2>2 DEF FatalInDebugOnly
<1> QED
  BY <1>1, Invariant, PTL

(***************************************************************************)
(* For any number of parents that die, each one is named in at most one    *)
(* warning that prints another's PID.                                      *)
(***************************************************************************)
THEOREM MixedOncePerDeathCorrect == Spec => []MixedOncePerDeath
<1>1. IInv => MixedOncePerDeath
  BY DEF IInv
<1> QED
  BY <1>1, Invariant, PTL
-----------------------------------------------------------------------------
(***************************************************************************)
(* The directory is read upwards: the descriptors of the warnings come     *)
(* before those of the buffer, these in their order, and all of them       *)
(* before the position of the kernel.                                      *)
(***************************************************************************)
Ordered ==
  /\ \A i \in 1..Len(buffer) : buffer[i] < pos
  /\ \A i, j \in 1..Len(buffer) : i < j => buffer[i] < buffer[j]
  /\ \A w \in reported : w.fd < pos
  /\ \A w \in reported : \A i \in 1..Len(buffer) : w.fd < buffer[i]
  /\ IsFiniteSet(reported)

LEMMA AppendFacts ==
  ASSUME NEW S, NEW s \in Seq(S), NEW e \in S
  PROVE  /\ Len(s) \in Nat /\ Len(Append(s, e)) = Len(s) + 1
         /\ \A i \in 1..Len(s) : Append(s, e)[i] = s[i]
         /\ Append(s, e)[Len(s) + 1] = e
OBVIOUS

LEMMA TailFacts ==
  ASSUME NEW S, NEW s \in Seq(S), s # <<>>
  PROVE  /\ Len(s) \in Nat \ {0} /\ Len(Tail(s)) = Len(s) - 1
         /\ Head(s) = s[1] /\ \A i \in 1..Len(s) - 1 : Tail(s)[i] = s[i + 1]
OBVIOUS

LEMMA BufferFacts ==
  ASSUME TypeOK
  PROVE  /\ Len(buffer) \in Nat /\ \A i \in 1..Len(buffer) : buffer[i] \in Int
         /\ pos \in Int /\ pos <= MaxFd + 1 /\ MaxFd \in Int
         /\ \A w \in reported : w.fd \in Int
<1>1. buffer \in Seq(Int)
  BY ConstantsAssumption DEF TypeOK
<1> QED
  BY <1>1, ConstantsAssumption DEF TypeOK

LEMMA OrderedOfSame ==
  ASSUME Ordered, WarnedOnce, UNCHANGED <<buffer, pos, reported, errcnt>>
  PROVE  Ordered' /\ WarnedOnce'
BY DEF Ordered, WarnedOnce

(***************************************************************************)
(* The next entry of the directory is above all that was read before.      *)
(***************************************************************************)
LEMMA OrderedGetdents ==
  ASSUME TypeOK, Ordered, WarnedOnce, Getdents
  PROVE  Ordered' /\ WarnedOnce'
<1>1. /\ pos' = pos + 1 /\ UNCHANGED <<reported, errcnt>>
      /\ buffer' = IF Listed(pos) THEN Append(buffer, pos) ELSE buffer
  BY DEF Getdents
<1>2. WarnedOnce'
  BY <1>1 DEF WarnedOnce
<1>3. CASE buffer' = buffer
  <2> USE <1>1, <1>3, BufferFacts
  <2>1. \A i \in 1..Len(buffer) : buffer[i] < pos'
    BY DEF Ordered
  <2>2. \A w \in reported : w.fd < pos'
    BY DEF Ordered
  <2> QED
    BY <1>2, <2>1, <2>2 DEF Ordered
<1>4. CASE buffer' = Append(buffer, pos)
  <2> DEFINE n == Len(buffer)
  <2>1. /\ n \in Nat /\ Len(buffer') = n + 1 /\ buffer'[n + 1] = pos
        /\ \A i \in 1..n : buffer'[i] = buffer[i]
    <3>1. buffer \in Seq(Int) /\ pos \in Int
      BY ConstantsAssumption DEF TypeOK
    <3> QED
      BY <1>4, <3>1, AppendFacts
  <2>2. /\ \A i \in 1..n : buffer[i] \in Int
        /\ pos \in Int /\ \A w \in reported : w.fd \in Int
    BY BufferFacts
  <2>3. /\ \A i \in 1..n : buffer[i] < pos
        /\ \A i, j \in 1..n : i < j => buffer[i] < buffer[j]
        /\ \A w \in reported : w.fd < pos
        /\ \A w \in reported : \A i \in 1..n : w.fd < buffer[i]
        /\ IsFiniteSet(reported)
    BY DEF Ordered
  <2> HIDE DEF n
  <2>4. \A i \in 1..n + 1 : i \in 1..n \/ i = n + 1
    BY <2>1
  <2>5. \A i \in 1..n + 1 : buffer'[i] < pos'
    BY <1>1, <2>1, <2>2, <2>3, <2>4
  <2>6. \A i, j \in 1..n + 1 : i < j => buffer'[i] < buffer'[j]
    <3>1. ASSUME NEW i \in 1..n + 1, NEW j \in 1..n + 1, i < j
          PROVE  buffer'[i] < buffer'[j]
      <4>1. i \in 1..n
        BY <2>1, <3>1
      <4>2. CASE j \in 1..n
        BY <2>1, <2>3, <3>1, <4>1, <4>2
      <4>3. CASE j = n + 1
        BY <2>1, <2>3, <4>1, <4>3
      <4> QED
        BY <2>4, <4>2, <4>3
    <3> QED
      BY <3>1
  <2>7. \A w \in reported : \A i \in 1..n + 1 : w.fd < buffer'[i]
    BY <2>1, <2>3, <2>4
  <2>8. \A w \in reported : w.fd < pos'
    BY <1>1, <2>2, <2>3
  <2> QED
    BY <1>1, <1>2, <2>1, <2>3, <2>5, <2>6, <2>7, <2>8 DEF Ordered
<1> QED
  BY <1>1, <1>3, <1>4

(***************************************************************************)
(* What readdir() hands out was below the rest of the buffer.              *)
(***************************************************************************)
LEMMA OrderedTail ==
  ASSUME TypeOK, Ordered, buffer # <<>>, buffer' = Tail(buffer), pos' = pos
  PROVE  /\ \A i \in 1..Len(buffer') : buffer'[i] < pos' /\ Head(buffer) < buffer'[i]
         /\ \A i, j \in 1..Len(buffer') : i < j => buffer'[i] < buffer'[j]
         /\ \A w \in reported : \A i \in 1..Len(buffer') : w.fd < buffer'[i]
         /\ \A w \in reported : w.fd < Head(buffer)
         /\ Head(buffer) < pos
<1> DEFINE n == Len(buffer)
<1>1. /\ n \in Nat \ {0} /\ Len(buffer') = n - 1 /\ Head(buffer) = buffer[1]
      /\ \A i \in 1..n - 1 : buffer'[i] = buffer[i + 1]
  <2>1. buffer \in Seq(Int)
    BY ConstantsAssumption DEF TypeOK
  <2> QED
    BY <2>1, TailFacts
<1>2. /\ \A i \in 1..n : buffer[i] < pos
      /\ \A i, j \in 1..n : i < j => buffer[i] < buffer[j]
      /\ \A w \in reported : \A i \in 1..n : w.fd < buffer[i]
  BY DEF Ordered
<1> HIDE DEF n
<1>3. 1 \in 1..n /\ \A i \in 1..n - 1 : i + 1 \in 1..n /\ 1 < i + 1
  BY <1>1
<1>4. \A i, j \in 1..n - 1 : i < j => i + 1 < j + 1
  BY <1>1
<1> QED
  BY <1>1, <1>2, <1>3, <1>4

LEMMA OrderedReaddir ==
  ASSUME TypeOK, Ordered, WarnedOnce, Readdir
  PROVE  Ordered' /\ WarnedOnce'
<1>1. buffer # <<>> /\ UNCHANGED <<pos, reported, errcnt>>
  BY DEF Readdir
<1>2. CASE buffer' = Tail(buffer)
  BY <1>1, <1>2, OrderedTail DEF Ordered, WarnedOnce
<1>3. CASE buffer' = buffer
  BY <1>1, <1>3, OrderedOfSame
<1> QED
  BY <1>2, <1>3 DEF Readdir

LEMMA OrderedWarn ==
  ASSUME IInv, Ordered, WarnedOnce, Warn
  PROVE  Ordered' /\ WarnedOnce'
<1> DEFINE h == Head(buffer)
           c == IF cmdline # {} /\ warning.asked = parent THEN {parent} ELSE {}
           new == [fd |-> h, file |-> warning.file, ppid |-> warning.ppid, cmdline |-> c]
<1>1. /\ pc = "warn" /\ reported' = reported \cup {new} /\ new.fd = h
      /\ errcnt' = errcnt + 1 /\ buffer' = Tail(buffer) /\ pos' = pos
  BY DEF Warn, Incremented
<1>2. buffer # <<>> /\ TypeOK
  BY <1>1 DEF IInv, Buffered, Reporting
<1>3. /\ \A i \in 1..Len(buffer') : buffer'[i] < pos' /\ h < buffer'[i]
      /\ \A i, j \in 1..Len(buffer') : i < j => buffer'[i] < buffer'[j]
      /\ \A w \in reported : \A i \in 1..Len(buffer') : w.fd < buffer'[i]
      /\ \A w \in reported : w.fd < h
      /\ h < pos
  BY <1>1, <1>2, OrderedTail
<1>4. \A w \in reported : w.fd \in Int
  BY <1>2, BufferFacts
<1>5. \A w \in reported : w.fd < pos /\ IsFiniteSet(reported)
  BY DEF Ordered
<1> HIDE DEF new, h
<1>6. new \notin reported
  BY <1>1, <1>3, <1>4
<1>7. IsFiniteSet(reported') /\ Cardinality(reported') = Cardinality(reported) + 1
  <2>1. IsFiniteSet(reported)
    BY DEF Ordered
  <2> QED
    BY <1>1, <1>6, <2>1, FS_AddElement
<1>8. Ordered'
  <2>1. \A w \in reported' : w.fd < pos'
    BY <1>1, <1>3, <1>5
  <2>2. \A w \in reported' : \A i \in 1..Len(buffer') : w.fd < buffer'[i]
    BY <1>1, <1>3
  <2> QED
    BY <1>3, <1>7, <2>1, <2>2 DEF Ordered
<1>9. WarnedOnce'
  <2>1. \A v, w \in reported' : v.fd = w.fd => v = w
    <3>1. ASSUME NEW w \in reported, w.fd = new.fd
          PROVE  FALSE
      BY <1>1, <1>3, <1>4, <3>1
    <3> QED
      BY <1>1, <3>1 DEF WarnedOnce
  <2> QED
    BY <1>1, <1>7, <2>1 DEF WarnedOnce
<1> QED
  BY <1>8, <1>9

LEMMA OrderedBadAlloc ==
  ASSUME Ordered, WarnedOnce, BadAlloc
  PROVE  Ordered' /\ WarnedOnce'
<1>1. buffer' = <<>> /\ UNCHANGED <<pos, reported, errcnt>>
  BY DEF BadAlloc
<1>2. \A i \in 1..Len(buffer') : FALSE
  BY <1>1
<1> QED
  BY <1>1, <1>2 DEF Ordered, WarnedOnce

LEMMA OrderedInvariant == Spec => [](Ordered /\ WarnedOnce)
<1>1. Init => Ordered /\ WarnedOnce
  BY FS_EmptySet DEF Init, Ordered, WarnedOnce
<1>2. IInv /\ Ordered /\ WarnedOnce /\ [Next]_vars => Ordered' /\ WarnedOnce'
  <2> SUFFICES ASSUME IInv, Ordered, WarnedOnce, [Next]_vars
               PROVE  Ordered' /\ WarnedOnce'
    OBVIOUS
  <2>1. TypeOK
    BY DEF IInv
  <2>2. CASE UNCHANGED <<buffer, pos, reported, errcnt>>
    BY <2>2, OrderedOfSame
  <2>3. CASE Getdents
    BY <2>1, <2>3, OrderedGetdents
  <2>4. CASE Readdir
    BY <2>1, <2>4, OrderedReaddir
  <2>5. CASE Warn
    BY <2>5, OrderedWarn
  <2>6. CASE Opendir \/ GetdentsReturns \/ ReaddirRefills \/ Readlink \/ Getppid
               \/ OpenCmdline \/ Return
    BY <2>2, <2>6 DEF Opendir, GetdentsReturns, ReaddirRefills, Readlink, Getppid,
       OpenCmdline, Return
  <2>7. CASE Others \/ UNCHANGED vars
    BY <2>2, <2>7 DEF Others, Open, Close, ParentDies, vars, scan
  <2>8. CASE BadAlloc
    BY <2>8, OrderedBadAlloc
  <2> QED
    BY <2>3, <2>4, <2>5, <2>6, <2>7, <2>8 DEF Next, Scan
<1> QED
  BY <1>1, <1>2, Invariant, PTL DEF Spec

(***************************************************************************)
(* No descriptor is warned about twice, and errcnt is the number of        *)
(* warnings, for any buffer and whatever is opened and closed meanwhile.   *)
(***************************************************************************)
THEOREM WarnedOnceCorrect == Spec => []WarnedOnce
BY OrderedInvariant, PTL

-----------------------------------------------------------------------------
LEMMA TableFacts ==
  ASSUME NEW S \in SUBSET (0..MaxFd)
  PROVE  /\ IsFiniteSet(S) /\ Cardinality(S) \in Nat
         /\ Cardinality(S) = MaxFd + 1 => S = 0..MaxFd
<1>1. IsFiniteSet(0..MaxFd) /\ Cardinality(0..MaxFd) = MaxFd + 1
  <2>1. 0 \in Int /\ MaxFd \in Int /\ ~ (0 > MaxFd) /\ MaxFd - 0 + 1 = MaxFd + 1
    BY ConstantsAssumption
  <2> QED
    BY <2>1, FS_Interval
<1>2. IsFiniteSet(S) /\ (Cardinality(0..MaxFd) = Cardinality(S) => 0..MaxFd = S)
  BY <1>1, FS_Subset
<1> QED
  BY <1>1, <1>2, FS_CardinalityType

(***************************************************************************)
(* What the other threads change: a descriptor the application had during  *)
(* the scan, and not the inherited file from the beginning to now, took a  *)
(* change of its own.                                                      *)
(***************************************************************************)
Changed == Cardinality(used \ steady) <= changes

LEMMA OneMore ==
  ASSUME NEW S, NEW T, IsFiniteSet(S), NEW x, T \subseteq S \cup {x}
  PROVE  IsFiniteSet(T) /\ Cardinality(T) \in Nat /\ Cardinality(T) <= Cardinality(S) + 1
<1>1. /\ IsFiniteSet(S \cup {x}) /\ Cardinality(S) \in Nat
      /\ \/ Cardinality(S \cup {x}) = Cardinality(S)
         \/ Cardinality(S \cup {x}) = Cardinality(S) + 1
  BY FS_AddElement, FS_CardinalityType
<1>2. IsFiniteSet(T) /\ Cardinality(T) <= Cardinality(S \cup {x})
  BY <1>1, FS_Subset
<1>3. Cardinality(T) \in Nat
  BY <1>2, FS_CardinalityType
<1> QED
  BY <1>1, <1>2, <1>3

LEMMA ChangedInvariant == Spec => []Changed
<1>1. Init => Changed
  <2> SUFFICES ASSUME Init
               PROVE  Changed
    OBVIOUS
  <2>1. used \ steady = {} /\ changes = 0
    BY DEF Init
  <2> QED
    BY <2>1, FS_EmptySet DEF Changed
<1>2. IInv /\ Changed /\ [Next]_vars => Changed'
  <2> SUFFICES ASSUME IInv, Changed, [Next]_vars
               PROVE  Changed'
    OBVIOUS
  <2>1. /\ IsFiniteSet(used \ steady) /\ Cardinality(used \ steady) \in Nat
        /\ changes \in Nat
    <3>1. used \ steady \subseteq 0..MaxFd /\ changes \in Nat
      BY DEF IInv, TypeOK
    <3> QED
      BY <3>1, TableFacts
  <2>2. ASSUME NEW x, used' \ steady' \subseteq (used \ steady) \cup {x}, changes' = changes + 1
        PROVE  Changed'
    <3>1. /\ Cardinality(used' \ steady') <= Cardinality(used \ steady) + 1
          /\ Cardinality(used' \ steady') \in Nat
      BY <2>1, <2>2, OneMore
    <3> QED
      BY <2>1, <2>2, <3>1 DEF Changed
  <2>3. CASE Open
    <3>1. /\ used' = used \cup Lowest(Free) /\ steady' = steady /\ changes' = changes + 1
      BY <2>3 DEF Open
    <3>2. PICK x : used' \ steady' \subseteq (used \ steady) \cup {x}
      <4>1. \A m, n \in Lowest(Free) : m = n
        BY ConstantsAssumption DEF Lowest, Free
      <4> QED
        BY <3>1, <4>1
    <3> QED
      BY <2>2, <3>1, <3>2
  <2>4. ASSUME NEW fd \in files, Close(fd)
        PROVE  Changed'
    <3>1. used' \ steady' \subseteq (used \ steady) \cup {fd} /\ changes' = changes + 1
      BY <2>4 DEF Close
    <3> QED
      BY <2>2, <3>1
  <2>5. CASE UNCHANGED <<used, steady, changes>>
    BY <2>5 DEF Changed
  <2>6. CASE Scan \/ ParentDies \/ UNCHANGED vars
    BY <2>5, <2>6 DEF Scan, Opendir, Getdents, GetdentsReturns, Readdir, ReaddirRefills, Readlink,
       Getppid, OpenCmdline, Warn, Return, BadAlloc, ParentDies, vars, env
  <2> QED
    BY <2>3, <2>4, <2>6 DEF Next, Others
<1> QED
  BY <1>1, <1>2, Invariant, PTL DEF Spec

(***************************************************************************)
(* verify_inherited_files() has as many false alarms as the other threads  *)
(* opened or closed files, at most: it has none when they do nothing.      *)
(***************************************************************************)
THEOREM FalseAlarmsExplainedCorrect == Spec => []FalseAlarmsExplained
<1>1. ASSUME IInv, Ordered, WarnedOnce, Changed
      PROVE  FalseAlarmsExplained
  <2> DEFINE F == {w \in reported : w.file # "inherited"}
             C == used \ steady
             f == [w \in F |-> w.fd]
  <2>1. /\ IsFiniteSet(C) /\ Cardinality(C) \in Nat /\ changes \in Nat
        /\ Cardinality(C) <= changes
    <3>1. C \subseteq 0..MaxFd /\ changes \in Nat
      BY <1>1 DEF IInv, TypeOK
    <3> QED
      BY <1>1, <3>1, TableFacts DEF Changed
  <2>2. f \in Injection(F, C)
    <3>1. \A w \in F : w.fd \in C
      BY <1>1 DEF IInv, ReportsAreFiles
    <3>2. \A v, w \in F : v.fd = w.fd => v = w
      BY <1>1 DEF WarnedOnce
    <3> HIDE DEF F, C
    <3>3. f \in [F -> C] /\ \A v, w \in F : f[v] = f[w] => v = w
      BY <3>1, <3>2
    <3> HIDE DEF f
    <3> QED
      BY <3>3 DEF Injection, IsInjective
  <2> HIDE DEF F, C, f
  <2>3. IsFiniteSet(F) /\ Cardinality(F) <= Cardinality(C)
    BY <2>1, <2>2, FS_Injection
  <2>4. Cardinality(F) \in Nat
    BY <2>3, FS_CardinalityType
  <2> QED
    BY <2>1, <2>3, <2>4 DEF F, FalseAlarmsExplained
<1> QED
  BY <1>1, Invariant, OrderedInvariant, ChangedInvariant, PTL

-----------------------------------------------------------------------------
(***************************************************************************)
(* There is work left until the scan is over.                              *)
(***************************************************************************)
LEMMA WorkFacts ==
  ASSUME IInv
  PROVE  /\ Work \in Nat
         /\ pos \in Int /\ pos <= MaxFd + 1 /\ MaxFd \in Int /\ Len(buffer) \in Nat
<1>1. pos \in Int /\ pos <= MaxFd + 1 /\ MaxFd \in Int /\ Len(buffer) \in Nat
  BY BufferFacts DEF IInv
<1>2. Reporting => Len(buffer) >= 1
  <2>1. buffer \in Seq(-2..MaxFd)
    BY DEF IInv, TypeOK
  <2>2. Reporting => buffer # <<>>
    BY DEF IInv, Buffered
  <2> QED
    BY <2>1, <2>2
<1>3. Rank \in -3..3 /\ (Rank < 0 => Reporting)
  BY DEF Rank, Reporting
<1> HIDE DEF Rank, Reporting
<1> QED
  BY <1>1, <1>2, <1>3 DEF Work

LEMMA WorkInvariant == Spec => [](Work \in Nat)
<1>1. IInv => Work \in Nat
  BY WorkFacts
<1> QED
  BY <1>1, Invariant, PTL

(***************************************************************************)
(* A step that only moves on, with the same buffer and position.           *)
(***************************************************************************)
LEMMA WorkOfMove ==
  ASSUME IInv, UNCHANGED <<buffer, pos>>, NEW a \in Int, NEW b \in Int,
         Rank = a, Rank' = b, b < a
  PROVE  Work' < Work
<1> HIDE DEF Rank
<1> QED
  BY WorkFacts DEF Work

LEMMA WorkOfScan ==
  ASSUME IInv, Scan
  PROVE  Work' < Work
<1> DEFINE n == Len(buffer)
<1>0. pos \in Int /\ pos <= MaxFd + 1 /\ MaxFd \in Int /\ n \in Nat
  BY WorkFacts
<1>1. CASE Opendir
  <2>1. pc = "opendir" /\ pc' \in {"crashed", "getdents"} /\ UNCHANGED <<buffer, pos>>
    BY <1>1 DEF Opendir
  <2>2. Rank = 3 /\ Rank' \in {0, 2}
    BY <2>1 DEF Rank
  <2> QED
    BY <2>1, <2>2, WorkOfMove
<1>2. CASE Getdents
  <2>1. /\ pc = "getdents" /\ pc' = "getdents" /\ pos' = pos + 1
        /\ buffer' = Append(buffer, pos) \/ buffer' = buffer
    BY <1>2 DEF Getdents
  <2>2. Rank = 2 /\ Rank' = 2
    BY <2>1 DEF Rank
  <2>3. Len(buffer') = n + 1 \/ Len(buffer') = n
    <3>1. buffer \in Seq(Int)
      BY ConstantsAssumption DEF IInv, TypeOK
    <3> QED
      BY <1>0, <2>1, <3>1, AppendFacts
  <2> HIDE DEF n
  <2>4. Work = 8 * (MaxFd + 1 - pos) + 7 * n + 2
    BY <2>2 DEF Work, n
  <2>5. Work' = 8 * (MaxFd + 1 - (pos + 1)) + 7 * Len(buffer') + 2
    BY <2>1, <2>2 DEF Work
  <2> QED
    BY <1>0, <2>3, <2>4, <2>5
<1>3. CASE GetdentsReturns
  <2>1. /\ pc = "getdents" /\ UNCHANGED <<buffer, pos>>
        /\ pc' = IF buffer = <<>> THEN "end" ELSE "readdir"
    BY <1>3 DEF GetdentsReturns
  <2>2. Rank = 2 /\ Rank' = 1
    BY <2>1 DEF Rank
  <2> QED
    BY <2>1, <2>2, WorkOfMove
<1>4. CASE Readdir /\ ~Skipped(Head(buffer))
  <2>1. /\ pc = "readdir" /\ buffer # <<>> /\ pc' = "report" /\ UNCHANGED <<buffer, pos>>
    BY <1>4 DEF Readdir
  <2>2. Rank = 1 /\ Rank' = 0
    BY <2>1 DEF Rank
  <2> QED
    BY <2>1, <2>2, WorkOfMove
<1>5. ASSUME buffer # <<>>, buffer' = Tail(buffer), pos' = pos, pc' = "readdir",
             Rank \in {-3, 1}
      PROVE  Work' < Work
  <2>1. n # 0 /\ Len(buffer') = n - 1
    <3>1. buffer \in Seq(Int)
      BY ConstantsAssumption DEF IInv, TypeOK
    <3> QED
      BY <1>5, <3>1, TailFacts
  <2>2. Rank' \in {1, 3} /\ (Rank' = 3 => buffer' = <<>>)
    BY <1>5 DEF Rank
  <2>3. Rank' = 3 => n = 1
    BY <1>0, <2>1, <2>2
  <2> HIDE DEF n, Rank
  <2>4. Work = 8 * (MaxFd + 1 - pos) + 7 * n + Rank
    BY DEF Work, n
  <2>5. Work' = 8 * (MaxFd + 1 - pos) + 7 * (n - 1) + Rank'
    BY <1>5, <2>1 DEF Work
  <2>6. \/ n = 1 /\ Rank' = 3 /\ (Rank = -3 \/ Rank = 1)
        \/ Rank' = 1 /\ (Rank = -3 \/ Rank = 1)
    BY <1>5, <2>2, <2>3
  <2> QED
    BY <1>0, <2>4, <2>5, <2>6
<1>6. CASE Readdir /\ Skipped(Head(buffer))
  <2>1. /\ pc = "readdir" /\ pc' = "readdir" /\ buffer # <<>> /\ buffer' = Tail(buffer)
        /\ pos' = pos
    BY <1>6 DEF Readdir
  <2>2. Rank = 1
    BY <2>1 DEF Rank
  <2> QED
    BY <1>5, <2>1, <2>2
<1>7. CASE Warn
  <2>1. /\ pc = "warn" /\ pc' = "readdir" /\ buffer' = Tail(buffer) /\ pos' = pos
    BY <1>7 DEF Warn
  <2>2. Rank = -3 /\ buffer # <<>>
    BY <2>1 DEF Rank, IInv, Buffered, Reporting
  <2> QED
    BY <1>5, <2>1, <2>2
<1>8. CASE ReaddirRefills
  <2>1. pc = "readdir" /\ buffer = <<>> /\ pc' = "getdents" /\ UNCHANGED <<buffer, pos>>
    BY <1>8 DEF ReaddirRefills
  <2>2. Rank = 3 /\ Rank' = 2
    BY <2>1 DEF Rank
  <2> QED
    BY <2>1, <2>2, WorkOfMove
<1>9. CASE Readlink \/ Getppid \/ OpenCmdline
  <2>1. /\ UNCHANGED <<buffer, pos>>
        /\ \/ pc = "report" /\ pc' = "getppid"
           \/ pc = "getppid" /\ pc' = "open"
           \/ pc = "open" /\ pc' = "warn"
    BY <1>9 DEF Readlink, Getppid, OpenCmdline
  <2>2. Rank \in -2..0 /\ Rank' = Rank - 1
    BY <2>1 DEF Rank
  <2> QED
    BY <2>1, <2>2, WorkOfMove
<1>10. CASE Return
  <2>1. pc = "end" /\ pc' = "over" /\ UNCHANGED <<buffer, pos>>
    BY <1>10 DEF Return
  <2>2. Rank = 1 /\ Rank' = 0
    BY <2>1 DEF Rank
  <2> QED
    BY <2>1, <2>2, WorkOfMove
<1>11. CASE BadAlloc
  <2>1. pc' = "over" /\ buffer' = <<>> /\ pos' = pos
    BY <1>11 DEF BadAlloc
  <2>2. Rank' = 0 /\ Len(buffer') = 0
    BY <2>1 DEF Rank
  <2>3. pc = "opendir" \/ (Reporting /\ buffer # <<>>)
    <3>1. Reporting => buffer # <<>>
      BY DEF IInv, Buffered
    <3> QED
      BY <1>11, <3>1 DEF BadAlloc, IInv, Own, Reporting
  <2>4. Rank \in -3..3 /\ (pc = "opendir" => Rank = 3) /\ (buffer # <<>> => n # 0)
    <3>1. buffer \in Seq(-2..MaxFd)
      BY DEF IInv, TypeOK
    <3> QED
      BY <3>1 DEF Rank
  <2> HIDE DEF n, Rank, Reporting
  <2>5. Work = 8 * (MaxFd + 1 - pos) + 7 * n + Rank /\ Work' = 8 * (MaxFd + 1 - pos)
    BY <1>0, <2>1, <2>2 DEF Work, n
  <2>6. 7 * n + Rank > 0
    BY <1>0, <2>3, <2>4
  <2> QED
    BY <1>0, <2>4, <2>5, <2>6
<1> QED
  BY <1>1, <1>2, <1>3, <1>4, <1>6, <1>7, <1>8, <1>9, <1>10, <1>11 DEF Scan

(***************************************************************************)
(* verify_inherited_files() makes at most 8 * (MaxFd + 3) + 3 steps, for   *)
(* any size of the table of descriptors and any number of changes: with    *)
(* the fairness that its thread runs, this is why it ends.                 *)
(***************************************************************************)
THEOREM ScanBoundedCorrect == Spec => ScanBounded
<1> DEFINE Nearer == Work' \in 0..Work /\ (Scan => Work' < Work)
<1>1. IInv /\ Work \in Nat /\ (Work \in Nat)' /\ [Next]_vars => [Nearer]_vars
  <2> SUFFICES ASSUME IInv, Work \in Nat, Work' \in Nat, [Next]_vars
               PROVE  Nearer
    OBVIOUS
  <2>1. Scan => Work' < Work
    BY WorkOfScan
  <2>2. CASE Others \/ UNCHANGED vars
    <3>1. Work' = Work
      BY <2>2 DEF Others, Open, Close, ParentDies, vars, scan, Work, Rank
    <3> QED
      BY <2>1, <3>1
  <2>3. CASE Scan
    BY <2>1, <2>3
  <2> QED
    BY <2>2, <2>3 DEF Next
<1> QED
  BY <1>1, Invariant, WorkInvariant, PTL DEF Spec, ScanBounded

-----------------------------------------------------------------------------
(***************************************************************************)
(* A descriptor stays free whatever the other threads open, so opendir()   *)
(* succeeds and the process starts as file_inheritance.cpp:87 says: the    *)
(* crash of readdir(nullptr) takes a table of descriptors that is full.    *)
(***************************************************************************)
Room == pc = "opendir" => Cardinality(files) + MaxChanges <= MaxFd + changes

LEMMA OpendirSucceeds ==
  ASSUME TypeOK, Own, Room, pc = "opendir"
  PROVE  Lowest(Free) # {}
<1>1. files \subseteq 0..MaxFd /\ changes \in 0..MaxChanges
  BY DEF TypeOK
<1>2. Cardinality(files) \in Nat /\ Cardinality(files) <= MaxFd
  BY <1>1, TableFacts, ConstantsAssumption DEF Room
<1>3. files # 0..MaxFd
  <2>1. IsFiniteSet(0..MaxFd) /\ Cardinality(0..MaxFd) = MaxFd + 1
    BY FS_Interval, ConstantsAssumption
  <2> QED
    BY <1>2, <2>1, ConstantsAssumption
<1>4. PICK n \in Free : TRUE
  BY <1>1, <1>3 DEF Free, Own
<1>5. Free \subseteq Nat
  BY ConstantsAssumption DEF Free
<1>6. PICK x \in Free : \A y \in Free : <<y, x>> \notin OpToRel(<, Nat)
  BY <1>4, <1>5, NatLessThanWellFounded, WFMin, Zenon
<1>7. \A y \in Free : x <= y
  <2>1. \A y \in Free : ~ (y < x)
    BY <1>5, <1>6, Zenon DEF OpToRel
  <2> QED
    BY <1>5, <2>1
<1> QED
  BY <1>7 DEF Lowest

(***************************************************************************)
(* verify_inherited_files() never calls readdir(nullptr) in a process      *)
(* whose inherited files, with those that other threads may open, leave    *)
(* one position of the table of descriptors free.                          *)
(***************************************************************************)
THEOREM ProcessStarts ==
  ASSUME \A S \in Inherited : Cardinality(S) + MaxChanges <= MaxFd
  PROVE  Spec => [](pc # "crashed")
<1> DEFINE Starts == Room /\ pc # "crashed"
<1>1. Init => Starts
  BY ConstantsAssumption DEF Init, Room
<1>2. IInv /\ Starts /\ [Next]_vars => Starts'
  <2> SUFFICES ASSUME IInv, Room, pc # "crashed", [Next]_vars
               PROVE  Room' /\ pc' # "crashed"
    OBVIOUS
  <2>0. /\ TypeOK /\ Own /\ files \subseteq 0..MaxFd /\ changes \in Nat
        /\ IsFiniteSet(files) /\ Cardinality(files) \in Nat
    <3>1. TypeOK /\ Own /\ files \subseteq 0..MaxFd /\ changes \in Nat
      BY DEF IInv, TypeOK
    <3> QED
      BY <3>1, TableFacts
  <2>1. CASE Scan
    <3>1. pc' # "opendir"
      BY <2>1 DEF Scan, Opendir, Getdents, GetdentsReturns, Readdir, ReaddirRefills, Readlink,
         Getppid, OpenCmdline, Warn, Return, BadAlloc
    <3>2. CASE Opendir
      BY <2>0, <3>1, <3>2, OpendirSucceeds DEF Opendir, Room
    <3>3. CASE ~Opendir
      BY <2>1, <3>1, <3>3 DEF Scan, Room, Getdents, GetdentsReturns, Readdir, ReaddirRefills,
         Readlink, Getppid, OpenCmdline, Warn, Return, BadAlloc
    <3> QED
      BY <3>2, <3>3
  <2>2. CASE Open
    <3>1. files' = files \cup Lowest(Free) /\ changes' = changes + 1 /\ pc' = pc
      BY <2>2 DEF Open, scan
    <3>2. PICK x : files' \subseteq files \cup {x}
      <4>1. \A m, n \in Lowest(Free) : m = n
        BY ConstantsAssumption DEF Lowest, Free
      <4> QED
        BY <3>1, <4>1
    <3>3. /\ IsFiniteSet(files \cup {x})
          /\ Cardinality(files \cup {x}) <= Cardinality(files) + 1
          /\ Cardinality(files \cup {x}) \in Nat
      <4>1. /\ IsFiniteSet(files \cup {x})
            /\ \/ Cardinality(files \cup {x}) = Cardinality(files)
               \/ Cardinality(files \cup {x}) = Cardinality(files) + 1
        BY <2>0, FS_AddElement
      <4> QED
        BY <2>0, <4>1
    <3>4. Cardinality(files') <= Cardinality(files \cup {x})
      BY <3>2, <3>3, FS_Subset
    <3>5. Cardinality(files') \in Nat
      <4>1. files' \subseteq 0..MaxFd
        BY <2>0, <3>1, FreeFacts
      <4> QED
        BY <4>1, TableFacts
    <3> QED
      BY <2>0, <3>1, <3>3, <3>4, <3>5, ConstantsAssumption DEF Room
  <2>3. ASSUME NEW fd \in files, Close(fd)
        PROVE  Room' /\ pc' # "crashed"
    <3>1. files' = files \ {fd} /\ changes' = changes + 1 /\ pc' = pc
      BY <2>3 DEF Close, scan
    <3>2. Cardinality(files') = Cardinality(files) - 1
      BY <2>0, <3>1, FS_RemoveElement
    <3> QED
      BY <2>0, <3>1, <3>2, ConstantsAssumption DEF Room
  <2>4. CASE ParentDies \/ UNCHANGED vars
    BY <2>4 DEF ParentDies, vars, env, scan, Room
  <2> QED
    BY <2>1, <2>2, <2>3, <2>4 DEF Next, Others
<1>3. Starts => pc # "crashed"
  OBVIOUS
<1> HIDE DEF Starts
<1> QED
  BY <1>1, <1>2, <1>3, Invariant, PTL DEF Spec
=============================================================================
