------------------------ MODULE FrameConversion_proofs ------------------------
(***************************************************************************)
(* Proofs about FrameConversion and FrameLine, for object files of any     *)
(* name, symbols of any length and whatever eu-addr2line and the demangler *)
(* answer.                                                                 *)
(***************************************************************************)
EXTENDS FrameConversion, SequenceTheorems, WellFoundedInduction, TLAPS

\* The tokens a line is made of.
LineTokens == Words \cup Stops \cup {"0x1f", "-0x1f", "c0de", "[0x"}

Lines == Seq(LineTokens)

(***************************************************************************)
(* The beginning of an address is none of the other tokens.                *)
(***************************************************************************)
LEMMA BracketFacts ==
  Bracket \notin {NUL, "(", "+", ")", "]", "0x1f", "-0x1f", "c0de", "[0x"}
BY Zenon DEF Bracket, NUL

(***************************************************************************)
(* No token of a line is the end of a line.                                *)
(***************************************************************************)
LEMMA AtFacts ==
  ASSUME NEW line \in Lines, NEW i \in Nat
  PROVE  /\ Len(line) \in Nat
         /\ i \in 1..Len(line) => At(line, i) = line[i] /\ At(line, i) # NUL
         /\ i \notin 1..Len(line) => At(line, i) = NUL
<1>1. NUL \notin LineTokens
  BY ConstantsAssumption, BracketFacts DEF NUL, Stops, LineTokens
<1>2. i \in 1..Len(line) => line[i] \in LineTokens
  BY DEF Lines
<1> QED
  BY <1>1, <1>2 DEF At, Lines

(***************************************************************************)
(* A set of positions has a first one.                                     *)
(***************************************************************************)
LEMMA FirstPosition ==
  ASSUME NEW T, T \subseteq Nat, T # {}
  PROVE  \E j \in T : \A k \in T : j <= k
<1>1. PICK j \in T : \A k \in T : <<k, j>> \notin OpToRel(<, Nat)
  BY NatLessThanWellFounded, WFMin, Zenon
<1>2. \A k \in T : ~ (k < j)
  BY <1>1, Zenon DEF OpToRel
<1> QED
  BY <1>2

(***************************************************************************)
(* The scanning loops of stack_trace.cpp stop: at a stop character or at   *)
(* the end of the line, with none of them before.                          *)
(***************************************************************************)
LEMMA ScanFacts ==
  ASSUME NEW line \in Lines, NEW i \in 1..Len(line) + 1, NEW stops
  PROVE  LET j == Scan(line, i, stops)
         IN  /\ j \in i..Len(line) + 1
             /\ At(line, j) \in stops \cup {NUL}
             /\ \A k \in i..j - 1 : At(line, k) \notin stops
<1> DEFINE T == {j \in i..Len(line) + 1 : At(line, j) \in stops \cup {NUL}}
<1>1. Len(line) \in Nat
  BY DEF Lines
<1>2. Len(line) + 1 \in T
  BY <1>1, AtFacts
<1>3. T \subseteq Nat
  BY <1>1
<1>4. PICK j \in T : \A k \in T : j <= k
  BY <1>2, <1>3, FirstPosition
<1>5. \A k \in i..j - 1 : At(line, k) \notin stops
  BY <1>1, <1>4
<1> QED
  BY <1>4, <1>5 DEF Scan

(***************************************************************************)
(* They stop at the first stop character.                                  *)
(***************************************************************************)
LEMMA ScanIs ==
  ASSUME NEW line \in Lines, NEW stops,
         NEW j \in 1..Len(line), NEW i \in 1..j,
         At(line, j) \in stops, \A k \in i..j - 1 : At(line, k) \notin stops
  PROVE  Scan(line, i, stops) = j
<1>1. Len(line) \in Nat
  BY DEF Lines
<1> DEFINE s == Scan(line, i, stops)
<1>2. /\ s \in i..Len(line) + 1
      /\ At(line, s) \in stops \cup {NUL}
      /\ \A k \in i..s - 1 : At(line, k) \notin stops
  BY <1>1, ScanFacts
<1> HIDE DEF s
<1>3. ~ (s < j)
  BY <1>1, <1>2, AtFacts
<1>4. ~ (j < s)
  BY <1>1, <1>2
<1> QED
  BY <1>1, <1>2, <1>3, <1>4 DEF s

-----------------------------------------------------------------------------
(***************************************************************************)
(* What backtrace_symbols() writes for a frame of a file, token by token.  *)
(* n, m and k are the lengths of the file, the symbol and the offset.      *)
(***************************************************************************)
Written(f, line) ==
  LET n == Len(f.file)
      m == Len(f.func)
      k == Len(Offsets[f.off])
  IN  /\ line \in Lines
      /\ Len(line) = n + m + k + 5
      /\ \A i \in 1..n : line[i] = f.file[i]
      /\ line[n + 1] = "("
      /\ \A i \in 1..m : line[n + 1 + i] = f.func[i]
      /\ k > 0 => line[n + m + 2] = Offsets[f.off][1]
      /\ k > 1 => line[n + m + 3] = Offsets[f.off][2]
      /\ line[n + m + k + 2] = ")"
      /\ line[n + m + k + 3] = Bracket
      /\ line[n + m + k + 4] = "c0de"
      /\ line[n + m + k + 5] = "]"

LEMMA OffsetFacts ==
  ASSUME NEW o \in DOMAIN Offsets
  PROVE  /\ Offsets[o] \in Lines
         /\ Len(Offsets[o]) \in 0..2
         /\ o = "above" => Len(Offsets[o]) = 2 /\ Offsets[o][1] = "+" /\ Offsets[o][2] = "0x1f"
         /\ o = "below" => Len(Offsets[o]) = 1 /\ Offsets[o][1] = "-0x1f"
         /\ o = "none" => Len(Offsets[o]) = 0
<1>1. o \in {"above", "below", "none"}
  BY DEF Offsets
<1>2. CASE o = "above"
  <2>1. Offsets[o] = <<"+", "0x1f">>
    BY <1>2 DEF Offsets
  <2> QED
    BY <1>2, <2>1 DEF LineTokens, Lines, Stops
<1>3. CASE o = "below"
  <2>1. Offsets[o] = <<"-0x1f">>
    BY <1>3 DEF Offsets
  <2> QED
    BY <1>3, <2>1 DEF LineTokens, Lines, Stops
<1>4. CASE o = "none"
  <2>1. Offsets[o] = <<>>
    BY <1>4 DEF Offsets
  <2> QED
    BY <1>4, <2>1 DEF Lines
<1> QED
  BY <1>1, <1>2, <1>3, <1>4

LEMMA FrameFacts ==
  ASSUME NEW f \in Frames
  PROVE  /\ f = [file |-> f.file, func |-> f.func, off |-> f.off, addr |-> f.addr]
         /\ f.file \in Seq(Words \cup Stops)
         /\ f.func \in Seq(Words)
         /\ f.off \in {"above", "below", "none"}
         /\ f.off \in DOMAIN Offsets
         /\ f.off = "none" => f.func = <<>>
         /\ f.addr = <<"c0de">>
<1>1. f \in [file : Files \cup {<<>>}, func : Funcs, off : DOMAIN Offsets, addr : {<<"c0de">>}]
  BY DEF Frames
<1>2. DOMAIN Offsets = {"above", "below", "none"}
  BY DEF Offsets
<1>3. f.file \in Seq(Words \cup Stops)
  <2>1. CASE f.file = <<>>
    BY <2>1
  <2>2. CASE f.file \in Files
    BY <2>2, ConstantsAssumption
  <2> QED
    BY <1>1, <2>1, <2>2
<1> QED
  BY <1>1, <1>2, <1>3, ConstantsAssumption DEF Frames

\* x is s followed by t, token by token.
Joined(x, s, t) ==
  /\ x \in Lines
  /\ Len(x) = Len(s) + Len(t)
  /\ \A i \in 1..Len(s) : x[i] = s[i]
  /\ \A i \in 1..Len(t) : x[Len(s) + i] = t[i]

LEMMA JoinFacts ==
  ASSUME NEW s \in Lines, NEW t \in Lines
  PROVE  Joined(s \o t, s, t)
BY DEF Lines, Joined

(***************************************************************************)
(* The line of a frame, from its definition as a concatenation.            *)
(***************************************************************************)
LEMMA RenderFacts ==
  ASSUME NEW f \in Frames, f.file # <<>>
  PROVE  Written(f, Render(f))
<1> DEFINE n == Len(f.file)
           m == Len(f.func)
           k == Len(Offsets[f.off])
           open == <<"(">>
           close == <<")", Bracket>>
           addr == <<"c0de">>
           end == <<"]">>
           a == f.file \o open
           b == a \o f.func
           c == b \o Offsets[f.off]
           d == c \o close
           e == d \o addr
           line == e \o end
<1>1. f.file \in Lines /\ f.func \in Lines /\ f.addr = addr /\ Offsets[f.off] \in Lines
  <2>1. f.file \in Seq(Words \cup Stops) /\ f.func \in Seq(Words)
    BY FrameFacts
  <2> QED
    BY <2>1, FrameFacts, OffsetFacts DEF Lines, LineTokens
<1>2. /\ n \in Nat /\ m \in Nat /\ k \in Nat
      /\ Len(f.file) = n /\ Len(f.func) = m /\ Len(Offsets[f.off]) = k
  BY <1>1, FrameFacts, OffsetFacts DEF Lines
<1>3. Render(f) = line
  BY <1>1, FrameFacts DEF Render
<1>4. /\ open \in Lines /\ Len(open) = 1 /\ open[1] = "("
      /\ addr \in Lines /\ Len(addr) = 1 /\ addr[1] = "c0de"
      /\ end \in Lines /\ Len(end) = 1 /\ end[1] = "]"
  BY DEF Lines, LineTokens, Stops
<1>5. close \in Lines /\ Len(close) = 2 /\ close[1] = ")" /\ close[2] = Bracket
  BY DEF Lines, LineTokens, Stops
<1> HIDE DEF n, m, k, open, close, addr, end
<1>6. Joined(a, f.file, open)
  BY <1>1, <1>4, JoinFacts
<1> HIDE DEF a
<1>7. Joined(b, a, f.func)
  BY <1>1, <1>6, JoinFacts DEF Joined
<1> HIDE DEF b
<1>8. Joined(c, b, Offsets[f.off])
  BY <1>1, <1>7, JoinFacts DEF Joined
<1> HIDE DEF c
<1>9. Joined(d, c, close)
  BY <1>5, <1>8, JoinFacts DEF Joined
<1> HIDE DEF d
<1>10. Joined(e, d, addr)
  BY <1>4, <1>9, JoinFacts DEF Joined
<1> HIDE DEF e
<1>11. Joined(line, e, end)
  BY <1>4, <1>10, JoinFacts DEF Joined
<1> HIDE DEF line
<1>12. /\ Len(a) = n + 1 /\ Len(b) = n + m + 1 /\ Len(c) = n + m + k + 1
       /\ Len(d) = n + m + k + 3 /\ Len(e) = n + m + k + 4 /\ Len(line) = n + m + k + 5
  <2>1. Len(a) = n + 1
    BY <1>2, <1>4, <1>6 DEF Joined
  <2>2. Len(b) = n + m + 1
    BY <1>2, <1>7, <2>1 DEF Joined
  <2>3. Len(c) = n + m + k + 1
    BY <1>2, <1>8, <2>2 DEF Joined
  <2>4. Len(d) = n + m + k + 3
    <3>1. Len(d) = Len(c) + Len(close)
      BY <1>9, Zenon DEF Joined
    <3> QED
      BY <1>2, <1>5, <2>3, <3>1
  <2>5. Len(e) = n + m + k + 4
    BY <1>2, <1>4, <1>10, <2>4 DEF Joined
  <2>6. Len(line) = n + m + k + 5
    BY <1>2, <1>4, <1>11, <2>5 DEF Joined
  <2> QED
    BY <2>1, <2>2, <2>3, <2>4, <2>5, <2>6
<1>13. /\ \A i \in 1..n + m + k + 4 : line[i] = e[i]
       /\ line[n + m + k + 5] = "]"
  BY <1>2, <1>4, <1>11, <1>12 DEF Joined
<1>14. /\ \A i \in 1..n + m + k + 3 : line[i] = d[i]
       /\ line[n + m + k + 4] = "c0de"
  BY <1>2, <1>4, <1>10, <1>12, <1>13 DEF Joined
<1>15. /\ \A i \in 1..n + m + k + 1 : line[i] = c[i]
       /\ line[n + m + k + 2] = ")" /\ line[n + m + k + 3] = Bracket
  <2>1. \A i \in 1..n + m + k + 1 : d[i] = c[i]
    BY <1>9, <1>12, Zenon DEF Joined
  <2>2. \A i \in 1..2 : d[n + m + k + 1 + i] = close[i]
    BY <1>5, <1>9, <1>12, Zenon DEF Joined
  <2>3. d[n + m + k + 2] = ")" /\ d[n + m + k + 3] = Bracket
    <3>1. 1 \in 1..2 /\ 2 \in 1..2
      OBVIOUS
    <3>2. d[n + m + k + 1 + 1] = close[1] /\ d[n + m + k + 1 + 2] = close[2]
      BY <2>2, <3>1, Zenon
    <3>3. n + m + k + 1 + 1 = n + m + k + 2 /\ n + m + k + 1 + 2 = n + m + k + 3
      BY <1>2
    <3> QED
      BY <1>5, <3>2, <3>3, Zenon
  <2>4. /\ \A i \in 1..n + m + k + 1 : i \in 1..n + m + k + 3
        /\ n + m + k + 2 \in 1..n + m + k + 3 /\ n + m + k + 3 \in 1..n + m + k + 3
    BY <1>2
  <2> QED
    BY <1>14, <2>1, <2>3, <2>4, Zenon
<1>16. /\ \A i \in 1..n + m + 1 : line[i] = b[i]
       /\ \A i \in 1..k : line[n + m + 1 + i] = Offsets[f.off][i]
  <2>1. \A i \in 1..n + m + 1 : c[i] = b[i]
    BY <1>8, <1>12, Zenon DEF Joined
  <2>2. \A i \in 1..k : c[n + m + 1 + i] = Offsets[f.off][i]
    BY <1>2, <1>8, <1>12, Zenon DEF Joined
  <2>3. /\ \A i \in 1..n + m + 1 : i \in 1..n + m + k + 1
        /\ \A i \in 1..k : n + m + 1 + i \in 1..n + m + k + 1
    BY <1>2
  <2> QED
    BY <1>15, <2>1, <2>2, <2>3, Zenon
<1>17. /\ \A i \in 1..n + 1 : line[i] = a[i]
       /\ \A i \in 1..m : line[n + 1 + i] = f.func[i]
  <2>1. \A i \in 1..n + 1 : b[i] = a[i]
    BY <1>7, <1>12, Zenon DEF Joined
  <2>2. \A i \in 1..m : b[n + 1 + i] = f.func[i]
    BY <1>2, <1>7, <1>12, Zenon DEF Joined
  <2>3. /\ \A i \in 1..n + 1 : i \in 1..n + m + 1
        /\ \A i \in 1..m : n + 1 + i \in 1..n + m + 1
    BY <1>2
  <2> QED
    BY <1>16, <2>1, <2>2, <2>3, Zenon
<1>18. line[n + 1] = "(" /\ \A i \in 1..n : line[i] = f.file[i]
  <2>1. \A i \in 1..n : a[i] = f.file[i]
    BY <1>2, <1>6, Zenon DEF Joined
  <2>2. a[n + 1] = "("
    <3>1. \A i \in 1..1 : a[n + i] = open[i]
      BY <1>2, <1>4, <1>6, Zenon DEF Joined
    <3>2. 1 \in 1..1
      OBVIOUS
    <3> QED
      BY <1>4, <3>1, <3>2, Zenon
  <2>3. (\A i \in 1..n : i \in 1..n + 1) /\ n + 1 \in 1..n + 1
    BY <1>2
  <2> QED
    BY <1>17, <2>1, <2>2, <2>3, Zenon
<1>19. /\ k > 0 => line[n + m + 2] = Offsets[f.off][1]
       /\ k > 1 => line[n + m + 3] = Offsets[f.off][2]
  <2>1. \A i \in 1..k : line[n + m + 1 + i] = Offsets[f.off][i]
    BY <1>16, Zenon
  <2>2. (k > 0 => 1 \in 1..k) /\ (k > 1 => 2 \in 1..k)
    BY <1>2
  <2>3. n + m + 1 + 1 = n + m + 2 /\ n + m + 1 + 2 = n + m + 3
    BY <1>2
  <2> QED
    BY <2>1, <2>2, <2>3, Zenon
<1>20. line \in Lines
  BY <1>11 DEF Joined
<1> QED
  BY <1>3, <1>12, <1>13, <1>14, <1>15, <1>17, <1>18, <1>19, <1>20, Zenon DEF Written, n, m, k

-----------------------------------------------------------------------------
(***************************************************************************)
(* A part of a line that is token by token the same as s is s.             *)
(***************************************************************************)
LEMMA PartIs ==
  ASSUME NEW line \in Lines, NEW s \in Lines, NEW p \in Nat, p + Len(s) <= Len(line),
         \A i \in 1..Len(s) : line[p + i] = s[i]
  PROVE  SubSeq(line, p + 1, p + Len(s)) = s
<1> DEFINE q == SubSeq(line, p + 1, p + Len(s))
<1>1. Len(line) \in Nat /\ Len(s) \in Nat
  BY DEF Lines
<1>2. q \in Lines /\ Len(q) = Len(s) /\ \A i \in 1..Len(s) : q[i] = line[p + i]
  BY <1>1 DEF Lines
<1> HIDE DEF q
<1>3. \A i \in 1..Len(s) : q[i] = s[i]
  BY <1>2
<1>4. q = s
  <2>1. q \in Seq(LineTokens) /\ s \in Seq(LineTokens)
    BY <1>2 DEF Lines
  <2> QED
    BY <1>2, <1>3, <2>1, SeqEqual, Zenon
<1> QED
  BY <1>4 DEF q

(***************************************************************************)
(* Where the parts of a raw line are: the first "(" at a, the first "+" or *)
(* ")" after it at b, the ")" that closes at c, followed by the beginning  *)
(* of an address, and the first "]" of the address at d.                   *)
(***************************************************************************)
Laid(line, a, b, c, d) ==
  /\ a \in 1..Len(line) /\ b \in a + 1..Len(line) /\ c \in b..Len(line)
  /\ d \in c + 2..Len(line)
  /\ At(line, a) = "(" /\ \A i \in 1..a - 1 : At(line, i) # "("
  /\ At(line, b) \in {"+", ")"} /\ \A i \in a + 1..b - 1 : At(line, i) \notin {"+", ")"}
  /\ At(line, b) = "+" => b < c /\ \A i \in b + 1..c - 1 : At(line, i) # ")"
  /\ At(line, b) # "+" => c = b
  /\ At(line, c) = ")" /\ At(line, c + 1) = Bracket
  /\ At(line, d) = "]" /\ \A i \in c + 2..d - 1 : At(line, i) # "]"

\* The fields between them.
Between(line, a, b, c, d) ==
  [ok   |-> TRUE,
   file |-> SubSeq(line, 1, a - 1),
   func |-> IF At(line, b) = "+" THEN SubSeq(line, a + 1, b - 1) ELSE <<>>,
   addr |-> SubSeq(line, c + 2, d - 1)]

(***************************************************************************)
(* Every line laid out like that is taken apart there.                     *)
(***************************************************************************)
LEMMA ParseOfLaid ==
  ASSUME NEW line \in Lines, NEW a, NEW b, NEW c, NEW d, Laid(line, a, b, c, d)
  PROVE  Parse(line) = Between(line, a, b, c, d)
<1> DEFINE lp == Scan(line, 1, {"("})
           mid == Scan(line, lp + 1, {"+", ")"})
           named == At(line, mid) = "+"
           rp == IF named THEN Scan(line, mid + 1, {")"}) ELSE mid
           rb == Scan(line, rp + 2, {"]"})
<1>1. /\ Len(line) \in Nat
      /\ a \in 1..Len(line) /\ b \in 1..Len(line) /\ c \in 1..Len(line) /\ d \in 1..Len(line)
      /\ 1 \in 1..a /\ a + 1 \in 1..b /\ b <= c /\ c + 2 \in 1..d
  BY DEF Laid, Lines
<1>2. lp = a
  <2>1. At(line, a) \in {"("} /\ \A i \in 1..a - 1 : At(line, i) \notin {"("}
    BY DEF Laid
  <2> QED
    BY <1>1, <2>1, ScanIs, Zenon
<1>3. mid = b
  <2>1. At(line, b) \in {"+", ")"} /\ \A i \in a + 1..b - 1 : At(line, i) \notin {"+", ")"}
    BY DEF Laid
  <2>2. Scan(line, a + 1, {"+", ")"}) = b
    BY <1>1, <2>1, ScanIs, Zenon
  <2> QED
    BY <1>2, <2>2
<1> HIDE DEF lp, mid
<1>4. rp = c
  <2>1. CASE At(line, b) = "+"
    <3>1. b + 1 \in 1..c
      BY <1>1, <2>1 DEF Laid
    <3>2. At(line, c) \in {")"} /\ \A i \in b + 1..c - 1 : At(line, i) \notin {")"}
      BY <2>1 DEF Laid
    <3>3. Scan(line, b + 1, {")"}) = c
      BY <1>1, <3>1, <3>2, ScanIs, Zenon
    <3> QED
      BY <1>3, <2>1, <3>3
  <2>2. CASE At(line, b) # "+"
    BY <1>3, <2>2 DEF Laid
  <2> QED
    BY <2>1, <2>2
<1>5. rb = d
  <2> HIDE DEF rp
  <2>1. At(line, d) \in {"]"} /\ \A i \in c + 2..d - 1 : At(line, i) \notin {"]"}
    BY DEF Laid
  <2>2. Scan(line, c + 2, {"]"}) = d
    BY <1>1, <2>1, ScanIs, Zenon
  <2> QED
    BY <1>4, <2>2
<1>6. named = (At(line, b) = "+")
  BY <1>3
<1> HIDE DEF named, rp, rb
<1>7. /\ At(line, lp) = "(" /\ At(line, rp) = ")"
      /\ AddressFollows(line, rp) /\ At(line, rb) = "]"
  BY <1>2, <1>4, <1>5 DEF AddressFollows, Laid
<1>8. Parse(line) = [ok   |-> TRUE,
                     file |-> SubSeq(line, 1, lp - 1),
                     func |-> IF named THEN SubSeq(line, lp + 1, mid - 1) ELSE <<>>,
                     addr |-> SubSeq(line, rp + 2, rb - 1)]
  BY <1>7 DEF Parse, lp, mid, named, rp, rb
<1> QED
  BY <1>2, <1>3, <1>4, <1>5, <1>6, <1>8 DEF Between

(***************************************************************************)
(* No other line is taken apart.                                           *)
(***************************************************************************)
LEMMA LaidOfParse ==
  ASSUME NEW line \in Lines, Parse(line).ok
  PROVE  \E a, b, c, d \in Nat : Laid(line, a, b, c, d)
<1> DEFINE lp == Scan(line, 1, {"("})
           mid == Scan(line, lp + 1, {"+", ")"})
           named == At(line, mid) = "+"
           rp == IF named THEN Scan(line, mid + 1, {")"}) ELSE mid
           rb == Scan(line, rp + 2, {"]"})
<1>1. Len(line) \in Nat
  BY DEF Lines
<1>2. /\ At(line, lp) = "(" /\ At(line, rp) = ")"
      /\ AddressFollows(line, rp) /\ At(line, rb) = "]"
  BY DEF Parse
<1>3. lp \in 1..Len(line) /\ \A i \in 1..lp - 1 : At(line, i) # "("
  <2>1. lp \in 1..Len(line) + 1 /\ \A i \in 1..lp - 1 : At(line, i) \notin {"("}
    BY <1>1, ScanFacts
  <2>2. At(line, lp) # NUL
    BY <1>2 DEF NUL
  <2> QED
    BY <1>1, <2>1, <2>2, AtFacts
<1> HIDE DEF lp
<1>4. /\ mid \in lp + 1..Len(line) + 1
      /\ At(line, mid) \in {"+", ")", NUL}
      /\ \A i \in lp + 1..mid - 1 : At(line, i) \notin {"+", ")"}
  <2>1. lp + 1 \in 1..Len(line) + 1
    BY <1>1, <1>3
  <2> QED
    BY <2>1, ScanFacts
<1>5. /\ mid \in lp + 1..Len(line) /\ At(line, mid) \in {"+", ")"}
      /\ rp \in mid..Len(line)
      /\ named => mid < rp /\ \A i \in mid + 1..rp - 1 : At(line, i) # ")"
      /\ ~named => rp = mid
  <2> HIDE DEF mid
  <2>1. CASE named
    <3>1. mid \in lp + 1..Len(line)
      <4>1. At(line, mid) # NUL
        BY <2>1 DEF NUL
      <4> QED
        BY <1>1, <1>3, <1>4, <4>1, AtFacts
    <3>2. mid + 1 \in 1..Len(line) + 1
      BY <1>1, <1>3, <3>1
    <3>3. /\ rp \in mid + 1..Len(line) + 1
          /\ \A i \in mid + 1..rp - 1 : At(line, i) \notin {")"}
      BY <2>1, <3>2, ScanFacts
    <3>4. rp # Len(line) + 1
      <4>1. At(line, rp) # NUL
        BY <1>2 DEF NUL
      <4> QED
        BY <1>1, <4>1, AtFacts
    <3> HIDE DEF rp
    <3> QED
      BY <1>1, <1>3, <2>1, <3>1, <3>3, <3>4
  <2>2. CASE ~named
    <3>1. rp = mid
      BY <2>2
    <3>2. At(line, mid) = ")"
      BY <1>2, <3>1
    <3>3. mid # Len(line) + 1
      <4>1. At(line, mid) # NUL
        BY <3>2 DEF NUL
      <4> QED
        BY <1>1, <4>1, AtFacts
    <3> HIDE DEF rp
    <3> QED
      BY <1>1, <1>3, <1>4, <2>2, <3>1, <3>2, <3>3
  <2> QED
    BY <2>1, <2>2
<1> HIDE DEF mid, rp
<1>6. At(line, rp + 1) = Bracket /\ rp + 1 \in 1..Len(line)
  <2>1. At(line, rp + 1) = Bracket
    BY <1>2 DEF AddressFollows
  <2>2. At(line, rp + 1) # NUL
    BY <2>1, BracketFacts
  <2>3. rp + 1 \in Nat
    BY <1>1, <1>3, <1>5
  <2> QED
    BY <2>1, <2>2, <2>3, AtFacts
<1>7. rb \in rp + 2..Len(line) /\ \A i \in rp + 2..rb - 1 : At(line, i) # "]"
  <2>1. rp + 2 \in 1..Len(line) + 1
    BY <1>1, <1>3, <1>5, <1>6
  <2>2. rb \in rp + 2..Len(line) + 1 /\ \A i \in rp + 2..rb - 1 : At(line, i) \notin {"]"}
    BY <2>1, ScanFacts
  <2>3. At(line, rb) # NUL
    BY <1>2 DEF NUL
  <2> HIDE DEF rb
  <2> QED
    BY <1>1, <1>3, <1>5, <2>2, <2>3, AtFacts
<1> HIDE DEF rb
<1>8. lp \in Nat /\ mid \in Nat /\ rp \in Nat /\ rb \in Nat
  BY <1>1, <1>3, <1>5, <1>7
<1>9. Laid(line, lp, mid, rp, rb)
  BY <1>2, <1>3, <1>4, <1>5, <1>6, <1>7 DEF Laid
<1> QED
  BY <1>8, <1>9

(***************************************************************************)
(* What the scanner of stack_trace.cpp:181 to :243 does with any line: it  *)
(* has a result exactly for the lines laid out like that, and it is made   *)
(* of the parts in between.                                                *)
(***************************************************************************)
THEOREM ParseExact ==
  ASSUME NEW line \in Lines
  PROVE  /\ Parse(line).ok <=> \E a, b, c, d \in Nat : Laid(line, a, b, c, d)
         /\ \A a, b, c, d \in Nat :
              Laid(line, a, b, c, d) => Parse(line) = Between(line, a, b, c, d)
<1>1. \A a, b, c, d \in Nat :
        Laid(line, a, b, c, d) => Parse(line) = Between(line, a, b, c, d)
  BY ParseOfLaid
<1>2. \A a, b, c, d \in Nat : Between(line, a, b, c, d).ok = TRUE
  BY DEF Between
<1>3. Parse(line).ok \in BOOLEAN
  BY DEF Parse
<1>4. Parse(line).ok => \E a, b, c, d \in Nat : Laid(line, a, b, c, d)
  BY LaidOfParse
<1>5. ASSUME NEW a \in Nat, NEW b \in Nat, NEW c \in Nat, NEW d \in Nat,
             Laid(line, a, b, c, d)
      PROVE  Parse(line).ok = TRUE
  <2>1. Parse(line) = Between(line, a, b, c, d)
    BY <1>5, ParseOfLaid
  <2>2. Between(line, a, b, c, d).ok = TRUE
    BY <1>2
  <2> QED
    BY <2>1, <2>2
<1> QED
  BY <1>1, <1>3, <1>4, <1>5, Zenon

-----------------------------------------------------------------------------
(***************************************************************************)
(* The line of a frame as the scanner reads it.                            *)
(***************************************************************************)
LEMMA RenderAt ==
  ASSUME NEW f \in Frames, f.file # <<>>
  PROVE  LET line == Render(f)
             n == Len(f.file)
             m == Len(f.func)
             k == Len(Offsets[f.off])
         IN  /\ line \in Lines /\ n \in Nat /\ m \in Nat /\ k \in Nat
             /\ Len(line) = n + m + k + 5
             /\ \A i \in 1..Len(line) : At(line, i) = line[i]
             /\ \A i \in 1..n : At(line, i) = f.file[i]
             /\ At(line, n + 1) = "("
             /\ \A i \in 1..m : At(line, n + 1 + i) = f.func[i]
             /\ IF f.off = "above"
                THEN k = 2 /\ At(line, n + m + 2) = "+" /\ At(line, n + m + 3) = "0x1f"
                ELSE k \in 0..1 /\ (k = 1 => At(line, n + m + 2) = "-0x1f")
             /\ At(line, n + m + k + 2) = ")"
             /\ At(line, n + m + k + 3) = Bracket
             /\ At(line, n + m + k + 4) = "c0de"
             /\ At(line, n + m + k + 5) = "]"
<1> DEFINE line == Render(f)
           n == Len(f.file)
           m == Len(f.func)
           k == Len(Offsets[f.off])
<1>1. /\ line \in Lines
      /\ Len(line) = n + m + k + 5
      /\ \A i \in 1..n : line[i] = f.file[i]
      /\ line[n + 1] = "("
      /\ \A i \in 1..m : line[n + 1 + i] = f.func[i]
      /\ k > 0 => line[n + m + 2] = Offsets[f.off][1]
      /\ k > 1 => line[n + m + 3] = Offsets[f.off][2]
      /\ line[n + m + k + 2] = ")"
      /\ line[n + m + k + 3] = Bracket
      /\ line[n + m + k + 4] = "c0de"
      /\ line[n + m + k + 5] = "]"
  BY RenderFacts, Zenon DEF Written
<1>2. n \in Nat /\ m \in Nat /\ k \in Nat
  <2>1. f.file \in Seq(Words \cup Stops) /\ f.func \in Seq(Words)
    BY FrameFacts
  <2> QED
    BY <2>1, FrameFacts, OffsetFacts
<1>3. IF f.off = "above"
      THEN k = 2 /\ Offsets[f.off][1] = "+" /\ Offsets[f.off][2] = "0x1f"
      ELSE k \in 0..1 /\ (k = 1 => Offsets[f.off][1] = "-0x1f")
  BY FrameFacts, OffsetFacts
<1> HIDE DEF line, n, m, k
<1>4. \A i \in 1..Len(line) : At(line, i) = line[i]
  BY DEF At
<1>5. \A i \in 1..n : At(line, i) = f.file[i]
  <2>1. ASSUME NEW i \in 1..n PROVE At(line, i) = f.file[i]
    <3>1. i \in 1..Len(line)
      BY <1>1, <1>2
    <3> QED
      BY <1>1, <1>4, <3>1, Zenon
  <2> QED
    BY <2>1
<1>6. \A i \in 1..m : At(line, n + 1 + i) = f.func[i]
  <2>1. ASSUME NEW i \in 1..m PROVE At(line, n + 1 + i) = f.func[i]
    <3>1. n + 1 + i \in 1..Len(line)
      BY <1>1, <1>2
    <3> QED
      BY <1>1, <1>4, <3>1, Zenon
  <2> QED
    BY <2>1
<1>7. /\ n + 1 \in 1..Len(line)
      /\ n + m + k + 2 \in 1..Len(line) /\ n + m + k + 3 \in 1..Len(line)
      /\ n + m + k + 4 \in 1..Len(line) /\ n + m + k + 5 \in 1..Len(line)
      /\ n + m + 2 \in 1..Len(line) /\ n + m + 3 \in 1..Len(line)
  BY <1>1, <1>2
<1>8. /\ At(line, n + 1) = "("
      /\ At(line, n + m + k + 2) = ")" /\ At(line, n + m + k + 3) = Bracket
      /\ At(line, n + m + k + 4) = "c0de" /\ At(line, n + m + k + 5) = "]"
  BY <1>1, <1>4, <1>7, Zenon
<1>9. IF f.off = "above"
      THEN k = 2 /\ At(line, n + m + 2) = "+" /\ At(line, n + m + 3) = "0x1f"
      ELSE k \in 0..1 /\ (k = 1 => At(line, n + m + 2) = "-0x1f")
  <2>1. /\ At(line, n + m + 2) = line[n + m + 2]
        /\ At(line, n + m + 3) = line[n + m + 3]
    BY <1>4, <1>7, Zenon
  <2>2. CASE f.off = "above"
    <3>1. k = 2 /\ k > 0 /\ k > 1
      BY <1>3, <2>2
    <3>2. line[n + m + 2] = Offsets[f.off][1] /\ line[n + m + 3] = Offsets[f.off][2]
      BY <1>1, <3>1, Zenon
    <3>3. At(line, n + m + 2) = "+" /\ At(line, n + m + 3) = "0x1f"
      BY <1>3, <2>1, <2>2, <3>2
    <3> QED
      BY <2>2, <3>1, <3>3
  <2>3. CASE f.off # "above"
    <3>1. k = 1 => k > 0
      OBVIOUS
    <3> QED
      BY <1>1, <1>3, <2>1, <2>3, <3>1, Zenon
  <2> QED
    BY <2>2, <2>3
<1> QED
  BY <1>1, <1>2, <1>4, <1>5, <1>6, <1>8, <1>9, Zenon DEF line, n, m, k

(***************************************************************************)
(* The line of a frame whose file has no "(" in its name is laid out as    *)
(* the frame is, and the scanner recovers the frame.                       *)
(***************************************************************************)
LEMMA ParseRecovers ==
  ASSUME NEW f \in Frames, f.file # <<>>, "(" \notin Tokens(f.file)
  PROVE  Parse(Render(f)) = Fields(f)
<1> DEFINE line == Render(f)
           n == Len(f.file)
           m == Len(f.func)
           k == Len(Offsets[f.off])
           c == n + m + k + 2
           b == IF f.off = "above" THEN n + m + 2 ELSE c
<1>1. /\ line \in Lines /\ n \in Nat /\ m \in Nat /\ k \in Nat
      /\ Len(line) = n + m + k + 5
      /\ \A i \in 1..Len(line) : At(line, i) = line[i]
      /\ \A i \in 1..n : At(line, i) = f.file[i]
      /\ At(line, n + 1) = "("
      /\ \A i \in 1..m : At(line, n + 1 + i) = f.func[i]
      /\ IF f.off = "above"
         THEN k = 2 /\ At(line, n + m + 2) = "+" /\ At(line, n + m + 3) = "0x1f"
         ELSE k \in 0..1 /\ (k = 1 => At(line, n + m + 2) = "-0x1f")
      /\ At(line, n + m + k + 2) = ")"
      /\ At(line, n + m + k + 3) = Bracket
      /\ At(line, n + m + k + 4) = "c0de"
      /\ At(line, n + m + k + 5) = "]"
  BY RenderAt, Zenon
<1>2. /\ f.file \in Lines /\ f.func \in Lines /\ f.func \in Seq(Words)
      /\ DOMAIN f.file = 1..n /\ Len(f.file) = n /\ Len(f.func) = m
      /\ f.addr = <<"c0de">>
  <2>1. f.file \in Seq(Words \cup Stops) /\ f.func \in Seq(Words) /\ f.addr = <<"c0de">>
    BY FrameFacts
  <2> QED
    BY <2>1 DEF Lines, LineTokens
<1> HIDE DEF line, n, m, k
<1>a. n \in Nat /\ m \in Nat /\ k \in Nat
  BY <1>1
<1>3. \A i \in 1..n : At(line, i) # "("
  BY <1>1, <1>2 DEF Tokens
<1>4. \A i \in n + 2..n + m + 1 : At(line, i) \notin {"+", ")"}
  <2>1. ASSUME NEW i \in n + 2..n + m + 1
        PROVE  At(line, i) \notin {"+", ")"}
    <3>1. i - (n + 1) \in 1..m /\ n + 1 + (i - (n + 1)) = i
      BY <1>a
    <3>2. At(line, i) = f.func[i - (n + 1)]
      BY <1>1, <3>1, Zenon
    <3>3. f.func[i - (n + 1)] \in Words
      BY <1>2, <3>1
    <3> QED
      BY <3>2, <3>3, ConstantsAssumption DEF Stops
  <2> QED
    BY <2>1
<1>5. c = n + m + k + 2 /\ c \in Nat
  BY <1>1
<1>6. Laid(line, n + 1, b, c, c + 3) /\ (At(line, b) = "+") = (f.off = "above")
  <2>1. n + 1 \in 1..Len(line) /\ c \in 1..Len(line) /\ c + 3 \in c + 2..Len(line)
    <3>1. Len(line) = n + m + k + 5
      BY <1>1, Zenon
    <3> QED
      BY <1>a, <3>1
  <2>2. \A i \in c + 2..c + 3 - 1 : At(line, i) # "]"
    <3>1. ASSUME NEW i \in c + 2..c + 3 - 1 PROVE i = c + 2
      <4> HIDE DEF c
      <4> QED
        BY <1>5
    <3>2. c + 2 = n + m + k + 4
      BY <1>1
    <3> QED
      BY <1>1, <3>1, <3>2
  <2>3. /\ At(line, c) = ")" /\ At(line, c + 1) = Bracket /\ At(line, c + 3) = "]"
    <3>1. c + 1 = n + m + k + 3 /\ c + 3 = n + m + k + 5
      BY <1>1
    <3> QED
      BY <1>1, <3>1, Zenon
  <2>4. \A i \in 1..n + 1 - 1 : At(line, i) # "("
    BY <1>1, <1>3
  <2>5. CASE f.off = "above"
    <3>1. b = n + m + 2 /\ k = 2 /\ c = n + m + 4 /\ At(line, b) = "+"
      BY <1>1, <2>5
    <3>2. b \in n + 1 + 1..Len(line) /\ c \in b..Len(line) /\ b < c
      BY <1>1, <3>1
    <3>3. \A i \in n + 1 + 1..b - 1 : At(line, i) \notin {"+", ")"}
      BY <1>1, <1>4, <3>1
    <3>4. \A i \in b + 1..c - 1 : At(line, i) # ")"
      <4>1. ASSUME NEW i \in b + 1..c - 1 PROVE i = n + m + 3
        BY <1>1, <3>1
      <4> QED
        BY <1>1, <2>5, <4>1
    <3> HIDE DEF b, c
    <3> QED
      BY <1>1, <2>1, <2>2, <2>3, <2>4, <2>5, <3>1, <3>2, <3>3, <3>4 DEF Laid
  <2>6. CASE f.off # "above"
    <3>1. b = c /\ k \in 0..1 /\ At(line, b) = ")"
      BY <1>1, <2>6
    <3>2. b \in n + 1 + 1..Len(line) /\ c \in b..Len(line)
      BY <1>1, <3>1
    <3>3. \A i \in n + 1 + 1..b - 1 : At(line, i) \notin {"+", ")"}
      <4>1. ASSUME NEW i \in n + 1 + 1..b - 1
            PROVE  i \in n + 2..n + m + 1 \/ (k = 1 /\ i = n + m + 2)
        BY <1>1, <3>1
      <4> QED
        BY <1>1, <1>4, <2>6, <4>1
    <3> HIDE DEF b, c
    <3> QED
      BY <1>1, <2>1, <2>2, <2>3, <2>4, <2>6, <3>1, <3>2, <3>3 DEF Laid
  <2> QED
    BY <2>5, <2>6
<1>7. Parse(line) = Between(line, n + 1, b, c, c + 3)
  BY <1>1, <1>6, ParseOfLaid
<1>8. SubSeq(line, 1, (n + 1) - 1) = f.file
  <2>1. /\ 0 \in Nat /\ 0 + Len(f.file) <= Len(line)
        /\ \A i \in 1..Len(f.file) : line[0 + i] = f.file[i]
    BY <1>1, <1>2
  <2>2. SubSeq(line, 0 + 1, 0 + n) = f.file
    BY <1>1, <1>2, <2>1, PartIs
  <2> QED
    BY <1>1, <2>2
<1>9. f.off = "above" => SubSeq(line, n + 1 + 1, b - 1) = f.func
  <2>1. \A i \in 1..m : line[n + 1 + i] = f.func[i]
    <3>1. \A i \in 1..m : n + 1 + i \in 1..Len(line)
      BY <1>1
    <3> QED
      BY <1>1, <3>1, Zenon
  <2>2. SubSeq(line, n + 1 + 1, n + 1 + m) = f.func
    BY <1>1, <1>2, <2>1, PartIs
  <2> QED
    BY <1>1, <2>2
<1>10. SubSeq(line, c + 2, (c + 3) - 1) = f.addr
  <2>1. <<"c0de">> \in Lines /\ Len(<<"c0de">>) = 1 /\ <<"c0de">>[1] = "c0de"
    BY DEF Lines, LineTokens
  <2>2. line[c + 1 + 1] = "c0de"
    <3>1. c + 1 + 1 = n + m + k + 4 /\ n + m + k + 4 \in 1..Len(line)
      BY <1>1
    <3> QED
      BY <1>1, <3>1, Zenon
  <2>3. c + 1 \in Nat /\ c + 1 + 1 <= Len(line)
    BY <1>1
  <2> HIDE DEF c
  <2> DEFINE word == <<"c0de">>
  <2>4. word \in Lines /\ Len(word) = 1 /\ \A i \in 1..1 : line[c + 1 + i] = word[i]
    BY <2>1, <2>2
  <2> HIDE DEF word
  <2>5. SubSeq(line, c + 1 + 1, c + 1 + Len(word)) = word
    BY <1>1, <2>3, <2>4, PartIs
  <2>6. c + 1 + 1 = c + 2 /\ (c + 3) - 1 = c + 2
    BY <1>5
  <2> QED
    BY <1>2, <2>4, <2>5, <2>6 DEF word
<1> HIDE DEF b, c
<1>11. (IF At(line, b) = "+" THEN SubSeq(line, n + 1 + 1, b - 1) ELSE <<>>)
         = IF f.off = "above" THEN f.func ELSE <<>>
  BY <1>6, <1>9
<1>12. Between(line, n + 1, b, c, c + 3) = Fields(f)
  <2> DEFINE file == SubSeq(line, 1, (n + 1) - 1)
             func == IF At(line, b) = "+" THEN SubSeq(line, n + 1 + 1, b - 1) ELSE <<>>
             addr == SubSeq(line, c + 2, (c + 3) - 1)
             given == IF f.off = "above" THEN f.func ELSE <<>>
  <2>1. file = f.file /\ func = given /\ addr = f.addr
    BY <1>8, <1>10, <1>11, Zenon
  <2>2. Between(line, n + 1, b, c, c + 3) =
          [ok |-> TRUE, file |-> file, func |-> func, addr |-> addr]
    BY Zenon DEF Between
  <2>3. Fields(f) = [ok |-> TRUE, file |-> f.file, func |-> given, addr |-> f.addr]
    BY Zenon DEF Fields
  <2> HIDE DEF file, func, addr, given
  <2> QED
    BY <2>1, <2>2, <2>3, Zenon
<1> QED
  BY <1>7, <1>12 DEF line

(***************************************************************************)
(* When the file has a "(" that is closed, and nothing that looks like an  *)
(* address after it, the scanner gives up.                                 *)
(***************************************************************************)
LEMMA ParseRejects ==
  ASSUME NEW f \in Frames, f.file # <<>>,
         "(" \in Tokens(f.file), Closed(f.file), ~Imitates(f.file)
  PROVE  ~Parse(Render(f)).ok
<1> DEFINE line == Render(f)
           n == Len(f.file)
<1>1. /\ line \in Lines /\ n \in Nat /\ n < Len(line)
      /\ \A i \in 1..n : At(line, i) = f.file[i]
      /\ At(line, n + 1) = "("
  <2> DEFINE m == Len(f.func)
             k == Len(Offsets[f.off])
  <2>1. /\ line \in Lines /\ n \in Nat /\ m \in Nat /\ k \in Nat
        /\ Len(line) = n + m + k + 5
        /\ \A i \in 1..n : At(line, i) = f.file[i]
        /\ At(line, n + 1) = "("
    BY RenderAt, Zenon
  <2> HIDE DEF line, n, m, k
  <2> QED
    BY <2>1
<1>2. f.file \in Lines /\ DOMAIN f.file = 1..n
  <2>1. f.file \in Seq(Words \cup Stops)
    BY FrameFacts
  <2> QED
    BY <2>1 DEF Lines, LineTokens
<1>3. SUFFICES ASSUME Parse(line).ok
               PROVE  FALSE
  OBVIOUS
<1>4. PICK a, b, c, d \in Nat : Laid(line, a, b, c, d)
  BY <1>1, <1>3, LaidOfParse
<1> HIDE DEF line
<1>5. PICK i \in 1..n : f.file[i] = "("
  BY <1>2 DEF Tokens
<1>6. a \in 1..n /\ f.file[a] = "("
  <2>1. ~ (i < a)
    BY <1>1, <1>4, <1>5 DEF Laid
  <2> QED
    BY <1>1, <1>4, <1>5, <2>1 DEF Laid
<1>7. PICK j \in 1..n : j > a /\ f.file[j] = ")"
  BY <1>2, <1>6 DEF Closed
<1>8. At(line, j) = ")"
  BY <1>1, <1>7
<1>9. b <= j
  BY <1>4, <1>6, <1>7, <1>8 DEF Laid
<1>10. c <= j
  BY <1>4, <1>6, <1>7, <1>8, <1>9 DEF Laid
<1>11. c \in 1..n /\ f.file[c] = ")" /\ At(line, c + 1) = Bracket
  BY <1>1, <1>4, <1>6, <1>7, <1>10 DEF Laid
<1>12. CASE c = n
  BY <1>1, <1>11, <1>12, BracketFacts
<1>13. CASE c < n
  <2>1. c + 1 \in 1..n
    BY <1>1, <1>11, <1>13
  <2>2. At(line, c + 1) = f.file[c + 1] /\ At(f.file, c + 1) = f.file[c + 1]
    BY <1>1, <1>2, <2>1 DEF At
  <2> QED
    BY <1>2, <1>11, <2>2 DEF Imitates
<1> QED
  BY <1>1, <1>11, <1>12, <1>13

(***************************************************************************)
(* A frame without a file has no "(" in its line.                          *)
(***************************************************************************)
LEMMA ParseRejectsNoFile ==
  ASSUME NEW f \in Frames, f.file = <<>>
  PROVE  ~Parse(Render(f)).ok
<1> DEFINE begin == <<"[0x">>
           addr == <<"c0de">>
           end == <<"]">>
           part == begin \o addr
           line == part \o end
<1>1. Render(f) = line
  BY FrameFacts, Zenon DEF Render
<1>2. /\ begin \in Lines /\ Len(begin) = 1 /\ begin[1] = "[0x"
      /\ addr \in Lines /\ Len(addr) = 1 /\ addr[1] = "c0de"
      /\ end \in Lines /\ Len(end) = 1 /\ end[1] = "]"
  BY DEF Lines, LineTokens, Stops
<1> HIDE DEF begin, addr, end
<1>3. Joined(part, begin, addr)
  BY <1>2, JoinFacts
<1> HIDE DEF part
<1>4. Joined(line, part, end)
  BY <1>2, <1>3, JoinFacts DEF Joined
<1> HIDE DEF line
<1>5. Len(part) = 2 /\ part[1] = "[0x" /\ part[2] = "c0de"
  BY <1>2, <1>3 DEF Joined
<1>6. line \in Lines /\ Len(line) = 3
  BY <1>2, <1>4, <1>5 DEF Joined
<1>7. line[1] = "[0x" /\ line[2] = "c0de" /\ line[3] = "]"
  BY <1>2, <1>4, <1>5 DEF Joined
<1>8. \A i \in 1..3 : At(line, i) # "("
  BY <1>6, <1>7 DEF At
<1>9. ~Parse(line).ok
  <2> SUFFICES ASSUME Parse(line).ok
               PROVE  FALSE
    OBVIOUS
  <2>1. PICK a, b, c, d \in Nat : Laid(line, a, b, c, d)
    BY <1>6, LaidOfParse
  <2> QED
    BY <1>6, <1>8, <2>1 DEF Laid
<1> QED
  BY <1>1, <1>9

-----------------------------------------------------------------------------
(***************************************************************************)
(* What a conversion writes is never empty: the name of the function, or   *)
(* the words that stand for it, are always there.                          *)
(***************************************************************************)
EntryTokens ==
  LineTokens \cup {"demangled", "in", "<no function name>", "??:0", "["}

LEMMA ConversionNotEmpty ==
  ASSUME NEW f \in Frames, NEW out \in Outputs \cup {<<>>}, NEW valid \in BOOLEAN
  PROVE  Where(Fields(f), out) \o Name(Fields(f), valid) # <<>>
<1> DEFINE p == Fields(f)
           where == Where(p, out)
           name == Name(p, valid)
<1>1. /\ p.file \in Seq(EntryTokens) /\ p.func \in Seq(EntryTokens) /\ p.addr \in Seq(EntryTokens)
      /\ out \in Seq(EntryTokens)
  <2>1. /\ f.file \in Seq(Words \cup Stops) /\ f.func \in Seq(Words)
        /\ f.addr = <<"c0de">>
    BY FrameFacts
  <2>2. p.file = f.file /\ p.func \in {f.func, <<>>} /\ p.addr = f.addr
    BY DEF Fields
  <2>3. out \in Seq(Words)
    <3>1. out = <<>> => out \in Seq(Words)
      OBVIOUS
    <3> QED
      BY <3>1, ConstantsAssumption
  <2>4. Words \subseteq EntryTokens /\ Stops \subseteq EntryTokens /\ "c0de" \in EntryTokens
    BY DEF EntryTokens, LineTokens
  <2>5. p.file \in Seq(EntryTokens)
    BY <2>1, <2>2, <2>4
  <2>6. p.func \in Seq(EntryTokens)
    <3>1. f.func \in Seq(EntryTokens)
      BY <2>1, <2>4
    <3>2. <<>> \in Seq(EntryTokens)
      OBVIOUS
    <3> QED
      BY <2>2, <3>1, <3>2, Zenon
  <2>7. <<"c0de">> \in Seq(EntryTokens)
    BY <2>4
  <2>8. out \in Seq(EntryTokens)
    BY <2>3, <2>4
  <2> QED
    BY <2>1, <2>2, <2>5, <2>6, <2>7, <2>8
<1>2. where \in Seq(EntryTokens)
  <2>1. <<"[">> \in Seq(EntryTokens) /\ <<"]">> \in Seq(EntryTokens)
    BY DEF EntryTokens, LineTokens, Stops
  <2>2. p.file \o <<"[">> \o p.addr \o <<"]">> \in Seq(EntryTokens)
    BY <1>1, <2>1, ConcatProperties, Zenon
  <2> QED
    BY <1>1, <2>2, Zenon DEF Where
<1>3. name \in Seq(EntryTokens) /\ Len(name) > 0
  <2>1. /\ <<"in">> \in Seq(EntryTokens) /\ Len(<<"in">>) = 1
        /\ <<"<no function name>">> \in Seq(EntryTokens) /\ Len(<<"<no function name>">>) = 1
        /\ <<"demangled">> \in Seq(EntryTokens)
    BY DEF EntryTokens
  <2>2. Demangle(p.func, valid) \in Seq(EntryTokens)
    BY <1>1, <2>1, ConcatProperties, Zenon DEF Demangle
  <2> DEFINE q == Demangle(p.func, valid)
             in == <<"in">>
             none == <<"<no function name>">>
  <2>3. /\ in \in Seq(EntryTokens) /\ Len(in) = 1 /\ q \in Seq(EntryTokens)
        /\ none \in Seq(EntryTokens) /\ Len(none) = 1
    BY <2>1, <2>2, Zenon
  <2> HIDE DEF q, in, none
  <2>4. in \o q \in Seq(EntryTokens) /\ Len(in \o q) = Len(in) + Len(q) /\ Len(q) \in Nat
    BY <2>3, ConcatProperties, LenProperties, Zenon
  <2>5. in \o q \in Seq(EntryTokens) /\ Len(in \o q) > 0
    BY <2>3, <2>4
  <2>6. CASE p.func # <<>>
    <3>1. name = in \o q
      BY <2>6, Zenon DEF Name, q, in
    <3> QED
      BY <2>5, <3>1
  <2>7. CASE p.func = <<>>
    <3>1. name = none
      BY <2>7, Zenon DEF Name, none
    <3>2. none \in Seq(EntryTokens) /\ Len(none) > 0
      BY <2>3
    <3> HIDE DEF name
    <3> QED
      BY <3>1, <3>2, Zenon
  <2> QED
    BY <2>6, <2>7
<1> HIDE DEF where, name
<1>4. Len(where \o name) = Len(where) + Len(name) /\ Len(where) \in Nat /\ Len(name) \in Nat
  BY <1>2, <1>3
<1>5. Len(where \o name) # 0
  BY <1>3, <1>4
<1>6. where \o name # <<>>
  BY <1>5
<1> QED
  BY <1>6 DEF where, name

(***************************************************************************)
(* The entry of a frame is its raw line when the scanner gave up, and a    *)
(* truthful description when it recovered the fields.                      *)
(***************************************************************************)
LEMMA EntryFacts ==
  ASSUME NEW f \in Frames, NEW out \in Outputs \cup {<<>>}, NEW valid \in BOOLEAN
  PROVE  /\ ~Parse(Render(f)).ok => Entry(Render(f), out, valid) = Render(f)
         /\ Parse(Render(f)) = Fields(f) =>
              Entry(Render(f), out, valid) = Where(Fields(f), out) \o Name(Fields(f), valid)
<1>1. Fields(f).ok
  BY DEF Fields
<1> QED
  BY <1>1, ConversionNotEmpty, Zenon DEF Entry

-----------------------------------------------------------------------------
\* What holds of every frame, converted or not.
IInv ==
  /\ frame \in Frames
  /\ printed \in Outputs \cup {<<>>}
  /\ entry # <<>> => \E valid \in BOOLEAN : entry = Entry(Render(frame), printed, valid)

(***************************************************************************)
(* An entry is made from the line of its own frame.                        *)
(***************************************************************************)
LEMMA Invariant == Spec => []IInv
<1>1. Init => IInv
  BY DEF Init, IInv
<1>2. IInv /\ [Next]_vars => IInv'
  <2> SUFFICES ASSUME IInv, [Next]_vars
               PROVE  IInv'
    OBVIOUS
  <2>1. CASE Convert
    <3>1. frame' = frame /\ printed' \in Outputs
      BY <2>1 DEF Convert
    <3>2. \E valid \in BOOLEAN : entry' = Entry(Render(frame'), printed', valid)
      BY <2>1, <3>1 DEF Convert
    <3> QED
      BY <3>1, <3>2 DEF IInv
  <2>2. CASE UNCHANGED vars
    BY <2>2 DEF vars, IInv
  <2> QED
    BY <2>1, <2>2 DEF Next
<1> QED
  BY <1>1, <1>2, PTL DEF Spec

(***************************************************************************)
(* The scanner recovers every frame whose file has no "(" in its name      *)
(* (stack_trace.cpp:181 to :243), however long the line; the function of   *)
(* an address below its symbol stays blank.                                *)
(***************************************************************************)
THEOREM FieldsRecoveredCorrect == Spec => []FieldsRecovered
<1>1. IInv => FieldsRecovered
  BY ParseRecovers DEF IInv, FieldsRecovered
<1> QED
  BY <1>1, Invariant, PTL

(***************************************************************************)
(* No entry blames the wrong file or function, for every file whose name   *)
(* does not itself look like a raw line.                                   *)
(***************************************************************************)
THEOREM NeverMislabelsCorrect == Spec => []NeverMislabels
<1>1. IInv => NeverMislabels
  <2> SUFFICES ASSUME IInv, entry # <<>>, Closed(frame.file), ~Imitates(frame.file)
               PROVE  entry \in {Render(frame)} \cup Truthful(frame, printed)
    BY DEF NeverMislabels
  <2>1. PICK valid \in BOOLEAN : entry = Entry(Render(frame), printed, valid)
    BY DEF IInv
  <2>2. frame \in Frames /\ printed \in Outputs \cup {<<>>}
    BY DEF IInv
  <2>3. CASE ~Parse(Render(frame)).ok
    BY <2>1, <2>2, <2>3, EntryFacts
  <2>4. CASE Parse(Render(frame)) = Fields(frame)
    <3>1. entry = Where(Fields(frame), printed) \o Name(Fields(frame), valid)
      BY <2>1, <2>2, <2>4, EntryFacts
    <3> QED
      BY <3>1 DEF Truthful
  <2>5. ~Parse(Render(frame)).ok \/ Parse(Render(frame)) = Fields(frame)
    BY <2>2, ParseRecovers, ParseRejects, ParseRejectsNoFile
  <2> QED
    BY <2>3, <2>4, <2>5
<1> QED
  BY <1>1, Invariant, PTL
=============================================================================
