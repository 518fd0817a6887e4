-------------------------- MODULE HttpProtocolProofs --------------------------
(***************************************************************************)
(* Theorems about HttpProtocol, for any responses: any status and header   *)
(* fields, any text, compressed or not, cut into any chunks, received and  *)
(* broken off anywhere; for any size of the buffer of a request.           *)
(*                                                                         *)
(* A response is known by what is at each position of it.  What has come   *)
(* of it is a beginning, so what find, substr and hex2dec see is what they *)
(* would see in all of it, or that there is no more; the loop over the     *)
(* chunks is followed round by round from one size line to the next.  With *)
(* this the invariant of the crawl says of a page, when it is analysed,    *)
(* what the properties ask.                                                *)
(*                                                                         *)
(* Recursive definitions are functions on 0..n: that there is one for      *)
(* every n, and what holds of it, follows from the least number for which  *)
(* it would not (LeastNumber, NoLeast).                                    *)
(***************************************************************************)
EXTENDS HttpProtocol, TLAPS, SequenceTheorems, WellFoundedInduction

(***************************************************************************)
(* Natural numbers and sequences.                                          *)
(***************************************************************************)
\* A set of natural numbers has a least one.
LEMMA LeastNumber ==
  ASSUME NEW T, T \subseteq Nat, T # {}
  PROVE  Least(T) \in T /\ \A n \in T : Least(T) <= n
<1> DEFINE R == OpToRel(<, Nat)
<1>1. PICK m \in T : \A n \in T : ~(<<n, m>> \in R)
  BY NatLessThanWellFounded, WFMin
<1>2. \A n \in T : n < m => <<n, m>> \in R
  BY DEF OpToRel
<1>3. \A n \in T : n \in Nat /\ m \in Nat /\ ~(n < m)
  BY <1>1, <1>2
<1>4. \A n \in T : m <= n
  BY <1>3
<1> QED BY <1>4 DEF Least

\* Hence what holds of 0, and of n + 1 if it holds of n, holds of every number: the
\* set of the numbers it does not hold of is empty.
LEMMA NoLeast ==
  ASSUME NEW T, T \subseteq Nat, 0 \notin T, \A n \in Nat : n + 1 \in T => n \in T
  PROVE  T = {}
<1>1. SUFFICES ASSUME T # {} PROVE FALSE
  OBVIOUS
<1>2. Least(T) \in T /\ Least(T) \in Nat /\ \A n \in T : Least(T) <= n
  BY <1>1, LeastNumber
<1>3. Least(T) # 0
  BY <1>2
<1>4. Least(T) - 1 \in Nat /\ (Least(T) - 1) + 1 = Least(T)
  BY <1>2, <1>3
<1>5. Least(T) - 1 \in T
  BY <1>2, <1>4
<1> QED BY <1>2, <1>4, <1>5

(***************************************************************************)
(* A recursive definition defines a function.                              *)
(***************************************************************************)
WithChunk(wire, s, cuts, i) == wire \o Chunk(s, cuts, i)
\* FirstChunks of the first n chunks.
IsFirstChunks(s, cuts, n, f) ==
  f = [i \in 0 .. n |-> IF i = 0 THEN <<>> ELSE WithChunk(f[i - 1], s, cuts, i)]

\* There is such a function for every number of chunks: if for n, then for n + 1.
LEMMA FirstChunksExist ==
  ASSUME NEW s, NEW cuts, NEW N \in Nat
  PROVE  \E f : IsFirstChunks(s, cuts, N, f)
<1> DEFINE T == {n \in Nat : ~ \E f : IsFirstChunks(s, cuts, n, f)}
<1>1. IsFirstChunks(s, cuts, 0, [i \in 0 .. 0 |-> <<>>])
  BY DEF IsFirstChunks
<1>2. ASSUME NEW n \in Nat, n \notin T PROVE n + 1 \notin T
  <2>1. PICK f : IsFirstChunks(s, cuts, n, f)
    BY <1>2
  <2> DEFINE g == [i \in 0 .. n + 1 |-> IF i = n + 1 THEN WithChunk(f[n], s, cuts, n + 1) ELSE f[i]]
  <2>2. IsFirstChunks(s, cuts, n + 1, g)
    BY <2>1 DEF IsFirstChunks
  <2> HIDE DEF g
  <2> QED BY <2>2
<1>3. 0 \notin T
  BY <1>1
<1> HIDE DEF T
<1>4. T = {}
  BY <1>2, <1>3, NoLeast DEF T
<1> QED BY <1>4 DEF T

\* So it is what FirstChunks is.
LEMMA FirstChunksIs ==
  ASSUME NEW s, NEW cuts, Len(cuts) \in Nat
  PROVE  IsFirstChunks(s, cuts, Len(cuts), FirstChunks(s, cuts))
<1> DEFINE f == CHOOSE g : IsFirstChunks(s, cuts, Len(cuts), g)
<1>1. IsFirstChunks(s, cuts, Len(cuts), f)
  BY FirstChunksExist
<1>2. FirstChunks(s, cuts) = f
  BY DEF FirstChunks, IsFirstChunks, WithChunk
<1> QED BY <1>1, <1>2

\* The first n rounds.
IsRounds(body, n, f) ==
  f = [i \in 0 .. n |-> IF i = 0 THEN NoRound ELSE NextRound(body, f[i - 1])]

\* There is such a function for every number of rounds.
LEMMA RoundsExist ==
  ASSUME NEW body, NEW N \in Nat
  PROVE  \E f : IsRounds(body, N, f)
<1> DEFINE T == {n \in Nat : ~ \E f : IsRounds(body, n, f)}
<1>1. IsRounds(body, 0, [i \in 0 .. 0 |-> NoRound])
  BY DEF IsRounds
<1>2. ASSUME NEW n \in Nat, n \notin T PROVE n + 1 \notin T
  <2>1. PICK f : IsRounds(body, n, f)
    BY <1>2
  <2> DEFINE g == [i \in 0 .. n + 1 |-> IF i = n + 1 THEN NextRound(body, f[n]) ELSE f[i]]
  <2>2. IsRounds(body, n + 1, g)
    BY <2>1 DEF IsRounds
  <2> HIDE DEF g
  <2> QED BY <2>2
<1>3. 0 \notin T
  BY <1>1
<1> HIDE DEF T
<1>4. T = {}
  BY <1>2, <1>3, NoLeast DEF T
<1> QED BY <1>4 DEF T

\* So it is what Rounds is.
LEMMA RoundsIs ==
  ASSUME NEW body, Len(body) \in Nat
  PROVE  IsRounds(body, Len(body) + 1, Rounds(body))
<1> DEFINE f == CHOOSE g : IsRounds(body, Len(body) + 1, g)
<1>1. Len(body) + 1 \in Nat /\ IsRounds(body, Len(body) + 1, f)
  BY RoundsExist, SMTT(40)
<1>2. Rounds(body) = f
  BY DEF Rounds, IsRounds
<1> QED BY <1>1, <1>2

(***************************************************************************)
(* find.                                                                   *)
(***************************************************************************)
Matches(pattern, s, o) == SubSeq(s, o + 1, o + Len(pattern)) = pattern

\* A position before which the pattern is not, and where it is if s is that long, is
\* the one that find returns.
LEMMA FindFirst ==
  ASSUME NEW pattern, NEW s, NEW from \in Nat, NEW at \in Nat, from <= at,
         Len(s) \in Nat, Len(pattern) \in Nat,
         \A o \in from .. at - 1 : o + Len(pattern) <= Len(s) => ~Matches(pattern, s, o),
         at + Len(pattern) <= Len(s) => Matches(pattern, s, at)
  PROVE  Find(pattern, s, from) = IF at + Len(pattern) <= Len(s) THEN at ELSE NPOS
<1> DEFINE found == {o \in from .. Len(s) - Len(pattern) : Matches(pattern, s, o)}
<1>1. Find(pattern, s, from) = IF found = {} THEN NPOS ELSE Least(found)
  BY Zenon DEF Find, Matches
<1>2. \A o \in found : o \in Nat /\ o >= at /\ o + Len(pattern) <= Len(s)
  OBVIOUS
<1>3. CASE at + Len(pattern) <= Len(s)
  <2>1. at \in found
    BY <1>3
  <2>2. found \subseteq Nat
    BY <1>2
  <2> HIDE DEF found
  <2>3. Least(found) \in found /\ Least(found) <= at
    BY <2>1, <2>2, LeastNumber
  <2>4. Least(found) \in Nat /\ Least(found) >= at
    BY <1>2, <2>3
  <2>5. Least(found) = at
    BY <2>3, <2>4
  <2> QED BY <1>1, <1>3, <2>1, <2>5
<1>4. CASE ~(at + Len(pattern) <= Len(s))
  <2>1. found = {}
    BY <1>2, <1>4
  <2> HIDE DEF found
  <2> QED BY <1>1, <1>4, <2>1
<1> QED BY <1>3, <1>4

\* There is an end of line behind o units.
IsLineEnd(s, o) == s[o + 1] = "CR" /\ s[o + 2] = "LF"

\* An end of line matches where its two units are.
LEMMA LineEndMatches ==
  ASSUME NEW S, NEW s \in Seq(S), NEW o \in Nat, o + 2 <= Len(s)
  PROVE  Matches(CRLF, s, o) <=> IsLineEnd(s, o)
<1> DEFINE t == SubSeq(s, o + 1, o + 2)
<1>1. \A i \in o + 1 .. o + 2 : s[i] \in S
  BY ElementOfSeq
<1>2. t \in Seq(S) /\ Len(t) = 2 /\ t[1] = s[o + 1] /\ t[2] = s[o + 2]
  BY <1>1, SubSeqProperties
<1>3. Len(CRLF) = 2 /\ CRLF[1] = "CR" /\ CRLF[2] = "LF"
  BY DEF CRLF
<1> HIDE DEF t
<1>4. t = <<t[1], t[2]>>
  BY <1>2
<1> QED BY <1>2, <1>3, <1>4 DEF Matches, IsLineEnd, CRLF, t

\* The end of the header is two ends of line, one behind the other.
LEMMA HeaderEndMatches ==
  ASSUME NEW S, NEW s \in Seq(S), NEW o \in Nat, o + 4 <= Len(s)
  PROVE  Matches(DOUBLECRLF, s, o) <=> IsLineEnd(s, o) /\ IsLineEnd(s, o + 2)
<1> DEFINE t == SubSeq(s, o + 1, o + 4)
<1>1. \A i \in o + 1 .. o + 4 : s[i] \in S
  BY ElementOfSeq
<1>2. /\ t \in Seq(S) /\ Len(t) = IF o + 1 <= o + 4 THEN o + 4 - (o + 1) + 1 ELSE 0
      /\ \A i \in 1 .. o + 4 - (o + 1) + 1 : t[i] = s[o + 1 + i - 1]
  BY <1>1, SubSeqProperties
<1>3. o + 4 - (o + 1) + 1 = 4 /\ o + 1 <= o + 4
  OBVIOUS
<1>4. Len(t) = 4 /\ \A i \in 1 .. 4 : t[i] = s[o + i]
  BY <1>2, <1>3
<1>5. /\ t \in Seq(S) /\ Len(t) = 4 /\ t[1] = s[o + 1] /\ t[2] = s[o + 2]
      /\ t[3] = s[(o + 2) + 1] /\ t[4] = s[(o + 2) + 2]
  BY <1>2, <1>4
<1>6. DOUBLECRLF = <<"CR", "LF", "CR", "LF">> /\ Len(DOUBLECRLF) = 4
  BY DEF DOUBLECRLF
<1> HIDE DEF t
<1>7. t = <<t[1], t[2], t[3], t[4]>>
  BY <1>5
<1> QED BY <1>5, <1>6, <1>7 DEF Matches, IsLineEnd, t

\* Where find sees the end of a line,
LEMMA FindLineEnd ==
  ASSUME NEW S, NEW s \in Seq(S), NEW from \in Nat, NEW at \in Nat, from <= at,
         \A o \in from .. at - 1 : o + 2 <= Len(s) => ~IsLineEnd(s, o),
         at + 2 <= Len(s) => IsLineEnd(s, at)
  PROVE  Find(CRLF, s, from) = IF at + 2 <= Len(s) THEN at ELSE NPOS
<1>1. Len(s) \in Nat /\ Len(CRLF) = 2
  BY LenProperties DEF CRLF
<1>2. ASSUME NEW o \in from .. at - 1, o + Len(CRLF) <= Len(s) PROVE ~Matches(CRLF, s, o)
  <2>1. o \in Nat /\ o + 2 <= Len(s)
    BY <1>1, <1>2
  <2>2. ~(IsLineEnd(s, o))
    BY <2>1
  <2> QED BY <2>1, <2>2, LineEndMatches
<1>3. at + Len(CRLF) <= Len(s) => Matches(CRLF, s, at)
  BY <1>1, LineEndMatches
<1>4. Len(CRLF) \in Nat
  BY <1>1
<1>5. \A o \in from .. at - 1 : o + Len(CRLF) <= Len(s) => ~Matches(CRLF, s, o)
  BY <1>2
<1>6. Find(CRLF, s, from) = IF at + Len(CRLF) <= Len(s) THEN at ELSE NPOS
  BY <1>1, <1>4, <1>5, <1>3, FindFirst, Zenon
<1> QED BY <1>1, <1>6

\* and the end of the header.
LEMMA FindHeaderEnd ==
  ASSUME NEW S, NEW s \in Seq(S), NEW from \in Nat, NEW at \in Nat, from <= at,
         \A o \in from .. at - 1 : o + 4 <= Len(s) => ~(IsLineEnd(s, o) /\ IsLineEnd(s, o + 2)),
         at + 4 <= Len(s) => IsLineEnd(s, at) /\ IsLineEnd(s, at + 2)
  PROVE  Find(DOUBLECRLF, s, from) = IF at + 4 <= Len(s) THEN at ELSE NPOS
<1>1. Len(s) \in Nat /\ Len(DOUBLECRLF) = 4
  BY LenProperties DEF DOUBLECRLF
<1>2. ASSUME NEW o \in from .. at - 1, o + Len(DOUBLECRLF) <= Len(s) PROVE ~Matches(DOUBLECRLF, s, o)
  <2>1. o \in Nat /\ o + 4 <= Len(s)
    BY <1>1, <1>2
  <2>2. ~(IsLineEnd(s, o) /\ IsLineEnd(s, o + 2))
    BY <2>1
  <2> QED BY <2>1, <2>2, HeaderEndMatches
<1>3. at + Len(DOUBLECRLF) <= Len(s) => Matches(DOUBLECRLF, s, at)
  BY <1>1, HeaderEndMatches
<1>4. Len(DOUBLECRLF) \in Nat
  BY <1>1
<1>5. \A o \in from .. at - 1 : o + Len(DOUBLECRLF) <= Len(s) => ~Matches(DOUBLECRLF, s, o)
  BY <1>2
<1>6. Find(DOUBLECRLF, s, from) = IF at + Len(DOUBLECRLF) <= Len(s) THEN at ELSE NPOS
  BY <1>1, <1>4, <1>5, <1>3, FindFirst, Zenon
<1> QED BY <1>1, <1>6

\* What substr takes from the middle of a sequence.
TakenFrom(t, s, from, n) == Len(t) = n /\ \A i \in 1 .. n : t[i] = s[from + i]

\* substr takes what it is asked for, or what is left.
LEMMA SubstrFacts ==
  ASSUME NEW S, NEW s \in Seq(S), NEW from \in Nat, NEW count \in Nat, from <= Len(s),
         NEW n, n = IF from + count < Len(s) THEN count ELSE Len(s) - from
  PROVE  n \in Nat /\ substr(s, from, count) \in Seq(S) /\ TakenFrom(substr(s, from, count), s, from, n)
<1>1. Len(s) \in Nat /\ n \in Nat /\ from + n <= Len(s)
  BY LenProperties
<1>2. substr(s, from, count) = SubSeq(s, from + 1, from + n)
  BY <1>1 DEF substr
<1>3. \A i \in from + 1 .. from + n : s[i] \in S
  BY <1>1, ElementOfSeq
<1>4. from + n - (from + 1) + 1 = n /\ \A i \in 1 .. n : (from + 1) + i - 1 = from + i
  BY <1>1
<1>5. /\ substr(s, from, count) \in Seq(S)
      /\ Len(substr(s, from, count)) = IF from + 1 <= from + n THEN from + n - (from + 1) + 1 ELSE 0
      /\ \A i \in 1 .. from + n - (from + 1) + 1 : substr(s, from, count)[i] = s[(from + 1) + i - 1]
  BY <1>1, <1>2, <1>3, SubSeqProperties
<1>6. Len(substr(s, from, count)) = n
  <2>1. (IF from + 1 <= from + n THEN from + n - (from + 1) + 1 ELSE 0) = n
    BY <1>1
  <2> QED BY <1>5, <2>1
<1>7. \A i \in 1 .. n : substr(s, from, count)[i] = s[from + i]
  BY <1>4, <1>5
<1> QED BY <1>1, <1>5, <1>6, <1>7 DEF TakenFrom

(***************************************************************************)
(* The size of a chunk.                                                    *)
(***************************************************************************)
LEMMA DigitFacts ==
  /\ "0" \in ToSet(Digits) /\ ToSet(Digits) \cap {"CR", "LF"} = {}
<1>1. Len(Digits) = 16 /\ DOMAIN Digits = 1 .. 16
  BY DEF Digits
<1>2. \A d \in 1 .. 16 : Digits[d] \notin {"CR", "LF"}
  BY DEF Digits
<1>3. Digits[1] = "0"
  BY DEF Digits
<1> QED BY <1>1, <1>2, <1>3 DEF ToSet

\* A size is read as it was written.
LEMMA HexFacts ==
  ASSUME NEW n \in DOMAIN Hex
  PROVE  /\ Len(Hex[n]) \in Nat /\ Len(Hex[n]) >= 1 /\ Hex[n] \in Seq(ToSet(Digits))
         /\ \A i \in 1 .. Len(Hex[n]) : Hex[n][i] \in ToSet(Digits) /\ Hex[n][i] \notin {"CR", "LF"}
         /\ HexNumber(Hex[n]) = n
<1>1. Hex[n] \in Seq(ToSet(Digits)) /\ Hex[n] # <<>> /\ HexNumber(Hex[n]) = n
  BY HexAssumption
<1>2. Len(Hex[n]) \in Nat /\ Len(Hex[n]) # 0
  BY <1>1, LenProperties, EmptySeq
<1>3. ToSet(Digits) \cap {"CR", "LF"} = {}
  BY DigitFacts
<1>4. \A i \in 1 .. Len(Hex[n]) : Hex[n][i] \in ToSet(Digits)
  BY <1>1, ElementOfSeq
<1>5. Len(Hex[n]) >= 1
  BY <1>2
<1> QED BY <1>1, <1>2, <1>3, <1>4, <1>5

\* What is read of a line that holds a size, with or without the end of the line
\* before it.
IsSizeLine(t, b, n) ==
  /\ Len(t) = b + Len(Hex[n]) /\ (b = 1 => t[1] = "LF")
  /\ \A i \in 1 .. Len(Hex[n]) : t[b + i] = Hex[n][i]

\* hex2dec reads the size in a line, with or without the rest of the line end before it.
LEMMA SizeLine ==
  ASSUME NEW S, NEW t \in Seq(S), NEW b \in {0, 1}, NEW n \in DOMAIN Hex, IsSizeLine(t, b, n)
  PROVE  hex2dec(t) = n
<1>1. PICK h : h = Len(Hex[n])
  OBVIOUS
<1>2. Len(t) = b + h /\ (b = 1 => t[1] = "LF") /\ \A i \in 1 .. h : t[b + i] = Hex[n][i]
  BY <1>1 DEF IsSizeLine
<1> DEFINE end == Len(t) + 1
           firsts == {i \in 1 .. end : i = end \/ t[i] \notin {"CR", "LF"}}
           stops  == {i \in b + 1 .. end : i = end \/ t[i] \notin ToSet(Digits)}
<1>3. Len(Hex[n]) \in Nat /\ Len(Hex[n]) >= 1 /\ Hex[n] \in Seq(ToSet(Digits)) /\ HexNumber(Hex[n]) = n
  BY HexFacts
<1>4. \A i \in b + 1 .. Len(t) : t[i] \in ToSet(Digits) /\ t[i] \notin {"CR", "LF"}
  <2>1. ASSUME NEW i \in b + 1 .. Len(t)
        PROVE  t[i] \in ToSet(Digits) /\ t[i] \notin {"CR", "LF"}
    <3>1. i - b \in 1 .. Len(Hex[n]) /\ b + (i - b) = i
      BY <1>3, <1>1, <1>2
    <3>2. t[i] = Hex[n][i - b]
      BY <3>1, <1>1, <1>2
    <3> QED BY <3>1, <3>2, HexFacts
  <2> QED BY <2>1
<1>5. Least(firsts) = b + 1
  <2>1. firsts \subseteq Nat /\ b + 1 \in firsts
    BY <1>3, <1>4, <1>1, <1>2
  <2>2. \A i \in firsts : i >= b + 1
    BY <1>3, <1>4, <1>1, <1>2
  <2> HIDE DEF firsts
  <2>3. Least(firsts) \in firsts /\ Least(firsts) <= b + 1 /\ Least(firsts) \in Nat
    BY <2>1, LeastNumber
  <2> QED BY <2>2, <2>3
<1>6. Least(stops) = end
  <2>1. stops = {end}
    BY <1>3, <1>4, <1>1, <1>2
  <2>2. stops \subseteq Nat /\ stops # {}
    <3>1. end \in Nat
      BY <1>1, <1>2, <1>3
    <3> HIDE DEF end, stops
    <3> QED BY <2>1, <3>1
  <2> HIDE DEF stops
  <2>3. Least(stops) \in stops
    BY <2>2, LeastNumber
  <2> QED BY <2>1, <2>3
<1>7. SubSeq(t, b + 1, end - 1) = Hex[n]
  <2>1. \A i \in b + 1 .. end - 1 : t[i] \in ToSet(Digits)
    BY <1>3, <1>4, <1>1, <1>2
  <2>2. end - 1 - (b + 1) + 1 = Len(Hex[n]) /\ end - 1 \in Int /\ b + 1 \in Int /\ b + 1 <= end - 1
    <3>1. h \in Nat /\ h >= 1 /\ b \in Nat /\ Len(t) = b + h
      BY <1>3, <1>1, <1>2
    <3> QED BY <1>1, <3>1
  <2> DEFINE u == SubSeq(t, b + 1, end - 1)
  <2>3. /\ u \in Seq(ToSet(Digits)) /\ Len(u) = Len(Hex[n])
        /\ \A i \in 1 .. Len(Hex[n]) : u[i] = t[b + 1 + i - 1]
    BY <2>1, <2>2, SubSeqProperties
  <2> HIDE DEF u
  <2>4. ASSUME NEW i \in 1 .. Len(u) PROVE u[i] = Hex[n][i]
    <3>1. i \in 1 .. h /\ b + 1 + i - 1 = b + i
      BY <1>1, <1>3, <2>3
    <3> QED BY <1>1, <1>2, <2>3, <3>1
  <2>5. u = Hex[n]
    BY <1>3, <2>3, <2>4, SeqEqual
  <2> QED BY <2>5 DEF u
<1>8. hex2dec(t) = IF b + 1 = end THEN NoValue ELSE HexNumber(SubSeq(t, b + 1, end - 1))
  <2>1. Least({i \in Least(firsts) .. end : i = end \/ t[i] \notin ToSet(Digits)}) = end
    BY <1>5, <1>6
  <2> QED BY <1>5, <2>1, Zenon DEF hex2dec
<1>9. b + 1 # end
  BY <1>1, <1>2, <1>3
<1> QED BY <1>3, <1>7, <1>8, <1>9

(***************************************************************************)
(* A chunked body.                                                         *)
(***************************************************************************)
\* What a message is made of.
Octets == Units \union {"gz", "zz", "crc", "CR", "LF"} \union ToSet(Digits) \union Statuses \union Fields

\* ChunksAssumption, of one text.
WellCut(s, cuts) ==
  /\ cuts \in Seq(Nat)
  /\ \A i \in 1 .. Len(cuts) : SizeOf(cuts, i) \in DOMAIN Hex \ {0}
  /\ CutAt(cuts, Len(cuts)) = Len(s)

\* The parts of a sequence, and of a chunk.
InTwo(u, s, m, t, n) ==
  /\ Len(u) = m + n
  /\ \A j \in 1 .. m : u[j] = s[j]
  /\ \A j \in 1 .. n : u[m + j] = t[j]

\* A sequence of two parts.
LEMMA TwoParts ==
  ASSUME NEW S, NEW s \in Seq(S), NEW t \in Seq(S), NEW m, m = Len(s), NEW n, n = Len(t),
         NEW u, u = s \o t
  PROVE  m \in Nat /\ n \in Nat /\ u \in Seq(S) /\ InTwo(u, s, m, t, n)
<1>1. m \in Nat /\ n \in Nat
  BY LenProperties
<1>2. /\ u \in Seq(S) /\ Len(u) = m + n
      /\ \A j \in 1 .. m + n : u[j] = IF j <= m THEN s[j] ELSE t[j - m]
  BY ConcatProperties
<1>3. ASSUME NEW j \in 1 .. m PROVE u[j] = s[j]
  <2>1. j \in 1 .. m + n /\ j <= m
    BY <1>1
  <2> QED BY <1>2, <2>1
<1>4. ASSUME NEW j \in 1 .. n PROVE u[m + j] = t[j]
  <2>1. m + j \in 1 .. m + n /\ ~(m + j <= m) /\ m + j - m = j
    BY <1>1
  <2> QED BY <1>2, <2>1
<1> QED BY <1>1, <1>2, <1>3, <1>4 DEF InTwo

\* Sizes are numbers.
LEMMA Sizes ==
  /\ 0 \in DOMAIN Hex
  /\ \A z \in DOMAIN Hex : z \in Nat /\ (z # 0 => z >= 1)
BY HexAssumption

\* u is h, an end of line, t, and an end of line.
InThree(u, h, m, t, n) ==
  /\ Len(u) = m + n + 4
  /\ \A j \in 1 .. m : u[j] = h[j]
  /\ u[m + 1] = "CR" /\ u[m + 2] = "LF"
  /\ \A j \in 1 .. n : u[m + 2 + j] = t[j]
  /\ u[m + n + 3] = "CR" /\ u[m + n + 4] = "LF"

\* A sequence of two parts and their ends of line.
LEMMA ThreeParts ==
  ASSUME NEW S, NEW h \in Seq(S), NEW t \in Seq(S), CRLF \in Seq(S),
         NEW m, m = Len(h), NEW n, n = Len(t), NEW u, u = h \o CRLF \o t \o CRLF
  PROVE  m \in Nat /\ n \in Nat /\ u \in Seq(S) /\ InThree(u, h, m, t, n)
<1>1. Len(CRLF) = 2 /\ CRLF[1] = "CR" /\ CRLF[2] = "LF"
  BY DEF CRLF
<1> PICK c : c = CRLF /\ c \in Seq(S) /\ Len(c) = 2 /\ c[1] = "CR" /\ c[2] = "LF"
  BY <1>1
<1>2. u = h \o c \o t \o c
  OBVIOUS
<1>3. m \in Nat /\ n \in Nat
  BY LenProperties
<1>4. PICK a, al, l : a = h \o c /\ al = Len(a) /\ l = Len(c)
  OBVIOUS
<1>5. /\ a \in Seq(S) /\ al = m + l
      /\ \A j \in 1 .. m : a[j] = h[j]
      /\ \A j \in 1 .. l : a[m + j] = c[j]
  <2>1. a \in Seq(S) /\ InTwo(a, h, m, c, l)
    BY <1>4, TwoParts
  <2> QED BY <1>4, <2>1 DEF InTwo
<1>6. PICK b, bl : b = a \o t /\ bl = Len(b)
  OBVIOUS
<1>7. /\ b \in Seq(S) /\ bl = al + n
      /\ \A j \in 1 .. al : b[j] = a[j]
      /\ \A j \in 1 .. n : b[al + j] = t[j]
  <2>1. b \in Seq(S) /\ InTwo(b, a, al, t, n)
    BY <1>4, <1>5, <1>6, TwoParts
  <2> QED BY <1>4, <1>6, <2>1 DEF InTwo
<1>8. u = b \o c
  BY <1>4, <1>6, <1>2
<1>9. /\ u \in Seq(S) /\ Len(u) = bl + l
      /\ \A j \in 1 .. bl : u[j] = b[j]
      /\ \A j \in 1 .. l : u[bl + j] = c[j]
  <2>1. u \in Seq(S) /\ InTwo(u, b, bl, c, l)
    BY <1>4, <1>6, <1>7, <1>8, TwoParts
  <2> QED BY <1>4, <1>6, <2>1 DEF InTwo
<1>10. al = m + 2 /\ bl = m + 2 + n /\ l = 2
  BY <1>3, <1>4, <1>5, <1>7
<1>11. /\ \A j \in 1 .. m : u[j] = h[j]
      /\ u[m + 1] = c[1] /\ u[m + 2] = c[2]
  <2>1. \A j \in 1 .. m + 2 : u[j] = a[j]
    <3>1. \A j \in 1 .. m + 2 : j \in 1 .. al /\ j \in 1 .. bl
      BY <1>3, <1>10
    <3> QED BY <1>7, <1>9, <3>1, ZenonT(60)
  <2>2. m + 1 \in 1 .. m + 2 /\ m + 2 \in 1 .. m + 2 /\ \A j \in 1 .. m : j \in 1 .. m + 2
    BY <1>3
  <2>3. a[m + 1] = c[1] /\ a[m + 2] = c[2]
    BY <1>10, <1>5
  <2> QED BY <1>5, <2>1, <2>2, <2>3
<1>12. ASSUME NEW j \in 1 .. n PROVE u[m + 2 + j] = t[j]
  <2>1. m + 2 + j = al + j /\ al + j \in 1 .. bl
    BY <1>3, <1>10
  <2> QED BY <1>7, <1>9, <2>1
<1>13. u[m + n + 3] = c[1] /\ u[m + n + 4] = c[2]
  <2>1. m + n + 3 = bl + 1 /\ m + n + 4 = bl + 2
    BY <1>3, <1>10
  <2>2. u[bl + 1] = c[1] /\ u[bl + 2] = c[2]
    BY <1>10, <1>9
  <2> QED BY <2>1, <2>2
<1>14. Len(u) = m + n + 4
  BY <1>3, <1>9, <1>10
<1> QED BY <1>3, <1>9, <1>11, <1>12, <1>13, <1>14 DEF InThree

\* The cuts of a text go up to its end.
LEMMA CutFacts ==
  ASSUME NEW s, NEW cuts, WellCut(s, cuts)
  PROVE  /\ Len(cuts) \in Nat
         /\ \A i \in 0 .. Len(cuts) : CutAt(cuts, i) \in Nat /\ CutAt(cuts, i) <= Len(s)
         /\ \A i \in 1 .. Len(cuts) : /\ CutAt(cuts, i) = cuts[i]
                                      /\ CutAt(cuts, i) = CutAt(cuts, i - 1) + SizeOf(cuts, i)
<1> DEFINE m == Len(cuts)
<1>1. m \in Nat /\ \A i \in 1 .. m : cuts[i] \in Nat
  BY LenProperties, ElementOfSeq DEF WellCut
<1>2. \A i \in 0 .. m : CutAt(cuts, i) \in Nat
  BY <1>1 DEF CutAt
<1>3. ASSUME NEW i \in 1 .. m
      PROVE  /\ CutAt(cuts, i) = cuts[i] /\ CutAt(cuts, i - 1) \in Nat
             /\ CutAt(cuts, i) = CutAt(cuts, i - 1) + SizeOf(cuts, i)
             /\ CutAt(cuts, i - 1) <= CutAt(cuts, i)
  <2>1. i # 0 /\ i - 1 \in 0 .. m
    BY <1>1
  <2>2. CutAt(cuts, i) = cuts[i] /\ CutAt(cuts, i - 1) \in Nat /\ cuts[i] \in Nat
    BY <1>1, <1>2, <2>1 DEF CutAt
  <2>3. SizeOf(cuts, i) = cuts[i] - CutAt(cuts, i - 1) /\ SizeOf(cuts, i) \in DOMAIN Hex \ {0}
    BY DEF WellCut, SizeOf
  <2>4. SizeOf(cuts, i) \in Nat
    BY <2>3, Sizes
  <2> HIDE DEF m
  <2>5. /\ CutAt(cuts, i) = CutAt(cuts, i - 1) + SizeOf(cuts, i)
        /\ CutAt(cuts, i - 1) <= CutAt(cuts, i)
    BY <2>2, <2>3, <2>4
  <2> QED BY <2>2, <2>5
<1> DEFINE T == {n \in Nat : ~(n <= m => CutAt(cuts, m - n) <= Len(s))}
<1>4. 0 \notin T
  BY <1>1, <1>2 DEF WellCut
<1>5. ASSUME NEW n \in Nat, n \notin T PROVE n + 1 \notin T
  <2>1. SUFFICES ASSUME n + 1 <= m PROVE CutAt(cuts, m - (n + 1)) <= Len(s)
    BY <1>1
  <2>2. m - n \in 1 .. m /\ m - n \in 0 .. m /\ (m - n) - 1 = m - (n + 1) /\ m \in 0 .. m
    BY <1>1, <2>1
  <2>3. CutAt(cuts, m - n) <= Len(s)
    BY <1>5, <1>1, <2>1
  <2>4. CutAt(cuts, m) = Len(s)
    BY DEF WellCut
  <2> HIDE DEF m, T
  <2>5. CutAt(cuts, m - (n + 1)) <= CutAt(cuts, m - n) /\ CutAt(cuts, m - (n + 1)) \in Nat
    BY <1>3, <2>2
  <2> QED BY <1>2, <2>2, <2>3, <2>4, <2>5, SMTT(40)
<1> HIDE DEF T
<1>6. T = {}
  BY <1>4, <1>5, NoLeast DEF T
<1>7. ASSUME NEW i \in 0 .. m PROVE CutAt(cuts, i) <= Len(s)
  <2>1. m - i \in Nat /\ m - i <= m /\ m - (m - i) = i
    BY <1>1
  <2> QED BY <1>6, <2>1 DEF T
<1> QED BY <1>1, <1>2, <1>3, <1>7

\* c is the i-th chunk; its size is z, in h digits.
IsChunk(c, s, cuts, i, h, z) ==
  /\ h \in Nat /\ z \in DOMAIN Hex \ {0}
  /\ c \in Seq(Octets) /\ Len(c) = h + z + 4
  /\ \A j \in 1 .. h : c[j] = Hex[z][j]
  /\ c[h + 1] = "CR" /\ c[h + 2] = "LF"
  /\ \A j \in 1 .. z : c[h + 2 + j] = s[CutAt(cuts, i - 1) + j]
  /\ c[h + z + 3] = "CR" /\ c[h + z + 4] = "LF"

\* A chunk is its size, its data, and their ends of line.
LEMMA ChunkFacts ==
  ASSUME NEW s \in Seq(Octets), NEW cuts, WellCut(s, cuts), NEW i \in 1 .. Len(cuts),
         NEW h, h = Len(Hex[SizeOf(cuts, i)]), NEW z, z = SizeOf(cuts, i),
         NEW c, c = Chunk(s, cuts, i)
  PROVE  IsChunk(c, s, cuts, i, h, z)
<1> DEFINE from == CutAt(cuts, i - 1)
           t == SubSeq(s, from + 1, cuts[i])
<1>1. z \in DOMAIN Hex \ {0} /\ z \in DOMAIN Hex /\ z \in Nat /\ z >= 1
  BY Sizes DEF WellCut
<1>2. h \in Nat /\ Hex[z] \in Seq(ToSet(Digits))
  BY <1>1, HexFacts
<1>3. Hex[z] \in Seq(Octets)
  <2>1. ToSet(Digits) \subseteq Octets
    BY DEF Octets
  <2> QED BY <1>2, <2>1
<1>4. /\ i - 1 \in 0 .. Len(cuts) /\ from \in Nat /\ cuts[i] = from + z /\ cuts[i] <= Len(s)
      /\ Len(s) \in Nat
  BY <1>1, CutFacts, LenProperties
<1>5. t \in Seq(Octets) /\ Len(t) = z /\ \A j \in 1 .. z : t[j] = s[from + j]
  <2> HIDE DEF from
  <2>1. \A j \in from + 1 .. cuts[i] : s[j] \in Octets
    BY <1>1, <1>4, ElementOfSeq
  <2>2. /\ from + 1 \in Int /\ cuts[i] \in Int /\ cuts[i] - (from + 1) + 1 = z
        /\ from + 1 <= cuts[i] /\ \A j \in 1 .. z : from + 1 + j - 1 = from + j
    <3> HIDE DEF t
    <3> QED BY <1>1, <1>4, SMTT(40)
  <2>3. /\ t \in Seq(Octets)
        /\ Len(t) = IF from + 1 <= cuts[i] THEN cuts[i] - (from + 1) + 1 ELSE 0
        /\ \A j \in 1 .. cuts[i] - (from + 1) + 1 : t[j] = s[from + 1 + j - 1]
    BY <2>1, <2>2, SubSeqProperties, SMTT(40)
  <2> QED BY <2>2, <2>3
<1>6. CRLF \in Seq(Octets) /\ Len(CRLF) = 2 /\ CRLF[1] = "CR" /\ CRLF[2] = "LF"
  BY DEF CRLF, Octets
<1>7. c = Hex[z] \o CRLF \o t \o CRLF
  BY DEF Chunk
<1> HIDE DEF t
<1> HIDE DEF from
<1>8. c \in Seq(Octets) /\ InThree(c, Hex[z], h, t, z)
  BY <1>3, <1>5, <1>6, <1>7, ThreeParts
<1> QED BY <1>1, <1>2, <1>5, <1>8 DEF InThree, IsChunk, from

\* The size in the line behind the first n chunks, and how many digits it has.
SizeAt(cuts, n) == IF n < Len(cuts) THEN SizeOf(cuts, n + 1) ELSE 0
WidthAt(cuts, n) == Len(Hex[SizeAt(cuts, n)])

\* What is in a body from position p on, if the first n chunks end there.
NextAt(w, s, cuts, n, p) ==
  /\ \A j \in 1 .. WidthAt(cuts, n) : w[p + j] = Hex[SizeAt(cuts, n)][j]
  /\ w[p + WidthAt(cuts, n) + 1] = "CR" /\ w[p + WidthAt(cuts, n) + 2] = "LF"
  /\ \A j \in 1 .. SizeAt(cuts, n) : w[p + WidthAt(cuts, n) + 2 + j] = s[CutAt(cuts, n) + j]
  /\ n > 0 => w[p] = "LF"

\* What is at a position: a chunk, or the last one, which is empty.
LEMMA AtFacts ==
  ASSUME NEW s, NEW cuts, WellCut(s, cuts), NEW n \in 0 .. Len(cuts)
  PROVE  /\ SizeAt(cuts, n) \in Nat /\ SizeAt(cuts, n) \in DOMAIN Hex
         /\ WidthAt(cuts, n) \in Nat /\ WidthAt(cuts, n) >= 1
         /\ n < Len(cuts) => /\ n + 1 \in 1 .. Len(cuts) /\ SizeAt(cuts, n) = SizeOf(cuts, n + 1)
                             /\ SizeAt(cuts, n) >= 1
                             /\ CutAt(cuts, n + 1) = CutAt(cuts, n) + SizeAt(cuts, n)
         /\ n = Len(cuts) => SizeAt(cuts, n) = 0
<1>1. Len(cuts) \in Nat
  BY CutFacts
<1>2. CASE n < Len(cuts)
  <2>1. n + 1 \in 1 .. Len(cuts) /\ n + 1 - 1 = n
    BY <1>1, <1>2
  <2>2. SizeAt(cuts, n) = SizeOf(cuts, n + 1) /\ SizeOf(cuts, n + 1) \in DOMAIN Hex \ {0}
    BY <1>2, <2>1 DEF SizeAt, WellCut
  <2>3. CutAt(cuts, n + 1) = CutAt(cuts, n) + SizeAt(cuts, n)
    BY <2>1, <2>2, CutFacts
  <2> HIDE DEF SizeAt
  <2>4. SizeAt(cuts, n) \in Nat /\ SizeAt(cuts, n) \in DOMAIN Hex /\ SizeAt(cuts, n) >= 1
    BY <2>2, Sizes
  <2>5. WidthAt(cuts, n) \in Nat /\ WidthAt(cuts, n) >= 1
    BY <2>4, HexFacts DEF WidthAt
  <2> QED BY <1>1, <1>2, <2>1, <2>2, <2>3, <2>4, <2>5
<1>3. CASE ~(n < Len(cuts))
  <2>1. SizeAt(cuts, n) = 0 /\ 0 \in DOMAIN Hex
    BY <1>3, Sizes DEF SizeAt
  <2>2. WidthAt(cuts, n) \in Nat /\ WidthAt(cuts, n) >= 1
    BY <2>1, HexFacts DEF WidthAt
  <2> QED BY <1>3, <2>1, <2>2
<1> QED BY <1>2, <1>3

\* What follows does not change what is there.
LEMMA NextStays ==
  ASSUME NEW w, NEW u, NEW s, NEW cuts, NEW n \in Nat, NEW p \in Nat, NEW l \in Nat,
         NextAt(u, s, cuts, n, p), \A j \in 1 .. l : w[j] = u[j], n = 0 \/ p > 0,
         WidthAt(cuts, n) \in Nat, SizeAt(cuts, n) \in Nat,
         p + WidthAt(cuts, n) + 2 + SizeAt(cuts, n) <= l
  PROVE  NextAt(w, s, cuts, n, p)
<1> DEFINE h == WidthAt(cuts, n)
           z == SizeAt(cuts, n)
<1> HIDE DEF h, z
<1>1. h \in Nat /\ z \in Nat /\ p + h + 2 + z <= l
  BY DEF h, z
<1>2. ASSUME NEW j \in 1 .. h + 2 + z PROVE w[p + j] = u[p + j]
  <2>1. p + j \in 1 .. l
    BY <1>1
  <2> QED BY <2>1
<1>3. /\ \A j \in 1 .. h : w[p + j] = u[p + j]
      /\ w[p + h + 1] = u[p + h + 1] /\ w[p + h + 2] = u[p + h + 2]
      /\ \A j \in 1 .. z : w[p + h + 2 + j] = u[p + h + 2 + j]
  <2>1. \A j \in 1 .. h : j \in 1 .. h + 2 + z
    BY <1>1
  <2>2. /\ h + 1 \in 1 .. h + 2 + z /\ p + (h + 1) = p + h + 1
        /\ h + 2 \in 1 .. h + 2 + z /\ p + (h + 2) = p + h + 2
    BY <1>1
  <2>3. w[p + h + 1] = u[p + h + 1] /\ w[p + h + 2] = u[p + h + 2]
    BY <1>2, <2>2
  <2>4. ASSUME NEW j \in 1 .. z PROVE w[p + h + 2 + j] = u[p + h + 2 + j]
    <3>1. h + 2 + j \in 1 .. h + 2 + z /\ p + (h + 2 + j) = p + h + 2 + j
      BY <1>1
    <3> QED BY <1>2, <3>1
  <2> QED BY <1>2, <2>1, <2>3, <2>4
<1>4. n > 0 => w[p] = u[p]
  <2>1. n > 0 => p \in 1 .. l
    BY <1>1
  <2> QED BY <2>1
<1> QED BY <1>3, <1>4 DEF NextAt, h, z

\* The first n chunks, and each of the chunks in them.
FirstAre(F, s, cuts, n) ==
  /\ F[n] \in Seq(Octets)
  /\ n > 0 => Len(F[n]) > 0 /\ F[n][Len(F[n])] = "LF"
  /\ \A k \in 0 .. n - 1 : /\ Len(F[k]) \in Nat /\ (k = 0 \/ Len(F[k]) > 0)
                           /\ Len(F[k + 1]) = Len(F[k]) + WidthAt(cuts, k) + 2 + SizeAt(cuts, k) + 2
                           /\ Len(F[k + 1]) <= Len(F[n])
                           /\ NextAt(F[n], s, cuts, k, Len(F[k]))

\* The first n + 1 chunks are the first n, and one more.
LEMMA FirstGrow ==
  ASSUME NEW s \in Seq(Octets), NEW cuts, WellCut(s, cuts), NEW n \in Nat, n + 1 <= Len(cuts),
         NEW F, FirstAre(F, s, cuts, n), F[n + 1] = WithChunk(F[n], s, cuts, n + 1),
         n = 0 => F[n] = <<>>
  PROVE  FirstAre(F, s, cuts, n + 1)
<1> DEFINE h == WidthAt(cuts, n)
           z == SizeAt(cuts, n)
<1>1. Len(cuts) \in Nat /\ n \in 0 .. Len(cuts) /\ n < Len(cuts) /\ n + 1 \in 1 .. Len(cuts) /\ n + 1 - 1 = n
  BY CutFacts
<1>2. h \in Nat /\ z \in Nat /\ z = SizeOf(cuts, n + 1) /\ h = Len(Hex[SizeOf(cuts, n + 1)])
  BY <1>1, AtFacts DEF WidthAt
<1>3. PICK c : c = Chunk(s, cuts, n + 1)
  OBVIOUS
<1>4. /\ c \in Seq(Octets) /\ Len(c) = h + z + 4
      /\ \A j \in 1 .. h : c[j] = Hex[z][j]
      /\ c[h + 1] = "CR" /\ c[h + 2] = "LF"
      /\ \A j \in 1 .. z : c[h + 2 + j] = s[CutAt(cuts, n) + j]
      /\ c[h + z + 4] = "LF"
  <2> HIDE DEF h, z
  <2>1. IsChunk(c, s, cuts, n + 1, h, z)
    BY <1>1, <1>2, <1>3, ChunkFacts
  <2> QED BY <1>1, <2>1, SMTT(40) DEF IsChunk
<1>5. PICK p, u, l : p = Len(F[n]) /\ u = F[n + 1] /\ l = Len(c)
  OBVIOUS
<1>6. u = F[n] \o c /\ F[n] \in Seq(Octets)
  BY <1>3, <1>5 DEF WithChunk, FirstAre
<1>7. p \in Nat /\ l \in Nat /\ u \in Seq(Octets) /\ InTwo(u, F[n], p, c, l)
  BY <1>4, <1>5, <1>6, TwoParts
<1>8. h \in Nat /\ z \in Nat /\ p \in Nat /\ l = h + z + 4 /\ Len(u) = p + l
  BY <1>2, <1>4, <1>5, <1>7 DEF InTwo
<1>9. l = h + z + 4 /\ Len(u) = p + h + 2 + z + 2 /\ Len(u) > 0
  <2> HIDE DEF h, z
  <2> QED BY <1>8
<1>10. NextAt(u, s, cuts, n, p)
  <2> HIDE DEF h, z
  <2>1. \A j \in 1 .. l : u[p + j] = c[j]
    BY <1>7 DEF InTwo
  <2>2. \A j \in 1 .. h : u[p + j] = Hex[z][j]
    <3>1. \A j \in 1 .. h : j \in 1 .. l
      BY <1>8
    <3> QED BY <1>4, <2>1, <3>1
  <2>3. u[p + h + 1] = "CR" /\ u[p + h + 2] = "LF"
    <3>1. /\ h + 1 \in 1 .. l /\ h + 2 \in 1 .. l
          /\ p + (h + 1) = p + h + 1 /\ p + (h + 2) = p + h + 2
      BY <1>8
    <3> QED BY <1>4, <2>1, <3>1
  <2>4. ASSUME NEW j \in 1 .. z PROVE u[p + h + 2 + j] = s[CutAt(cuts, n) + j]
    <3>1. h + 2 + j \in 1 .. l /\ p + (h + 2 + j) = p + h + 2 + j
      <4>1. h \in Nat /\ z \in Nat /\ p \in Nat /\ l = h + z + 4 /\ j \in Nat /\ 1 <= j /\ j <= z
        BY <1>8
      <4> HIDE DEF h, z
      <4> QED BY <4>1
    <3> QED BY <1>4, <2>1, <3>1
  <2>5. n > 0 => u[p] = "LF"
    <3>1. n > 0 => p > 0 /\ F[n][p] = "LF"
      BY <1>5 DEF FirstAre
    <3>2. n > 0 => p \in 1 .. p
      BY <1>7, <3>1
    <3> QED BY <1>7, <3>1, <3>2 DEF InTwo
  <2> QED BY <2>2, <2>3, <2>4, <2>5 DEF NextAt, h, z
<1>11. u[Len(u)] = "LF"
  <2> HIDE DEF h, z
  <2>1. h + z + 4 \in 1 .. l /\ Len(u) = p + (h + z + 4)
    BY <1>8
  <2> QED BY <1>4, <1>7, <2>1 DEF InTwo
<1>12. ASSUME NEW k \in 0 .. n
       PROVE  /\ Len(F[k]) \in Nat /\ (k = 0 \/ Len(F[k]) > 0)
              /\ Len(F[k + 1]) = Len(F[k]) + WidthAt(cuts, k) + 2 + SizeAt(cuts, k) + 2
              /\ Len(F[k + 1]) <= Len(F[n + 1])
              /\ NextAt(F[n + 1], s, cuts, k, Len(F[k]))
  <2>1. CASE k = n
    <3>1. k = 0 \/ p > 0
      BY <1>5, <2>1 DEF FirstAre
    <3>2. Len(u) <= Len(u) /\ Len(u) = p + WidthAt(cuts, n) + 2 + SizeAt(cuts, n) + 2
      BY <1>8, SMTT(40)
    <3> QED BY <1>5, <1>7, <1>10, <2>1, <3>1, <3>2
  <2>2. CASE k # n
    <3>1. k \in 0 .. n - 1 /\ k \in Nat /\ k \in 0 .. Len(cuts)
      BY <1>1, <2>2
    <3>2. PICK q, r : q = Len(F[k]) /\ r = Len(F[k + 1])
      OBVIOUS
    <3>3. /\ q \in Nat /\ (k = 0 \/ q > 0)
          /\ r = q + WidthAt(cuts, k) + 2 + SizeAt(cuts, k) + 2 /\ r <= p
          /\ NextAt(F[n], s, cuts, k, q)
      BY <1>5, <3>1, <3>2 DEF FirstAre
    <3>4. SizeAt(cuts, k) \in Nat /\ WidthAt(cuts, k) \in Nat
      BY <3>1, AtFacts
    <3>5. \A j \in 1 .. p : u[j] = F[n][j]
      BY <1>7 DEF InTwo
    <3> HIDE DEF h, z
    <3>6. r <= Len(u) /\ q + WidthAt(cuts, k) + 2 + SizeAt(cuts, k) <= p
      BY <1>8, <3>3, <3>4, SMTT(40)
    <3>7. NextAt(u, s, cuts, k, q)
      BY <1>7, <3>1, <3>3, <3>4, <3>5, <3>6, NextStays
    <3> QED BY <1>5, <3>2, <3>3, <3>6, <3>7
  <2> QED BY <2>1, <2>2
<1> QED BY <1>1, <1>5, <1>7, <1>9, <1>11, <1>12 DEF FirstAre

\* What there is behind the first n chunks, by induction over them.
LEMMA FirstChunksFacts ==
  ASSUME NEW s \in Seq(Octets), NEW cuts, WellCut(s, cuts), NEW n \in 0 .. Len(cuts)
  PROVE  /\ FirstAre(FirstChunks(s, cuts), s, cuts, n)
         /\ FirstChunks(s, cuts)[0] = <<>>
<1> DEFINE m == Len(cuts)
           F == FirstChunks(s, cuts)
           T == {i \in Nat : ~(i <= m => FirstAre(F, s, cuts, i))}
<1>1. m \in Nat
  BY CutFacts
<1>2. IsFirstChunks(s, cuts, m, F)
  BY <1>1, FirstChunksIs
<1> HIDE DEF F, m
<1>3. F[0] = <<>> /\ \A i \in 1 .. m : F[i] = WithChunk(F[i - 1], s, cuts, i)
  BY <1>1, <1>2 DEF IsFirstChunks
<1>4. 0 \notin T
  <2>1. 0 .. 0 - 1 = {} /\ <<>> \in Seq(Octets) /\ ~(0 > 0)
    OBVIOUS
  <2>2. FirstAre(F, s, cuts, 0)
    BY <1>3, <2>1 DEF FirstAre
  <2> QED BY <2>2
<1>5. ASSUME NEW i \in Nat, i \notin T PROVE i + 1 \notin T
  <2>1. SUFFICES ASSUME i + 1 <= m PROVE FirstAre(F, s, cuts, i + 1)
    OBVIOUS
  <2>2. i + 1 \in 1 .. m /\ i + 1 - 1 = i /\ i <= m
    BY <1>1, <2>1
  <2>3. F[i + 1] = WithChunk(F[i], s, cuts, i + 1) /\ FirstAre(F, s, cuts, i)
    BY <1>3, <1>5, <2>2
  <2>4. i + 1 <= Len(cuts) /\ (i = 0 => F[i] = <<>>)
    BY <1>3, <2>1 DEF m
  <2> QED BY <2>3, <2>4, FirstGrow
<1> HIDE DEF T
<1>6. T = {}
  BY <1>4, <1>5, NoLeast DEF T
<1>7. n \in Nat /\ n <= m
  BY <1>1 DEF m
<1> QED BY <1>3, <1>6, <1>7 DEF T, F

\* Where the first n chunks of a body end, counted from 0.
EndAt(s, cuts, n) == Len(FirstChunks(s, cuts)[n])

\* Behind the first n chunks of the whole body there is the size line of the next.
LEMMA ChunksFacts ==
  ASSUME NEW s \in Seq(Octets), NEW cuts, WellCut(s, cuts), NEW w, w = Chunks(s, cuts)
  PROVE  /\ w \in Seq(Octets)
         /\ \A n \in 0 .. Len(cuts) :
              /\ EndAt(s, cuts, n) \in Nat
              /\ n = 0 => EndAt(s, cuts, n) = 0
              /\ n > 0 => EndAt(s, cuts, n) > 0
              /\ NextAt(w, s, cuts, n, EndAt(s, cuts, n))
              /\ n < Len(cuts) => EndAt(s, cuts, n + 1) = EndAt(s, cuts, n)
                                    + WidthAt(cuts, n) + 2 + SizeAt(cuts, n) + 2
<1> DEFINE m == Len(cuts)
           F == FirstChunks(s, cuts)
<1>1. PICK l, e : l = LastChunk /\ e = Len(LastChunk)
  OBVIOUS
<1> DEFINE h == Len(Hex[0])
<1>2. /\ l \in Seq(Octets) /\ e = Len(l) /\ h \in Nat /\ h >= 1 /\ e = h + 4
      /\ \A j \in 1 .. h : l[j] = Hex[0][j]
      /\ l[h + 1] = "CR" /\ l[h + 2] = "LF"
  <2>1. h \in Nat /\ h >= 1 /\ Hex[0] \in Seq(Octets)
    BY Sizes, HexFacts DEF Octets
  <2> DEFINE d == DOUBLECRLF
  <2>2. d \in Seq(Octets) /\ Len(d) = 4 /\ d[1] = "CR" /\ d[2] = "LF"
    BY DEF DOUBLECRLF, Octets
  <2>3. l = Hex[0] \o d
    BY <1>1 DEF LastChunk
  <2> HIDE DEF d
  <2>4. l \in Seq(Octets) /\ InTwo(l, Hex[0], h, d, 4)
    BY <2>1, <2>2, <2>3, TwoParts
  <2> HIDE DEF h
  <2> QED BY <1>1, <2>1, <2>2, <2>4 DEF InTwo
<1>3. m \in Nat /\ m \in 0 .. m /\ \A n \in 0 .. m : n \in Nat
  BY CutFacts
<1>4. \A n \in 0 .. m : FirstAre(F, s, cuts, n) /\ F[0] = <<>>
  BY FirstChunksFacts
<1>5. PICK u, p : u = F[m] /\ p = Len(F[m])
  OBVIOUS
<1> HIDE DEF m, F
<1>6. u \in Seq(Octets) /\ FirstAre(F, s, cuts, m)
  BY <1>3, <1>4, <1>5 DEF FirstAre
<1>7. w = u \o l
  BY <1>1, <1>5 DEF Chunks, m, F
<1>8. w \in Seq(Octets) /\ p \in Nat /\ InTwo(w, u, p, l, e)
  BY <1>1, <1>2, <1>5, <1>6, <1>7, TwoParts
<1>9. /\ \A j \in 1 .. p : w[j] = u[j]
      /\ \A j \in 1 .. h : w[p + j] = Hex[0][j]
      /\ w[p + h + 1] = "CR" /\ w[p + h + 2] = "LF"
  <2> HIDE DEF h
  <2>1. /\ h + 1 \in 1 .. e /\ h + 2 \in 1 .. e /\ \A j \in 1 .. h : j \in 1 .. e
        /\ p + (h + 1) = p + h + 1 /\ p + (h + 2) = p + h + 2
    BY <1>2, <1>8
  <2> QED BY <1>2, <1>8, <2>1 DEF InTwo
<1>10. m > 0 => p > 0 /\ w[p] = "LF"
  <2>1. m > 0 => p > 0 /\ u[p] = "LF"
    BY <1>5, <1>6 DEF FirstAre
  <2>2. m > 0 => p \in 1 .. p
    BY <1>8, <2>1
  <2> QED BY <1>9, <2>1, <2>2
<1>11. NextAt(w, s, cuts, m, p)
  <2>1. SizeAt(cuts, m) = 0
    BY <1>3, AtFacts DEF m
  <2>2. WidthAt(cuts, m) = h
    BY <2>1 DEF WidthAt
  <2>3. 1 .. 0 = {}
    OBVIOUS
  <2> HIDE DEF h
  <2> QED BY <1>9, <1>10, <2>1, <2>2, <2>3 DEF NextAt
<1>12. ASSUME NEW n \in 0 .. m
       PROVE  /\ EndAt(s, cuts, n) \in Nat
              /\ n = 0 => EndAt(s, cuts, n) = 0
              /\ n > 0 => EndAt(s, cuts, n) > 0
              /\ NextAt(w, s, cuts, n, EndAt(s, cuts, n))
              /\ n < m => EndAt(s, cuts, n + 1) = EndAt(s, cuts, n)
                            + WidthAt(cuts, n) + 2 + SizeAt(cuts, n) + 2
  <2>1. PICK q : q = EndAt(s, cuts, n) /\ q = Len(F[n])
    BY DEF EndAt, F
  <2>2. q \in Nat /\ (n = 0 => q = 0) /\ (n > 0 => q > 0)
    <3>1. F[n] \in Seq(Octets) /\ (n > 0 => q > 0) /\ F[0] = <<>>
      BY <1>4, <2>1 DEF FirstAre
    <3> QED BY <2>1, <3>1, LenProperties
  <2>3. CASE n = m
    <3>1. q = p /\ ~(n < m)
      BY <1>3, <1>5, <2>1, <2>3
    <3> QED BY <1>11, <2>1, <2>2, <2>3, <3>1
  <2>4. CASE n # m
    <3>1. n \in 0 .. m - 1
      BY <1>3, <2>4
    <3>2. PICK r : r = EndAt(s, cuts, n + 1) /\ r = Len(F[n + 1])
      BY DEF EndAt, F
    <3>3. /\ r = q + WidthAt(cuts, n) + 2 + SizeAt(cuts, n) + 2 /\ r <= p
          /\ NextAt(u, s, cuts, n, q)
      BY <1>5, <1>6, <2>1, <3>1, <3>2 DEF FirstAre
    <3>4. WidthAt(cuts, n) \in Nat /\ SizeAt(cuts, n) \in Nat
      BY AtFacts DEF m
    <3>5. WidthAt(cuts, n) \in Nat
      BY <3>4
    <3>6. q + WidthAt(cuts, n) + 2 + SizeAt(cuts, n) <= p
      BY <1>8, <2>2, <3>3, <3>4, <3>5, SMTT(40)
    <3>7. n \in Nat /\ (n = 0 \/ q > 0)
      BY <1>3, <2>2
    <3>8. NextAt(w, s, cuts, n, q)
      BY <1>8, <1>9, <2>2, <3>3, <3>4, <3>5, <3>6, <3>7, NextStays
    <3> QED BY <2>1, <2>2, <3>2, <3>3, <3>8
  <2> QED BY <2>3, <2>4
<1> QED BY <1>8, <1>12 DEF m

\* Positions around a size line: the chunks before it end at p, it is searched from
\* pos, has h digits, and b units before them.
Around(pos, at, count, p, h, b, l) ==
  /\ pos <= at /\ at \in Nat /\ at - pos = count /\ count \in Nat
  /\ at + 2 <= l =>
       /\ pos <= l /\ pos + count < l /\ at + 1 \in 1 .. l /\ at + 2 \in 1 .. l
       /\ b = 1 => 1 \in 1 .. count /\ pos + 1 = p /\ p \in 1 .. l
       /\ \A i \in 1 .. h : b + i \in 1 .. count /\ pos + (b + i) = p + i /\ p + i \in 1 .. l
  /\ \A o \in pos .. at - 1 :
       /\ o \in Nat /\ (o + 2 <= l => o + 1 \in 1 .. l)
       /\ o < p => o + 1 = p /\ b = 1
       /\ ~(o < p) => o + 1 - p \in 1 .. h /\ p + (o + 1 - p) = o + 1

\* Sums of positions around a size line.
LEMMA LineSums ==
  ASSUME NEW p \in Nat, NEW h \in Nat, h >= 1, NEW l \in Nat, NEW b \in Nat,
         NEW pos \in Nat, pos + b = p, b = 0 \/ b = 1,
         NEW at, at = p + h, NEW count, count = b + h
  PROVE  Around(pos, at, count, p, h, b, l)
BY DEF Around

(***************************************************************************)
(* The loop over the chunks of a body that may be broken off.              *)
(***************************************************************************)
\* The size line is found, if it is there to its end, and read.
IsRead(body, pos, at, z, l) ==
  /\ Find(CRLF, body, pos) = IF at + 2 <= l THEN at ELSE NPOS
  /\ at + 2 <= l => hex2dec(substr(body, pos, at - pos)) = z

Agree(body, w) == \A j \in 1 .. Len(body) : body[j] = w[j]

LineIn(w, p, b, h, z) ==
  /\ b = 1 => w[p] = "LF"
  /\ \A j \in 1 .. h : w[p + j] = Hex[z][j]
  /\ w[p + h + 1] = "CR" /\ w[p + h + 2] = "LF"

\* What find and hex2dec see from a position on a size line.
LEMMA LineFacts ==
  ASSUME NEW body \in Seq(Octets), NEW w, NEW l, l = Len(body), Agree(body, w),
         NEW p \in Nat, NEW z \in DOMAIN Hex, NEW h, h = Len(Hex[z]),
         NEW b \in {0, 1}, NEW pos \in Nat, pos + b = p, LineIn(w, p, b, h, z),
         NEW at, at = p + h
  PROVE  h \in Nat /\ z \in Nat /\ l \in Nat /\ at \in Nat /\ IsRead(body, pos, at, z, l)
<1>1. h \in Nat /\ h >= 1 /\ z \in Nat /\ l \in Nat /\ b \in Nat /\ (b = 0 \/ b = 1)
  <2>1. h \in Nat /\ h >= 1 /\ z \in Nat
    BY HexFacts, Sizes
  <2> QED BY <2>1, LenProperties
<1>2. \A j \in 1 .. h : Hex[z][j] \notin {"CR", "LF"}
  BY HexFacts
<1>3. PICK count : count = b + h
  OBVIOUS
<1>4. /\ Around(pos, at, count, p, h, b, l)
      /\ pos <= at /\ at \in Nat /\ at - pos = count /\ count \in Nat
      /\ at + 2 <= l => pos <= l /\ pos + count < l /\ at + 1 \in 1 .. l /\ at + 2 \in 1 .. l
  <2>1. Around(pos, at, count, p, h, b, l)
    BY <1>1, <1>3, LineSums
  <2> QED BY <2>1 DEF Around
<1>5. w[at + 1] = "CR" /\ w[at + 2] = "LF"
  BY DEF LineIn
<1>6. Find(CRLF, body, pos) = IF at + 2 <= l THEN at ELSE NPOS
  <2>1. ASSUME NEW o \in pos .. at - 1, o + 2 <= l PROVE ~IsLineEnd(body, o)
    <3>1. /\ o \in Nat /\ o + 1 \in 1 .. l
          /\ o < p => o + 1 = p /\ b = 1
          /\ ~(o < p) => o + 1 - p \in 1 .. h /\ p + (o + 1 - p) = o + 1
      BY <1>4, <2>1 DEF Around
    <3>2. body[o + 1] = w[o + 1]
      BY <3>1 DEF Agree
    <3>3. CASE o < p
      BY <3>1, <3>2, <3>3 DEF IsLineEnd, LineIn
    <3>4. CASE ~(o < p)
      <4>1. w[o + 1] \notin {"CR", "LF"}
        BY <1>2, <3>1, <3>4 DEF LineIn
      <4> QED BY <3>2, <4>1 DEF IsLineEnd
    <3> QED BY <3>3, <3>4
  <2>2. at + 2 <= l => IsLineEnd(body, at)
    BY <1>4, <1>5 DEF IsLineEnd, Agree
  <2> QED BY <1>4, <2>1, <2>2, FindLineEnd
<1>7. ASSUME at + 2 <= l PROVE hex2dec(substr(body, pos, count)) = z
  <2>1. PICK t : t = substr(body, pos, count)
    OBVIOUS
  <2>2. t \in Seq(Octets) /\ TakenFrom(t, body, pos, count)
    <3>1. pos <= Len(body) /\ count = IF pos + count < Len(body) THEN count ELSE Len(body) - pos
      BY <1>4, <1>7
    <3> QED BY <1>4, <2>1, <3>1, SubstrFacts
  <2>3. Len(t) = b + h /\ \A i \in 1 .. count : t[i] = body[pos + i]
    BY <1>3, <2>2 DEF TakenFrom
  <2>4. b = 1 => t[1] = "LF"
    <3>1. b = 1 => 1 \in 1 .. count /\ pos + 1 = p /\ p \in 1 .. l
      BY <1>4, <1>7 DEF Around
    <3> QED BY <2>3, <3>1 DEF LineIn, Agree
  <2>5. ASSUME NEW i \in 1 .. h PROVE t[b + i] = Hex[z][i]
    <3>1. b + i \in 1 .. count /\ pos + (b + i) = p + i /\ p + i \in 1 .. l
      BY <1>4, <1>7 DEF Around
    <3> QED BY <2>3, <3>1, ZenonT(60) DEF LineIn, Agree
  <2>6. hex2dec(t) = z
    <3>1. IsSizeLine(t, b, z)
      BY <2>3, <2>4, <2>5 DEF IsSizeLine
    <3> QED BY <2>2, <3>1, SizeLine
  <2> QED BY <2>1, <2>6
<1> QED BY <1>1, <1>3, <1>4, <1>6, <1>7 DEF IsRead

\* What a round makes of the loop at a size line that ends at a position.
Turned(loop, body, at, z) ==
  IF ~(at + 2 <= Len(body)) THEN [loop EXCEPT !.result = "fail"]
  ELSE IF z = 0 THEN [loop EXCEPT !.result = "ok"]
  ELSE [result |-> "more", curPos |-> at + 2 + z + 1,
        joined |-> loop.joined \o substr(body, at + 2, z)]

\* A round of the loop, on a size line.
LEMMA RoundFacts ==
  ASSUME NEW body \in Seq(Octets), NEW w, Agree(body, w),
         NEW p \in Nat, NEW z \in DOMAIN Hex, NEW h, h = Len(Hex[z]),
         NEW b \in {0, 1}, LineIn(w, p, b, h, z), NEW at, at = p + h,
         NEW loop, loop.result = "more", loop.curPos \in Nat, loop.curPos + b = p
  PROVE  NextRound(body, loop) = Turned(loop, body, at, z)
<1>1. PICK l, pos : l = Len(body) /\ pos = loop.curPos
  OBVIOUS
<1>2. l = Len(body) /\ pos = loop.curPos /\ pos \in Nat /\ pos + b = p
  BY <1>1
<1>3. h \in Nat /\ z \in Nat /\ l \in Nat /\ at \in Nat /\ IsRead(body, pos, at, z, l)
  <2>1. l = Len(body) /\ pos \in Nat /\ pos + b = p
    BY <1>2
  <2> QED BY <2>1, LineFacts, SMTT(30)
<1>4. PICK line, size : /\ line = Find(CRLF, body, loop.curPos)
                        /\ size = hex2dec(substr(body, loop.curPos, line - loop.curPos))
  OBVIOUS
<1>5. CASE ~(at + 2 <= l)
  <2>1. line = NPOS
    BY <1>2, <1>3, <1>4, <1>5 DEF IsRead
  <2>2. NextRound(body, loop) = [loop EXCEPT !.result = "fail"]
    BY <1>4, <2>1, Zenon DEF NextRound
  <2> QED BY <1>2, <1>5, <2>2 DEF Turned
<1>6. CASE at + 2 <= l
  <2>1. line = at
    BY <1>2, <1>3, <1>4, <1>6 DEF IsRead
  <2>2. size = z
    BY <1>2, <1>3, <1>4, <1>6, <2>1 DEF IsRead
  <2>3. line # NPOS /\ size # NoValue
    BY <1>3, <2>1, <2>2, SMTT(40) DEF NPOS, NoValue
  <2>4. line + Len(CRLF) = at + 2 /\ NextChunk(line, size) = at + 2 + z + 1
    <3>1. Len(CRLF) = 2
      BY DEF CRLF
    <3> QED BY <2>1, <2>2, <3>1 DEF NextChunk
  <2>5. NextRound(body, loop) =
          IF size = 0 THEN [loop EXCEPT !.result = "ok"]
          ELSE [result |-> "more", curPos |-> NextChunk(line, size),
                joined |-> loop.joined \o substr(body, line + Len(CRLF), size)]
    BY <1>4, <2>3, Zenon DEF NextRound
  <2> QED BY <1>2, <1>6, <2>2, <2>4, <2>5 DEF Turned
<1> QED BY <1>5, <1>6

Loop == [result : {"more", "fail", "ok"}, curPos : Nat, joined : Seq(Octets)]

\* After n rounds over a body that may be broken off, there is a next size line to
\* look for, behind the data of n chunks; or there was none; or it was the last.
InLoop(loop, s, cuts, body, n) ==
  /\ loop \in Loop
  /\ loop.result = "more" =>
       /\ n <= Len(cuts) /\ loop.curPos + (IF n = 0 THEN 0 ELSE 1) = EndAt(s, cuts, n)
       /\ loop.curPos <= Len(body) => loop.joined = SubSeq(s, 1, CutAt(cuts, n))
  /\ loop.result = "ok" => loop.joined = s

\* The beginning of a sequence.
LEMMA Beginning ==
  ASSUME NEW S, NEW s \in Seq(S), NEW k \in 0 .. Len(s), NEW t, t = SubSeq(s, 1, k)
  PROVE  t \in Seq(S) /\ Len(t) = k /\ \A i \in 1 .. k : t[i] = s[i]
<1>1. Len(s) \in Nat /\ 1 \in Int /\ k \in Int /\ k - 1 + 1 = k /\ k <= Len(s)
  BY LenProperties
<1>2. \A i \in 1 .. k : s[i] \in S
  BY <1>1, ElementOfSeq
<1>3. Len(t) = k /\ t \in Seq(S) /\ \A i \in 1 .. k : t[i] = s[1 + i - 1]
  BY <1>1, SubSeqProperties
<1> QED BY <1>3

\* The data of a chunk continue the data of those before it.
LEMMA DataContinue ==
  ASSUME NEW s \in Seq(Octets), NEW from \in Nat, NEW to \in Nat, NEW z \in Nat, to = from + z,
         to <= Len(s), NEW t \in Seq(Octets), TakenFrom(t, s, from, z)
  PROVE  SubSeq(s, 1, from) \o t = SubSeq(s, 1, to)
<1>1. Len(s) \in Nat /\ from \in 0 .. Len(s) /\ to \in 0 .. Len(s)
  BY LenProperties
<1>2. PICK a, b : a = SubSeq(s, 1, from) /\ b = SubSeq(s, 1, to)
  OBVIOUS
<1>3. /\ a \in Seq(Octets) /\ Len(a) = from /\ \A i \in 1 .. from : a[i] = s[i]
      /\ b \in Seq(Octets) /\ Len(b) = to /\ \A i \in 1 .. to : b[i] = s[i]
  BY <1>1, <1>2, Beginning
<1>4. PICK u : u = a \o t
  OBVIOUS
<1>5. u \in Seq(Octets) /\ InTwo(u, a, from, t, z)
  <2>1. from = Len(a) /\ z = Len(t)
    BY <1>3 DEF TakenFrom
  <2> QED BY <1>3, <1>4, <2>1, TwoParts
<1>6. Len(u) = Len(b)
  BY <1>3, <1>5 DEF InTwo
<1>7. ASSUME NEW i \in 1 .. Len(u) PROVE u[i] = b[i]
  <2>1. i \in 1 .. to /\ b[i] = s[i]
    BY <1>3, <1>6
  <2>2. CASE i <= from
    <3>1. i \in 1 .. from
      BY <2>1, <2>2
    <3> QED BY <1>3, <1>5, <2>1, <3>1 DEF InTwo
  <2>3. CASE ~(i <= from)
    <3>1. i - from \in 1 .. z /\ from + (i - from) = i
      BY <2>1, <2>3, SMTT(40)
    <3>2. u[i] = t[i - from] /\ t[i - from] = s[i]
      BY <1>5, <3>1 DEF InTwo, TakenFrom
    <3> QED BY <2>1, <3>2
  <2> QED BY <2>2, <2>3
<1>8. u = b
  BY <1>3, <1>5, <1>6, <1>7, SeqEqual
<1> QED BY <1>2, <1>4, <1>8

\* A round keeps the invariant of the loop.
LEMMA InLoopKept ==
  ASSUME NEW s \in Seq(Octets), NEW cuts, WellCut(s, cuts), NEW w, w = Chunks(s, cuts),
         NEW body \in Seq(Octets), Agree(body, w), NEW n \in Nat,
         NEW loop, InLoop(loop, s, cuts, body, n)
  PROVE  InLoop(NextRound(body, loop), s, cuts, body, n + 1)
<1>1. loop \in Loop /\ loop.result \in {"more", "fail", "ok"} /\ loop.curPos \in Nat
      /\ loop.joined \in Seq(Octets)
  BY DEF InLoop, Loop
<1>2. CASE loop.result # "more"
  <2>1. NextRound(body, loop) = loop
    BY <1>2, Zenon DEF NextRound
  <2> QED BY <1>2, <2>1 DEF InLoop
<1>3. CASE loop.result = "more"
  <2>1. PICK b, l, p, h, z : /\ b = (IF n = 0 THEN 0 ELSE 1) /\ l = Len(body) /\ p = EndAt(s, cuts, n)
                             /\ h = WidthAt(cuts, n) /\ z = SizeAt(cuts, n)
    OBVIOUS
  <2>2. /\ n \in 0 .. Len(cuts) /\ loop.curPos + b = p
        /\ loop.curPos <= l => loop.joined = SubSeq(s, 1, CutAt(cuts, n))
    BY <1>3, <2>1, CutFacts DEF InLoop
  <2>3. /\ p \in Nat /\ b \in {0, 1} /\ l \in Nat /\ NextAt(w, s, cuts, n, p)
        /\ n < Len(cuts) => EndAt(s, cuts, n + 1) = p + h + 2 + z + 2
    BY <2>1, <2>2, ChunksFacts, LenProperties
  <2>4. /\ z \in Nat /\ z \in DOMAIN Hex /\ h \in Nat /\ h >= 1 /\ h = Len(Hex[z])
        /\ n < Len(cuts) => z >= 1 /\ CutAt(cuts, n + 1) = CutAt(cuts, n) + z
                            /\ n + 1 \in 0 .. Len(cuts)
        /\ n = Len(cuts) => z = 0
    <3>1. /\ SizeAt(cuts, n) \in Nat /\ SizeAt(cuts, n) \in DOMAIN Hex
          /\ WidthAt(cuts, n) \in Nat /\ WidthAt(cuts, n) >= 1
      BY <2>2, AtFacts
    <3>2. n < Len(cuts) => SizeAt(cuts, n) >= 1 /\ CutAt(cuts, n + 1) = CutAt(cuts, n) + SizeAt(cuts, n)
      BY <2>2, AtFacts, CutFacts
    <3>3. n < Len(cuts) => n + 1 \in 0 .. Len(cuts)
      BY <2>2, CutFacts
    <3>4. n = Len(cuts) => SizeAt(cuts, n) = 0
      BY <2>2, AtFacts
    <3> QED BY <2>1, <3>1, <3>2, <3>3, <3>4 DEF WidthAt
  <2>5. LineIn(w, p, b, h, z)
    <3>1. b = 1 => n > 0
      BY <2>1
    <3> QED BY <2>1, <2>3, <3>1 DEF NextAt, LineIn
  <2>6. PICK at : at = p + h
    OBVIOUS
  <2>7. NextRound(body, loop) = Turned(loop, body, at, z)
    <3>1. /\ p \in Nat /\ z \in DOMAIN Hex /\ h = Len(Hex[z]) /\ b \in {0, 1}
          /\ at = p + h /\ loop.result = "more" /\ loop.curPos \in Nat /\ loop.curPos + b = p
      BY <1>1, <1>3, <2>2, <2>3, <2>4, <2>6
    <3> QED BY <2>5, <3>1, RoundFacts, SMTT(40)
  <2>8. /\ h \in Nat /\ h >= 1 /\ at \in Nat /\ b \in Nat /\ z \in Nat /\ p \in Nat /\ l \in Nat
        /\ loop.curPos \in Nat /\ loop.curPos + b = p
    <3>1. h \in Nat /\ h >= 1 /\ b \in Nat
      BY <2>3, <2>4
    <3> QED BY <1>1, <2>2, <2>3, <2>4, <2>6, <3>1
  <2>9. CASE ~(at + 2 <= l)
    <3>1. NextRound(body, loop) = [loop EXCEPT !.result = "fail"]
      BY <2>1, <2>7, <2>9 DEF Turned
    <3> QED BY <1>1, <3>1 DEF InLoop, Loop
  <2>10. CASE at + 2 <= l /\ z = 0
    <3>1. NextRound(body, loop) = [loop EXCEPT !.result = "ok"]
      BY <2>1, <2>7, <2>10 DEF Turned
    <3>2. n = Len(cuts)
      BY <2>2, <2>4, <2>10, CutFacts
    <3>3. loop.curPos <= l
      BY <1>1, <2>2, <2>3, <2>6, <2>8, <2>10
    <3>4. CutAt(cuts, n) = Len(s)
      BY <3>2 DEF WellCut
    <3>5. loop.joined = s
      BY <2>2, <3>3, <3>4, SubSeqFull
    <3> QED BY <1>1, <3>1, <3>5 DEF InLoop, Loop
  <2>11. CASE at + 2 <= l /\ z # 0
    <3>1. PICK t, pos : t = substr(body, at + 2, z) /\ pos = at + 2
      OBVIOUS
    <3>2. NextRound(body, loop) = [result |-> "more", curPos |-> at + 2 + z + 1, joined |-> loop.joined \o t]
      BY <2>1, <2>7, <2>11, <3>1 DEF Turned
    <3>3. n < Len(cuts)
      BY <2>2, <2>4, <2>11, CutFacts
    <3>4. PICK k : k = IF pos + z < l THEN z ELSE l - pos
      OBVIOUS
    <3>5. t \in Seq(Octets) /\ TakenFrom(t, body, pos, k)
      <4>1. pos \in Nat /\ pos <= Len(body) /\ k = IF pos + z < Len(body) THEN z ELSE Len(body) - pos
        BY <2>1, <2>8, <2>11, <3>1, <3>4
      <4> QED BY <2>4, <3>1, <4>1, SubstrFacts
    <3>6. loop.joined \o t \in Seq(Octets)
      BY <1>1, <3>5, ConcatProperties
    <3>7. ASSUME at + 2 + z + 1 <= l PROVE loop.joined \o t = SubSeq(s, 1, CutAt(cuts, n + 1))
      <4>1. k = z /\ loop.curPos <= l
        BY <2>6, <2>8, <3>1, <3>4, <3>7, SMTT(40)
      <4>2. PICK from, to : from = CutAt(cuts, n) /\ to = CutAt(cuts, n + 1)
        OBVIOUS
      <4>3. from \in Nat /\ to \in Nat /\ to = from + z /\ to <= Len(s)
        <5>1. n + 1 \in 0 .. Len(cuts)
          BY <2>4, <3>3
        <5> QED BY <2>2, <2>4, <3>3, <4>2, <5>1, CutFacts
      <4>4. TakenFrom(t, s, from, z)
        <5>1. ASSUME NEW i \in 1 .. z PROVE t[i] = s[from + i]
          <6>1. pos + i \in 1 .. l /\ pos + i = p + h + 2 + i
            BY <2>3, <2>4, <2>6, <2>8, <3>1, <3>7, SMTT(40)
          <6>2. t[i] = body[pos + i] /\ body[pos + i] = w[pos + i]
            BY <2>1, <3>5, <4>1, <6>1 DEF TakenFrom, Agree
          <6>3. w[p + h + 2 + i] = s[from + i]
            BY <2>1, <2>3, <4>2 DEF NextAt
          <6> QED BY <6>1, <6>2, <6>3
        <5>2. Len(t) = z
          BY <3>5, <4>1 DEF TakenFrom
        <5> QED BY <5>1, <5>2 DEF TakenFrom
      <4>5. loop.joined = SubSeq(s, 1, from)
        BY <2>2, <4>1, <4>2
      <4>6. SubSeq(s, 1, from) \o t = SubSeq(s, 1, to)
        BY <2>8, <3>5, <4>3, <4>4, DataContinue, SMTT(40)
      <4> QED BY <4>2, <4>5, <4>6
    <3>8. n + 1 <= Len(cuts) /\ n + 1 # 0
      BY <3>3, CutFacts
    <3>9. at + 2 + z + 1 \in Nat /\ at + 2 + z + 1 + 1 = EndAt(s, cuts, n + 1)
      BY <2>3, <2>4, <2>6, <2>8, <3>3
    <3>10. PICK e : e = NextRound(body, loop)
      OBVIOUS
    <3>11. e \in Loop /\ e.result = "more" /\ e.curPos = at + 2 + z + 1 /\ e.joined = loop.joined \o t
      BY <3>2, <3>6, <3>9, <3>10, SMTT(40) DEF Loop
    <3>12. e.curPos + (IF n + 1 = 0 THEN 0 ELSE 1) = EndAt(s, cuts, n + 1)
      BY <3>8, <3>9, <3>11
    <3>13. e.curPos <= Len(body) => e.joined = SubSeq(s, 1, CutAt(cuts, n + 1))
      BY <2>1, <3>7, <3>11
    <3> QED BY <3>8, <3>10, <3>11, <3>12, <3>13 DEF InLoop
  <2> QED BY <2>9, <2>10, <2>11
<1> QED BY <1>2, <1>3

\* The chunks of a body that may be broken off are joined to the whole text, or found
\* incomplete.
LEMMA JoinFacts ==
  ASSUME NEW s \in Seq(Octets), NEW cuts, WellCut(s, cuts),
         NEW body \in Seq(Octets), Agree(body, Chunks(s, cuts))
  PROVE  /\ JoinChunks(body).result \in {"more", "fail", "ok"}
         /\ JoinChunks(body).result = "ok" => JoinChunks(body).joined = s
<1> DEFINE l == Len(body) + 1
           R == Rounds(body)
           T == {n \in Nat : ~(n <= l => InLoop(R[n], s, cuts, body, n))}
<1>1. Len(body) \in Nat /\ l \in Nat
  BY LenProperties
<1>2. IsRounds(body, l, R)
  BY <1>1, RoundsIs
<1> HIDE DEF l, R
<1>3. R[0] = NoRound /\ \A n \in 1 .. l : R[n] = NextRound(body, R[n - 1])
  BY <1>1, <1>2 DEF IsRounds
<1>4. InLoop(NoRound, s, cuts, body, 0)
  <2>1. EndAt(s, cuts, 0) = 0 /\ 0 <= Len(cuts) /\ CutAt(cuts, 0) = 0
    BY ChunksFacts, CutFacts DEF CutAt
  <2>2. SubSeq(s, 1, 0) = <<>> /\ <<>> \in Seq(Octets)
    BY SubSeqEmpty
  <2>3. /\ NoRound.result = "more" /\ NoRound.curPos = 0 /\ NoRound.joined = <<>>
        /\ NoRound \in Loop
    BY <2>2 DEF NoRound, Loop
  <2> QED BY <2>1, <2>2, <2>3 DEF InLoop
<1>5. 0 \notin T
  BY <1>3, <1>4
<1>6. ASSUME NEW n \in Nat, n \notin T PROVE n + 1 \notin T
  <2>1. SUFFICES ASSUME n + 1 <= l PROVE InLoop(R[n + 1], s, cuts, body, n + 1)
    OBVIOUS
  <2>2. n + 1 \in 1 .. l /\ n + 1 - 1 = n /\ n <= l
    BY <1>1, <2>1
  <2>3. R[n + 1] = NextRound(body, R[n]) /\ InLoop(R[n], s, cuts, body, n)
    BY <1>3, <1>6, <2>2
  <2> QED BY <2>3, InLoopKept
<1> HIDE DEF T
<1>7. T = {}
  BY <1>5, <1>6, NoLeast DEF T
<1>8. InLoop(R[l], s, cuts, body, l)
  BY <1>1, <1>7 DEF T
<1>9. JoinChunks(body) = R[l]
  BY DEF JoinChunks, R, l
<1> QED BY <1>8, <1>9 DEF InLoop, Loop

(***************************************************************************)
(* The response.                                                           *)
(***************************************************************************)
\* Where the parts of a response with n header fields are.
Line(w, r, j) == w[3 * j + 1] = r.fields[j] /\ w[3 * j + 2] = "CR" /\ w[3 * j + 3] = "LF"
IsWire(w, r, n, b) ==
  /\ Len(w) = 3 * n + 5 + Len(b)
  /\ w[1] = r.status /\ w[2] = "CR" /\ w[3] = "LF"
  /\ \A j \in 1 .. n : Line(w, r, j)
  /\ w[3 * n + 4] = "CR" /\ w[3 * n + 5] = "LF"
  /\ \A j \in 1 .. Len(b) : w[3 * n + 5 + j] = b[j]

\* The parts of a response are sequences, and its cuts are those of its text.
LEMMA ResponseFacts ==
  ASSUME NEW r \in Responses
  PROVE  /\ r.status \in Statuses /\ r.fields \in Seq(Fields) /\ r.text \in Seq(Octets)
         /\ Coded(r) \in Seq(Octets) /\ Decoded(r) \in Seq(Octets)
         /\ "gzip" \in ToSet(r.fields) => Decoded(r) = r.text
         /\ "gzip" \notin ToSet(r.fields) => Decoded(r) = Coded(r)
         /\ "chunked" \in ToSet(r.fields) => WellCut(Coded(r), r.cuts)
         /\ Body(r) \in Seq(Octets)
<1>1. r.status \in Statuses /\ r.fields \in Seq(Fields) /\ r.text \in Seq(Units)
  BY ProtocolAssumption
<1>2. r.text \in Seq(Octets)
  <2>1. Units \subseteq Octets
    BY DEF Octets
  <2> QED BY <1>1, <2>1, SeqMonotonic
<1>3. Coded(r) \in Seq(Octets)
  <2>1. "gz" \in Octets /\ "crc" \in Octets
    BY DEF Octets
  <2>2. <<"gz">> \in Seq(Octets) /\ <<"crc">> \in Seq(Octets)
    BY <2>1
  <2>3. <<"gz">> \o r.text \o <<"crc">> \in Seq(Octets)
    BY <1>2, <2>2, ConcatProperties
  <2>4. <<"zz">> \o r.text \in Seq(Octets)
    <3>1. <<"zz">> \in Seq(Octets)
      BY DEF Octets
    <3> QED BY <1>2, <3>1, ConcatProperties
  <2> QED BY <1>2, <2>3, <2>4 DEF Coded
<1>4. "chunked" \in ToSet(r.fields) => WellCut(Coded(r), r.cuts)
  BY ChunksAssumption DEF WellCut
<1>5. Body(r) \in Seq(Octets)
  <2>1. CASE "chunked" \in ToSet(r.fields)
    <3>1. Chunks(Coded(r), r.cuts) \in Seq(Octets)
      BY <1>3, <1>4, <2>1, ChunksFacts
    <3> QED BY <2>1, <3>1 DEF Body
  <2>2. CASE "chunked" \notin ToSet(r.fields)
    BY <1>3, <2>2 DEF Body
  <2> QED BY <2>1, <2>2
<1>6. "gzip" \in ToSet(r.fields) => Decoded(r) = r.text
  <2>1. ~ {"gzip", "deflate"} \subseteq ToSet(r.fields)
    BY ProtocolAssumption
  <2> QED BY <2>1 DEF Decoded
<1>7. "gzip" \notin ToSet(r.fields) => Decoded(r) = Coded(r)
  BY DEF Decoded, Coded
<1>8. Decoded(r) \in Seq(Octets)
  BY <1>2, <1>3 DEF Decoded
<1> QED BY <1>1, <1>2, <1>3, <1>4, <1>5, <1>6, <1>7, <1>8

\* The units of the header fields.
AreLines(f, fields, n) ==
  \A j \in 1 .. n : f[3 * j - 2] = fields[j] /\ f[3 * j - 1] = "CR" /\ f[3 * j] = "LF"

\* Each header field has a line of three units.
LEMMA FieldLinesFacts ==
  ASSUME NEW fields \in Seq(Fields), NEW n, n = Len(fields), NEW f, f = FieldLines(fields)
  PROVE  /\ n \in Nat /\ Len(f) = 3 * n /\ f \in Seq(Octets) /\ AreLines(f, fields, n)
<1>1. n \in Nat /\ 3 * n \in Nat
  BY LenProperties
<1>2. \A j \in 1 .. n : fields[j] \in Fields
  BY ElementOfSeq
<1>3. f = [i \in 1 .. 3 * n |-> IF i % 3 = 1 THEN fields[(i \div 3) + 1] ELSE IF i % 3 = 2 THEN "CR" ELSE "LF"]
  BY DEF FieldLines
<1>4. ASSUME NEW i \in 1 .. 3 * n PROVE f[i] \in Octets
  <2>1. i % 3 = 1 => (i \div 3) + 1 \in 1 .. n
    BY <1>1
  <2>2. f[i] \in Fields \union {"CR", "LF"}
    BY <1>2, <1>3, <2>1
  <2> QED BY <2>2 DEF Octets
<1>5. f \in Seq(Octets) /\ Len(f) = 3 * n
  <2>1. f \in [1 .. 3 * n -> Octets]
    BY <1>3, <1>4
  <2> QED BY <1>1, <2>1, IsASeq
<1>6. ASSUME NEW j \in 1 .. n PROVE f[3 * j - 2] = fields[j] /\ f[3 * j - 1] = "CR" /\ f[3 * j] = "LF"
  <2>1. 3 * j - 2 \in 1 .. 3 * n /\ 3 * j - 1 \in 1 .. 3 * n /\ 3 * j \in 1 .. 3 * n
    BY <1>1
  <2>2. /\ (3 * j - 2) % 3 = 1 /\ ((3 * j - 2) \div 3) + 1 = j
        /\ (3 * j - 1) % 3 = 2 /\ (3 * j) % 3 = 0
    BY <1>1
  <2> QED BY <1>3, <2>1, <2>2
<1> QED BY <1>1, <1>5, <1>6 DEF AreLines

\* A response is laid out like that.
LEMMA WireFacts ==
  ASSUME NEW r \in Responses, NEW w, w = Wire(r), NEW n, n = Len(r.fields), NEW b, b = Body(r)
  PROVE  w \in Seq(Octets) /\ n \in Nat /\ IsWire(w, r, n, b)
<1>1. PICK f : f = FieldLines(r.fields)
  OBVIOUS
<1>2. /\ n \in Nat /\ Len(f) = 3 * n /\ f \in Seq(Octets) /\ b \in Seq(Octets) /\ r.status \in Statuses
      /\ \A j \in 1 .. n : f[3 * j - 2] = r.fields[j] /\ f[3 * j - 1] = "CR" /\ f[3 * j] = "LF"
  <2>1. r.fields \in Seq(Fields) /\ b \in Seq(Octets) /\ r.status \in Statuses
    BY ResponseFacts
  <2>2. n \in Nat /\ Len(f) = 3 * n /\ f \in Seq(Octets) /\ AreLines(f, r.fields, n)
    BY <1>1, <2>1, FieldLinesFacts
  <2> QED BY <2>1, <2>2 DEF AreLines
<1>3. CRLF \in Seq(Octets) /\ Len(CRLF) = 2 /\ CRLF[1] = "CR" /\ CRLF[2] = "LF"
  BY DEF CRLF, Octets
<1>4. PICK c : c = CRLF /\ c \in Seq(Octets) /\ Len(c) = 2 /\ c[1] = "CR" /\ c[2] = "LF"
  BY <1>3
<1>5. PICK h : h = <<r.status>>
  OBVIOUS
<1>6. h \in Seq(Octets) /\ Len(h) = 1 /\ h[1] = r.status
  <2>1. r.status \in Octets
    BY <1>2 DEF Octets
  <2> QED BY <1>5, <2>1
<1>7. PICK l, m, t : l = Len(b) /\ m = 3 * n /\ t = h \o c \o f \o c
  OBVIOUS
<1>8. m \in Nat /\ l \in Nat
  BY <1>2, <1>7, LenProperties
<1>9. t \in Seq(Octets) /\ InThree(t, h, 1, f, m)
  BY <1>2, <1>4, <1>6, <1>7, ThreeParts
<1>10. w = t \o b
  BY <1>1, <1>4, <1>5, <1>7 DEF Wire
<1>11. PICK k : k = Len(t)
  OBVIOUS
<1>12. k = m + 5
  BY <1>8, <1>9, <1>11 DEF InThree
<1>13. w \in Seq(Octets) /\ InTwo(w, t, k, b, l)
  BY <1>2, <1>7, <1>9, <1>10, <1>11, TwoParts
<1>14. Len(w) = m + 5 + l /\ (\A j \in 1 .. m + 5 : w[j] = t[j]) /\ \A j \in 1 .. l : w[m + 5 + j] = b[j]
  BY <1>8, <1>12, <1>13 DEF InTwo
<1>15. w[1] = r.status /\ w[2] = "CR" /\ w[3] = "LF"
  <2>1. t[1] = h[1] /\ t[2] = "CR" /\ t[3] = "LF"
    <3>1. 1 \in 1 .. 1 /\ 1 + 1 = 2 /\ 1 + 2 = 3
      OBVIOUS
    <3> QED BY <1>9, <3>1 DEF InThree
  <2>2. 1 \in 1 .. m + 5 /\ 2 \in 1 .. m + 5 /\ 3 \in 1 .. m + 5
    BY <1>8
  <2> QED BY <1>6, <1>14, <2>1, <2>2
<1>16. w[3 * n + 4] = "CR" /\ w[3 * n + 5] = "LF"
  <2>1. t[m + 4] = "CR" /\ t[m + 5] = "LF"
    <3>1. 1 + m + 3 = m + 4 /\ 1 + m + 4 = m + 5
      BY <1>8
    <3> QED BY <1>9, <3>1 DEF InThree
  <2>2. m + 4 \in 1 .. m + 5 /\ m + 5 \in 1 .. m + 5
    BY <1>8
  <2> QED BY <1>7, <1>14, <2>1, <2>2
<1>17. ASSUME NEW j \in 1 .. n PROVE Line(w, r, j)
  <2>1. \A i \in 1 .. m : w[3 + i] = f[i]
    <3>1. ASSUME NEW i \in 1 .. m PROVE w[3 + i] = f[i]
      <4>1. 3 + i \in 1 .. m + 5 /\ 1 + 2 + i = 3 + i
        BY <1>8
      <4>2. t[1 + 2 + i] = f[i]
        BY <1>9 DEF InThree
      <4> QED BY <1>14, <4>1, <4>2
    <3> QED BY <3>1
  <2>2. /\ 3 * j - 2 \in 1 .. m /\ 3 * j - 1 \in 1 .. m /\ 3 * j \in 1 .. m
        /\ 3 + (3 * j - 2) = 3 * j + 1 /\ 3 + (3 * j - 1) = 3 * j + 2 /\ 3 + 3 * j = 3 * j + 3
    BY <1>2, <1>7
  <2>3. w[3 * j + 1] = f[3 * j - 2] /\ w[3 * j + 2] = f[3 * j - 1] /\ w[3 * j + 3] = f[3 * j]
    BY <2>1, <2>2
  <2> QED BY <1>2, <2>3 DEF Line
<1> QED BY <1>2, <1>7, <1>13, <1>14, <1>15, <1>16, <1>17 DEF IsWire

(***************************************************************************)
(* Its analysis.                                                           *)
(***************************************************************************)
ContextFields ==
  {"target", "redirectDepth", "retry", "status", "cookie", "requestData", "requestLen", "writeLen",
   "recvData", "fields", "httpStatus", "firstLineLen", "headerLen", "body", "undefined"}

\* s is the beginning of a response that has come.
Received(s, w, r, n, b) ==
  /\ s \in Seq(Octets) /\ Agree(s, w) /\ w \in Seq(Octets) /\ Len(s) <= Len(w)
  /\ r \in Responses /\ n = Len(r.fields) /\ n \in Nat /\ b = Body(r) /\ IsWire(w, r, n, b)

\* The first line is found if it has come, and its status.
LEMMA FirstLine ==
  ASSUME NEW s, NEW w, NEW r, NEW n, NEW b, Received(s, w, r, n, b), NEW l, l = Len(s),
         NEW c, DOMAIN c = ContextFields, c.recvData = s
  PROVE  analyseFirstLine(c) = IF 3 <= l THEN Ok([c EXCEPT !.httpStatus = r.status, !.firstLineLen = 3])
                               ELSE Fail(c)
<1>1. l \in Nat /\ s \in Seq(Octets) /\ \A j \in 1 .. l : s[j] = w[j]
  BY LenProperties DEF Received, Agree
<1>2. w[1] = r.status /\ w[2] = "CR" /\ w[3] = "LF" /\ r.status # "CR"
  <2>1. r.status \in Statuses
    BY ResponseFacts DEF Received
  <2> QED BY <2>1 DEF Received, IsWire, Statuses
<1>3. Find(CRLF, s, 0) = IF 3 <= l THEN 1 ELSE NPOS
  <2>1. ASSUME NEW o \in 0 .. 0, o + 2 <= l PROVE ~IsLineEnd(s, o)
    <3>1. o + 1 = 1 /\ 1 \in 1 .. l
      BY <1>1, <2>1
    <3>2. s[1] = w[1]
      BY <1>1, <3>1
    <3> QED BY <1>2, <3>1, <3>2 DEF IsLineEnd
  <2>2. ASSUME 3 <= l PROVE IsLineEnd(s, 1)
    <3>1. 2 \in 1 .. l /\ 3 \in 1 .. l /\ 1 + 1 = 2 /\ 1 + 2 = 3
      BY <1>1, <2>2
    <3>2. s[2] = w[2] /\ s[3] = w[3]
      BY <1>1, <3>1
    <3> QED BY <1>2, <3>1, <3>2 DEF IsLineEnd
  <2>3. \A o \in 0 .. 1 - 1 : o + 2 <= Len(s) => ~IsLineEnd(s, o)
    BY <2>1
  <2>4. 1 + 2 <= Len(s) => IsLineEnd(s, 1)
    BY <2>2
  <2>5. Find(CRLF, s, 0) = IF 1 + 2 <= Len(s) THEN 1 ELSE NPOS
    BY <1>1, <2>3, <2>4, FindLineEnd
  <2> QED BY <2>5
<1>4. 3 <= l => s[1] = r.status
  BY <1>1, <1>2
<1>5. Len(CRLF) = 2 /\ 1 # NPOS /\ 1 + 2 = 3
  BY DEF CRLF, NPOS
<1>6. CASE 3 <= l
  <2>1. Find(CRLF, s, 0) = 1
    BY <1>3, <1>6
  <2> QED BY <1>4, <1>5, <1>6, <2>1, Zenon DEF analyseFirstLine
<1>7. CASE ~(3 <= l)
  <2>1. Find(CRLF, s, 0) = NPOS
    BY <1>3, <1>7
  <2> QED BY <1>7, <2>1, Zenon DEF analyseFirstLine
<1> QED BY <1>6, <1>7

\* A number up to a multiple of three, and what is behind it.
LEMMA Thirds ==
  ASSUME NEW n \in Nat, NEW i \in 1 .. 3 * n + 2
  PROVE  \/ i = 3 * n + 1 \/ i = 3 * n + 2
         \/ \E j \in 1 .. n : i = 3 * j - 2 \/ i = 3 * j - 1 \/ i = 3 * j
<1>1. SUFFICES ASSUME i <= 3 * n
               PROVE  \E j \in 1 .. n : i = 3 * j - 2 \/ i = 3 * j - 1 \/ i = 3 * j
  OBVIOUS
<1>2. PICK j : j = (i + 2) \div 3
  OBVIOUS
<1>3. j \in 1 .. n /\ (i = 3 * j - 2 \/ i = 3 * j - 1 \/ i = 3 * j)
  BY <1>1, <1>2
<1> QED BY <1>3

\* Within the header fields there is no empty line.
LEMMA NoEmptyLine ==
  ASSUME NEW s, NEW w, NEW r, NEW n, NEW b, Received(s, w, r, n, b), NEW o \in 3 .. 3 * n
  PROVE  ~(w[o + 1] = "CR" /\ w[o + 3] = "CR")
<1>1. n \in Nat /\ \A j \in 1 .. n : Line(w, r, j)
  BY DEF Received, IsWire
<1>2. \A j \in 1 .. n : r.fields[j] # "CR"
  <2>1. r.fields \in Seq(Fields) /\ n = Len(r.fields)
    BY ResponseFacts DEF Received
  <2>2. \A j \in 1 .. n : r.fields[j] \in Fields
    BY <2>1, ElementOfSeq
  <2> QED BY <2>2 DEF Fields, Cookies
<1>3. o - 2 \in 1 .. 3 * n + 2 /\ o - 2 # 3 * n + 1 /\ o - 2 # 3 * n + 2
  BY <1>1
<1>4. PICK j \in 1 .. n : o - 2 = 3 * j - 2 \/ o - 2 = 3 * j - 1 \/ o - 2 = 3 * j
  BY <1>1, <1>3, Thirds
<1>5. CASE o - 2 = 3 * j - 2
  <2>1. o + 1 = 3 * j + 1
    BY <1>1, <1>5
  <2> QED BY <1>1, <1>2, <2>1 DEF Line
<1>6. CASE o - 2 = 3 * j - 1
  <2>1. o + 3 = 3 * (j + 1) + 1 /\ j + 1 \in 1 .. n
    BY <1>1, <1>6
  <2>2. w[3 * (j + 1) + 1] = r.fields[j + 1] /\ r.fields[j + 1] # "CR"
    BY <1>1, <1>2, <2>1 DEF Line
  <2> QED BY <2>1, <2>2
<1>7. CASE o - 2 = 3 * j
  <2>1. o + 1 = 3 * j + 3
    BY <1>1, <1>7
  <2> QED BY <1>1, <2>1 DEF Line
<1> QED BY <1>4, <1>5, <1>6, <1>7

\* The header is found, and what it holds are the fields of the response.
LEMMA HeaderEnd ==
  ASSUME NEW s, NEW w, NEW r, NEW n, NEW b, Received(s, w, r, n, b), NEW l, l = Len(s), n >= 1,
         NEW at, at = 3 * n + 1
  PROVE  at \in Nat /\ at # NPOS /\ Find(DOUBLECRLF, s, 3) = IF at + 4 <= l THEN at ELSE NPOS
<1>1. l \in Nat /\ s \in Seq(Octets) /\ \A j \in 1 .. l : s[j] = w[j]
  BY LenProperties DEF Received, Agree
<1>2. n \in Nat /\ at \in Nat /\ 3 <= at /\ at # NPOS
  BY DEF Received, NPOS
<1>3. ASSUME NEW o \in 3 .. at - 1, o + 4 <= Len(s) PROVE ~(IsLineEnd(s, o) /\ IsLineEnd(s, o + 2))
  <2>1. o \in 3 .. 3 * n /\ o + 1 \in 1 .. l /\ o + 3 \in 1 .. l /\ o + 2 + 1 = o + 3
    BY <1>1, <1>2, <1>3
  <2>2. s[o + 1] = w[o + 1] /\ s[o + 3] = w[o + 3]
    BY <1>1, <2>1
  <2>3. ~(w[o + 1] = "CR" /\ w[o + 3] = "CR")
    BY <2>1, NoEmptyLine
  <2> QED BY <2>1, <2>2, <2>3 DEF IsLineEnd
<1>4. ASSUME at + 4 <= Len(s) PROVE IsLineEnd(s, at) /\ IsLineEnd(s, at + 2)
  <2>1. Line(w, r, n) /\ w[3 * n + 4] = "CR" /\ w[3 * n + 5] = "LF"
    <3>1. n \in 1 .. n
      BY <1>2
    <3> QED BY <3>1 DEF Received, IsWire
  <2>2. /\ at + 1 = 3 * n + 2 /\ at + 2 = 3 * n + 3 /\ at + 2 + 1 = 3 * n + 4 /\ at + 2 + 2 = 3 * n + 5
        /\ at + 1 \in 1 .. l /\ at + 2 \in 1 .. l /\ at + 2 + 1 \in 1 .. l /\ at + 2 + 2 \in 1 .. l
    BY <1>1, <1>2, <1>4
  <2>3. s[at + 1] = "CR" /\ s[at + 2] = "LF" /\ s[at + 2 + 1] = "CR" /\ s[at + 2 + 2] = "LF"
    BY <1>1, <2>1, <2>2 DEF Line
  <2> QED BY <2>3 DEF IsLineEnd
<1>5. \A o \in 3 .. at - 1 : o + 4 <= Len(s) => ~(IsLineEnd(s, o) /\ IsLineEnd(s, o + 2))
  BY <1>3
<1>6. Find(DOUBLECRLF, s, 3) = IF at + 4 <= Len(s) THEN at ELSE NPOS
  BY <1>1, <1>2, <1>4, <1>5, FindHeaderEnd
<1> QED BY <1>2, <1>6

\* What is in the header are the fields of the response, and nothing else.
LEMMA HeaderFields ==
  ASSUME NEW s, NEW w, NEW r, NEW n, NEW b, Received(s, w, r, n, b), NEW l, l = Len(s),
         3 * n + 5 <= l, NEW m, m = 3 * n + 2, NEW t, t = substr(s, 3, m)
  PROVE  ToSet(t) \intersect Fields = ToSet(r.fields)
<1>1. l \in Nat /\ s \in Seq(Octets) /\ (\A j \in 1 .. l : s[j] = w[j]) /\ n \in Nat /\ m \in Nat
  BY LenProperties DEF Received, Agree
<1>2. t \in Seq(Octets) /\ TakenFrom(t, s, 3, m)
  <2>1. 3 <= Len(s) /\ m = IF 3 + m < Len(s) THEN m ELSE Len(s) - 3
    BY <1>1
  <2> QED BY <1>1, <2>1, SubstrFacts
<1>3. ASSUME NEW i \in 1 .. m PROVE t[i] = w[3 + i]
  <2>1. 3 + i \in 1 .. l
    BY <1>1, SMTT(40)
  <2> QED BY <1>1, <1>2, <2>1 DEF TakenFrom
<1>4. DOMAIN t = 1 .. m
  BY <1>2, LenProperties DEF TakenFrom
<1>5. /\ r.fields \in Seq(Fields) /\ DOMAIN r.fields = 1 .. n /\ \A j \in 1 .. n : r.fields[j] \in Fields
  <2>1. r.fields \in Seq(Fields) /\ n = Len(r.fields)
    BY ResponseFacts DEF Received
  <2> QED BY <2>1, ElementOfSeq, LenProperties
<1>6. \A j \in 1 .. n : Line(w, r, j)
  BY DEF Received, IsWire
<1>7. w[3 * n + 4] = "CR" /\ w[3 * n + 5] = "LF"
  BY DEF Received, IsWire
<1>8. "CR" \notin Fields /\ "LF" \notin Fields
  BY DEF Fields, Cookies
<1>9. ASSUME NEW i \in 1 .. m, t[i] \in Fields PROVE t[i] \in ToSet(r.fields)
  <2>1. i # 3 * n + 1 /\ i # 3 * n + 2
    <3>1. i = 3 * n + 1 => 3 + i = 3 * n + 4
      BY <1>1
    <3>2. i = 3 * n + 2 => 3 + i = 3 * n + 5
      BY <1>1
    <3> QED BY <1>3, <1>7, <1>8, <1>9, <3>1, <3>2
  <2>2. PICK j \in 1 .. n : i = 3 * j - 2 \/ i = 3 * j - 1 \/ i = 3 * j
    BY <1>1, <2>1, Thirds
  <2>3. t[i] = w[3 + i] /\ w[3 * j + 1] = r.fields[j] /\ w[3 * j + 2] = "CR" /\ w[3 * j + 3] = "LF"
    BY <1>3, <1>6 DEF Line
  <2>4. 3 * j - 1 # i /\ 3 * j # i
    <3>1. i = 3 * j - 1 => 3 + i = 3 * j + 2
      BY <1>1
    <3>2. i = 3 * j => 3 + i = 3 * j + 3
      BY <1>1
    <3> QED BY <1>8, <1>9, <2>3, <3>1, <3>2
  <2>5. 3 + i = 3 * j + 1
    <3>1. i \in Nat /\ j \in Nat /\ i = 3 * j - 2
      BY <1>1, <2>2, <2>4
    <3> QED BY <3>1
  <2>6. t[i] = r.fields[j]
    BY <2>3, <2>5
  <2>7. j \in DOMAIN r.fields
    BY <1>5
  <2> QED BY <2>6, <2>7 DEF ToSet
<1>10. ASSUME NEW j \in 1 .. n PROVE r.fields[j] \in ToSet(t)
  <2>1. 3 * j - 2 \in 1 .. m /\ 3 + (3 * j - 2) = 3 * j + 1
    BY <1>1
  <2>2. t[3 * j - 2] = r.fields[j]
    BY <1>3, <1>6, <2>1 DEF Line
  <2>3. 3 * j - 2 \in DOMAIN t
    BY <1>4, <2>1
  <2> QED BY <2>2, <2>3 DEF ToSet
<1>11. ToSet(t) = {t[i] : i \in 1 .. m} /\ ToSet(r.fields) = {r.fields[j] : j \in 1 .. n}
  BY <1>4, <1>5 DEF ToSet
<1>12. ToSet(t) \intersect Fields \subseteq ToSet(r.fields)
  BY <1>9, <1>11
<1>13. ToSet(r.fields) \subseteq ToSet(t) \intersect Fields
  BY <1>5, <1>10, <1>11
<1> QED BY <1>12, <1>13

\* The beginning of a sequence, unit by unit.
Starts(t, s) == Len(t) <= Len(s) /\ Agree(t, s)

\* The context c after the header fields of r have been read.
HeaderRead(d, c, r, at) ==
  /\ DOMAIN d = ContextFields /\ d.recvData = c.recvData /\ d.undefined = c.undefined
  /\ d.status = c.status /\ d.fields = ToSet(r.fields) /\ d.headerLen = at

\* The header is read if all of it has come.
LEMMA Header ==
  ASSUME NEW s, NEW w, NEW r, NEW n, NEW b, Received(s, w, r, n, b), NEW l, l = Len(s), n >= 1,
         NEW at, at = 3 * n + 1,
         NEW c, DOMAIN c = ContextFields, c.recvData = s, c.fields = {}, c.firstLineLen = 3
  PROVE  /\ ~(at + 4 <= l) => analyseHeader(c) = Fail(c)
         /\ at + 4 <= l => \E d : analyseHeader(c) = Ok(d) /\ HeaderRead(d, c, r, at)
<1>1. at \in Nat /\ at # NPOS /\ Find(DOUBLECRLF, s, 3) = IF at + 4 <= l THEN at ELSE NPOS
  BY HeaderEnd
<1>2. CASE ~(at + 4 <= l)
  <2>1. Find(DOUBLECRLF, c.recvData, c.firstLineLen) = NPOS
    BY <1>1, <1>2
  <2> QED BY <1>2, <2>1, Zenon DEF analyseHeader
<1>3. CASE at + 4 <= l
  <2>1. Find(DOUBLECRLF, c.recvData, c.firstLineLen) = at
    BY <1>1, <1>3
  <2>2. PICK m, t : m = 3 * n + 2 /\ t = substr(s, 3, m)
    OBVIOUS
  <2>3. n \in Nat /\ Len(DOUBLECRLF) = 4
    BY DEF Received, DOUBLECRLF
  <2>4. ToSet(t) \intersect Fields = ToSet(r.fields)
    <3>1. 3 * n + 5 <= l
      BY <1>3, <2>3
    <3> QED BY <2>2, <3>1, HeaderFields
  <2>5. at - 3 + Len(DOUBLECRLF) = m
    BY <2>2, <2>3
  <2>6. substr(c.recvData, c.firstLineLen, at - c.firstLineLen + Len(DOUBLECRLF)) = t
    BY <2>2, <2>5
  <2>7. PICK e : e = [c EXCEPT !.fields = c.fields \union (ToSet(t) \intersect Fields), !.headerLen = at]
    OBVIOUS
  <2>8. /\ DOMAIN e = ContextFields /\ e.recvData = c.recvData /\ e.undefined = c.undefined
        /\ e.status = c.status /\ e.fields = ToSet(r.fields) /\ e.headerLen = at
    BY <2>4, <2>7 DEF ContextFields
  <2>9. analyseHeader(c) = Ok(analyseCookie(e, t))
    BY <1>1, <2>1, <2>6, <2>7, Zenon DEF analyseHeader
  <2>10. HeaderRead(analyseCookie(e, t), c, r, at)
    BY <2>8 DEF HeaderRead, analyseCookie, ContextFields
  <2> QED BY <1>3, <2>9, <2>10
<1> QED BY <1>2, <1>3

\* What of the body has come.
LEMMA BodyReceived ==
  ASSUME NEW s, NEW w, NEW r, NEW n, NEW b, Received(s, w, r, n, b), NEW l, l = Len(s),
         NEW pos, pos = 3 * n + 5, pos <= l, NEW t, t = substr(s, pos, l)
  PROVE  t \in Seq(Octets) /\ Starts(t, b)
<1>1. l \in Nat /\ s \in Seq(Octets) /\ n \in Nat /\ pos \in Nat
  BY LenProperties DEF Received
<1>2. \A j \in 1 .. l : s[j] = w[j]
  BY DEF Received, Agree
<1>3. PICK k : k = l - pos
  OBVIOUS
<1>4. t \in Seq(Octets) /\ TakenFrom(t, s, pos, k)
  <2>1. ~(pos + l < l)
    BY <1>1
  <2>2. pos <= Len(s) /\ k = IF pos + l < Len(s) THEN l ELSE Len(s) - pos
    BY <1>3, <2>1
  <2>3. pos \in Nat /\ l \in Nat /\ s \in Seq(Octets)
    BY <1>1
  <2> QED BY <2>2, <2>3, SubstrFacts
<1>5. PICK q : q = Len(b)
  OBVIOUS
<1>6. q \in Nat /\ Len(w) = pos + q /\ l <= Len(w) /\ \A j \in 1 .. q : w[pos + j] = b[j]
  <2>1. b \in Seq(Octets)
    BY ResponseFacts DEF Received
  <2>2. q \in Nat
    BY <1>5, <2>1, LenProperties
  <2>3. Len(w) = 3 * n + 5 + q /\ \A j \in 1 .. q : w[3 * n + 5 + j] = b[j]
    BY <1>5 DEF Received, IsWire
  <2> QED BY <2>2, <2>3 DEF Received
<1>7. Len(t) = k /\ k <= q /\ k \in Nat
  <2>1. Len(t) = k
    BY <1>4 DEF TakenFrom
  <2>2. k \in Nat /\ l <= pos + q
    BY <1>1, <1>3, <1>6
  <2>3. k <= q
    BY <1>1, <1>3, <1>6, <2>2
  <2> QED BY <2>1, <2>2, <2>3
<1>8. ASSUME NEW j \in 1 .. k PROVE t[j] = b[j]
  <2>1. pos + j \in 1 .. l /\ j \in 1 .. q
    <3>1. q \in Nat
      BY <1>6
    <3> QED BY <1>1, <1>3, <1>7, <3>1
  <2> QED BY <1>4, <1>6, <1>2, <2>1 DEF TakenFrom
<1>9. Agree(t, b)
  BY <1>7, <1>8 DEF Agree
<1> QED BY <1>4, <1>5, <1>7, <1>9 DEF Starts

\* The chunks of what has come.
JoinedTo(k, c, r) ==
  /\ DOMAIN k.ctx = ContextFields /\ k.ctx.status = c.status /\ k.ctx.fields = c.fields
  /\ k.ctx.undefined = FALSE /\ k.ctx.httpStatus = c.httpStatus
  /\ k.ok \in BOOLEAN
  /\ k.ok => /\ k.ctx.body \in Seq(Octets) /\ Starts(k.ctx.body, Coded(r))
             /\ "chunked" \in c.fields => k.ctx.body = Coded(r)

\* They are the text, or an error; never a size that has no value.
LEMMA Joined ==
  ASSUME NEW r \in Responses, NEW c, DOMAIN c = ContextFields, c.fields = ToSet(r.fields),
         c.undefined = FALSE, c.body \in Seq(Octets), Starts(c.body, Body(r)), NEW k, k = analyseChunk(c)
  PROVE  JoinedTo(k, c, r)
<1>1. CASE "chunked" \notin c.fields
  <2>1. Body(r) = Coded(r)
    BY <1>1 DEF Body
  <2>2. k.ok = TRUE /\ k.ctx = c
    BY <1>1 DEF analyseChunk, Ok
  <2> QED BY <1>1, <2>1, <2>2 DEF JoinedTo
<1>2. CASE "chunked" \in c.fields
  <2>1. PICK t, loop : t = Coded(r) /\ loop = JoinChunks(c.body)
    OBVIOUS
  <2>2. t \in Seq(Octets) /\ WellCut(t, r.cuts) /\ Agree(c.body, Chunks(t, r.cuts))
    BY <1>2, <2>1, ResponseFacts DEF Body, Starts
  <2>3. loop.result \in {"more", "fail", "ok"} /\ (loop.result = "ok" => loop.joined = t)
    BY <2>1, <2>2, JoinFacts
  <2>4. CASE loop.result = "ok"
    <3>1. k = Ok([c EXCEPT !.body = loop.joined])
      BY <1>2, <2>1, <2>4, Zenon DEF analyseChunk
    <3>2. k.ok = TRUE /\ k.ctx = [c EXCEPT !.body = t]
      BY <2>3, <2>4, <3>1 DEF Ok
    <3>3. Len(t) \in Nat /\ Starts(t, t)
      BY <2>2, LenProperties DEF Starts, Agree
    <3>4. /\ DOMAIN k.ctx = ContextFields /\ k.ctx.status = c.status /\ k.ctx.fields = c.fields
          /\ k.ctx.undefined = FALSE /\ k.ctx.httpStatus = c.httpStatus /\ k.ctx.body = t
      BY <3>2 DEF ContextFields
    <3> QED BY <2>1, <2>2, <3>2, <3>3, <3>4 DEF JoinedTo
  <2>5. CASE loop.result # "ok"
    <3>1. k = Fail([c EXCEPT !.undefined = loop.result = "undefined"])
      BY <1>2, <2>1, <2>5, Zenon DEF analyseChunk
    <3>2. (loop.result = "undefined") = FALSE
      BY <2>3
    <3>3. k = Fail([c EXCEPT !.undefined = FALSE])
      BY <3>1, <3>2, Zenon
    <3>4. k.ok = FALSE /\ k.ctx = [c EXCEPT !.undefined = FALSE]
      BY <3>3 DEF Fail
    <3> QED BY <3>4 DEF ContextFields, JoinedTo
  <2> QED BY <2>4, <2>5
<1> QED BY <1>1, <1>2

\* The text between the marks of zlib.
Packed(u, text, m) ==
  /\ Len(u) = m + 2 /\ u[m + 2] = "crc"
  /\ \A j \in 1 .. m + 1 : u[j] # "crc"
  /\ \A j \in 1 .. m : u[j + 1] = text[j]

\* A compressed text is laid out like that.
LEMMA PackedFacts ==
  ASSUME NEW text \in Seq(Units), NEW m, m = Len(text), NEW u, u = <<"gz">> \o text \o <<"crc">>
  PROVE  m \in Nat /\ Packed(u, text, m)
<1>1. PICK a, z, v : a = <<"gz">> /\ z = <<"crc">> /\ v = a \o text
  OBVIOUS
<1>2. PICK S : S = Units \union {"gz", "crc"}
  OBVIOUS
<1>3. /\ a \in Seq(S) /\ Len(a) = 1 /\ a[1] = "gz" /\ z \in Seq(S) /\ Len(z) = 1 /\ z[1] = "crc"
      /\ text \in Seq(S)
  <2>1. "gz" \in S /\ "crc" \in S /\ Units \subseteq S
    BY <1>2
  <2> QED BY <1>1, <2>1, SeqMonotonic
<1>4. PICK one, k : one = 1 /\ k = Len(v)
  OBVIOUS
<1>5. m \in Nat /\ v \in Seq(S) /\ InTwo(v, a, one, text, m)
  BY <1>1, <1>3, <1>4, TwoParts
<1>6. u = v \o z
  BY <1>1
<1>7. u \in Seq(S) /\ InTwo(u, v, k, z, one)
  BY <1>3, <1>4, <1>5, <1>6, TwoParts
<1>8. k = m + 1
  BY <1>4, <1>5 DEF InTwo
<1>9. v[1] = "gz" /\ \A j \in 1 .. m : v[j + 1] = text[j]
  <2>1. v[1] = a[1]
    <3>1. 1 \in 1 .. one
      BY <1>4
    <3> QED BY <1>5, <3>1 DEF InTwo
  <2>2. ASSUME NEW j \in 1 .. m PROVE v[j + 1] = text[j]
    <3>1. one + j = j + 1
      BY <1>4, <1>5
    <3> QED BY <1>5, <3>1 DEF InTwo
  <2> QED BY <1>3, <2>1, <2>2
<1>10. Len(u) = m + 2 /\ u[m + 2] = "crc" /\ \A j \in 1 .. m + 1 : u[j] = v[j]
  <2>1. k + one = m + 2 /\ k + 1 = m + 2 /\ 1 \in 1 .. one
    BY <1>4, <1>5, <1>8
  <2>2. Len(u) = k + one /\ (\A j \in 1 .. k : u[j] = v[j]) /\ \A j \in 1 .. one : u[k + j] = z[j]
    BY <1>7 DEF InTwo
  <2>3. u[k + 1] = z[1]
    BY <2>1, <2>2
  <2> QED BY <1>3, <1>8, <2>1, <2>2, <2>3
<1>11. ASSUME NEW j \in 1 .. m PROVE u[j + 1] = text[j]
  <2>1. j + 1 \in 1 .. m + 1
    BY <1>5
  <2> QED BY <1>9, <1>10, <2>1
<1>12. ASSUME NEW j \in 1 .. m + 1 PROVE u[j] # "crc"
  <2>1. CASE j = 1
    <3>1. u[1] = "gz"
      BY <1>9, <1>10, <2>1
    <3> QED BY <2>1, <3>1
  <2>2. CASE j # 1
    <3>1. j - 1 \in 1 .. m /\ (j - 1) + 1 = j
      BY <1>5, <2>2
    <3>2. text[j - 1] \in Units
      BY <3>1, ElementOfSeq
    <3>3. u[j] = text[j - 1]
      BY <1>11, <3>1
    <3> QED BY <3>2, <3>3, ProtocolAssumption
  <2> QED BY <2>1, <2>2
<1> QED BY <1>5, <1>10, <1>11, <1>12 DEF Packed

\* The end mark is found where it is, if it has come.
LEMMA EndMark ==
  ASSUME NEW S, NEW s \in Seq(S), NEW at \in Nat, NEW l, l = Len(s),
         \A o \in 1 .. at : o <= l => s[o] # "crc",
         at + 1 <= l => s[at + 1] = "crc"
  PROVE  Find(<<"crc">>, s, 0) = IF at + 1 <= l THEN at ELSE NPOS
<1>1. PICK pattern, one : pattern = <<"crc">> /\ one = Len(pattern)
  OBVIOUS
<1>2. one = 1 /\ pattern[1] = "crc" /\ l \in Nat
  BY <1>1, LenProperties
<1>3. ASSUME NEW o \in Nat, o + 1 <= l PROVE Matches(pattern, s, o) <=> s[o + 1] = "crc"
  <2>1. PICK t : t = SubSeq(s, o + 1, o + 1)
    OBVIOUS
  <2>2. \A i \in o + 1 .. o + 1 : s[i] \in S
    BY <1>2, <1>3, ElementOfSeq
  <2>3. t \in Seq(S) /\ Len(t) = 1 /\ t[1] = s[o + 1]
    BY <2>1, <2>2, SubSeqProperties
  <2>4. t = <<t[1]>>
    BY <2>3
  <2> QED BY <1>1, <1>2, <2>1, <2>3, <2>4 DEF Matches
<1>4. ASSUME NEW o \in 0 .. at - 1, o + one <= Len(s) PROVE ~Matches(pattern, s, o)
  <2>1. o \in Nat /\ o + 1 \in 1 .. at /\ o + 1 <= l
    BY <1>2, <1>4
  <2> QED BY <1>3, <2>1
<1>5. at + one <= Len(s) => Matches(pattern, s, at)
  BY <1>2, <1>3
<1>6. Find(pattern, s, 0) = IF at + one <= Len(s) THEN at ELSE NPOS
  <2>1. \A o \in 0 .. at - 1 : o + Len(pattern) <= Len(s) => ~Matches(pattern, s, o)
    BY <1>1, <1>4
  <2>2. Len(s) \in Nat /\ Len(pattern) \in Nat /\ 0 \in Nat /\ 0 <= at
    BY <1>1, <1>2
  <2>3. at + Len(pattern) <= Len(s) => Matches(pattern, s, at)
    BY <1>1, <1>5
  <2>4. Find(pattern, s, 0) = IF at + Len(pattern) <= Len(s) THEN at ELSE NPOS
    BY <2>1, <2>2, <2>3, FindFirst
  <2> QED BY <1>1, <2>4
<1> QED BY <1>1, <1>2, <1>6

\* A text that was decompressed into a buffer of a size, wholly if all of it had come.
IsUnpacked(data, text, size, whole) ==
  data \in Seq(Octets) /\ Starts(data, text) /\ (whole => data = text \/ Len(data) = size)

\* Decompression gives a beginning of the text, up to the size of its buffer.
LEMMA Unpacked ==
  ASSUME NEW text \in Seq(Units), NEW u, u = <<"gz">> \o text \o <<"crc">>,
         NEW z \in Seq(Octets), Starts(z, u), NEW size \in Nat, NEW g, g = gzdecompress(z, size), g.ok
  PROVE  IsUnpacked(g.data, text, size, z = u)
<1>1. PICK m, l : m = Len(text) /\ l = Len(z)
  OBVIOUS
<1>2. m \in Nat /\ l \in Nat /\ Packed(u, text, m)
  BY <1>1, PackedFacts, LenProperties
<1>3. l <= m + 2 /\ \A j \in 1 .. l : z[j] = u[j]
  BY <1>1, <1>2 DEF Starts, Agree, Packed
<1>4. PICK at : at = m + 1
  OBVIOUS
<1>5. Find(<<"crc">>, z, 0) = IF at + 1 <= l THEN at ELSE NPOS
  <2>1. ASSUME NEW o \in 1 .. at, o <= l PROVE z[o] # "crc"
    <3>1. o \in 1 .. l /\ o \in 1 .. m + 1
      BY <1>2, <1>4, <2>1
    <3> QED BY <1>2, <1>3, <3>1 DEF Packed
  <2>2. ASSUME at + 1 <= l PROVE z[at + 1] = "crc"
    <3>1. at + 1 = m + 2 /\ at + 1 \in 1 .. l
      BY <1>2, <1>4, <2>2
    <3> QED BY <1>2, <1>3, <3>1 DEF Packed
  <2>3. at \in Nat
    BY <1>2, <1>4
  <2> QED BY <1>1, <2>1, <2>2, <2>3, EndMark
<1>6. PICK e, data : e = (IF at + 1 <= l THEN at ELSE l) /\ data = SubSeq(z, 2, e)
  OBVIOUS
<1>7. e \in Nat /\ e <= l /\ e <= m + 1 /\ (l = m + 2 => e = m + 1)
  BY <1>2, <1>3, <1>4, <1>6
<1>8. PICK k : k = IF e = 0 THEN 0 ELSE e - 1
  OBVIOUS
<1>9. k \in Nat /\ k <= m /\ (l = m + 2 => k = m)
  BY <1>2, <1>7, <1>8
<1>10. data \in Seq(Octets) /\ Len(data) = k /\ \A j \in 1 .. k : data[j] = text[j]
  <2>1. \A i \in 2 .. e : z[i] \in Octets
    <3>1. \A i \in 2 .. e : i \in 1 .. Len(z)
      BY <1>1, <1>2, <1>7
    <3> QED BY <3>1, ElementOfSeq
  <2>2. /\ data \in Seq(Octets) /\ Len(data) = IF 2 <= e THEN e - 2 + 1 ELSE 0
        /\ \A j \in 1 .. e - 2 + 1 : data[j] = z[2 + j - 1]
    BY <1>6, <1>7, <2>1, SubSeqProperties
  <2>3. Len(data) = k
    BY <1>7, <1>8, <2>2
  <2>4. ASSUME NEW j \in 1 .. k PROVE data[j] = text[j]
    <3>1. /\ j \in 1 .. e - 2 + 1 /\ 2 + j - 1 = j + 1 /\ j + 1 \in 1 .. l /\ j \in 1 .. m
          /\ j + 1 \in 1 .. m + 1
      BY <1>2, <1>7, <1>8, <1>9
    <3>2. data[j] = z[j + 1] /\ z[j + 1] = u[j + 1]
      BY <1>3, <2>2, <3>1
    <3> QED BY <1>2, <3>1, <3>2 DEF Packed
  <2> QED BY <2>2, <2>3, <2>4
<1>11. g.data = substr(data, 0, size)
  <2>1. at # NPOS
    BY <1>2, <1>4 DEF NPOS
  <2>2. data = SubSeq(z, 2, IF Find(<<"crc">>, z, 0) = NPOS THEN Len(z) ELSE Find(<<"crc">>, z, 0))
    BY <1>1, <1>5, <1>6, <2>1
  <2>3. /\ g = IF z # <<>> /\ Head(z) # "gz" THEN [ok |-> FALSE, data |-> <<>>]
               ELSE [ok |-> TRUE, data |-> substr(data, 0, size)]
    BY <2>2, Zenon DEF gzdecompress
  <2>4. ~(z # <<>> /\ Head(z) # "gz")
    BY <2>3
  <2> QED BY <2>3, <2>4
<1>12. PICK c : c = IF size < k THEN size ELSE k
  OBVIOUS
<1>13. c \in Nat /\ c <= k
  BY <1>9, <1>12
<1>14. g.data \in Seq(Octets) /\ Len(g.data) = c /\ \A j \in 1 .. c : g.data[j] = data[j]
  <2>1. g.data = SubSeq(data, 1, c)
    <3>1. substr(data, 0, size) = SubSeq(data, 0 + 1, IF 0 + size < Len(data) THEN 0 + size ELSE Len(data))
      BY DEF substr
    <3>2. 0 + 1 = 1 /\ (IF 0 + size < Len(data) THEN 0 + size ELSE Len(data)) = c
      BY <1>10, <1>12
    <3> QED BY <1>11, <3>1, <3>2
  <2>2. c \in 0 .. Len(data)
    BY <1>9, <1>10, <1>13
  <2> QED BY <1>10, <2>1, <2>2, Beginning
<1>15. Starts(g.data, text)
  <2>1. \A j \in 1 .. c : j \in 1 .. k
    BY <1>9, <1>13
  <2>2. \A j \in 1 .. c : g.data[j] = text[j]
    BY <1>10, <1>14, <2>1
  <2>3. c <= m
    BY <1>2, <1>9, <1>13
  <2> QED BY <1>1, <1>14, <2>2, <2>3 DEF Starts, Agree
<1>16. ASSUME z = u, Len(g.data) # size PROVE g.data = text
  <2>1. l = m + 2
    BY <1>1, <1>2, <1>16 DEF Packed
  <2>2. c = k /\ k = m
    BY <1>9, <1>12, <1>14, <1>16, <2>1
  <2>3. g.data = data
    <3>1. g.data = SubSeq(data, 1, Len(data))
      <4>1. (IF 0 + size < Len(data) THEN 0 + size ELSE Len(data)) = Len(data)
        BY <1>9, <1>10, <1>12, <2>2
      <4> QED BY <1>11, <4>1 DEF substr
    <3> QED BY <1>10, <3>1, SubSeqFull
  <2>4. data = text
    <3>1. Len(data) = Len(text) /\ \A j \in 1 .. Len(data) : data[j] = text[j]
      BY <1>1, <1>10, <2>2
    <3>2. text \in Seq(Octets)
      <4>1. Units \subseteq Octets
        BY DEF Octets
      <4> QED BY <4>1, SeqMonotonic
    <3> QED BY <1>10, <3>1, <3>2, SeqEqual
  <2> QED BY <2>3, <2>4
<1> QED BY <1>14, <1>15, <1>16 DEF IsUnpacked

\* What the analysis may make of a page, whole or broken off.
IsPage(body, r, size) ==
  /\ body \in Seq(Octets) /\ Starts(body, Decoded(r))
  /\ "chunked" \in ToSet(r.fields) =>
       body = Decoded(r) \/ ("gzip" \in ToSet(r.fields) /\ Len(body) = size)

\* The body of a response, of which a beginning t has come.
LEMMA BodyAnalysed ==
  ASSUME NEW r \in Responses, NEW d, DOMAIN d = ContextFields, d.fields = ToSet(r.fields),
         d.undefined = FALSE, NEW size \in Nat,
         NEW t, t = substr(d.recvData, BodyPos(d), Len(d.recvData)), t \in Seq(Octets), Starts(t, Body(r)),
         NEW a, a = analyseBody(d, size)
  PROVE  /\ a.ctx.undefined = FALSE /\ a.ok \in BOOLEAN
         /\ a.ok => /\ a.ctx.fields = ToSet(r.fields)
                    /\ a.ctx.httpStatus = "200" => IsPage(a.ctx.body, r, size)
<1>1. PICK e, k : e = [d EXCEPT !.body = t] /\ k = analyseChunk(e)
  OBVIOUS
<1>2. /\ DOMAIN e = ContextFields /\ e.fields = ToSet(r.fields) /\ e.undefined = FALSE
      /\ e.body = t /\ e.status = d.status /\ e.httpStatus = d.httpStatus
  BY <1>1 DEF ContextFields
<1>3. /\ DOMAIN k.ctx = ContextFields /\ k.ctx.fields = ToSet(r.fields)
      /\ k.ctx.undefined = FALSE /\ k.ctx.httpStatus = d.httpStatus /\ k.ok \in BOOLEAN
      /\ k.ok => k.ctx.body \in Seq(Octets) /\ Starts(k.ctx.body, Coded(r))
      /\ k.ok /\ "chunked" \in ToSet(r.fields) => k.ctx.body = Coded(r)
  <2>1. e.body \in Seq(Octets) /\ Starts(e.body, Body(r))
    BY <1>2
  <2>2. JoinedTo(k, e, r)
    BY <1>1, <1>2, <2>1, Joined
  <2> QED BY <1>2, <2>2 DEF JoinedTo
<1>4. PICK g : g = gzdecompress(k.ctx.body, size)
  OBVIOUS
<1>5. a = IF d.httpStatus # "200" THEN Ok([d EXCEPT !.body = <<>>])
          ELSE IF ~k.ok \/ "gzip" \notin d.fields THEN k
          ELSE IF g.ok THEN Ok([k.ctx EXCEPT !.body = g.data]) ELSE Fail(k.ctx)
  BY <1>1, <1>4, Zenon DEF analyseBody
<1>6. CASE d.httpStatus # "200"
  <2>1. a.ok = TRUE /\ a.ctx = [d EXCEPT !.body = <<>>]
    BY <1>5, <1>6 DEF Ok
  <2> QED BY <1>6, <2>1 DEF ContextFields
<1>7. CASE d.httpStatus = "200" /\ (~k.ok \/ "gzip" \notin d.fields)
  <2>1. a = k
    BY <1>5, <1>7
  <2>2. ASSUME k.ok PROVE IsPage(k.ctx.body, r, size)
    <3>1. Coded(r) = Decoded(r)
      BY <1>7, <2>2, ResponseFacts
    <3>2. /\ k.ctx.body \in Seq(Octets) /\ Starts(k.ctx.body, Decoded(r))
          /\ "chunked" \in ToSet(r.fields) => k.ctx.body = Decoded(r)
      BY <1>3, <2>2, <3>1
    <3> QED BY <3>2 DEF IsPage
  <2> QED BY <1>2, <1>3, <2>1, <2>2
<1>8. CASE d.httpStatus = "200" /\ k.ok /\ "gzip" \in d.fields /\ g.ok
  <2>1. a = Ok([k.ctx EXCEPT !.body = g.data])
    BY <1>5, <1>8, Zenon
  <2>2. a.ok = TRUE /\ a.ctx = [k.ctx EXCEPT !.body = g.data]
    BY <2>1 DEF Ok
  <2>3. a.ctx.body = g.data /\ a.ctx.fields = ToSet(r.fields) /\ a.ctx.undefined = FALSE
    BY <1>2, <1>3, <2>2 DEF ContextFields
  <2>4. Coded(r) = <<"gz">> \o r.text \o <<"crc">>
    BY <1>8 DEF Coded
  <2>5. r.text \in Seq(Units)
    BY ProtocolAssumption
  <2>6. /\ g.data \in Seq(Octets) /\ Starts(g.data, r.text)
        /\ k.ctx.body = Coded(r) => g.data = r.text \/ Len(g.data) = size
    <3>1. PICK u, z : u = Coded(r) /\ z = k.ctx.body
      OBVIOUS
    <3>2. z \in Seq(Octets) /\ Starts(z, u) /\ g = gzdecompress(z, size) /\ u = <<"gz">> \o r.text \o <<"crc">>
      BY <1>3, <1>4, <1>8, <2>4, <3>1
    <3>3. PICK text : text = r.text /\ text \in Seq(Units) /\ u = <<"gz">> \o text \o <<"crc">>
      BY <2>5, <3>2
    <3>4. g.ok
      BY <1>8
    <3>5. IsUnpacked(g.data, text, size, z = u)
      BY <3>2, <3>3, <3>4, Unpacked
    <3> QED BY <3>1, <3>3, <3>5 DEF IsUnpacked
  <2>7. IsPage(a.ctx.body, r, size)
    <3>1. "chunked" \in ToSet(r.fields) => g.data = r.text \/ Len(g.data) = size
      BY <1>3, <1>8, <2>6
    <3>2. "gzip" \in ToSet(r.fields) /\ Decoded(r) = r.text
      BY <1>8, ResponseFacts
    <3> QED BY <2>3, <2>6, <3>1, <3>2 DEF IsPage
  <2> QED BY <2>2, <2>3, <2>7
<1>9. CASE d.httpStatus = "200" /\ k.ok /\ "gzip" \in d.fields /\ ~g.ok
  <2>1. a = Fail(k.ctx)
    BY <1>5, <1>9, Zenon
  <2>2. a.ok = FALSE /\ a.ctx = k.ctx
    BY <2>1 DEF Fail
  <2> QED BY <1>3, <2>2
<1> QED BY <1>6, <1>7, <1>8, <1>9

\* What the analysis of a response says.
IsAnalysis(a, r, size) ==
  /\ a.ctx.undefined = FALSE
  /\ a.ok => /\ a.ctx.fields = ToSet(r.fields)
             /\ a.ctx.httpStatus = "200" => IsPage(a.ctx.body, r, size)

\* The whole analysis, of what has come of a response with a header field.
LEMMA Analysed ==
  ASSUME NEW s, NEW w, NEW r, NEW n, NEW b, Received(s, w, r, n, b), n >= 1,
         NEW c, DOMAIN c = ContextFields, c.recvData = s, c.fields = {}, c.undefined = FALSE,
         NEW size \in Nat, NEW a, a = analyse(c, size)
  PROVE  IsAnalysis(a, r, size)
<1>1. PICK l, at, line, head :
        l = Len(s) /\ at = 3 * n + 1 /\ line = analyseFirstLine(c) /\ head = analyseHeader(line.ctx)
  OBVIOUS
<1>2. a = IF ~line.ok THEN line ELSE IF ~head.ok THEN head ELSE analyseBody(head.ctx, size)
  BY <1>1, Zenon DEF analyse
<1>3. line = IF 3 <= l THEN Ok([c EXCEPT !.httpStatus = r.status, !.firstLineLen = 3]) ELSE Fail(c)
  BY <1>1, FirstLine
<1>4. l \in Nat /\ n \in Nat /\ r \in Responses
  BY <1>1, LenProperties DEF Received
<1>5. CASE ~(3 <= l)
  <2>1. line.ok = FALSE /\ line.ctx = c
    BY <1>3, <1>5 DEF Fail
  <2> QED BY <1>2, <2>1 DEF IsAnalysis
<1>6. CASE 3 <= l
  <2>1. line.ok = TRUE /\ line.ctx = [c EXCEPT !.httpStatus = r.status, !.firstLineLen = 3]
    BY <1>3, <1>6 DEF Ok
  <2>2. PICK e : e = line.ctx
    OBVIOUS
  <2>3. /\ DOMAIN e = ContextFields /\ e.recvData = s /\ e.fields = {} /\ e.firstLineLen = 3
        /\ e.undefined = FALSE
    BY <2>1, <2>2 DEF ContextFields
  <2>4. /\ ~(at + 4 <= l) => head = Fail(e)
        /\ at + 4 <= l => \E d : head = Ok(d) /\ HeaderRead(d, e, r, at)
    BY <1>1, <2>2, <2>3, Header
  <2>5. CASE ~(at + 4 <= l)
    <3>1. head.ok = FALSE /\ head.ctx = e
      BY <2>4, <2>5 DEF Fail
    <3> QED BY <1>2, <2>1, <2>3, <3>1 DEF IsAnalysis
  <2>6. CASE at + 4 <= l
    <3>1. PICK d : head = Ok(d) /\ HeaderRead(d, e, r, at)
      BY <2>4, <2>6
    <3>2. head.ok = TRUE /\ head.ctx = d
      BY <3>1 DEF Ok
    <3>3. /\ DOMAIN d = ContextFields /\ d.recvData = s /\ d.undefined = FALSE
          /\ d.fields = ToSet(r.fields) /\ d.headerLen = at
      BY <2>3, <3>1 DEF HeaderRead
    <3>4. PICK pos, t : pos = at + 4 /\ t = substr(s, pos, l)
      OBVIOUS
    <3>5. BodyPos(d) = pos
      BY <3>3, <3>4 DEF BodyPos, DOUBLECRLF
    <3>6. t \in Seq(Octets) /\ Starts(t, b)
      <4>1. pos = 3 * n + 5 /\ pos <= l
        BY <1>1, <1>4, <2>6, <3>4
      <4> QED BY <1>1, <3>4, <4>1, BodyReceived
    <3>7. t = substr(d.recvData, BodyPos(d), Len(d.recvData)) /\ Starts(t, Body(r))
      BY <1>1, <3>3, <3>4, <3>5, <3>6 DEF Received
    <3>8. a = analyseBody(d, size)
      BY <1>2, <2>1, <3>2
    <3> QED BY <1>4, <3>3, <3>6, <3>7, <3>8, BodyAnalysed, ZenonT(60) DEF IsAnalysis
  <2> QED BY <2>5, <2>6
<1> QED BY <1>5, <1>6

\* Where find finds a pattern, at or after a position.
LEMMA FindRange ==
  ASSUME NEW pattern, NEW s, NEW from \in Nat, Len(s) \in Nat, Len(pattern) \in Nat
  PROVE  Find(pattern, s, from) = NPOS \/ Find(pattern, s, from) \in Nat
<1> DEFINE found == {o \in from .. Len(s) - Len(pattern) : SubSeq(s, o + 1, o + Len(pattern)) = pattern}
<1>1. Find(pattern, s, from) = IF found = {} THEN NPOS ELSE Least(found)
  BY Zenon DEF Find
<1>2. found \subseteq Nat
  OBVIOUS
<1> HIDE DEF found
<1>3. found # {} => Least(found) \in Nat
  BY <1>2, LeastNumber
<1> QED BY <1>1, <1>3

\* The last of several cookies is a cookie.
LEMMA CookieFound ==
  ASSUME NEW lines, Len(lines) \in Nat, DOMAIN lines = 1 .. Len(lines),
         ToSet(lines) \intersect Cookies # {}
  PROVE  CookieSize[LastCookie(lines)] \in Nat
<1> DEFINE T == {d \in 0 .. Len(lines) - 1 : lines[Len(lines) - d] \in Cookies}
           IsLast(i) == lines[i] \in Cookies /\ \A j \in i + 1 .. Len(lines) : lines[j] \notin Cookies
<1>1. PICK i \in 1 .. Len(lines) : lines[i] \in Cookies
  BY DEF ToSet
<1>2. T \subseteq Nat /\ T # {}
  <2>1. T \subseteq Nat
    OBVIOUS
  <2>2. PICK d : d = Len(lines) - i
    OBVIOUS
  <2>3. d \in 0 .. Len(lines) - 1 /\ Len(lines) - d = i
    BY <1>1, <2>2
  <2>4. lines[Len(lines) - d] \in Cookies
    BY <1>1, <2>3
  <2>5. d \in T
    BY <2>3, <2>4
  <2> QED BY <2>1, <2>5
<1>3. Least(T) \in T /\ \A d \in T : Least(T) <= d
  <2> HIDE DEF T
  <2> QED BY <1>2, LeastNumber
<1>4. PICK m : m = Least(T)
  OBVIOUS
<1>5. /\ m \in 0 .. Len(lines) - 1 /\ lines[Len(lines) - m] \in Cookies
      /\ \A d \in 0 .. Len(lines) - 1 : lines[Len(lines) - d] \in Cookies => m <= d
  BY <1>3, <1>4
<1>6. PICK k : k = Len(lines) - m /\ k \in 1 .. Len(lines)
  <2>1. m \in Int
    BY <1>5
  <2> QED BY <1>5, <2>1
<1>7. ASSUME NEW j \in k + 1 .. Len(lines), lines[j] \in Cookies PROVE FALSE
  <2>1. Len(lines) - j \in 0 .. Len(lines) - 1 /\ Len(lines) - (Len(lines) - j) = j
    BY <1>6, <1>7
  <2>2. m <= Len(lines) - j
    BY <1>5, <1>7, <2>1
  <2> QED BY <1>5, <1>6, <2>2
<1>8. \E l \in 1 .. Len(lines) : IsLast(l)
  BY <1>5, <1>6, <1>7
<1>9. LastCookie(lines) = lines[CHOOSE l \in 1 .. Len(lines) : IsLast(l)]
  BY DEF LastCookie
<1> HIDE DEF IsLast
<1>10. PICK l : l = (CHOOSE x \in 1 .. Len(lines) : IsLast(x)) /\ IsLast(l)
  BY <1>8
<1>11. LastCookie(lines) \in Cookies
  BY <1>9, <1>10 DEF IsLast
<1> QED BY <1>11, ProtocolAssumption

\* A part of a sequence is a sequence, whatever it holds.
LEMMA SubstrIsSeq ==
  ASSUME NEW s, Len(s) \in Nat, NEW from \in Int, NEW count \in Int, NEW t, t = substr(s, from, count)
  PROVE  Len(t) \in Nat /\ DOMAIN t = 1 .. Len(t)
<1>1. PICK to : to = IF from + count < Len(s) THEN from + count ELSE Len(s)
  OBVIOUS
<1>2. to \in Int /\ t = SubSeq(s, from + 1, to)
  BY <1>1 DEF substr
<1>3. PICK S : S = {s[i] : i \in from + 1 .. to}
  OBVIOUS
<1>4. \A i \in from + 1 .. to : s[i] \in S
  BY <1>3
<1>5. t \in Seq(S)
  BY <1>2, <1>4, SubSeqProperties
<1> QED BY <1>5, LenProperties

\* The cookie is that of the context, or one that has come.
LEMMA CookieKept ==
  ASSUME NEW c, DOMAIN c = ContextFields, Len(c.recvData) \in Nat, c.cookie \in Nat, NEW size,
         NEW line, line = analyseFirstLine(c), NEW head, head = analyseHeader(line.ctx),
         NEW body, body = analyseBody(head.ctx, size),
         NEW a, a = IF ~line.ok THEN line ELSE IF ~head.ok THEN head ELSE body
  PROVE  a.ctx.cookie \in Nat
<1>1. /\ DOMAIN line.ctx = ContextFields /\ line.ctx.cookie \in Nat /\ line.ctx.recvData = c.recvData
      /\ line.ok => line.ctx.firstLineLen \in Nat
  <2>1. PICK tail : tail = Find(CRLF, c.recvData, 0)
    OBVIOUS
  <2>2. line = IF tail = NPOS THEN Fail(c)
               ELSE Ok([c EXCEPT !.httpStatus = c.recvData[1], !.firstLineLen = tail + Len(CRLF)])
    BY <2>1, Zenon DEF analyseFirstLine
  <2>3. CASE tail = NPOS
    BY <2>2, <2>3 DEF Fail
  <2>4. CASE tail # NPOS
    <3>1. Len(CRLF) = 2
      BY DEF CRLF
    <3>2. tail \in Nat
      BY <2>1, <2>4, <3>1, FindRange
    <3>3. line.ctx = [c EXCEPT !.httpStatus = c.recvData[1], !.firstLineLen = tail + 2]
      BY <2>2, <2>4, <3>1 DEF Ok
    <3>4. tail + 2 \in Nat
      BY <3>2
    <3> QED BY <3>3, <3>4 DEF ContextFields
  <2> QED BY <2>3, <2>4
<1>2. ASSUME line.ok PROVE DOMAIN head.ctx = ContextFields /\ head.ctx.cookie \in Nat
  <2>1. PICK e, tail, lines :
          /\ e = line.ctx /\ tail = Find(DOUBLECRLF, e.recvData, e.firstLineLen)
          /\ lines = substr(e.recvData, e.firstLineLen, tail - e.firstLineLen + Len(DOUBLECRLF))
    OBVIOUS
  <2>2. PICK d : d = [e EXCEPT !.fields = e.fields \union (ToSet(lines) \intersect Fields), !.headerLen = tail]
    OBVIOUS
  <2>3. head = IF tail = NPOS THEN Fail(e) ELSE Ok(analyseCookie(d, lines))
    BY <2>1, <2>2, Zenon DEF analyseHeader
  <2>4. CASE tail = NPOS
    BY <1>1, <2>1, <2>3, <2>4 DEF Fail
  <2>5. CASE tail # NPOS
    <3>1. Len(DOUBLECRLF) = 4
      BY DEF DOUBLECRLF
    <3>2. tail \in Nat /\ e.firstLineLen \in Nat
      BY <1>1, <1>2, <2>1, <2>5, <3>1, FindRange
    <3>3. Len(lines) \in Nat /\ DOMAIN lines = 1 .. Len(lines)
      <4>1. tail - e.firstLineLen + Len(DOUBLECRLF) \in Int
        BY <3>1, <3>2
      <4> QED BY <1>1, <2>1, <3>2, <4>1, SubstrIsSeq
    <3>4. DOMAIN d = ContextFields /\ d.cookie \in Nat
      BY <1>1, <2>1, <2>2 DEF ContextFields
    <3>5. head.ctx = analyseCookie(d, lines)
      BY <2>3, <2>5 DEF Ok
    <3>6. CASE ToSet(lines) \intersect Cookies = {}
      <4>1. head.ctx = d
        BY <3>5, <3>6 DEF analyseCookie
      <4> QED BY <3>4, <4>1
    <3>7. CASE ToSet(lines) \intersect Cookies # {}
      <4>1. PICK size1 : size1 = CookieSize[LastCookie(lines)]
        OBVIOUS
      <4>2. size1 \in Nat
        BY <3>3, <3>7, <4>1, CookieFound
      <4>3. head.ctx = [d EXCEPT !.cookie = size1]
        BY <3>5, <3>7, <4>1 DEF analyseCookie
      <4> QED BY <3>4, <4>2, <4>3 DEF ContextFields
    <3> QED BY <3>6, <3>7
  <2> QED BY <2>4, <2>5
<1>3. ASSUME line.ok PROVE body.ctx.cookie \in Nat
  <2>1. PICK d, e, k, g :
          /\ d = head.ctx /\ e = [d EXCEPT !.body = substr(d.recvData, BodyPos(d), Len(d.recvData))]
          /\ k = analyseChunk(e) /\ g = gzdecompress(k.ctx.body, size)
    OBVIOUS
  <2>2. DOMAIN d = ContextFields /\ d.cookie \in Nat /\ DOMAIN e = ContextFields /\ e.cookie \in Nat
    BY <1>2, <1>3, <2>1 DEF ContextFields
  <2>3. DOMAIN k.ctx = ContextFields /\ k.ctx.cookie \in Nat
    <3>1. PICK loop, u : loop = JoinChunks(e.body) /\ u = (loop.result = "undefined")
      OBVIOUS
    <3>2. k = Ok(e) \/ k = Ok([e EXCEPT !.body = loop.joined]) \/ k = Fail([e EXCEPT !.undefined = u])
      <4>1. CASE "chunked" \notin e.fields
        BY <2>1, <4>1, Zenon DEF analyseChunk
      <4>2. CASE "chunked" \in e.fields /\ loop.result = "ok"
        BY <2>1, <3>1, <4>2, Zenon DEF analyseChunk
      <4>3. CASE "chunked" \in e.fields /\ loop.result # "ok"
        <5>1. k = Fail([e EXCEPT !.undefined = loop.result = "undefined"])
          BY <2>1, <3>1, <4>3, Zenon DEF analyseChunk
        <5> QED BY <3>1, <5>1, Zenon
      <4> QED BY <4>1, <4>2, <4>3
    <3>3. k.ctx = e \/ k.ctx = [e EXCEPT !.body = loop.joined] \/ k.ctx = [e EXCEPT !.undefined = u]
      BY <3>2 DEF Ok, Fail
    <3> QED BY <2>2, <3>3 DEF ContextFields
  <2>4. body = IF d.httpStatus # "200" THEN Ok([d EXCEPT !.body = <<>>])
               ELSE IF ~k.ok \/ "gzip" \notin d.fields THEN k
               ELSE IF g.ok THEN Ok([k.ctx EXCEPT !.body = g.data]) ELSE Fail(k.ctx)
    BY <2>1, Zenon DEF analyseBody
  <2>5. body.ctx = [d EXCEPT !.body = <<>>] \/ body.ctx = k.ctx \/ body.ctx = [k.ctx EXCEPT !.body = g.data]
    BY <2>4 DEF Ok, Fail
  <2> QED BY <2>2, <2>3, <2>5 DEF ContextFields
<1> QED BY <1>1, <1>2, <1>3

\* What the analysis keeps, whatever has come.
LEMMA Kept ==
  ASSUME NEW c, DOMAIN c = ContextFields, NEW size, NEW a, a = analyse(c, size)
  PROVE  /\ DOMAIN a.ctx = ContextFields /\ a.ctx.status = c.status
         /\ a.ok /\ a.ctx.httpStatus # "200" => a.ctx.undefined = c.undefined
         /\ Len(c.recvData) \in Nat /\ c.cookie \in Nat => a.ctx.cookie \in Nat
<1>1. PICK line, head, body :
        line = analyseFirstLine(c) /\ head = analyseHeader(line.ctx) /\ body = analyseBody(head.ctx, size)
  OBVIOUS
<1>2. a = IF ~line.ok THEN line ELSE IF ~head.ok THEN head ELSE body
  BY <1>1, Zenon DEF analyse
<1>3. DOMAIN line.ctx = ContextFields /\ line.ctx.status = c.status /\ line.ctx.undefined = c.undefined
  <2>1. PICK tail : tail = Find(CRLF, c.recvData, 0)
    OBVIOUS
  <2>2. line = IF tail = NPOS THEN Fail(c)
               ELSE Ok([c EXCEPT !.httpStatus = c.recvData[1], !.firstLineLen = tail + Len(CRLF)])
    BY <1>1, <2>1, Zenon DEF analyseFirstLine
  <2>3. line.ctx = c \/ line.ctx = [c EXCEPT !.httpStatus = c.recvData[1], !.firstLineLen = tail + Len(CRLF)]
    BY <2>2 DEF Fail, Ok
  <2> QED BY <2>3 DEF ContextFields
<1>4. DOMAIN head.ctx = ContextFields /\ head.ctx.status = c.status /\ head.ctx.undefined = c.undefined
  <2>1. PICK e, tail, lines :
          /\ e = line.ctx /\ tail = Find(DOUBLECRLF, e.recvData, e.firstLineLen)
          /\ lines = substr(e.recvData, e.firstLineLen, tail - e.firstLineLen + Len(DOUBLECRLF))
    OBVIOUS
  <2>2. PICK d : d = [e EXCEPT !.fields = e.fields \union (ToSet(lines) \intersect Fields), !.headerLen = tail]
    OBVIOUS
  <2>3. head = IF tail = NPOS THEN Fail(e) ELSE Ok(analyseCookie(d, lines))
    BY <1>1, <2>1, <2>2, Zenon DEF analyseHeader
  <2>4. head.ctx = e \/ head.ctx = analyseCookie(d, lines)
    BY <2>3 DEF Fail, Ok
  <2>5. DOMAIN d = ContextFields /\ d.status = c.status /\ d.undefined = c.undefined
    BY <1>3, <2>1, <2>2 DEF ContextFields
  <2>6. PICK f : f = analyseCookie(d, lines)
    OBVIOUS
  <2>7. DOMAIN f = ContextFields /\ f.status = c.status /\ f.undefined = c.undefined
    BY <2>5, <2>6 DEF analyseCookie, ContextFields
  <2> QED BY <1>3, <2>1, <2>4, <2>6, <2>7
<1>5. DOMAIN body.ctx = ContextFields /\ body.ctx.status = c.status /\ (body.ctx.httpStatus # "200" => body.ctx.undefined = c.undefined)
  <2>1. PICK d, e, k, g :
          /\ d = head.ctx /\ e = [d EXCEPT !.body = substr(d.recvData, BodyPos(d), Len(d.recvData))]
          /\ k = analyseChunk(e) /\ g = gzdecompress(k.ctx.body, size)
    OBVIOUS
  <2>2. DOMAIN e = ContextFields /\ e.status = c.status /\ e.httpStatus = d.httpStatus
    BY <1>4, <2>1 DEF ContextFields
  <2>3. DOMAIN k.ctx = ContextFields /\ k.ctx.status = c.status /\ k.ctx.httpStatus = d.httpStatus
    <3>1. PICK loop : loop = JoinChunks(e.body)
      OBVIOUS
    <3>2. PICK u : u = (loop.result = "undefined")
      OBVIOUS
    <3>3. CASE "chunked" \notin e.fields
      <4>1. k = Ok(e)
        BY <2>1, <3>3, Zenon DEF analyseChunk
      <4> QED BY <2>2, <4>1 DEF Ok
    <3>4. CASE "chunked" \in e.fields /\ loop.result = "ok"
      <4>1. k = Ok([e EXCEPT !.body = loop.joined])
        BY <2>1, <3>1, <3>4, Zenon DEF analyseChunk
      <4> QED BY <2>2, <4>1 DEF Ok, ContextFields
    <3>5. CASE "chunked" \in e.fields /\ loop.result # "ok"
      <4>1. k = Fail([e EXCEPT !.undefined = loop.result = "undefined"])
        BY <2>1, <3>1, <3>5, Zenon DEF analyseChunk
      <4>2. k = Fail([e EXCEPT !.undefined = u])
        BY <3>2, <4>1, Zenon
      <4> QED BY <2>2, <4>2 DEF Fail, ContextFields
    <3> QED BY <3>3, <3>4, <3>5
  <2>4. body = IF d.httpStatus # "200" THEN Ok([d EXCEPT !.body = <<>>])
               ELSE IF ~k.ok \/ "gzip" \notin d.fields THEN k
               ELSE IF g.ok THEN Ok([k.ctx EXCEPT !.body = g.data]) ELSE Fail(k.ctx)
    BY <1>1, <2>1, Zenon DEF analyseBody
  <2>5. CASE d.httpStatus # "200"
    <3>1. body.ctx = [d EXCEPT !.body = <<>>]
      BY <2>4, <2>5 DEF Ok
    <3> QED BY <1>4, <2>1, <3>1 DEF ContextFields
  <2>6. CASE d.httpStatus = "200"
    <3>1. body.ctx = k.ctx \/ body.ctx = [k.ctx EXCEPT !.body = g.data]
      BY <2>4, <2>6 DEF Ok, Fail
    <3> QED BY <2>3, <2>6, <3>1 DEF ContextFields
  <2> QED BY <2>5, <2>6
<1>6. /\ DOMAIN a.ctx = ContextFields /\ a.ctx.status = c.status
      /\ a.ok /\ a.ctx.httpStatus # "200" => a.ctx.undefined = c.undefined
  BY <1>2, <1>3, <1>4, <1>5
<1>7. Len(c.recvData) \in Nat /\ c.cookie \in Nat => a.ctx.cookie \in Nat
  BY <1>1, <1>2, CookieKept
<1> QED BY <1>6, <1>7

(***************************************************************************)
(* The crawl.                                                              *)
(***************************************************************************)
\* A request has four units, and those of its cookie.
LEMMA RequestFacts ==
  ASSUME NEW c, c.cookie \in Nat
  PROVE  \E S : /\ <<c.target, "Host", "Accept">> \in Seq(S) /\ <<"CRLF">> \in Seq(S)
                /\ CookieLine(c) \in Seq(S) /\ Len(CookieLine(c)) = c.cookie
                /\ Request(c) \in Seq(S) /\ Len(Request(c)) = 4 + c.cookie
<1>1. PICK S : S = {c.target, "Host", "Accept", "Cookie", "CRLF"}
  OBVIOUS
<1>2. PICK a, b, z : a = <<c.target, "Host", "Accept">> /\ z = <<"CRLF">> /\ b = CookieLine(c)
  OBVIOUS
<1>3. a \in Seq(S) /\ z \in Seq(S) /\ Len(a) = 3 /\ Len(z) = 1
  BY <1>1, <1>2
<1>4. b \in Seq(S) /\ Len(b) = c.cookie
  <2>1. b = [i \in 1 .. c.cookie |-> "Cookie"] /\ "Cookie" \in S
    BY <1>1, <1>2 DEF CookieLine
  <2>2. b \in [1 .. c.cookie -> S]
    BY <2>1
  <2>3. b \in Seq(S)
    BY <2>1, IsASeq
  <2> QED BY <2>1, <2>3, LenProperties
<1>5. a \o b \in Seq(S) /\ Len(a \o b) = Len(a) + Len(b)
  BY <1>3, <1>4, ConcatProperties
<1>6. a \o b \o z \in Seq(S) /\ Len(a \o b \o z) = Len(a) + Len(b) + Len(z)
  <2>1. PICK ab : ab = a \o b
    OBVIOUS
  <2>2. ab \o z \in Seq(S) /\ Len(ab \o z) = Len(ab) + Len(z)
    BY <1>3, <1>5, <2>1, ConcatProperties
  <2> QED BY <1>5, <2>1, <2>2
<1>7. Len(a) + Len(b) + Len(z) = 4 + c.cookie
  BY <1>3, <1>4
<1> QED BY <1>2, <1>3, <1>4, <1>6, <1>7 DEF Request

\* What the building of a request leaves alone.
SameCrawl(d, c) ==
  /\ DOMAIN d = ContextFields /\ d.undefined \in BOOLEAN /\ d.target = c.target /\ d.cookie = c.cookie
  /\ d.writeLen = c.writeLen /\ d.recvData = c.recvData /\ d.fields = c.fields

\* d is c with the text q in the buffer of the request.
HasPrinted(d, q) == d.requestData = q /\ d.requestLen = Len(q)

\* A line is printed behind what is there, if there is room for it.
LEMMA Printed ==
  ASSUME NEW c, DOMAIN c = ContextFields, c.undefined \in BOOLEAN, NEW line, NEW d, d = PrintLine(c, line)
  PROVE  /\ SameCrawl(d, c)
         /\ \A S, q : /\ q \in Seq(S) /\ line \in Seq(S) /\ c.requestLen = Len(q)
                      /\ SubSeq(c.requestData, 1, c.requestLen) = q
                      /\ Len(q) + Len(line) < MAX_HEAD_CMD_LEN
                      => HasPrinted(d, q \o line)
<1>1. PICK room, counted : room = MAX_HEAD_CMD_LEN - c.requestLen
                           /\ counted = [c EXCEPT !.requestLen = c.requestLen + Len(line)]
  OBVIOUS
<1>2. PICK data : data = SubSeq(c.requestData, 1, c.requestLen) \o substr(line, 0, room - 1)
  OBVIOUS
<1>3. /\ DOMAIN counted = ContextFields /\ counted.requestData = c.requestData
      /\ counted.requestLen = c.requestLen + Len(line) /\ SameCrawl(counted, c)
  BY <1>1 DEF ContextFields, SameCrawl
<1>4. d = IF room < 0 THEN [counted EXCEPT !.undefined = TRUE]
          ELSE IF room = 0 THEN counted ELSE [counted EXCEPT !.requestData = data]
  BY <1>1, <1>2, <1>3 DEF PrintLine
<1>5. SameCrawl(d, c)
  BY <1>3, <1>4 DEF SameCrawl, ContextFields
<1>6. ASSUME NEW S, NEW q, q \in Seq(S), line \in Seq(S), c.requestLen = Len(q),
             SubSeq(c.requestData, 1, c.requestLen) = q, Len(q) + Len(line) < MAX_HEAD_CMD_LEN
      PROVE  HasPrinted(d, q \o line)
  <2>1. Len(q) \in Nat /\ Len(line) \in Nat /\ MAX_HEAD_CMD_LEN \in Nat
    BY <1>6, LenProperties, ProtocolAssumption
  <2>2. room \in Nat /\ ~(room < 0) /\ room # 0 /\ Len(line) <= room - 1
    BY <1>1, <1>6, <2>1
  <2>3. substr(line, 0, room - 1) = line
    <3>1. substr(line, 0, room - 1) = SubSeq(line, 1, Len(line))
      BY <2>1, <2>2 DEF substr
    <3> QED BY <1>6, <3>1, SubSeqFull
  <2>4. data = q \o line
    BY <1>2, <1>6, <2>3
  <2>5. d = [counted EXCEPT !.requestData = q \o line]
    BY <1>4, <2>2, <2>4
  <2>6. d.requestData = q \o line /\ d.requestLen = Len(q) + Len(line)
    BY <1>3, <1>6, <2>5 DEF ContextFields
  <2>7. Len(q \o line) = Len(q) + Len(line)
    BY <1>6, ConcatProperties
  <2> QED BY <2>6, <2>7 DEF HasPrinted
<1> QED BY <1>5, <1>6

\* The request is what it should be, if it fits.
LEMMA Built ==
  ASSUME NEW c, DOMAIN c = ContextFields, c.undefined \in BOOLEAN, c.cookie \in Nat, c.requestLen = 0,
         NEW d, d = buildHttpRequestHeader(c)
  PROVE  SameCrawl(d, c) /\ (Fits(c) => HasPrinted(d, Request(c)))
<1>1. PICK a, b, z : a = <<c.target, "Host", "Accept">> /\ z = <<"CRLF">> /\ b = CookieLine(c)
  OBVIOUS
<1>2. PICK fixed, cookie : /\ fixed = PrintLine(c, a)
                           /\ cookie = IF c.cookie > 0 THEN PrintLine(fixed, b) ELSE fixed
  OBVIOUS
<1>3. d = PrintLine(cookie, z)
  BY <1>1, <1>2 DEF buildHttpRequestHeader
<1>4. SameCrawl(fixed, c)
  BY <1>2, Printed
<1>5. SameCrawl(cookie, c)
  <2>1. DOMAIN fixed = ContextFields /\ fixed.undefined \in BOOLEAN
    BY <1>4 DEF SameCrawl
  <2>2. SameCrawl(PrintLine(fixed, b), fixed)
    BY <2>1, Printed
  <2> QED BY <1>2, <1>4, <2>2 DEF SameCrawl
<1>6. SameCrawl(d, c)
  <2>1. DOMAIN cookie = ContextFields /\ cookie.undefined \in BOOLEAN
    BY <1>5 DEF SameCrawl
  <2>2. SameCrawl(d, cookie)
    BY <1>3, <2>1, Printed
  <2> QED BY <1>5, <2>2 DEF SameCrawl
<1>7. ASSUME Fits(c) PROVE HasPrinted(d, Request(c))
  <2>1. PICK S : /\ a \in Seq(S) /\ z \in Seq(S) /\ b \in Seq(S) /\ Len(b) = c.cookie
                 /\ Request(c) \in Seq(S) /\ Len(Request(c)) = 4 + c.cookie
    BY <1>1, RequestFacts
  <2>2. Len(a) = 3 /\ Len(z) = 1 /\ MAX_HEAD_CMD_LEN \in Nat /\ 4 + c.cookie < MAX_HEAD_CMD_LEN
    BY <1>1, <1>7, <2>1, ProtocolAssumption DEF Fits
  <2>3. HasPrinted(fixed, a)
    <3>1. <<>> \in Seq(S) /\ Len(<<>>) = 0 /\ SubSeq(c.requestData, 1, 0) = <<>> /\ <<>> \o a = a
      BY <2>1, SubSeqEmpty, ConcatEmptySeq
    <3>2. Len(<<>>) + Len(a) < MAX_HEAD_CMD_LEN
      BY <2>2, <3>1
    <3> QED BY <1>2, <2>1, <3>1, <3>2, Printed
  <2>4. PICK q : q = a \o b
    OBVIOUS
  <2>5. q \in Seq(S) /\ Len(q) = 3 + c.cookie /\ q \o z = Request(c)
    BY <1>1, <2>1, <2>2, <2>4, ConcatProperties DEF Request
  <2>6. HasPrinted(cookie, q)
    <3>1. CASE c.cookie > 0
      <4>1. DOMAIN fixed = ContextFields /\ fixed.undefined \in BOOLEAN
        BY <1>4 DEF SameCrawl
      <4>2. fixed.requestLen = Len(a) /\ SubSeq(fixed.requestData, 1, fixed.requestLen) = a
        BY <2>1, <2>3, SubSeqFull DEF HasPrinted
      <4>3. cookie = PrintLine(fixed, b) /\ Len(a) + Len(b) < MAX_HEAD_CMD_LEN
        BY <1>2, <2>1, <2>2, <3>1
      <4> QED BY <2>1, <2>4, <4>1, <4>2, <4>3, Printed
    <3>2. CASE ~(c.cookie > 0)
      <4>1. b = <<>>
        BY <2>1, <3>2, EmptySeq
      <4>2. q = a
        BY <2>1, <2>4, <4>1, ConcatEmptySeq
      <4> QED BY <1>2, <2>3, <3>2, <4>2
    <3> QED BY <3>1, <3>2
  <2>7. cookie.requestLen = Len(q) /\ SubSeq(cookie.requestData, 1, cookie.requestLen) = q
    BY <2>5, <2>6, SubSeqFull DEF HasPrinted
  <2>8. DOMAIN cookie = ContextFields /\ cookie.undefined \in BOOLEAN
    BY <1>5 DEF SameCrawl
  <2>9. Len(q) + Len(z) < MAX_HEAD_CMD_LEN
    BY <2>2, <2>5
  <2>10. HasPrinted(d, q \o z)
    BY <1>3, <2>1, <2>5, <2>7, <2>8, <2>9, Printed
  <2> QED BY <2>5, <2>10
<1> QED BY <1>6, <1>7

\* A request that has not been cut is what send finds.
LEMMA MemoryIs ==
  ASSUME NEW S, NEW q \in Seq(S), NEW c, HasPrinted(c, q)
  PROVE  Memory(c) = q
<1>1. PICK l : l = Len(q)
  OBVIOUS
<1>2. l \in Nat /\ q = [i \in 1 .. l |-> q[i]]
  BY <1>1, LenProperties
<1>3. Memory(c) = [i \in 1 .. l |-> IF i <= l THEN q[i] ELSE "behind"]
  BY <1>1 DEF Memory, HasPrinted
<1>4. Memory(c) = [i \in 1 .. l |-> q[i]]
  BY <1>2, <1>3
<1> QED BY <1>2, <1>4

\* Two neighbouring parts make one.
LEMMA Appended ==
  ASSUME NEW S, NEW s \in Seq(S), NEW i \in Nat, NEW j \in Nat, i <= j, j <= Len(s)
  PROVE  SubSeq(s, 1, i) \o SubSeq(s, i + 1, j) = SubSeq(s, 1, j)
<1>1. Len(s) \in Nat
  BY LenProperties
<1>2. 1 \in 1 .. Len(s) + 1 /\ i \in 1 - 1 .. Len(s) /\ j \in i .. Len(s)
  BY <1>1
<1> QED BY <1>2, ConcatAdjacentSubSeq

\* What is left of a rest.
LEMMA RestFacts ==
  ASSUME NEW S, NEW s \in Seq(S), NEW k \in Nat, k <= Len(s), NEW l, l = Len(s),
         NEW rest, rest = SubSeq(s, k + 1, l), NEW n \in Nat, 1 <= n, n <= Len(rest)
  PROVE  /\ k + n <= l /\ SubSeq(rest, 1, n) = SubSeq(s, k + 1, k + n)
         /\ SubSeq(rest, n + 1, Len(rest)) = SubSeq(s, k + n + 1, l)
<1>1. l \in Nat
  BY LenProperties
<1>2. Len(rest) = l - k
  <2>1. \A i \in k + 1 .. l : s[i] \in S
    <3>1. \A i \in k + 1 .. l : i \in 1 .. Len(s)
      BY <1>1
    <3> QED BY <3>1, ElementOfSeq
  <2>2. Len(rest) = IF k + 1 <= l THEN l - (k + 1) + 1 ELSE 0
    BY <1>1, <2>1, SubSeqProperties
  <2> QED BY <1>1, <2>2
<1>3. PICK i : i = k + 1
  OBVIOUS
<1>4. i \in 1 .. Len(s) /\ l \in 1 .. Len(s) /\ l - i + 1 = l - k /\ i + 1 - 1 = k + 1 /\ i + n - 1 = k + n
  BY <1>1, <1>2, <1>3
<1>5. k + n <= l
  BY <1>1, <1>2
<1>6. SubSeq(rest, 1, n) = SubSeq(s, k + 1, k + n)
  <2>1. 1 \in 1 .. l - i + 1 /\ n \in 1 .. l - i + 1
    BY <1>1, <1>2, <1>4
  <2>2. SubSeq(SubSeq(s, i, l), 1, n) = SubSeq(s, i + 1 - 1, i + n - 1)
    BY <1>4, <2>1, SubSeqOfSubSeq
  <2> QED BY <1>3, <1>4, <2>2
<1>7. CASE n = Len(rest)
  <2>1. SubSeq(rest, n + 1, Len(rest)) = <<>>
    BY <1>7, SubSeqEmpty
  <2>2. k + n + 1 \in Int /\ l \in Int /\ l < k + n + 1
    BY <1>1, <1>2, <1>7
  <2>3. SubSeq(s, k + n + 1, l) = <<>>
    BY <2>2, SubSeqEmpty
  <2> QED BY <1>5, <1>6, <2>1, <2>3
<1>8. CASE n # Len(rest)
  <2>1. PICK a, b : a = n + 1 /\ b = l - k
    OBVIOUS
  <2>2. a \in 1 .. l - i + 1 /\ b \in 1 .. l - i + 1 /\ i + a - 1 = k + n + 1 /\ i + b - 1 = l
    BY <1>1, <1>2, <1>3, <1>8, <2>1
  <2>3. SubSeq(SubSeq(s, i, l), a, b) = SubSeq(s, i + a - 1, i + b - 1)
    BY <1>4, <2>2, SubSeqOfSubSeq
  <2> QED BY <1>2, <1>3, <1>5, <1>6, <2>1, <2>2, <2>3
<1> QED BY <1>7, <1>8

\* Unit by unit a beginning, and as a prefix,
LEMMA StartsPrefix ==
  ASSUME NEW S, NEW t \in Seq(S), NEW s \in Seq(S), Starts(t, s)
  PROVE  IsPrefix(t, s)
<1>1. PICK u, k : u = SubSeq(s, 1, k) /\ k = Len(t)
  OBVIOUS
<1>2. k \in Nat /\ k <= Len(s) /\ Len(s) \in Nat /\ \A j \in 1 .. k : t[j] = s[j]
  BY <1>1, LenProperties DEF Starts, Agree
<1>3. k \in 0 .. Len(s)
  BY <1>2
<1>4. u \in Seq(S) /\ Len(u) = k /\ \A j \in 1 .. k : u[j] = s[j]
  BY <1>1, <1>3, Beginning
<1>5. Len(u) = Len(t) /\ \A j \in 1 .. Len(u) : u[j] = t[j]
  BY <1>1, <1>2, <1>4
<1>6. u = t
  BY <1>4, <1>5, SeqEqual
<1>7. SubSeq(t, 1, Len(t)) = t
  BY SubSeqFull
<1> QED BY <1>1, <1>2, <1>6, <1>7 DEF IsPrefix

\* is the same thing.
LEMMA BeginningPrefix ==
  ASSUME NEW S, NEW s \in Seq(S), NEW k \in 0 .. Len(s), NEW t, t = SubSeq(s, 1, k)
  PROVE  IsPrefix(t, s)
<1>1. t \in Seq(S) /\ Len(t) = k /\ Len(s) \in Nat
  BY Beginning, LenProperties
<1>2. SubSeq(t, 1, Len(t)) = t
  BY <1>1, SubSeqFull
<1> QED BY <1>1, <1>2 DEF IsPrefix

\* What has come of a response is the beginning of it.
LEMMA ReceivedSo ==
  ASSUME NEW r \in Responses, NEW w, w = Wire(r), NEW k \in 0 .. Len(w), NEW s, s = SubSeq(w, 1, k)
  PROVE  Received(s, w, r, Len(r.fields), Body(r))
<1>1. w \in Seq(Octets) /\ Len(r.fields) \in Nat /\ IsWire(w, r, Len(r.fields), Body(r))
  BY WireFacts
<1>2. s \in Seq(Octets) /\ Len(s) = k /\ \A i \in 1 .. k : s[i] = w[i]
  BY <1>1, Beginning
<1>3. Len(s) <= Len(w)
  BY <1>1, <1>2, LenProperties
<1> QED BY <1>1, <1>2, <1>3 DEF Received, Agree

\* The context of a crawl that begins.
Fresh(c) == c.recvData = <<>> /\ c.fields = {} /\ c.undefined = FALSE

\* Of its request nothing has been built or sent.
NothingSent(c) == c.requestLen = 0 /\ c.writeLen = 0

\* What becomes of a page.
Outcome(d, r, size) ==
  /\ DOMAIN d = ContextFields /\ d.status \in {"SENDING", "DONE", "PROTERR"}
  /\ d.cookie \in Nat
  /\ d.status = "SENDING" => Fresh(d) /\ NothingSent(d)
  /\ r.fields # <<>> =>
       /\ d.undefined = FALSE
       /\ d.status = "DONE" => /\ d.fields = ToSet(r.fields)
                               /\ d.httpStatus = "200" => IsPage(d.body, r, size)

\* A redirect begins a crawl afresh, a page has the fields and the text of its response.
LEMMA PageOutcome ==
  ASSUME NEW r \in Responses, NEW c, DOMAIN c = ContextFields, c.status = "SENDING",
         c.fields = {}, c.undefined = FALSE, c.cookie \in Nat, NEW w, NEW b,
         NEW s, s = c.recvData, NEW n, Received(s, w, r, n, b),
         httpMaxPageSize \in Nat, NEW d, d = onRecvOnePage(c)
  PROVE  Outcome(d, r, httpMaxPageSize)
<1>1. PICK a, page : a = analyse(c, httpMaxPageSize) /\ page = a.ctx
  OBVIOUS
<1>2. /\ DOMAIN page = ContextFields /\ page.status = "SENDING" /\ page.cookie \in Nat
      /\ a.ok /\ page.httpStatus # "200" => page.undefined = FALSE
  <2>1. Len(c.recvData) \in Nat
    BY LenProperties DEF Received
  <2> QED BY <1>1, <2>1, Kept
<1>3. r.fields # <<>> =>
        /\ page.undefined = FALSE
        /\ a.ok => /\ page.fields = ToSet(r.fields)
                   /\ page.httpStatus = "200" => IsPage(page.body, r, httpMaxPageSize)
  <2>1. ASSUME r.fields # <<>> PROVE IsAnalysis(a, r, httpMaxPageSize)
    <3>1. r.fields \in Seq(Fields) /\ n = Len(r.fields) /\ n \in Nat
      BY ResponseFacts DEF Received
    <3>2. n # 0
      BY <2>1, <3>1, EmptySeq
    <3>3. n >= 1
      BY <3>1, <3>2
    <3> QED BY <1>1, <3>3, Analysed
  <2> QED BY <1>1, <2>1 DEF IsAnalysis
<1>4. d = IF ~a.ok \/ page.httpStatus = "404" THEN [page EXCEPT !.status = "PROTERR"]
          ELSE IF page.httpStatus = "301" THEN doWithRedirect(page)
          ELSE [page EXCEPT !.status = "DONE"]
  BY <1>1, Zenon DEF onRecvOnePage
<1>5. CASE d = [page EXCEPT !.status = "PROTERR"]
  <2>1. DOMAIN d = ContextFields /\ d.status = "PROTERR" /\ d.undefined = page.undefined /\ d.cookie \in Nat
    BY <1>2, <1>5 DEF ContextFields
  <2> QED BY <1>3, <2>1 DEF Outcome
<1>6. CASE a.ok /\ d = [page EXCEPT !.status = "DONE"]
  <2>1. /\ DOMAIN d = ContextFields /\ d.status = "DONE" /\ d.undefined = page.undefined
        /\ d.fields = page.fields /\ d.httpStatus = page.httpStatus /\ d.body = page.body
        /\ d.cookie \in Nat
    BY <1>2, <1>6 DEF ContextFields
  <2> QED BY <1>3, <1>6, <2>1 DEF Outcome
<1>7. CASE a.ok /\ page.httpStatus = "301" /\ d = doWithRedirect(page)
  <2>1. CASE d = [page EXCEPT !.status = "PROTERR"]
    BY <1>5, <2>1
  <2>2. CASE d = init([page EXCEPT !.redirectDepth = page.redirectDepth + 1, !.target = "redirectUrl"])
    <3>1. PICK e : e = [page EXCEPT !.redirectDepth = page.redirectDepth + 1, !.target = "redirectUrl"]
      OBVIOUS
    <3>2. DOMAIN e = ContextFields /\ e.status = "SENDING" /\ e.undefined = FALSE /\ e.cookie \in Nat
      BY <1>2, <1>7, <3>1 DEF ContextFields
    <3>3. /\ DOMAIN d = ContextFields /\ d.status = "SENDING" /\ d.undefined = FALSE
          /\ d.recvData = <<>> /\ d.fields = {} /\ d.requestLen = 0 /\ d.writeLen = 0 /\ d.cookie \in Nat
      BY <2>2, <3>1, <3>2 DEF init, ContextFields
    <3> QED BY <3>3 DEF Outcome, Fresh, NothingSent
  <2> QED BY <1>7, <2>1, <2>2 DEF doWithRedirect
<1> QED BY <1>4, <1>5, <1>6, <1>7

\* A crawl that connects begins afresh,
Connecting == place = "connect" => Fresh(ctx) /\ NothingSent(ctx)

\* k units of the request of c have come, and all of it is what send finds.
HasSent(c, k) ==
  /\ k \in 0 .. Len(Request(c)) /\ got = SubSeq(Request(c), 1, k)
  /\ Memory(c) = Request(c) /\ c.requestLen = Len(Request(c))

\* what has been sent of a request that fits is a beginning of it,
Sending ==
  place = "send" =>
    /\ Fresh(ctx) /\ ctx.status = "SENDING" /\ ~closed
    /\ Fits(ctx) => HasSent(ctx, ctx.writeLen)

\* k units of the response w have come.
HasCome(w, k) ==
  /\ ctx.recvData = SubSeq(w, 1, k)
  /\ toSend = IF closed THEN <<>> ELSE SubSeq(w, k + 1, Len(w))

\* the answer comes after all of it,
Receiving ==
  place = "recv" =>
    /\ ctx.fields = {} /\ ctx.undefined = FALSE /\ ctx.status = "SENDING"
    /\ Fits(ctx) => got = Request(ctx)
    /\ \E k \in 0 .. Len(Wire(response)) : HasCome(Wire(response), k)

\* and a page has the fields and the text of its response.
Ended ==
  place = "end" /\ response.fields # <<>> =>
    /\ ctx.undefined = FALSE
    /\ ctx.status = "DONE" => /\ ctx.fields = ToSet(response.fields)
                              /\ ctx.httpStatus = "200" => IsPage(ctx.body, response, httpMaxPageSize)

\* The inductive invariant.
IInv ==
  /\ DOMAIN ctx = ContextFields /\ ctx.cookie \in Nat
  /\ place \in {"connect", "send", "recv", "end", "undefined"}
  /\ httpMaxPageSize \in PageSizes /\ response \in Responses /\ closed \in BOOLEAN
  /\ Connecting /\ Sending /\ Receiving /\ Ended

\* The invariant holds at first,
LEMMA InitHolds == Init => IInv
<1>1. SUFFICES ASSUME Init PROVE IInv
  OBVIOUS
<1>2. /\ DOMAIN ctx = ContextFields /\ Fresh(ctx) /\ NothingSent(ctx) /\ ctx.cookie \in Nat
  BY <1>1 DEF Init, NewContext, ContextFields, Fresh, NothingSent
<1>3. place = "connect" /\ httpMaxPageSize \in PageSizes /\ response \in Responses /\ closed = FALSE
  BY <1>1 DEF Init
<1> QED BY <1>2, <1>3 DEF IInv, Connecting, Sending, Receiving, Ended

\* What a request is, and whether it fits, depends on the url and the cookie.
LEMMA SameRequest ==
  ASSUME NEW c, NEW d, d.target = c.target, d.cookie = c.cookie
  PROVE  Request(d) = Request(c) /\ Fits(d) = Fits(c)
BY DEF Request, CookieLine, Fits

\* and is kept by every action: a connection begins with nothing sent,
LEMMA ConnectKeeps ==
  ASSUME IInv, Connect PROVE IInv'
<1>1. PICK d : d = buildHttpRequestHeader(ctx)
  OBVIOUS
<1>2. /\ place = "connect" /\ got' = <<>> /\ closed' = FALSE
      /\ response' = response /\ httpMaxPageSize' = httpMaxPageSize
      /\ ctx' = [d EXCEPT !.status = "SENDING"]
      /\ place' = IF ctx'.undefined THEN "undefined" ELSE "send"
  BY <1>1 DEF Connect
<1>3. /\ DOMAIN ctx = ContextFields /\ httpMaxPageSize \in PageSizes /\ response \in Responses
      /\ Fresh(ctx) /\ NothingSent(ctx) /\ ctx.cookie \in Nat
  BY <1>2 DEF IInv, Connecting
<1>4. SameCrawl(d, ctx) /\ (Fits(ctx) => HasPrinted(d, Request(ctx)))
  <2>1. ctx.undefined \in BOOLEAN /\ ctx.requestLen = 0
    BY <1>3 DEF Fresh, NothingSent
  <2> QED BY <1>1, <1>3, <2>1, Built
<1>5. /\ DOMAIN ctx' = ContextFields /\ ctx'.status = "SENDING" /\ ctx'.undefined \in BOOLEAN
      /\ ctx'.target = ctx.target /\ ctx'.cookie = ctx.cookie /\ ctx'.writeLen = 0
      /\ ctx'.recvData = <<>> /\ ctx'.fields = {}
      /\ ctx'.requestData = d.requestData /\ ctx'.requestLen = d.requestLen
  BY <1>2, <1>3, <1>4 DEF SameCrawl, ContextFields, Fresh, NothingSent
<1>6. Request(ctx') = Request(ctx) /\ Fits(ctx') = Fits(ctx)
  BY <1>5, SameRequest
<1>7. ASSUME Fits(ctx') PROVE HasSent(ctx, ctx.writeLen)'
  <2>1. PICK S, q : q = Request(ctx) /\ q \in Seq(S)
    BY <1>3, RequestFacts
  <2>2. HasPrinted(ctx', q)
    BY <1>4, <1>5, <1>6, <1>7, <2>1 DEF HasPrinted
  <2>3. Memory(ctx') = q /\ ctx'.requestLen = Len(q)
    BY <2>1, <2>2, MemoryIs DEF HasPrinted
  <2>4. 0 \in 0 .. Len(q) /\ SubSeq(q, 1, 0) = <<>>
    BY <2>1, LenProperties, SubSeqEmpty
  <2>5. Request(ctx') = q /\ ctx'.writeLen = 0 /\ got' = <<>>
    BY <1>2, <1>5, <1>6, <2>1
  <2> QED BY <2>3, <2>4, <2>5 DEF HasSent
<1>8. CASE ctx'.undefined
  <2>1. place' = "undefined"
    BY <1>2, <1>8
  <2> QED BY <1>2, <1>3, <1>5, <2>1 DEF IInv, Connecting, Sending, Receiving, Ended
<1>9. CASE ~ctx'.undefined
  <2>1. place' = "send" /\ ctx'.undefined = FALSE
    BY <1>2, <1>5, <1>9
  <2>2. Sending'
    BY <1>2, <1>5, <1>7, <2>1 DEF Sending, Fresh
  <2> QED BY <1>2, <1>3, <1>5, <2>1, <2>2 DEF IInv, Connecting, Receiving, Ended
<1> QED BY <1>8, <1>9

\* what was sent is a beginning of the request, and the answer begins with nothing come,
LEMMA TrySendKeeps ==
  ASSUME IInv, TrySend PROVE IInv'
<1>1. PICK n \in 1 .. ctx.requestLen - ctx.writeLen :
        /\ got' = got \o SubSeq(Memory(ctx), ctx.writeLen + 1, ctx.writeLen + n)
        /\ ctx' = [ctx EXCEPT !.writeLen = ctx.writeLen + n]
  BY DEF TrySend
<1>2. /\ place = "send" /\ httpMaxPageSize' = httpMaxPageSize /\ closed' = closed
  BY DEF TrySend
<1>3. /\ DOMAIN ctx = ContextFields /\ httpMaxPageSize \in PageSizes /\ response \in Responses
      /\ Fresh(ctx) /\ ctx.status = "SENDING" /\ closed = FALSE /\ ctx.cookie \in Nat
      /\ Fits(ctx) => HasSent(ctx, ctx.writeLen)
  BY <1>2 DEF IInv, Sending
<1>4. /\ DOMAIN ctx' = ContextFields /\ ctx'.status = "SENDING"
      /\ ctx'.target = ctx.target /\ ctx'.cookie = ctx.cookie /\ ctx'.writeLen = ctx.writeLen + n
      /\ ctx'.recvData = <<>> /\ ctx'.fields = {} /\ ctx'.undefined = FALSE
      /\ ctx'.requestData = ctx.requestData /\ ctx'.requestLen = ctx.requestLen
  BY <1>1, <1>3 DEF ContextFields, Fresh
<1>5. Request(ctx') = Request(ctx) /\ Fits(ctx') = Fits(ctx)
  BY <1>4, SameRequest
<1>6. Memory(ctx') = Memory(ctx)
  BY <1>4 DEF Memory
<1>7. ASSUME Fits(ctx') PROVE HasSent(ctx, ctx.writeLen)'
  <2>1. PICK S, q : q = Request(ctx) /\ q \in Seq(S)
    BY <1>3, RequestFacts
  <2>2. PICK i, j, l : i = ctx.writeLen /\ j = i + n /\ l = Len(q)
    OBVIOUS
  <2>3. i \in 0 .. l /\ got = SubSeq(q, 1, i) /\ Memory(ctx) = q /\ ctx.requestLen = l
    BY <1>3, <1>5, <1>7, <2>1, <2>2 DEF HasSent
  <2>4. l \in Nat /\ i \in Nat /\ j \in Nat /\ i <= j /\ j <= l /\ j \in 0 .. l
    <3>1. l \in Nat /\ n \in 1 .. l - i
      BY <1>1, <2>1, <2>2, <2>3, LenProperties
    <3> QED BY <2>2, <2>3, <3>1
  <2>5. got' = SubSeq(q, 1, j)
    <3>1. got' = SubSeq(q, 1, i) \o SubSeq(q, i + 1, j)
      BY <1>1, <2>2, <2>3
    <3> QED BY <2>1, <2>2, <2>4, <3>1, Appended
  <2>6. Request(ctx') = q /\ ctx'.writeLen = j /\ Memory(ctx') = q /\ ctx'.requestLen = l
    BY <1>4, <1>5, <1>6, <2>1, <2>2, <2>3
  <2> QED BY <2>2, <2>4, <2>5, <2>6 DEF HasSent
<1>8. CASE ctx'.writeLen = ctx.requestLen
  <2>1. PICK r \in Responses : response' = r /\ toSend' = Wire(r) /\ place' = "recv"
    BY <1>8 DEF TrySend
  <2>2. PICK w : w = Wire(r)
    OBVIOUS
  <2>3. w \in Seq(Octets)
    BY <2>2, WireFacts
  <2>4. 0 \in 0 .. Len(w) /\ SubSeq(w, 1, 0) = <<>> /\ SubSeq(w, 0 + 1, Len(w)) = w
    BY <2>3, LenProperties, SubSeqEmpty, SubSeqFull
  <2>5. closed' = FALSE /\ toSend' = SubSeq(w, 0 + 1, Len(w)) /\ ctx'.recvData = SubSeq(w, 1, 0)
    BY <1>2, <1>3, <1>4, <2>1, <2>2, <2>4
  <2>6. w = Wire(response')
    BY <2>1, <2>2
  <2>7. \E k \in 0 .. Len(Wire(response')) : HasCome(Wire(response), k)'
    BY <2>4, <2>5, <2>6 DEF HasCome
  <2>8. ASSUME Fits(ctx') PROVE got' = Request(ctx')
    <3>1. PICK S, q : q = Request(ctx') /\ q \in Seq(S)
      BY <1>3, <1>5, RequestFacts
    <3>2. got' = SubSeq(q, 1, ctx'.writeLen) /\ ctx'.requestLen = Len(q)
      BY <1>7, <2>8, <3>1 DEF HasSent
    <3>3. got' = SubSeq(q, 1, Len(q))
      BY <1>4, <1>8, <3>2
    <3> QED BY <3>1, <3>3, SubSeqFull
  <2>9. Receiving'
    BY <1>4, <2>7, <2>8 DEF Receiving
  <2> QED BY <1>2, <1>3, <1>4, <2>1, <2>9 DEF IInv, Connecting, Sending, Ended
<1>9. CASE ctx'.writeLen # ctx.requestLen
  <2>1. place' = "send" /\ response' = response
    BY <1>2, <1>9 DEF TrySend
  <2>2. Sending'
    BY <1>2, <1>3, <1>4, <1>7 DEF Sending, Fresh
  <2> QED BY <1>2, <1>3, <1>4, <2>1, <2>2 DEF IInv, Connecting, Receiving, Ended
<1> QED BY <1>8, <1>9

\* a peer that closes sends no more,
LEMMA CloseKeeps ==
  ASSUME IInv, Close PROVE IInv'
<1>1. /\ place = "recv" /\ place' = place /\ closed' = TRUE /\ toSend' = <<>> /\ ctx' = ctx
      /\ got' = got /\ response' = response /\ httpMaxPageSize' = httpMaxPageSize
  BY DEF Close
<1>2. PICK k \in 0 .. Len(Wire(response)) : HasCome(Wire(response), k)
  BY <1>1 DEF IInv, Receiving
<1>3. HasCome(Wire(response), k)'
  BY <1>1, <1>2 DEF HasCome
<1>4. \E m \in 0 .. Len(Wire(response')) : HasCome(Wire(response), m)'
  BY <1>1, <1>2, <1>3
<1>5. Receiving'
  BY <1>1, <1>4 DEF IInv, Receiving
<1> QED BY <1>1, <1>5 DEF IInv, Connecting, Sending, Ended

\* What has come is a beginning of the response, before and after a recv.
LEMMA RecvFacts ==
  ASSUME IInv, place = "recv", NEW n \in Nat, n >= 1, n <= Len(toSend)
  PROVE  /\ ~closed
         /\ \E k \in 0 .. Len(Wire(response)) :
              /\ ctx.recvData \o SubSeq(toSend, 1, n) = SubSeq(Wire(response), 1, k)
              /\ SubSeq(toSend, n + 1, Len(toSend)) = SubSeq(Wire(response), k + 1, Len(Wire(response)))
<1>1. PICK w, l : w = Wire(response) /\ l = Len(w)
  OBVIOUS
<1>2. PICK k \in 0 .. l : HasCome(w, k)
  BY <1>1 DEF IInv, Receiving
<1>3. w \in Seq(Octets) /\ l \in Nat
  BY <1>1, WireFacts, LenProperties DEF IInv
<1>4. ~closed
  <2>1. SUFFICES ASSUME closed PROVE FALSE
    OBVIOUS
  <2>2. toSend = <<>>
    BY <1>2, <2>1 DEF HasCome
  <2>3. Len(toSend) = 0
    BY <2>2
  <2> QED BY <2>3
<1>5. ctx.recvData = SubSeq(w, 1, k) /\ toSend = SubSeq(w, k + 1, l)
  BY <1>1, <1>2, <1>4 DEF HasCome
<1>6. k \in Nat /\ k <= Len(w)
  BY <1>1, <1>3
<1>7. /\ k + n <= l /\ SubSeq(toSend, 1, n) = SubSeq(w, k + 1, k + n)
      /\ SubSeq(toSend, n + 1, Len(toSend)) = SubSeq(w, k + n + 1, l)
  BY <1>1, <1>3, <1>5, <1>6, RestFacts
<1>8. PICK j : j = k + n
  OBVIOUS
<1>9. j \in Nat /\ k <= j /\ j <= Len(w) /\ j \in 0 .. Len(w)
  BY <1>1, <1>3, <1>6, <1>7, <1>8
<1>10. SubSeq(w, 1, k) \o SubSeq(w, k + 1, j) = SubSeq(w, 1, j)
  BY <1>3, <1>6, <1>9, Appended
<1> QED BY <1>1, <1>4, <1>5, <1>7, <1>8, <1>9, <1>10

\* The analysis of what has come.
LEMMA OnRecvOnePageKeeps ==
  ASSUME IInv, place = "recv", NEW c, DOMAIN c = ContextFields, c.status = "SENDING",
         c.fields = {}, c.undefined = FALSE, c.cookie \in Nat,
         NEW k \in 0 .. Len(Wire(response)), c.recvData = SubSeq(Wire(response), 1, k),
         OnRecvOnePage(c)
  PROVE  IInv'
<1>1. PICK d, r : d = onRecvOnePage(c) /\ r = response
  OBVIOUS
<1>2. /\ ctx' = d /\ place' = IF d.status \in {"DONE", "PROTERR"} THEN "end" ELSE "connect"
      /\ httpMaxPageSize' = httpMaxPageSize /\ response' = r /\ closed' = closed
  BY <1>1 DEF OnRecvOnePage
<1>3. r \in Responses /\ httpMaxPageSize \in PageSizes /\ httpMaxPageSize \in Nat /\ closed \in BOOLEAN
  BY <1>1, ProtocolAssumption DEF IInv
<1>4. PICK w, s : w = Wire(r) /\ s = c.recvData
  OBVIOUS
<1>5. Received(s, w, r, Len(r.fields), Body(r))
  BY <1>1, <1>3, <1>4, ReceivedSo
<1>6. Outcome(d, r, httpMaxPageSize)
  BY <1>1, <1>3, <1>4, <1>5, PageOutcome
<1>7. CASE d.status = "SENDING"
  <2>1. place' = "connect" /\ Fresh(d) /\ NothingSent(d) /\ DOMAIN d = ContextFields /\ d.cookie \in Nat
    BY <1>2, <1>6, <1>7 DEF Outcome
  <2> QED BY <1>2, <1>3, <2>1 DEF IInv, Connecting, Sending, Receiving, Ended, Fresh, NothingSent
<1>8. CASE d.status # "SENDING"
  <2>1. place' = "end" /\ DOMAIN d = ContextFields /\ d.cookie \in Nat
    BY <1>2, <1>6, <1>8 DEF Outcome
  <2>2. Ended'
    BY <1>2, <1>6 DEF Ended, Outcome
  <2> QED BY <1>2, <1>3, <2>1, <2>2 DEF IInv, Connecting, Sending, Receiving
<1> QED BY <1>7, <1>8

\* what has come grows, or is analysed,
LEMMA RecvKeeps ==
  ASSUME IInv, Recv PROVE IInv'
<1>1. PICK n \in 1 .. MaxRecv : \E more :
        /\ place = "recv" /\ n <= Len(toSend) /\ toSend' = SubSeq(toSend, n + 1, Len(toSend))
        /\ more = [ctx EXCEPT !.recvData = ctx.recvData \o SubSeq(toSend, 1, n)]
        /\ IF TooMuch(n) THEN OnRecvOnePage(more)
           ELSE ctx' = more /\ UNCHANGED <<place, httpMaxPageSize, got, response, closed>>
  BY DEF Recv
<1>2. PICK more :
        /\ place = "recv" /\ n <= Len(toSend) /\ toSend' = SubSeq(toSend, n + 1, Len(toSend))
        /\ more = [ctx EXCEPT !.recvData = ctx.recvData \o SubSeq(toSend, 1, n)]
        /\ IF TooMuch(n) THEN OnRecvOnePage(more)
           ELSE ctx' = more /\ UNCHANGED <<place, httpMaxPageSize, got, response, closed>>
  BY <1>1
<1>3. n \in Nat /\ n >= 1
  BY <1>2, ProtocolAssumption
<1>4. PICK w : w = Wire(response)
  OBVIOUS
<1>5. PICK k \in 0 .. Len(w) : /\ ctx.recvData \o SubSeq(toSend, 1, n) = SubSeq(w, 1, k)
                               /\ SubSeq(toSend, n + 1, Len(toSend)) = SubSeq(w, k + 1, Len(w))
  BY <1>2, <1>3, <1>4, RecvFacts
<1>6. closed = FALSE
  BY <1>2, <1>3, RecvFacts
<1>7. /\ DOMAIN ctx = ContextFields /\ ctx.fields = {} /\ ctx.undefined = FALSE /\ ctx.status = "SENDING"
      /\ ctx.cookie \in Nat /\ (Fits(ctx) => got = Request(ctx))
  BY <1>1 DEF IInv, Receiving
<1>8. /\ DOMAIN more = ContextFields /\ more.fields = {} /\ more.undefined = FALSE
      /\ more.status = "SENDING" /\ more.recvData = SubSeq(w, 1, k)
      /\ more.target = ctx.target /\ more.cookie = ctx.cookie /\ more.cookie \in Nat
  BY <1>2, <1>5, <1>7 DEF ContextFields
<1>9. CASE TooMuch(n)
  BY <1>2, <1>4, <1>8, <1>9, OnRecvOnePageKeeps
<1>10. CASE ~TooMuch(n)
  <2>1. /\ ctx' = more /\ place' = "recv" /\ httpMaxPageSize' = httpMaxPageSize /\ got' = got
        /\ response' = response /\ closed' = FALSE /\ toSend' = SubSeq(w, k + 1, Len(w))
    BY <1>2, <1>5, <1>6, <1>10
  <2>2. HasCome(Wire(response), k)'
    BY <1>4, <1>8, <2>1 DEF HasCome
  <2>3. \E m \in 0 .. Len(Wire(response')) : HasCome(Wire(response), m)'
    BY <1>4, <2>1, <2>2
  <2>4. Request(ctx') = Request(ctx) /\ Fits(ctx') = Fits(ctx)
    BY <1>8, <2>1, SameRequest
  <2>5. Receiving'
    BY <1>7, <1>8, <2>1, <2>3, <2>4 DEF Receiving
  <2> QED BY <1>8, <2>1, <2>5 DEF IInv, Connecting, Sending, Ended
<1> QED BY <1>9, <1>10

\* at the end it is analysed,
LEMMA RecvEndKeeps ==
  ASSUME IInv, RecvEnd PROVE IInv'
<1>1. place = "recv" /\ OnRecvOnePage(ctx)
  BY DEF RecvEnd
<1>2. /\ DOMAIN ctx = ContextFields /\ ctx.fields = {} /\ ctx.undefined = FALSE /\ ctx.status = "SENDING"
      /\ ctx.cookie \in Nat
      /\ \E k \in 0 .. Len(Wire(response)) : HasCome(Wire(response), k)
  BY <1>1 DEF IInv, Receiving
<1>3. PICK k \in 0 .. Len(Wire(response)) : ctx.recvData = SubSeq(Wire(response), 1, k)
  BY <1>2 DEF HasCome
<1> QED BY <1>1, <1>2, <1>3, OnRecvOnePageKeeps

\* and a timeout begins afresh, or ends.
LEMMA OnTimeoutKeeps ==
  ASSUME IInv, OnTimeout PROVE IInv'
<1>1. PICK tried : /\ tried = [ctx EXCEPT !.retry = ctx.retry + 1]
                   /\ ctx' = IF ctx.retry + 1 < MaxRetry THEN init(tried)
                             ELSE [tried EXCEPT !.status = "TIMEOUT", !.recvData = <<>>]
                   /\ place' = IF ctx.retry + 1 < MaxRetry THEN "connect" ELSE "end"
  BY DEF OnTimeout
<1>2. /\ place \in {"send", "recv"} /\ httpMaxPageSize' = httpMaxPageSize /\ response' = response
      /\ closed' = closed
  BY DEF OnTimeout, peer
<1>3. /\ DOMAIN ctx = ContextFields /\ ctx.undefined = FALSE /\ ctx.cookie \in Nat
      /\ httpMaxPageSize \in PageSizes /\ response \in Responses /\ closed \in BOOLEAN
  BY <1>2 DEF IInv, Sending, Receiving, Fresh
<1>4. DOMAIN tried = ContextFields /\ tried.undefined = FALSE /\ tried.cookie \in Nat
  BY <1>1, <1>3 DEF ContextFields
<1>5. CASE ctx.retry + 1 < MaxRetry
  <2>1. place' = "connect" /\ ctx' = init(tried)
    BY <1>1, <1>5
  <2>2. DOMAIN ctx' = ContextFields /\ ctx'.undefined = FALSE /\ ctx'.cookie \in Nat
        /\ ctx'.recvData = <<>> /\ ctx'.fields = {} /\ ctx'.requestLen = 0 /\ ctx'.writeLen = 0
    BY <1>4, <2>1 DEF init, ContextFields
  <2> QED BY <1>2, <1>3, <2>1, <2>2 DEF IInv, Connecting, Sending, Receiving, Ended, Fresh, NothingSent
<1>6. CASE ~(ctx.retry + 1 < MaxRetry)
  <2>1. place' = "end" /\ ctx' = [tried EXCEPT !.status = "TIMEOUT", !.recvData = <<>>]
    BY <1>1, <1>6
  <2>2. /\ DOMAIN ctx' = ContextFields /\ ctx'.undefined = FALSE /\ ctx'.status = "TIMEOUT"
        /\ ctx'.cookie \in Nat
    BY <1>4, <2>1 DEF ContextFields
  <2> QED BY <1>2, <1>3, <2>1, <2>2 DEF IInv, Connecting, Sending, Receiving, Ended
<1> QED BY <1>5, <1>6

\* So it is kept by every step.
LEMMA NextKeeps == IInv /\ [Next]_vars => IInv'
<1>1. SUFFICES ASSUME IInv, [Next]_vars PROVE IInv'
  OBVIOUS
<1>2. CASE Connect
  BY <1>1, <1>2, ConnectKeeps
<1>3. CASE TrySend
  BY <1>1, <1>3, TrySendKeeps
<1>4. CASE Close
  BY <1>1, <1>4, CloseKeeps
<1>5. CASE Recv
  BY <1>1, <1>5, RecvKeeps
<1>6. CASE RecvEnd
  BY <1>1, <1>6, RecvEndKeeps
<1>7. CASE OnTimeout
  BY <1>1, <1>7, OnTimeoutKeeps
<1>8. CASE UNCHANGED vars
  BY <1>1, <1>8 DEF IInv, Connecting, Sending, Receiving, Ended, HasCome, HasSent, vars
<1> QED BY <1>1, <1>2, <1>3, <1>4, <1>5, <1>6, <1>7, <1>8 DEF Next

\* For any responses, cut anywhere and broken off anywhere, the invariant holds: what
\* has come is a beginning of the response, and what has been sent of a request that
\* fits its buffer a beginning of it, whatever attempts and redirects came before.
THEOREM HttpInvariance == Spec => []IInv
<1> QED BY InitHolds, NextKeeps, PTL DEF Spec

\* What the peer gets is the request for the present url with the present cookie, from
\* its beginning, however trySend was cut short and whatever was sent before, as long
\* as the request with that cookie fits the buffer.
THEOREM RequestsAreOfTheUrl == Spec => []RequestIsOfTheUrl
<1>1. IInv => RequestIsOfTheUrl
  <2>1. SUFFICES ASSUME IInv, Fits(ctx)
                 PROVE  /\ place = "send" => IsPrefix(got, Request(ctx))
                        /\ place = "recv" => got = Request(ctx)
    BY DEF RequestIsOfTheUrl
  <2>2. ASSUME place = "send" PROVE IsPrefix(got, Request(ctx))
    <3>1. PICK S : Request(ctx) \in Seq(S)
      BY <2>1, RequestFacts DEF IInv
    <3>2. ctx.writeLen \in 0 .. Len(Request(ctx)) /\ got = SubSeq(Request(ctx), 1, ctx.writeLen)
      BY <2>1, <2>2 DEF IInv, Sending, HasSent
    <3> QED BY <3>1, <3>2, BeginningPrefix
  <2>3. place = "recv" => got = Request(ctx)
    BY <2>1 DEF IInv, Receiving
  <2> QED BY <2>2, <2>3
<1> QED BY <1>1, HttpInvariance, PTL

\* A page is analysed by the fields of its own response, not by those of a redirect
\* or an attempt before it, nor by anything in its body.
THEOREM FieldsAreOfTheResponse == Spec => []FieldsOfTheResponse
<1>1. IInv => FieldsOfTheResponse
  BY DEF IInv, Ended, FieldsOfTheResponse
<1> QED BY <1>1, HttpInvariance, PTL

\* A page is a beginning of the text that was sent, plain or in gzip, and of the coded
\* text in any other coding, however it was cut into chunks, received, and broken off.
THEOREM PagesAreText == Spec => []PageIsText
<1>1. IInv => PageIsText
  <2>1. SUFFICES ASSUME IInv, HasPage PROVE IsPrefix(ctx.body, Decoded(response))
    BY DEF PageIsText
  <2>2. ctx.body \in Seq(Octets) /\ Starts(ctx.body, Decoded(response))
    BY <2>1 DEF IInv, Ended, IsPage, HasPage
  <2>3. Decoded(response) \in Seq(Octets)
    BY <2>1, ResponseFacts DEF IInv
  <2> QED BY <2>2, <2>3, StartsPrefix
<1> QED BY <1>1, HttpInvariance, PTL

\* In chunks it is all of that, unless decompression fills its buffer, and no size of
\* a chunk is ever read from a line without digits.
THEOREM ChunkedPagesAreWhole == Spec => []ChunkedIsWhole
<1>1. IInv => ChunkedIsWhole
  <2>1. SUFFICES ASSUME IInv, place = "end", response.fields # <<>> PROVE ChunkedIsWhole
    BY DEF ChunkedIsWhole
  <2>2. /\ ctx.undefined = FALSE
        /\ ctx.status = "DONE" => /\ ctx.fields = ToSet(response.fields)
                                  /\ ctx.httpStatus = "200" => IsPage(ctx.body, response, httpMaxPageSize)
    BY <2>1 DEF IInv, Ended
  <2> QED BY <2>2 DEF ChunkedIsWhole, IsPage, HasPage
<1> QED BY <1>1, HttpInvariance, PTL
=============================================================================
