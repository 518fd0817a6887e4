-------------------------- MODULE ExtractorProofs ---------------------------
(***************************************************************************)
(* Theorems about the extractor: what it makes of the links of a page      *)
(* (PageLinks), for all texts and all sizes of the buffers, and how pages  *)
(* pass through it (ExtractorWorkerView), for any number of pages.         *)
(*                                                                         *)
(* The first part is about operators on sequences that the source writes   *)
(* as loops: each is shown to return what a caller may rely on, from the   *)
(* sequences at the bottom to the spelling of a URL at the top.  A loop is *)
(* a recursive function of the number of its rounds, and what is proved of *)
(* it by induction is proved by a least number of rounds for which it      *)
(* would fail (NoLeast).                                                   *)
(***************************************************************************)
EXTENDS ExtractorWorkerView, PageLinks, TLAPS, SequenceTheorems, FiniteSetTheorems,
        WellFoundedInduction

(***************************************************************************)
(* Natural numbers.                                                        *)
(***************************************************************************)
\* A set of natural numbers has a least one.
LEMMA MinIs ==
  ASSUME NEW T, T \subseteq Nat, T # {}
  PROVE  Min(T) \in T /\ \A n \in T : Min(T) <= n
<1> DEFINE R == OpToRel(<, Nat)
<1>1. PICK m \in T : \A n \in T : ~(<<n, m>> \in R)
  BY NatLessThanWellFounded, WFMin
<1>2. \A n \in T : n < m => <<n, m>> \in R
  BY DEF OpToRel
<1>3. \A n \in T : n \in Nat /\ m \in Nat /\ ~(n < m)
  BY <1>1, <1>2
<1>4. \A n \in T : m <= n
  BY <1>3
<1> QED BY <1>4 DEF Min

\* And if it has a bound, a greatest one.
LEMMA MaxIs ==
  ASSUME NEW T, NEW N \in Nat, T \subseteq 0..N, T # {}
  PROVE  Max(T) \in T /\ \A n \in T : n <= Max(T)
<1> DEFINE D == {N - n : n \in T}
           m == N - Min(D)
<1>1. D \subseteq Nat /\ D # {}
  <2>1. \A n \in T : n \in Int /\ 0 <= n /\ n <= N
    OBVIOUS
  <2>2. \A n \in T : N - n \in Nat
    BY <2>1
  <2> QED BY <2>2
<1>2. Min(D) \in D /\ \A d \in D : Min(D) <= d
  BY <1>1, MinIs
<1>3. m \in T
  BY <1>2
<1>4. \A n \in T : n <= m
  <2> TAKE n \in T
  <2>1. N - n \in D /\ n \in Nat
    OBVIOUS
  <2>2. Min(D) <= N - n /\ Min(D) \in Nat
    BY <2>1, <1>2, <1>1
  <2> HIDE DEF D
  <2> QED BY <2>1, <2>2
<1> HIDE DEF m, D
<1> QED BY <1>3, <1>4 DEF Max

\* Induction: what holds of 0, and of n + 1 if it holds of n, holds of every number,
\* since the set of the numbers it does not hold of has no least one.
LEMMA NoLeast ==
  ASSUME NEW T, T \subseteq Nat, 0 \notin T, \A n \in Nat : n + 1 \in T => n \in T
  PROVE  T = {}
<1>1. SUFFICES ASSUME T # {} PROVE FALSE
  OBVIOUS
<1>2. Min(T) \in T /\ Min(T) \in Nat /\ \A n \in T : Min(T) <= n
  BY <1>1, MinIs
<1>3. Min(T) # 0
  BY <1>2
<1>4. Min(T) - 1 \in Nat /\ (Min(T) - 1) + 1 = Min(T)
  BY <1>2, <1>3
<1>5. Min(T) - 1 \in T
  BY <1>2, <1>4
<1> QED BY <1>2, <1>4, <1>5

(***************************************************************************)
(* The first and the last of the characters looked for.                    *)
(***************************************************************************)
LEMMA SkipIs ==
  ASSUME NEW s \in Seq(Char), NEW chars, NEW i \in 1..Len(s) + 1
  PROVE  /\ Skip(i, chars, s) \in i..Len(s) + 1
         /\ \A j \in i..Skip(i, chars, s) - 1 : s[j] \in chars
         /\ Skip(i, chars, s) <= Len(s) => s[Skip(i, chars, s)] \notin chars
<1> DEFINE T == {j \in i..Len(s) : s[j] \notin chars} \union {Len(s) + 1}
<1> DEFINE m == Skip(i, chars, s)
<1>1. T \subseteq Nat /\ T # {} /\ m = Min(T)
  BY DEF Skip
<1>2. m \in T /\ \A n \in T : m <= n
  BY <1>1, MinIs
<1> HIDE DEF m
<1>3. m \in Nat /\ m <= Len(s) + 1 /\ Len(s) \in Nat
  BY <1>2, <1>1
<1> SUFFICES /\ m \in i..Len(s) + 1
             /\ \A j \in i..m - 1 : s[j] \in chars
             /\ m <= Len(s) => s[m] \notin chars
  BY DEF m
<1> QED BY <1>2, <1>3

LEMMA SkipWhen ==
  ASSUME NEW s \in Seq(Char), NEW chars, NEW i \in 1..Len(s) + 1, NEW k \in i..Len(s) + 1,
         \A j \in i..k - 1 : s[j] \in chars,
         k <= Len(s) => s[k] \notin chars
  PROVE  Skip(i, chars, s) = k
<1> DEFINE h == Skip(i, chars, s)
<1>1. /\ h \in i..Len(s) + 1
      /\ \A j \in i..h - 1 : s[j] \in chars
      /\ h <= Len(s) => s[h] \notin chars
  BY SkipIs
<1> HIDE DEF h
<1>2. ~(h < k)
  BY <1>1
<1>3. ~(k < h)
  BY <1>1
<1>4. h = k
  BY <1>1, <1>2, <1>3
<1> QED BY <1>4 DEF h

LEMMA FindIs ==
  ASSUME NEW s \in Seq(Char), NEW c
  PROVE  /\ Find(c, s) \in 1..Len(s) + 1
         /\ \A j \in 1..Find(c, s) - 1 : s[j] # c
         /\ Find(c, s) <= Len(s) => s[Find(c, s)] = c
<1> DEFINE T == {j \in 1..Len(s) : s[j] = c} \union {Len(s) + 1}
<1> DEFINE m == Find(c, s)
<1>1. T \subseteq Nat /\ T # {} /\ m = Min(T)
  BY DEF Find
<1>2. m \in T /\ \A n \in T : m <= n
  BY <1>1, MinIs
<1> HIDE DEF m
<1>3. m \in Nat /\ m <= Len(s) + 1 /\ Len(s) \in Nat
  BY <1>2, <1>1
<1> SUFFICES /\ m \in 1..Len(s) + 1
             /\ \A j \in 1..m - 1 : s[j] # c
             /\ m <= Len(s) => s[m] = c
  BY DEF m
<1> QED BY <1>2, <1>3

LEMMA BeforeIs ==
  ASSUME NEW s \in Seq(Char), NEW c
  PROVE  /\ Before(c, s) \in Seq(Char)
         /\ Len(Before(c, s)) = Find(c, s) - 1
         /\ \A j \in 1..Find(c, s) - 1 : Before(c, s)[j] = s[j]
<1>1. Find(c, s) \in 1..Len(s) + 1
  BY FindIs
<1> QED BY <1>1 DEF Before, Take

LEMMA StripIs ==
  ASSUME NEW s \in Seq(Char), NEW chars
  PROVE  \E k \in 0..Len(s) :
           /\ Strip(chars, s) = Take(k, s)
           /\ k > 0 => s[k] \notin chars
           /\ \A j \in k + 1..Len(s) : s[j] \in chars
<1> DEFINE T == {j \in 1..Len(s) : s[j] \notin chars} \union {0}
<1>1. T \subseteq 0..Len(s) /\ T # {} /\ Len(s) \in Nat
  OBVIOUS
<1> DEFINE m == Max(T)
<1>2. m \in T /\ \A n \in T : n <= m
  BY <1>1, MaxIs
<1>3. Strip(chars, s) = Take(m, s)
  BY DEF Strip
<1> HIDE DEF m
<1>4. m \in 0..Len(s) /\ (m > 0 => s[m] \notin chars) /\ \A j \in m + 1..Len(s) : s[j] \in chars
  BY <1>1, <1>2
<1> QED BY <1>3, <1>4

LEMMA TakeIs ==
  ASSUME NEW S, NEW s \in Seq(S), NEW n \in 0..Len(s)
  PROVE  /\ Take(n, s) \in Seq(S)
         /\ Len(Take(n, s)) = n
         /\ \A j \in 1..n : Take(n, s)[j] = s[j]
BY DEF Take

LEMMA DropIs ==
  ASSUME NEW S, NEW s \in Seq(S), NEW n \in 0..Len(s)
  PROVE  /\ Drop(n, s) \in Seq(S)
         /\ Len(Drop(n, s)) = Len(s) - n
         /\ \A j \in 1..Len(s) - n : Drop(n, s)[j] = s[n + j]
BY DEF Drop
LEMMA InSeq ==
  ASSUME NEW S, NEW s \in Seq(S), NEW R, \A i \in 1..Len(s) : s[i] \in R
  PROVE  s \in Seq(R)
<1>1. Len(s) \in Nat /\ s \in [1..Len(s) -> R]
  OBVIOUS
<1> QED BY <1>1

LEMMA SubSeqOne ==
  ASSUME NEW S, NEW s \in Seq(S), NEW i \in 1..Len(s)
  PROVE  SubSeq(s, i, i) = <<s[i]>>
<1> DEFINE x == SubSeq(s, i, i)
           y == <<s[i]>>
<1>1. x \in Seq(S) /\ Len(x) = 1 /\ x[1] = s[i]
  OBVIOUS
<1>2. y \in Seq(S)
  OBVIOUS
<1>3. Len(y) = 1 /\ y[1] = s[i]
  OBVIOUS
<1> HIDE DEF x, y
<1>4. x = y
  BY <1>1, <1>2, <1>3, SeqEqual
<1> QED BY <1>4 DEF x, y

LEMMA TakeDrop ==
  ASSUME NEW S, NEW s \in Seq(S), NEW n \in 0..Len(s)
  PROVE  /\ Take(n, s) \in Seq(S) /\ Drop(n, s) \in Seq(S)
         /\ s = Take(n, s) \o Drop(n, s)
<1>1. /\ Take(n, s) \in Seq(S) /\ Len(Take(n, s)) = n /\ \A j \in 1..n : Take(n, s)[j] = s[j]
      /\ Drop(n, s) \in Seq(S) /\ Len(Drop(n, s)) = Len(s) - n
      /\ \A j \in 1..Len(s) - n : Drop(n, s)[j] = s[n + j]
  BY TakeIs, DropIs
<1> DEFINE t == Take(n, s) \o Drop(n, s)
<1>2. t \in Seq(S) /\ Len(t) = Len(s) /\ n \in Nat
  BY <1>1
<1>3. ASSUME NEW j \in 1..Len(s) PROVE s[j] = t[j]
  <2>1. j <= n => t[j] = Take(n, s)[j]
    BY <1>1, <1>2
  <2>2. j > n => t[j] = Drop(n, s)[j - n] /\ j - n \in 1..Len(s) - n /\ n + (j - n) = j
    BY <1>1, <1>2
  <2> HIDE DEF t
  <2> QED BY <2>1, <2>2, <1>1, <1>2
<1> HIDE DEF t
<1>4. s = t
  BY <1>2, <1>3, SeqEqual
<1> QED BY <1>1, <1>4 DEF t

(***************************************************************************)
(* FlattenSeq.                                                             *)
(***************************************************************************)
\* What the recursive definition in FlattenSeq asks of the first n.
Joins(seqs, n, f) ==
  f = [i \in 1..n |-> IF i = 1 THEN seqs[i] ELSE f[i - 1] \o seqs[i]]

\* There is such a function for every n: if for n, then for n + 1.
LEMMA JoinsExist ==
  ASSUME NEW seqs, NEW N \in Nat
  PROVE  \E f : Joins(seqs, N, f)
<1> DEFINE T == {n \in Nat : ~ \E f : Joins(seqs, n, f)}
<1>1. Joins(seqs, 0, [i \in 1..0 |-> <<>>])
  BY DEF Joins
<1>2. ASSUME NEW n \in Nat, n \notin T PROVE n + 1 \notin T
  <2>1. PICK f : Joins(seqs, n, f)
    BY <1>2
  <2> DEFINE last == IF n = 0 THEN seqs[n + 1] ELSE f[n] \o seqs[n + 1]
             g == [i \in 1..n + 1 |-> IF i = n + 1 THEN last ELSE f[i]]
  <2>2. Joins(seqs, n + 1, g)
    <3>1. \A i \in 1..n : f[i] = IF i = 1 THEN seqs[i] ELSE f[i - 1] \o seqs[i]
      BY <2>1 DEF Joins
    <3>2. \A i \in 1..n + 1 : g[i] = IF i = 1 THEN seqs[i] ELSE g[i - 1] \o seqs[i]
      BY <3>1
    <3> QED BY <3>2 DEF Joins
  <2> HIDE DEF g
  <2> QED BY <2>2
<1>3. 0 \notin T
  BY <1>1
<1> HIDE DEF T
<1>4. T = {}
  BY <1>2, <1>3, NoLeast DEF T
<1> QED BY <1>4 DEF T

LEMMA FlattenIs ==
  ASSUME NEW seqs, Len(seqs) \in Nat \ {0}
  PROVE  \E f : Joins(seqs, Len(seqs), f) /\ FlattenSeq(seqs) = f[Len(seqs)]
<1> DEFINE f == CHOOSE g : Joins(seqs, Len(seqs), g)
<1>1. Joins(seqs, Len(seqs), f)
  BY JoinsExist
<1>2. FlattenSeq(seqs) = f[Len(seqs)]
  BY DEF FlattenSeq, Joins
<1> QED BY <1>1, <1>2

\* Two such functions agree where both are defined.
LEMMA JoinsAgree ==
  ASSUME NEW S, NEW seqs \in Seq(S), NEW t, NEW f, NEW g,
         Joins(seqs, Len(seqs), f), Joins(Append(seqs, t), Len(seqs) + 1, g)
  PROVE  \A i \in 1..Len(seqs) : f[i] = g[i]
<1> DEFINE more == Append(seqs, t)
           m == Len(seqs)
           n == m + 1
<1>0. /\ m \in Nat /\ n = m + 1 /\ Joins(seqs, m, f) /\ Joins(more, n, g)
      /\ \A i \in 1..m : seqs[i] = more[i]
  OBVIOUS
<1> SUFFICES \A i \in 1..m : f[i] = g[i]
  OBVIOUS
<1> HIDE DEF more, m, n
<1> DEFINE T == {i \in Nat : i \in 1..m /\ f[i] # g[i]}
<1>1. \A i \in 1..m : f[i] = IF i = 1 THEN seqs[i] ELSE f[i - 1] \o seqs[i]
  BY <1>0 DEF Joins
<1>2. \A i \in 1..n : g[i] = IF i = 1 THEN more[i] ELSE g[i - 1] \o more[i]
  BY <1>0 DEF Joins
<1>3. ASSUME NEW i \in Nat, i + 1 \in T PROVE i \in T
  <2>1. i + 1 \in 1..m /\ i + 1 \in 1..n /\ f[i + 1] # g[i + 1] /\ seqs[i + 1] = more[i + 1]
    BY <1>3, <1>0
  <2>2. i # 0
    BY <2>1, <1>1, <1>2
  <2>3. i \in 1..m /\ i \in 1..n
    BY <2>1, <2>2, <1>0
  <2>4. f[i + 1] = f[i] \o seqs[i + 1] /\ g[i + 1] = g[i] \o more[i + 1]
    <3>1. (i + 1) - 1 = i /\ i + 1 # 1
      BY <2>2
    <3> QED BY <2>1, <3>1, <1>1, <1>2
  <2> QED BY <2>1, <2>3, <2>4
<1>4. 0 \notin T
  OBVIOUS
<1> HIDE DEF T
<1>5. T = {}
  BY <1>3, <1>4, NoLeast DEF T
<1> QED BY <1>5 DEF T

LEMMA FlattenAppend ==
  ASSUME NEW S, NEW seqs \in Seq(Seq(S)), NEW t \in Seq(S)
  PROVE  FlattenSeq(Append(seqs, t)) = FlattenSeq(seqs) \o t
<1> DEFINE more == Append(seqs, t)
           n == Len(seqs)
<1>1. /\ n \in Nat /\ Len(more) = n + 1 /\ more[n + 1] = t
      /\ \A i \in 1..n : seqs[i] = more[i]
  OBVIOUS
<1> SUFFICES FlattenSeq(more) = FlattenSeq(seqs) \o t
  OBVIOUS
<1>6. n = Len(seqs) /\ n + 1 \in Nat \ {0} /\ t = <<>> \o t
  OBVIOUS
<1> HIDE DEF more, n
<1>2. PICK g : Joins(more, n + 1, g) /\ FlattenSeq(more) = g[n + 1]
  BY <1>1, FlattenIs
<1>3. g[n + 1] = IF n = 0 THEN t ELSE g[n] \o t
  <2>1. (n + 1) - 1 = n /\ n + 1 \in 1..n + 1 /\ (n + 1 = 1 <=> n = 0)
    BY <1>1
  <2>2. g[n + 1] = IF n + 1 = 1 THEN more[n + 1] ELSE g[(n + 1) - 1] \o more[n + 1]
    BY <1>2, <2>1 DEF Joins
  <2> QED BY <2>1, <2>2, <1>1
<1>4. CASE n = 0
  <2>1. FlattenSeq(seqs) = <<>>
    BY <1>4, <1>6 DEF FlattenSeq
  <2> QED BY <1>2, <1>3, <1>4, <1>6, <2>1
<1>5. CASE n # 0
  <2>1. PICK f : Joins(seqs, n, f) /\ FlattenSeq(seqs) = f[n]
    BY <1>1, <1>5, <1>6, FlattenIs
  <2>2. \A i \in 1..n : f[i] = g[i]
    BY <1>2, <2>1, JoinsAgree DEF more, n
  <2>3. n \in 1..n
    BY <1>1, <1>5
  <2> QED BY <2>1, <2>2, <2>3, <1>2, <1>3, <1>5
<1> QED BY <1>4, <1>5

LEMMA FlattenEmpty == FlattenSeq(<<>>) = <<>>
BY DEF FlattenSeq

\* A sequence of sequences, taken apart at its end.
LEMMA TakenApart ==
  ASSUME NEW S, NEW s \in Seq(S), NEW n \in Nat, Len(s) = n + 1
  PROVE  /\ Take(n, s) \in Seq(S) /\ Len(Take(n, s)) = n /\ s[n + 1] \in S
         /\ s = Append(Take(n, s), s[n + 1])
         /\ \A i \in 1..n : Take(n, s)[i] = s[i]
<1>1. /\ Take(n, s) \in Seq(S) /\ Len(Take(n, s)) = n /\ s[n + 1] \in S
      /\ \A i \in 1..n : Take(n, s)[i] = s[i]
  BY DEF Take
<1> DEFINE t == Append(Take(n, s), s[n + 1])
<1>2. t \in Seq(S) /\ Len(t) = n + 1 /\ \A i \in 1..n + 1 : t[i] = s[i]
  BY <1>1
<1>3. s = t
  BY <1>2, SeqEqual
<1> QED BY <1>1, <1>3

LEMMA FlattenType ==
  ASSUME NEW S, NEW seqs \in Seq(Seq(S))
  PROVE  FlattenSeq(seqs) \in Seq(S)
<1> DEFINE T == {n \in Nat : \E ss \in Seq(Seq(S)) : Len(ss) = n /\ FlattenSeq(ss) \notin Seq(S)}
<1>1. 0 \notin T
  <2>1. \A ss \in Seq(Seq(S)) : Len(ss) = 0 => FlattenSeq(ss) = <<>>
    BY DEF FlattenSeq
  <2> QED BY <2>1
<1>2. ASSUME NEW n \in Nat, n + 1 \in T PROVE n \in T
  <2>1. PICK ss \in Seq(Seq(S)) : Len(ss) = n + 1 /\ FlattenSeq(ss) \notin Seq(S)
    BY <1>2
  <2> DEFINE rest == Take(n, ss)
             last == ss[n + 1]
  <2>2. rest \in Seq(Seq(S)) /\ Len(rest) = n /\ last \in Seq(S) /\ ss = Append(rest, last)
    BY <2>1, TakenApart
  <2> HIDE DEF rest, last
  <2>3. FlattenSeq(ss) = FlattenSeq(rest) \o last
    BY <2>2, FlattenAppend
  <2>4. FlattenSeq(rest) \notin Seq(S)
    BY <2>1, <2>2, <2>3
  <2> QED BY <2>2, <2>4
<1> HIDE DEF T
<1>3. T = {}
  BY <1>1, <1>2, NoLeast DEF T
<1> QED BY <1>3 DEF T

\* Everything in it comes from one of the sequences.
LEMMA FlattenElement ==
  ASSUME NEW S, NEW seqs \in Seq(Seq(S)), NEW k \in 1..Len(FlattenSeq(seqs))
  PROVE  \E i \in 1..Len(seqs) : \E j \in 1..Len(seqs[i]) : FlattenSeq(seqs)[k] = seqs[i][j]
<1> DEFINE From(ss, h) ==
             \E i \in 1..Len(ss) : \E j \in 1..Len(ss[i]) : FlattenSeq(ss)[h] = ss[i][j]
           T == {n \in Nat : \E ss \in Seq(Seq(S)) :
                   Len(ss) = n /\ \E h \in 1..Len(FlattenSeq(ss)) : ~From(ss, h)}
<1>1. 0 \notin T
  <2>1. \A ss \in Seq(Seq(S)) : Len(ss) = 0 => FlattenSeq(ss) = <<>>
    BY DEF FlattenSeq
  <2> QED BY <2>1
<1>2. ASSUME NEW n \in Nat, n + 1 \in T PROVE n \in T
  <2>0. PICK ss \in Seq(Seq(S)) : Len(ss) = n + 1 /\ \E h \in 1..Len(FlattenSeq(ss)) : ~From(ss, h)
    BY <1>2
  <2>1. PICK h \in 1..Len(FlattenSeq(ss)) : Len(ss) = n + 1 /\ ~From(ss, h)
    BY <2>0
  <2> DEFINE rest == Take(n, ss)
             last == ss[n + 1]
  <2>2. /\ rest \in Seq(Seq(S)) /\ Len(rest) = n /\ last \in Seq(S) /\ ss = Append(rest, last)
        /\ \A i \in 1..n : rest[i] = ss[i]
    BY <2>1, TakenApart, SMTT(30)
  <2> HIDE DEF rest
  <2>3. FlattenSeq(ss) = FlattenSeq(rest) \o last /\ FlattenSeq(rest) \in Seq(S)
    BY <2>2, FlattenAppend, FlattenType
  <2>4. CASE h > Len(FlattenSeq(rest))
    <3>1. h - Len(FlattenSeq(rest)) \in 1..Len(last)
      BY <2>3, <2>4, <2>2
    <3>2. FlattenSeq(ss)[h] = last[h - Len(FlattenSeq(rest))]
      BY <2>3, <2>4, <2>2
    <3>3. n + 1 \in 1..Len(ss)
      BY <2>1
    <3> QED BY <3>1, <3>2, <3>3, <2>1
  <2>5. CASE h <= Len(FlattenSeq(rest))
    <3>1. FlattenSeq(ss)[h] = FlattenSeq(rest)[h] /\ h \in 1..Len(FlattenSeq(rest))
      BY <2>3, <2>5, <2>2
    <3>2. ~From(rest, h)
      <4>1. SUFFICES ASSUME NEW i \in 1..n, NEW j \in 1..Len(rest[i]), FlattenSeq(rest)[h] = rest[i][j]
                     PROVE  FALSE
        BY <2>2
      <4>2. i \in 1..Len(ss) /\ j \in 1..Len(ss[i]) /\ FlattenSeq(ss)[h] = ss[i][j]
        BY <4>1, <3>1, <2>1, <2>2, SMTT(30)
      <4> QED BY <4>2, <2>1
    <3> HIDE DEF From
    <3> QED BY <3>1, <3>2, <2>2
  <2> QED
    <3>1. h \in Nat /\ Len(FlattenSeq(rest)) \in Nat
      BY <2>3
    <3> HIDE DEF T, From
    <3> QED BY <3>1, <2>4, <2>5
<1>4. T = {}
  <2> HIDE DEF T
  <2> QED BY <1>1, <1>2, NoLeast DEF T
<1> QED
  <2>1. Len(seqs) \in Nat
    OBVIOUS
  <2>2. From(seqs, k)
    <3> HIDE DEF From
    <3> QED BY <2>1, <1>4
  <2> QED BY <2>2
\* What a sequence of sequences becomes does not depend on how it is cut in two.
LEMMA FlattenConcat ==
  ASSUME NEW S, NEW a \in Seq(Seq(S)), NEW b \in Seq(Seq(S))
  PROVE  FlattenSeq(a \o b) = FlattenSeq(a) \o FlattenSeq(b)
<1> DEFINE T == {n \in Nat : \E ss \in Seq(Seq(S)) :
                   Len(ss) = n /\ FlattenSeq(a \o ss) # FlattenSeq(a) \o FlattenSeq(ss)}
<1>0. FlattenSeq(a) \in Seq(S)
  BY FlattenType
<1>1. 0 \notin T
  <2>1. \A ss \in Seq(Seq(S)) : Len(ss) = 0 => a \o ss = a /\ FlattenSeq(ss) = <<>>
    BY DEF FlattenSeq
  <2>2. FlattenSeq(a) \o <<>> = FlattenSeq(a)
    BY <1>0
  <2> QED BY <2>1, <2>2
<1>2. ASSUME NEW n \in Nat, n + 1 \in T PROVE n \in T
  <2>1. PICK ss \in Seq(Seq(S)) : Len(ss) = n + 1 /\ FlattenSeq(a \o ss) # FlattenSeq(a) \o FlattenSeq(ss)
    BY <1>2
  <2> DEFINE rest == Take(n, ss)
             last == ss[n + 1]
  <2>2. rest \in Seq(Seq(S)) /\ Len(rest) = n /\ last \in Seq(S) /\ ss = Append(rest, last)
    BY <2>1, TakenApart
  <2> HIDE DEF rest, last
  <2>3. FlattenSeq(ss) = FlattenSeq(rest) \o last /\ FlattenSeq(rest) \in Seq(S)
    BY <2>2, FlattenAppend, FlattenType
  <2>4. a \o ss = Append(a \o rest, last) /\ a \o rest \in Seq(Seq(S))
    BY <2>2, SMTT(30)
  <2>5. FlattenSeq(a \o ss) = FlattenSeq(a \o rest) \o last
    BY <2>2, <2>4, FlattenAppend
  <2>6. ASSUME FlattenSeq(a \o rest) = FlattenSeq(a) \o FlattenSeq(rest) PROVE FALSE
    <3>1. FlattenSeq(a \o ss) = (FlattenSeq(a) \o FlattenSeq(rest)) \o last
      BY <2>5, <2>6
    <3>2. (FlattenSeq(a) \o FlattenSeq(rest)) \o last = FlattenSeq(a) \o (FlattenSeq(rest) \o last)
      <4> DEFINE x == FlattenSeq(a)
                 y == FlattenSeq(rest)
      <4>1. x \in Seq(S) /\ y \in Seq(S) /\ last \in Seq(S)
        BY <1>0, <2>2, <2>3
      <4> HIDE DEF x, y
      <4>2. (x \o y) \o last = x \o (y \o last)
        BY <4>1, SMTT(30)
      <4> QED BY <4>2 DEF x, y
    <3> QED BY <3>1, <3>2, <2>3, <2>1
  <2> QED BY <2>2, <2>6
<1> HIDE DEF T
<1>3. T = {}
  BY <1>1, <1>2, NoLeast DEF T
<1>4. Len(b) \in Nat
  OBVIOUS
<1> QED BY <1>3, <1>4 DEF T

LEMMA FlattenOne ==
  ASSUME NEW S, NEW t \in Seq(S)
  PROVE  FlattenSeq(<<t>>) = t
<1>1. <<t>> = Append(<<>>, t) /\ <<>> \in Seq(Seq(S))
  OBVIOUS
<1>2. FlattenSeq(Append(<<>>, t)) = FlattenSeq(<<>>) \o t
  BY <1>1, FlattenAppend
<1> QED BY <1>1, <1>2, FlattenEmpty, SMTT(30)

\* It begins with the first.
LEMMA FlattenFirst ==
  ASSUME NEW S, NEW seqs \in Seq(Seq(S)), seqs # <<>>
  PROVE  /\ Tail(seqs) \in Seq(Seq(S)) /\ seqs[1] \in Seq(S)
         /\ FlattenSeq(seqs) = seqs[1] \o FlattenSeq(Tail(seqs))
<1>1. seqs[1] \in Seq(S) /\ Tail(seqs) \in Seq(Seq(S)) /\ <<seqs[1]>> \in Seq(Seq(S))
  OBVIOUS
<1>2. seqs = <<seqs[1]>> \o Tail(seqs)
  OBVIOUS
<1>3. FlattenSeq(<<seqs[1]>> \o Tail(seqs)) = FlattenSeq(<<seqs[1]>>) \o FlattenSeq(Tail(seqs))
  BY <1>1, FlattenConcat
<1> QED BY <1>1, <1>2, <1>3, FlattenOne
\* Longer sequences, and more of them, make a longer one.
LEMMA FlattenLonger ==
  ASSUME NEW S, NEW a \in Seq(Seq(S)), NEW R, NEW b \in Seq(Seq(R)),
         Len(a) <= Len(b), \A i \in 1..Len(a) : Len(a[i]) <= Len(b[i])
  PROVE  Len(FlattenSeq(a)) <= Len(FlattenSeq(b))
<1> DEFINE Short(m) == Len(FlattenSeq(Take(m, a))) <= Len(FlattenSeq(Take(m, b)))
           T == {m \in Nat : m <= Len(a) /\ ~Short(m)}
<1>1. 0 \notin T
  <2>1. Take(0, a) = <<>> /\ Take(0, b) = <<>>
    BY DEF Take
  <2> QED BY <2>1, FlattenEmpty
<1>2. ASSUME NEW m \in Nat, m + 1 \in T PROVE m \in T
  <2> DEFINE ra == Take(m, a)  la == a[m + 1]
             rb == Take(m, b)  lb == b[m + 1]
             sa == Take(m + 1, a)  sb == Take(m + 1, b)
  <2>1. m + 1 <= Len(a) /\ m + 1 <= Len(b) /\ Len(a) \in Nat
    BY <1>2
  <2>2. ra \in Seq(Seq(S)) /\ la \in Seq(S) /\ sa = Append(ra, la)
    <3>1. sa \in Seq(Seq(S)) /\ Len(sa) = m + 1 /\ \A i \in 1..m + 1 : sa[i] = a[i]
      BY <2>1 DEF Take
    <3>2. Take(m, sa) \in Seq(Seq(S)) /\ sa = Append(Take(m, sa), sa[m + 1]) /\ sa[m + 1] \in Seq(S)
      BY <3>1, TakenApart
    <3>3. Take(m, sa) = ra
      BY <2>1 DEF Take
    <3> QED BY <3>1, <3>2, <3>3
  <2>3. rb \in Seq(Seq(R)) /\ lb \in Seq(R) /\ sb = Append(rb, lb)
    <3>1. sb \in Seq(Seq(R)) /\ Len(sb) = m + 1 /\ \A i \in 1..m + 1 : sb[i] = b[i]
      BY <2>1 DEF Take
    <3>2. Take(m, sb) \in Seq(Seq(R)) /\ sb = Append(Take(m, sb), sb[m + 1]) /\ sb[m + 1] \in Seq(R)
      BY <3>1, TakenApart
    <3>3. Take(m, sb) = rb
      BY <2>1 DEF Take
    <3> QED BY <3>1, <3>2, <3>3
  <2>4. Len(la) <= Len(lb) /\ Len(la) \in Nat /\ Len(lb) \in Nat
    <3>1. m + 1 \in 1..Len(a)
      BY <2>1
    <3>2. Len(a[m + 1]) <= Len(b[m + 1])
      BY <3>1
    <3> HIDE DEF ra, rb, sa, sb
    <3>3. Len(la) \in Nat /\ Len(lb) \in Nat
      BY <2>2, <2>3, SMTT(30)
    <3> QED BY <3>2, <3>3 DEF la, lb
  <2>5. Len(FlattenSeq(sa)) > Len(FlattenSeq(sb))
    <3>1. FlattenSeq(sa) \in Seq(S) /\ FlattenSeq(sb) \in Seq(R)
      <4>1. sa \in Seq(Seq(S)) /\ sb \in Seq(Seq(R))
        <5> HIDE DEF ra, rb, la, lb
        <5>1. Append(ra, la) \in Seq(Seq(S)) /\ Append(rb, lb) \in Seq(Seq(R))
          BY <2>2, <2>3
        <5> QED BY <5>1, <2>2, <2>3
      <4> QED BY <4>1, FlattenType
    <3>2. ~(Len(FlattenSeq(sa)) <= Len(FlattenSeq(sb)))
      BY <1>2
    <3> QED BY <3>1, <3>2
  <2> HIDE DEF ra, rb, la, lb, sa, sb
  <2>6. /\ FlattenSeq(sa) = FlattenSeq(ra) \o la /\ FlattenSeq(ra) \in Seq(S)
        /\ FlattenSeq(sb) = FlattenSeq(rb) \o lb /\ FlattenSeq(rb) \in Seq(R)
    BY <2>2, <2>3, FlattenAppend, FlattenType
  <2>7. /\ Len(FlattenSeq(sa)) = Len(FlattenSeq(ra)) + Len(la)
        /\ Len(FlattenSeq(sb)) = Len(FlattenSeq(rb)) + Len(lb)
        /\ Len(FlattenSeq(ra)) \in Nat /\ Len(FlattenSeq(rb)) \in Nat
    BY <2>2, <2>3, <2>6
  <2>8. ~(Len(FlattenSeq(ra)) <= Len(FlattenSeq(rb))) /\ m <= Len(a)
    BY <2>1, <2>4, <2>5, <2>7, SMTT(30)
  <2> QED BY <2>8 DEF ra, rb
<1>3. T = {}
  <2>1. T \subseteq Nat
    OBVIOUS
  <2> HIDE DEF T
  <2> QED BY <2>1, <1>1, <1>2, NoLeast
<1>4. Take(Len(a), a) = a /\ Len(a) \in Nat
  BY DEF Take
<1>5. Len(a) \notin T
  BY <1>3
<1>6. Len(FlattenSeq(Take(Len(a), b))) <= Len(FlattenSeq(b))
  <2> DEFINE x == Take(Len(a), b)
             y == Drop(Len(a), b)
  <2>1. x \in Seq(Seq(R)) /\ y \in Seq(Seq(R)) /\ b = x \o y
    <3>1. Len(a) \in 0..Len(b)
      BY <1>4
    <3> QED BY <3>1, TakeDrop
  <2> HIDE DEF x, y
  <2>2. FlattenSeq(b) = FlattenSeq(x) \o FlattenSeq(y)
    BY <2>1, FlattenConcat
  <2>3. FlattenSeq(x) \in Seq(R) /\ FlattenSeq(y) \in Seq(R)
    BY <2>1, FlattenType
  <2>4. Len(FlattenSeq(x)) <= Len(FlattenSeq(b))
    BY <2>2, <2>3
  <2> QED BY <2>4 DEF x
<1>7. Len(FlattenSeq(a)) <= Len(FlattenSeq(Take(Len(a), b)))
  BY <1>4, <1>5
<1>8. FlattenSeq(a) \in Seq(S) /\ FlattenSeq(b) \in Seq(R) /\ FlattenSeq(Take(Len(a), b)) \in Seq(R)
  <2>1. Take(Len(a), b) \in Seq(Seq(R))
    BY <1>4, TakeIs
  <2> QED BY <2>1, FlattenType
<1> QED
  <2> HIDE DEF T
  <2> QED BY <1>6, <1>7, <1>8

\* One element each: the sequence of these.
LEMMA FlattenSingles ==
  ASSUME NEW S, NEW s \in Seq(S)
  PROVE  FlattenSeq([i \in 1..Len(s) |-> <<s[i]>>]) = s
<1> DEFINE Ones(t) == [i \in 1..Len(t) |-> <<t[i]>>]
           T == {n \in Nat : \E t \in Seq(S) : Len(t) = n /\ FlattenSeq(Ones(t)) # t}
<1>1. 0 \notin T
  <2>1. \A t \in Seq(S) : Len(t) = 0 => t = <<>> /\ Ones(t) = <<>>
    OBVIOUS
  <2> QED BY <2>1, FlattenEmpty
<1>2. ASSUME NEW n \in Nat, n + 1 \in T PROVE n \in T
  <2>1. PICK t \in Seq(S) : Len(t) = n + 1 /\ FlattenSeq(Ones(t)) # t
    BY <1>2
  <2> DEFINE rest == Take(n, t)
             last == t[n + 1]
  <2>2. /\ rest \in Seq(S) /\ Len(rest) = n /\ last \in S /\ t = Append(rest, last)
        /\ \A i \in 1..n : rest[i] = t[i]
    BY <2>1, TakenApart
  <2>3. Ones(rest) \in Seq(Seq(S)) /\ <<last>> \in Seq(S) /\ Ones(t) = Append(Ones(rest), <<last>>)
    <3> HIDE DEF rest, last
    <3>1. Ones(rest) \in Seq(Seq(S)) /\ Len(Ones(rest)) = n
      BY <2>2
    <3>2. /\ Ones(t) \in Seq(Seq(S)) /\ Append(Ones(rest), <<last>>) \in Seq(Seq(S))
          /\ Len(Ones(t)) = n + 1 /\ Len(Append(Ones(rest), <<last>>)) = n + 1
      BY <3>1, <2>1, <2>2
    <3>3. \A i \in 1..n + 1 : Ones(t)[i] = Append(Ones(rest), <<last>>)[i]
      <4> TAKE i \in 1..n + 1
      <4>1. CASE i = n + 1
        BY <4>1, <3>1, <2>1 DEF last
      <4>2. CASE i \in 1..n
        <5>1. Append(Ones(rest), <<last>>)[i] = Ones(rest)[i]
          BY <3>1, <4>2
        <5>2. Ones(rest)[i] = <<rest[i]>> /\ Ones(t)[i] = <<t[i]>>
          BY <4>2, <2>2, <2>1
        <5> QED BY <5>1, <5>2, <2>2, <4>2
      <4>3. i = n + 1 \/ i \in 1..n
        OBVIOUS
      <4> QED BY <4>1, <4>2, <4>3
    <3> HIDE DEF Ones
    <3> QED BY <3>1, <3>2, <3>3, <2>2, SeqEqual
  <2> HIDE DEF Ones, rest, last
  <2>4. FlattenSeq(Ones(t)) = FlattenSeq(Ones(rest)) \o <<last>>
    BY <2>3, FlattenAppend
  <2>5. FlattenSeq(Ones(rest)) # rest
    <3>1. t = rest \o <<last>>
      BY <2>2
    <3> QED BY <3>1, <2>4, <2>1
  <2> QED BY <2>2, <2>5
<1>3. T = {}
  <2>1. T \subseteq Nat
    OBVIOUS
  <2> HIDE DEF T
  <2> QED BY <2>1, <1>1, <1>2, NoLeast
<1>4. Len(s) \in Nat
  OBVIOUS
<1>5. FlattenSeq(Ones(s)) = s
  <2> HIDE DEF Ones
  <2> QED BY <1>3, <1>4
<1> QED BY <1>5

(***************************************************************************)
(* Splitting a URL.                                                        *)
(***************************************************************************)
LEMMA DeleteInterType ==
  ASSUME NEW s \in Seq(Char)
  PROVE  delete_inter(s) \in Seq(Char)
<1> DEFINE kept == [i \in 1..Len(s) |-> IF s[i] \in LFCR THEN <<>> ELSE <<s[i]>>]
<1>1. kept \in Seq(Seq(Char))
  <2>1. \A i \in 1..Len(s) : (IF s[i] \in LFCR THEN <<>> ELSE <<s[i]>>) \in Seq(Char)
    OBVIOUS
  <2> QED BY <2>1
<1>2. delete_inter(s) = FlattenSeq(kept)
  BY DEF delete_inter, Replace, Each
<1> HIDE DEF kept
<1> QED BY <1>1, <1>2, FlattenType

LEMMA WithoutSchemeType ==
  ASSUME NEW s \in Seq(Char)
  PROVE  WithoutScheme(s) \in Seq(Char)
<1>1. ASSUME NEW n \in Nat, n <= Len(s) PROVE Drop(n, s) \in Seq(Char)
  BY <1>1, DropIs
<1>2. Len(Http) = 7 /\ Len(Https) = 8
  BY DEF Http, Https
<1> QED BY <1>1, <1>2 DEF WithoutScheme, HasScheme

\* The host and the path, where the first slash or question mark is.
LEMMA HostPartIs ==
  ASSUME NEW rest \in Seq(Char)
  PROVE  \E k \in 0..Len(rest) :
           /\ HostPart(rest) = Take(k, rest)
           /\ \A j \in 1..k : rest[j] # Slash /\ rest[j] # Question
           /\ k < Len(rest) => rest[k + 1] \in {Slash, Question}
<1> DEFINE b == Before(Question, rest)
           q == Find(Question, rest)
           h == Find(Slash, b)
<1>1. /\ q \in 1..Len(rest) + 1 /\ \A j \in 1..q - 1 : rest[j] # Question
      /\ q <= Len(rest) => rest[q] = Question
  BY FindIs
<1>2. b \in Seq(Char) /\ Len(b) = q - 1 /\ \A j \in 1..q - 1 : b[j] = rest[j]
  BY BeforeIs
<1>3. /\ h \in 1..Len(b) + 1 /\ \A j \in 1..h - 1 : b[j] # Slash
      /\ h <= Len(b) => b[h] = Slash
  BY <1>2, FindIs
<1>4. HostPart(rest) = Take(h - 1, b)
  BY DEF HostPart, Before
<1>5. Take(h - 1, b) = Take(h - 1, rest)
  <2>1. b = Take(q - 1, rest)
    BY DEF Before
  <2> HIDE DEF b, q, h
  <2> QED BY <1>1, <1>2, <1>3, <2>1 DEF Take
<1> HIDE DEF b, q, h
<1>6. h - 1 \in 0..Len(rest) /\ (h - 1) + 1 = h
  BY <1>1, <1>2, <1>3
<1>7. \A j \in 1..h - 1 : rest[j] # Slash /\ rest[j] # Question
  BY <1>1, <1>2, <1>3
<1>8. h - 1 < Len(rest) => rest[h] \in {Slash, Question}
  <2>1. CASE h <= Len(b)
    BY <2>1, <1>2, <1>3
  <2>2. CASE h = q
    BY <2>2, <1>1
  <2> QED BY <2>1, <2>2, <1>1, <1>2, <1>3
<1> QED BY <1>4, <1>5, <1>6, <1>7, <1>8

LEMMA PathPartIs ==
  ASSUME NEW rest \in Seq(Char)
  PROVE  PathPart(rest) \in Seq(Char) /\ PathPart(rest) # <<>> /\ PathPart(rest)[1] = Slash
<1>1. PICK k \in 0..Len(rest) :
           /\ HostPart(rest) = Take(k, rest)
           /\ \A j \in 1..k : rest[j] # Slash /\ rest[j] # Question
           /\ k < Len(rest) => rest[k + 1] \in {Slash, Question}
  BY HostPartIs
<1>2. Len(HostPart(rest)) = k
  BY <1>1, TakeIs
<1> DEFINE path == Drop(k, rest)
<1>3. path \in Seq(Char) /\ Len(path) = Len(rest) - k /\ (k < Len(rest) => path[1] = rest[k + 1])
  BY DropIs
<1>4. PathPart(rest) = IF path = <<>> \/ path[1] = Question THEN <<Slash>> \o path ELSE path
  BY <1>2 DEF PathPart
<1>5. <<Slash>> \o path \in Seq(Char) /\ <<Slash>> \o path # <<>> /\ (<<Slash>> \o path)[1] = Slash
  BY <1>3 DEF Char, Slash
<1>6. path # <<>> => k < Len(rest)
  BY <1>3
<1> HIDE DEF path
<1> QED BY <1>1, <1>3, <1>4, <1>5, <1>6

LEMMA SitePartIs ==
  ASSUME NEW host \in Seq(Char)
  PROVE  /\ SitePart(host) \in Seq(Char) /\ Len(SitePart(host)) <= Len(host)
         /\ PortPart(host) \in Seq(Char)
         /\ SitePart(host) = host => PortPart(host) = <<>>
<1> DEFINE k == Find(Colon, host)
<1>1. k \in 1..Len(host) + 1
  BY FindIs
<1>2. SitePart(host) \in Seq(Char) /\ Len(SitePart(host)) = k - 1
  BY BeforeIs DEF SitePart
<1>3. PortPart(host) = SubSeq(host, k + 1, Len(host))
  <2>1. (k - 1) + 1 + 1 = k + 1
    BY <1>1
  <2> HIDE DEF k
  <2> QED BY <1>2, <2>1 DEF PortPart, Drop
<1> HIDE DEF k
<1>4. SubSeq(host, k + 1, Len(host)) \in Seq(Char)
  BY <1>1
<1> QED BY <1>1, <1>2, <1>3, <1>4

\* The parts of a URL: characters, within their buffers, the path from a slash on.
IsParts(p) ==
  /\ p.site \in Seq(Char) /\ Len(p.site) < MAX_SITE_LEN
  /\ p.port \in Seq(Char) /\ (p.port # <<>> => Len(p.port) + 1 < MAX_PORT_LEN)
  /\ p.path \in Seq(Char) /\ Len(p.path) < MAX_PATH_LEN
  /\ p.path # <<>> /\ p.path[1] = Slash

LEMMA ParseIs ==
  ASSUME NEW url \in Seq(Char), parse_url(url, TRUE).ok
  PROVE  IsParts(parse_url(url, TRUE))
<1> DEFINE input == delete_inter(url)
           rest == WithoutScheme(input)
           host == HostPart(rest)
           path == PathPart(rest)
           site == SitePart(host)
           port == PortPart(host)
<1>1. rest \in Seq(Char)
  BY DeleteInterType, WithoutSchemeType
<1>2. host \in Seq(Char)
  <2> HIDE DEF rest
  <2>1. PICK k \in 0..Len(rest) : HostPart(rest) = Take(k, rest)
    BY <1>1, HostPartIs
  <2> QED BY <2>1, <1>1, TakeIs
<1>3. path \in Seq(Char) /\ path # <<>> /\ path[1] = Slash
  BY <1>1, PathPartIs
<1>4. /\ site \in Seq(Char) /\ port \in Seq(Char) /\ (site = host => port = <<>>)
  BY <1>2, SitePartIs
<1> DEFINE bad == \/ Len(url) >= MAX_URL_LEN
                  \/ Len(path) >= MAX_PATH_LEN
                  \/ site # host /\ (Len(port) + 1 >= MAX_PORT_LEN \/ atoi(port) <= 0)
                  \/ site = <<>> \/ Len(site) >= MAX_SITE_LEN
           good == [ok |-> TRUE, site |-> Strip({Dot}, site),
                    port |-> IF port = HttpPort THEN <<>> ELSE port, path |-> path]
<1>5. parse_url(url, TRUE) = IF bad THEN Failed ELSE good
  BY DEF parse_url, Parts
<1> HIDE DEF input, rest, host, path, site, port
<1>6. ~bad /\ parse_url(url, TRUE) = good
  <2> HIDE DEF bad, good
  <2>1. ~Failed.ok
    BY DEF Failed
  <2> QED BY <1>5, <2>1
<1>7. Strip({Dot}, site) \in Seq(Char) /\ Len(Strip({Dot}, site)) <= Len(site)
  <2>1. PICK k \in 0..Len(site) : Strip({Dot}, site) = Take(k, site)
    BY <1>4, StripIs
  <2> QED BY <2>1, <1>4, TakeIs
<1>8. /\ Len(site) < MAX_SITE_LEN /\ Len(path) < MAX_PATH_LEN
      /\ port # <<>> => Len(port) + 1 < MAX_PORT_LEN
  <2>1. {Len(site), Len(path), Len(port), MAX_SITE_LEN, MAX_PATH_LEN, MAX_PORT_LEN} \subseteq Nat
    BY <1>3, <1>4, BufferAssumption
  <2> QED BY <2>1, <1>4, <1>6
<1>9. Len(Strip({Dot}, site)) < MAX_SITE_LEN
  BY <1>4, <1>7, <1>8, BufferAssumption
<1>10. good.site = Strip({Dot}, site) /\ good.port \in {<<>>, port} /\ good.path = path
  OBVIOUS
<1> HIDE DEF bad, good
<1> QED BY <1>3, <1>4, <1>6, <1>7, <1>8, <1>9, <1>10, EmptySeq DEF IsParts

(***************************************************************************)
(* Escapes.                                                                *)
(***************************************************************************)
HexDigit == URL_DIGIT \union 65..70 \union 97..102

LEMMA ToCharIs ==
  ASSUME NEW h \in Char, NEW l \in Char, to_char(h, l) # 0
  PROVE  h \in HexDigit /\ l \in HexDigit /\ to_char(h, l) \in Char
<1>1. \A c \in Char : /\ TO_CHAR(c) \in 0..15
                      /\ TO_CHAR(c) # 0 \/ c = 48 => c \in HexDigit
  BY DEF TO_CHAR, HexDigit, URL_DIGIT, Char
<1>2. /\ ~(TO_CHAR(h) = 0 /\ h # 48) /\ ~(TO_CHAR(l) = 0 /\ l # 48)
      /\ to_char(h, l) = 16 * TO_CHAR(h) + TO_CHAR(l)
  BY DEF to_char
<1>3. h \in HexDigit /\ l \in HexDigit
  BY <1>1, <1>2
<1>4. TO_CHAR(h) \in 0..15 /\ TO_CHAR(l) \in 0..15
  BY <1>1
<1> HIDE DEF HexDigit
<1> QED BY <1>2, <1>3, <1>4 DEF Char

\* A character for itself, or an escape.
Plain(u)   == u.raw = <<u.char>>
Escaped(u) == /\ Len(u.raw) = 3 /\ u.raw[1] = Percent
              /\ u.raw[2] \in HexDigit /\ u.raw[3] \in HexDigit
              /\ u.char = to_char(u.raw[2], u.raw[3])
Unit == {u \in [raw : Seq(Char), char : Char] : Plain(u) \/ Escaped(u)}

LEMMA UnitAtIs ==
  ASSUME NEW s \in Seq(Char), NEW i \in 1..Len(s)
  PROVE  /\ UnitAt(i, s) \in Unit /\ UnitAt(i, s).raw[1] = s[i]
         /\ IF Escape(i, s) THEN Escaped(UnitAt(i, s)) /\ UnitAt(i, s).raw = SubSeq(s, i, i + 2)
            ELSE Plain(UnitAt(i, s)) /\ UnitAt(i, s).char = s[i]
<1>0. s[i] \in Char
  OBVIOUS
<1>1. CASE Escape(i, s)
  <2>1. i + 2 <= Len(s) /\ s[i] = Percent /\ to_char(s[i + 1], s[i + 2]) # 0
    BY <1>1 DEF Escape
  <2>2. s[i + 1] \in Char /\ s[i + 2] \in Char
    BY <2>1
  <2> DEFINE raw == SubSeq(s, i, i + 2)
             char == to_char(s[i + 1], s[i + 2])
  <2>3. raw \in Seq(Char) /\ Len(raw) = 3 /\ raw[1] = s[i] /\ raw[2] = s[i + 1] /\ raw[3] = s[i + 2]
    BY <2>1
  <2>4. raw[2] \in HexDigit /\ raw[3] \in HexDigit /\ char \in Char
    BY <2>1, <2>2, <2>3, ToCharIs
  <2>5. UnitAt(i, s) = [raw |-> raw, char |-> char]
    BY <1>1 DEF UnitAt
  <2>6. char = to_char(raw[2], raw[3])
    BY <2>3
  <2> HIDE DEF raw, char
  <2>7. Escaped(UnitAt(i, s)) /\ UnitAt(i, s) \in [raw : Seq(Char), char : Char]
    BY <2>1, <2>3, <2>4, <2>5, <2>6 DEF Escaped
  <2>8. UnitAt(i, s).raw = raw
    BY <2>5
  <2>9. raw = SubSeq(s, i, i + 2)
    BY DEF raw
  <2>10. UnitAt(i, s) \in Unit
    BY <2>7 DEF Unit
  <2> QED BY <1>1, <2>3, <2>7, <2>8, <2>9, <2>10
<1>2. CASE ~Escape(i, s)
  <2>1. UnitAt(i, s) = [raw |-> <<s[i]>>, char |-> s[i]]
    BY <1>2 DEF UnitAt
  <2>2. Plain(UnitAt(i, s)) /\ UnitAt(i, s) \in [raw : Seq(Char), char : Char]
    BY <2>1, <1>0 DEF Plain
  <2> QED BY <1>2, <2>1, <2>2 DEF Unit
<1> QED BY <1>1, <1>2

\* What Units joins.
UnitPieces(s) == [i \in 1..Len(s) |-> IF InEscape(i, s) THEN <<>> ELSE <<UnitAt(i, s)>>]

LEMMA UnitPiecesAre ==
  ASSUME NEW s \in Seq(Char)
  PROVE  UnitPieces(s) \in Seq(Seq(Unit)) /\ Len(UnitPieces(s)) = Len(s)
<1>1. \A i \in 1..Len(s) : UnitAt(i, s) \in Unit
  BY UnitAtIs
<1>2. \A i \in 1..Len(s) : (IF InEscape(i, s) THEN <<>> ELSE <<UnitAt(i, s)>>) \in Seq(Unit)
  <2> HIDE DEF Unit
  <2> QED BY <1>1
<1> QED BY <1>2 DEF UnitPieces

LEMMA UnitsAre ==
  ASSUME NEW s \in Seq(Char)
  PROVE  /\ Units(s) \in Seq(Unit) /\ Len(Units(s)) <= Len(s)
         /\ s # <<>> => Units(s) # <<>> /\ Units(s)[1].raw[1] = s[1]
<1> DEFINE p == UnitPieces(s)
           ones == [i \in 1..Len(s) |-> <<s[i]>>]
<1>1. p \in Seq(Seq(Unit)) /\ Len(p) = Len(s) /\ Units(s) = FlattenSeq(p)
  BY UnitPiecesAre DEF Units, UnitPieces
<1>2. Units(s) \in Seq(Unit)
  BY <1>1, FlattenType
<1>3. Len(Units(s)) <= Len(s)
  <2>1. ones \in Seq(Seq(Char)) /\ Len(ones) = Len(s)
    OBVIOUS
  <2>2. \A i \in 1..Len(s) : Len(p[i]) <= Len(ones[i])
    BY DEF UnitPieces
  <2>3. FlattenSeq(ones) = s
    BY FlattenSingles
  <2> HIDE DEF ones, p
  <2>4. Len(FlattenSeq(p)) <= Len(FlattenSeq(ones))
    BY <1>1, <2>1, <2>2, FlattenLonger
  <2> QED BY <1>1, <2>3, <2>4
<1>4. ASSUME s # <<>> PROVE Units(s) # <<>> /\ Units(s)[1].raw[1] = s[1]
  <2>1. 1 \in 1..Len(s)
    BY <1>4
  <2>2. p[1] = <<UnitAt(1, s)>>
    <3>1. ~InEscape(1, s)
      BY DEF InEscape
    <3> QED BY <2>1, <3>1 DEF UnitPieces
  <2> HIDE DEF p
  <2>3. p # <<>>
    BY <1>1, <2>1
  <2>4. Tail(p) \in Seq(Seq(Unit)) /\ FlattenSeq(p) = <<UnitAt(1, s)>> \o FlattenSeq(Tail(p))
    BY <1>1, <2>2, <2>3, FlattenFirst
  <2>5. FlattenSeq(Tail(p)) \in Seq(Unit)
    BY <2>4, FlattenType
  <2>6. UnitAt(1, s) \in Unit /\ UnitAt(1, s).raw[1] = s[1]
    BY <2>1, UnitAtIs
  <2>7. Units(s)[1] = UnitAt(1, s) /\ Units(s) # <<>>
    <3> HIDE DEF Unit
    <3> QED BY <1>1, <2>4, <2>5, <2>6
  <2> QED BY <2>6, <2>7
<1> QED BY <1>2, <1>3, <1>4
\* No escape begins within another.
LEMMA EscapesApart ==
  ASSUME NEW s \in Seq(Char), NEW i \in 1..Len(s), Escape(i, s)
  PROVE  i + 2 <= Len(s) /\ ~Escape(i + 1, s) /\ ~Escape(i + 2, s)
<1>1. i + 2 <= Len(s) /\ to_char(s[i + 1], s[i + 2]) # 0
  BY DEF Escape
<1>2. s[i + 1] \in HexDigit /\ s[i + 2] \in HexDigit
  <2>1. s[i + 1] \in Char /\ s[i + 2] \in Char
    BY <1>1
  <2> QED BY <1>1, <2>1, ToCharIs
<1>3. Percent \notin HexDigit
  BY DEF HexDigit, URL_DIGIT, Percent
<1> QED BY <1>1, <1>2, <1>3 DEF Escape

\* Where the units end that begin at i or before.
EndAt(i, s) ==
  IF i \in 1..Len(s) /\ Escape(i, s) THEN i + 2
  ELSE IF i - 1 \in 1..Len(s) /\ Escape(i - 1, s) THEN i + 1 ELSE i

LEMMA EndAtIs ==
  ASSUME NEW s \in Seq(Char), NEW i \in 0..Len(s)
  PROVE  EndAt(i, s) \in i..Len(s) /\ EndAt(0, s) = 0 /\ EndAt(Len(s), s) = Len(s)
<1>1. ASSUME NEW j \in 1..Len(s), Escape(j, s) PROVE j + 2 <= Len(s)
  BY <1>1, EscapesApart
<1> QED BY <1>1 DEF EndAt
\* The raw texts of units.
Raws(us) == [k \in 1..Len(us) |-> us[k].raw]

\* The units that begin at i or before are what is written up to where they end.
LEMMA RawsAre ==
  ASSUME NEW us \in Seq(Unit)
  PROVE  /\ Raws(us) \in Seq(Seq(Char)) /\ Len(Raws(us)) = Len(us)
         /\ \A k \in 1..Len(us) : Raws(us)[k] = us[k].raw
<1>1. \A u \in Unit : u.raw \in Seq(Char)
  BY DEF Unit
<1> HIDE DEF Unit
<1> QED BY <1>1 DEF Raws

LEMMA RawsConcat ==
  ASSUME NEW a \in Seq(Unit), NEW b \in Seq(Unit)
  PROVE  Raws(a \o b) = Raws(a) \o Raws(b)
<1> HIDE DEF Unit
<1> DEFINE x == Raws(a \o b)
           y == Raws(a) \o Raws(b)
<1>1. a \o b \in Seq(Unit) /\ Len(a \o b) = Len(a) + Len(b) /\ Len(a) \in Nat /\ Len(b) \in Nat
  OBVIOUS
<1>2. /\ x \in Seq(Seq(Char)) /\ Len(x) = Len(a) + Len(b) /\ \A k \in 1..Len(a \o b) : x[k] = (a \o b)[k].raw
      /\ Raws(a) \in Seq(Seq(Char)) /\ Len(Raws(a)) = Len(a) /\ \A k \in 1..Len(a) : Raws(a)[k] = a[k].raw
      /\ Raws(b) \in Seq(Seq(Char)) /\ Len(Raws(b)) = Len(b) /\ \A k \in 1..Len(b) : Raws(b)[k] = b[k].raw
  BY <1>1, RawsAre
<1>3. y \in Seq(Seq(Char)) /\ Len(y) = Len(a) + Len(b)
  BY <1>2
<1>4. ASSUME NEW k \in 1..Len(a) + Len(b) PROVE x[k] = y[k]
  <2>1. CASE k <= Len(a)
    <3>1. k \in 1..Len(a) /\ k \in 1..Len(a \o b) /\ (a \o b)[k] = a[k]
      BY <1>1, <2>1
    <3>2. y[k] = Raws(a)[k]
      BY <1>2, <3>1
    <3> HIDE DEF x, y
    <3> QED BY <1>2, <3>1, <3>2
  <2>2. CASE k > Len(a)
    <3>1. k - Len(a) \in 1..Len(b) /\ k \in 1..Len(a \o b) /\ (a \o b)[k] = b[k - Len(a)]
      BY <1>1, <2>2
    <3>2. y[k] = Raws(b)[k - Len(a)]
      <4> DEFINE p == Raws(a)
                 q == Raws(b)
      <4>1. /\ p \in Seq(Seq(Char)) /\ q \in Seq(Seq(Char)) /\ Len(p) = Len(a) /\ Len(q) = Len(b)
            /\ k \in 1..Len(p) + Len(q) /\ k > Len(p) /\ y = p \o q
        BY <1>1, <1>2, <2>2
      <4> HIDE DEF p, q, x, y
      <4>2. (p \o q)[k] = q[k - Len(p)]
        BY <4>1
      <4>3. y[k] = q[k - Len(a)]
        BY <4>1, <4>2
      <4> QED BY <4>3 DEF q
    <3> HIDE DEF x, y
    <3> QED BY <1>2, <3>1, <3>2
  <2>3. k <= Len(a) \/ k > Len(a)
    BY <1>1
  <2> QED BY <2>1, <2>2, <2>3
<1> HIDE DEF x, y
<1>5. x = y
  BY <1>2, <1>3, <1>4, SeqEqual
<1> QED BY <1>5 DEF x, y

LEMMA UnitsUpTo ==
  ASSUME NEW s \in Seq(Char), NEW n \in 0..Len(s)
  PROVE  FlattenSeq(Raws(FlattenSeq(Take(n, UnitPieces(s))))) = Take(EndAt(n, s), s)
<1> DEFINE p == UnitPieces(s)
           Read(m) == FlattenSeq(Take(m, p))
           Good(m) == FlattenSeq(Raws(Read(m))) = Take(EndAt(m, s), s)
           T == {m \in Nat : m <= Len(s) /\ ~Good(m)}
<1>0. p \in Seq(Seq(Unit)) /\ Len(p) = Len(s) /\ Len(s) \in Nat
  BY UnitPiecesAre
<1>1. 0 \notin T
  <2>1. Read(0) = <<>>
    <3>1. Take(0, p) = <<>>
      BY <1>0 DEF Take
    <3> QED BY <3>1, FlattenEmpty
  <2>2. Raws(<<>>) = <<>>
    BY DEF Raws
  <2>3. EndAt(0, s) = 0
    BY EndAtIs, <1>0
  <2>4. Take(0, s) = <<>>
    BY DEF Take
  <2> HIDE DEF Read
  <2> QED BY <2>1, <2>2, <2>3, <2>4, FlattenEmpty
<1>2. ASSUME NEW m \in Nat, m + 1 \in T PROVE m \in T
  <2>1. m + 1 \in 1..Len(s) /\ m \in 0..Len(s) /\ ~Good(m + 1) /\ m <= Len(s)
    BY <1>2, <1>0
  <2> DEFINE us == Read(m)
             last == p[m + 1]
  <2>2. us \in Seq(Unit) /\ last \in Seq(Unit) /\ Read(m + 1) = us \o last
    <3> DEFINE sp == Take(m + 1, p)
    <3>1. sp \in Seq(Seq(Unit)) /\ Len(sp) = m + 1 /\ sp[m + 1] = last /\ Take(m, sp) = Take(m, p)
      <4> HIDE DEF p
      <4> QED BY <1>0, <2>1 DEF Take
    <3> HIDE DEF sp, p, last
    <3>2. Take(m, sp) \in Seq(Seq(Unit)) /\ sp = Append(Take(m, sp), sp[m + 1]) /\ sp[m + 1] \in Seq(Unit)
      BY <3>1, TakenApart
    <3>3. FlattenSeq(sp) = FlattenSeq(Take(m, sp)) \o sp[m + 1]
      BY <3>2, FlattenAppend
    <3>4. FlattenSeq(Take(m, sp)) \in Seq(Unit)
      BY <3>2, FlattenType
    <3> QED BY <3>1, <3>2, <3>3, <3>4 DEF sp
  <2>3. last = IF InEscape(m + 1, s) THEN <<>> ELSE <<UnitAt(m + 1, s)>>
    BY <2>1 DEF UnitPieces
  <2>4. InEscape(m + 1, s) <=> (m \in 1..Len(s) /\ Escape(m, s)) \/ (m - 1 \in 1..Len(s) /\ Escape(m - 1, s))
    <3>1. (m + 1) - 2 = m - 1 /\ (m + 1) - 1 = m
      OBVIOUS
    <3> QED BY <3>1 DEF InEscape
  <2>5. SUFFICES ASSUME Good(m) PROVE Good(m + 1)
    BY <2>1
  <2>6. FlattenSeq(Raws(Read(m + 1))) = Take(EndAt(m, s), s) \o FlattenSeq(Raws(last))
    <3>1. Raws(us \o last) = Raws(us) \o Raws(last) /\ Raws(us) \in Seq(Seq(Char)) /\ Raws(last) \in Seq(Seq(Char))
      BY <2>2, RawsConcat, RawsAre
    <3> HIDE DEF last, us
    <3>2. FlattenSeq(Raws(us) \o Raws(last)) = FlattenSeq(Raws(us)) \o FlattenSeq(Raws(last))
      BY <3>1, FlattenConcat
    <3> QED BY <2>2, <2>5, <3>1, <3>2 DEF us
  <2>7. CASE InEscape(m + 1, s)
    <3>1. FlattenSeq(Raws(last)) = <<>>
      <4>1. Raws(<<>>) = <<>>
        BY DEF Raws
      <4> QED BY <2>3, <2>7, <4>1, FlattenEmpty
    <3>2. EndAt(m + 1, s) = EndAt(m, s)
      <4>1. CASE m \in 1..Len(s) /\ Escape(m, s)
        <5>1. ~Escape(m + 1, s)
          BY <4>1, EscapesApart
        <5>2. (m + 1) - 1 = m /\ (m + 1) + 1 = m + 2
          OBVIOUS
        <5> QED BY <4>1, <5>1, <5>2 DEF EndAt
      <4>2. CASE m - 1 \in 1..Len(s) /\ Escape(m - 1, s)
        <5>1. ~Escape((m - 1) + 1, s) /\ ~Escape((m - 1) + 2, s)
          BY <4>2, EscapesApart
        <5>2. (m + 1) - 1 = m /\ (m - 1) + 1 = m /\ (m - 1) + 2 = m + 1
          OBVIOUS
        <5> QED BY <4>2, <5>1, <5>2 DEF EndAt
      <4> QED BY <2>4, <2>7, <4>1, <4>2
    <3>3. Take(EndAt(m, s), s) \in Seq(Char)
      BY <2>1, EndAtIs, TakeIs
    <3>4. Take(EndAt(m, s), s) \o <<>> = Take(EndAt(m, s), s)
      BY <3>3
    <3> QED BY <2>6, <3>1, <3>2, <3>4
  <2>8. CASE ~InEscape(m + 1, s)
    <3> DEFINE raw == UnitAt(m + 1, s).raw
    <3>1. raw \in Seq(Char)
      <4>1. UnitAt(m + 1, s) \in Unit
        BY <2>1, UnitAtIs
      <4> QED BY <4>1 DEF Unit
    <3>2. FlattenSeq(Raws(last)) = raw
      <4>1. Raws(last) = <<raw>>
        BY <2>3, <2>8 DEF Raws
      <4> HIDE DEF raw
      <4> QED BY <3>1, <4>1, FlattenOne
    <3>3. EndAt(m, s) = m
      BY <2>4, <2>8 DEF EndAt
    <3>4. raw = SubSeq(s, m + 1, EndAt(m + 1, s))
      <4>1. CASE Escape(m + 1, s)
        <5>1. raw = SubSeq(s, m + 1, (m + 1) + 2)
          BY <2>1, <4>1, UnitAtIs
        <5>2. EndAt(m + 1, s) = (m + 1) + 2
          BY <2>1, <4>1 DEF EndAt
        <5> QED BY <5>1, <5>2
      <4>2. CASE ~Escape(m + 1, s)
        <5>1. Plain(UnitAt(m + 1, s)) /\ UnitAt(m + 1, s).char = s[m + 1]
          BY <2>1, <4>2, UnitAtIs
        <5>2. raw = <<s[m + 1]>>
          BY <5>1 DEF Plain
        <5>3. EndAt(m + 1, s) = m + 1
          <6>1. (m + 1) - 1 = m
            OBVIOUS
          <6> QED BY <2>1, <2>4, <2>8, <4>2, <6>1 DEF EndAt
        <5>4. SubSeq(s, m + 1, m + 1) = <<s[m + 1]>>
          BY <2>1, SubSeqOne
        <5> QED BY <5>2, <5>3, <5>4
      <4> QED BY <4>1, <4>2
    <3>5. EndAt(m + 1, s) \in m..Len(s)
      <4>1. EndAt(m + 1, s) \in m + 1..Len(s)
        BY <2>1, EndAtIs
      <4> QED BY <4>1, <2>1
    <3>6. SubSeq(s, 1, m) \o SubSeq(s, m + 1, EndAt(m + 1, s)) = SubSeq(s, 1, EndAt(m + 1, s))
      <4>1. 1 \in 1..Len(s) + 1 /\ m \in 1 - 1..Len(s)
        BY <2>1
      <4> QED BY <4>1, <3>5, ConcatAdjacentSubSeq
    <3> HIDE DEF raw, last
    <3> QED BY <2>6, <3>2, <3>3, <3>4, <3>6 DEF Take
  <2> HIDE DEF Good
  <2> QED BY <2>7, <2>8
<1>3. T = {}
  <2>1. T \subseteq Nat
    OBVIOUS
  <2> HIDE DEF T
  <2> QED BY <2>1, <1>1, <1>2, NoLeast
<1> QED BY <1>0, <1>3
\* All units are all that is written.
LEMMA UnitsSpell ==
  ASSUME NEW s \in Seq(Char)
  PROVE  FlattenSeq(Raws(Units(s))) = s
<1>1. Len(s) \in 0..Len(s) /\ EndAt(Len(s), s) = Len(s)
  <2>1. Len(s) \in 0..Len(s)
    OBVIOUS
  <2> QED BY <2>1, EndAtIs
<1>2. FlattenSeq(Raws(FlattenSeq(Take(Len(s), UnitPieces(s))))) = Take(Len(s), s)
  BY <1>1, UnitsUpTo
<1>3. Take(Len(s), UnitPieces(s)) = UnitPieces(s)
  <2>1. UnitPieces(s) \in Seq(Seq(Unit)) /\ Len(UnitPieces(s)) = Len(s)
    BY UnitPiecesAre
  <2> QED BY <2>1 DEF Take
<1>4. Take(Len(s), s) = s
  BY DEF Take
<1> QED BY <1>2, <1>3, <1>4 DEF Units, UnitPieces

(***************************************************************************)
(* The path of the spelling.                                               *)
(***************************************************************************)
\* Whatever its parts are, a path ends where no character of a query can stand.
LEMMA PathEndsIs ==
  ASSUME NEW s \in Seq(Char), NEW i \in 1..Len(s) + 1
  PROVE  PathEnds(i, s, PCHAR, PARAM, UCH_RES)[3] = Skip(i, UCH_RES, s)
<1> DEFINE n == Len(s)
           a == PCHAR \union {Slash}
           b == PARAM \union {Semicolon}
           c == UCH_RES \union {Question}
           path == Skip(i, a, s)
           params == GroupEnd(path, Semicolon, PARAM, s)
           end == GroupEnd(params, Question, UCH_RES, s)
<1>1. /\ a \subseteq UCH_RES /\ b \subseteq UCH_RES /\ c = UCH_RES
      /\ \A d \in UCH_RES : (d \notin a => d \in {Semicolon, Question}) /\ (d \notin b => d = Question)
  BY DEF PCHAR, PARAM, UCH_RES, Slash, Semicolon, Question, Hash
<1>2. /\ path \in i..n + 1 /\ \A j \in i..path - 1 : s[j] \in a
      /\ path <= n => s[path] \notin a
  BY SkipIs
<1>3. /\ params \in path..n + 1 /\ \A j \in path..params - 1 : s[j] \in b
      /\ params <= n /\ s[params] \in UCH_RES => s[params] = Question
  <2> HIDE DEF path, a
  <2>1. path \in 1..n + 1
    BY <1>2
  <2>2. CASE path <= n /\ s[path] = Semicolon
    <3>1. params = Skip(path, b, s)
      BY <2>2 DEF GroupEnd
    <3>2. /\ Skip(path, b, s) \in path..n + 1 /\ \A j \in path..Skip(path, b, s) - 1 : s[j] \in b
          /\ Skip(path, b, s) <= n => s[Skip(path, b, s)] \notin b
      BY <2>1, SkipIs
    <3> HIDE DEF params, b
    <3> QED BY <3>1, <3>2, <1>1
  <2>3. CASE ~(path <= n /\ s[path] = Semicolon)
    <3>1. params = path
      BY <2>3 DEF GroupEnd
    <3> HIDE DEF params
    <3> QED BY <3>1, <2>1, <2>3, <1>1, <1>2
  <2> QED BY <2>2, <2>3
<1>4. /\ end \in params..n + 1 /\ \A j \in params..end - 1 : s[j] \in UCH_RES
      /\ end <= n => s[end] \notin UCH_RES
  <2> HIDE DEF path, params, a, b
  <2>1. params \in 1..n + 1
    BY <1>2, <1>3
  <2>2. CASE params <= n /\ s[params] = Question
    <3>1. end = Skip(params, c, s)
      BY <2>2 DEF GroupEnd
    <3>2. /\ Skip(params, c, s) \in params..n + 1 /\ \A j \in params..Skip(params, c, s) - 1 : s[j] \in c
          /\ Skip(params, c, s) <= n => s[Skip(params, c, s)] \notin c
      BY <2>1, SkipIs
    <3> HIDE DEF end, c
    <3> QED BY <3>1, <3>2, <1>1
  <2>3. CASE ~(params <= n /\ s[params] = Question)
    <3>1. end = params
      BY <2>3 DEF GroupEnd
    <3> HIDE DEF end
    <3> QED BY <3>1, <2>1, <2>3, <1>1, <1>3
  <2> QED BY <2>2, <2>3
<1>5. PathEnds(i, s, PCHAR, PARAM, UCH_RES)[3] = end
  BY DEF PathEnds
<1> HIDE DEF path, params, end, a, b, c
<1>6. /\ end \in i..n + 1 /\ \A j \in i..end - 1 : s[j] \in UCH_RES
      /\ end <= n => s[end] \notin UCH_RES
  <2>1. end \in i..n + 1
    BY <1>2, <1>3, <1>4
  <2>2. ASSUME NEW j \in i..end - 1 PROVE s[j] \in UCH_RES
    <3>1. j \in i..path - 1 \/ j \in path..params - 1 \/ j \in params..end - 1
      BY <1>2, <1>3, <1>4
    <3> QED BY <3>1, <1>1, <1>2, <1>3, <1>4
  <2> QED BY <2>1, <2>2, <1>4
<1> QED BY <1>5, <1>6, SkipWhen
\* What single_path_nointer writes for a unit does not depend on the part it is in:
\* the characters in which the parts differ are reserved.
Recoded(u) == IF Plain(u) \/ u.char \in UCH_RES \ RESERVED THEN <<u.char>> ELSE u.raw

LEMMA RecodeIs ==
  ASSUME NEW u \in Unit, NEW class \in {PCHAR, PARAM, UCH_RES}
  PROVE  /\ Recode(class, u) = Recoded(u)
         /\ Recoded(u) \in Seq(Char) /\ 1 <= Len(Recoded(u)) /\ Len(Recoded(u)) <= Len(u.raw)
         /\ u.raw[1] \in UCH_RES => Recoded(u) \in Seq(UCH_RES)
<1>1. u.raw \in Seq(Char) /\ u.char \in Char /\ (Plain(u) \/ Escaped(u))
  BY DEF Unit
<1>2. Plain(u) <=> Len(u.raw) = 1
  <2>1. Plain(u) => Len(u.raw) = 1
    BY DEF Plain
  <2>2. Escaped(u) => Len(u.raw) # 1
    BY DEF Escaped
  <2> QED BY <1>1, <2>1, <2>2
<1>3. class \ RESERVED = UCH_RES \ RESERVED
  BY DEF PCHAR, PARAM, UCH_RES, RESERVED, Slash, Semicolon, Question, Hash
<1>4. Recode(class, u) = Recoded(u)
  BY <1>2, <1>3 DEF Recode, Recoded
<1>5. Recoded(u) \in Seq(Char) /\ 1 <= Len(Recoded(u)) /\ Len(Recoded(u)) <= Len(u.raw)
  <2>1. CASE Plain(u)
    BY <1>1, <2>1 DEF Plain, Recoded
  <2>2. CASE Escaped(u)
    <3>1. u.raw \in Seq(Char) /\ Len(u.raw) = 3
      BY <1>1, <2>2 DEF Escaped
    <3>2. CASE Recoded(u) = <<u.char>>
      <4>1. <<u.char>> \in Seq(Char)
        BY <1>1
      <4>2. Len(Recoded(u)) = 1
        BY <3>2
      <4>3. 1 <= Len(Recoded(u)) /\ Len(Recoded(u)) <= Len(u.raw)
        BY <3>1, <4>2
      <4> QED BY <3>2, <4>1, <4>3, Zenon
    <3>3. CASE Recoded(u) = u.raw
      <4>1. 1 <= Len(u.raw) /\ Len(u.raw) <= Len(u.raw)
        BY <3>1
      <4> QED BY <3>1, <3>3, <4>1, Zenon
    <3> QED BY <3>2, <3>3 DEF Recoded
  <2> QED BY <1>1, <2>1, <2>2
<1>6. ASSUME u.raw[1] \in UCH_RES PROVE Recoded(u) \in Seq(UCH_RES)
  <2>1. CASE Plain(u)
    <3>1. u.char = u.raw[1]
      BY <2>1 DEF Plain
    <3> QED BY <1>6, <2>1, <3>1 DEF Recoded
  <2>2. CASE ~Plain(u) /\ u.char \in UCH_RES \ RESERVED
    BY <2>2 DEF Recoded
  <2>3. CASE ~Plain(u) /\ u.char \notin UCH_RES \ RESERVED
    <3>1. Recoded(u) = u.raw /\ Escaped(u)
      BY <1>1, <2>3 DEF Recoded
    <3>2. HexDigit \subseteq UCH_RES
      BY DEF HexDigit, URL_DIGIT, UCH_RES, Hash
    <3>3. Len(u.raw) = 3 /\ \A j \in 1..3 : u.raw[j] \in UCH_RES
      BY <1>6, <3>1, <3>2 DEF Escaped
    <3>4. u.raw \in Seq(UCH_RES)
      BY <1>1, <3>3, InSeq
    <3> QED BY <3>1, <3>4
  <2> QED BY <2>1, <2>2, <2>3
<1> QED BY <1>4, <1>5, <1>6

LEMMA CharClasses == UCH_RES \subseteq Char /\ Slash \in UCH_RES /\ Space \in UCH_RES /\ Percent \in UCH_RES
BY DEF UCH_RES, Char, Slash, Space, Percent, Hash

\* The heads of units, and how many belong to the path.
Heads(us)  == [i \in 1..Len(us) |-> us[i].raw[1]]
InPart(us) == Skip(1, UCH_RES, Heads(us)) - 1
Recodes(us) == [i \in 1..InPart(us) |-> Recoded(us[i])]

LEMMA InPartIs ==
  ASSUME NEW us \in Seq(Unit)
  PROVE  /\ Heads(us) \in Seq(Char) /\ Len(Heads(us)) = Len(us)
         /\ InPart(us) \in 0..Len(us)
         /\ \A i \in 1..InPart(us) : us[i].raw[1] \in UCH_RES
         /\ InPart(us) < Len(us) => us[InPart(us) + 1].raw[1] \notin UCH_RES
         /\ \A i \in 1..Len(us) : us[i] \in Unit /\ us[i].raw \in Seq(Char) /\ us[i].raw # <<>>
<1>1. \A u \in Unit : u.raw \in Seq(Char) /\ u.raw # <<>> /\ u.raw[1] \in Char
  BY DEF Unit, Plain, Escaped
<1>2. \A i \in 1..Len(us) : us[i] \in Unit
  <2> HIDE DEF Unit
  <2> QED OBVIOUS
<1>3. Heads(us) \in Seq(Char) /\ Len(Heads(us)) = Len(us) /\ \A i \in 1..Len(us) : Heads(us)[i] = us[i].raw[1]
  BY <1>1, <1>2 DEF Heads
<1> DEFINE k == Skip(1, UCH_RES, Heads(us))
<1>4. /\ k \in 1..Len(us) + 1 /\ \A j \in 1..k - 1 : Heads(us)[j] \in UCH_RES
      /\ k <= Len(us) => Heads(us)[k] \notin UCH_RES
  <2>1. 1 \in 1..Len(Heads(us)) + 1
    BY <1>3, SMTT(30)
  <2> QED BY <1>3, <2>1, SkipIs
<1>5. InPart(us) = k - 1
  BY SMTT(30) DEF InPart
<1> HIDE DEF k
<1> QED BY <1>1, <1>2, <1>3, <1>4, <1>5

LEMMA SinglePathWhen ==
  ASSUME NEW path \in Seq(Char),
         single_path_nointer(path).ok \/ InPart(Units(path)) = Len(Units(path))
  PROVE  single_path_nointer(path) = WithoutSpaces(FlattenSeq(Recodes(Units(path))))
<1> DEFINE us == Units(path)
           heads == [i \in 1..Len(us) |-> Head(us[i].raw)]
           ends == PathEnds(1, heads, PCHAR, PARAM, UCH_RES)
           class(i) == IF i < ends[1] THEN PCHAR ELSE IF i < ends[2] THEN PARAM ELSE UCH_RES
           text == FlattenSeq([i \in 1..ends[3] - 1 |-> Recode(class(i), us[i])])
<1>1. us \in Seq(Unit)
  BY UnitsAre, SMTT(30)
<1>2. single_path_nointer(path) =
        IF ends[3] <= Len(us) /\ Head(us[ends[3]].raw) # Hash THEN Failed ELSE WithoutSpaces(text)
  BY DEF single_path_nointer, PathText, Each
<1>3. heads = Heads(us)
  BY DEF Heads
<1>4. ends[3] - 1 = InPart(us) /\ ends[3] \in Int
  <2> HIDE DEF us
  <2>1. Heads(us) \in Seq(Char) /\ 1 \in 1..Len(Heads(us)) + 1
    BY <1>1, InPartIs
  <2>2. ends[3] = Skip(1, UCH_RES, heads)
    <3> HIDE DEF heads
    <3> QED BY <2>1, <1>3, PathEndsIs
  <2>3. Skip(1, UCH_RES, heads) \in Nat
    <3>1. Skip(1, UCH_RES, Heads(us)) \in 1..Len(Heads(us)) + 1 /\ Len(Heads(us)) \in Nat
      BY <2>1, SkipIs
    <3>2. Skip(1, UCH_RES, Heads(us)) \in Nat
      BY <3>1
    <3> HIDE DEF heads
    <3> QED BY <3>2, <1>3
  <2> HIDE DEF heads, ends
  <2> QED BY <2>2, <2>3, <1>3 DEF InPart
<1>5. single_path_nointer(path) = WithoutSpaces(text)
  <2>1. Len(us) \in Nat
    BY <1>1
  <2>2. CASE InPart(us) = Len(us)
    <3>1. ends[3] - 1 = Len(us) /\ ends[3] \in Int
      BY <1>4, <2>2
    <3> HIDE DEF us, ends, text
    <3>2. ~(ends[3] <= Len(us))
      BY <2>1, <3>1
    <3> QED BY <1>2, <3>2
  <2>3. CASE single_path_nointer(path).ok
    <3> HIDE DEF us, ends, text
    <3> QED BY <1>2, <2>3 DEF Failed
  <2> QED BY <2>2, <2>3
<1>6. \A i \in 1..InPart(us) : Recode(class(i), us[i]) = Recoded(us[i])
  <2> HIDE DEF us, ends
  <2>1. ASSUME NEW i \in 1..InPart(us) PROVE Recode(class(i), us[i]) = Recoded(us[i])
    <3>1. class(i) \in {PCHAR, PARAM, UCH_RES}
      OBVIOUS
    <3>2. us[i] \in Unit
      BY <1>1, InPartIs
    <3> HIDE DEF class
    <3> QED BY <3>1, <3>2, RecodeIs
  <2> QED BY <2>1
<1>7. text = FlattenSeq(Recodes(us))
  <2> HIDE DEF us, ends, class
  <2> QED BY <1>4, <1>6 DEF Recodes
<1> QED BY <1>5, <1>7, SMTT(30)

LEMMA SinglePathIs ==
  ASSUME NEW path \in Seq(Char), single_path_nointer(path).ok
  PROVE  single_path_nointer(path) = WithoutSpaces(FlattenSeq(Recodes(Units(path))))
BY SinglePathWhen

(***************************************************************************)
(* Resolving a path.                                                       *)
(***************************************************************************)
\* Characters of a path, from a slash on.
Path == {s \in Seq(UCH_RES) : s # <<>> /\ s[1] = Slash}

LEMMA PathIs ==
  ASSUME NEW s \in Path
  PROVE  s \in Seq(UCH_RES) /\ s \in Seq(Char) /\ Len(s) \in Nat \ {0} /\ s[1] = Slash
<1>1. s \in Seq(UCH_RES) /\ s # <<>> /\ s[1] = Slash
  BY DEF Path
<1>2. UCH_RES \subseteq Char
  BY CharClasses
<1>3. Len(s) \in Nat \ {0}
  BY <1>1
<1>4. \A i \in 1..Len(s) : s[i] \in Char
  BY <1>1, <1>2
<1> QED BY <1>1, <1>3, <1>4, InSeq

\* The parent of a path ends with the last slash before its last character.
LEMMA ParentIs ==
  ASSUME NEW out \in Path
  PROVE  /\ Parent(out) \in Path
         /\ Len(out) = 1 => Parent(out) = out
         /\ Len(out) # 1 => \E k \in 1..Len(out) - 1 :
              /\ Parent(out) = Take(k, out) /\ out[k] = Slash
              /\ \A j \in k + 1..Len(out) - 1 : out[j] # Slash
<1>1. out \in Seq(UCH_RES) /\ out \in Seq(Char) /\ Len(out) \in Nat \ {0} /\ out[1] = Slash
  BY PathIs
<1>2. CASE Len(out) = 1
  BY <1>2 DEF Parent
<1>3. CASE Len(out) # 1
  <2> DEFINE m == Len(out) - 1
             front == Front(out)
  <2>1. m \in Nat /\ m >= 1 /\ m \in 0..Len(out) /\ front = Take(m, out)
    <3>1. front = Take(m, out)
      BY DEF Front, Take
    <3>2. m \in Nat /\ m >= 1 /\ m \in 0..Len(out)
      <4>1. \A n \in Nat \ {0} : n # 1 => n - 1 \in Nat /\ n - 1 >= 1 /\ n - 1 \in 0..n
        OBVIOUS
      <4> QED BY <4>1, <1>1, <1>3, Zenon
    <3> HIDE DEF front, m
    <3> QED BY <3>1, <3>2
  <2>2. front \in Seq(Char) /\ Len(front) = m /\ \A j \in 1..m : front[j] = out[j]
    <3>1. Take(m, out) \in Seq(Char) /\ Len(Take(m, out)) = m
      BY <1>1, <2>1, TakeIs
    <3>2. \A j \in 1..m : Take(m, out)[j] = out[j]
      BY <1>1, <2>1, TakeIs
    <3> HIDE DEF front, m
    <3> QED BY <2>1, <3>1, <3>2
  <2>3. Parent(out) = Strip(Char \ {Slash}, front)
    BY <1>3 DEF Parent, BackToSlash
  <2> HIDE DEF front, m
  <2>4. PICK k \in 0..Len(front) :
           /\ Strip(Char \ {Slash}, front) = Take(k, front)
           /\ k > 0 => front[k] \notin Char \ {Slash}
           /\ \A j \in k + 1..Len(front) : front[j] \in Char \ {Slash}
    BY <2>2, StripIs
  <2>5. k # 0
    <3>1. front[1] = Slash
      BY <1>1, <2>1, <2>2
    <3>2. k = 0 => front[1] \in Char \ {Slash}
      BY <2>1, <2>2, <2>4
    <3> QED BY <3>1, <3>2
  <2>6. k \in 1..m /\ front[k] = Slash
    <3>1. k \in 1..m /\ k > 0
      BY <2>2, <2>4, <2>5
    <3>2. front[k] \in Char
      BY <3>1, <2>2
    <3> QED BY <3>1, <3>2, <2>4
  <2>7. Take(k, front) = Take(k, out)
    BY <1>1, <2>1, <2>6 DEF Take
  <2>8. Take(k, out) \in Seq(UCH_RES) /\ Len(Take(k, out)) = k /\ Take(k, out)[1] = Slash
    <3>1. k \in 0..Len(out) /\ 1 \in 1..k
      BY <1>1, <2>1, <2>6
    <3> QED BY <1>1, <3>1, TakeIs
  <2>9. Parent(out) \in Path
    BY <2>3, <2>4, <2>6, <2>7, <2>8 DEF Path
  <2>10. \A j \in k + 1..m : out[j] # Slash
    BY <2>2, <2>4, <2>6, <2>1
  <2>11. m = Len(out) - 1 /\ out[k] = Slash
    BY <2>2, <2>6 DEF m
  <2> QED BY <1>3, <2>3, <2>4, <2>6, <2>7, <2>9, <2>10, <2>11
<1> QED BY <1>2, <1>3

\* The first n rounds.
RoundsOf(path, n, f) ==
  f = [i \in 0..n |-> IF i = 0 THEN [out |-> <<Slash>>, rest |-> path] ELSE NextRound(f[i - 1])]

LEMMA RoundsOfExist ==
  ASSUME NEW path, NEW N \in Nat
  PROVE  \E f : RoundsOf(path, N, f)
<1> DEFINE T == {n \in Nat : ~ \E f : RoundsOf(path, n, f)}
<1>1. RoundsOf(path, 0, [i \in 0..0 |-> [out |-> <<Slash>>, rest |-> path]])
  BY DEF RoundsOf
<1>2. ASSUME NEW n \in Nat, n \notin T PROVE n + 1 \notin T
  <2>1. PICK f : RoundsOf(path, n, f)
    BY <1>2
  <2> DEFINE g == [i \in 0..n + 1 |-> IF i = n + 1 THEN NextRound(f[n]) ELSE f[i]]
  <2>2. RoundsOf(path, n + 1, g)
    BY <2>1 DEF RoundsOf
  <2> HIDE DEF g
  <2> QED BY <2>2
<1>3. 0 \notin T
  BY <1>1
<1> HIDE DEF T
<1>4. T = {}
  BY <1>2, <1>3, NoLeast DEF T
<1> QED BY <1>4 DEF T

LEMMA ResolveIs ==
  ASSUME NEW path, Len(path) \in Nat
  PROVE  \E f : RoundsOf(path, Len(path), f) /\ Resolve(path) = f[Len(path)].out
<1> DEFINE f == CHOOSE g : RoundsOf(path, Len(path), g)
<1>1. RoundsOf(path, Len(path), f)
  BY RoundsOfExist
<1>2. Resolve(path) = f[Len(path)].out
  BY DEF Resolve, RoundsOf
<1> QED BY <1>1, <1>2

\* A round writes a path, and reads what remains of one.
IsRound(r) == r.out \in Path /\ r.rest \in Seq(UCH_RES)

LEMMA RoundKeeps ==
  ASSUME NEW r, IsRound(r)
  PROVE  IsRound(NextRound(r))
<1> DEFINE out == r.out
           rest == r.rest
<1>1. out \in Path /\ rest \in Seq(UCH_RES) /\ Parent(out) \in Path
  BY ParentIs DEF IsRound
<1>2. ASSUME rest # <<>> PROVE Append(out, Head(rest)) \in Path /\ Tail(rest) \in Seq(UCH_RES)
  <2>1. Head(rest) \in UCH_RES /\ Tail(rest) \in Seq(UCH_RES)
    BY <1>1, <1>2
  <2>2. out \in Seq(UCH_RES) /\ Len(out) \in Nat \ {0} /\ out[1] = Slash
    BY <1>1, PathIs
  <2> HIDE DEF out, rest
  <2>3. Append(out, Head(rest)) \in Seq(UCH_RES) /\ Append(out, Head(rest))[1] = Slash
        /\ Append(out, Head(rest)) # <<>>
    BY <2>1, <2>2
  <2> QED BY <2>1, <2>3 DEF Path
<1>3. \A n \in Nat : n <= Len(rest) => Drop(n, rest) \in Seq(UCH_RES)
  BY <1>1, DropIs
<1>4. IsPrefix(<<Dot, Slash>>, rest) => 2 <= Len(rest)
  BY DEF IsPrefix
<1>5. IsPrefix(<<Dot, Dot, Slash>>, rest) => 3 <= Len(rest)
  BY DEF IsPrefix
<1>6. <<>> \in Seq(UCH_RES)
  OBVIOUS
<1>7. NextRound(r) = ResolveRound(out, rest)
  BY DEF NextRound
<1> HIDE DEF out, rest
<1>8. ResolveRound(out, rest) \in [out : Path, rest : Seq(UCH_RES)]
  <2> DEFINE write == [out |-> Append(out, Head(rest)), rest |-> Tail(rest)]
             Rounds == [out : Path, rest : Seq(UCH_RES)]
  <2>1. [out |-> out, rest |-> rest] \in Rounds
    BY <1>1
  <2>2. rest # <<>> => write \in Rounds
    BY <1>2
  <2>3. IsPrefix(<<Dot, Slash>>, rest) => [out |-> out, rest |-> Drop(2, rest)] \in Rounds
    BY <1>1, <1>3, <1>4
  <2>4. IsPrefix(<<Dot, Dot, Slash>>, rest) => [out |-> Parent(out), rest |-> Drop(3, rest)] \in Rounds
    BY <1>1, <1>3, <1>5
  <2>5. rest # <<>> => [out |-> out, rest |-> Tail(rest)] \in Rounds
    BY <1>1, <1>2
  <2>6. [out |-> out, rest |-> <<>>] \in Rounds /\ [out |-> Parent(out), rest |-> <<>>] \in Rounds
    BY <1>1, <1>6
  <2> HIDE DEF write, Rounds
  <2> QED BY <2>1, <2>2, <2>3, <2>4, <2>5, <2>6 DEF ResolveRound, write, Rounds
<1> QED BY <1>7, <1>8 DEF IsRound

LEMMA RoundsAre ==
  ASSUME NEW path \in Seq(UCH_RES), NEW N \in Nat, NEW f, RoundsOf(path, N, f)
  PROVE  \A n \in 0..N : IsRound(f[n])
<1> DEFINE T == {n \in Nat : n <= N /\ ~IsRound(f[n])}
<1>0. \A i \in 0..N : f[i] = IF i = 0 THEN [out |-> <<Slash>>, rest |-> path] ELSE NextRound(f[i - 1])
  BY DEF RoundsOf
<1>1. 0 \notin T
  <2>1. f[0] = [out |-> <<Slash>>, rest |-> path]
    BY <1>0
  <2>2. <<Slash>> \in Path
    <3>1. <<Slash>> \in Seq(UCH_RES)
      BY CharClasses
    <3> QED BY <3>1 DEF Path
  <2> QED BY <2>1, <2>2 DEF IsRound
<1>2. ASSUME NEW n \in Nat, n + 1 \in T PROVE n \in T
  <2>1. n + 1 \in 0..N /\ n + 1 # 0 /\ (n + 1) - 1 = n /\ ~IsRound(f[n + 1])
    BY <1>2
  <2>2. f[n + 1] = NextRound(f[n])
    BY <2>1, <1>0
  <2>3. ~IsRound(f[n])
    BY <2>1, <2>2, RoundKeeps
  <2> QED BY <2>1, <2>3
<1>3. T = {}
  <2>1. T \subseteq Nat
    OBVIOUS
  <2> HIDE DEF T
  <2> QED BY <2>1, <1>1, <1>2, NoLeast
<1> QED BY <1>3

LEMMA ResolveType ==
  ASSUME NEW path \in Seq(UCH_RES)
  PROVE  Resolve(path) \in Path
<1>1. Len(path) \in Nat
  OBVIOUS
<1>2. PICK f : RoundsOf(path, Len(path), f) /\ Resolve(path) = f[Len(path)].out
  BY <1>1, ResolveIs
<1>3. IsRound(f[Len(path)])
  BY <1>1, <1>2, RoundsAre
<1> QED BY <1>2, <1>3 DEF IsRound

LEMMA ReplaceSlashIs ==
  ASSUME NEW path \in Path
  PROVE  replace_slash(path) \in Path /\ Len(replace_slash(path)) = Len(path)
<1>1. path \in Seq(UCH_RES) /\ Len(path) \in Nat \ {0} /\ path[1] = Slash /\ Slash \in UCH_RES
  BY PathIs, CharClasses
<1>2. replace_slash(path)[1] = Slash
  BY <1>1 DEF replace_slash
<1>3. replace_slash(path) \in Seq(UCH_RES) /\ Len(replace_slash(path)) = Len(path)
  BY <1>1 DEF replace_slash
<1> QED BY <1>1, <1>2, <1>3 DEF Path

LEMMA QueryStartIs ==
  ASSUME NEW path \in Path
  PROVE  /\ QueryStart(path) \in 2..Len(path) + 1
         /\ QueryStart(path) <= Len(path) => path[QueryStart(path)] \in {Question, Semicolon}
<1>1. path \in Seq(Char) /\ Len(path) \in Nat \ {0} /\ path[1] = Slash
  BY PathIs
<1>2. \A c : /\ Find(c, path) \in 1..Len(path) + 1
             /\ Find(c, path) <= Len(path) => path[Find(c, path)] = c
  BY <1>1, FindIs
<1>3. Slash # Question /\ Slash # Semicolon
  BY DEF Slash, Question, Semicolon
<1>4. QueryStart(path) \in {Find(Question, path), Find(Semicolon, path)}
  BY DEF QueryStart
<1> DEFINE k == QueryStart(path)
<1>5. k \in 1..Len(path) + 1 /\ (k <= Len(path) => path[k] \in {Question, Semicolon})
  BY <1>2, <1>4
<1> HIDE DEF k
<1>6. k # 1
  BY <1>1, <1>3, <1>5
<1>7. k \in 2..Len(path) + 1
  BY <1>5, <1>6
<1> QED BY <1>5, <1>7 DEF k

LEMMA NormalizePathType ==
  ASSUME NEW path \in Path
  PROVE  normalize_path(path) \in Path
<1> DEFINE slashed == replace_slash(path)
           start == QueryStart(slashed)
           body == SubSeq(slashed, 2, start - 1)
           query == Drop(start - 1, slashed)
<1>1. slashed \in Path /\ slashed \in Seq(UCH_RES) /\ Len(slashed) \in Nat
  BY ReplaceSlashIs, PathIs
<1>2. start \in 2..Len(slashed) + 1
  BY <1>1, QueryStartIs
<1>3. normalize_path(path) = Resolve(body) \o query
  BY DEF normalize_path
<1> HIDE DEF slashed, start
<1>4. body \in Seq(UCH_RES) /\ query \in Seq(UCH_RES)
  <2>1. start - 1 \in 0..Len(slashed)
    BY <1>1, <1>2
  <2>2. query \in Seq(UCH_RES)
    BY <1>1, <2>1, DropIs
  <2>3. body \in Seq(UCH_RES)
    BY <1>1, <1>2
  <2> QED BY <2>2, <2>3
<1> HIDE DEF body, query
<1>5. Resolve(body) \in Path
  BY <1>4, ResolveType
<1> DEFINE x == Resolve(body)
<1>6. x \in Seq(UCH_RES) /\ Len(x) \in Nat \ {0} /\ x[1] = Slash
  BY <1>5, PathIs
<1> HIDE DEF x
<1>7. x \o query \in Seq(UCH_RES) /\ x \o query # <<>> /\ (x \o query)[1] = Slash
  BY <1>4, <1>6
<1> QED BY <1>3, <1>7 DEF Path, x

(***************************************************************************)
(* The path that normalize_path is given.                                  *)
(***************************************************************************)
LEMMA RecodesAre ==
  ASSUME NEW us \in Seq(Unit)
  PROVE  Recodes(us) \in Seq(Seq(UCH_RES)) /\ Len(Recodes(us)) = InPart(us)
<1>1. /\ InPart(us) \in 0..Len(us)
      /\ \A i \in 1..InPart(us) : us[i].raw[1] \in UCH_RES
      /\ \A i \in 1..Len(us) : us[i] \in Unit
  BY InPartIs
<1>2. \A i \in 1..InPart(us) : Recoded(us[i]) \in Seq(UCH_RES)
  <2> TAKE i \in 1..InPart(us)
  <2>1. us[i] \in Unit /\ us[i].raw[1] \in UCH_RES
    BY <1>1
  <2>2. PCHAR \in {PCHAR, PARAM, UCH_RES}
    OBVIOUS
  <2> QED BY <2>1, <2>2, RecodeIs
<1>3. InPart(us) \in Nat
  BY <1>1
<1> QED BY <1>2, <1>3 DEF Recodes

LEMMA WithoutSpacesIs ==
  ASSUME NEW t \in Path, WithoutSpaces(t).ok
  PROVE  WithoutSpaces(t).text \in Path
<1> DEFINE f == [i \in 1..Len(t) |-> IF t[i] = Space THEN <<Percent, 50, 48>> ELSE <<t[i]>>]
           u == FlattenSeq(f)
<1>1. t \in Seq(UCH_RES) /\ Len(t) \in Nat \ {0} /\ t[1] = Slash
  BY PathIs
<1>2. Space \notin Range(t) => WithoutSpaces(t) = [ok |-> TRUE, text |-> t]
  BY DEF WithoutSpaces, Text
<1>3. CASE Space \in Range(t)
  <2>1. WithoutSpaces(t) = IF Len(u) < MAX_PATH_LEN THEN [ok |-> TRUE, text |-> u] ELSE Failed
    BY <1>3 DEF WithoutSpaces, space_escape_path, Replace, Each, Text
  <2>2. f \in Seq(Seq(UCH_RES)) /\ f # <<>> /\ f[1] = <<Slash>>
    <3>1. <<Percent, 50, 48>> \in Seq(UCH_RES)
      <4>1. Percent \in UCH_RES /\ 50 \in UCH_RES /\ 48 \in UCH_RES
        BY DEF UCH_RES, Percent, Hash
      <4> QED BY <4>1
    <3>2. \A i \in 1..Len(t) : (IF t[i] = Space THEN <<Percent, 50, 48>> ELSE <<t[i]>>) \in Seq(UCH_RES)
      BY <1>1, <3>1
    <3>3. f[1] = <<Slash>>
      BY <1>1 DEF Slash, Space
    <3>4. f \in Seq(Seq(UCH_RES)) /\ Len(f) = Len(t)
      BY <1>1, <3>2
    <3> HIDE DEF f
    <3> QED BY <1>1, <3>3, <3>4
  <2> HIDE DEF f
  <2>3. Tail(f) \in Seq(Seq(UCH_RES)) /\ u = <<Slash>> \o FlattenSeq(Tail(f))
    BY <2>2, FlattenFirst
  <2>4. FlattenSeq(Tail(f)) \in Seq(UCH_RES)
    BY <2>3, FlattenType
  <2>5. u \in Path
    <3> DEFINE v == FlattenSeq(Tail(f))
    <3>1. v \in Seq(UCH_RES) /\ u = <<Slash>> \o v /\ Slash \in UCH_RES
      BY <2>3, <2>4, CharClasses
    <3> HIDE DEF v, u
    <3>2. <<Slash>> \o v \in Seq(UCH_RES) /\ <<Slash>> \o v # <<>> /\ (<<Slash>> \o v)[1] = Slash
      BY <3>1
    <3> QED BY <3>1, <3>2 DEF Path
  <2> HIDE DEF u
  <2>6. ~Failed.ok
    BY DEF Failed
  <2>7. WithoutSpaces(t).text = u
    <3>1. WithoutSpaces(t) = Failed \/ WithoutSpaces(t) = [ok |-> TRUE, text |-> u]
      BY <2>1
    <3> QED BY <2>6, <3>1
  <2> QED BY <2>5, <2>7
<1>4. CASE Space \notin Range(t)
  BY <1>2, <1>4
<1> QED BY <1>3, <1>4

LEMMA SinglePathType ==
  ASSUME NEW path \in Seq(Char), path # <<>>, path[1] = Slash, single_path_nointer(path).ok
  PROVE  single_path_nointer(path).text \in Path
<1> DEFINE us == Units(path)
           rs == Recodes(us)
           text == FlattenSeq(rs)
<1>1. us \in Seq(Unit) /\ us # <<>> /\ us[1].raw[1] = Slash
  BY UnitsAre
<1>2. single_path_nointer(path) = WithoutSpaces(text)
  BY SinglePathIs
<1> HIDE DEF us
<1>3. rs \in Seq(Seq(UCH_RES)) /\ Len(rs) = InPart(us)
  BY <1>1, RecodesAre
<1>4. /\ InPart(us) \in 0..Len(us) /\ Len(us) \in Nat \ {0}
      /\ InPart(us) < Len(us) => us[InPart(us) + 1].raw[1] \notin UCH_RES
      /\ us[1] \in Unit
  <2>1. 1 \in 1..Len(us) /\ Len(us) \in Nat \ {0}
    BY <1>1
  <2> QED BY <1>1, <2>1, InPartIs
<1>5. InPart(us) # 0
  BY <1>1, <1>4, CharClasses
<1>6. rs # <<>> /\ rs[1] = <<Slash>>
  <2>1. rs[1] = Recoded(us[1])
    BY <1>4, <1>5 DEF Recodes
  <2>2. us[1].raw = <<us[1].char>>
    <3>1. Plain(us[1]) \/ Escaped(us[1])
      BY <1>4 DEF Unit
    <3>2. ~Escaped(us[1])
      BY <1>1 DEF Escaped, Percent, Slash
    <3> QED BY <3>1, <3>2 DEF Plain
  <2>3. us[1].char = Slash
    BY <1>1, <2>2
  <2>4. Recoded(us[1]) = <<Slash>>
    BY <2>2, <2>3 DEF Recoded, Plain
  <2> QED BY <2>1, <2>4, <1>3, <1>4, <1>5
<1> HIDE DEF rs
<1>7. Tail(rs) \in Seq(Seq(UCH_RES)) /\ text = <<Slash>> \o FlattenSeq(Tail(rs))
  BY <1>3, <1>6, FlattenFirst
<1>8. FlattenSeq(Tail(rs)) \in Seq(UCH_RES)
  BY <1>7, FlattenType
<1>9. text \in Path
  <2> DEFINE v == FlattenSeq(Tail(rs))
  <2>1. v \in Seq(UCH_RES) /\ text = <<Slash>> \o v /\ Slash \in UCH_RES
    BY <1>7, <1>8, CharClasses
  <2> HIDE DEF v, text
  <2>2. <<Slash>> \o v \in Seq(UCH_RES) /\ <<Slash>> \o v # <<>> /\ (<<Slash>> \o v)[1] = Slash
    BY <2>1
  <2> QED BY <2>1, <2>2 DEF Path
<1> HIDE DEF text
<1> QED BY <1>2, <1>9, WithoutSpacesIs

(***************************************************************************)
(* The site of the spelling.                                               *)
(***************************************************************************)
SITE == (URL_LET_DIG_HY \union {Dot}) \ URL_UP_LET

\* Labels of small letters, digits and hyphens.
IsSite(t) ==
  /\ t \in Seq(SITE) /\ t # <<>> /\ t[1] # Dot /\ Dot \in Range(t)
  /\ t[Len(t)] \in URL_LET_DIGIT
  /\ \A i \in 2..Len(t) : t[i] = Dot => t[i - 1] \in URL_LET_DIGIT

LEMMA SiteChars ==
  /\ SITE \subseteq Char /\ URL_LET_DIG_HY \subseteq Char
  /\ {Slash, Question, Semicolon, Colon, Percent, Hash, Space} \intersect (URL_LET_DIG_HY \union {Dot}) = {}
  /\ Dot \in Char /\ Dot \notin URL_LET_DIG_HY /\ URL_LET_DIGIT \subseteq URL_LET_DIG_HY
  /\ \A c \in Char : Lower(c) \in Char \ URL_UP_LET
  /\ \A c \in Char : Lower(c) \in URL_LET_DIG_HY <=> c \in URL_LET_DIG_HY
BY DEF SITE, URL_LET_DIG_HY, URL_LET_DIGIT, URL_DIGIT, URL_UP_LET, Dot, Char, Lower, Slash,
       Question, Semicolon, Colon, Percent, Hash, Space, Hyphen, Underscore

LEMMA NormalizeSiteIs ==
  ASSUME NEW site \in Seq(Char), normalize_site(site).ok
  PROVE  IsSite(normalize_site(site).text) /\ Len(normalize_site(site).text) <= Len(site)
<1> DEFINE us == Units(site)
           text == [i \in 1..Len(us) |-> Lower(us[i].char)]
<1>1. us \in Seq(Unit) /\ Len(us) <= Len(site) /\ (site # <<>> => us # <<>> /\ us[1].raw[1] = site[1])
  BY UnitsAre
<1> DEFINE good == /\ site # <<>> /\ Head(site) \in URL_LET_DIG_HY
                   /\ Dot \in Range(text)
                   /\ \A i \in 1..Len(text) :
                        \/ text[i] \in URL_LET_DIG_HY
                        \/ us[i].raw = <<Dot>> /\ text[i - 1] \in URL_LET_DIGIT
                   /\ Last(text) \in URL_LET_DIGIT
<1>2. normalize_site(site) = IF good THEN [ok |-> TRUE, text |-> text] ELSE Failed
  BY DEF normalize_site, SiteText, Each, Text
<1> HIDE DEF us
<1>3. good /\ normalize_site(site).text = text
  <2>1. ~Failed.ok
    BY DEF Failed
  <2> HIDE DEF good, text
  <2>2. good
    BY <1>2, <2>1
  <2> QED BY <1>2, <2>2
<1>4. \A u \in Unit : u.char \in Char
  BY DEF Unit
<1>5. text \in Seq(Char) /\ Len(text) = Len(us) /\ \A i \in 1..Len(us) : text[i] = Lower(us[i].char) /\ us[i] \in Unit
  <2> HIDE DEF Unit
  <2>1. \A i \in 1..Len(us) : us[i] \in Unit /\ Lower(us[i].char) \in Char
    BY <1>1, <1>4, SiteChars
  <2> QED BY <1>1, <2>1
<1>6. text # <<>> /\ Len(text) \in Nat \ {0}
  BY <1>1, <1>3, <1>5
<1>7. text[1] \in URL_LET_DIG_HY
  <2>1. site[1] \in URL_LET_DIG_HY /\ us[1].raw[1] = site[1] /\ us[1] \in Unit
    BY <1>1, <1>3, <1>5, <1>6
  <2>2. Plain(us[1])
    <3>1. ~Escaped(us[1])
      BY <2>1, SiteChars DEF Escaped
    <3> QED BY <2>1, <3>1 DEF Unit
  <2>3. us[1].char = site[1] /\ us[1].char \in Char
    BY <2>1, <2>2, <1>4 DEF Plain
  <2>4. text[1] = Lower(us[1].char)
    BY <1>5, <1>6
  <2> HIDE DEF text
  <2> QED BY <2>1, <2>3, <2>4, SiteChars
<1>8. \A i \in 1..Len(text) :
         /\ text[i] \in SITE
         /\ text[i] = Dot => text[i - 1] \in URL_LET_DIGIT
  <2> TAKE i \in 1..Len(text)
  <2>0. us[i] \in Unit /\ text[i] = Lower(us[i].char) /\ us[i].char \in Char
    BY <1>5, <1>4
  <2>1. text[i] \in Char \ URL_UP_LET
    BY <2>0, SiteChars
  <2>2. CASE text[i] \in URL_LET_DIG_HY
    <3>1. text[i] # Dot
      BY <2>2, SiteChars
    <3> HIDE DEF text
    <3> QED BY <2>1, <2>2, <3>1 DEF SITE
  <2>3. CASE us[i].raw = <<Dot>> /\ text[i - 1] \in URL_LET_DIGIT
    <3>1. us[i].char = Dot
      <4>1. ~Escaped(us[i])
        BY <2>3 DEF Escaped
      <4>2. Plain(us[i])
        BY <2>0, <4>1 DEF Unit
      <4> QED BY <2>3, <4>2 DEF Plain
    <3>2. text[i] = Dot
      BY <2>0, <3>1 DEF Lower, Dot, URL_UP_LET
    <3> HIDE DEF text
    <3> QED BY <2>1, <2>3, <3>2 DEF SITE
  <2> QED BY <1>3, <2>2, <2>3
<1>9. text \in Seq(SITE)
  <2> HIDE DEF text
  <2> QED BY <1>5, <1>8, InSeq
<1>10. text[Len(text)] \in URL_LET_DIGIT
  BY <1>3 DEF Last
<1>11. Dot \in Range(text)
  BY <1>3
<1>12. text[1] # Dot
  BY <1>7, SiteChars
<1>13. Len(text) <= Len(site)
  BY <1>1, <1>5
<1> HIDE DEF text, good
<1> QED BY <1>3, <1>6, <1>8, <1>9, <1>10, <1>11, <1>12, <1>13 DEF IsSite

(***************************************************************************)
(* The port of the spelling.                                               *)
(***************************************************************************)
\* What the first n digits of s read as.
ValuesOf(s, n, f) ==
  f = [i \in 0..n |-> IF i = 0 THEN 0 ELSE 10 * f[i - 1] + (s[i] - Zero)]

LEMMA ValuesExist ==
  ASSUME NEW s, NEW N \in Nat
  PROVE  \E f : ValuesOf(s, N, f)
<1> DEFINE T == {n \in Nat : ~ \E f : ValuesOf(s, n, f)}
<1>1. ValuesOf(s, 0, [i \in 0..0 |-> 0])
  BY DEF ValuesOf
<1>2. ASSUME NEW n \in Nat, n \notin T PROVE n + 1 \notin T
  <2>1. PICK f : ValuesOf(s, n, f)
    BY <1>2
  <2> DEFINE g == [i \in 0..n + 1 |-> IF i = n + 1 THEN 10 * f[n] + (s[i] - Zero) ELSE f[i]]
  <2>2. ValuesOf(s, n + 1, g)
    <3>1. \A i \in 0..n : f[i] = IF i = 0 THEN 0 ELSE 10 * f[i - 1] + (s[i] - Zero)
      BY <2>1 DEF ValuesOf
    <3>2. \A i \in 0..n + 1 : g[i] = IF i = 0 THEN 0 ELSE 10 * g[i - 1] + (s[i] - Zero)
      BY <3>1
    <3> QED BY <3>2 DEF ValuesOf
  <2> HIDE DEF g
  <2> QED BY <2>2
<1>3. 0 \notin T
  BY <1>1
<1> HIDE DEF T
<1>4. T = {}
  BY <1>2, <1>3, NoLeast DEF T
<1> QED BY <1>4 DEF T

LEMMA DigitChars == URL_DIGIT \subseteq Char
BY DEF URL_DIGIT, Char

LEMMA NumberIs ==
  ASSUME NEW s \in Seq(URL_DIGIT)
  PROVE  \E f : ValuesOf(s, Len(s), f) /\ Number(s) = f[Len(s)]
<1> DEFINE digits == Skip(1, URL_DIGIT, s) - 1
           f == CHOOSE g : ValuesOf(s, digits, g)
<1>1. digits = Len(s)
  <2>1. s \in Seq(Char)
    <3>1. \A i \in 1..Len(s) : s[i] \in Char
      BY DigitChars
    <3> QED BY <3>1, InSeq
  <2>2. /\ 1 \in 1..Len(s) + 1 /\ Len(s) + 1 \in 1..Len(s) + 1 /\ (Len(s) + 1) - 1 = Len(s)
        /\ \A j \in 1..(Len(s) + 1) - 1 : s[j] \in URL_DIGIT
    OBVIOUS
  <2>3. Skip(1, URL_DIGIT, s) = Len(s) + 1
    BY <2>1, <2>2, SkipWhen
  <2> QED BY <2>2, <2>3
<1>2. ValuesOf(s, digits, f)
  <2>1. digits \in Nat
    BY <1>1
  <2> HIDE DEF digits
  <2> QED BY <2>1, ValuesExist
<1>3. Number(s) = f[digits]
  BY DEF Number, ValuesOf
<1> HIDE DEF digits, f
<1> QED BY <1>1, <1>2, <1>3

LEMMA AtoiIs ==
  ASSUME NEW s \in Seq(URL_DIGIT), s # <<>>
  PROVE  atoi(s) = Number(s)
<1> DEFINE blank == {Space} \union 9..13
           t == Drop(Skip(1, blank, s) - 1, s)
<1>1. s \in Seq(Char) /\ s[1] \in URL_DIGIT /\ Len(s) \in Nat \ {0}
  <2>1. \A i \in 1..Len(s) : s[i] \in Char
    BY DigitChars
  <2> QED BY <2>1, InSeq
<1>2. s[1] \notin blank /\ s[1] # Hyphen /\ s[1] # Plus
  <2>1. \A c \in URL_DIGIT : c \notin blank /\ c # Hyphen /\ c # Plus
    BY DEF URL_DIGIT, Space, Hyphen, Plus
  <2> HIDE DEF blank
  <2> QED BY <1>1, <2>1
<1>3. Skip(1, blank, s) = 1
  <2>1. 1 \in 1..Len(s) + 1 /\ \A j \in 1..1 - 1 : s[j] \in blank
    BY <1>1
  <2> HIDE DEF blank
  <2> QED BY <1>1, <1>2, <2>1, SkipWhen
<1>4. t = s
  <2>1. t = Drop(0, s)
    BY <1>3
  <2>2. Drop(0, s) = s
    BY DEF Drop
  <2> QED BY <2>1, <2>2
<1>5. atoi(s) = IF t = <<>> THEN 0 ELSE IF Head(t) = Hyphen THEN -Number(Tail(t))
                ELSE IF Head(t) = Plus THEN Number(Tail(t)) ELSE Number(t)
  BY DEF atoi
<1> HIDE DEF t, blank
<1> QED BY <1>2, <1>4, <1>5

\* Zeros at the front add nothing.
LEMMA NumberOfDrop ==
  ASSUME NEW s \in Seq(URL_DIGIT), NEW k \in 0..Len(s), \A i \in 1..k : s[i] = Zero
  PROVE  Number(Drop(k, s)) = Number(s)
<1> DEFINE d == Drop(k, s)
           n == Len(s)
<1>1. d \in Seq(URL_DIGIT) /\ Len(d) = n - k /\ \A i \in 1..n - k : d[i] = s[k + i]
  BY DropIs
<1>2. PICK f : ValuesOf(s, n, f) /\ Number(s) = f[n]
  BY NumberIs
<1>3. PICK g : ValuesOf(d, n - k, g) /\ Number(d) = g[n - k]
  BY <1>1, NumberIs
<1>4. n \in Nat /\ k \in 0..n /\ n - k \in Nat /\ k \in Nat
  OBVIOUS
<1>5. \A i \in 0..n : f[i] = IF i = 0 THEN 0 ELSE 10 * f[i - 1] + (s[i] - Zero)
  BY <1>2 DEF ValuesOf
<1>6. \A i \in 0..n - k : g[i] = IF i = 0 THEN 0 ELSE 10 * g[i - 1] + (d[i] - Zero)
  BY <1>3 DEF ValuesOf
<1> HIDE DEF d, n
<1> DEFINE T == {i \in Nat : i <= k /\ f[i] # 0}
           U == {i \in Nat : i <= n - k /\ f[i + k] # g[i]}
<1>7. T = {}
  <2>1. 0 \notin T
    BY <1>4, <1>5
  <2>2. ASSUME NEW i \in Nat, i + 1 \in T PROVE i \in T
    <3>1. i + 1 \in 0..n /\ i + 1 # 0 /\ (i + 1) - 1 = i /\ i + 1 \in 1..k /\ f[i + 1] # 0
      BY <2>2, <1>4
    <3>2. f[i + 1] = 10 * f[i] + (Zero - Zero)
      BY <3>1, <1>5
    <3>3. f[i] = 0 => f[i + 1] = 0
      BY <3>2 DEF Zero
    <3> QED BY <3>1, <3>3
  <2>3. T \subseteq Nat
    OBVIOUS
  <2> HIDE DEF T
  <2> QED BY <2>1, <2>2, <2>3, NoLeast
<1>8. U = {}
  <2>1. 0 \notin U
    <3>1. f[k] = 0
      BY <1>4, <1>7
    <3>2. g[0] = 0 /\ 0 + k = k
      BY <1>4, <1>6
    <3> QED BY <3>1, <3>2
  <2>2. ASSUME NEW i \in Nat, i + 1 \in U PROVE i \in U
    <3>1. /\ i + 1 \in 0..n - k /\ i + 1 # 0 /\ (i + 1) - 1 = i /\ i + 1 \in 1..n - k
          /\ f[(i + 1) + k] # g[i + 1] /\ (i + 1) + k = k + (i + 1)
          /\ (i + 1) + k \in 0..n /\ (i + 1) + k # 0 /\ ((i + 1) + k) - 1 = i + k
      BY <2>2, <1>4
    <3>2. g[i + 1] = 10 * g[i] + (d[i + 1] - Zero)
      BY <3>1, <1>6
    <3>3. f[(i + 1) + k] = 10 * f[i + k] + (s[(i + 1) + k] - Zero)
      BY <3>1, <1>5
    <3>4. d[i + 1] = s[(i + 1) + k]
      BY <3>1, <1>1
    <3>5. f[i + k] # g[i]
      BY <3>1, <3>2, <3>3, <3>4
    <3>6. i <= n - k
      BY <2>2, <1>4
    <3> QED BY <3>5, <3>6
  <2>3. U \subseteq Nat
    OBVIOUS
  <2> HIDE DEF U
  <2> QED BY <2>1, <2>2, <2>3, NoLeast
<1>9. f[(n - k) + k] = g[n - k] /\ (n - k) + k = n
  BY <1>4, <1>8
<1> QED BY <1>2, <1>3, <1>9 DEF d, n

\* The one number of at most five digits that is 80 and begins with no zero.
LEMMA Eighty ==
  ASSUME NEW s \in Seq(URL_DIGIT), s # <<>>, Len(s) <= 5, s[1] # Zero, Number(s) = 80
  PROVE  s = HttpPort
<1> DEFINE n == Len(s)
<1>1. PICK f : ValuesOf(s, n, f) /\ Number(s) = f[n]
  BY NumberIs
<1>2. \A i \in 0..n : f[i] = IF i = 0 THEN 0 ELSE 10 * f[i - 1] + (s[i] - Zero)
  BY <1>1 DEF ValuesOf
<1>3. n \in 1..5 /\ \A i \in 1..n : s[i] \in 48..57
  <2>1. n \in 1..5
    <3>1. Len(s) \in Nat /\ Len(s) # 0
      BY EmptySeq
    <3>2. \A m \in Nat : m # 0 /\ m <= 5 => m \in 1..5
      OBVIOUS
    <3> QED BY <3>1, <3>2, Zenon
  <2>3. \A i \in 1..n : s[i] \in URL_DIGIT
    OBVIOUS
  <2> HIDE DEF n
  <2> QED BY <2>1, <2>3 DEF URL_DIGIT
<1>4. /\ f[0] = 0 /\ f[1] = s[1] - 48
      /\ n >= 2 => f[2] = 10 * f[1] + (s[2] - 48)
      /\ n >= 3 => f[3] = 10 * f[2] + (s[3] - 48)
      /\ n >= 4 => f[4] = 10 * f[3] + (s[4] - 48)
      /\ n >= 5 => f[5] = 10 * f[4] + (s[5] - 48)
  <2> HIDE DEF n
  <2> QED BY <1>2, <1>3, SMTT(30) DEF Zero
<1>5. s[1] \in 49..57 /\ f[n] = 80
  BY <1>1, <1>3 DEF Zero
<1>6. n = 2 /\ s[1] = 56 /\ s[2] = 48
  <2> HIDE DEF n
  <2>1. n = 1 \/ n = 2 \/ n = 3 \/ n = 4 \/ n = 5
    BY <1>3
  <2>2. \A i \in 2..n : s[i] - 48 \in 0..9
    BY <1>3
  <2>3. n # 1
    BY <1>4, <1>5
  <2>4. n >= 3 => f[3] \in Int /\ f[3] >= 100
    <3>1. SUFFICES ASSUME n >= 3 PROVE f[3] \in Int /\ f[3] >= 100
      OBVIOUS
    <3>2. s[2] - 48 \in 0..9 /\ s[3] - 48 \in 0..9 /\ s[1] - 48 \in 1..9
      BY <1>5, <2>1, <2>2, <3>1
    <3> DEFINE a == s[1] - 48  b == s[2] - 48  c == s[3] - 48
    <3>3. f[3] = 10 * (10 * a + b) + c
      BY <1>4, <2>1, <3>1
    <3>4. a \in 1..9 /\ b \in 0..9 /\ c \in 0..9
      BY <3>2
    <3> HIDE DEF a, b, c
    <3>5. 10 * (10 * a + b) + c \in Int /\ 10 * (10 * a + b) + c >= 100
      BY <3>4
    <3> QED BY <3>3, <3>5
  <2>5. n >= 4 => f[4] \in Int /\ f[4] >= 1000
    <3>1. \A x \in Int : \A d \in 0..9 : x >= 100 => 10 * x + d \in Int /\ 10 * x + d >= 1000
      OBVIOUS
    <3>2. SUFFICES ASSUME n >= 4 PROVE f[4] \in Int /\ f[4] >= 1000
      OBVIOUS
    <3>3. f[3] \in Int /\ f[3] >= 100 /\ s[4] - 48 \in 0..9 /\ f[4] = 10 * f[3] + (s[4] - 48)
      BY <1>4, <2>1, <2>2, <2>4, <3>2
    <3> DEFINE x == f[3]  d == s[4] - 48
    <3>4. x \in Int /\ x >= 100 /\ d \in 0..9 /\ f[4] = 10 * x + d
      BY <3>3
    <3> HIDE DEF x, d
    <3>5. 10 * x + d \in Int /\ 10 * x + d >= 1000
      BY <3>1, <3>4
    <3> QED BY <3>4, <3>5
  <2>6. n >= 5 => f[5] >= 10000
    <3>1. \A x \in Int : \A d \in 0..9 : x >= 1000 => 10 * x + d >= 10000
      OBVIOUS
    <3>2. SUFFICES ASSUME n >= 5 PROVE f[5] >= 10000
      OBVIOUS
    <3>3. f[4] \in Int /\ f[4] >= 1000 /\ s[5] - 48 \in 0..9 /\ f[5] = 10 * f[4] + (s[5] - 48)
      BY <1>4, <2>1, <2>2, <2>5, <3>2
    <3> DEFINE x == f[4]  d == s[5] - 48
    <3>4. x \in Int /\ x >= 1000 /\ d \in 0..9 /\ f[5] = 10 * x + d
      BY <3>3
    <3> HIDE DEF x, d
    <3>5. 10 * x + d >= 10000
      BY <3>1, <3>4
    <3> QED BY <3>4, <3>5
  <2>7. n = 2
    BY <1>5, <2>1, <2>3, <2>4, <2>5, <2>6
  <2>8. f[2] = 10 * (s[1] - 48) + (s[2] - 48) /\ s[2] \in 48..57
    BY <1>3, <1>4, <2>7
  <2>9. 10 * (s[1] - 48) + (s[2] - 48) = 80 /\ s[1] - 48 \in 1..9 /\ s[2] - 48 \in 0..9
    BY <1>5, <2>7, <2>8
  <2>10. \A a \in 1..9 : \A b \in 0..9 : 10 * a + b = 80 => a = 8 /\ b = 0
    OBVIOUS
  <2>11. s[1] - 48 = 8 /\ s[2] - 48 = 0
    BY <2>9, <2>10, ZenonT(60)
  <2>12. s[1] \in 49..57 /\ s[2] \in 48..57
    BY <1>5, <2>8
  <2>13. s[1] = 56 /\ s[2] = 48
    BY <2>11, <2>12
  <2> QED BY <2>7, <2>13
<1> QED
  <2>1. HttpPort \in Seq(URL_DIGIT) /\ Len(HttpPort) = 2 /\ HttpPort[1] = 56 /\ HttpPort[2] = 48
    BY DEF HttpPort, URL_DIGIT
  <2>2. \A i \in 1..2 : s[i] = HttpPort[i]
    BY <1>6, <2>1
  <2> QED BY <1>6, <2>1, <2>2, SeqEqual

IsPort(t) ==
  /\ t \in Seq(URL_DIGIT) /\ Len(t) <= 5
  /\ t # <<>> => t[1] # Zero /\ atoi(t) \in PortNumber \ {80}

LEMMA NormalizePortIs ==
  ASSUME NEW port \in Seq(Char), normalize_port(port).ok
  PROVE  IsPort(normalize_port(port).text) /\ Len(normalize_port(port).text) <= Len(port)
<1> DEFINE k == Skip(1, {Zero}, port) - 1
           number == Drop(k, port)
           t == IF number = HttpPort THEN <<>> ELSE number
           good == Range(port) \subseteq URL_DIGIT /\ Len(port) <= 5 /\ atoi(port) \in PortNumber
<1>1. CASE port = <<>>
  <2>1. normalize_port(port).text = <<>>
    BY <1>1 DEF normalize_port, Text
  <2> QED BY <2>1, <1>1 DEF IsPort
<1>2. CASE port # <<>>
  <2>1. normalize_port(port) = IF good THEN [ok |-> TRUE, text |-> t] ELSE Failed
    <3>1. normalize_port(port) =
            IF port = <<>> THEN [ok |-> TRUE, text |-> port]
            ELSE IF good THEN [ok |-> TRUE, text |-> t] ELSE Failed
      BY DEF normalize_port, Text
    <3> HIDE DEF good, t
    <3> QED BY <1>2, <3>1
  <2>2. good /\ normalize_port(port).text = t
    <3>1. ~Failed.ok
      BY DEF Failed
    <3> HIDE DEF good, t
    <3>2. good
      BY <2>1, <3>1
    <3> QED BY <2>1, <3>2
  <2>3. port \in Seq(URL_DIGIT)
    <3>1. \A i \in 1..Len(port) : port[i] \in URL_DIGIT
      <4>1. Range(port) \subseteq URL_DIGIT
        BY <2>2
      <4>2. \A i \in 1..Len(port) : port[i] \in Range(port)
        BY DEF Range
      <4> QED BY <4>1, <4>2
    <3> QED BY <3>1, InSeq
  <2>4. /\ k \in 0..Len(port) /\ \A i \in 1..k : port[i] = Zero
        /\ k < Len(port) => port[k + 1] # Zero
    <3> DEFINE m == Skip(1, {Zero}, port)
    <3>1. /\ m \in 1..Len(port) + 1 /\ \A j \in 1..m - 1 : port[j] \in {Zero}
          /\ m <= Len(port) => port[m] \notin {Zero}
      <4>1. 1 \in 1..Len(port) + 1
        BY <1>2
      <4> QED BY <4>1, SkipIs
    <3> HIDE DEF m
    <3>2. k = m - 1
      BY DEF m
    <3> HIDE DEF k
    <3>3. k \in 0..Len(port) /\ m = k + 1 /\ (k < Len(port) => m <= Len(port))
      BY <3>1, <3>2
    <3> QED BY <3>1, <3>2, <3>3
  <2> HIDE DEF k
  <2>5. /\ number \in Seq(URL_DIGIT) /\ Len(number) = Len(port) - k
        /\ \A i \in 1..Len(port) - k : number[i] = port[k + i]
    BY <2>3, <2>4, DropIs
  <2>6. Number(number) = Number(port) /\ atoi(port) = Number(port)
    BY <1>2, <2>3, <2>4, NumberOfDrop, AtoiIs
  <2>7. Len(number) <= 5 /\ Len(number) <= Len(port)
    <3>1. Len(port) \in Nat /\ Len(port) <= 5 /\ k \in Nat
      BY <2>2, <2>4
    <3> HIDE DEF number
    <3> QED BY <2>5, <3>1
  <2>8. ASSUME t # <<>>
        PROVE  t = number /\ number # <<>> /\ number # HttpPort
    BY <2>8
  <2>9. ASSUME number # <<>>, number # HttpPort
        PROVE  number[1] # Zero /\ atoi(number) \in PortNumber \ {80}
    <3>1. number[1] # Zero
      BY <2>4, <2>5, <2>9
    <3>2. Number(number) # 80
      BY <2>5, <2>7, <2>9, <3>1, Eighty
    <3>3. atoi(number) = Number(number)
      BY <2>5, <2>9, AtoiIs
    <3>4. atoi(port) \in PortNumber
      BY <2>2
    <3>5. atoi(number) = atoi(port) /\ atoi(number) # 80
      BY <2>6, <3>2, <3>3
    <3> HIDE DEF number, good
    <3> QED BY <3>1, <3>4, <3>5
  <2>10. t \in {<<>>, number}
    OBVIOUS
  <2> HIDE DEF t, number, good
  <2>11. t \in Seq(URL_DIGIT) /\ Len(t) <= 5 /\ Len(t) <= Len(port)
    <3>1. CASE t = <<>>
      BY <3>1
    <3>2. CASE t = number
      BY <3>2, <2>5, <2>7
    <3> QED BY <2>10, <3>1, <3>2
  <2>12. t # <<>> => t[1] # Zero /\ atoi(t) \in PortNumber \ {80}
    BY <2>8, <2>9
  <2> QED BY <2>2, <2>11, <2>12 DEF IsPort
<1> QED BY <1>1, <1>2

(***************************************************************************)
(* The spelling passes the test.                                           *)
(***************************************************************************)
\* Where the path begins behind a site and a port.
PathAt(site, port) == IF port = <<>> THEN Len(site) + 1 ELSE Len(site) + Len(port) + 2

\* x begins with site and port, and from there on goes on with a path.
Spells(x, site, port) ==
  /\ x \in Seq(Char) /\ Len(x) < MAX_URL_LEN
  /\ PathAt(site, port) \in 1..Len(x)
  /\ \A i \in 1..Len(site) : x[i] = site[i]
  /\ port # <<>> => /\ x[Len(site) + 1] = Colon
                    /\ \A i \in 1..Len(port) : x[Len(site) + 1 + i] = port[i]
  /\ x[PathAt(site, port)] = Slash
  /\ \A i \in PathAt(site, port)..Len(x) : x[i] \in UCH_RES

LEMMA PortChars == /\ URL_DIGIT \subseteq Char /\ Colon \in Char /\ Slash \notin URL_DIGIT
                   /\ Colon # Slash /\ Slash \notin URL_LET_DIG_HY \union {Dot}
                   /\ Colon \notin URL_LET_DIG_HY \union {Dot}
BY DEF URL_DIGIT, Char, Colon, Slash, URL_LET_DIG_HY, URL_LET_DIGIT, URL_UP_LET, Dot, Hyphen, Underscore

LEMMA SiteIs ==
  ASSUME NEW site, IsSite(site)
  PROVE  /\ site \in Seq(Char) /\ Len(site) \in Nat \ {0}
         /\ \A i \in 1..Len(site) : site[i] \in SITE /\ site[i] \in URL_LET_DIG_HY \union {Dot}
<1>1. site \in Seq(SITE) /\ site # <<>>
  BY DEF IsSite
<1>2. \A i \in 1..Len(site) : site[i] \in SITE
  BY <1>1
<1>3. \A c \in SITE : c \in Char /\ c \in URL_LET_DIG_HY \union {Dot}
  BY SiteChars DEF SITE
<1>4. Len(site) \in Nat \ {0}
  BY <1>1
<1> QED BY <1>1, <1>2, <1>3, <1>4, InSeq

LEMMA PortIs ==
  ASSUME NEW port, IsPort(port)
  PROVE  port \in Seq(Char) /\ Len(port) \in Nat /\ \A i \in 1..Len(port) : port[i] \in URL_DIGIT
<1>1. port \in Seq(URL_DIGIT)
  BY DEF IsPort
<1>2. \A i \in 1..Len(port) : port[i] \in URL_DIGIT
  BY <1>1
<1>3. \A i \in 1..Len(port) : port[i] \in Char
  BY <1>2, PortChars
<1>4. Len(port) \in Nat
  BY <1>1
<1> QED BY <1>1, <1>2, <1>3, <1>4, InSeq

\* What two sequences joined hold.
LEMMA Joined ==
  ASSUME NEW S, NEW a \in Seq(S), NEW b \in Seq(S)
  PROVE  /\ a \o b \in Seq(S) /\ Len(a \o b) = Len(a) + Len(b)
         /\ \A i \in 1..Len(a) : (a \o b)[i] = a[i]
         /\ \A i \in 1..Len(b) : (a \o b)[Len(a) + i] = b[i]
OBVIOUS

LEMMA FitIs ==
  ASSUME NEW S, NEW s \in Seq(S), NEW size \in Nat \ {0}
  PROVE  \E k \in 0..Len(s) : /\ Fit(size, s) = Take(k, s) /\ k < size
                              /\ k = Len(s) \/ k = size - 1
                              /\ Fit(size, s) \in Seq(S) /\ Len(Fit(size, s)) = k
                              /\ \A i \in 1..k : Fit(size, s)[i] = s[i]
<1>1. Len(s) \in Nat
  OBVIOUS
<1> DEFINE k == IF Len(s) < size THEN Len(s) ELSE size - 1
<1>2. k \in 0..Len(s) /\ k < size /\ (k = Len(s) \/ k = size - 1)
  BY <1>1
<1>3. Fit(size, s) = Take(k, s)
  <2>1. Take(Len(s), s) = s
    BY DEF Take
  <2> QED BY <2>1 DEF Fit
<1> HIDE DEF k
<1>4. Take(k, s) \in Seq(S) /\ Len(Take(k, s)) = k /\ \A i \in 1..k : Take(k, s)[i] = s[i]
  BY <1>2, TakeIs
<1> QED BY <1>2, <1>3, <1>4

LEMMA PrintedSpells ==
  ASSUME NEW site, NEW port, NEW path \in Path, IsSite(site), IsPort(port),
         Len(site) < MAX_SITE_LEN, port # <<>> => Len(port) + 1 < MAX_PORT_LEN
  PROVE  Spells(Fit(MAX_URL_LEN, site \o (IF port = <<>> THEN <<>> ELSE <<Colon>>) \o port \o path), site, port)
<1> DEFINE colon == IF port = <<>> THEN <<>> ELSE <<Colon>>
           a == site \o colon
           b == a \o port
           c == b \o path
           x == Fit(MAX_URL_LEN, c)
           m == Len(site)
           n == Len(port)
           e == PathAt(site, port)
<1>1. site \in Seq(Char) /\ m \in Nat \ {0} /\ port \in Seq(Char) /\ n \in Nat
  BY SiteIs, PortIs
<1>2. /\ path \in Seq(Char) /\ Len(path) \in Nat \ {0} /\ path[1] = Slash
      /\ \A i \in 1..Len(path) : path[i] \in UCH_RES
  <2>1. path \in Seq(UCH_RES)
    BY PathIs
  <2> QED BY <2>1, PathIs
<1>3. /\ colon \in Seq(Char) /\ Len(colon) \in Nat
      /\ port = <<>> => Len(colon) = 0 /\ n = 0
      /\ port # <<>> => Len(colon) = 1 /\ colon[1] = Colon
  BY PortChars
<1>4. e = m + Len(colon) + n + 1
  BY <1>1, <1>3 DEF PathAt
<1> HIDE DEF colon, m, n, e
<1>5. /\ a \in Seq(Char) /\ Len(a) = m + Len(colon)
      /\ \A i \in 1..m : a[i] = site[i]
      /\ \A i \in 1..Len(colon) : a[m + i] = colon[i]
  BY <1>1, <1>3, Joined DEF m
<1>6. /\ b \in Seq(Char) /\ Len(b) = Len(a) + n
      /\ \A i \in 1..Len(a) : b[i] = a[i]
      /\ \A i \in 1..n : b[Len(a) + i] = port[i]
  <2> HIDE DEF a
  <2>1. a \in Seq(Char) /\ port \in Seq(Char)
    BY <1>1, <1>5
  <2>2. /\ a \o port \in Seq(Char) /\ Len(a \o port) = Len(a) + Len(port)
        /\ \A i \in 1..Len(a) : (a \o port)[i] = a[i]
        /\ \A i \in 1..Len(port) : (a \o port)[Len(a) + i] = port[i]
    BY <2>1, Joined
  <2> QED BY <2>2, Zenon DEF n
<1>7. /\ c \in Seq(Char) /\ Len(c) = Len(b) + Len(path)
      /\ \A i \in 1..Len(b) : c[i] = b[i]
      /\ \A i \in 1..Len(path) : c[Len(b) + i] = path[i]
  <2> HIDE DEF a, b
  <2>1. b \in Seq(Char) /\ path \in Seq(Char)
    BY <1>2, <1>6
  <2>2. /\ b \o path \in Seq(Char) /\ Len(b \o path) = Len(b) + Len(path)
        /\ \A i \in 1..Len(b) : (b \o path)[i] = b[i]
        /\ \A i \in 1..Len(path) : (b \o path)[Len(b) + i] = path[i]
    BY <2>1, Joined
  <2> QED BY <2>2, Zenon
<1> HIDE DEF a, b, c
<1>8. /\ Len(b) + 1 = e /\ e \in Nat \ {0} /\ e <= Len(c) /\ Len(c) \in Nat
      /\ Len(b) \in Nat /\ Len(a) \in Nat
  BY <1>1, <1>2, <1>3, <1>4, <1>5, <1>6, <1>7, SMTT(30)
<1>9. e < MAX_URL_LEN
  <2>1. MAX_URL_LEN \in Nat /\ MAX_SITE_LEN \in Nat /\ MAX_PORT_LEN \in Nat \ {0}
        /\ MAX_SITE_LEN + MAX_PORT_LEN <= MAX_URL_LEN
    BY BufferAssumption
  <2>2. m < MAX_SITE_LEN /\ (port # <<>> => n + 1 < MAX_PORT_LEN)
    BY DEF m, n
  <2>3. CASE port = <<>>
    BY <1>1, <1>3, <1>4, <2>1, <2>2, <2>3
  <2>4. CASE port # <<>>
    <3>1. e = m + 1 + n + 1
      BY <1>3, <1>4, <2>4
    <3>2. n + 1 < MAX_PORT_LEN
      BY <2>2, <2>4
    <3>3. \A p, q, r, s, t \in Nat : p < q /\ r + 1 < s /\ q + s <= t => p + 1 + r + 1 < t
      OBVIOUS
    <3>4. m \in Nat /\ n \in Nat
      BY <1>1
    <3> QED BY <3>1, <3>2, <3>3, <3>4, <2>1, <2>2
  <2> QED BY <2>3, <2>4
<1>10. PICK k \in 0..Len(c) : /\ k < MAX_URL_LEN /\ (k = Len(c) \/ k = MAX_URL_LEN - 1)
                              /\ x \in Seq(Char) /\ Len(x) = k
                              /\ \A i \in 1..k : x[i] = c[i]
  <2>1. MAX_URL_LEN \in Nat \ {0}
    BY BufferAssumption
  <2> QED BY <1>7, <2>1, FitIs, ZenonT(60)
<1> HIDE DEF x
<1>11. e \in 1..k /\ k \in Nat
  <2>1. MAX_URL_LEN \in Nat
    BY BufferAssumption
  <2> QED BY <1>8, <1>9, <1>10, <2>1
<1>12. \A i \in 1..m : x[i] = site[i]
  <2> TAKE i \in 1..m
  <2>1. i \in 1..k /\ i \in 1..Len(a) /\ i \in 1..Len(b)
    BY <1>1, <1>3, <1>5, <1>6, <1>8, <1>11, SMTT(30)
  <2> QED BY <2>1, <1>5, <1>6, <1>7, <1>10
<1>13. ASSUME port # <<>> PROVE x[m + 1] = Colon /\ \A i \in 1..n : x[m + 1 + i] = port[i]
  <2>1. Len(colon) = 1 /\ Len(a) = m + 1 /\ colon[1] = Colon
    BY <1>3, <1>5, <1>13
  <2>2. m + 1 \in 1..k /\ m + 1 \in 1..Len(a) /\ m + 1 \in 1..Len(b) /\ 1 \in 1..Len(colon)
    BY <2>1, <1>1, <1>6, <1>8, <1>11
  <2>3. x[m + 1] = Colon
    BY <2>1, <2>2, <1>5, <1>6, <1>7, <1>10
  <2>4. ASSUME NEW i \in 1..n PROVE x[m + 1 + i] = port[i]
    <3>1. m + 1 + i \in 1..k /\ m + 1 + i \in 1..Len(b)
      BY <2>1, <1>1, <1>6, <1>8, <1>11
    <3>2. b[m + 1 + i] = port[i]
      BY <2>1, <1>6
    <3> QED BY <3>1, <3>2, <1>7, <1>10
  <2> QED BY <2>3, <2>4
<1>14. x[e] = Slash /\ \A i \in e..Len(x) : x[i] \in UCH_RES
  <2>1. ASSUME NEW i \in e..k PROVE x[i] = path[i - Len(b)] /\ i - Len(b) \in 1..Len(path)
    <3>1. i - Len(b) \in 1..Len(path) /\ Len(b) + (i - Len(b)) = i /\ i \in 1..k
      BY <1>2, <1>7, <1>8, <1>10, <1>11
    <3>2. c[i] = path[i - Len(b)]
      BY <3>1, <1>7
    <3> QED BY <3>1, <3>2, <1>10
  <2>2. x[e] = path[1]
    <3>1. e - Len(b) = 1 /\ e \in e..k
      BY <1>8, <1>11
    <3> QED BY <3>1, <2>1
  <2> QED BY <2>1, <2>2, <1>2, <1>10
<1> QED BY <1>10, <1>11, <1>12, <1>13, <1>14 DEF Spells, x, c, b, a, colon, m, n, e

\* Where the test of a spelling finds its parts.
LEMMA SpellsPassed ==
  ASSUME NEW x, NEW site, NEW port, IsSite(site), IsPort(port), Spells(x, site, port)
  PROVE  /\ Skip(1, URL_LET_DIG_HY \union {Dot}, x) = Len(site) + 1
         /\ port # <<>> => Skip(Len(site) + 2, URL_DIGIT, x) = PathAt(site, port)
         /\ Skip(PathAt(site, port), UCH_RES, x) = Len(x) + 1
         /\ Take(Len(site), x) = site
         /\ port # <<>> => SubSeq(x, Len(site) + 2, PathAt(site, port) - 1) = port
         /\ x[Len(site) + 1] = IF port = <<>> THEN Slash ELSE Colon
<1> DEFINE m == Len(site)
           n == Len(port)
           e == PathAt(site, port)
<1>1. /\ site \in Seq(Char) /\ m \in Nat \ {0} /\ \A i \in 1..m : site[i] \in URL_LET_DIG_HY \union {Dot}
      /\ port \in Seq(Char) /\ n \in Nat /\ \A i \in 1..n : port[i] \in URL_DIGIT
  BY SiteIs, PortIs
<1>2. /\ x \in Seq(Char) /\ e \in 1..Len(x) /\ Len(x) \in Nat
      /\ \A i \in 1..m : x[i] = site[i]
      /\ port # <<>> => x[m + 1] = Colon /\ \A i \in 1..n : x[m + 1 + i] = port[i]
      /\ x[e] = Slash /\ \A i \in e..Len(x) : x[i] \in UCH_RES
  BY DEF Spells
<1>3. e = IF port = <<>> THEN m + 1 ELSE m + n + 2
  BY DEF PathAt
<1> HIDE DEF m, n, e
<1>4. x[m + 1] = (IF port = <<>> THEN Slash ELSE Colon) /\ m + 1 \in 1..Len(x)
  BY <1>1, <1>2, <1>3
<1>5. Skip(1, URL_LET_DIG_HY \union {Dot}, x) = m + 1
  <2>1. x[m + 1] \notin URL_LET_DIG_HY \union {Dot}
    BY <1>4, PortChars
  <2>2. \A j \in 1..(m + 1) - 1 : x[j] \in URL_LET_DIG_HY \union {Dot}
    BY <1>1, <1>2
  <2>3. 1 \in 1..Len(x) + 1 /\ m + 1 \in 1..Len(x) + 1
    BY <1>1, <1>2, <1>4
  <2> QED BY <1>2, <2>1, <2>2, <2>3, SkipWhen, SMTT(30)
<1>6. ASSUME port # <<>>
      PROVE  Skip(m + 2, URL_DIGIT, x) = e /\ SubSeq(x, m + 2, e - 1) = port
  <2>1. e = m + n + 2 /\ m + 2 \in 1..Len(x) + 1 /\ e \in m + 2..Len(x) + 1
    BY <1>1, <1>2, <1>3, <1>6
  <2>2. \A j \in m + 2..e - 1 : x[j] \in URL_DIGIT
    <3> TAKE j \in m + 2..e - 1
    <3>1. j - (m + 1) \in 1..n /\ m + 1 + (j - (m + 1)) = j
      BY <1>1, <2>1
    <3> QED BY <3>1, <1>1, <1>2, <1>6
  <2>3. x[e] \notin URL_DIGIT
    BY <1>2, PortChars
  <2>4. Skip(m + 2, URL_DIGIT, x) = e
    BY <1>2, <2>1, <2>2, <2>3, SkipWhen
  <2> DEFINE y == SubSeq(x, m + 2, e - 1)
  <2>5. y \in Seq(Char) /\ Len(y) = n /\ \A i \in 1..n : y[i] = x[m + 1 + i]
    <3>1. m + 2 \in 1..Len(x) + 1 /\ e - 1 \in m + 1..Len(x) /\ (e - 1) - (m + 2) + 1 = n
      <4>1. m \in Nat /\ n \in Nat /\ e \in 1..Len(x) /\ Len(x) \in Nat
        BY <1>1, <1>2
      <4>2. e - 1 \in m + 1..Len(x)
        BY <4>1, <2>1
      <4>3. (e - 1) - (m + 2) + 1 = n
        BY <4>1, <2>1
      <4> QED BY <2>1, <4>2, <4>3
    <3>2. \A i \in 1..n : (m + 2) + i - 1 = m + 1 + i
      BY <1>1
    <3>3. y \in Seq(Char)
      BY <1>1, <1>2, <3>1
    <3>4. Len(y) = n
      <4>1. m + 2 \in Nat /\ e - 1 \in Int /\ m + 2 <= (e - 1) + 1
        BY <1>1, <2>1
      <4>2. Len(y) = (e - 1) - (m + 2) + 1
        BY <1>2, <3>1, <4>1
      <4> HIDE DEF y
      <4> QED BY <3>1, <4>2
    <3>5. \A i \in 1..n : y[i] = x[(m + 2) + i - 1]
      BY <1>1, <1>2, <3>1
    <3> HIDE DEF y
    <3> QED BY <3>2, <3>3, <3>4, <3>5
  <2> HIDE DEF y
  <2>6. y = port
    BY <2>5, <1>1, <1>2, <1>6, SeqEqual DEF n
  <2> QED BY <2>4, <2>6 DEF y
<1>7. Skip(e, UCH_RES, x) = Len(x) + 1
  <2>1. e \in 1..Len(x) + 1 /\ Len(x) + 1 \in e..Len(x) + 1 /\ (Len(x) + 1) - 1 = Len(x)
    BY <1>2
  <2> QED BY <1>2, <2>1, SkipWhen
<1>8. Take(m, x) = site
  <2> DEFINE y == Take(m, x)
  <2>1. y \in Seq(Char) /\ Len(y) = m /\ \A i \in 1..m : y[i] = x[i]
    <3>1. m \in 0..Len(x)
      BY <1>1, <1>4
    <3> QED BY <1>2, <3>1, TakeIs
  <2> HIDE DEF y
  <2>2. y = site
    BY <2>1, <1>1, <1>2, SeqEqual DEF m
  <2> QED BY <2>2 DEF y
<1> QED BY <1>4, <1>5, <1>6, <1>7, <1>8 DEF m, n, e

LEMMA SpellingPasses ==
  ASSUME NEW x, NEW site, NEW port, IsSite(site), IsPort(port), Spells(x, site, port)
  PROVE  isnormalized_url(x)
<1> DEFINE m == Len(site)
           e == PathAt(site, port)
           digits == Skip(m + 2, URL_DIGIT, x)
           path == IF m + 1 <= Len(x) /\ x[m + 1] = Colon THEN digits ELSE m + 1
<1>1. /\ Skip(1, URL_LET_DIG_HY \union {Dot}, x) = m + 1
      /\ port # <<>> => digits = e
      /\ Skip(e, UCH_RES, x) = Len(x) + 1
      /\ Take(m, x) = site
      /\ port # <<>> => SubSeq(x, m + 2, e - 1) = port
      /\ x[m + 1] = IF port = <<>> THEN Slash ELSE Colon
  BY SpellsPassed
<1>2. /\ site \in Seq(Char) /\ m \in Nat \ {0} /\ \A i \in 1..m : site[i] \in SITE
      /\ \A i \in 1..m : x[i] = site[i]
      /\ x \in Seq(Char) /\ e \in 1..Len(x) /\ x[e] = Slash /\ Len(x) < MAX_URL_LEN
      /\ port = <<>> => e = m + 1
      /\ port # <<>> => e > m + 1
  <2>1. Len(port) \in Nat
    BY PortIs
  <2>2. site \in Seq(Char) /\ m \in Nat \ {0} /\ \A i \in 1..m : site[i] \in SITE
    BY SiteIs
  <2>3. (port = <<>> => e = m + 1) /\ (port # <<>> => e > m + 1)
    BY <2>1, <2>2 DEF PathAt
  <2> QED BY <2>2, <2>3 DEF Spells
<1>3. path = e
  BY <1>1, <1>2, PortChars
<1>4. ~HasScheme(Http, x) /\ ~HasScheme(Https, x)
  <2>1. ASSUME NEW scheme \in {Http, Https}, HasScheme(scheme, x) PROVE FALSE
    <3>1. \A i \in 1..4 : Lower(x[i]) \in {104, 116, 112}
      <4>1. \A i \in 1..4 : scheme[i] \in {104, 116, 112} /\ i \in 1..Len(scheme)
        <5>1. /\ \A i \in 1..4 : i = 1 \/ i = 2 \/ i = 3 \/ i = 4
              /\ Http[1] = 104 /\ Http[2] = 116 /\ Http[3] = 116 /\ Http[4] = 112 /\ Len(Http) = 7
              /\ Https[1] = 104 /\ Https[2] = 116 /\ Https[3] = 116 /\ Https[4] = 112 /\ Len(Https) = 8
          BY DEF Http, Https
        <5>2. scheme = Http \/ scheme = Https
          BY <2>1
        <5> QED BY <5>1, <5>2
      <4> QED BY <2>1, <4>1 DEF HasScheme
    <3>2. Len(scheme) \in 7..8 /\ Len(scheme) <= Len(x)
      BY <2>1 DEF HasScheme, Http, Https
    <3>3. Lower(x[7]) = 47
      <4>1. scheme[7] = 47
        BY <2>1 DEF Http, Https
      <4> QED BY <2>1, <3>2, <4>1 DEF HasScheme
    <3>4. Lower(x[6]) \in {47, 58}
      <4>1. scheme[6] \in {47, 58}
        BY <2>1 DEF Http, Https
      <4> QED BY <2>1, <3>2, <4>1 DEF HasScheme
    <3>5. Lower(x[5]) \in {58, 115}
      <4>1. scheme[5] \in {58, 115}
        BY <2>1 DEF Http, Https
      <4> QED BY <2>1, <3>2, <4>1 DEF HasScheme
    <3>6. m <= 5
      <4>1. \A c \in SITE : c # 47 /\ c # 58 /\ Lower(c) # 47 /\ Lower(c) # 58
        BY DEF SITE, URL_LET_DIG_HY, URL_LET_DIGIT, URL_DIGIT, URL_UP_LET, Dot, Lower, Hyphen, Underscore
      <4>2. 6 \in 1..m => x[6] \in SITE
        BY <1>2
      <4>3. ~(6 \in 1..m)
        BY <3>4, <4>1, <4>2
      <4> QED BY <1>2, <4>3
    <3>7. PICK i \in 1..m : site[i] = Dot
      BY DEF IsSite, Range
    <3>8. x[i] = Dot /\ i \in 1..5
      BY <1>2, <3>6, <3>7
    <3>9. Lower(Dot) = 46
      BY DEF Lower, Dot, URL_UP_LET
    <3> QED BY <3>1, <3>5, <3>8, <3>9
  <2> QED BY <2>1
<1>5. /\ site # <<>> /\ Head(site) # Dot /\ Last(site) \in URL_LET_DIGIT /\ Dot \in Range(site)
      /\ Range(site) \intersect URL_UP_LET = {}
      /\ \A i \in 2..Len(site) : site[i] = Dot => site[i - 1] \in URL_LET_DIGIT
  <2>1. site # <<>> /\ site[1] # Dot /\ site[Len(site)] \in URL_LET_DIGIT /\ Dot \in Range(site)
        /\ \A i \in 2..Len(site) : site[i] = Dot => site[i - 1] \in URL_LET_DIGIT
    BY DEF IsSite
  <2>2. Head(site) = site[1]
    BY <1>2
  <2>3. Last(site) = site[Len(site)]
    BY DEF Last
  <2>4. Range(site) \intersect URL_UP_LET = {}
    <3>1. \A c \in Range(site) : c \in SITE
      BY <1>2 DEF Range
    <3> QED BY <3>1 DEF SITE
  <2> QED BY <2>1, <2>2, <2>3, <2>4
<1>6. path # m + 1 => /\ Len(SubSeq(x, m + 2, digits - 1)) <= 5
                      /\ atoi(SubSeq(x, m + 2, digits - 1)) \in PortNumber \ {80}
  <2>1. SUFFICES ASSUME path # m + 1
                 PROVE  /\ Len(SubSeq(x, m + 2, digits - 1)) <= 5
                        /\ atoi(SubSeq(x, m + 2, digits - 1)) \in PortNumber \ {80}
    OBVIOUS
  <2>2. port # <<>> /\ SubSeq(x, m + 2, digits - 1) = port
    BY <2>1, <1>1, <1>2, <1>3
  <2>3. Len(port) <= 5 /\ (port # <<>> => atoi(port) \in PortNumber \ {80})
    BY DEF IsPort
  <2> QED BY <2>2, <2>3
<1>7. PathEnds(path, x, URL_PCHAR, URL_PARAM, URL_UCH_RES)[3] = Len(x) + 1
  <2>1. PathEnds(e, x, PCHAR, PARAM, UCH_RES)[3] = Skip(e, UCH_RES, x)
    <3>1. e \in 1..Len(x) + 1
      BY <1>2
    <3> QED BY <1>2, <3>1, PathEndsIs
  <2>2. URL_PCHAR = PCHAR /\ URL_PARAM = PARAM /\ URL_UCH_RES = UCH_RES
    BY DEF URL_PCHAR, PCHAR, URL_PARAM, PARAM, URL_UCH_RES, UCH_RES
  <2> QED BY <2>1, <2>2, <1>1, <1>3
<1>8. path <= Len(x) /\ x[path] = Slash
  BY <1>2, <1>3
<1>9. (m + 1) - 1 = m /\ (m + 1) + 1 = m + 2
  BY <1>2
<1> HIDE DEF m, e
<1> QED BY <1>1, <1>2, <1>4, <1>5, <1>6, <1>7, <1>8, <1>9, ZenonT(60) DEF isnormalized_url

(***************************************************************************)
(* What normalize_url returns.                                             *)
(***************************************************************************)
\* There are a site, a port and a path, and the spelling is made of them.
LEMMA NormalizeIs ==
  ASSUME NEW url \in Seq(Char), Normal(url).ok
  PROVE  LET parts == parse_url(url, TRUE)
             site  == normalize_site(parts.site)
             port  == normalize_port(parts.port)
             path  == single_path_nointer(parts.path)
             colon == IF port.text = <<>> THEN <<>> ELSE <<Colon>>
         IN /\ parts.ok /\ site.ok /\ port.ok /\ path.ok
            /\ Normal(url).text =
                 Fit(MAX_URL_LEN, site.text \o colon \o port.text \o normalize_path(path.text))
<1> DEFINE parts == parse_url(url, TRUE)
           site  == normalize_site(parts.site)
           port  == normalize_port(parts.port)
           path  == single_path_nointer(parts.path)
           colon == IF port.text = <<>> THEN <<>> ELSE <<Colon>>
           text  == Fit(MAX_URL_LEN, site.text \o colon \o port.text \o normalize_path(path.text))
<1>1. Normal(url) = IF parts.ok THEN IF site.ok /\ port.ok /\ path.ok
                                     THEN [ok |-> TRUE, text |-> text] ELSE Failed
                    ELSE Failed
  BY DEF Normal, normalize_url, NormalParts, Printed, Text
<1>2. ~Failed.ok
  BY DEF Failed
<1> HIDE DEF parts, site, port, path, text
<1>3. parts.ok /\ site.ok /\ port.ok /\ path.ok /\ Normal(url).text = text
  BY <1>1, <1>2
<1> QED BY <1>3 DEF text, path, port, site, parts

LEMMA NormalSpells ==
  ASSUME NEW url \in Seq(Char), Normal(url).ok
  PROVE  LET parts == parse_url(url, TRUE)
             site  == normalize_site(parts.site).text
             port  == normalize_port(parts.port).text
         IN /\ IsSite(site) /\ IsPort(port) /\ Spells(Normal(url).text, site, port)
            /\ parts.ok /\ Len(site) < MAX_SITE_LEN
<1> DEFINE parts == parse_url(url, TRUE)
           site  == normalize_site(parts.site)
           port  == normalize_port(parts.port)
           path  == single_path_nointer(parts.path)
           colon == IF port.text = <<>> THEN <<>> ELSE <<Colon>>
<1>1. /\ parts.ok /\ site.ok /\ port.ok /\ path.ok
      /\ Normal(url).text =
           Fit(MAX_URL_LEN, site.text \o colon \o port.text \o normalize_path(path.text))
  BY NormalizeIs
<1>2. IsParts(parts)
  BY <1>1, ParseIs
<1> HIDE DEF parts
<1>3. /\ parts.site \in Seq(Char) /\ Len(parts.site) < MAX_SITE_LEN
      /\ parts.port \in Seq(Char) /\ (parts.port # <<>> => Len(parts.port) + 1 < MAX_PORT_LEN)
      /\ parts.path \in Seq(Char) /\ parts.path # <<>> /\ parts.path[1] = Slash
  BY <1>2 DEF IsParts
<1>4. IsSite(site.text) /\ Len(site.text) <= Len(parts.site)
  BY <1>1, <1>3, NormalizeSiteIs
<1>5. IsPort(port.text) /\ Len(port.text) <= Len(parts.port)
  BY <1>1, <1>3, NormalizePortIs
<1>6. normalize_path(path.text) \in Path
  BY <1>1, <1>3, SinglePathType, NormalizePathType
<1> HIDE DEF site, port, path
<1>7. Len(site.text) < MAX_SITE_LEN
  <2>1. {Len(site.text), Len(parts.site), MAX_SITE_LEN} \subseteq Nat
    BY <1>3, <1>4, SiteIs, BufferAssumption
  <2> QED BY <2>1, <1>3, <1>4
<1>8. port.text # <<>> => Len(port.text) + 1 < MAX_PORT_LEN
  <2>1. {Len(port.text), Len(parts.port), MAX_PORT_LEN} \subseteq Nat
    BY <1>3, <1>5, PortIs, BufferAssumption
  <2>2. port.text # <<>> => parts.port # <<>>
    <3>1. parts.port = <<>> => Len(port.text) = 0
      BY <2>1, <1>5
    <3>2. port.text \in Seq(Char)
      BY <1>5, PortIs
    <3> QED BY <3>1, <3>2, EmptySeq
  <2> QED BY <2>1, <2>2, <1>3, <1>5
<1>9. Spells(Fit(MAX_URL_LEN, site.text \o colon \o port.text \o normalize_path(path.text)),
             site.text, port.text)
  BY <1>4, <1>5, <1>6, <1>7, <1>8, PrintedSpells
<1> QED BY <1>1, <1>4, <1>5, <1>7, <1>9 DEF site, port, parts

LEMMA NormalIs ==
  ASSUME NEW url \in Seq(Char), Normal(url).ok
  PROVE  Normal(url).text \in Seq(Char) /\ isnormalized_url(Normal(url).text)
<1> DEFINE site == normalize_site(parse_url(url, TRUE).site).text
           port == normalize_port(parse_url(url, TRUE).port).text
<1>1. IsSite(site) /\ IsPort(port) /\ Spells(Normal(url).text, site, port)
  BY NormalSpells
<1> HIDE DEF site, port
<1>2. isnormalized_url(Normal(url).text)
  BY <1>1, SpellingPasses
<1>3. Normal(url).text \in Seq(Char)
  BY <1>1 DEF Spells
<1> QED BY <1>2, <1>3

(***************************************************************************)
(* Links.                                                                  *)
(***************************************************************************)
LEMMA CharsOfUrls ==
  /\ Http \in Seq(Char) /\ Slash \in Char /\ <<Slash>> \in Seq(Char) /\ <<>> \in Seq(Char)
BY DEF Http, Char, Slash

LEMMA SpelledType ==
  ASSUME NEW url \in Seq(Char)
  PROVE  Spelled(url) \in Seq(Char)
<1>1. Spelled(url) = IF Normal(url).ok THEN Http \o Normal(url).text ELSE url
  BY DEF Spelled, WithScheme, Normal
<1>2. Normal(url).ok => Normal(url).text \in Seq(Char)
  BY NormalIs
<1>3. \A a, b \in Seq(Char) : a \o b \in Seq(Char)
  OBVIOUS
<1> QED BY <1>1, <1>2, <1>3, CharsOfUrls

LEMMA TrimType ==
  ASSUME NEW s \in Seq(Char)
  PROVE  Trim(s) \in Seq(Char)
<1>1. rtrim(s) \in Seq(Char)
  <2>1. PICK k \in 0..Len(s) : Strip(Blank, s) = Take(k, s)
    BY StripIs
  <2> QED BY <2>1, TakeIs DEF rtrim
<1> DEFINE t == rtrim(s)
           k == Skip(1, Blank, t)
<1>2. k \in 1..Len(t) + 1
  <2>1. 1 \in 1..Len(t) + 1
    BY <1>1
  <2> QED BY <1>1, <2>1, SkipIs
<1>3. Trim(s) = Drop(k - 1, t)
  BY DEF Trim, ltrim
<1> HIDE DEF t, k
<1>4. t \in Seq(Char)
  BY <1>1 DEF t
<1>5. k - 1 \in 0..Len(t)
  BY <1>2, <1>4
<1> QED BY <1>3, <1>4, <1>5, DropIs

LEMMA ResolvedType ==
  ASSUME NEW host \in Seq(Char), NEW link \in Seq(Char)
  PROVE  Resolved(host, link) \in Seq(Char)
<1>1. \A a, b \in Seq(Char) : a \o b \in Seq(Char)
  OBVIOUS
<1>2. Http \o host \o link \in Seq(Char)
  BY <1>1, CharsOfUrls
<1>3. Http \o host \o <<Slash>> \o link \in Seq(Char)
  BY <1>1, CharsOfUrls
<1> QED BY <1>2, <1>3 DEF Resolved

\* A page is a URL that can be split, and a link is text.
PageInv == page \in Seq(Char) /\ parseUrl(page).ok
LinkInv ==
  /\ PageInv
  /\ href \in Seq(Char) /\ twin \in Seq(Char) /\ pieces \in Nat

LEMMA HostType ==
  ASSUME PageInv
  PROVE  Host(page) \in Seq(Char)
<1>1. IsParts(parseUrl(page))
  BY ParseIs DEF PageInv, parseUrl
<1> QED BY <1>1 DEF IsParts, Host

LEMMA LinksType ==
  ASSUME PageInv, NEW attribute \in Seq(Char)
  PROVE  getLinks(page, attribute) \subseteq Seq(Char)
<1> DEFINE url == Spelled(Resolved(Host(page), Trim(attribute)))
<1>1. url \in Seq(Char)
  BY HostType, TrimType, ResolvedType, SpelledType
<1>2. getLinks(page, attribute) \subseteq {url}
  BY DEF getLinks, Kept
<1> QED BY <1>1, <1>2

LEMMA PairTypes ==
  /\ \A pair \in Starts \union Pieces : pair[1] \in Seq(Char) /\ pair[2] \in Seq(Char)
  /\ \A tail \in Tails : tail \in Seq(Char)
  /\ \A seed \in Seeds : seed \in Seq(Char)
BY LinkAssumption

LEMMA LinkInvInit == LinkInit => LinkInv
<1> SUFFICES ASSUME LinkInit PROVE LinkInv
  OBVIOUS
<1>1. PICK seed \in Seeds : page = request(seed).url
  BY DEF LinkInit
<1>2. page \in Seq(Char)
  <2>1. request(seed).url = Spelled(seed)
    BY DEF request
  <2> QED BY <1>1, <2>1, PairTypes, SpelledType
<1>3. href \in Seq(Char) /\ twin \in Seq(Char) /\ pieces \in Nat
  BY PairTypes DEF LinkInit
<1>4. parseUrl(page).ok
  BY DEF LinkInit
<1> QED BY <1>2, <1>3, <1>4 DEF LinkInv, PageInv

LEMMA LinkInvNext == LinkInv /\ [LinkNext]_linkVars => LinkInv'
<1> SUFFICES ASSUME LinkInv, [LinkNext]_linkVars PROVE LinkInv'
  OBVIOUS
<1>0. page \in Seq(Char) /\ parseUrl(page).ok /\ href \in Seq(Char) /\ twin \in Seq(Char) /\ pieces \in Nat
  BY DEF LinkInv, PageInv
<1>1. CASE Write
  <2>1. page' = page /\ pieces' = pieces + 1
    BY <1>1 DEF Write
  <2>2. \A a, b \in Seq(Char) : a \o b \in Seq(Char)
    OBVIOUS
  <2>3. href' \in Seq(Char) /\ twin' \in Seq(Char)
    <3>1. CASE InPath /\ \E piece \in Pieces : href' = href \o piece[1] /\ twin' = twin \o piece[2]
      BY <1>0, <2>2, <3>1, PairTypes
    <3>2. CASE \E tail \in Tails : href' = href \o tail /\ twin' = twin \o tail
      BY <1>0, <2>2, <3>2, PairTypes
    <3> QED BY <1>1, <3>1, <3>2 DEF Write
  <2>4. parseUrl(page)'.ok
    BY <1>0, <2>1 DEF parseUrl
  <2> QED BY <1>0, <2>1, <2>3, <2>4 DEF LinkInv, PageInv
<1>2. CASE Follow
  <2>1. PICK url \in getLinks(page, href) : page' = url /\ parseUrl(url).ok
    BY <1>2 DEF Follow
  <2>2. page' \in Seq(Char)
    BY <1>0, <2>1, LinksType DEF LinkInv
  <2>3. href' \in Seq(Char) /\ twin' \in Seq(Char) /\ pieces' \in Nat
    BY <1>0, <1>2, PairTypes DEF Follow, Begin
  <2> QED BY <2>1, <2>2, <2>3 DEF LinkInv, PageInv
<1>3. CASE UNCHANGED linkVars
  BY <1>3 DEF linkVars, LinkInv, PageInv
<1> QED BY <1>1, <1>2, <1>3 DEF LinkNext

\* Every page is text that parse_url can split, and so is every link text: what the
\* functions of url_tools are given is what they expect.
THEOREM LinksAreText == LinkSpec => []LinkInv
BY LinkInvInit, LinkInvNext, PTL DEF LinkSpec

LEMMA NormalizedFromInv == LinkInv => NormalizedIsNormal
<1> SUFFICES ASSUME LinkInv, Trim(href) # <<>>, Normal(Target(href)).ok
             PROVE  isnormalized_url(Normal(Target(href)).text)
  BY DEF NormalizedIsNormal
<1>1. Target(href) \in Seq(Char)
  BY HostType, TrimType, ResolvedType DEF Target, LinkInv
<1> QED BY <1>1, NormalIs

\* Whatever is written in a link, what normalize_url returns passes isnormalized_url,
\* also where the buffer cut it: the one function tests what the other makes.
THEOREM NormalizedIsNormalAlways == LinkSpec => []NormalizedIsNormal
BY LinksAreText, NormalizedFromInv, PTL

(***************************************************************************)
(* Splitting a spelling.                                                   *)
(***************************************************************************)
LEMMA DeleteInterConcat ==
  ASSUME NEW a \in Seq(Char), NEW b \in Seq(Char), \A i \in 1..Len(a) : a[i] \notin LFCR
  PROVE  delete_inter(a \o b) = a \o delete_inter(b)
<1> DEFINE Kept2(s) == [i \in 1..Len(s) |-> IF s[i] \in LFCR THEN <<>> ELSE <<s[i]>>]
           ones == [i \in 1..Len(a) |-> <<a[i]>>]
           x == Kept2(a \o b)
           y == Kept2(a) \o Kept2(b)
<1>1. \A s : delete_inter(s) = FlattenSeq(Kept2(s))
  BY DEF delete_inter, Replace, Each
<1>2. ASSUME NEW s \in Seq(Char) PROVE Kept2(s) \in Seq(Seq(Char)) /\ Len(Kept2(s)) = Len(s)
  <2>1. \A i \in 1..Len(s) : (IF s[i] \in LFCR THEN <<>> ELSE <<s[i]>>) \in Seq(Char)
    OBVIOUS
  <2> QED BY <2>1
<1>3. /\ a \o b \in Seq(Char) /\ Len(a \o b) = Len(a) + Len(b)
      /\ \A i \in 1..Len(a) : (a \o b)[i] = a[i]
      /\ \A i \in 1..Len(b) : (a \o b)[Len(a) + i] = b[i]
      /\ Len(a) \in Nat /\ Len(b) \in Nat
  BY Joined
<1>4. \A s : \A i \in 1..Len(s) : Kept2(s)[i] = IF s[i] \in LFCR THEN <<>> ELSE <<s[i]>>
  OBVIOUS
<1>5. Kept2(a) = ones
  OBVIOUS
<1>6. FlattenSeq(ones) = a
  BY FlattenSingles
<1> DEFINE p == Kept2(a)
           q == Kept2(b)
<1>7. /\ p \in Seq(Seq(Char)) /\ Len(p) = Len(a) /\ q \in Seq(Seq(Char)) /\ Len(q) = Len(b)
      /\ x \in Seq(Seq(Char)) /\ Len(x) = Len(a) + Len(b)
      /\ \A i \in 1..Len(a) : p[i] = IF a[i] \in LFCR THEN <<>> ELSE <<a[i]>>
      /\ \A i \in 1..Len(b) : q[i] = IF b[i] \in LFCR THEN <<>> ELSE <<b[i]>>
      /\ \A i \in 1..Len(a) + Len(b) : x[i] = IF (a \o b)[i] \in LFCR THEN <<>> ELSE <<(a \o b)[i]>>
  <2> HIDE DEF Kept2
  <2> QED BY <1>2, <1>3, <1>4
<1>8. y = p \o q
  OBVIOUS
<1>9. FlattenSeq(p) = a /\ delete_inter(a \o b) = FlattenSeq(x) /\ delete_inter(b) = FlattenSeq(q)
  <2>1. FlattenSeq(p) = a
    BY <1>5, <1>6, Zenon
  <2> HIDE DEF Kept2
  <2> QED BY <2>1, <1>1
<1> HIDE DEF p, q, x, y
<1>10. /\ p \o q \in Seq(Seq(Char)) /\ Len(p \o q) = Len(p) + Len(q)
       /\ \A i \in 1..Len(p) : (p \o q)[i] = p[i]
       /\ \A i \in 1..Len(q) : (p \o q)[Len(p) + i] = q[i]
  <2>1. p \in Seq(Seq(Char)) /\ q \in Seq(Seq(Char))
    BY <1>7
  <2> QED BY <2>1, Joined
<1>11. ASSUME NEW i \in 1..Len(a) + Len(b) PROVE x[i] = y[i]
  <2>1. CASE i <= Len(a)
    <3>1. i \in 1..Len(a)
      BY <1>3, <2>1
    <3>2. y[i] = p[i] /\ (a \o b)[i] = a[i]
      BY <3>1, <1>3, <1>7, <1>8, <1>10
    <3> QED BY <3>1, <3>2, <1>7
  <2>2. CASE i > Len(a)
    <3>1. i - Len(a) \in 1..Len(b) /\ Len(a) + (i - Len(a)) = i
      BY <1>3, <2>2
    <3>2. y[i] = q[i - Len(a)] /\ (a \o b)[i] = b[i - Len(a)]
      BY <3>1, <1>3, <1>7, <1>8, <1>10, SMTT(30)
    <3> QED BY <3>1, <3>2, <1>7
  <2> QED BY <1>3, <2>1, <2>2
<1>12. x = y
  BY <1>7, <1>8, <1>10, <1>11, SeqEqual
<1>13. FlattenSeq(p \o q) = FlattenSeq(p) \o FlattenSeq(q)
  BY <1>7, FlattenConcat
<1> QED BY <1>8, <1>9, <1>12, <1>13

LEMMA DeleteInterSame ==
  ASSUME NEW a \in Seq(Char), \A i \in 1..Len(a) : a[i] \notin LFCR
  PROVE  delete_inter(a) = a
<1>1. delete_inter(a \o <<>>) = a \o delete_inter(<<>>)
  BY DeleteInterConcat, CharsOfUrls
<1>2. a \o <<>> = a /\ <<>> \o <<>> = <<>>
  OBVIOUS
<1>3. delete_inter(<<>>) = <<>>
  <2>1. Each(LAMBDA c : IF c \in LFCR THEN <<>> ELSE <<c>>, <<>>) = <<>>
    BY DEF Each
  <2> QED BY <2>1, FlattenEmpty DEF delete_inter, Replace
<1> QED BY <1>1, <1>2, <1>3

\* Neither a line break nor a mark of the end of a host is in a site.
LEMMA SiteHasNone ==
  ASSUME NEW c \in SITE
  PROVE  c \notin LFCR /\ c # Slash /\ c # Question /\ c # Colon
BY DEF SITE, URL_LET_DIG_HY, URL_LET_DIGIT, URL_DIGIT, URL_UP_LET, Dot, Hyphen, Underscore,
       LFCR, Slash, Question, Colon

\* A site, then a path or first a colon and what is no path.
LEMMA SiteFound ==
  ASSUME NEW site, IsSite(site), NEW rest \in Seq(Char), NEW k \in Len(site)..Len(rest) - 1,
         \A i \in 1..Len(site) : rest[i] = site[i],
         rest[k + 1] = Slash,
         \A j \in Len(site) + 1..k : rest[j] # Slash /\ rest[j] # Question,
         k > Len(site) => rest[Len(site) + 1] = Colon
  PROVE  HostPart(rest) = Take(k, rest) /\ SitePart(HostPart(rest)) = site /\ Strip({Dot}, site) = site
<1>1. /\ site \in Seq(Char) /\ Len(site) \in Nat \ {0} /\ Len(rest) \in Nat /\ k \in Nat
      /\ \A i \in 1..Len(site) : site[i] \in SITE
  BY SiteIs
<1>2. \A j \in 1..k : rest[j] # Slash /\ rest[j] # Question
  <2> TAKE j \in 1..k
  <2>1. CASE j <= Len(site)
    <3>1. j \in 1..Len(site)
      BY <2>1
    <3> QED BY <3>1, <1>1, SiteHasNone
  <2>2. CASE j > Len(site)
    <3>1. j \in Len(site) + 1..k
      BY <1>1, <2>2
    <3> QED BY <3>1
  <2> QED BY <1>1, <2>1, <2>2
<1>3. PICK h \in 0..Len(rest) :
           /\ HostPart(rest) = Take(h, rest)
           /\ \A j \in 1..h : rest[j] # Slash /\ rest[j] # Question
           /\ h < Len(rest) => rest[h + 1] \in {Slash, Question}
  BY HostPartIs
<1>4. h = k
  <2>1. ~(h < k)
    <3>1. h < k => h + 1 \in 1..k /\ h < Len(rest)
      BY <1>1
    <3> QED BY <3>1, <1>2, <1>3
  <2>2. ~(k < h)
    <3>1. k < h => k + 1 \in 1..h
      BY <1>1
    <3> QED BY <3>1, <1>3
  <2> QED BY <1>1, <2>1, <2>2
<1> DEFINE host == Take(k, rest)
           f == Find(Colon, host)
<1>5. host \in Seq(Char) /\ Len(host) = k /\ \A j \in 1..k : host[j] = rest[j]
  <2>1. k \in 0..Len(rest)
    BY <1>1
  <2> QED BY <2>1, TakeIs
<1> HIDE DEF host
<1>6. /\ f \in 1..k + 1 /\ \A j \in 1..f - 1 : host[j] # Colon
      /\ f <= k => host[f] = Colon
  BY <1>5, FindIs
<1> HIDE DEF f
<1>7. f = Len(site) + 1
  <2>1. ~(f <= Len(site))
    <3>1. f <= Len(site) => f \in 1..Len(site) /\ f <= k /\ f \in 1..k
      BY <1>1, <1>6
    <3>2. f <= Len(site) => host[f] = site[f] /\ site[f] # Colon /\ host[f] = Colon
      BY <3>1, <1>1, <1>5, <1>6, SiteHasNone
    <3> QED BY <3>2
  <2>2. ~(f > Len(site) + 1)
    <3>1. f > Len(site) + 1 => Len(site) + 1 \in 1..f - 1 /\ k > Len(site) /\ Len(site) + 1 \in 1..k
      BY <1>1, <1>6
    <3> QED BY <3>1, <1>5, <1>6
  <2> QED BY <1>1, <1>6, <2>1, <2>2
<1>8. SitePart(host) = Take(Len(site), host)
  BY <1>1, <1>7 DEF SitePart, Before, f
<1>9. Take(Len(site), host) = site
  <2> DEFINE y == Take(Len(site), host)
  <2>1. y \in Seq(Char) /\ Len(y) = Len(site) /\ \A i \in 1..Len(site) : y[i] = host[i]
    <3>1. Len(site) \in 0..Len(host)
      BY <1>1, <1>5
    <3> QED BY <1>5, <3>1, TakeIs
  <2>2. \A i \in 1..Len(site) : host[i] = site[i]
    <3> TAKE i \in 1..Len(site)
    <3>1. i \in 1..k
      BY <1>1
    <3> QED BY <3>1, <1>5
  <2> HIDE DEF y
  <2>3. y = site
    BY <1>1, <2>1, <2>2, SeqEqual
  <2> QED BY <2>3 DEF y
<1>10. Strip({Dot}, site) = site
  <2>1. PICK n \in 0..Len(site) : /\ Strip({Dot}, site) = Take(n, site)
                                  /\ \A j \in n + 1..Len(site) : site[j] \in {Dot}
    BY <1>1, StripIs
  <2>2. site[Len(site)] # Dot
    <3>1. Dot \notin URL_LET_DIGIT
      BY SiteChars
    <3> QED BY <3>1 DEF IsSite
  <2>3. n = Len(site)
    <3>1. n # Len(site) => Len(site) \in n + 1..Len(site)
      BY <1>1
    <3> QED BY <3>1, <2>1, <2>2
  <2>4. Take(Len(site), site) = site
    BY <1>1 DEF Take
  <2> QED BY <2>1, <2>3, <2>4
<1> QED BY <1>3, <1>4, <1>8, <1>9, <1>10 DEF host

LEMMA HttpDropped ==
  ASSUME NEW rest \in Seq(Char)
  PROVE  WithoutScheme(Http \o rest) = rest /\ Len(Http \o rest) = 7 + Len(rest) /\ Http \o rest \in Seq(Char)
<1> DEFINE u == Http \o rest
<1>1. Http \in Seq(Char) /\ Len(Http) = 7
  <2>1. Len(Http) = 7
    BY DEF Http
  <2> QED BY <2>1, CharsOfUrls
<1>2. /\ u \in Seq(Char) /\ Len(u) = 7 + Len(rest)
      /\ \A i \in 1..7 : u[i] = Http[i]
      /\ \A i \in 1..Len(rest) : u[7 + i] = rest[i]
  <2>1. /\ Http \o rest \in Seq(Char) /\ Len(Http \o rest) = Len(Http) + Len(rest)
        /\ \A i \in 1..Len(Http) : (Http \o rest)[i] = Http[i]
        /\ \A i \in 1..Len(rest) : (Http \o rest)[Len(Http) + i] = rest[i]
    <3>1. Http \in Seq(Char) /\ rest \in Seq(Char)
      BY <1>1
    <3> QED BY <3>1, Joined
  <2>2. u = Http \o rest
    OBVIOUS
  <2> HIDE DEF u
  <2> QED BY <1>1, <2>1, <2>2
<1>3. \A i \in 1..7 : Lower(Http[i]) = Http[i]
  <2>1. \A i \in 1..7 : i = 1 \/ i = 2 \/ i = 3 \/ i = 4 \/ i = 5 \/ i = 6 \/ i = 7
    OBVIOUS
  <2>2. /\ Http[1] = 104 /\ Http[2] = 116 /\ Http[3] = 116 /\ Http[4] = 112 /\ Http[5] = 58
        /\ Http[6] = 47 /\ Http[7] = 47
    BY DEF Http
  <2>3. \A c \in {104, 116, 112, 58, 47} : Lower(c) = c
    BY DEF Lower, URL_UP_LET
  <2> QED BY <2>1, <2>2, <2>3
<1> HIDE DEF u
<1>4. HasScheme(Http, u)
  BY <1>1, <1>2, <1>3 DEF HasScheme
<1>5. WithoutScheme(u) = Drop(7, u)
  BY <1>1, <1>4 DEF WithoutScheme
<1> DEFINE y == Drop(7, u)
<1>6. y \in Seq(Char) /\ Len(y) = Len(rest) /\ \A i \in 1..Len(rest) : y[i] = u[7 + i]
  <2>1. 7 \in 0..Len(u) /\ Len(u) - 7 = Len(rest)
    BY <1>2
  <2>2. /\ Drop(7, u) \in Seq(Char) /\ Len(Drop(7, u)) = Len(u) - 7
        /\ \A i \in 1..Len(u) - 7 : Drop(7, u)[i] = u[7 + i]
    BY <1>2, <2>1, DropIs, ZenonT(60)
  <2> QED BY <2>1, <2>2
<1> HIDE DEF y
<1>7. y = rest
  BY <1>2, <1>6, SeqEqual
<1> QED BY <1>2, <1>5, <1>7 DEF u, y

\* The site that is found in a URL, whether or not port and path are asked for.
LEMMA SiteOfUrl ==
  ASSUME NEW input, NEW rest \in Seq(Char), NEW site, NEW all \in BOOLEAN,
         delete_inter(input) = Http \o rest,
         SitePart(HostPart(rest)) = site, Strip({Dot}, site) = site,
         site # <<>>, ~(Len(site) >= MAX_SITE_LEN), ~(Len(input) >= MAX_URL_LEN)
  PROVE  /\ ~all => parse_url(input, all).ok
         /\ parse_url(input, all).ok => parse_url(input, all).site = site
<1> DEFINE host == HostPart(rest)
           path == PathPart(rest)
           port == PortPart(host)
           bad == all /\ (\/ Len(path) >= MAX_PATH_LEN
                          \/ site # host /\ (Len(port) + 1 >= MAX_PORT_LEN \/ atoi(port) <= 0))
           parts == [ok |-> TRUE, site |-> Strip({Dot}, site),
                     port |-> IF port = HttpPort THEN <<>> ELSE port, path |-> path]
<1>1. WithoutScheme(delete_inter(input)) = rest
  BY HttpDropped
<1>2. parse_url(input, all) = Parts(input, all, host, path)
  BY <1>1 DEF parse_url
<1>3. Parts(input, all, host, path) = IF bad THEN Failed ELSE parts
  <2> HIDE DEF host, path
  <2>1. SitePart(host) = site
    BY DEF host
  <2> QED BY <2>1 DEF Parts
<1>4. parts.ok /\ parts.site = site /\ ~Failed.ok
  BY DEF Failed
<1>5. ~all => ~bad
  OBVIOUS
<1> HIDE DEF bad, parts, host, path
<1> QED BY <1>2, <1>3, <1>4, <1>5

LEMMA HttpHasNone == \A i \in 1..Len(Http) : Http[i] \notin LFCR
<1>1. \A i \in 1..7 : i = 1 \/ i = 2 \/ i = 3 \/ i = 4 \/ i = 5 \/ i = 6 \/ i = 7
  OBVIOUS
<1>2. /\ Http[1] = 104 /\ Http[2] = 116 /\ Http[3] = 116 /\ Http[4] = 112 /\ Http[5] = 58
      /\ Http[6] = 47 /\ Http[7] = 47 /\ Len(Http) = 7
  BY DEF Http
<1> QED BY <1>1, <1>2 DEF LFCR

\* A spelling with its scheme splits into the parts it was made of.
LEMMA SpellingSplits ==
  ASSUME NEW x, NEW site, NEW port, IsSite(site), IsPort(port), Spells(x, site, port)
  PROVE  /\ delete_inter(Http \o x) = Http \o x
         /\ HostPart(x) = Take(PathAt(site, port) - 1, x)
         /\ SitePart(HostPart(x)) = site /\ Strip({Dot}, site) = site
<1> DEFINE m == Len(site)
           n == Len(port)
           e == PathAt(site, port)
<1>1. /\ site \in Seq(Char) /\ m \in Nat \ {0} /\ \A i \in 1..m : site[i] \in SITE
      /\ port \in Seq(Char) /\ n \in Nat /\ \A i \in 1..n : port[i] \in URL_DIGIT
  BY SiteIs, PortIs
<1>2. /\ x \in Seq(Char) /\ e \in 1..Len(x) /\ Len(x) \in Nat
      /\ \A i \in 1..m : x[i] = site[i]
      /\ port # <<>> => x[m + 1] = Colon /\ \A i \in 1..n : x[m + 1 + i] = port[i]
      /\ x[e] = Slash /\ \A i \in e..Len(x) : x[i] \in UCH_RES
  BY DEF Spells
<1>3. e = IF port = <<>> THEN m + 1 ELSE m + n + 2
  BY DEF PathAt
<1> HIDE DEF m, n, e
<1>4. ASSUME NEW j \in m + 1..e - 1
      PROVE  port # <<>> /\ x[j] \in URL_DIGIT \union {Colon}
  <2>1. port # <<>> /\ e = m + n + 2
    BY <1>1, <1>3
  <2>2. CASE j = m + 1
    BY <2>1, <2>2, <1>2
  <2>3. CASE j # m + 1
    <3>1. j - (m + 1) \in 1..n /\ m + 1 + (j - (m + 1)) = j
      BY <1>1, <2>1, <2>3
    <3> QED BY <3>1, <2>1, <1>1, <1>2
  <2> QED BY <2>1, <2>2, <2>3
<1>5. \A c \in URL_DIGIT \union {Colon} : c # Slash /\ c # Question /\ c \notin LFCR
  BY DEF URL_DIGIT, Colon, Slash, Question, LFCR
<1>6. \A c \in UCH_RES : c \notin LFCR
  BY DEF UCH_RES, LFCR
<1>7. delete_inter(Http \o x) = Http \o x
  <2>1. \A i \in 1..Len(x) : x[i] \notin LFCR
    <3> TAKE i \in 1..Len(x)
    <3>1. i \in 1..m \/ i \in m + 1..e - 1 \/ i \in e..Len(x)
      BY <1>1, <1>2
    <3>2. i \in 1..m => x[i] \notin LFCR
      BY <1>1, <1>2, SiteHasNone
    <3>3. i \in m + 1..e - 1 => x[i] \notin LFCR
      BY <1>4, <1>5
    <3>4. i \in e..Len(x) => x[i] \notin LFCR
      BY <1>2, <1>6
    <3> QED BY <3>1, <3>2, <3>3, <3>4
  <2>2. delete_inter(x) = x
    BY <1>2, <2>1, DeleteInterSame
  <2> QED BY <1>2, <2>2, HttpHasNone, CharsOfUrls, DeleteInterConcat, ZenonT(60)
<1> DEFINE k == e - 1
<1>8. /\ k \in m..Len(x) - 1 /\ k + 1 = e
      /\ k > m => port # <<>>
  BY <1>1, <1>2, <1>3
<1>9. \A j \in m + 1..k : x[j] # Slash /\ x[j] # Question
  BY <1>4, <1>5
<1> HIDE DEF k
<1>10. HostPart(x) = Take(k, x) /\ SitePart(HostPart(x)) = site /\ Strip({Dot}, site) = site
  BY <1>2, <1>8, <1>9, SiteFound DEF m
<1> QED BY <1>7, <1>10 DEF k, e

\* Without a percent sign, every character stands for itself.
LEMMA UnitsPlain ==
  ASSUME NEW s \in Seq(Char), \A i \in 1..Len(s) : s[i] # Percent
  PROVE  Units(s) = [i \in 1..Len(s) |-> [raw |-> <<s[i]>>, char |-> s[i]]]
<1> DEFINE us == [i \in 1..Len(s) |-> [raw |-> <<s[i]>>, char |-> s[i]]]
<1>1. \A i \in 1..Len(s) : ~Escape(i, s) /\ ~InEscape(i, s)
  BY DEF Escape, InEscape
<1>2. \A i \in 1..Len(s) : UnitAt(i, s) = [raw |-> <<s[i]>>, char |-> s[i]]
  BY <1>1 DEF UnitAt
<1>3. us \in Seq([raw : Seq(Char), char : Char]) /\ Len(us) = Len(s)
  <2>1. \A i \in 1..Len(s) : s[i] \in Char /\ <<s[i]>> \in Seq(Char)
    OBVIOUS
  <2>2. \A i \in 1..Len(s) : [raw |-> <<s[i]>>, char |-> s[i]] \in [raw : Seq(Char), char : Char]
    BY <2>1
  <2>3. Len(s) \in Nat
    OBVIOUS
  <2> QED BY <2>2, <2>3
<1>4. UnitPieces(s) = [i \in 1..Len(s) |-> <<us[i]>>]
  BY <1>1, <1>2 DEF UnitPieces
<1>5. FlattenSeq([i \in 1..Len(us) |-> <<us[i]>>]) = us
  BY <1>3, FlattenSingles
<1> HIDE DEF us
<1>6. Units(s) = FlattenSeq(UnitPieces(s))
  BY DEF Units, UnitPieces
<1>7. Units(s) = us
  BY <1>3, <1>4, <1>5, <1>6
<1> QED BY <1>7 DEF us

\* A site as it is stored is spelled as it is.
LEMMA NormalizeSiteSame ==
  ASSUME NEW site, IsSite(site)
  PROVE  normalize_site(site) = [ok |-> TRUE, text |-> site]
<1> DEFINE us == Units(site)
           text == [i \in 1..Len(us) |-> Lower(us[i].char)]
<1>1. site \in Seq(Char) /\ Len(site) \in Nat \ {0} /\ \A i \in 1..Len(site) : site[i] \in SITE
  BY SiteIs
<1>2. \A c \in SITE : c # Percent /\ Lower(c) = c /\ (c # Dot => c \in URL_LET_DIG_HY)
  BY SiteChars DEF SITE, Lower
<1>3. us = [i \in 1..Len(site) |-> [raw |-> <<site[i]>>, char |-> site[i]]]
  BY <1>1, <1>2, UnitsPlain
<1>4. Len(us) = Len(site) /\ \A i \in 1..Len(site) : us[i].raw = <<site[i]>> /\ us[i].char = site[i]
  <2> HIDE DEF us
  <2> QED BY <1>1, <1>3
<1> HIDE DEF us
<1>5. text = site
  <2>1. text \in Seq(Char) /\ Len(text) = Len(site) /\ \A i \in 1..Len(site) : text[i] = site[i]
    <3>1. \A i \in 1..Len(site) : Lower(us[i].char) = site[i] /\ site[i] \in Char
      BY <1>1, <1>2, <1>4
    <3>2. text = [i \in 1..Len(site) |-> site[i]]
      BY <1>4, <3>1
    <3>3. [i \in 1..Len(site) |-> site[i]] = site
      BY <1>1
    <3> QED BY <1>1, <3>2, <3>3
  <2> HIDE DEF text
  <2> QED BY <1>1, <2>1, SeqEqual
<1>6. /\ site # <<>> /\ Head(site) \in URL_LET_DIG_HY /\ Dot \in Range(site)
      /\ Last(site) \in URL_LET_DIGIT
  <2>1. site # <<>> /\ site[1] # Dot /\ Dot \in Range(site) /\ site[Len(site)] \in URL_LET_DIGIT
    BY DEF IsSite
  <2>2. site[1] \in URL_LET_DIG_HY
    BY <1>1, <1>2, <2>1
  <2> QED BY <2>1, <2>2 DEF Last
<1>7. \A i \in 1..Len(site) :
         \/ site[i] \in URL_LET_DIG_HY
         \/ us[i].raw = <<Dot>> /\ site[i - 1] \in URL_LET_DIGIT
  <2> TAKE i \in 1..Len(site)
  <2>1. CASE site[i] # Dot
    BY <1>1, <1>2, <2>1
  <2>2. CASE site[i] = Dot
    <3>1. i # 1 /\ us[i].raw = <<Dot>>
      BY <1>4, <2>2 DEF IsSite
    <3>2. i \in 2..Len(site)
      BY <1>1, <3>1
    <3> QED BY <2>2, <3>1, <3>2 DEF IsSite
  <2> QED BY <2>1, <2>2
<1>8. normalize_site(site) = SiteText(site, us, text)
  BY DEF normalize_site, Each, us
<1>9. SiteText(site, us, text) = [ok |-> TRUE, text |-> site]
  <2> HIDE DEF text
  <2> QED BY <1>5, <1>6, <1>7 DEF SiteText, Text
<1> QED BY <1>8, <1>9

(***************************************************************************)
(* Where a link and its page are filed.                                    *)
(***************************************************************************)
LEMMA ParseOkLen ==
  ASSUME NEW url, NEW all, parse_url(url, all).ok
  PROVE  ~(Len(url) >= MAX_URL_LEN)
<1> DEFINE rest == WithoutScheme(delete_inter(url))
<1>1. parse_url(url, all) = Parts(url, all, HostPart(rest), PathPart(rest))
  BY DEF parse_url
<1> HIDE DEF rest
<1>2. Len(url) >= MAX_URL_LEN => Parts(url, all, HostPart(rest), PathPart(rest)) = Failed
  BY DEF Parts
<1> QED BY <1>1, <1>2 DEF Failed

\* A URL crawled under a spelling has the site of that spelling.
LEMMA SpelledSite ==
  ASSUME NEW url \in Seq(Char), Normal(url).ok, ~(Len(Spelled(url)) >= MAX_URL_LEN)
  PROVE  LET site == normalize_site(parse_url(url, TRUE).site).text
         IN /\ IsSite(site) /\ Len(site) < MAX_SITE_LEN
            /\ parse_url(Spelled(url), FALSE).ok
            /\ \A all \in BOOLEAN : parse_url(Spelled(url), all).ok => parse_url(Spelled(url), all).site = site
<1> DEFINE site == normalize_site(parse_url(url, TRUE).site).text
           port == normalize_port(parse_url(url, TRUE).port).text
           x == Normal(url).text
<1>1. IsSite(site) /\ IsPort(port) /\ Spells(x, site, port) /\ Len(site) < MAX_SITE_LEN
  BY NormalSpells
<1>2. Spelled(url) = Http \o x
  BY DEF Spelled, WithScheme, Normal
<1> HIDE DEF site, port, x
<1>3. x \in Seq(Char) /\ site # <<>> /\ ~(Len(site) >= MAX_SITE_LEN)
  <2>1. Len(site) \in Nat /\ MAX_SITE_LEN \in Nat
    BY <1>1, SiteIs, BufferAssumption
  <2> QED BY <1>1, <2>1 DEF Spells, IsSite
<1>4. delete_inter(Http \o x) = Http \o x /\ SitePart(HostPart(x)) = site /\ Strip({Dot}, site) = site
  BY <1>1, SpellingSplits
<1>5. \A all \in BOOLEAN : /\ ~all => parse_url(Http \o x, all).ok
                           /\ parse_url(Http \o x, all).ok => parse_url(Http \o x, all).site = site
  BY <1>2, <1>3, <1>4, SiteOfUrl
<1>6. parse_url(Http \o x, FALSE).ok
  BY <1>5
<1>7. parse_url(Spelled(url), FALSE).ok
  BY <1>2, <1>6
<1>8. \A all \in BOOLEAN : parse_url(Spelled(url), all).ok => parse_url(Spelled(url), all).site = site
  BY <1>2, <1>5
<1> QED BY <1>1, <1>7, <1>8, Zenon DEF site

\* Every page is crawled under the spelling of a URL.
SpelledInv == \E url \in Seq(Char) : page = Spelled(url)

\* So the site of one that has a normal spelling is its own.
LEMMA HostOfPage ==
  ASSUME PageInv, SpelledInv, Normal(page).ok
  PROVE  /\ IsSite(Host(page)) /\ Len(Host(page)) < MAX_SITE_LEN
         /\ parse_url(page, FALSE).ok /\ parse_url(page, FALSE).site = Host(page)
<1>1. PICK url \in Seq(Char) : page = Spelled(url)
  BY DEF SpelledInv
<1>2. Normal(url).ok
  <2>1. ~Normal(url).ok => Spelled(url) = url
    BY DEF Spelled, WithScheme, Normal
  <2> QED BY <1>1, <2>1
<1>3. parse_url(page, TRUE).ok /\ Host(page) = parse_url(page, TRUE).site
  BY DEF PageInv, Host, parseUrl
<1>4. ~(Len(page) >= MAX_URL_LEN)
  BY <1>3, ParseOkLen
<1> DEFINE site == normalize_site(parse_url(url, TRUE).site).text
<1>5. /\ IsSite(site) /\ Len(site) < MAX_SITE_LEN
      /\ parse_url(page, FALSE).ok
      /\ \A all \in BOOLEAN : parse_url(page, all).ok => parse_url(page, all).site = site
  BY <1>1, <1>2, <1>4, SpelledSite
<1> HIDE DEF site
<1>6. parse_url(page, FALSE).site = site /\ parse_url(page, TRUE).site = site
  BY <1>3, <1>5
<1> QED BY <1>3, <1>5, <1>6

LEMMA ConcatAssoc ==
  ASSUME NEW S, NEW a \in Seq(S), NEW b \in Seq(S), NEW c \in Seq(S)
  PROVE  (a \o b) \o c = a \o (b \o c)
OBVIOUS

\* The host of a link that is resolved against a site is that site.
LEMMA RelativeSite ==
  ASSUME NEW site, IsSite(site), Len(site) < MAX_SITE_LEN,
         NEW b \in Seq(Char), parse_url(Http \o site \o <<Slash>> \o b, TRUE).ok
  PROVE  parse_url(Http \o site \o <<Slash>> \o b, TRUE).site = site
<1> DEFINE a == Http \o site \o <<Slash>>
           d == delete_inter(b)
           front == site \o <<Slash>>
           rest == front \o d
           m == Len(site)
<1>1. /\ site \in Seq(Char) /\ m \in Nat \ {0} /\ \A i \in 1..m : site[i] \in SITE
      /\ <<Slash>> \in Seq(Char) /\ Http \in Seq(Char) /\ d \in Seq(Char)
  BY SiteIs, CharsOfUrls, DeleteInterType
<1>2. /\ front \in Seq(Char) /\ Len(front) = m + 1 /\ \A i \in 1..m : front[i] = site[i]
      /\ front[m + 1] = Slash
  <2>1. /\ site \o <<Slash>> \in Seq(Char) /\ Len(site \o <<Slash>>) = m + Len(<<Slash>>)
        /\ \A i \in 1..Len(site) : (site \o <<Slash>>)[i] = site[i]
        /\ \A i \in 1..Len(<<Slash>>) : (site \o <<Slash>>)[m + i] = <<Slash>>[i]
    BY <1>1, Joined
  <2>2. Len(<<Slash>>) = 1 /\ <<Slash>>[1] = Slash
    OBVIOUS
  <2> HIDE DEF m
  <2>3. (site \o <<Slash>>)[m + 1] = Slash
    BY <2>1, <2>2
  <2> QED BY <2>1, <2>2, <2>3 DEF m
<1>3. a = Http \o front
  BY <1>1, ConcatAssoc, SMTT(30)
<1> HIDE DEF front, d
<1>4. /\ rest \in Seq(Char) /\ Len(rest) = m + 1 + Len(d) /\ \A i \in 1..m + 1 : rest[i] = front[i]
  <2>1. front \in Seq(Char) /\ d \in Seq(Char)
    BY <1>1, <1>2
  <2>2. /\ front \o d \in Seq(Char) /\ Len(front \o d) = Len(front) + Len(d)
        /\ \A i \in 1..Len(front) : (front \o d)[i] = front[i]
    BY <2>1, Joined
  <2> QED BY <1>2, <2>2
<1>5. a \in Seq(Char) /\ \A i \in 1..Len(a) : a[i] \notin LFCR
  <2> HIDE DEF a
  <2>1. /\ Http \o front \in Seq(Char) /\ Len(Http \o front) = Len(Http) + Len(front)
        /\ \A i \in 1..Len(Http) : (Http \o front)[i] = Http[i]
        /\ \A i \in 1..Len(front) : (Http \o front)[Len(Http) + i] = front[i]
    <3>1. Http \in Seq(Char) /\ front \in Seq(Char)
      BY <1>1, <1>2
    <3> QED BY <3>1, Joined
  <2>2. \A i \in 1..Len(front) : front[i] \notin LFCR
    <3>1. Slash \notin LFCR
      BY DEF Slash, LFCR
    <3>2. \A i \in 1..Len(front) : i \in 1..m \/ i = m + 1
      BY <1>1, <1>2
    <3> QED BY <1>1, <1>2, <3>1, <3>2, SiteHasNone
  <2>3. Len(Http) = 7
    BY DEF Http
  <2> DEFINE u == Http \o front
  <2>4. ASSUME NEW i \in 1..Len(u) PROVE u[i] \notin LFCR
    <3>1. CASE i <= 7
      <4>1. i \in 1..Len(Http)
        BY <2>3, <3>1
      <4> QED BY <2>1, <4>1, HttpHasNone
    <3>2. CASE i > 7
      <4>1. i - 7 \in 1..Len(front) /\ Len(Http) + (i - 7) = i
        BY <1>1, <1>2, <2>1, <2>3, <3>2
      <4> QED BY <2>1, <2>2, <4>1
    <3> QED BY <3>1, <3>2
  <2> QED BY <1>3, <2>1, <2>4
<1>6. delete_inter(a \o b) = Http \o rest
  <2>1. delete_inter(a \o b) = a \o d
    BY <1>5, DeleteInterConcat DEF d
  <2>2. (Http \o front) \o d = Http \o (front \o d)
    <3>1. Http \in Seq(Char) /\ front \in Seq(Char) /\ d \in Seq(Char)
      BY <1>1, <1>2
    <3> QED BY <3>1, ConcatAssoc, SMTT(30)
  <2> QED BY <1>3, <2>1, <2>2
<1>7. /\ m \in Len(site)..Len(rest) - 1
      /\ \A i \in 1..Len(site) : rest[i] = site[i]
      /\ rest[m + 1] = Slash
      /\ \A j \in Len(site) + 1..m : FALSE
  <2>1. Len(d) \in Nat
    BY <1>1
  <2>2. \A i \in 1..m : i \in 1..m + 1
    BY <1>1
  <2>3. m + 1 \in 1..m + 1
    BY <1>1
  <2>4. m \in m..Len(rest) - 1 /\ \A j \in m + 1..m : FALSE
    <3> HIDE DEF m, rest
    <3> QED BY <1>1, <1>4, <2>1
  <2> QED BY <1>2, <1>4, <2>2, <2>3, <2>4
<1>8. SitePart(HostPart(rest)) = site /\ Strip({Dot}, site) = site
  <2> HIDE DEF rest, m
  <2>1. rest \in Seq(Char) /\ m = Len(site)
    BY <1>4 DEF m
  <2>2. \A j \in Len(site) + 1..m : rest[j] # Slash /\ rest[j] # Question
    BY <1>7
  <2>3. ~(m > Len(site))
    BY <1>1, <2>1
  <2> QED BY <1>7, <2>1, <2>2, <2>3, SiteFound
<1>9. site # <<>> /\ ~(Len(site) >= MAX_SITE_LEN)
  <2>1. MAX_SITE_LEN \in Nat
    BY BufferAssumption
  <2> QED BY <1>1, <2>1
<1>10. ~(Len(a \o b) >= MAX_URL_LEN)
  BY ParseOkLen
<1> HIDE DEF a, rest
<1>11. parse_url(a \o b, TRUE).ok => parse_url(a \o b, TRUE).site = site
  BY <1>4, <1>6, <1>8, <1>9, <1>10, SiteOfUrl
<1> QED BY <1>11 DEF a

LEMMA StaysHome == LinkInv /\ SpelledInv => RelativeLinksStayHome
<1> SUFFICES ASSUME LinkInv, SpelledInv, Asked(href), Normal(page).ok,
                    ~Holds(Trim(href), SchemeMark), NEW url \in getLinks(page, href)
             PROVE  fetch_url_maindomain(url) = fetch_url_maindomain(page)
  BY DEF RelativeLinksStayHome
<1> DEFINE link == Trim(href)
           host == Host(page)
           target == Target(href)
<1>1. /\ IsSite(host) /\ Len(host) < MAX_SITE_LEN
      /\ parse_url(page, FALSE).ok /\ parse_url(page, FALSE).site = host
  BY HostOfPage DEF LinkInv
<1>2. link \in Seq(Char) /\ link # <<>> /\ target \in Seq(Char) /\ Normal(target).ok
      /\ ~(Len(Spelled(target)) >= MAX_URL_LEN) /\ url = Spelled(target)
  <2>1. link \in Seq(Char) /\ target \in Seq(Char)
    BY HostType, TrimType, ResolvedType DEF LinkInv, Target
  <2>2. link # <<>> /\ Room(Normal(target))
    BY DEF Asked, MeantWell, Fits
  <2>3. url = Spelled(target) /\ ~(Len(url) >= MAX_URL_LEN - 1)
    BY DEF getLinks, Kept, Target
  <2>4. Len(url) \in Nat /\ MAX_URL_LEN \in Nat
    <3>1. url \in Seq(Char)
      BY <2>1, <2>3, SpelledType
    <3> QED BY <3>1, BufferAssumption
  <2> HIDE DEF link, target
  <2>5. ~(Len(url) >= MAX_URL_LEN)
    BY <2>3, <2>4
  <2> QED BY <2>1, <2>2, <2>3, <2>5 DEF Room
<1>3. PICK b \in Seq(Char) : target = Http \o host \o <<Slash>> \o b
  <2>1. target = IF Head(link) = Slash THEN Http \o host \o link ELSE Http \o host \o <<Slash>> \o link
    BY DEF Target, Resolved
  <2>2. CASE Head(link) # Slash
    BY <1>2, <2>1, <2>2
  <2>3. CASE Head(link) = Slash
    <3> DEFINE h == Http \o host
    <3>1. h \in Seq(Char) /\ <<Slash>> \in Seq(Char)
      <4>1. host \in Seq(Char) /\ Http \in Seq(Char) /\ <<Slash>> \in Seq(Char)
        BY <1>1, SiteIs, CharsOfUrls
      <4> HIDE DEF host
      <4> QED BY <4>1
    <3> HIDE DEF link, host, h
    <3>2. Tail(link) \in Seq(Char) /\ link = <<Slash>> \o Tail(link)
      BY <1>2, <2>3
    <3>3. (h \o <<Slash>>) \o Tail(link) = h \o (<<Slash>> \o Tail(link))
      BY <3>1, <3>2, ConcatAssoc
    <3> QED BY <2>1, <2>3, <3>2, <3>3 DEF h
  <2> QED BY <2>2, <2>3
<1> HIDE DEF link, host, target
<1>4. parse_url(target, TRUE).ok
  BY <1>2, NormalSpells
<1>5. parse_url(target, TRUE).site = host
  BY <1>1, <1>3, <1>4, RelativeSite
<1>6. normalize_site(host).text = host
  BY <1>1, NormalizeSiteSame
<1>7. parse_url(url, FALSE).ok /\ parse_url(url, FALSE).site = host
  BY <1>2, <1>5, <1>6, SpelledSite
<1> QED BY <1>1, <1>7 DEF fetch_url_maindomain, DomainOf

LEMMA SpelledInit == LinkInit => SpelledInv
<1> SUFFICES ASSUME LinkInit PROVE SpelledInv
  OBVIOUS
<1>1. PICK seed \in Seeds : page = request(seed).url
  BY DEF LinkInit
<1>2. page = Spelled(seed) /\ seed \in Seq(Char)
  BY <1>1, PairTypes DEF request
<1> QED BY <1>2 DEF SpelledInv

LEMMA SpelledNext == LinkInv /\ SpelledInv /\ [LinkNext]_linkVars => SpelledInv'
<1> SUFFICES ASSUME LinkInv, SpelledInv, [LinkNext]_linkVars PROVE SpelledInv'
  OBVIOUS
<1>1. CASE page' = page
  BY <1>1 DEF SpelledInv
<1>2. CASE Follow
  <2> DEFINE target == Resolved(Host(page), Trim(href))
  <2>1. page' \in getLinks(page, href)
    BY <1>2 DEF Follow
  <2>2. page' = Spelled(target)
    BY <2>1 DEF getLinks, Kept
  <2>3. target \in Seq(Char)
    BY HostType, TrimType, ResolvedType DEF LinkInv
  <2> HIDE DEF target
  <2> QED BY <2>2, <2>3 DEF SpelledInv
<1>3. Write => page' = page
  BY DEF Write
<1>4. UNCHANGED linkVars => page' = page
  BY DEF linkVars
<1> QED BY <1>1, <1>2, <1>3, <1>4 DEF LinkNext

\* Every page is crawled under the spelling of a URL: CrawlListenHandler::request and
\* getLinks let no other be made a context of.
THEOREM PagesAreSpelled == LinkSpec => [](LinkInv /\ SpelledInv)
BY LinkInvInit, LinkInvNext, SpelledInit, SpelledNext, PTL DEF LinkSpec

\* A link without a scheme is filed under the main domain of its page, whatever is
\* written in it: getLinks puts it behind the host of the page, and neither the
\* normalization nor the buffers move where that host ends.
THEOREM RelativeLinksStayHomeAlways == LinkSpec => []RelativeLinksStayHome
BY PagesAreSpelled, StaysHome, PTL

(***************************************************************************)
(* No path grows.                                                          *)
(***************************************************************************)
LEMMA ParentShorter ==
  ASSUME NEW out \in Path
  PROVE  Len(Parent(out)) <= Len(out) /\ Len(Parent(out)) \in Nat
<1>1. Len(out) \in Nat \ {0} /\ out \in Seq(UCH_RES)
  BY PathIs
<1>2. CASE Len(out) = 1
  <2>1. Parent(out) = out
    BY <1>2, ParentIs
  <2> QED BY <1>1, <2>1
<1>3. CASE Len(out) # 1
  <2>1. PICK k \in 1..Len(out) - 1 : Parent(out) = Take(k, out)
    BY <1>3, ParentIs
  <2>2. k \in 0..Len(out)
    BY <1>1
  <2>3. Len(Take(k, out)) = k
    BY <1>1, <2>2, TakeIs
  <2> QED BY <1>1, <2>1, <2>2, <2>3
<1> QED BY <1>2, <1>3

\* A round reads on, and writes no more than it reads.
LEMMA RoundShrinks ==
  ASSUME NEW r, IsRound(r)
  PROVE  LET n == NextRound(r)
         IN /\ Len(n.out) + Len(n.rest) <= Len(r.out) + Len(r.rest)
            /\ Len(n.rest) <= Len(r.rest)
            /\ r.rest # <<>> => Len(n.rest) < Len(r.rest)
<1> DEFINE out == r.out
           rest == r.rest
           L == Len(out)
           M == Len(rest)
           P == Len(Parent(out))
           Smaller(a, b) == a + b <= L + M /\ b <= M /\ (rest # <<>> => b < M)
<1>1. /\ L \in Nat /\ M \in Nat /\ P \in Nat /\ P <= L /\ (rest = <<>> <=> M = 0)
      /\ rest \in Seq(UCH_RES) /\ out \in Path /\ out \in Seq(UCH_RES)
  BY PathIs, ParentShorter, EmptySeq DEF IsRound
<1>2. IsPrefix(<<Dot, Slash>>, rest) => M >= 2
  BY DEF IsPrefix
<1>3. IsPrefix(<<Dot, Dot, Slash>>, rest) => M >= 3
  BY DEF IsPrefix
<1>4. \A n \in Nat : n <= M => Len(Drop(n, rest)) = M - n
  BY <1>1, DropIs
<1>5. rest # <<>> => Len(Append(out, Head(rest))) = L + 1 /\ Len(Tail(rest)) = M - 1
  <2>1. \A e \in UCH_RES : Len(Append(out, e)) = L + 1
    BY <1>1
  <2>2. rest # <<>> => Head(rest) \in UCH_RES /\ Len(Tail(rest)) = M - 1
    BY <1>1
  <2> QED BY <2>1, <2>2
<1>6. Len(<<>>) = 0
  OBVIOUS
<1>7. NextRound(r) = ResolveRound(out, rest)
  BY DEF NextRound
<1> DEFINE n == ResolveRound(out, rest)
<1> HIDE DEF out, rest, L, M, P
<1>8. Smaller(Len(n.out), Len(n.rest))
  <2>1. CASE rest = <<>>
    <3>1. n = [out |-> out, rest |-> rest]
      BY <2>1 DEF ResolveRound
    <3>2. Len(n.out) = L /\ Len(n.rest) = M
      BY <3>1 DEF L, M
    <3> HIDE DEF n
    <3> QED BY <1>1, <2>1, <3>2
  <2>2. CASE rest # <<>>
    <3> DEFINE One(a, b) == Len(n.out) = a /\ Len(n.rest) = b
    <3>1. \/ One(L + 1, M - 1)
          \/ One(L, M - 2) /\ M >= 2
          \/ One(P, M - 3) /\ M >= 3
          \/ One(L, M - 1)
          \/ One(L, 0)
          \/ One(P, 0)
      <4> DEFINE w == [out |-> Append(out, Head(rest)), rest |-> Tail(rest)]
      <4>1. w.out = Append(out, Head(rest)) /\ w.rest = Tail(rest)
        OBVIOUS
      <4> HIDE DEF w
      <4>2. n = w => One(L + 1, M - 1)
        BY <1>5, <2>2, <4>1
      <4>3. \/ n = w
            \/ IsPrefix(<<Dot, Slash>>, rest) /\ n = [out |-> out, rest |-> Drop(2, rest)]
            \/ IsPrefix(<<Dot, Dot, Slash>>, rest) /\ n = [out |-> Parent(out), rest |-> Drop(3, rest)]
            \/ n = [out |-> out, rest |-> Tail(rest)]
            \/ n = [out |-> out, rest |-> <<>>]
            \/ n = [out |-> Parent(out), rest |-> <<>>]
        BY <2>2 DEF ResolveRound, w
      <4> HIDE DEF n
      <4>4. IsPrefix(<<Dot, Slash>>, rest) /\ n = [out |-> out, rest |-> Drop(2, rest)]
              => One(L, M - 2) /\ M >= 2
        BY <1>1, <1>2, <1>4, SMTT(30) DEF L
      <4>5. IsPrefix(<<Dot, Dot, Slash>>, rest) /\ n = [out |-> Parent(out), rest |-> Drop(3, rest)]
              => One(P, M - 3) /\ M >= 3
        <5>1. M >= 3 => Len(Drop(3, rest)) = M - 3
          BY <1>1, <1>4
        <5> QED BY <1>3, <5>1 DEF P
      <4>6. n = [out |-> out, rest |-> Tail(rest)] => One(L, M - 1)
        BY <1>5, <2>2 DEF L
      <4>7. n = [out |-> out, rest |-> <<>>] => One(L, 0)
        BY <1>6 DEF L
      <4>8. n = [out |-> Parent(out), rest |-> <<>>] => One(P, 0)
        BY <1>6 DEF P
      <4> HIDE DEF One
      <4> QED BY <4>2, <4>3, <4>4, <4>5, <4>6, <4>7, <4>8
    <3>2. M > 0
      BY <1>1, <2>2
    <3>3. L \in Nat /\ M \in Nat /\ P \in Nat /\ P <= L
      BY <1>1
    <3> HIDE DEF n
    <3> DEFINE x == Len(n.out)  y == Len(n.rest)
    <3>4. \/ x = L + 1 /\ y = M - 1
          \/ x = L /\ y = M - 2 /\ M >= 2
          \/ x = P /\ y = M - 3 /\ M >= 3
          \/ x = L /\ y = M - 1
          \/ x = L /\ y = 0
          \/ x = P /\ y = 0
      BY <3>1
    <3> HIDE DEF x, y
    <3>5. x + y <= L + M /\ y <= M /\ y < M
      BY <3>2, <3>3, <3>4
    <3> QED BY <3>5 DEF x, y
  <2> QED BY <2>1, <2>2
<1> HIDE DEF n
<1> QED BY <1>7, <1>8 DEF L, M, n, out, rest

LEMMA RoundsShrink ==
  ASSUME NEW path \in Seq(UCH_RES), NEW N \in Nat, NEW f, RoundsOf(path, N, f)
  PROVE  \A n \in 0..N : /\ Len(f[n].out) + Len(f[n].rest) <= Len(path) + 1
                         /\ n <= Len(path) => Len(f[n].rest) <= Len(path) - n
<1> DEFINE Good(n) == /\ Len(f[n].out) + Len(f[n].rest) <= Len(path) + 1
                      /\ n <= Len(path) => Len(f[n].rest) <= Len(path) - n
           T == {n \in Nat : n <= N /\ ~Good(n)}
<1>0. \A i \in 0..N : f[i] = IF i = 0 THEN [out |-> <<Slash>>, rest |-> path] ELSE NextRound(f[i - 1])
  BY DEF RoundsOf
<1>1. 0 \notin T
  <2>1. f[0] = [out |-> <<Slash>>, rest |-> path]
    BY <1>0
  <2>2. Len(f[0].out) = 1 /\ Len(f[0].rest) = Len(path)
    BY <2>1
  <2>3. Len(path) \in Nat
    OBVIOUS
  <2>4. Good(0)
    BY <2>2, <2>3
  <2> HIDE DEF Good
  <2> QED BY <2>4
<1>2. ASSUME NEW n \in Nat, n + 1 \in T PROVE n \in T
  <2>1. n + 1 \in 0..N /\ n \in 0..N /\ n + 1 # 0 /\ (n + 1) - 1 = n /\ ~Good(n + 1)
    <3> HIDE DEF Good
    <3>1. n + 1 \in Nat /\ n + 1 <= N /\ ~Good(n + 1)
      BY <1>2
    <3> QED BY <3>1
  <2>2. f[n + 1] = NextRound(f[n])
    BY <2>1, <1>0
  <2>3. IsRound(f[n]) /\ IsRound(f[n + 1])
    BY <2>1, RoundsAre
  <2> DEFINE a == Len(f[n].out)  b == Len(f[n].rest)
             c == Len(f[n + 1].out)  d == Len(f[n + 1].rest)
  <2>4. /\ a \in Nat /\ b \in Nat /\ c \in Nat /\ d \in Nat
        /\ f[n].rest = <<>> <=> b = 0
    BY <2>3, PathIs, EmptySeq, SMTT(30) DEF IsRound
  <2>5. c + d <= a + b /\ d <= b /\ (f[n].rest # <<>> => d < b)
    BY <2>2, <2>3, RoundShrinks
  <2>6. Len(path) \in Nat
    OBVIOUS
  <2>7. Good(n) => Good(n + 1)
    <3> HIDE DEF a, b, c, d
    <3>1. b = 0 \/ d < b
      BY <2>4, <2>5
    <3>2. a + b <= Len(path) + 1 => c + d <= Len(path) + 1
      BY <2>4, <2>5, <2>6
    <3>3. (n <= Len(path) => b <= Len(path) - n) => (n + 1 <= Len(path) => d <= Len(path) - (n + 1))
      BY <2>4, <2>5, <2>6, <3>1
    <3> QED BY <3>2, <3>3 DEF a, b, c, d
  <2> HIDE DEF Good
  <2> QED BY <2>1, <2>7
<1>3. T = {}
  <2>1. T \subseteq Nat
    OBVIOUS
  <2> HIDE DEF T
  <2> QED BY <2>1, <1>1, <1>2, NoLeast
<1> HIDE DEF Good
<1>4. \A n \in 0..N : n \in Nat /\ n <= N
  OBVIOUS
<1>5. \A n \in 0..N : Good(n)
  BY <1>3, <1>4
<1> QED BY <1>5 DEF Good

LEMMA ResolveLength ==
  ASSUME NEW path \in Seq(UCH_RES)
  PROVE  Len(Resolve(path)) <= Len(path) + 1
<1>1. Len(path) \in Nat
  OBVIOUS
<1>2. PICK f : RoundsOf(path, Len(path), f) /\ Resolve(path) = f[Len(path)].out
  BY <1>1, ResolveIs
<1> DEFINE last == f[Len(path)]
<1>3. Len(last.out) + Len(last.rest) <= Len(path) + 1
  <2>1. Len(path) \in 0..Len(path)
    BY <1>1
  <2>2. \A n \in 0..Len(path) : Len(f[n].out) + Len(f[n].rest) <= Len(path) + 1
    BY <1>1, <1>2, RoundsShrink
  <2> QED BY <2>1, <2>2
<1>4. Len(last.out) \in Nat /\ Len(last.rest) \in Nat
  <2>1. IsRound(last)
    BY <1>1, <1>2, RoundsAre
  <2> QED BY <2>1, PathIs DEF IsRound
<1>5. Resolve(path) = last.out
  BY <1>2
<1> DEFINE a == Len(last.out)  b == Len(last.rest)  c == Len(path)
<1> HIDE DEF last
<1>6. Len(last.out) <= Len(path) + 1
  <2>1. a \in Nat /\ b \in Nat /\ c \in Nat /\ a + b <= c + 1
    BY <1>1, <1>3, <1>4
  <2> HIDE DEF a, b, c
  <2>2. a <= c + 1
    BY <2>1
  <2> QED BY <2>2 DEF a, c
<1> QED BY <1>5, <1>6

\* After as many rounds as the path has characters, all of it is read.
LEMMA AllRead ==
  ASSUME NEW path \in Seq(UCH_RES), NEW f, RoundsOf(path, Len(path), f)
  PROVE  f[Len(path)].rest = <<>>
<1> DEFINE n == Len(path)
           rest == f[n].rest
<1>1. n \in Nat /\ n \in 0..n /\ n <= n /\ n - n = 0
  OBVIOUS
<1>2. rest \in Seq(UCH_RES)
  BY <1>1, RoundsAre DEF IsRound
<1>3. \A k \in 0..n : k <= n => Len(f[k].rest) <= n - k
  BY <1>1, RoundsShrink
<1>4. Len(rest) <= 0
  BY <1>1, <1>3
<1> HIDE DEF rest
<1>5. Len(rest) = 0
  BY <1>2, <1>4
<1>6. rest = <<>>
  BY <1>2, <1>5, EmptySeq
<1> QED BY <1>6 DEF rest

LEMMA NormalizePathLength ==
  ASSUME NEW path \in Path
  PROVE  Len(normalize_path(path)) <= Len(path)
<1> DEFINE slashed == replace_slash(path)
           start == QueryStart(slashed)
           body == SubSeq(slashed, 2, start - 1)
           query == Drop(start - 1, slashed)
<1>1. slashed \in Path /\ slashed \in Seq(UCH_RES) /\ Len(slashed) \in Nat /\ Len(slashed) = Len(path)
  BY ReplaceSlashIs, PathIs
<1>2. start \in 2..Len(slashed) + 1
  BY <1>1, QueryStartIs
<1>3. normalize_path(path) = Resolve(body) \o query
  BY DEF normalize_path
<1> HIDE DEF slashed, start
<1>4. /\ body \in Seq(UCH_RES) /\ Len(body) = start - 2
      /\ query \in Seq(UCH_RES) /\ Len(query) = Len(slashed) - (start - 1)
  <2>1. start - 1 \in 0..Len(slashed)
    BY <1>1, <1>2
  <2>2. query \in Seq(UCH_RES) /\ Len(query) = Len(slashed) - (start - 1)
    BY <1>1, <2>1, DropIs
  <2>3. body \in Seq(UCH_RES)
    BY <1>1, <1>2
  <2>4. Len(body) = (start - 1) - 2 + 1
    BY <1>1, <1>2
  <2>5. (start - 1) - 2 + 1 = start - 2
    BY <1>2
  <2> QED BY <2>2, <2>3, <2>4, <2>5
<1> HIDE DEF body, query
<1>5. Resolve(body) \in Path /\ Len(Resolve(body)) <= Len(body) + 1
  BY <1>4, ResolveType, ResolveLength
<1> DEFINE x == Resolve(body)
<1>6. x \in Seq(UCH_RES) /\ Len(x) \in Nat
  BY <1>5, PathIs
<1> HIDE DEF x
<1>7. Len(x \o query) = Len(x) + Len(query)
  <2>1. x \in Seq(UCH_RES) /\ query \in Seq(UCH_RES)
    BY <1>4, <1>6
  <2> QED BY <2>1, Joined
<1> DEFINE b == Len(body)  q == Len(query)  m == Len(x)  s == Len(slashed)
<1>8. /\ s \in Nat /\ m \in Nat /\ start \in 2..s + 1
      /\ b = start - 2 /\ q = s - (start - 1) /\ m <= b + 1
  BY <1>1, <1>2, <1>4, <1>5, <1>6 DEF x
<1> HIDE DEF b, q, m, s
<1>9. m + q <= s
  BY <1>8
<1> QED BY <1>1, <1>3, <1>7, <1>9 DEF x, m, q, s

LEMMA SinglePathLength ==
  ASSUME NEW path \in Seq(Char), path # <<>>, path[1] = Slash, Len(path) < MAX_PATH_LEN,
         single_path_nointer(path).ok
  PROVE  Len(single_path_nointer(path).text) < MAX_PATH_LEN
<1> DEFINE us == Units(path)
           rs == Recodes(us)
           raws == Raws(us)
           text == FlattenSeq(rs)
<1>1. us \in Seq(Unit) /\ FlattenSeq(raws) = path
  BY UnitsAre, UnitsSpell
<1>2. single_path_nointer(path) = WithoutSpaces(text)
  BY SinglePathIs
<1> HIDE DEF us
<1>3. /\ rs \in Seq(Seq(UCH_RES)) /\ Len(rs) = InPart(us)
      /\ raws \in Seq(Seq(Char)) /\ Len(raws) = Len(us)
      /\ InPart(us) \in 0..Len(us)
  BY <1>1, RecodesAre, RawsAre, InPartIs
<1>4. \A i \in 1..Len(rs) : Len(rs[i]) <= Len(raws[i])
  <2> TAKE i \in 1..Len(rs)
  <2>1. us[i] \in Unit /\ i \in 1..Len(us) /\ i \in 1..InPart(us)
    BY <1>1, <1>3, InPartIs
  <2>2. PCHAR \in {PCHAR, PARAM, UCH_RES}
    OBVIOUS
  <2>3. Len(Recoded(us[i])) <= Len(us[i].raw)
    BY <2>1, <2>2, RecodeIs
  <2> QED BY <2>1, <2>3 DEF Recodes, Raws
<1>5. Len(text) <= Len(path)
  <2>1. Len(rs) <= Len(raws)
    BY <1>3
  <2> HIDE DEF rs, raws
  <2> QED BY <1>1, <1>3, <1>4, <2>1, FlattenLonger
<1>6. Len(text) < MAX_PATH_LEN
  <2>1. text \in Seq(UCH_RES)
    BY <1>3, FlattenType
  <2>2. Len(text) \in Nat /\ Len(path) \in Nat /\ MAX_PATH_LEN \in Nat
    BY <2>1, BufferAssumption
  <2> QED BY <1>5, <2>2
<1> HIDE DEF text
<1>7. WithoutSpaces(text).ok => Len(WithoutSpaces(text).text) < MAX_PATH_LEN
  BY <1>6 DEF WithoutSpaces, space_escape_path, Text, Failed
<1> QED BY <1>2, <1>7

(***************************************************************************)
(* Splitting a text, character by character.                               *)
(***************************************************************************)
PartsOf(c, s, n, f) ==
  f = [i \in 0..n |-> IF i = 0 THEN << <<>> >> ELSE NextPart(c, f[i - 1], s[i])]

LEMMA PartsExist ==
  ASSUME NEW c, NEW s, NEW N \in Nat
  PROVE  \E f : PartsOf(c, s, N, f)
<1> DEFINE T == {n \in Nat : ~ \E f : PartsOf(c, s, n, f)}
<1>1. PartsOf(c, s, 0, [i \in 0..0 |-> << <<>> >>])
  BY DEF PartsOf
<1>2. ASSUME NEW n \in Nat, n \notin T PROVE n + 1 \notin T
  <2>1. PICK f : PartsOf(c, s, n, f)
    BY <1>2
  <2> DEFINE g == [i \in 0..n + 1 |-> IF i = n + 1 THEN NextPart(c, f[n], s[n + 1]) ELSE f[i]]
  <2>2. PartsOf(c, s, n + 1, g)
    <3>1. \A i \in 0..n : f[i] = IF i = 0 THEN << <<>> >> ELSE NextPart(c, f[i - 1], s[i])
      BY <2>1 DEF PartsOf
    <3>2. \A i \in 0..n + 1 : g[i] = IF i = 0 THEN << <<>> >> ELSE NextPart(c, g[i - 1], s[i])
      <4> TAKE i \in 0..n + 1
      <4>1. CASE i = n + 1
        <5>1. i # 0 /\ i - 1 = n /\ n \in 0..n + 1 /\ n # n + 1
          BY <4>1
        <5>2. g[i] = NextPart(c, f[n], s[n + 1]) /\ g[n] = f[n]
          BY <4>1, <5>1
        <5> QED BY <4>1, <5>1, <5>2
      <4>2. CASE i # n + 1
        <5>1. i \in 0..n /\ (i # 0 => i - 1 \in 0..n + 1 /\ i - 1 # n + 1)
          BY <4>2
        <5>2. g[i] = f[i] /\ (i # 0 => g[i - 1] = f[i - 1])
          BY <4>2, <5>1
        <5> QED BY <3>1, <5>1, <5>2
      <4> QED BY <4>1, <4>2
    <3> QED BY <3>2 DEF PartsOf
  <2> HIDE DEF g
  <2> QED BY <2>2
<1>3. 0 \notin T
  BY <1>1
<1> HIDE DEF T
<1>4. T = {}
  BY <1>2, <1>3, NoLeast DEF T
<1> QED BY <1>4 DEF T

LEMMA SplitIs ==
  ASSUME NEW c, NEW s, Len(s) \in Nat
  PROVE  \E f : PartsOf(c, s, Len(s), f) /\ Split(c, s) = f[Len(s)]
<1> DEFINE f == CHOOSE g : PartsOf(c, s, Len(s), g)
<1>1. PartsOf(c, s, Len(s), f)
  BY PartsExist
<1>2. Split(c, s) = f[Len(s)]
  BY DEF Split, PartsOf
<1> QED BY <1>1, <1>2

LEMMA PartsAgree ==
  ASSUME NEW c, NEW S, NEW s \in Seq(S), NEW d, NEW f, NEW g,
         PartsOf(c, s, Len(s), f), PartsOf(c, Append(s, d), Len(s) + 1, g)
  PROVE  f[Len(s)] = g[Len(s)]
<1> DEFINE more == Append(s, d)
           m == Len(s)
           n == m + 1
<1>0. /\ m \in Nat /\ n = m + 1 /\ PartsOf(c, s, m, f) /\ PartsOf(c, more, n, g)
      /\ \A i \in 1..m : s[i] = more[i]
  OBVIOUS
<1> SUFFICES f[m] = g[m]
  OBVIOUS
<1> HIDE DEF more, m, n
<1> DEFINE T == {i \in Nat : i \in 0..m /\ f[i] # g[i]}
<1>1. \A i \in 0..m : f[i] = IF i = 0 THEN << <<>> >> ELSE NextPart(c, f[i - 1], s[i])
  BY <1>0 DEF PartsOf
<1>2. \A i \in 0..n : g[i] = IF i = 0 THEN << <<>> >> ELSE NextPart(c, g[i - 1], more[i])
  BY <1>0 DEF PartsOf
<1>3. ASSUME NEW i \in Nat, i + 1 \in T PROVE i \in T
  <2>1. i + 1 \in 0..m /\ i + 1 \in 0..n /\ i + 1 \in 1..m /\ f[i + 1] # g[i + 1] /\ i \in 0..m
        /\ (i + 1) - 1 = i /\ i + 1 # 0
    BY <1>0, <1>3
  <2>2. f[i + 1] = NextPart(c, f[i], s[i + 1]) /\ g[i + 1] = NextPart(c, g[i], more[i + 1])
    BY <2>1, <1>1, <1>2
  <2>3. s[i + 1] = more[i + 1]
    BY <2>1, <1>0
  <2> QED BY <2>1, <2>2, <2>3
<1>4. 0 \notin T
  <2>1. 0 \in 0..m /\ 0 \in 0..n
    BY <1>0
  <2> QED BY <2>1, <1>1, <1>2
<1>6. m \in Nat /\ m \in 0..m
  BY <1>0
<1> HIDE DEF T
<1>5. T = {}
  BY <1>3, <1>4, NoLeast DEF T
<1> QED BY <1>5, <1>6 DEF T

LEMMA SplitEmpty ==
  ASSUME NEW c
  PROVE  Split(c, <<>>) = << <<>> >>
<1>1. Len(<<>>) = 0
  OBVIOUS
<1>2. PICK f : PartsOf(c, <<>>, 0, f) /\ Split(c, <<>>) = f[0]
  BY <1>1, SplitIs
<1> QED BY <1>2 DEF PartsOf

LEMMA SplitAppend ==
  ASSUME NEW c, NEW S, NEW s \in Seq(S), NEW d \in S
  PROVE  Split(c, Append(s, d)) = NextPart(c, Split(c, s), d)
<1>1. Len(s) \in Nat
  OBVIOUS
<1>2. PICK n \in Nat : n = Len(s)
  BY <1>1
<1>3. PICK t : /\ t = Append(s, d) /\ Len(t) = n + 1 /\ t[n + 1] = d
               /\ \A i \in 1..n : s[i] = t[i]
  <2>1. /\ Len(Append(s, d)) = n + 1 /\ Append(s, d)[n + 1] = d
        /\ \A i \in 1..n : s[i] = Append(s, d)[i]
    BY <1>2
  <2> QED BY <2>1
<1>4. PICK f : PartsOf(c, s, n, f) /\ Split(c, s) = f[n]
  BY <1>2, SplitIs
<1>5. n + 1 \in Nat /\ n <= n + 1 /\ n \in 0..n /\ n + 1 \in 0..n + 1 /\ (n + 1) - 1 = n /\ n + 1 # 0
  OBVIOUS
<1>6. PICK g : PartsOf(c, t, n + 1, g) /\ Split(c, t) = g[n + 1]
  BY <1>3, <1>5, SplitIs
<1>7. f[n] = g[n]
  <2>1. PartsOf(c, s, Len(s), f) /\ PartsOf(c, Append(s, d), Len(s) + 1, g)
    BY <1>2, <1>3, <1>4, <1>6
  <2> QED BY <1>2, <2>1, PartsAgree
<1>8. g[n + 1] = NextPart(c, g[n], t[n + 1])
  BY <1>5, <1>6 DEF PartsOf
<1> QED BY <1>3, <1>4, <1>6, <1>7, <1>8

\* The parts are free of what parts them.
Free(S, c) == Seq(S \ {c})
Parted(S, c, parts) == parts \in Seq(Free(S, c)) /\ parts # <<>>

LEMMA NextPartIs ==
  ASSUME NEW c, NEW S, NEW parts, Parted(S, c, parts), NEW d \in S
  PROVE  /\ Parted(S, c, NextPart(c, parts, d))
         /\ Front(NextPart(c, parts, d)) = IF d = c THEN parts ELSE Front(parts)
         /\ Last(NextPart(c, parts, d)) = IF d = c THEN <<>> ELSE Append(Last(parts), d)
         /\ Front(parts) \in Seq(Free(S, c)) /\ Last(parts) \in Free(S, c)
<1> DEFINE U == Free(S, c)
<1>1. parts \in Seq(U) /\ parts # <<>>
  BY DEF Parted
<1> HIDE DEF U
<1>2. Front(parts) \in Seq(U) /\ Last(parts) \in U
  <2>1. Front(parts) \in Seq(U)
    BY <1>1 DEF Front
  <2>2. Last(parts) \in U
    BY <1>1 DEF Last
  <2> QED BY <2>1, <2>2
<1>3. \A w \in Seq(U), u \in U : /\ Append(w, u) \in Seq(U) /\ Append(w, u) # <<>>
                                 /\ Front(Append(w, u)) = w /\ Last(Append(w, u)) = u
  BY DEF Front, Last
<1>4. CASE d = c
  <2>1. <<>> \in U
    BY DEF U, Free
  <2> QED BY <1>1, <1>2, <1>3, <1>4, <2>1 DEF NextPart, Parted, U
<1>5. CASE d # c
  <2>1. Append(Last(parts), d) \in U
    BY <1>2, <1>5 DEF U, Free
  <2> QED BY <1>1, <1>2, <1>3, <1>5, <2>1 DEF NextPart, Parted, U
<1> QED BY <1>4, <1>5

LEMMA SplitType ==
  ASSUME NEW c, NEW S, NEW s \in Seq(S)
  PROVE  Parted(S, c, Split(c, s))
<1> DEFINE T == {n \in Nat : \E t \in Seq(S) : Len(t) = n /\ ~Parted(S, c, Split(c, t))}
<1>1. 0 \notin T
  <2>1. \A t \in Seq(S) : Len(t) = 0 => t = <<>>
    OBVIOUS
  <2>2. Parted(S, c, << <<>> >>)
    BY DEF Parted, Free
  <2> QED BY <2>1, <2>2, SplitEmpty
<1>2. ASSUME NEW n \in Nat, n + 1 \in T PROVE n \in T
  <2>1. PICK t \in Seq(S) : Len(t) = n + 1 /\ ~Parted(S, c, Split(c, t))
    BY <1>2
  <2> DEFINE rest == Take(n, t)
             last == t[n + 1]
  <2>2. rest \in Seq(S) /\ Len(rest) = n /\ last \in S /\ t = Append(rest, last)
    BY <2>1, TakenApart
  <2> HIDE DEF rest, last
  <2>3. Split(c, t) = NextPart(c, Split(c, rest), last)
    BY <2>2, SplitAppend
  <2>4. ~Parted(S, c, Split(c, rest))
    BY <2>1, <2>2, <2>3, NextPartIs
  <2> QED BY <2>2, <2>4
<1> HIDE DEF T
<1>3. T = {}
  BY <1>1, <1>2, NoLeast DEF T
<1>4. Len(s) \in Nat
  OBVIOUS
<1> QED BY <1>3, <1>4 DEF T

\* What follows without a separator belongs to the last part.
LEMMA SplitConcat ==
  ASSUME NEW c, NEW S, c \in S, NEW s \in Seq(S), NEW seg \in Free(S, c)
  PROVE  Split(c, s \o seg) = Append(Front(Split(c, s)), Last(Split(c, s)) \o seg)
<1> DEFINE P == Split(c, s)
           Good(t) == Split(c, s \o t) = Append(Front(P), Last(P) \o t)
           T == {n \in Nat : \E t \in Free(S, c) : Len(t) = n /\ ~Good(t)}
<1>0. /\ Parted(S, c, P) /\ P \in Seq(Free(S, c)) /\ P # <<>>
      /\ Front(P) \in Seq(Free(S, c)) /\ Last(P) \in Free(S, c)
      /\ P = Append(Front(P), Last(P))
  <2>1. Parted(S, c, P)
    BY SplitType
  <2>2. P \in Seq(Free(S, c)) /\ P # <<>>
    BY <2>1 DEF Parted
  <2>3. Front(P) \in Seq(Free(S, c)) /\ Last(P) \in Free(S, c)
    BY <2>1, NextPartIs
  <2>4. \A U : \A w \in Seq(U) : w # <<>> => w = Append(Front(w), Last(w))
    BY DEF Front, Last
  <2> HIDE DEF P
  <2> QED BY <2>1, <2>2, <2>3, <2>4
<1>1. 0 \notin T
  <2>1. \A t \in Free(S, c) : Len(t) = 0 => s \o t = s /\ Last(P) \o t = Last(P)
    <3>1. Last(P) \in Free(S, c)
      BY <1>0
    <3> DEFINE l == Last(P)
    <3> HIDE DEF l, P
    <3>2. \A t \in Free(S, c) : Len(t) = 0 => s \o t = s /\ l \o t = l
      BY <3>1 DEF l, Free
    <3> QED BY <3>2 DEF l
  <2>2. \A t \in Free(S, c) : Len(t) = 0 => Good(t)
    BY <1>0, <2>1
  <2> HIDE DEF Good
  <2> QED BY <2>2
<1>2. ASSUME NEW n \in Nat, n + 1 \in T PROVE n \in T
  <2>1. PICK t \in Free(S, c) : Len(t) = n + 1 /\ ~Good(t)
    <3> HIDE DEF Good
    <3> QED BY <1>2
  <2> DEFINE rest == Take(n, t)
             last == t[n + 1]
  <2>2. rest \in Free(S, c) /\ Len(rest) = n /\ last \in S \ {c} /\ t = Append(rest, last)
    <3> HIDE DEF Good
    <3> QED BY <2>1, TakenApart DEF Free
  <2> HIDE DEF rest, last, P
  <2>3. s \o t = Append(s \o rest, last) /\ s \o rest \in Seq(S)
    <3>1. rest \in Seq(S) /\ last \in S
      BY <2>2 DEF Free
    <3> QED BY <2>2, <3>1
  <2>4. Last(P) \o t = Append(Last(P) \o rest, last) /\ Last(P) \o rest \in Free(S, c)
    <3>1. Last(P) \in Free(S, c)
      BY <1>0
    <3> DEFINE l == Last(P)
    <3> HIDE DEF l
    <3>2. l \o t = Append(l \o rest, last) /\ l \o rest \in Free(S, c)
      BY <2>2, <3>1 DEF l, Free
    <3> QED BY <3>2 DEF l
  <2>5. Good(rest) => Good(t)
    <3> SUFFICES ASSUME Split(c, s \o rest) = Append(Front(P), Last(P) \o rest)
                 PROVE  Split(c, s \o t) = Append(Front(P), Last(P) \o t)
      OBVIOUS
    <3> DEFINE Q == Append(Front(P), Last(P) \o rest)
    <3>1. Split(c, s \o t) = NextPart(c, Q, last)
      <4>1. last \in S /\ s \o rest \in Seq(S) /\ s \o t = Append(s \o rest, last)
        BY <2>2, <2>3
      <4>2. Split(c, Append(s \o rest, last)) = NextPart(c, Split(c, s \o rest), last)
        <5>1. PICK x \in Seq(S) : x = s \o rest
          BY <4>1
        <5>2. Split(c, Append(x, last)) = NextPart(c, Split(c, x), last)
          BY <4>1, SplitAppend
        <5> QED BY <5>1, <5>2
      <4> QED BY <4>1, <4>2
    <3>2. Front(Q) = Front(P) /\ Last(Q) = Last(P) \o rest
      <4> DEFINE F == Front(P)  l == Last(P) \o rest  U == Free(S, c)
      <4>1. F \in Seq(U) /\ l \in U
        BY <1>0, <2>4
      <4> HIDE DEF F, l, U
      <4>2. Front(Append(F, l)) = F /\ Last(Append(F, l)) = l
        BY <4>1 DEF Front, Last
      <4> QED BY <4>2 DEF F, l
    <3> HIDE DEF Q
    <3> QED BY <2>2, <2>4, <3>1, <3>2 DEF NextPart
  <2> HIDE DEF Good
  <2> QED BY <2>1, <2>2, <2>5
<1> HIDE DEF Good
<1>3. T = {}
  <2>1. T \subseteq Nat
    OBVIOUS
  <2> HIDE DEF T
  <2> QED BY <1>1, <1>2, <2>1, NoLeast
<1>4. Len(seg) \in Nat
  OBVIOUS
<1>5. Good(seg)
  BY <1>3, <1>4
<1> QED BY <1>5 DEF Good

LEMMA SplitFree ==
  ASSUME NEW c, NEW S, c \in S, NEW seg \in Free(S, c)
  PROVE  Split(c, seg) = <<seg>>
<1>1. <<>> \in Seq(S) /\ <<>> \o seg = seg
  OBVIOUS
<1>2. Split(c, <<>> \o seg) = Append(Front(<< <<>> >>), Last(<< <<>> >>) \o seg)
  <2>1. Split(c, <<>> \o seg) = Append(Front(Split(c, <<>>)), Last(Split(c, <<>>)) \o seg)
    <3>1. PICK e \in Seq(S) : e = <<>>
      BY <1>1
    <3>2. Split(c, e \o seg) = Append(Front(Split(c, e)), Last(Split(c, e)) \o seg)
      BY SplitConcat
    <3> QED BY <3>1, <3>2
  <2> QED BY <2>1, SplitEmpty
<1>3. Front(<< <<>> >>) = <<>> /\ Last(<< <<>> >>) = <<>>
  BY DEF Front, Last
<1>4. Append(<<>>, seg) = <<seg>>
  OBVIOUS
<1> QED BY <1>1, <1>2, <1>3, <1>4

LEMMA SplitAfter ==
  ASSUME NEW c, NEW S, c \in S, NEW s \in Seq(S), NEW seg \in Free(S, c)
  PROVE  Split(c, Append(s, c) \o seg) = Append(Split(c, s), seg)
<1> DEFINE P == Split(c, s)
           Q == Split(c, Append(s, c))
<1>1. Q = Append(P, <<>>)
  BY SplitAppend DEF NextPart
<1>2. Parted(S, c, P)
  BY SplitType
<1>3. Append(s, c) \in Seq(S)
  OBVIOUS
<1>4. Split(c, Append(s, c) \o seg) = Append(Front(Q), Last(Q) \o seg)
  BY <1>3, SplitConcat, ZenonT(60)
<1> HIDE DEF P, Q
<1>5. Front(Q) = P /\ Last(Q) = <<>>
  <2> DEFINE U == Free(S, c)
  <2>1. P \in Seq(U) /\ <<>> \in U
    BY <1>2 DEF Parted, Free
  <2> HIDE DEF U
  <2> QED BY <1>1, <2>1 DEF Front, Last
<1>6. <<>> \o seg = seg
  OBVIOUS
<1> QED BY <1>4, <1>5, <1>6 DEF P

(***************************************************************************)
(* The stack of segments that a path is resolved to.                       *)
(***************************************************************************)
StacksOf(segments, n, f) ==
  f = [i \in 0..n |-> IF i = 0 THEN <<>> ELSE Enter(f[i - 1], segments[i])]

LEMMA StacksExist ==
  ASSUME NEW segments, NEW N \in Nat
  PROVE  \E f : StacksOf(segments, N, f)
<1> DEFINE T == {n \in Nat : ~ \E f : StacksOf(segments, n, f)}
<1>1. StacksOf(segments, 0, [i \in 0..0 |-> <<>>])
  BY DEF StacksOf
<1>2. ASSUME NEW n \in Nat, n \notin T PROVE n + 1 \notin T
  <2>1. PICK f : StacksOf(segments, n, f)
    BY <1>2
  <2> DEFINE g == [i \in 0..n + 1 |-> IF i = n + 1 THEN Enter(f[n], segments[n + 1]) ELSE f[i]]
  <2>2. StacksOf(segments, n + 1, g)
    <3>1. \A i \in 0..n : f[i] = IF i = 0 THEN <<>> ELSE Enter(f[i - 1], segments[i])
      BY <2>1 DEF StacksOf
    <3>2. \A i \in 0..n + 1 : g[i] = IF i = 0 THEN <<>> ELSE Enter(g[i - 1], segments[i])
      <4> TAKE i \in 0..n + 1
      <4>1. CASE i = n + 1
        <5>1. i # 0 /\ i - 1 = n /\ n \in 0..n + 1 /\ n # n + 1
          BY <4>1
        <5>2. g[i] = Enter(f[n], segments[n + 1]) /\ g[n] = f[n]
          BY <4>1, <5>1
        <5> QED BY <4>1, <5>1, <5>2
      <4>2. CASE i # n + 1
        <5>1. i \in 0..n /\ (i # 0 => i - 1 \in 0..n + 1 /\ i - 1 # n + 1)
          BY <4>2
        <5>2. g[i] = f[i] /\ (i # 0 => g[i - 1] = f[i - 1])
          BY <4>2, <5>1
        <5> QED BY <3>1, <5>1, <5>2
      <4> QED BY <4>1, <4>2
    <3> QED BY <3>2 DEF StacksOf
  <2> HIDE DEF g
  <2> QED BY <2>2
<1>3. 0 \notin T
  BY <1>1
<1> HIDE DEF T
<1>4. T = {}
  BY <1>2, <1>3, NoLeast DEF T
<1> QED BY <1>4 DEF T

LEMMA EnteredIs ==
  ASSUME NEW segments, Len(segments) \in Nat
  PROVE  \E f : StacksOf(segments, Len(segments), f) /\ Entered(segments) = f[Len(segments)]
<1> DEFINE f == CHOOSE g : StacksOf(segments, Len(segments), g)
<1>1. StacksOf(segments, Len(segments), f)
  BY StacksExist
<1>2. Entered(segments) = f[Len(segments)]
  BY DEF Entered, StacksOf
<1> QED BY <1>1, <1>2

LEMMA StacksAgree ==
  ASSUME NEW S, NEW s \in Seq(S), NEW d, NEW f, NEW g,
         StacksOf(s, Len(s), f), StacksOf(Append(s, d), Len(s) + 1, g)
  PROVE  f[Len(s)] = g[Len(s)]
<1> DEFINE more == Append(s, d)
           m == Len(s)
           n == m + 1
<1>0. /\ m \in Nat /\ n = m + 1 /\ StacksOf(s, m, f) /\ StacksOf(more, n, g)
      /\ \A i \in 1..m : s[i] = more[i]
  OBVIOUS
<1> SUFFICES f[m] = g[m]
  OBVIOUS
<1> HIDE DEF more, m, n
<1> DEFINE T == {i \in Nat : i \in 0..m /\ f[i] # g[i]}
<1>1. \A i \in 0..m : f[i] = IF i = 0 THEN <<>> ELSE Enter(f[i - 1], s[i])
  BY <1>0 DEF StacksOf
<1>2. \A i \in 0..n : g[i] = IF i = 0 THEN <<>> ELSE Enter(g[i - 1], more[i])
  BY <1>0 DEF StacksOf
<1>3. ASSUME NEW i \in Nat, i + 1 \in T PROVE i \in T
  <2>1. i + 1 \in 0..m /\ i + 1 \in 0..n /\ i + 1 \in 1..m /\ f[i + 1] # g[i + 1] /\ i \in 0..m
        /\ (i + 1) - 1 = i /\ i + 1 # 0
    BY <1>0, <1>3
  <2>2. f[i + 1] = Enter(f[i], s[i + 1]) /\ g[i + 1] = Enter(g[i], more[i + 1])
    BY <2>1, <1>1, <1>2
  <2>3. s[i + 1] = more[i + 1]
    BY <2>1, <1>0
  <2> QED BY <2>1, <2>2, <2>3
<1>4. 0 \notin T
  <2>1. 0 \in 0..m /\ 0 \in 0..n
    BY <1>0
  <2> QED BY <2>1, <1>1, <1>2
<1>6. m \in Nat /\ m \in 0..m
  BY <1>0
<1> HIDE DEF T
<1>5. T = {}
  BY <1>3, <1>4, NoLeast DEF T
<1> QED BY <1>5, <1>6 DEF T

LEMMA EnteredAppend ==
  ASSUME NEW S, NEW s \in Seq(S), NEW d
  PROVE  Entered(<<>>) = <<>> /\ Entered(Append(s, d)) = Enter(Entered(s), d)
<1>1. Len(s) \in Nat
  OBVIOUS
<1>2. PICK n \in Nat : n = Len(s)
  BY <1>1
<1>3. PICK t : t = Append(s, d) /\ Len(t) = n + 1 /\ t[n + 1] = d
  <2>1. Len(Append(s, d)) = n + 1 /\ Append(s, d)[n + 1] = d
    BY <1>2
  <2> QED BY <2>1
<1>4. PICK f : StacksOf(s, n, f) /\ Entered(s) = f[n]
  BY <1>2, EnteredIs
<1>5. n + 1 \in Nat /\ n \in 0..n /\ n + 1 \in 0..n + 1 /\ (n + 1) - 1 = n /\ n + 1 # 0
  OBVIOUS
<1>6. PICK g : StacksOf(t, n + 1, g) /\ Entered(t) = g[n + 1]
  BY <1>3, <1>5, EnteredIs
<1>7. f[n] = g[n]
  <2>1. StacksOf(s, Len(s), f) /\ StacksOf(Append(s, d), Len(s) + 1, g)
    BY <1>2, <1>3, <1>4, <1>6
  <2> QED BY <1>2, <2>1, StacksAgree
<1>8. g[n + 1] = Enter(g[n], t[n + 1])
  BY <1>5, <1>6 DEF StacksOf
<1>9. Entered(<<>>) = <<>>
  <2>1. Len(<<>>) = 0
    OBVIOUS
  <2>2. PICK h : StacksOf(<<>>, 0, h) /\ Entered(<<>>) = h[0]
    BY <2>1, EnteredIs
  <2> QED BY <2>2 DEF StacksOf
<1> QED BY <1>3, <1>4, <1>6, <1>7, <1>8, <1>9

\* What a stack holds: segments that are neither empty nor "." or "..".
Plainly == Seq(UCH_RES \ {Slash})
Proper  == Plainly \ (Here \union {Up})

LEMMA EnterIs ==
  ASSUME NEW stack \in Seq(Proper), NEW segment \in Plainly
  PROVE  /\ Enter(stack, segment) \in Seq(Proper)
         /\ segment \in Here => Enter(stack, segment) = stack
         /\ segment \in Proper => Enter(stack, segment) = Append(stack, segment)
         /\ Enter(<<>>, Up) = <<>>
         /\ Up \notin Here /\ <<>> \in Here /\ <<Dot>> \in Here
<1>1. Up \notin Here /\ <<>> \in Here /\ <<Dot>> \in Here
  <2>1. Len(Up) = 2 /\ Len(<<>>) = 0 /\ Len(<<Dot>>) = 1
    BY DEF Up
  <2>2. Up # <<>> /\ Up # <<Dot>>
    BY <2>1
  <2> QED BY <2>2 DEF Here
<1>2. segment \in Proper <=> segment \notin Here /\ segment # Up
  BY DEF Proper
<1>3. Append(stack, segment) \in Seq(Proper) \/ segment \notin Proper
  OBVIOUS
<1>4. stack # <<>> => Front(stack) \in Seq(Proper)
  BY DEF Front
<1> QED BY <1>1, <1>2, <1>3, <1>4 DEF Enter

LEMMA EnteredType ==
  ASSUME NEW segments \in Seq(Plainly)
  PROVE  Entered(segments) \in Seq(Proper)
<1> DEFINE T == {n \in Nat : \E ss \in Seq(Plainly) : Len(ss) = n /\ Entered(ss) \notin Seq(Proper)}
<1>1. 0 \notin T
  <2>1. \A ss \in Seq(Plainly) : Len(ss) = 0 => ss = <<>>
    OBVIOUS
  <2>2. Entered(<<>>) = <<>>
    BY EnteredAppend
  <2>3. <<>> \in Seq(Proper)
    OBVIOUS
  <2> QED BY <2>1, <2>2, <2>3
<1>2. ASSUME NEW n \in Nat, n + 1 \in T PROVE n \in T
  <2>1. PICK ss \in Seq(Plainly) : Len(ss) = n + 1 /\ Entered(ss) \notin Seq(Proper)
    BY <1>2
  <2> DEFINE rest == Take(n, ss)
             last == ss[n + 1]
  <2>2. rest \in Seq(Plainly) /\ Len(rest) = n /\ last \in Plainly /\ ss = Append(rest, last)
    BY <2>1, TakenApart
  <2> HIDE DEF rest, last
  <2>3. Entered(ss) = Enter(Entered(rest), last)
    BY <2>2, EnteredAppend
  <2>4. Entered(rest) \notin Seq(Proper)
    BY <2>1, <2>2, <2>3, EnterIs
  <2> QED BY <2>2, <2>4
<1> HIDE DEF T
<1>3. T = {}
  BY <1>1, <1>2, NoLeast DEF T
<1>4. Len(segments) \in Nat
  OBVIOUS
<1> QED BY <1>3, <1>4 DEF T

LEMMA EnteredSame ==
  ASSUME NEW stack \in Seq(Proper)
  PROVE  Entered(stack) = stack
<1> DEFINE T == {n \in Nat : \E ss \in Seq(Proper) : Len(ss) = n /\ Entered(ss) # ss}
<1>1. 0 \notin T
  <2>1. \A ss \in Seq(Proper) : Len(ss) = 0 => ss = <<>>
    OBVIOUS
  <2>2. Entered(<<>>) = <<>>
    BY EnteredAppend
  <2> QED BY <2>1, <2>2
<1>2. ASSUME NEW n \in Nat, n + 1 \in T PROVE n \in T
  <2>1. PICK ss \in Seq(Proper) : Len(ss) = n + 1 /\ Entered(ss) # ss
    BY <1>2
  <2> DEFINE rest == Take(n, ss)
             last == ss[n + 1]
  <2>2. rest \in Seq(Proper) /\ Len(rest) = n /\ last \in Proper /\ ss = Append(rest, last)
    BY <2>1, TakenApart
  <2> HIDE DEF rest, last
  <2>3. Entered(ss) = Enter(Entered(rest), last)
    BY <2>2, EnteredAppend
  <2>4. Entered(rest) = rest => Entered(ss) = ss
    <3>1. last \in Plainly
      BY <2>2 DEF Proper
    <3> QED BY <2>2, <2>3, <3>1, EnterIs
  <2> QED BY <2>1, <2>2, <2>4
<1> HIDE DEF T
<1>3. T = {}
  BY <1>1, <1>2, NoLeast DEF T
<1>4. Len(stack) \in Nat
  OBVIOUS
<1> QED BY <1>3, <1>4 DEF T

(***************************************************************************)
(* A stack of segments as a path.                                          *)
(***************************************************************************)
LEMMA RootedIs ==
  ASSUME NEW S, Slash \in S, NEW stack \in Seq(Seq(S)), NEW s \in Seq(S)
  PROVE  /\ Rooted(<<>>) = <<>> /\ Rooted(stack) \in Seq(S)
         /\ Rooted(Append(stack, s)) = Rooted(stack) \o (<<Slash>> \o s)
<1> DEFINE Pieces_(k) == [i \in 1..Len(k) |-> <<Slash>> \o k[i]]
<1>1. \A k : Rooted(k) = FlattenSeq(Pieces_(k))
  BY DEF Rooted, Replace, Each
<1>2. \A a \in Seq(S) : <<Slash>> \o a \in Seq(S)
  OBVIOUS
<1>3. Pieces_(stack) \in Seq(Seq(S))
  BY <1>2
<1>4. Pieces_(Append(stack, s)) = Append(Pieces_(stack), <<Slash>> \o s)
  OBVIOUS
<1>5. Pieces_(<<>>) = <<>>
  OBVIOUS
<1> HIDE DEF Pieces_
<1>6. FlattenSeq(Append(Pieces_(stack), <<Slash>> \o s)) = FlattenSeq(Pieces_(stack)) \o (<<Slash>> \o s)
  <2>1. <<Slash>> \o s \in Seq(S)
    BY <1>2
  <2> QED BY <1>3, <2>1, FlattenAppend
<1>7. FlattenSeq(Pieces_(stack)) \in Seq(S)
  BY <1>3, FlattenType
<1> QED BY <1>1, <1>4, <1>5, <1>6, <1>7, FlattenEmpty

LEMMA AppendIs ==
  ASSUME NEW S, NEW s \in Seq(S), NEW c \in S
  PROVE  Append(s, c) = s \o <<c>> /\ Append(s, c) \in Seq(S)
OBVIOUS

LEMMA RootedNone == Rooted(<<>>) = <<>>
<1>1. [i \in 1..Len(<<>>) |-> <<Slash>> \o <<>>[i]] = <<>>
  OBVIOUS
<1> QED BY <1>1, FlattenEmpty DEF Rooted, Replace, Each

\* A path so far: the stack, and the segment being written.
Out(stack, p) == Append(Rooted(stack), Slash) \o p

LEMMA ProperSegments == /\ Proper \subseteq Seq(UCH_RES) /\ Plainly \subseteq Seq(UCH_RES)
                        /\ Proper \subseteq Plainly
<1>1. Plainly \subseteq Seq(UCH_RES)
  BY DEF Plainly
<1> QED BY <1>1 DEF Proper

LEMMA OutIs ==
  ASSUME NEW stack \in Seq(Proper), NEW p \in Plainly
  PROVE  /\ Rooted(stack) \in Seq(UCH_RES)
         /\ Out(stack, p) \in Path
         /\ Out(stack, <<>>) = Append(Rooted(stack), Slash)
         /\ p = <<>> <=> Last(Out(stack, p)) = Slash
         /\ p \in Proper => Rooted(Append(stack, p)) = Out(stack, p)
         /\ p \in Proper => Out(Append(stack, p), <<>>) = Append(Out(stack, p), Slash)
         /\ \A c \in UCH_RES \ {Slash} : Append(Out(stack, p), c) = Out(stack, Append(p, c))
<1>1. stack \in Seq(Seq(UCH_RES)) /\ p \in Seq(UCH_RES \ {Slash}) /\ p \in Seq(UCH_RES) /\ Slash \in UCH_RES
  BY ProperSegments, CharClasses DEF Plainly
<1> DEFINE R == Rooted(stack)
<1>2. R \in Seq(UCH_RES) /\ Rooted(Append(stack, p)) = R \o (<<Slash>> \o p) /\ Rooted(<<>>) = <<>>
  BY <1>1, RootedIs
<1>3. R = <<>> \/ R[1] = Slash
  <2>1. CASE stack = <<>>
    BY <1>2, <2>1
  <2>2. CASE stack # <<>>
    <3> DEFINE pieces_ == [i \in 1..Len(stack) |-> <<Slash>> \o stack[i]]
    <3>1. R = FlattenSeq(pieces_)
      BY DEF Rooted, Replace, Each
    <3>2. pieces_ \in Seq(Seq(UCH_RES)) /\ pieces_ # <<>> /\ pieces_[1] = <<Slash>> \o stack[1]
          /\ stack[1] \in Seq(UCH_RES)
      <4>1. \A i \in 1..Len(stack) : stack[i] \in Seq(UCH_RES)
        BY <1>1
      <4>2. \A a \in Seq(UCH_RES) : <<Slash>> \o a \in Seq(UCH_RES)
        BY <1>1
      <4>3. Len(stack) \in Nat \ {0}
        BY <1>1, <2>2
      <4>4. \A i \in 1..Len(stack) : <<Slash>> \o stack[i] \in Seq(UCH_RES)
        BY <4>1, <4>2
      <4>5. pieces_ \in Seq(Seq(UCH_RES)) /\ Len(pieces_) = Len(stack)
        BY <4>3, <4>4
      <4>6. 1 \in 1..Len(stack)
        BY <4>3
      <4>7. pieces_ # <<>>
        BY <4>3, <4>5
      <4> QED BY <4>1, <4>5, <4>6, <4>7
    <3> HIDE DEF pieces_
    <3>3. R = pieces_[1] \o FlattenSeq(Tail(pieces_)) /\ Tail(pieces_) \in Seq(Seq(UCH_RES))
      BY <3>1, <3>2, FlattenFirst
    <3>4. FlattenSeq(Tail(pieces_)) \in Seq(UCH_RES)
      BY <3>3, FlattenType
    <3> DEFINE rest == FlattenSeq(Tail(pieces_))
               one  == stack[1]
    <3>5. rest \in Seq(UCH_RES) /\ one \in Seq(UCH_RES) /\ R = (<<Slash>> \o one) \o rest
      BY <3>2, <3>3, <3>4
    <3> HIDE DEF rest, one, R
    <3> QED BY <3>5
  <2> QED BY <2>1, <2>2
<1> HIDE DEF R
<1>4. Out(stack, p) = Append(R, Slash) \o p /\ Out(stack, <<>>) = Append(R, Slash) \o <<>>
  BY DEF Out, R
<1>5. /\ Append(R, Slash) \o p \in Seq(UCH_RES)
      /\ Len(Append(R, Slash) \o p) = Len(R) + 1 + Len(p)
      /\ (Append(R, Slash) \o p)[1] = Slash
      /\ Append(R, Slash) \o p # <<>>
      /\ Append(R, Slash) \o <<>> = Append(R, Slash)
      /\ R \o (<<Slash>> \o p) = Append(R, Slash) \o p
      /\ \A c \in UCH_RES : Append(Append(R, Slash) \o p, c) = Append(R, Slash) \o Append(p, c)
  <2>1. R \in Seq(UCH_RES) /\ p \in Seq(UCH_RES) /\ Slash \in UCH_RES
    BY <1>1, <1>2
  <2> DEFINE A == Append(R, Slash)
  <2>2. A \in Seq(UCH_RES) /\ Len(A) = Len(R) + 1 /\ Len(A) \in Nat \ {0} /\ A[1] = Slash /\ A = R \o <<Slash>>
    BY <2>1, <1>3
  <2>3. R \o (<<Slash>> \o p) = (R \o <<Slash>>) \o p
    BY <2>1
  <2> HIDE DEF A
  <2>4. A \o p \in Seq(UCH_RES) /\ Len(A \o p) = Len(A) + Len(p) /\ (A \o p)[1] = Slash /\ A \o p # <<>>
    BY <2>1, <2>2
  <2>5. A \o <<>> = A /\ \A c \in UCH_RES : Append(A \o p, c) = A \o Append(p, c)
    <3>1. A \o <<>> = A
      BY <2>2
    <3>2. \A c \in UCH_RES : Append(A \o p, c) = A \o Append(p, c)
      <4> TAKE c \in UCH_RES
      <4>1. A \in Seq(UCH_RES) /\ p \in Seq(UCH_RES) /\ <<c>> \in Seq(UCH_RES)
        BY <2>1, <2>2
      <4>2. Append(p, c) = p \o <<c>> /\ Append(A \o p, c) = (A \o p) \o <<c>>
        <5>1. PICK x \in Seq(UCH_RES) : x = A \o p
          BY <2>4
        <5> QED BY <2>1, <5>1, AppendIs
      <4> QED BY <4>1, <4>2, ConcatAssoc
    <3> QED BY <3>1, <3>2
  <2> QED BY <2>2, <2>3, <2>4, <2>5 DEF A
<1>6. Out(stack, p) \in Path /\ Out(stack, <<>>) = Append(R, Slash)
  BY <1>4, <1>5 DEF Path
<1>7. p = <<>> <=> Last(Append(R, Slash) \o p) = Slash
  <2>1. CASE p = <<>>
    <3>1. Last(Append(R, Slash)) = Slash
      BY <1>1, <1>2 DEF Last
    <3> QED BY <1>5, <2>1, <3>1
  <2>2. CASE p # <<>>
    <3>1. Last(Append(R, Slash) \o p) = p[Len(p)] /\ p[Len(p)] # Slash
      BY <1>1, <1>2, <2>2 DEF Last
    <3> QED BY <2>2, <3>1
  <2> QED BY <2>1, <2>2
<1>8. p \in Proper => /\ Rooted(Append(stack, p)) = Out(stack, p)
                      /\ Out(Append(stack, p), <<>>) = Append(Out(stack, p), Slash)
  <2>1. Rooted(Append(stack, p)) = Out(stack, p)
    BY <1>2, <1>4, <1>5
  <2>2. Append(Out(stack, p), Slash) \o <<>> = Append(Out(stack, p), Slash)
    <3>1. Out(stack, p) \in Seq(UCH_RES)
      BY <1>4, <1>5
    <3> QED BY <1>1, <3>1
  <2> QED BY <2>1, <2>2 DEF Out
<1>9. \A c \in UCH_RES \ {Slash} : Append(Out(stack, p), c) = Out(stack, Append(p, c))
  BY <1>4, <1>5 DEF Out, R
<1> QED BY <1>2, <1>4, <1>6, <1>7, <1>8, <1>9 DEF R

LEMMA ParentOfOut ==
  ASSUME NEW stack \in Seq(Proper)
  PROVE  Parent(Out(stack, <<>>)) = Out(Enter(stack, Up), <<>>)
<1>1. CASE stack = <<>>
  <2>1. <<>> \in Seq(Proper) /\ <<>> \in Plainly
    BY DEF Plainly
  <2>2. Out(<<>>, <<>>) = <<Slash>>
    <3>1. Rooted(<<>>) = <<>>
      BY RootedNone
    <3>2. Out(<<>>, <<>>) = Append(<<>>, Slash) \o <<>>
      BY <3>1 DEF Out
    <3> QED BY <3>2
  <2>3. Parent(<<Slash>>) = <<Slash>>
    BY DEF Parent
  <2>4. Enter(<<>>, Up) = <<>>
    BY <2>1, EnterIs
  <2> QED BY <1>1, <2>2, <2>3, <2>4
<1>2. CASE stack # <<>>
  <2> DEFINE F == Front(stack)
             s == Last(stack)
  <2>1. F \in Seq(Proper) /\ s \in Proper /\ stack = Append(F, s)
    BY <1>2 DEF Front, Last
  <2>2. Enter(stack, Up) = F
    <3>1. Up \notin Here
      BY <2>1, EnterIs, ProperSegments
    <3> QED BY <1>2, <3>1 DEF Enter
  <2>3. s \in Seq(UCH_RES \ {Slash})
    BY <2>1, ProperSegments DEF Plainly
  <2> HIDE DEF F, s
  <2> DEFINE R == Rooted(F)
             out == Append(Append(R, Slash) \o s, Slash)
  <2>4. <<>> \in Plainly /\ s \in Plainly
    BY <2>3 DEF Plainly
  <2>5. R \in Seq(UCH_RES) /\ Out(stack, <<>>) = out /\ Out(F, <<>>) = Append(R, Slash)
    BY <2>1, <2>4, OutIs DEF Out
  <2>6. out \in Path
    <3>1. Append(F, s) \in Seq(Proper)
      BY <2>1
    <3> QED BY <2>1, <2>4, <2>5, <3>1, OutIs
  <2> HIDE DEF R
  <2>7. s \in Seq(UCH_RES) /\ Slash \in UCH_RES /\ Len(R) \in Nat /\ Len(s) \in Nat
    BY <2>3, <2>5, CharClasses
  <2>8. /\ Len(out) = Len(R) + Len(s) + 2
        /\ out[Len(R) + 1] = Slash
        /\ \A j \in Len(R) + 2..Len(R) + Len(s) + 1 : out[j] # Slash
    <3>1. Len(out) = Len(R) + Len(s) + 2 /\ out[Len(R) + 1] = Slash
      BY <2>5, <2>7
    <3>2. ASSUME NEW j \in Len(R) + 2..Len(R) + Len(s) + 1 PROVE out[j] # Slash
      <4>1. j - (Len(R) + 1) \in 1..Len(s)
        BY <2>7
      <4>2. out[j] = s[j - (Len(R) + 1)]
        BY <2>5, <2>7
      <4>3. s[j - (Len(R) + 1)] \in UCH_RES \ {Slash}
        BY <2>3, <4>1
      <4> QED BY <4>2, <4>3
    <3> QED BY <3>1, <3>2
  <2>9. PICK k \in 1..Len(out) - 1 :
              /\ Parent(out) = Take(k, out) /\ out[k] = Slash
              /\ \A j \in k + 1..Len(out) - 1 : out[j] # Slash
    <3>1. Len(out) # 1
      BY <2>7, <2>8
    <3> HIDE DEF out
    <3> QED BY <2>6, <3>1, ParentIs
  <2>10. k = Len(R) + 1
    <3> DEFINE m == Len(R)  l == Len(s)
    <3>1. /\ m \in Nat /\ l \in Nat /\ Len(out) = m + l + 2
          /\ \A j \in m + 2..m + l + 1 : out[j] # Slash
          /\ out[m + 1] = Slash
      BY <2>7, <2>8
    <3> HIDE DEF m, l, out
    <3>2. k \in 1..m + l + 1
      BY <2>9, <3>1
    <3>3. ~(k > m + 1)
      <4>1. k > m + 1 => k \in m + 2..m + l + 1
        BY <3>1, <3>2
      <4> QED BY <2>9, <3>1, <4>1
    <3>4. ~(k < m + 1)
      <4>1. k < m + 1 => m + 1 \in k + 1..(m + l + 2) - 1
        BY <3>1, <3>2
      <4> QED BY <2>9, <3>1, <4>1
    <3>5. k = m + 1
      BY <3>1, <3>2, <3>3, <3>4
    <3> QED BY <3>5 DEF m
  <2>11. Take(Len(R) + 1, out) = Append(R, Slash)
    BY <2>5, <2>7, SMTT(30) DEF Take
  <2> QED BY <2>2, <2>5, <2>9, <2>10, <2>11
<1> QED BY <1>1, <1>2

(***************************************************************************)
(* The stack and the open segment after a part of a path is read.          *)
(***************************************************************************)
StackAt(done) == Entered(Front(Split(Slash, done)))
PartAt(done)  == Last(Split(Slash, done))

LEMMA AtIs ==
  ASSUME NEW done \in Seq(UCH_RES)
  PROVE  /\ StackAt(done) \in Seq(Proper) /\ PartAt(done) \in Plainly
         /\ Entered(Split(Slash, done)) = Enter(StackAt(done), PartAt(done))
         /\ StackAt(Append(done, Slash)) = Enter(StackAt(done), PartAt(done))
         /\ PartAt(Append(done, Slash)) = <<>>
         /\ \A c \in UCH_RES \ {Slash} : /\ StackAt(Append(done, c)) = StackAt(done)
                                         /\ PartAt(Append(done, c)) = Append(PartAt(done), c)
<1> DEFINE parts == Split(Slash, done)
<1>1. Parted(UCH_RES, Slash, parts) /\ Slash \in UCH_RES
  BY SplitType, CharClasses
<1>2. \A d \in UCH_RES : Split(Slash, Append(done, d)) = NextPart(Slash, parts, d)
  BY SplitAppend
<1>3. Front(parts) \in Seq(Plainly) /\ Last(parts) \in Plainly
  BY <1>1, NextPartIs DEF Plainly, Free
<1>4. parts = Append(Front(parts), Last(parts))
  <2>1. parts \in Seq(Plainly) /\ parts # <<>>
    BY <1>1 DEF Parted, Plainly, Free
  <2> HIDE DEF parts
  <2> QED BY <2>1 DEF Front, Last
<1> DEFINE F == Front(parts)
<1>5. Entered(parts) = Enter(Entered(F), Last(parts))
  BY <1>3, <1>4, EnteredAppend
<1>6. Entered(F) \in Seq(Proper)
  BY <1>3, EnteredType
<1> DEFINE next(d) == NextPart(Slash, parts, d)
<1>7. Front(next(Slash)) = parts /\ Last(next(Slash)) = <<>>
  BY <1>1, NextPartIs
<1>8. \A d \in UCH_RES \ {Slash} : Front(next(d)) = F /\ Last(next(d)) = Append(Last(parts), d)
  <2>1. \A d \in UCH_RES : d # Slash => Front(next(d)) = F /\ Last(next(d)) = Append(Last(parts), d)
    BY <1>1, NextPartIs
  <2> QED BY <2>1
<1> HIDE DEF next
<1>9. StackAt(done) = Entered(F) /\ PartAt(done) = Last(parts)
  BY DEF StackAt, PartAt
<1>10. StackAt(Append(done, Slash)) = Entered(parts) /\ PartAt(Append(done, Slash)) = <<>>
  BY <1>1, <1>2, <1>7 DEF StackAt, PartAt, next
<1>11. \A d \in UCH_RES \ {Slash} : StackAt(Append(done, d)) = Entered(F) /\ PartAt(Append(done, d)) = Append(Last(parts), d)
  BY <1>2, <1>8 DEF StackAt, PartAt, next
<1> QED BY <1>3, <1>5, <1>6, <1>9, <1>10, <1>11

LEMMA AtStart == StackAt(<<>>) = <<>> /\ PartAt(<<>>) = <<>>
<1>1. Split(Slash, <<>>) = << <<>> >>
  BY SplitEmpty
<1>2. Front(<< <<>> >>) = <<>> /\ Last(<< <<>> >>) = <<>>
  BY DEF Front, Last
<1>3. Entered(<<>>) = <<>>
  <2>1. <<>> \in Seq(Nat)
    OBVIOUS
  <2> QED BY <2>1, EnteredAppend
<1> QED BY <1>1, <1>2, <1>3 DEF StackAt, PartAt

\* The path when the open segment is the last.
Final(stack, p) ==
  IF p \in Here THEN Out(stack, <<>>)
  ELSE IF p = Up THEN Out(Enter(stack, Up), <<>>) ELSE Out(stack, p)
Rendered(path) == Final(StackAt(path), PartAt(path))

LEMMA RenderedIs ==
  ASSUME NEW path \in Path
  PROVE  ResolvedPath(path) = Rendered(Tail(path))
<1> DEFINE done == Tail(path)
           stack == StackAt(done)
           p == PartAt(done)
           e == Enter(stack, p)
<1>1. done \in Seq(UCH_RES)
  BY PathIs
<1>2. stack \in Seq(Proper) /\ p \in Plainly /\ Entered(Split(Slash, done)) = e
  BY <1>1, AtIs
<1>3. ResolvedPath(path) = Rooted(e) \o IF e = <<>> \/ p \in Here \union {Up} THEN <<Slash>> ELSE <<>>
  BY <1>2 DEF ResolvedPath, PartAt
<1>4. Rendered(done) = Final(stack, p)
  BY DEF Rendered
<1> HIDE DEF done, stack, p
<1>5. e \in Seq(Proper) /\ (p \in Here => e = stack) /\ (p \in Proper => e = Append(stack, p))
  BY <1>2, EnterIs
<1>6. <<>> \in Plainly
  BY DEF Plainly, Free
<1>7. Rooted(e) \in Seq(UCH_RES) /\ Out(e, <<>>) = Append(Rooted(e), Slash)
  BY <1>5, <1>6, OutIs
<1>8. Rooted(e) \o <<Slash>> = Out(e, <<>>)
  BY <1>7, CharClasses, AppendIs
<1>9. CASE p \in Here \union {Up}
  <2>1. Final(stack, p) = Out(e, <<>>)
    BY <1>5, <1>9 DEF Final
  <2> QED BY <1>3, <1>4, <1>8, <1>9, <2>1 DEF done
<1>10. CASE p \notin Here \union {Up}
  <2>1. p \in Proper
    BY <1>2, <1>10 DEF Proper
  <2>2. e = Append(stack, p) /\ e # <<>>
    BY <1>2, <1>5, <2>1
  <2>3. Rooted(e) = Out(stack, p)
    BY <1>2, <2>1, <2>2, OutIs
  <2>4. Rooted(e) \o <<>> = Rooted(e)
    BY <1>7
  <2>5. Final(stack, p) = Out(stack, p)
    BY <1>10 DEF Final
  <2> QED BY <1>3, <1>4, <1>10, <2>2, <2>3, <2>4, <2>5 DEF done
<1> QED BY <1>9, <1>10

(***************************************************************************)
(* What a round of normalize_path writes is what is read so far, resolved. *)
(***************************************************************************)
LEMMA Advance ==
  ASSUME NEW S, NEW done \in Seq(S), NEW rest \in Seq(S), rest # <<>>
  PROVE  /\ rest[1] \in S /\ Head(rest) = rest[1]
         /\ Tail(rest) \in Seq(S) /\ Len(rest) \in Nat /\ Len(Tail(rest)) = Len(rest) - 1
         /\ \A i \in 1..Len(rest) - 1 : Tail(rest)[i] = rest[i + 1]
         /\ Append(done, rest[1]) \in Seq(S)
         /\ Append(done, rest[1]) \o Tail(rest) = done \o rest
OBVIOUS

LEMMA PrefixIs ==
  ASSUME NEW S, NEW rest \in Seq(S)
  PROVE  /\ IsPrefix(<<Dot, Slash>>, rest) <=>
              Len(rest) >= 2 /\ rest[1] = Dot /\ rest[2] = Slash
         /\ IsPrefix(<<Dot, Dot, Slash>>, rest) <=>
              Len(rest) >= 3 /\ rest[1] = Dot /\ rest[2] = Dot /\ rest[3] = Slash
BY DEF IsPrefix

\* The open segment is no dot segment, and what remains does not make it one.
Begun(p, rest) ==
  /\ p \in {<<Dot>>, Up} => rest # <<>> /\ rest[1] # Slash
  /\ p = <<Dot>> => /\ rest # <<Dot>>
                    /\ ~(Len(rest) >= 2 /\ rest[1] = Dot /\ rest[2] = Slash)

\* A round of a path: all is read, or a part of which the path so far is the
\* resolution.
Reads(r, path) ==
  IF r.rest = <<>> THEN r.out = Rendered(path)
  ELSE \E done \in Seq(UCH_RES) :
         /\ path = done \o r.rest
         /\ r.out = Out(StackAt(done), PartAt(done))
         /\ Begun(PartAt(done), r.rest)

LEMMA NotDots == <<Dot>> # <<>> /\ Up # <<>> /\ Up # <<Dot>>
<1>1. Len(Up) = 2 /\ Len(<<Dot>>) = 1 /\ Len(<<>>) = 0
  BY DEF Up
<1> QED BY <1>1

\* After a slash a new segment is open.
LEMMA ReadsOn ==
  ASSUME NEW path, NEW done \in Seq(UCH_RES), NEW rest \in Seq(UCH_RES), path = done \o rest,
         PartAt(done) = <<>>, NEW r, r.rest = rest, r.out = Out(StackAt(done), <<>>)
  PROVE  Reads(r, path)
<1>1. CASE rest = <<>>
  <2>1. path = done
    BY <1>1
  <2>2. Rendered(done) = Out(StackAt(done), <<>>)
    BY DEF Rendered, Final, Here
  <2> QED BY <1>1, <2>1, <2>2 DEF Reads
<1>2. CASE rest # <<>>
  <2>1. Begun(PartAt(done), rest)
    BY NotDots DEF Begun
  <2> QED BY <1>2, <2>1 DEF Reads
<1> QED BY <1>1, <1>2

\* After another character the segment is one longer.
LEMMA Writes ==
  ASSUME NEW path, NEW done \in Seq(UCH_RES), NEW c \in UCH_RES \ {Slash}, NEW rest \in Seq(UCH_RES),
         path = Append(done, c) \o rest,
         NEW q, q = Append(PartAt(done), c),
         rest = <<>> => q \notin Here \union {Up},
         rest # <<>> => Begun(q, rest),
         NEW r, r.rest = rest, r.out = Append(Out(StackAt(done), PartAt(done)), c)
  PROVE  Reads(r, path)
<1> DEFINE more == Append(done, c)
<1>1. StackAt(done) \in Seq(Proper) /\ PartAt(done) \in Plainly
      /\ StackAt(more) = StackAt(done) /\ PartAt(more) = q
  BY AtIs
<1>2. r.out = Out(StackAt(done), q)
  BY <1>1, OutIs
<1>3. more \in Seq(UCH_RES) /\ path = more \o rest
  BY AppendIs
<1> HIDE DEF more
<1>4. CASE rest = <<>>
  <2>1. path = more
    BY <1>3, <1>4
  <2>2. Rendered(more) = Out(StackAt(done), q)
    BY <1>1, <1>4 DEF Rendered, Final
  <2> QED BY <1>2, <1>4, <2>1, <2>2 DEF Reads
<1>5. CASE rest # <<>>
  BY <1>1, <1>2, <1>3, <1>5 DEF Reads
<1> QED BY <1>4, <1>5

LEMMA RoundReads ==
  ASSUME NEW path, NEW r, IsRound(r), Reads(r, path)
  PROVE  Reads(NextRound(r), path)
<1> DEFINE out == r.out
           rest == r.rest
           n == ResolveRound(out, rest)
<1>1. rest \in Seq(UCH_RES) /\ NextRound(r) = n
  BY DEF IsRound, NextRound
<1>2. CASE rest = <<>>
  <2>1. n.out = out /\ n.rest = rest
    BY <1>2 DEF ResolveRound
  <2> HIDE DEF n
  <2> QED BY <1>1, <1>2, <2>1 DEF Reads
<1>3. CASE rest # <<>>
  <2>1. PICK done \in Seq(UCH_RES) :
         /\ path = done \o rest
         /\ out = Out(StackAt(done), PartAt(done))
         /\ Begun(PartAt(done), rest)
    BY <1>3 DEF Reads
  <2> DEFINE stack == StackAt(done)
             p == PartAt(done)
             c == rest[1]
             rest1 == Tail(rest)
             done1 == Append(done, c)
             write == [out |-> Append(out, Head(rest)), rest |-> Tail(rest)]
  <2>2. /\ stack \in Seq(Proper) /\ p \in Plainly
        /\ StackAt(Append(done, Slash)) = Enter(stack, p) /\ PartAt(Append(done, Slash)) = <<>>
    BY AtIs
  <2>3. /\ c \in UCH_RES /\ Head(rest) = c /\ rest1 \in Seq(UCH_RES)
        /\ Len(rest) \in Nat \ {0} /\ Len(rest1) = Len(rest) - 1
        /\ \A i \in 1..Len(rest) - 1 : rest1[i] = rest[i + 1]
        /\ done1 \in Seq(UCH_RES) /\ path = done1 \o rest1
    <3> HIDE DEF rest
    <3>1. /\ rest[1] \in UCH_RES /\ Head(rest) = rest[1]
          /\ Tail(rest) \in Seq(UCH_RES) /\ Len(rest) \in Nat /\ Len(Tail(rest)) = Len(rest) - 1
          /\ \A i \in 1..Len(rest) - 1 : Tail(rest)[i] = rest[i + 1]
          /\ Append(done, rest[1]) \in Seq(UCH_RES)
          /\ Append(done, rest[1]) \o Tail(rest) = done \o rest
      BY <1>1, <1>3, Advance, SMTT(30)
    <3>2. Len(rest) # 0
      BY <1>1, <1>3, EmptySeq
    <3> QED BY <2>1, <3>1, <3>2
  <2> HIDE DEF out, rest, stack, p, c, rest1, n
  <2>4. p = <<>> <=> Last(out) = Slash
    BY <2>1, <2>2, OutIs DEF p, stack
  <2>5. write.out = Append(out, c) /\ write.rest = rest1
    BY <2>3 DEF rest1
  <2> HIDE DEF write
  <2>6. CASE p # <<>>
    <3>1. n = write
      BY <1>3, <2>4, <2>6 DEF n, write, ResolveRound
    <3>2. CASE c = Slash
      <4>1. p \in Proper
        BY <2>1, <2>2, <2>6, <3>2 DEF Begun, Proper, Here, p, c
      <4>2. Enter(stack, p) = Append(stack, p) /\ Out(Append(stack, p), <<>>) = Append(Out(stack, p), Slash)
        BY <2>2, <4>1, EnterIs, OutIs
      <4>3. n.out = Out(StackAt(done1), <<>>) /\ PartAt(done1) = <<>>
        BY <2>1, <2>2, <2>5, <3>1, <3>2, <4>2 DEF stack, p
      <4> HIDE DEF done1
      <4> QED BY <1>1, <2>3, <2>5, <3>1, <4>3, ReadsOn
    <3>3. CASE c # Slash
      <4> DEFINE q == Append(p, c)
      <4>1. p \in Seq(UCH_RES) /\ Len(q) = Len(p) + 1 /\ Len(p) > 0 /\ Len(p) \in Nat
            /\ q[Len(p) + 1] = c /\ \A i \in 1..Len(p) : q[i] = p[i]
        BY <2>2, <2>3, <2>6 DEF Plainly
      <4> HIDE DEF q
      <4>2. q # <<>> /\ q # <<Dot>>
        <5>1. Len(q) >= 2 /\ Len(<<>>) = 0 /\ Len(<<Dot>>) = 1
          BY <4>1
        <5> QED BY <5>1
      <4>3. q = Up => p = <<Dot>> /\ c = Dot
        <5>1. q = Up => Len(q) = 2 /\ q[1] = Dot /\ q[2] = Dot
          BY DEF Up
        <5>4. q = Up => Len(p) = 1
          <6>1. \A m \in Nat : m + 1 = 2 => m = 1
            OBVIOUS
          <6>2. q = Up => Len(p) + 1 = 2
            BY <4>1, <5>1
          <6> QED BY <4>1, <6>1, <6>2
        <5>2. q = Up => Len(p) = 1 /\ p[1] = Dot /\ c = Dot
          BY <4>1, <5>1, <5>4
        <5>3. Len(p) = 1 /\ p[1] = Dot => p = <<Dot>>
          BY <4>1
        <5> QED BY <5>2, <5>3
      <4>4. p = <<Dot>> /\ c = Dot => rest1 # <<>> /\ rest1[1] # Slash
        <5>1. p = <<Dot>> => rest # <<Dot>> /\ ~(Len(rest) >= 2 /\ rest[1] = Dot /\ rest[2] = Slash)
          BY <2>1 DEF Begun, p
        <5>2. c = Dot /\ Len(rest) = 1 => rest = <<Dot>>
          BY <1>1 DEF c
        <5>3. Len(rest) # 1 => Len(rest) >= 2 /\ Len(rest1) # 0 /\ rest1[1] = rest[2]
          <6>1. Len(rest) # 1 => 1 \in 1..Len(rest) - 1 /\ Len(rest) >= 2 /\ Len(rest) - 1 # 0
            BY <2>3
          <6> QED BY <2>3, <6>1
        <5> QED BY <5>1, <5>2, <5>3 DEF c
      <4>5. q \notin Here \union {Up} \/ rest1 # <<>>
        BY <4>2, <4>3, <4>4 DEF Here
      <4>6. rest1 # <<>> => Begun(q, rest1)
        BY <4>2, <4>3, <4>4 DEF Begun
      <4>7. n.rest = rest1 /\ n.out = Append(Out(StackAt(done), PartAt(done)), c)
        BY <2>1, <2>5, <3>1
      <4>8. q = Append(PartAt(done), c) /\ c \in UCH_RES \ {Slash} /\ path = Append(done, c) \o rest1
        BY <2>3, <3>3 DEF q, p
      <4> QED BY <1>1, <2>3, <4>5, <4>6, <4>7, <4>8, Writes
    <3> QED BY <3>2, <3>3
  <2>7. CASE p = <<>>
    <3>1. Last(out) = Slash /\ out = Out(stack, <<>>)
      BY <2>1, <2>4, <2>7 DEF stack, p
    <3> DEFINE Reached(o, m) == n.out = o /\ n.rest = m
    <3>2. \/ IsPrefix(<<Dot, Slash>>, rest) /\ Reached(out, Drop(2, rest))
          \/ IsPrefix(<<Dot, Dot, Slash>>, rest) /\ Reached(Parent(out), Drop(3, rest))
          \/ c = Slash /\ Reached(out, rest1)
          \/ rest = <<Dot>> /\ Reached(out, <<>>)
          \/ rest = <<Dot, Dot>> /\ Reached(Parent(out), <<>>)
          \/ /\ ~IsPrefix(<<Dot, Slash>>, rest) /\ ~IsPrefix(<<Dot, Dot, Slash>>, rest) /\ c # Slash
             /\ rest # <<Dot>> /\ rest # <<Dot, Dot>> /\ n = write
      <4>1. \/ IsPrefix(<<Dot, Slash>>, rest) /\ n = [out |-> out, rest |-> Drop(2, rest)]
            \/ IsPrefix(<<Dot, Dot, Slash>>, rest) /\ n = [out |-> Parent(out), rest |-> Drop(3, rest)]
            \/ Head(rest) = Slash /\ n = [out |-> out, rest |-> Tail(rest)]
            \/ rest = <<Dot>> /\ n = [out |-> out, rest |-> <<>>]
            \/ rest = <<Dot, Dot>> /\ n = [out |-> Parent(out), rest |-> <<>>]
            \/ /\ ~IsPrefix(<<Dot, Slash>>, rest) /\ ~IsPrefix(<<Dot, Dot, Slash>>, rest) /\ Head(rest) # Slash
               /\ rest # <<Dot>> /\ rest # <<Dot, Dot>> /\ n = write
        BY <1>3, <3>1 DEF n, write, ResolveRound
      <4>2. \A a, b : n = [out |-> a, rest |-> b] => Reached(a, b)
        OBVIOUS
      <4>3. Head(rest) = c /\ Tail(rest) = rest1
        BY <2>3 DEF rest1
      <4> HIDE DEF Reached
      <4> QED BY <4>1, <4>2, <4>3
    <3> HIDE DEF Reached
    <3>3. Out(stack, <<>>) = out /\ Parent(out) = Out(Enter(stack, Up), <<>>)
      BY <2>2, <3>1, ParentOfOut
    <3>4. CASE c = Slash /\ Reached(out, rest1)
      <4>1. Enter(stack, <<>>) = stack
        BY <2>2, <2>7, EnterIs
      <4>2. n.rest = rest1 /\ n.out = Out(StackAt(done1), <<>>) /\ PartAt(done1) = <<>>
        BY <2>2, <2>7, <3>1, <3>4, <4>1 DEF Reached
      <4> HIDE DEF done1
      <4> QED BY <1>1, <2>3, <4>2, ReadsOn
    <3> DEFINE done2 == Append(done1, rest1[1])
               rest2 == Tail(rest1)
               done3 == Append(done2, rest2[1])
               rest3 == Tail(rest2)
    <3>10. rest1 # <<>> => /\ rest1[1] \in UCH_RES /\ rest2 \in Seq(UCH_RES) /\ done2 \in Seq(UCH_RES)
                           /\ path = done2 \o rest2 /\ Len(rest2) = Len(rest1) - 1
                           /\ \A i \in 1..Len(rest1) - 1 : rest2[i] = rest1[i + 1]
      <4> HIDE DEF done1
      <4>1. done1 \in Seq(UCH_RES) /\ rest1 \in Seq(UCH_RES)
        BY <2>3
      <4>2. rest1 # <<>> => /\ rest1[1] \in UCH_RES /\ Tail(rest1) \in Seq(UCH_RES)
                            /\ Append(done1, rest1[1]) \in Seq(UCH_RES)
                            /\ Append(done1, rest1[1]) \o Tail(rest1) = done1 \o rest1
                            /\ Len(Tail(rest1)) = Len(rest1) - 1
                            /\ \A i \in 1..Len(rest1) - 1 : Tail(rest1)[i] = rest1[i + 1]
        BY <4>1, Advance
      <4>3. path = done1 \o rest1
        BY <2>3
      <4> QED BY <4>2, <4>3
    <3>11. rest1 # <<>> /\ rest2 # <<>> =>
             /\ rest2[1] \in UCH_RES /\ rest3 \in Seq(UCH_RES) /\ done3 \in Seq(UCH_RES)
             /\ path = done3 \o rest3
      <4> HIDE DEF done2, rest2
      <4> QED BY <3>10, Advance, ZenonT(60)
    <3>12. Dot \in UCH_RES \ {Slash} /\ Append(<<>>, Dot) = <<Dot>> /\ Append(<<Dot>>, Dot) = Up
      <4>1. Dot \in UCH_RES \ {Slash}
        BY DEF UCH_RES, Dot, Slash, Hash
      <4>2. Append(<<>>, Dot) = <<Dot>> /\ Append(<<Dot>>, Dot) = <<Dot, Dot>>
        <5>1. \A d : Append(<<>>, d) = <<d>>
          OBVIOUS
        <5>2. \A d : Append(<<d>>, d) = <<d, d>>
          <6> TAKE d
          <6> DEFINE x == Append(<<d>>, d)  y == <<d, d>>
          <6>1. x \in Seq({d}) /\ Len(x) = 2
            OBVIOUS
          <6>2. y \in Seq({d}) /\ Len(y) = 2
            OBVIOUS
          <6>3. \A i \in 1..2 : x[i] = d /\ y[i] = d
            BY <6>1, <6>2
          <6> HIDE DEF x, y
          <6>4. x = y
            BY <6>1, <6>2, <6>3
          <6> QED BY <6>4 DEF x, y
        <5> QED BY <5>1, <5>2
      <4> QED BY <4>1, <4>2 DEF Up
    <3>13. StackAt(done) = stack /\ PartAt(done) = <<>>
      BY <2>7 DEF stack, p
    <3>14. \A d \in Seq(UCH_RES) : /\ StackAt(Append(d, Dot)) = StackAt(d)
                                  /\ PartAt(Append(d, Dot)) = Append(PartAt(d), Dot)
                                  /\ StackAt(Append(d, Slash)) = Enter(StackAt(d), PartAt(d))
                                  /\ PartAt(Append(d, Slash)) = <<>>
      BY <3>12, AtIs
    <3>15. c = Dot => StackAt(done1) = stack /\ PartAt(done1) = <<Dot>>
      BY <3>12, <3>13, <3>14
    <3> HIDE DEF done1, rest2, rest3
    <3>16. rest1 # <<>> /\ c = Dot /\ rest1[1] = Slash => StackAt(done2) = stack /\ PartAt(done2) = <<>>
      <4>1. Enter(stack, <<Dot>>) = stack
        <5>1. <<Dot>> \in Here
          BY DEF Here
        <5> QED BY <5>1 DEF Enter
      <4> QED BY <2>3, <3>14, <3>15, <4>1
    <3>17. rest1 # <<>> /\ c = Dot /\ rest1[1] = Dot => StackAt(done2) = stack /\ PartAt(done2) = Up
      BY <2>3, <3>12, <3>14, <3>15
    <3> HIDE DEF done2
    <3>18. rest1 # <<>> /\ rest2 # <<>> /\ c = Dot /\ rest1[1] = Dot /\ rest2[1] = Slash =>
             StackAt(done3) = Enter(stack, Up) /\ PartAt(done3) = <<>>
      BY <3>10, <3>14, <3>17
    <3> HIDE DEF done3
    <3>5. CASE rest = <<Dot>> /\ Reached(out, <<>>)
      <4>1. c = Dot /\ rest1 = <<>>
        <5>1. Head(<<Dot>>) = Dot /\ Tail(<<Dot>>) = <<>>
          OBVIOUS
        <5> QED BY <2>3, <3>5, <5>1 DEF rest1
      <4>2. path = done1
        <5>1. done1 \o <<>> = done1
          BY <2>3
        <5> QED BY <2>3, <4>1, <5>1
      <4>3. Rendered(done1) = Out(stack, <<>>)
        BY <3>15, <4>1 DEF Rendered, Final, Here
      <4> QED BY <1>1, <3>3, <3>5, <4>2, <4>3 DEF Reached, Reads
    <3>6. CASE rest = <<Dot, Dot>> /\ Reached(Parent(out), <<>>)
      <4>1. c = Dot /\ rest1 = <<Dot>>
        <5>1. Head(<<Dot, Dot>>) = Dot /\ Tail(<<Dot, Dot>>) = <<Dot>>
          OBVIOUS
        <5> QED BY <2>3, <3>6, <5>1 DEF rest1
      <4>2. rest1 # <<>> /\ rest1[1] = Dot /\ rest2 = <<>>
        BY <4>1 DEF rest2
      <4>3. path = done2
        <5>1. done2 \o <<>> = done2
          BY <3>10, <4>2
        <5> QED BY <3>10, <4>2, <5>1
      <4>4. Rendered(done2) = Out(Enter(stack, Up), <<>>)
        <5>1. Up \notin Here
          BY NotDots DEF Here
        <5> QED BY <3>17, <4>1, <4>2, <5>1 DEF Rendered, Final
      <4> QED BY <1>1, <3>3, <3>6, <4>3, <4>4 DEF Reached, Reads
    <3>7. CASE IsPrefix(<<Dot, Slash>>, rest) /\ Reached(out, Drop(2, rest))
      <4>1. Len(rest) >= 2 /\ rest[1] = Dot /\ rest[2] = Slash
        BY <1>1, <3>7, PrefixIs
      <4>2. Len(rest1) # 0 /\ rest1[1] = Slash /\ c = Dot
        <5>1. 1 \in 1..Len(rest) - 1 /\ Len(rest) - 1 # 0
          <6>1. \A m \in Nat : m >= 2 => 1 \in 1..m - 1 /\ m - 1 # 0
            OBVIOUS
          <6>2. Len(rest) \in Nat
            BY <2>3
          <6> QED BY <4>1, <6>1, <6>2
        <5> QED BY <2>3, <4>1, <5>1 DEF c
      <4>3. rest1 # <<>> /\ Drop(2, rest) = rest2
        <5>1. Drop(2, rest) = Tail(Tail(rest))
          BY <1>1, <4>1 DEF Drop
        <5>2. rest2 = Tail(Tail(rest))
          BY DEF rest2, rest1
        <5>3. Len(<<>>) = 0
          OBVIOUS
        <5> QED BY <4>2, <5>1, <5>2, <5>3
      <4>4. n.rest = rest2 /\ n.out = Out(StackAt(done2), <<>>) /\ PartAt(done2) = <<>>
        BY <3>3, <3>7, <3>16, <4>2, <4>3 DEF Reached
      <4> QED BY <1>1, <3>10, <4>3, <4>4, ReadsOn
    <3>8. CASE IsPrefix(<<Dot, Dot, Slash>>, rest) /\ Reached(Parent(out), Drop(3, rest))
      <4>1. Len(rest) >= 3 /\ rest[1] = Dot /\ rest[2] = Dot /\ rest[3] = Slash
        BY <1>1, <3>8, PrefixIs
      <4>2. Len(rest1) # 0 /\ rest1[1] = Dot /\ rest1[2] = Slash /\ c = Dot
        <5>1. 1 \in 1..Len(rest) - 1 /\ 2 \in 1..Len(rest) - 1 /\ Len(rest) - 1 # 0
          <6>1. \A m \in Nat : m >= 3 => 1 \in 1..m - 1 /\ 2 \in 1..m - 1 /\ m - 1 # 0
            OBVIOUS
          <6>2. Len(rest) \in Nat
            BY <2>3
          <6> QED BY <4>1, <6>1, <6>2
        <5> QED BY <2>3, <4>1, <5>1 DEF c
      <4>3. rest1 # <<>> /\ Len(rest2) # 0 /\ rest2[1] = Slash
        <5>1. rest1 # <<>>
          BY <4>2
        <5>2. 1 \in 1..Len(rest1) - 1 /\ Len(rest1) - 1 # 0
          <6>1. \A m \in Nat : m >= 3 => 1 \in 1..(m - 1) - 1 /\ (m - 1) - 1 # 0
            OBVIOUS
          <6>2. Len(rest) \in Nat /\ Len(rest1) = Len(rest) - 1
            BY <2>3
          <6> QED BY <4>1, <6>1, <6>2
        <5> QED BY <3>10, <4>2, <5>1, <5>2
      <4>4. rest2 # <<>> /\ Drop(3, rest) = rest3
        <5>1. Drop(3, rest) = Tail(Tail(Tail(rest)))
          BY <1>1, <4>1, SMTT(30) DEF Drop
        <5>2. rest3 = Tail(Tail(Tail(rest)))
          BY DEF rest3, rest2, rest1
        <5>3. Len(<<>>) = 0
          OBVIOUS
        <5> QED BY <4>3, <5>1, <5>2, <5>3
      <4>5. n.rest = rest3 /\ n.out = Out(StackAt(done3), <<>>) /\ PartAt(done3) = <<>>
        BY <3>3, <3>8, <3>18, <4>2, <4>3, <4>4 DEF Reached
      <4> QED BY <1>1, <3>11, <4>3, <4>4, <4>5, ReadsOn
    <3>9. CASE /\ ~IsPrefix(<<Dot, Slash>>, rest) /\ ~IsPrefix(<<Dot, Dot, Slash>>, rest) /\ c # Slash
               /\ rest # <<Dot>> /\ rest # <<Dot, Dot>> /\ n = write
      <4> DEFINE q == Append(p, c)
      <4>1. q = <<c>>
        BY <2>7
      <4>2. Len(q) = 1 /\ q[1] = c
        BY <4>1
      <4> HIDE DEF q
      <4>3. q # <<>> /\ q # Up /\ (q = <<Dot>> => c = Dot)
        <5>1. Len(<<>>) = 0 /\ Len(Up) = 2
          BY DEF Up
        <5>2. q = <<Dot>> => q[1] = Dot
          OBVIOUS
        <5>3. q # <<>> /\ q # Up
          <6>1. q = <<>> => Len(q) = 0
            BY <5>1
          <6>2. q = Up => Len(q) = 2
            BY <5>1
          <6> QED BY <4>2, <6>1, <6>2
        <5> QED BY <4>2, <5>2, <5>3
      <4>4. c = Dot => rest1 # <<>> /\ rest1[1] # Slash /\ rest1 # <<Dot>>
        <5>1. c = Dot /\ Len(rest) = 1 => rest = <<Dot>>
          BY <1>1 DEF c
        <5>2. c = Dot /\ Len(rest) = 2 /\ rest[2] = Dot => rest = <<Dot, Dot>>
          BY <1>1 DEF c
        <5>3. Len(rest) # 1 => Len(rest) >= 2 /\ Len(rest1) # 0 /\ rest1[1] = rest[2]
          <6>1. Len(rest) # 1 => 1 \in 1..Len(rest) - 1 /\ Len(rest) >= 2 /\ Len(rest) - 1 # 0
            BY <2>3
          <6> QED BY <2>3, <6>1
        <5>4. c = Dot => Len(rest) >= 2 /\ rest[2] # Slash
          BY <1>1, <3>9, <5>1, <5>3, PrefixIs DEF c
        <5>5. rest1 = <<Dot>> => Len(rest1) = 1 /\ rest1[1] = Dot
          OBVIOUS
        <5>6. rest1 = <<Dot>> => Len(rest) = 2
          BY <2>3, <5>5
        <5> QED BY <3>9, <5>1, <5>2, <5>3, <5>4, <5>5, <5>6
      <4>5. c = Dot => ~(Len(rest1) >= 2 /\ rest1[1] = Dot /\ rest1[2] = Slash)
        <5>1. Len(rest1) >= 2 => Len(rest) >= 3 /\ 1 \in 1..Len(rest) - 1 /\ 2 \in 1..Len(rest) - 1
          BY <2>3
        <5>2. Len(rest1) >= 2 => Len(rest) >= 3 /\ rest1[1] = rest[2] /\ rest1[2] = rest[3]
          BY <2>3, <5>1
        <5> QED BY <1>1, <3>9, <5>2, PrefixIs DEF c
      <4>6. q \notin Here \union {Up} \/ rest1 # <<>>
        BY <4>3, <4>4 DEF Here
      <4>7. rest1 # <<>> => Begun(q, rest1)
        BY <4>3, <4>4, <4>5 DEF Begun
      <4>8. n.rest = rest1 /\ n.out = Append(Out(StackAt(done), PartAt(done)), c)
        BY <2>1, <2>5, <3>9
      <4>9. q = Append(PartAt(done), c) /\ c \in UCH_RES \ {Slash} /\ path = Append(done, c) \o rest1
        BY <2>3, <3>9 DEF q, p, done1
      <4> QED BY <1>1, <2>3, <4>6, <4>7, <4>8, <4>9, Writes
    <3> QED BY <3>2, <3>4, <3>5, <3>6, <3>7, <3>8, <3>9
  <2> QED BY <2>6, <2>7
<1> QED BY <1>2, <1>3

LEMMA RoundsRead ==
  ASSUME NEW path \in Seq(UCH_RES), NEW N \in Nat, NEW f, RoundsOf(path, N, f)
  PROVE  \A n \in 0..N : Reads(f[n], path)
<1> DEFINE T == {n \in Nat : n <= N /\ ~Reads(f[n], path)}
<1>0. \A i \in 0..N : f[i] = IF i = 0 THEN [out |-> <<Slash>>, rest |-> path] ELSE NextRound(f[i - 1])
  BY DEF RoundsOf
<1>1. 0 \notin T
  <2>1. f[0].out = <<Slash>> /\ f[0].rest = path
    BY <1>0
  <2>2. Out(<<>>, <<>>) = <<Slash>>
    <3>1. Out(<<>>, <<>>) = Append(<<>>, Slash) \o <<>>
      BY RootedNone DEF Out
    <3> QED BY <3>1
  <2>3. <<>> \in Seq(UCH_RES) /\ <<>> \o path = path
    OBVIOUS
  <2>4. Reads(f[0], path)
    BY <2>1, <2>2, <2>3, AtStart, ReadsOn
  <2> QED BY <2>4
<1>2. ASSUME NEW n \in Nat, n + 1 \in T PROVE n \in T
  <2>1. n + 1 \in 0..N /\ n \in 0..N /\ n + 1 # 0 /\ (n + 1) - 1 = n /\ ~Reads(f[n + 1], path)
    BY <1>2
  <2>2. f[n + 1] = NextRound(f[n])
    BY <2>1, <1>0
  <2>3. IsRound(f[n])
    BY <2>1, RoundsAre
  <2>4. ~Reads(f[n], path)
    BY <2>1, <2>2, <2>3, RoundReads
  <2> QED BY <2>1, <2>4
<1>3. T = {}
  <2>1. T \subseteq Nat
    OBVIOUS
  <2> HIDE DEF T
  <2> QED BY <2>1, <1>1, <1>2, NoLeast
<1>4. \A n \in 0..N : n \in Nat /\ n <= N
  OBVIOUS
<1> QED BY <1>3, <1>4

\* So the loop over characters computes what the segments say.
LEMMA ResolveRenders ==
  ASSUME NEW path \in Seq(UCH_RES)
  PROVE  Resolve(path) = Rendered(path)
<1>1. Len(path) \in Nat /\ Len(path) \in 0..Len(path)
  OBVIOUS
<1>2. PICK f : RoundsOf(path, Len(path), f) /\ Resolve(path) = f[Len(path)].out
  BY <1>1, ResolveIs
<1>3. Reads(f[Len(path)], path)
  BY <1>1, <1>2, RoundsRead
<1>4. f[Len(path)].rest = <<>>
  BY <1>2, AllRead
<1> QED BY <1>2, <1>3, <1>4 DEF Reads

LEMMA NormalizePathIs ==
  ASSUME NEW path \in Path
  PROVE  LET body  == replace_slash(path)
             query == QueryStart(body)
         IN normalize_path(path) = ResolvedPath(Take(query - 1, body)) \o Drop(query - 1, body)
<1> DEFINE body == replace_slash(path)
           query == QueryStart(body)
           front == Take(query - 1, body)
<1>1. body \in Path
  BY ReplaceSlashIs
<1>2. query \in 2..Len(body) + 1 /\ Len(body) \in Nat \ {0} /\ body \in Seq(UCH_RES) /\ body[1] = Slash
  BY <1>1, QueryStartIs, PathIs
<1>3. normalize_path(path) = Resolve(SubSeq(body, 2, query - 1)) \o Drop(query - 1, body)
  BY DEF normalize_path
<1> HIDE DEF body, query
<1>4. query - 1 \in 1..Len(body) /\ query - 1 \in 0..Len(body)
  BY <1>2
<1>5. front \in Seq(UCH_RES) /\ Len(front) = query - 1 /\ front[1] = Slash /\ front # <<>>
  <2>1. /\ front \in Seq(UCH_RES) /\ Len(front) = query - 1
        /\ \A j \in 1..query - 1 : front[j] = body[j]
    BY <1>2, <1>4, TakeIs
  <2>2. 1 \in 1..query - 1 /\ query - 1 # 0
    BY <1>4
  <2>3. front # <<>>
    BY <2>1, <2>2
  <2> QED BY <1>2, <2>1, <2>2, <2>3
<1>6. Tail(front) = SubSeq(body, 2, query - 1)
  BY <1>2, <1>4 DEF Take
<1>7. front \in Path /\ Tail(front) \in Seq(UCH_RES)
  BY <1>5 DEF Path
<1> HIDE DEF front
<1>8. ResolvedPath(front) = Resolve(Tail(front))
  BY <1>7, RenderedIs, ResolveRenders
<1> QED BY <1>3, <1>6, <1>8 DEF front, body, query

LEMMA ResolvedFromInv == LinkInv => PathIsResolved
<1> SUFFICES ASSUME LinkInv, Asked(href) PROVE PathIsResolved
  BY DEF PathIsResolved
<1> DEFINE target == Target(href)
           path == single_path_nointer(parse_url(target, TRUE).path)
<1>1. target \in Seq(Char)
  <2>1. Host(page) \in Seq(Char)
    BY HostType DEF LinkInv
  <2>2. Trim(href) \in Seq(Char)
    BY TrimType DEF LinkInv
  <2> QED BY <2>1, <2>2, ResolvedType DEF Target
<1>2. Normal(target).ok
  BY DEF Asked, MeantWell, Fits, Room
<1> HIDE DEF target
<1>3. parse_url(target, TRUE).ok /\ path.ok
  BY <1>1, <1>2, NormalizeIs
<1>4. IsParts(parse_url(target, TRUE))
  BY <1>1, <1>3, ParseIs
<1>5. path.text \in Path
  BY <1>3, <1>4, SinglePathType DEF IsParts
<1> HIDE DEF path
<1>6. LET body  == replace_slash(path.text)
          query == QueryStart(body)
      IN normalize_path(path.text) = ResolvedPath(Take(query - 1, body)) \o Drop(query - 1, body)
  BY <1>5, NormalizePathIs
<1> QED BY <1>6 DEF PathIsResolved, path, target

\* The loop over characters in normalize_path, with its "./", "../" and double slashes,
\* resolves a path as the segments between its slashes say, for paths of any length,
\* and copies parameters and query as they are.
THEOREM PathIsResolvedAlways == LinkSpec => []PathIsResolved
BY LinksAreText, ResolvedFromInv, PTL

(***************************************************************************)
(* What a spelling is split into.                                          *)
(***************************************************************************)
LEMMA TakeDropJoined ==
  ASSUME NEW S, NEW a \in Seq(S), NEW b \in Seq(S)
  PROVE  Take(Len(a), a \o b) = a /\ Drop(Len(a), a \o b) = b
<1> DEFINE c == a \o b
           n == Len(a)
<1>1. c \in Seq(S) /\ Len(c) = n + Len(b) /\ n \in 0..Len(c) /\ Len(b) \in Nat
  OBVIOUS
<1>2. (\A i \in 1..n : c[i] = a[i]) /\ (\A i \in 1..Len(b) : c[n + i] = b[i])
  OBVIOUS
<1> HIDE DEF c
<1>3. Take(n, c) \in Seq(S) /\ Len(Take(n, c)) = n /\ \A j \in 1..n : Take(n, c)[j] = c[j]
  BY <1>1, TakeIs
<1>4. /\ Drop(n, c) \in Seq(S) /\ Len(Drop(n, c)) = Len(c) - n
      /\ \A j \in 1..Len(c) - n : Drop(n, c)[j] = c[n + j]
  BY <1>1, DropIs
<1>5. Take(n, c) = a
  BY <1>2, <1>3, SeqEqual
<1>6. Len(c) - n = Len(b)
  BY <1>1
<1>7. Drop(n, c) = b
  <2> HIDE DEF n
  <2> QED BY <1>2, <1>4, <1>6, SeqEqual
<1> QED BY <1>5, <1>7 DEF c

\* 80 is 80.
LEMMA HttpPortIs == HttpPort \in Seq(URL_DIGIT) /\ HttpPort # <<>> /\ atoi(HttpPort) = 80
<1>1. HttpPort \in Seq(URL_DIGIT) /\ HttpPort # <<>> /\ Len(HttpPort) = 2
  BY DEF HttpPort, URL_DIGIT
<1>2. HttpPort[1] = 56 /\ HttpPort[2] = 48
  BY DEF HttpPort
<1>3. PICK f : ValuesOf(HttpPort, Len(HttpPort), f) /\ Number(HttpPort) = f[Len(HttpPort)]
  BY <1>1, NumberIs
<1>4. \A i \in 0..2 : f[i] = IF i = 0 THEN 0 ELSE 10 * f[i - 1] + (HttpPort[i] - Zero)
  BY <1>1, <1>3 DEF ValuesOf
<1>5. f[0] = 0 /\ f[1] = 10 * f[0] + (HttpPort[1] - 48) /\ f[2] = 10 * f[1] + (HttpPort[2] - 48)
  BY <1>4 DEF Zero
<1>6. f[2] = 80
  BY <1>2, <1>5
<1> QED BY <1>1, <1>3, <1>6, AtoiIs

\* Where site, port and path begin and end.
LEMMA PartsOfSpelling ==
  ASSUME NEW site, NEW port, NEW path \in Path, IsSite(site), IsPort(port)
  PROVE  LET colon == IF port = <<>> THEN <<>> ELSE <<Colon>>
             host  == site \o colon \o port
             x     == host \o path
         IN /\ host \in Seq(Char) /\ path \in Seq(Char) /\ Len(host) = PathAt(site, port) - 1
            /\ Take(Len(host), x) = host /\ Drop(Len(host), x) = path
            /\ Drop(Len(site) + 1, host) = port
            /\ port = <<>> => host = site
<1> DEFINE colon == IF port = <<>> THEN <<>> ELSE <<Colon>>
           front == site \o colon
           host  == front \o port
           x     == host \o path
<1>1. /\ site \in Seq(Char) /\ Len(site) \in Nat \ {0} /\ port \in Seq(Char) /\ Len(port) \in Nat
      /\ path \in Seq(Char)
  <2>1. path \in Seq(UCH_RES)
    BY PathIs
  <2>2. \A i \in 1..Len(path) : path[i] \in Char
    BY <2>1, CharClasses
  <2> QED BY <2>1, <2>2, SiteIs, PortIs, InSeq
<1>2. colon \in Seq(Char) /\ Len(colon) = IF port = <<>> THEN 0 ELSE 1
  BY PortChars
<1> HIDE DEF colon
<1>3. front \in Seq(Char) /\ Len(front) = Len(site) + Len(colon)
  BY <1>1, <1>2, Joined
<1> HIDE DEF front
<1>4. host \in Seq(Char) /\ Len(host) = Len(front) + Len(port)
  BY <1>1, <1>3, Joined
<1>5. Drop(Len(front), host) = port
  BY <1>1, <1>3, TakeDropJoined
<1>6. Len(host) = PathAt(site, port) - 1
  BY <1>1, <1>2, <1>3, <1>4 DEF PathAt
<1>7. port = <<>> => host = site
  BY <1>1 DEF front, colon
<1> HIDE DEF host
<1>8. Take(Len(host), x) = host /\ Drop(Len(host), x) = path
  BY <1>1, <1>4, TakeDropJoined
<1>9. Drop(Len(site) + 1, host) = port
  <2>1. CASE port = <<>>
    <3>1. Len(host) = Len(site)
      BY <1>7, <2>1
    <3> QED BY <1>1, <1>4, <2>1, <3>1 DEF Drop
  <2>2. CASE port # <<>>
    <3>1. Len(front) = Len(site) + 1
      BY <1>1, <1>2, <1>3, <2>2
    <3> QED BY <1>5, <3>1
  <2> QED BY <2>1, <2>2
<1> QED BY <1>1, <1>4, <1>6, <1>7, <1>8, <1>9 DEF x, host, front, colon

\* The parts of the normal spelling of a URL.
NormalSite(url) == normalize_site(parse_url(url, TRUE).site).text
NormalPort(url) == normalize_port(parse_url(url, TRUE).port).text
NormalPath(url) == normalize_path(single_path_nointer(parse_url(url, TRUE).path).text)
ColonOf(port)   == IF port = <<>> THEN <<>> ELSE <<Colon>>

LEMMA NormalParted ==
  ASSUME NEW url \in Seq(Char), Fits(url)
  PROVE  /\ Normal(url).ok
         /\ IsSite(NormalSite(url)) /\ Len(NormalSite(url)) < MAX_SITE_LEN
         /\ IsPort(NormalPort(url))
         /\ NormalPort(url) # <<>> => Len(NormalPort(url)) + 1 < MAX_PORT_LEN
         /\ NormalPath(url) \in Path /\ Len(NormalPath(url)) < MAX_PATH_LEN
         /\ Normal(url).text = NormalSite(url) \o ColonOf(NormalPort(url)) \o NormalPort(url) \o NormalPath(url)
         /\ Spells(Normal(url).text, NormalSite(url), NormalPort(url))
         /\ Len(Normal(url).text) + 7 < MAX_URL_LEN
<1> DEFINE parts == parse_url(url, TRUE)
           path == single_path_nointer(parts.path)
           whole == NormalSite(url) \o ColonOf(NormalPort(url)) \o NormalPort(url) \o NormalPath(url)
<1>1. Normal(url).ok /\ Len(Normal(url).text) + 7 < MAX_URL_LEN
  BY DEF Fits, Room, Http
<1>2. /\ parts.ok /\ path.ok /\ normalize_port(parts.port).ok
      /\ Normal(url).text = Fit(MAX_URL_LEN, whole)
  <2>1. LET parts_ == parse_url(url, TRUE)
            site_  == normalize_site(parts_.site)
            port_  == normalize_port(parts_.port)
            path_  == single_path_nointer(parts_.path)
            colon_ == IF port_.text = <<>> THEN <<>> ELSE <<Colon>>
        IN /\ parts_.ok /\ site_.ok /\ port_.ok /\ path_.ok
           /\ Normal(url).text =
                Fit(MAX_URL_LEN, site_.text \o colon_ \o port_.text \o normalize_path(path_.text))
    BY <1>1, NormalizeIs
  <2> QED BY <2>1 DEF NormalSite, NormalPort, NormalPath, ColonOf
<1>3. /\ IsSite(NormalSite(url)) /\ IsPort(NormalPort(url))
      /\ Spells(Normal(url).text, NormalSite(url), NormalPort(url)) /\ Len(NormalSite(url)) < MAX_SITE_LEN
  BY <1>1, NormalSpells DEF NormalSite, NormalPort
<1>4. IsParts(parts)
  BY <1>2, ParseIs
<1> HIDE DEF parts
<1>5. /\ parts.port \in Seq(Char) /\ (parts.port # <<>> => Len(parts.port) + 1 < MAX_PORT_LEN)
      /\ parts.path \in Seq(Char) /\ parts.path # <<>> /\ parts.path[1] = Slash
      /\ Len(parts.path) < MAX_PATH_LEN
  BY <1>4 DEF IsParts
<1>6. path.text \in Path /\ Len(path.text) < MAX_PATH_LEN
  BY <1>2, <1>5, SinglePathType, SinglePathLength
<1>7. NormalPath(url) = normalize_path(path.text)
  BY DEF NormalPath, parts
<1> HIDE DEF path
<1>8. NormalPath(url) \in Path /\ Len(NormalPath(url)) < MAX_PATH_LEN
  <2>1. normalize_path(path.text) \in Path /\ Len(normalize_path(path.text)) <= Len(path.text)
    BY <1>6, NormalizePathType, NormalizePathLength
  <2>2. {Len(normalize_path(path.text)), Len(path.text), MAX_PATH_LEN} \subseteq Nat
    BY <1>6, <2>1, PathIs, BufferAssumption
  <2> QED BY <1>6, <1>7, <2>1, <2>2
<1>9. NormalPort(url) # <<>> => Len(NormalPort(url)) + 1 < MAX_PORT_LEN
  <2>1. Len(NormalPort(url)) <= Len(parts.port) /\ NormalPort(url) = normalize_port(parts.port).text
    <3>1. NormalPort(url) = normalize_port(parts.port).text
      BY DEF NormalPort, parts
    <3> QED BY <1>2, <1>5, <3>1, NormalizePortIs
  <2>2. {Len(NormalPort(url)), Len(parts.port), MAX_PORT_LEN} \subseteq Nat
    BY <1>3, <1>5, PortIs, BufferAssumption
  <2>3. NormalPort(url) # <<>> => parts.port # <<>>
    <3>1. parts.port = <<>> => Len(NormalPort(url)) = 0
      BY <2>1, <2>2
    <3>2. NormalPort(url) \in Seq(Char)
      BY <1>3, PortIs
    <3> QED BY <3>1, <3>2, EmptySeq
  <2> QED BY <2>1, <2>2, <2>3, <1>5
<1>10. Normal(url).text = whole
  <2>1. whole \in Seq(Char)
    <3>1. NormalSite(url) \in Seq(Char) /\ NormalPort(url) \in Seq(Char) /\ NormalPath(url) \in Seq(Char)
      <4>1. LET colon_ == IF NormalPort(url) = <<>> THEN <<>> ELSE <<Colon>>
                host_  == NormalSite(url) \o colon_ \o NormalPort(url)
            IN host_ \in Seq(Char) /\ NormalPath(url) \in Seq(Char)
        BY <1>3, <1>8, PartsOfSpelling
      <4> QED BY <4>1, <1>3, SiteIs, PortIs
    <3>2. ColonOf(NormalPort(url)) \in Seq(Char)
      BY PortChars DEF ColonOf
    <3> QED BY <3>1, <3>2
  <2> HIDE DEF whole
  <2>2. MAX_URL_LEN \in Nat \ {0}
    BY BufferAssumption
  <2>3. PICK k \in 0..Len(whole) :
          /\ Fit(MAX_URL_LEN, whole) = Take(k, whole) /\ k < MAX_URL_LEN
          /\ k = Len(whole) \/ k = MAX_URL_LEN - 1
          /\ Len(Fit(MAX_URL_LEN, whole)) = k
    BY <2>1, <2>2, FitIs
  <2>4. k = Len(whole)
    BY <1>1, <1>2, <2>2, <2>3
  <2>5. Take(Len(whole), whole) = whole
    BY <2>1 DEF Take
  <2> QED BY <1>2, <2>3, <2>4, <2>5
<1> HIDE DEF whole
<1>11. Normal(url).text = NormalSite(url) \o ColonOf(NormalPort(url)) \o NormalPort(url) \o NormalPath(url)
  BY <1>10 DEF whole
<1> QED BY <1>1, <1>3, <1>8, <1>9, <1>11

\* So the spelling that a URL is crawled under has these parts again.
LEMMA SpelledParses ==
  ASSUME NEW url \in Seq(Char), Fits(url)
  PROVE  /\ Spelled(url) = Http \o Normal(url).text
         /\ parse_url(Spelled(url), TRUE) =
              [ok |-> TRUE, site |-> NormalSite(url), port |-> NormalPort(url), path |-> NormalPath(url)]
<1> DEFINE x == Normal(url).text
           site == NormalSite(url)
           port == NormalPort(url)
           path == NormalPath(url)
           host == site \o ColonOf(port) \o port
<1>1. /\ Normal(url).ok /\ IsSite(site) /\ Len(site) < MAX_SITE_LEN /\ IsPort(port)
      /\ port # <<>> => Len(port) + 1 < MAX_PORT_LEN
      /\ path \in Path /\ Len(path) < MAX_PATH_LEN
      /\ x = host \o path
      /\ Spells(x, site, port)
      /\ Len(x) + 7 < MAX_URL_LEN
  BY NormalParted
<1>2. Spelled(url) = Http \o x
  BY <1>1 DEF Spelled, WithScheme, Normal
<1> HIDE DEF x, site, port, path
<1>3. /\ host \in Seq(Char) /\ path \in Seq(Char) /\ Len(host) = PathAt(site, port) - 1
      /\ Take(Len(host), x) = host /\ Drop(Len(host), x) = path
      /\ Drop(Len(site) + 1, host) = port
      /\ port = <<>> => host = site
  <2>1. LET colon_ == IF port = <<>> THEN <<>> ELSE <<Colon>>
            host_  == site \o colon_ \o port
            x_     == host_ \o path
        IN /\ host_ \in Seq(Char) /\ path \in Seq(Char) /\ Len(host_) = PathAt(site, port) - 1
           /\ Take(Len(host_), x_) = host_ /\ Drop(Len(host_), x_) = path
           /\ Drop(Len(site) + 1, host_) = port
           /\ port = <<>> => host_ = site
    BY <1>1, PartsOfSpelling
  <2> QED BY <1>1, <2>1 DEF ColonOf
<1>4. /\ delete_inter(Http \o x) = Http \o x /\ HostPart(x) = host
      /\ SitePart(host) = site /\ Strip({Dot}, site) = site
  <2>1. /\ delete_inter(Http \o x) = Http \o x
        /\ HostPart(x) = Take(PathAt(site, port) - 1, x)
        /\ SitePart(HostPart(x)) = site /\ Strip({Dot}, site) = site
    BY <1>1, SpellingSplits
  <2>2. HostPart(x) = host
    BY <1>3, <2>1
  <2> QED BY <2>1, <2>2
<1>5. x \in Seq(Char)
  BY <1>1 DEF Spells
<1>6. WithoutScheme(Http \o x) = x /\ ~(Len(Http \o x) >= MAX_URL_LEN)
  <2>1. WithoutScheme(Http \o x) = x /\ Len(Http \o x) = 7 + Len(x)
    BY <1>5, HttpDropped
  <2>2. Len(x) \in Nat /\ MAX_URL_LEN \in Nat
    BY <1>5, BufferAssumption
  <2> QED BY <1>1, <2>1, <2>2
<1> HIDE DEF host
<1>7. PathPart(x) = path
  <2>1. path # <<>> /\ Head(path) # Question
    BY <1>1, PathIs DEF Path, Slash, Question
  <2>2. PathPart(x) = IF path = <<>> \/ Head(path) = Question THEN <<Slash>> \o path ELSE path
    BY <1>3, <1>4 DEF PathPart
  <2> QED BY <2>1, <2>2
<1>8. PortPart(host) = port
  BY <1>3, <1>4 DEF PortPart
<1>9. port # HttpPort /\ (port # <<>> => ~(atoi(port) <= 0))
  <2>1. port # <<>> => atoi(port) \in PortNumber \ {80}
    BY <1>1, SMTT(30) DEF IsPort
  <2>2. \A n \in PortNumber : ~(n <= 0)
    BY SMTT(30) DEF PortNumber
  <2> QED BY <2>1, <2>2, HttpPortIs, SMTT(30)
<1>10. site # host => port # <<>>
  BY <1>3
<1>11. parse_url(Http \o x, TRUE) = Parts(Http \o x, TRUE, host, path)
  BY <1>4, <1>6, <1>7 DEF parse_url
<1>12. site # <<>> /\ ~(Len(site) >= MAX_SITE_LEN) /\ ~(Len(path) >= MAX_PATH_LEN)
       /\ (port # <<>> => ~(Len(port) + 1 >= MAX_PORT_LEN))
  <2>1. {Len(site), Len(path), Len(port), MAX_SITE_LEN, MAX_PATH_LEN, MAX_PORT_LEN} \subseteq Nat
    BY <1>1, <1>3, SiteIs, PortIs, BufferAssumption
  <2>2. site # <<>>
    BY <1>1 DEF IsSite
  <2> QED BY <1>1, <2>1, <2>2
<1>13. Parts(Http \o x, TRUE, host, path) =
         IF \/ Len(Http \o x) >= MAX_URL_LEN
            \/ Len(path) >= MAX_PATH_LEN
            \/ site # host /\ (Len(port) + 1 >= MAX_PORT_LEN \/ atoi(port) <= 0)
            \/ site = <<>> \/ Len(site) >= MAX_SITE_LEN
         THEN Failed
         ELSE [ok |-> TRUE, site |-> site, port |-> IF port = HttpPort THEN <<>> ELSE port, path |-> path]
  BY <1>4, <1>8 DEF Parts
<1>14. Parts(Http \o x, TRUE, host, path) = [ok |-> TRUE, site |-> site, port |-> port, path |-> path]
  BY <1>6, <1>9, <1>10, <1>12, <1>13
<1> QED BY <1>2, <1>11, <1>14 DEF x, site, port, path

(***************************************************************************)
(* The labels of a site.                                                   *)
(***************************************************************************)
\* All parts but the last hold a character, and the last does unless s is at a
\* separator or a beginning.
Filled(s, c) ==
  LET parts == Split(c, s)
  IN /\ \A i \in 1..Len(parts) - 1 : parts[i] # <<>>
     /\ parts[Len(parts)] = <<>> => s = <<>> \/ s[Len(s)] = c

LEMMA NextFilled ==
  ASSUME NEW S, NEW c, NEW s \in Seq(S), NEW d \in S, Filled(s, c),
         d = c => s # <<>> /\ s[Len(s)] # c
  PROVE  Filled(Append(s, d), c)
<1> DEFINE parts == Split(c, s)
           n == Len(parts)
<1>1. parts \in Seq(Free(S, c)) /\ parts # <<>>
  BY SplitType DEF Parted
<1>2. Split(c, Append(s, d)) = NextPart(c, parts, d)
  BY SplitAppend
<1>3. /\ \A i \in 1..n - 1 : parts[i] # <<>>
      /\ parts[n] = <<>> => s = <<>> \/ s[Len(s)] = c
  BY DEF Filled
<1>4. /\ Append(s, d) \in Seq(S) /\ Append(s, d) # <<>> /\ Append(s, d)[Len(Append(s, d))] = d
  OBVIOUS
<1> HIDE DEF parts, n
<1>5. CASE d = c
  <2>1. Split(c, Append(s, d)) = Append(parts, <<>>)
    BY <1>2, <1>5 DEF NextPart
  <2>2. \A i \in 1..n : parts[i] # <<>>
    BY <1>3, <1>5, <1>1 DEF n
  <2>3. Len(Append(parts, <<>>)) = n + 1 /\ \A i \in 1..n : Append(parts, <<>>)[i] = parts[i]
    BY <1>1 DEF n
  <2>4. (n + 1) - 1 = n
    BY <1>1 DEF n
  <2>5. \A i \in 1..Len(Append(parts, <<>>)) - 1 : Append(parts, <<>>)[i] # <<>>
    BY <2>2, <2>3, <2>4
  <2> QED BY <1>4, <1>5, <2>1, <2>5 DEF Filled
<1>6. CASE d # c
  <2> DEFINE last == Append(parts[n], d)
             next == Append(Front(parts), last)
  <2>1. Split(c, Append(s, d)) = next
    BY <1>2, <1>6 DEF NextPart, Last, n
  <2>2. last # <<>>
    <3>1. parts[n] \in Free(S, c)
      BY <1>1 DEF n
    <3>2. parts[n] \in Seq(S \ {c})
      BY <3>1 DEF Free
    <3> QED BY <3>2
  <2> HIDE DEF last
  <2>3. Front(parts) \in Seq(Free(S, c)) /\ Len(Front(parts)) = n - 1 /\ \A i \in 1..n - 1 : Front(parts)[i] = parts[i]
    <3>1. Front(parts) = Take(n - 1, parts)
      BY DEF Front, Take, n
    <3>2. n - 1 \in 0..Len(parts)
      BY <1>1 DEF n
    <3> QED BY <1>1, <3>1, <3>2, TakeIs
  <2>4. Len(next) = n /\ next[n] = last /\ \A i \in 1..n - 1 : next[i] = parts[i]
    <3>1. n \in Nat \ {0}
      BY <1>1 DEF n
    <3> QED BY <2>3, <3>1
  <2> QED BY <1>3, <2>1, <2>2, <2>4 DEF Filled
<1> QED BY <1>5, <1>6

LEMMA TakenNext ==
  ASSUME NEW S, NEW s \in Seq(S), NEW n \in Nat, n + 1 <= Len(s)
  PROVE  Take(n + 1, s) = Append(Take(n, s), s[n + 1])
<1> DEFINE t == Take(n + 1, s)
<1>1. n + 1 \in 0..Len(s) /\ n \in 0..Len(s) /\ n + 1 \in 1..n + 1
  OBVIOUS
<1>2. t \in Seq(S) /\ Len(t) = n + 1 /\ \A j \in 1..n + 1 : t[j] = s[j]
  BY <1>1, TakeIs
<1> HIDE DEF t
<1>3. t = Append(Take(n, t), t[n + 1])
  BY <1>2, TakenApart
<1>4. Take(n, t) = Take(n, s)
  BY <1>2 DEF Take
<1> QED BY <1>1, <1>2, <1>3, <1>4 DEF t

\* No label of a site is empty.
LEMMA LabelsFilled ==
  ASSUME NEW site, IsSite(site)
  PROVE  /\ Labels(site) \in Seq(Free(SITE, Dot)) /\ Labels(site) # <<>>
         /\ \A i \in 1..Len(Labels(site)) : Labels(site)[i] # <<>>
<1> DEFINE T == {n \in Nat : n <= Len(site) /\ ~Filled(Take(n, site), Dot)}
<1>1. /\ site \in Seq(SITE) /\ site # <<>> /\ site[1] # Dot
      /\ site[Len(site)] # Dot
      /\ \A i \in 2..Len(site) : site[i] = Dot => site[i - 1] # Dot
  <2>1. Dot \notin URL_LET_DIGIT
    BY DEF Dot, URL_LET_DIGIT, URL_DIGIT, URL_UP_LET
  <2> QED BY <2>1 DEF IsSite
<1>2. Len(site) \in Nat \ {0}
  BY <1>1
<1>3. 0 \notin T
  <2>1. Take(0, site) = <<>>
    BY DEF Take
  <2>2. Split(Dot, <<>>) = << <<>> >>
    BY SplitEmpty
  <2>3. Len(<< <<>> >>) = 1 /\ \A i \in 1..1 - 1 : FALSE
    OBVIOUS
  <2>4. Filled(<<>>, Dot)
    BY <2>2, <2>3 DEF Filled
  <2> QED BY <2>1, <2>4
<1>4. ASSUME NEW n \in Nat, n + 1 \in T PROVE n \in T
  <2>1. n + 1 <= Len(site) /\ n + 1 \in 1..Len(site) /\ n \in 0..Len(site) /\ ~Filled(Take(n + 1, site), Dot)
    BY <1>2, <1>4
  <2> DEFINE s == Take(n, site)
  <2>2. s \in Seq(SITE) /\ Len(s) = n /\ \A j \in 1..n : s[j] = site[j]
    BY <1>1, <2>1, TakeIs
  <2>3. Take(n + 1, site) = Append(s, site[n + 1])
    BY <1>1, <2>1, TakenNext
  <2> HIDE DEF s
  <2>4. site[n + 1] \in SITE
    BY <1>1, <2>1
  <2>5. site[n + 1] = Dot => s # <<>> /\ s[Len(s)] # Dot
    <3>1. SUFFICES ASSUME site[n + 1] = Dot PROVE s # <<>> /\ s[Len(s)] # Dot
      OBVIOUS
    <3>2. n # 0
      BY <1>1, <3>1
    <3>3. n + 1 \in 2..Len(site) /\ (n + 1) - 1 = n /\ n \in 1..n
      BY <2>1, <3>2
    <3>4. site[n] # Dot
      BY <1>1, <3>1, <3>3
    <3> QED BY <2>2, <3>2, <3>3, <3>4
  <2>6. ~Filled(s, Dot)
    <3>1. PICK d \in SITE : d = site[n + 1]
      BY <2>4
    <3>2. Filled(s, Dot) => Filled(Append(s, d), Dot)
      BY <2>2, <2>5, <3>1, NextFilled
    <3> QED BY <2>1, <2>3, <3>1, <3>2
  <2> QED BY <2>1, <2>6 DEF s
<1> HIDE DEF T
<1>5. T = {}
  <2>1. T \subseteq Nat
    BY DEF T
  <2> QED BY <1>3, <1>4, <2>1, NoLeast
<1>6. Filled(site, Dot)
  <2>1. Take(Len(site), site) = site
    BY <1>1 DEF Take
  <2> QED BY <1>2, <1>5, <2>1 DEF T
<1>7. Labels(site) \in Seq(Free(SITE, Dot)) /\ Labels(site) # <<>>
  BY <1>1, SplitType DEF Parted, Labels
<1> DEFINE labels == Labels(site)
<1>8. /\ \A i \in 1..Len(labels) - 1 : labels[i] # <<>>
      /\ labels[Len(labels)] # <<>>
  BY <1>1, <1>6 DEF Filled, Labels
<1> HIDE DEF labels
<1>9. \A i \in 1..Len(labels) : i \in 1..Len(labels) - 1 \/ i = Len(labels)
  BY <1>7 DEF labels
<1> QED BY <1>7, <1>8, <1>9 DEF labels

(***************************************************************************)
(* The main domain.                                                        *)
(***************************************************************************)
LEMMA SuffixesAre ==
  /\ \A x \in Suffixes_ : (\E a : x = <<a>>) \/ (\E a, b : x = <<a, b>>)
  /\ \A a : <<a>> \in Suffixes_ <=> a \in load_default.top_domain \union load_default.top_country
  /\ \A a, b : <<a, b>> \in Suffixes_ <=>
                 \/ <<a, b>> \in load_default.country_domain_map
                 \/ a \in load_default.general_2nd_domain /\ b \in load_default.top_country
<1> DEFINE A == load_default.top_domain \union load_default.top_country
           M == load_default.country_domain_map
           G == load_default.general_2nd_domain
           C == load_default.top_country
<1>1. \A pair \in M : pair = <<pair[1], pair[2]>>
  BY TableAssumption
<1>2. Suffixes_ = {<<top>> : top \in A} \union M \union (G \X C)
  BY DEF Suffixes_
<1> HIDE DEF A, M, G, C
<1>3. \A x \in Suffixes_ : x \in {<<top>> : top \in A} \/ x \in M \/ x \in G \X C
  BY <1>2
<1>4. \A x \in {<<top>> : top \in A} : \E a : x = <<a>>
  OBVIOUS
<1>5. \A x \in G \X C : x = <<x[1], x[2]>>
  OBVIOUS
<1>6. \A x \in Suffixes_ : (\E a : x = <<a>>) \/ (\E a, b : x = <<a, b>>)
  BY <1>1, <1>3, <1>4, <1>5, ZenonT(60)
<1>7. \A a : <<a>> \notin M /\ <<a>> \notin G \X C
  <2>1. \A a, b, c : <<a>> # <<b, c>>
    <3>1. \A a, b, c : Len(<<a>>) = 1 /\ Len(<<b, c>>) = 2
      OBVIOUS
    <3> QED BY <3>1
  <2> QED BY <1>1, <1>5, <2>1, Zenon
<1>8. \A a, b : <<a, b>> \notin {<<top>> : top \in A}
  <2>1. \A a, b, c : <<a>> # <<b, c>>
    <3>1. \A a, b, c : Len(<<a>>) = 1 /\ Len(<<b, c>>) = 2
      OBVIOUS
    <3> QED BY <3>1
  <2> QED BY <1>4, <2>1, Zenon
<1>9. \A a : <<a>> \in {<<top>> : top \in A} <=> a \in A
  OBVIOUS
<1>10. \A a, b : <<a, b>> \in G \X C <=> a \in G /\ b \in C
  OBVIOUS
<1>11. \A a : <<a>> \in Suffixes_ <=> a \in A
  BY <1>2, <1>7, <1>9
<1>12. \A a, b : <<a, b>> \in Suffixes_ <=> <<a, b>> \in M \/ (a \in G /\ b \in C)
  BY <1>2, <1>8, <1>10
<1> QED BY <1>6, <1>11, <1>12 DEF A, M, G, C

LEMMA LastLabelsAre ==
  ASSUME NEW S, NEW labels \in Seq(S), NEW n \in 1..Len(labels)
  PROVE  /\ LastLabels(n, labels) = Drop(Len(labels) - n, labels)
         /\ LastLabels(n, labels) \in Seq(S) /\ Len(LastLabels(n, labels)) = n
         /\ \A j \in 1..n : /\ LastLabels(n, labels)[j] = labels[Len(labels) - n + j]
                            /\ Len(labels) - n + j \in 1..Len(labels)
<1>1. Len(labels) - n \in 0..Len(labels) /\ Len(labels) - (Len(labels) - n) = n /\ Len(labels) \in Nat
  OBVIOUS
<1>2. LastLabels(n, labels) = Drop(Len(labels) - n, labels)
  <2>1. Drop(Len(labels) - Len(labels), labels) = labels
    BY DEF Drop
  <2> QED BY <1>1, <2>1 DEF LastLabels
<1>3. /\ Drop(Len(labels) - n, labels) \in Seq(S) /\ Len(Drop(Len(labels) - n, labels)) = n
      /\ \A j \in 1..n : Drop(Len(labels) - n, labels)[j] = labels[Len(labels) - n + j]
  BY <1>1, DropIs
<1>4. \A j \in 1..n : Len(labels) - n + j \in 1..Len(labels)
  BY <1>1
<1> QED BY <1>2, <1>3, <1>4

\* The tables searched one after the other find the longest suffix of all.
LEMMA SuffixIsLongest ==
  ASSUME NEW S, NEW labels \in Seq(S), labels # <<>>
  PROVE  SuffixLength(load_default, labels) = LongestSuffix(labels) /\ LongestSuffix(labels) \in 0..Len(labels) - 1
<1> DEFINE N == Len(labels)
           D == {0} \union {n \in 1..N - 1 : LastLabels(n, labels) \in Suffixes_}
           T == load_default.top_domain
           C == load_default.top_country
           M == load_default.country_domain_map
           G == load_default.general_2nd_domain
           a == labels[N - 1]
           b == labels[N]
           k == SuffixLength(load_default, labels)
<1>1. N \in Nat \ {0}
  OBVIOUS
<1>2. /\ \A x : x \in T => x \notin C
      /\ \A x, y : <<x, y>> \in M => y \in C
  <2>1. \A pair \in M : pair[2] \in C
    BY TableAssumption
  <2>2. \A x, y : <<x, y>>[2] = y
    OBVIOUS
  <2>3. T \intersect C = {}
    BY TableAssumption
  <2> HIDE DEF T, C, M
  <2> QED BY <2>1, <2>2, <2>3
<1>3. LongestSuffix(labels) = Max(D)
  BY DEF LongestSuffix
<1>4. k = IF N = 1 THEN 0 ELSE IF b \in T THEN 1
          ELSE IF N >= 3 /\ (<<a, b>> \in M \/ (b \in C /\ a \in G)) THEN 2
          ELSE IF b \in C THEN 1 ELSE 0
  <2>1. Last(labels) = b
    BY DEF Last
  <2>2. InCountry(load_default, labels) <=> N >= 3 /\ (<<a, b>> \in M \/ (b \in C /\ a \in G))
    BY DEF InCountry
  <2>3. k = IF N = 1 THEN 0 ELSE IF Last(labels) \in T THEN 1 ELSE IF InCountry(load_default, labels) THEN 2
            ELSE IF Last(labels) \in C THEN 1 ELSE 0
    BY DEF SuffixLength
  <2> HIDE DEF k, N, T, C, M, G, a, b
  <2> QED BY <2>1, <2>2, <2>3
<1>5. \A n \in 1..N - 1 : /\ n = 1 => (LastLabels(n, labels) \in Suffixes_ <=> b \in T \union C)
                          /\ n = 2 => (LastLabels(n, labels) \in Suffixes_ <=>
                                         <<a, b>> \in M \/ (a \in G /\ b \in C))
                          /\ n > 2 => LastLabels(n, labels) \notin Suffixes_
  <2> TAKE n \in 1..N - 1
  <2> DEFINE x == LastLabels(n, labels)
  <2>1. n \in 1..Len(labels)
    BY <1>1
  <2>2. x \in Seq(S) /\ Len(x) = n /\ \A j \in 1..n : x[j] = labels[N - n + j]
    BY <2>1, LastLabelsAre
  <2> HIDE DEF x
  <2>3. ASSUME n = 1 PROVE x \in Suffixes_ <=> b \in T \union C
    <3>1. x[1] = b
      <4>1. N - 1 + 1 = N /\ 1 \in 1..n
        BY <1>1, <2>3
      <4> QED BY <2>2, <2>3, <4>1
    <3>2. x = <<x[1]>>
      BY <2>2, <2>3
    <3>3. x = <<b>>
      BY <3>1, <3>2
    <3> HIDE DEF b
    <3> QED BY <3>3, SuffixesAre
  <2>4. ASSUME n = 2 PROVE x \in Suffixes_ <=> <<a, b>> \in M \/ (a \in G /\ b \in C)
    <3>1. x[1] = a /\ x[2] = b
      <4>1. N - 2 + 1 = N - 1 /\ N - 2 + 2 = N /\ 1 \in 1..n /\ 2 \in 1..n
        BY <1>1, <2>4
      <4> QED BY <2>2, <2>4, <4>1
    <3>2. x = <<x[1], x[2]>>
      BY <2>2, <2>4
    <3>3. x = <<a, b>>
      BY <3>1, <3>2
    <3> HIDE DEF a, b
    <3> QED BY <3>3, SuffixesAre
  <2>5. ASSUME n > 2 PROVE x \notin Suffixes_
    <3>1. \A u, v : Len(<<u>>) = 1 /\ Len(<<u, v>>) = 2
      OBVIOUS
    <3>2. Len(x) # 1 /\ Len(x) # 2
      BY <2>2, <2>5
    <3>3. \A u, v : x # <<u>> /\ x # <<u, v>>
      BY <3>1, <3>2, Zenon
    <3> QED BY <3>3, SuffixesAre, Zenon
  <2> QED BY <2>3, <2>4, <2>5 DEF x
<1> HIDE DEF k, T, C, M, G, a, b
<1>6. D \subseteq 0..N /\ D # {} /\ 0 \in D
  BY <1>1
<1>7. k \in D /\ \A n \in D : n <= k
  <2>1. CASE N = 1
    BY <1>4, <2>1
  <2>2. CASE N # 1
    <3>1. N >= 2 /\ 1 \in 1..N - 1 /\ (N >= 3 => 2 \in 1..N - 1) /\ (2 \in 1..N - 1 => N >= 3)
      <4>1. \A m \in Nat \ {0} : m # 1 => /\ m >= 2 /\ 1 \in 1..m - 1 /\ (m >= 3 => 2 \in 1..m - 1)
                                        /\ (2 \in 1..m - 1 => m >= 3)
        OBVIOUS
      <4> QED BY <1>1, <2>2, <4>1, Zenon
    <3>2. \A n \in D : n = 0 \/ n \in 1..N - 1
      BY <1>1
    <3>3. 1 \in D <=> b \in T \union C
      BY <1>5, <3>1
    <3>4. 2 \in D <=> N >= 3 /\ (<<a, b>> \in M \/ (a \in G /\ b \in C))
      BY <1>5, <3>1
    <3>5. \A n \in D : n = 0 \/ n = 1 \/ n = 2
      <4> TAKE n \in D
      <4>1. n \in 1..N - 1 => n = 1 \/ n = 2 \/ n > 2
        OBVIOUS
      <4>2. n # 0 => n \in 1..N - 1 /\ LastLabels(n, labels) \in Suffixes_
        BY <3>2
      <4> QED BY <1>5, <4>1, <4>2
    <3> HIDE DEF D, N
    <3>6. b \in T => 2 \notin D
      BY <1>2, <3>4
    <3> QED BY <1>2, <1>4, <1>6, <2>2, <3>3, <3>4, <3>5, <3>6
  <2> QED BY <2>1, <2>2
<1>8. Max(D) = k
  <2>1. Max(D) \in D /\ \A n \in D : n <= Max(D)
    BY <1>1, <1>6, MaxIs
  <2>2. D \subseteq Nat
    BY <1>6, <1>1
  <2> HIDE DEF D
  <2>3. k \in Nat /\ Max(D) \in Nat
    BY <1>7, <2>1, <2>2
  <2>4. \A m \in Nat : m <= k /\ k <= m => m = k
    BY <2>3
  <2> QED BY <1>7, <2>1, <2>3, <2>4, Zenon
<1>9. k \in 0..N - 1
  BY <1>1, <1>7
<1> QED BY <1>3, <1>8, <1>9 DEF k

\* Labels, joined by dots, begin with what the first begins with: with no dot.
LEMMA DomainTextIs ==
  ASSUME NEW domain \in Seq(Free(SITE, Dot)), domain # <<>>, domain[1] # <<>>
  PROVE  DomainText(domain) = Text(Site(domain))
<1> DEFINE seqs == [i \in 1..Len(domain) |-> <<Dot>> \o domain[i]]
           text == Site(domain)
           label == domain[1]
<1>1. \A s \in Free(SITE, Dot) : s \in Seq(SITE) /\ \A i \in 1..Len(s) : s[i] # Dot
  BY DEF Free
<1>2. Dot \in SITE /\ SITE \subseteq Char
  BY SiteChars DEF SITE, Dot, URL_UP_LET
<1>3. \A s \in Seq(SITE) : <<Dot>> \o s \in Seq(SITE)
  BY <1>2
<1>4. seqs \in Seq(Seq(SITE)) /\ seqs # <<>> /\ seqs[1] = <<Dot>> \o label
  <2>1. Len(domain) \in Nat \ {0} /\ \A i \in 1..Len(domain) : domain[i] \in Free(SITE, Dot)
    OBVIOUS
  <2>2. \A i \in 1..Len(domain) : <<Dot>> \o domain[i] \in Seq(SITE)
    BY <1>1, <1>3, <2>1
  <2>3. seqs \in Seq(Seq(SITE)) /\ Len(seqs) = Len(domain)
    BY <2>1, <2>2
  <2> QED BY <2>1, <2>3, SMTT(30)
<1>5. text = Tail(FlattenSeq(seqs))
  BY DEF Site, Replace, Each
<1>6. label \in Seq(SITE) /\ label # <<>> /\ label[1] # Dot
  <2>1. label \in Free(SITE, Dot)
    OBVIOUS
  <2>2. label \in Seq(SITE) /\ \A i \in 1..Len(label) : label[i] # Dot
    BY <1>1, <2>1
  <2>3. 1 \in 1..Len(label)
    BY <2>2
  <2> QED BY <2>2, <2>3
<1> HIDE DEF seqs, label
<1> DEFINE rest == FlattenSeq(Tail(seqs))
<1>7. FlattenSeq(seqs) = (<<Dot>> \o label) \o rest /\ rest \in Seq(SITE)
  <2>1. FlattenSeq(seqs) = seqs[1] \o rest /\ Tail(seqs) \in Seq(Seq(SITE))
    BY <1>4, FlattenFirst
  <2> QED BY <1>4, <2>1, FlattenType
<1> HIDE DEF rest
<1>8. text = label \o rest
  <2>1. (<<Dot>> \o label) \o rest = <<Dot>> \o (label \o rest)
    BY <1>2, <1>6, <1>7, ConcatAssoc
  <2>2. label \o rest \in Seq(SITE)
    BY <1>6, <1>7
  <2>3. \A s \in Seq(SITE) : Tail(<<Dot>> \o s) = s
    BY <1>2
  <2> QED BY <1>5, <1>7, <2>1, <2>2, <2>3
<1> HIDE DEF text
<1>9. text \in Seq(Char) /\ Len(text) >= 1 /\ Len(text) \in Nat /\ text[1] # Dot
  <2>1. text \in Seq(SITE) /\ Len(text) >= 1 /\ text[1] = label[1]
    BY <1>6, <1>7, <1>8
  <2>2. \A i \in 1..Len(text) : text[i] \in Char
    BY <1>2, <2>1
  <2> QED BY <1>6, <2>1, <2>2, InSeq
<1>10. Skip(1, {Dot}, text) = 1
  <2>1. 1 \in 1..Len(text) + 1 /\ \A j \in 1..1 - 1 : text[j] \in {Dot}
    BY <1>9
  <2> QED BY <1>9, <2>1, SkipWhen
<1>11. Drop(Skip(1, {Dot}, text) - 1, text) = text
  <2>1. Skip(1, {Dot}, text) - 1 = 0
    BY <1>10
  <2>2. Drop(0, text) = text
    BY <1>9 DEF Drop
  <2> QED BY <2>1, <2>2
<1> QED BY <1>11 DEF DomainText, text

\* One label more than the longest suffix.
LEMMA MainDomainIs ==
  ASSUME NEW site, IsSite(site), ~guess_is_dotip2(Labels(site))
  PROVE  LET labels == Labels(site)
             longest == LongestSuffix(labels)
         IN fetch_maindomain(site) =
              IF longest > 0 THEN Text(Site(LastLabels(longest + 1, labels)))
              ELSE IF Len(labels) > 2 THEN Text(Site(LastLabels(2, labels))) ELSE Failed
<1> DEFINE labels == Labels(site)
           N == Len(labels)
           k == LongestSuffix(labels)
           domain == get_domain_from_site(load_default, labels)
<1>1. /\ labels \in Seq(Free(SITE, Dot)) /\ labels # <<>> /\ N \in Nat \ {0}
      /\ \A i \in 1..N : labels[i] # <<>>
  BY LabelsFilled
<1>2. fetch_maindomain(site) = DomainText(domain)
  BY DEF fetch_maindomain, fetch_trunk_and_domain
<1> HIDE DEF labels
<1>3. SuffixLength(load_default, labels) = k /\ k \in 0..N - 1
  BY <1>1, SuffixIsLongest
<1> HIDE DEF k
<1>4. domain = IF k = 0 THEN (IF N < 3 THEN <<>> ELSE LastLabels(2, labels)) ELSE LastLabels(k + 1, labels)
  BY <1>3 DEF get_domain_from_site, get_last_two_parts
<1>5. ASSUME NEW n \in 1..N
      PROVE  DomainText(LastLabels(n, labels)) = Text(Site(LastLabels(n, labels)))
  <2> DEFINE last == LastLabels(n, labels)
  <2>1. /\ last \in Seq(Free(SITE, Dot)) /\ Len(last) = n
        /\ \A j \in 1..n : last[j] = labels[N - n + j] /\ N - n + j \in 1..N
    BY <1>1, LastLabelsAre
  <2>2. 1 \in 1..n
    OBVIOUS
  <2>3. last # <<>> /\ last[1] # <<>>
    BY <1>1, <2>1, <2>2
  <2> HIDE DEF last
  <2>4. DomainText(last) = Text(Site(last))
    BY <2>1, <2>3, DomainTextIs
  <2> QED BY <2>4 DEF last
<1>6. DomainText(<<>>) = Failed
  BY DEF DomainText
<1> HIDE DEF domain, N
<1>7. CASE k > 0
  <2>1. k + 1 \in 1..N /\ k # 0
    BY <1>1, <1>3, <1>7
  <2> QED BY <1>2, <1>4, <1>5, <1>7, <2>1 DEF labels, k, N
<1>8. CASE ~(k > 0)
  <2>1. k = 0 /\ (N > 2 => 2 \in 1..N /\ ~(N < 3)) /\ (~(N > 2) => N < 3)
    BY <1>1, <1>3, <1>8
  <2>2. N > 2 => domain = LastLabels(2, labels) /\ DomainText(LastLabels(2, labels)) = Text(Site(LastLabels(2, labels)))
    BY <1>4, <1>5, <2>1
  <2>3. ~(N > 2) => domain = <<>>
    BY <1>4, <2>1
  <2>4. fetch_maindomain(site) = IF N > 2 THEN Text(Site(LastLabels(2, labels))) ELSE Failed
    BY <1>2, <1>6, <2>2, <2>3
  <2> QED BY <1>8, <2>4 DEF labels, k, N
<1> QED BY <1>7, <1>8

LEMMA KeptAreSpelled ==
  ASSUME LinkInv, Asked(href), NEW url \in getLinks(page, href)
  PROVE  Target(href) \in Seq(Char) /\ url = Spelled(Target(href))
<1>1. Target(href) \in Seq(Char)
  BY HostType, TrimType, ResolvedType DEF Target, LinkInv, Asked
<1>2. getLinks(page, href) \subseteq {Spelled(Target(href))}
  BY DEF getLinks, Kept, Target
<1> QED BY <1>1, <1>2

LEMMA RegisteredFromInv == LinkInv => MainDomainIsRegistered
<1> SUFFICES ASSUME LinkInv, Asked(href), NEW url \in getLinks(page, href),
                    ~guess_is_dotip2(Labels(Host(url)))
             PROVE  LET labels == Labels(Host(url))
                        longest == LongestSuffix(labels)
                    IN fetch_url_maindomain(url) =
                         IF longest > 0 THEN Text(Site(LastLabels(longest + 1, labels)))
                         ELSE IF Len(labels) > 2 THEN Text(Site(LastLabels(2, labels))) ELSE Failed
  BY DEF MainDomainIsRegistered
<1> DEFINE target == Target(href)
           site == NormalSite(target)
<1>1. target \in Seq(Char) /\ url = Spelled(target)
  BY KeptAreSpelled
<1>2. Fits(target)
  BY DEF Asked, MeantWell
<1> HIDE DEF target
<1>3. Host(url) = site /\ parse_url(url, TRUE).ok
  <2>1. parse_url(Spelled(target), TRUE) =
          [ok |-> TRUE, site |-> site, port |-> NormalPort(target), path |-> NormalPath(target)]
    BY <1>1, <1>2, SpelledParses
  <2> HIDE DEF site
  <2>2. parse_url(url, TRUE) =
          [ok |-> TRUE, site |-> site, port |-> NormalPort(target), path |-> NormalPath(target)]
    BY <1>1, <2>1
  <2>3. \A r, s, p, q : r = [ok |-> TRUE, site |-> s, port |-> p, path |-> q] => r.ok /\ r.site = s
    OBVIOUS
  <2>4. parse_url(url, TRUE).ok /\ parse_url(url, TRUE).site = site
    BY <2>2, <2>3, Zenon
  <2> QED BY <2>4 DEF Host, parseUrl
<1>4. IsSite(site) /\ Normal(target).ok
  BY <1>1, <1>2, NormalParted
<1>5. parse_url(url, FALSE).ok /\ parse_url(url, FALSE).site = site
  <2>1. ~(Len(url) >= MAX_URL_LEN)
    BY <1>3, ParseOkLen
  <2>2. LET s == normalize_site(parse_url(target, TRUE).site).text
        IN /\ parse_url(Spelled(target), FALSE).ok
           /\ \A all \in BOOLEAN : parse_url(Spelled(target), all).ok => parse_url(Spelled(target), all).site = s
    BY <1>1, <1>4, <2>1, SpelledSite
  <2> QED BY <1>1, <2>2 DEF NormalSite
<1>6. fetch_url_maindomain(url) = fetch_maindomain(site)
  BY <1>5 DEF fetch_url_maindomain, DomainOf
<1> HIDE DEF site
<1>7. ~guess_is_dotip2(Labels(site))
  BY <1>3
<1>8. LET labels == Labels(site)
          longest == LongestSuffix(labels)
      IN fetch_maindomain(site) =
           IF longest > 0 THEN Text(Site(LastLabels(longest + 1, labels)))
           ELSE IF Len(labels) > 2 THEN Text(Site(LastLabels(2, labels))) ELSE Failed
  BY <1>4, <1>7, MainDomainIs
<1> QED BY <1>3, <1>6, <1>8

\* The main domain that a kept link is filed under follows from the tables alone: one
\* label more than the longest suffix that any of them holds, whatever the order in
\* which get_domain_from_site searches them, for sites of any number of labels.
THEOREM MainDomainIsRegisteredAlways == LinkSpec => []MainDomainIsRegistered
BY LinksAreText, RegisteredFromInv, PTL

(***************************************************************************)
(* Percent signs.                                                          *)
(*                                                                         *)
(* Each begins an escape, and what it stands for is none of barred.  A     *)
(* text stays so when it is cut where no escape goes on.                   *)
(***************************************************************************)
Begins(i, t, barred) ==
  t[i] = Percent => i + 2 <= Len(t) /\ to_char(t[i + 1], t[i + 2]) \notin barred
Formed(t, barred) == \A i \in 1..Len(t) : Begins(i, t, barred)

LEMMA FormedConcat ==
  ASSUME NEW barred, NEW a \in Seq(Char), NEW b \in Seq(Char), Formed(a, barred), Formed(b, barred)
  PROVE  Formed(a \o b, barred)
<1> DEFINE c == a \o b
<1>1. /\ Len(c) = Len(a) + Len(b) /\ Len(a) \in Nat /\ Len(b) \in Nat
      /\ \A i \in 1..Len(a) : c[i] = a[i]
      /\ \A i \in 1..Len(b) : c[Len(a) + i] = b[i]
  BY Joined
<1> HIDE DEF c
<1>2. SUFFICES ASSUME NEW i \in 1..Len(c), c[i] = Percent
               PROVE  i + 2 <= Len(c) /\ to_char(c[i + 1], c[i + 2]) \notin barred
  BY DEF Formed, Begins, c
<1>3. CASE i <= Len(a)
  <2>1. i \in 1..Len(a) /\ a[i] = Percent
    BY <1>1, <1>2, <1>3
  <2>2. i + 2 <= Len(a) /\ to_char(a[i + 1], a[i + 2]) \notin barred
    BY <2>1 DEF Formed, Begins
  <2>3. i + 1 \in 1..Len(a) /\ i + 2 \in 1..Len(a) /\ i + 2 <= Len(c)
    BY <1>1, <2>1, <2>2
  <2>4. c[i + 1] = a[i + 1] /\ c[i + 2] = a[i + 2]
    BY <1>1, <2>3
  <2> QED BY <2>2, <2>3, <2>4
<1>4. CASE i > Len(a)
  <2> DEFINE j == i - Len(a)
  <2>1. j \in 1..Len(b) /\ i = Len(a) + j
    BY <1>1, <1>4
  <2> HIDE DEF j
  <2>2. b[j] = Percent
    BY <1>1, <1>2, <2>1
  <2>3. j + 2 <= Len(b) /\ to_char(b[j + 1], b[j + 2]) \notin barred
    BY <2>1, <2>2 DEF Formed, Begins
  <2>4. j + 1 \in 1..Len(b) /\ j + 2 \in 1..Len(b) /\ i + 2 <= Len(c)
        /\ i + 1 = Len(a) + (j + 1) /\ i + 2 = Len(a) + (j + 2)
    BY <1>1, <2>1, <2>3
  <2>5. c[i + 1] = b[j + 1] /\ c[i + 2] = b[j + 2]
    BY <1>1, <2>4, SMTT(30)
  <2> QED BY <2>3, <2>4, <2>5
<1> QED
  <2>1. i <= Len(a) \/ i > Len(a)
    BY <1>1
  <2> QED BY <2>1, <1>3, <1>4

LEMMA FormedPart ==
  ASSUME NEW barred, 0 \in barred, NEW t \in Seq(Char), Formed(t, barred),
         NEW n \in 0..Len(t), NEW k \in 0..n, n < Len(t) => t[n + 1] \notin HexDigit
  PROVE  Formed(SubSeq(t, k + 1, n), barred)
<1> DEFINE c == SubSeq(t, k + 1, n)
<1>1. Len(c) = n - k /\ \A i \in 1..n - k : c[i] = t[k + i]
  OBVIOUS
<1> HIDE DEF c
<1>2. SUFFICES ASSUME NEW i \in 1..Len(c), c[i] = Percent
               PROVE  i + 2 <= Len(c) /\ to_char(c[i + 1], c[i + 2]) \notin barred
  BY DEF Formed, Begins, c
<1> DEFINE j == k + i
<1>3. j \in 1..Len(t) /\ j <= n /\ t[j] = Percent /\ Len(t) \in Nat
  BY <1>1, <1>2
<1>4. j + 2 <= Len(t) /\ to_char(t[j + 1], t[j + 2]) \notin barred
  BY <1>3 DEF Formed, Begins
<1> HIDE DEF j
<1>5. j + 1 \in 1..Len(t) /\ j + 2 \in 1..Len(t)
  BY <1>3, <1>4
<1>6. t[j] \in Char /\ t[j + 1] \in HexDigit /\ t[j + 2] \in HexDigit
  <2>1. t[j + 1] \in Char /\ t[j + 2] \in Char /\ t[j] \in Char
    BY <1>3, <1>5
  <2>2. to_char(t[j + 1], t[j + 2]) # 0
    BY <1>4
  <2> QED BY <2>1, <2>2, ToCharIs
<1>7. j # n /\ j + 1 # n
  <2>1. ASSUME j = n PROVE FALSE
    <3>1. n < Len(t) /\ n + 1 = j + 1
      BY <1>3, <1>4, <2>1
    <3> QED BY <3>1, <1>6
  <2>2. ASSUME j + 1 = n PROVE FALSE
    <3>1. n < Len(t) /\ n + 1 = j + 2
      BY <1>3, <1>4, <2>2
    <3> QED BY <3>1, <1>6
  <2> QED BY <2>1, <2>2
<1>8. i + 2 <= Len(c) /\ i + 1 \in 1..n - k /\ i + 2 \in 1..n - k
      /\ k + (i + 1) = j + 1 /\ k + (i + 2) = j + 2
  BY <1>1, <1>3, <1>7 DEF j
<1>9. c[i + 1] = t[j + 1] /\ c[i + 2] = t[j + 2]
  BY <1>1, <1>8
<1> QED BY <1>4, <1>8, <1>9

LEMMA FormedDrop ==
  ASSUME NEW barred, 0 \in barred, NEW t \in Seq(Char), Formed(t, barred), NEW n \in 0..Len(t)
  PROVE  Formed(Drop(n, t), barred)
<1>1. Len(t) \in 0..Len(t) /\ n \in 0..Len(t) /\ ~(Len(t) < Len(t))
  OBVIOUS
<1>2. Formed(SubSeq(t, n + 1, Len(t)), barred)
  BY <1>1, FormedPart
<1> QED BY <1>2 DEF Drop

\* A character that is no percent sign, and an escape.
LEMMA FormedOne ==
  ASSUME NEW barred, NEW c \in Char \ {Percent}
  PROVE  Formed(<<c>>, barred)
BY DEF Formed, Begins

LEMMA FormedEscape ==
  ASSUME NEW barred, NEW h \in HexDigit, NEW l \in HexDigit, to_char(h, l) \notin barred
  PROVE  Formed(<<Percent, h, l>>, barred)
<1>1. h # Percent /\ l # Percent
  BY DEF HexDigit, URL_DIGIT, Percent
<1> DEFINE t == <<Percent, h, l>>
<1>2. Len(t) = 3 /\ t[1] = Percent /\ t[2] = h /\ t[3] = l
  OBVIOUS
<1> HIDE DEF t
<1>3. \A i \in 1..3 : Begins(i, t, barred)
  <2>1. Begins(1, t, barred)
    BY <1>2 DEF Begins
  <2>2. Begins(2, t, barred) /\ Begins(3, t, barred)
    BY <1>1, <1>2 DEF Begins
  <2>3. \A i \in 1..3 : i = 1 \/ i = 2 \/ i = 3
    OBVIOUS
  <2> QED BY <2>1, <2>2, <2>3
<1> QED BY <1>2, <1>3 DEF Formed, t

(***************************************************************************)
(* The path of a URL whose percent signs begin escapes is such a text.     *)
(***************************************************************************)
LEMMA DeleteInterFirst ==
  ASSUME NEW s \in Seq(Char), s # <<>>
  PROVE  /\ Tail(s) \in Seq(Char) /\ s[1] \in Char
         /\ delete_inter(s) = (IF s[1] \in LFCR THEN <<>> ELSE <<s[1]>>) \o delete_inter(Tail(s))
<1> DEFINE Piece(c) == IF c \in LFCR THEN <<>> ELSE <<c>>
           Pieces_(x) == [i \in 1..Len(x) |-> Piece(x[i])]
<1>1. \A x : delete_inter(x) = FlattenSeq(Pieces_(x))
  BY DEF delete_inter, Replace, Each
<1>2. \A x \in Seq(Char) : Pieces_(x) \in Seq(Seq(Char)) /\ Len(Pieces_(x)) = Len(x)
  <2>1. \A c \in Char : Piece(c) \in Seq(Char)
    OBVIOUS
  <2> HIDE DEF Piece
  <2> QED BY <2>1
<1>3. Tail(s) \in Seq(Char) /\ s[1] \in Char /\ Len(s) \in Nat \ {0} /\ Len(Tail(s)) = Len(s) - 1
      /\ \A i \in 1..Len(s) - 1 : Tail(s)[i] = s[i + 1]
  BY EmptySeq
<1>4. Tail(Pieces_(s)) = Pieces_(Tail(s)) /\ Pieces_(s)[1] = Piece(s[1]) /\ Pieces_(s) # <<>>
  <2> HIDE DEF Piece
  <2>1. Pieces_(s)[1] = Piece(s[1])
    BY <1>3
  <2>2. Len(Pieces_(s)) = Len(s) /\ Pieces_(s) # <<>>
    BY <1>3
  <2>3. Tail(Pieces_(s)) = [i \in 1..Len(s) - 1 |-> Piece(s[i + 1])]
    BY <1>3, <2>2
  <2>4. Pieces_(Tail(s)) = [i \in 1..Len(s) - 1 |-> Piece(s[i + 1])]
    BY <1>3
  <2> QED BY <2>1, <2>2, <2>3, <2>4
<1> HIDE DEF Pieces_
<1>5. FlattenSeq(Pieces_(s)) = Pieces_(s)[1] \o FlattenSeq(Tail(Pieces_(s)))
  <2>1. Pieces_(s) \in Seq(Seq(Char))
    BY <1>2
  <2> QED BY <2>1, <1>4, FlattenFirst
<1> QED BY <1>1, <1>3, <1>4, <1>5

\* A character that is deleted is none of an escape.
LEMMA DigitsStay == \A c \in HexDigit \union {Percent} : c \in Char /\ c \notin LFCR
BY DEF HexDigit, URL_DIGIT, Percent, LFCR, Char

LEMMA EmptyFormed == \A barred : Formed(<<>>, barred)
BY DEF Formed

\* The step of the induction from the end of a text to its beginning.
LEMMA DeleteInterStep ==
  ASSUME NEW barred, 0 \in barred, NEW s \in Seq(Char), s # <<>>, Formed(s, barred),
         Formed(delete_inter(Tail(s)), barred)
  PROVE  Formed(delete_inter(s), barred)
<1> DEFINE t == Tail(s)
           d == delete_inter(t)
<1>1. /\ t \in Seq(Char) /\ s[1] \in Char /\ d \in Seq(Char) /\ Len(s) \in Nat \ {0}
      /\ delete_inter(s) = (IF s[1] \in LFCR THEN <<>> ELSE <<s[1]>>) \o d
      /\ Len(t) = Len(s) - 1 /\ \A i \in 1..Len(s) - 1 : t[i] = s[i + 1]
  <2>1. t \in Seq(Char) /\ s[1] \in Char
        /\ delete_inter(s) = (IF s[1] \in LFCR THEN <<>> ELSE <<s[1]>>) \o d
    BY DeleteInterFirst
  <2>2. Len(s) \in Nat \ {0} /\ Len(t) = Len(s) - 1 /\ \A i \in 1..Len(s) - 1 : t[i] = s[i + 1]
    BY EmptySeq
  <2>3. d \in Seq(Char)
    BY <2>1, DeleteInterType
  <2> QED BY <2>1, <2>2, <2>3
<1>2. CASE s[1] \in LFCR
  <2>1. delete_inter(s) = <<>> \o d /\ <<>> \o d = d
    BY <1>1, <1>2
  <2> QED BY <2>1
<1>3. CASE s[1] \notin LFCR /\ s[1] # Percent
  <2>1. delete_inter(s) = <<s[1]>> \o d /\ <<s[1]>> \in Seq(Char)
    BY <1>1, <1>3
  <2>2. Formed(<<s[1]>>, barred)
    BY <1>1, <1>3, FormedOne
  <2>3. Formed(<<s[1]>> \o d, barred)
    BY <1>1, <2>1, <2>2, FormedConcat
  <2> QED BY <2>1, <2>3
<1>4. CASE s[1] = Percent
  <2> DEFINE h == s[2]
             l == s[3]
             b == Drop(3, s)
  <2>1. 3 <= Len(s) /\ to_char(h, l) \notin barred
    <3>1. 1 \in 1..Len(s) /\ 1 + 2 = 3 /\ 1 + 1 = 2
      BY <1>1
    <3>2. Begins(1, s, barred)
      BY <3>1 DEF Formed
    <3> QED BY <1>4, <3>1, <3>2 DEF Begins
  <2>2. h \in HexDigit /\ l \in HexDigit
    <3>1. h \in Char /\ l \in Char /\ to_char(h, l) # 0
      BY <1>1, <2>1
    <3> QED BY <3>1, ToCharIs
  <2>3. b \in Seq(Char) /\ s = <<Percent, h, l>> \o b /\ t = <<h, l>> \o b
    <3>1. b \in Seq(Char) /\ Len(b) = Len(s) - 3 /\ \A i \in 1..Len(s) - 3 : b[i] = s[i + 3]
      <4>1. 3 \in 0..Len(s)
        BY <1>1, <2>1
      <4>2. Drop(3, s) \in Seq(Char) /\ Len(Drop(3, s)) = Len(s) - 3
            /\ \A i \in 1..Len(s) - 3 : Drop(3, s)[i] = s[3 + i]
        BY <4>1, DropIs
      <4>3. \A i \in 1..Len(s) - 3 : 3 + i = i + 3
        OBVIOUS
      <4> QED BY <4>2, <4>3
    <3>2. <<Percent, h, l>> \in Seq(Char) /\ <<h, l>> \in Seq(Char)
      BY <2>2, DigitsStay
    <3> DEFINE x == <<Percent, h, l>> \o b
               y == <<h, l>> \o b
    <3>3. x \in Seq(Char) /\ Len(x) = Len(s) /\ y \in Seq(Char) /\ Len(y) = Len(t)
      <4>1. Len(<<Percent, h, l>>) = 3 /\ Len(<<h, l>>) = 2 /\ b \in Seq(Char)
        BY <3>1
      <4> DEFINE p == <<Percent, h, l>>
                 q == <<h, l>>
      <4> HIDE DEF p, q, b, t
      <4>2. p \o b \in Seq(Char) /\ Len(p \o b) = Len(p) + Len(b)
            /\ q \o b \in Seq(Char) /\ Len(q \o b) = Len(q) + Len(b)
        BY <3>2, <4>1, Joined DEF p, q
      <4>3. Len(p) = 3 /\ Len(q) = 2
        BY <4>1 DEF p, q
      <4>4. \A n \in Nat : 3 <= n => 3 + (n - 3) = n /\ 2 + (n - 3) = n - 1
        OBVIOUS
      <4>5. Len(s) \in Nat /\ 3 <= Len(s)
        BY <1>1, <2>1
      <4>6. 3 + (Len(s) - 3) = Len(s) /\ 2 + (Len(s) - 3) = Len(s) - 1
        BY <4>4, <4>5
      <4>7. Len(p \o b) = Len(s) /\ Len(q \o b) = Len(t)
        BY <1>1, <3>1, <4>2, <4>3, <4>6
      <4> QED BY <4>2, <4>7 DEF p, q
    <3>4. \A i \in 1..Len(s) : x[i] = s[i]
      <4>1. x[1] = Percent /\ x[2] = h /\ x[3] = l
        BY <2>2, <3>1
      <4>2. \A i \in 1..Len(b) : x[3 + i] = b[i]
        BY <3>1, <3>2
      <4>3. \A i \in 1..Len(s) : i = 1 \/ i = 2 \/ i = 3 \/ (i - 3 \in 1..Len(b) /\ i = 3 + (i - 3) /\ i = (i - 3) + 3)
        BY <1>1, <2>1, <3>1
      <4> HIDE DEF x, b
      <4>4. ASSUME NEW i \in 1..Len(s), i - 3 \in 1..Len(b), i = 3 + (i - 3), i = (i - 3) + 3
            PROVE  x[i] = s[i]
        <5> DEFINE j == i - 3
        <5>1. j \in 1..Len(b) /\ j \in 1..Len(s) - 3 /\ i = 3 + j /\ i = j + 3
          BY <3>1, <4>4
        <5> HIDE DEF j
        <5> QED BY <3>1, <4>2, <5>1
      <4> QED BY <1>4, <4>1, <4>3, <4>4
    <3>5. \A i \in 1..Len(t) : y[i] = t[i]
      <4>1. y[1] = h /\ y[2] = l
        BY <2>2, <3>1
      <4>2. \A i \in 1..Len(b) : y[2 + i] = b[i]
        BY <3>1, <3>2
      <4>3. t[1] = h /\ t[2] = l
        BY <1>1, <2>1
      <4> HIDE DEF y, b, t
      <4>4. ASSUME NEW i \in 1..Len(t), i # 1, i # 2 PROVE y[i] = t[i]
        <5> DEFINE j == i - 2
        <5>1. j \in 1..Len(b) /\ j \in 1..Len(s) - 3 /\ i = 2 + j /\ i \in 1..Len(s) - 1 /\ i + 1 = j + 3
          BY <1>1, <2>1, <3>1, <4>4
        <5> HIDE DEF j
        <5>2. y[i] = b[j] /\ t[i] = s[i + 1] /\ b[j] = s[j + 3]
          BY <1>1, <3>1, <4>2, <5>1
        <5> QED BY <5>1, <5>2
      <4> QED BY <4>1, <4>3, <4>4
    <3> HIDE DEF x, y, b, t
    <3>6. x = s /\ y = t
      BY <1>1, <3>3, <3>4, <3>5, SeqEqual
    <3> QED BY <3>1, <3>6 DEF x, y
  <2> HIDE DEF b, h, l, t
  <2>4. /\ <<Percent, h, l>> \in Seq(Char) /\ <<h, l>> \in Seq(Char)
        /\ \A i \in 1..Len(<<h, l>>) : <<h, l>>[i] \notin LFCR
        /\ \A i \in 1..Len(<<Percent, h, l>>) : <<Percent, h, l>>[i] \notin LFCR
    <3>1. h \in Char /\ l \in Char /\ Percent \in Char /\ h \notin LFCR /\ l \notin LFCR /\ Percent \notin LFCR
      BY <2>2, DigitsStay
    <3> QED BY <3>1
  <2>5. delete_inter(s) = <<Percent, h, l>> \o delete_inter(b) /\ d = <<h, l>> \o delete_inter(b)
    BY <2>3, <2>4, DeleteInterConcat
  <2> DEFINE db == delete_inter(b)
  <2>6. db \in Seq(Char)
    BY <2>3, DeleteInterType
  <2>7. Formed(db, barred)
    <3>1. 2 \in 0..Len(d) /\ Drop(2, d) = db
      <4> DEFINE q == <<h, l>>
      <4>1. Len(q) = 2 /\ q \in Seq(Char)
        BY <2>4
      <4> HIDE DEF q, db
      <4>2. Drop(Len(q), q \o db) = db
        BY <2>6, <4>1, TakeDropJoined
      <4>3. Len(q \o db) = Len(q) + Len(db) /\ Len(db) \in Nat
        <5>1. db \in Seq(Char)
          BY <2>6 DEF db
        <5>2. Len(q \o db) = Len(q) + Len(db)
          BY <4>1, <5>1, Joined
        <5> QED BY <5>1, <5>2
      <4>4. d = q \o db
        BY <2>5 DEF q, db
      <4>5. \A n \in Nat : 2 \in 0..2 + n
        OBVIOUS
      <4> QED BY <4>1, <4>2, <4>3, <4>4, <4>5
    <3>2. Formed(d, barred)
      BY DEF t
    <3> HIDE DEF d, db
    <3>3. Formed(Drop(2, d), barred)
      BY <1>1, <3>1, <3>2, FormedDrop
    <3> QED BY <3>1, <3>3
  <2>8. Formed(<<Percent, h, l>>, barred)
    BY <2>1, <2>2, FormedEscape DEF h, l
  <2> HIDE DEF db
  <2>9. Formed(<<Percent, h, l>> \o db, barred)
    BY <2>4, <2>6, <2>7, <2>8, FormedConcat
  <2> QED BY <2>5, <2>9 DEF db
<1> QED BY <1>2, <1>3, <1>4

LEMMA DeleteInterFormed ==
  ASSUME NEW barred, 0 \in barred, NEW s \in Seq(Char), Formed(s, barred)
  PROVE  Formed(delete_inter(s), barred)
<1> DEFINE T == {n \in Nat : \E x \in Seq(Char) : /\ Len(x) = n /\ Formed(x, barred)
                                                  /\ ~Formed(delete_inter(x), barred)}
<1>1. 0 \notin T
  <2>1. \A x \in Seq(Char) : Len(x) = 0 => x = <<>>
    OBVIOUS
  <2>2. delete_inter(<<>>) = <<>>
    <3>1. <<>> \in Seq(Char) /\ \A i \in 1..Len(<<>>) : <<>>[i] \notin LFCR
      OBVIOUS
    <3> QED BY <3>1, DeleteInterSame
  <2> QED BY <2>1, <2>2, EmptyFormed
<1>2. ASSUME NEW n \in Nat, n + 1 \in T PROVE n \in T
  <2>1. PICK x \in Seq(Char) : Len(x) = n + 1 /\ Formed(x, barred) /\ ~Formed(delete_inter(x), barred)
    BY <1>2
  <2>2. x # <<>> /\ Tail(x) \in Seq(Char) /\ Len(Tail(x)) = n
    BY <2>1
  <2>3. Formed(Tail(x), barred)
    <3>1. 1 \in 0..Len(x) /\ Tail(x) = Drop(1, x)
      BY <2>1, <2>2 DEF Drop
    <3> QED BY <2>1, <3>1, FormedDrop
  <2>4. ~Formed(delete_inter(Tail(x)), barred)
    BY <2>1, <2>2, DeleteInterStep
  <2> QED BY <2>2, <2>3, <2>4
<1> HIDE DEF T
<1>3. T = {}
  BY <1>1, <1>2, NoLeast DEF T
<1>4. Len(s) \in Nat
  OBVIOUS
<1> QED BY <1>3, <1>4 DEF T

LEMMA PathFormed ==
  ASSUME NEW url \in Seq(Char), WellFormed(url), parse_url(url, TRUE).ok
  PROVE  Formed(parse_url(url, TRUE).path, {0})
<1> DEFINE input == delete_inter(url)
           rest == WithoutScheme(input)
           path == PathPart(rest)
<1>1. input \in Seq(Char) /\ Formed(input, {0})
  <2>1. Formed(url, {0})
    BY DEF WellFormed, Formed, Begins
  <2> QED BY <2>1, DeleteInterType, DeleteInterFormed
<1>2. rest \in Seq(Char) /\ Formed(rest, {0})
  <2> HIDE DEF input
  <2>1. rest \in Seq(Char)
    BY <1>1, WithoutSchemeType
  <2>2. ASSUME NEW scheme, Len(scheme) \in Nat, HasScheme(scheme, input)
        PROVE  Formed(Drop(Len(scheme), input), {0})
    <3>1. Len(scheme) \in 0..Len(input)
      BY <1>1, <2>2 DEF HasScheme
    <3> QED BY <1>1, <3>1, FormedDrop
  <2>3. Len(Http) \in Nat /\ Len(Https) \in Nat
    BY DEF Http, Https
  <2>4. \/ HasScheme(Http, input) /\ rest = Drop(Len(Http), input)
        \/ HasScheme(Https, input) /\ rest = Drop(Len(Https), input)
        \/ rest = input
    <3>1. WithoutScheme(input) = IF HasScheme(Http, input) THEN Drop(Len(Http), input)
                                 ELSE IF HasScheme(Https, input) THEN Drop(Len(Https), input) ELSE input
      BY DEF WithoutScheme
    <3>2. HasScheme(Http, input) \in BOOLEAN /\ HasScheme(Https, input) \in BOOLEAN
      BY DEF HasScheme
    <3> QED BY <3>1, <3>2
  <2> QED BY <1>1, <2>1, <2>2, <2>3, <2>4
<1>3. parse_url(url, TRUE).path = path
  <2> DEFINE host == HostPart(rest)
             site == SitePart(host)
             port == PortPart(host)
             good == [ok |-> TRUE, site |-> Strip({Dot}, site),
                      port |-> IF port = HttpPort THEN <<>> ELSE port, path |-> path]
  <2>1. parse_url(url, TRUE) = Failed \/ parse_url(url, TRUE) = good
    BY DEF parse_url, Parts
  <2>2. ~Failed.ok /\ good.path = path
    BY DEF Failed
  <2> HIDE DEF good, path
  <2> QED BY <2>1, <2>2
<1> HIDE DEF input, rest
<1>4. PICK k \in 0..Len(rest) :
           /\ HostPart(rest) = Take(k, rest)
           /\ \A j \in 1..k : rest[j] # Slash /\ rest[j] # Question
           /\ k < Len(rest) => rest[k + 1] \in {Slash, Question}
  BY <1>2, HostPartIs
<1>5. Len(HostPart(rest)) = k
  BY <1>2, <1>4, TakeIs
<1> DEFINE tail == Drop(k, rest)
<1>6. tail \in Seq(Char) /\ Formed(tail, {0})
  BY <1>2, FormedDrop, DropIs
<1>7. path = <<Slash>> \o tail \/ path = tail
  BY <1>5 DEF PathPart
<1>8. Formed(<<Slash>> \o tail, {0})
  <2>1. <<Slash>> \in Seq(Char) /\ Slash \in Char \ {Percent}
    BY DEF Slash, Char, Percent
  <2>2. Formed(<<Slash>>, {0})
    BY <2>1, FormedOne
  <2> HIDE DEF tail
  <2> QED BY <1>6, <2>1, <2>2, FormedConcat
<1> HIDE DEF tail, path
<1> QED BY <1>3, <1>6, <1>7, <1>8

(***************************************************************************)
(* Texts that single_path_nointer leaves as they are: without spaces, and  *)
(* each percent sign begins an escape that is not undone.                  *)
(***************************************************************************)
Undone  == (UCH_RES \ RESERVED) \ {Space}
Stables == {t \in Seq(UCH_RES \ {Space}) : Formed(t, Undone \union {0})}

LEMMA StableIs ==
  ASSUME NEW t \in Stables
  PROVE  /\ t \in Seq(UCH_RES) /\ t \in Seq(Char) /\ Len(t) \in Nat
         /\ Formed(t, Undone \union {0}) /\ \A i \in 1..Len(t) : t[i] \in UCH_RES \ {Space}
<1>1. t \in Seq(UCH_RES \ {Space}) /\ Formed(t, Undone \union {0})
  BY DEF Stables
<1>2. UCH_RES \ {Space} \subseteq UCH_RES /\ UCH_RES \ {Space} \subseteq Char
  BY CharClasses
<1> DEFINE S == UCH_RES \ {Space}
<1> HIDE DEF S
<1>3. t \in Seq(S) /\ S \subseteq UCH_RES /\ S \subseteq Char
  BY <1>1, <1>2 DEF S
<1>4. \A i \in 1..Len(t) : t[i] \in S
  BY <1>3
<1>5. t \in Seq(UCH_RES) /\ t \in Seq(Char) /\ Len(t) \in Nat
  BY <1>3
<1> QED BY <1>1, <1>4, <1>5 DEF S

LEMMA IsStable ==
  ASSUME NEW S, NEW t \in Seq(S), \A i \in 1..Len(t) : t[i] \in UCH_RES \ {Space}, Formed(t, Undone \union {0})
  PROVE  t \in Stables
<1>1. t \in Seq(UCH_RES \ {Space})
  BY InSeq
<1> QED BY <1>1 DEF Stables

LEMMA StableConcat ==
  ASSUME NEW a \in Stables, NEW b \in Stables
  PROVE  a \o b \in Stables
<1>1. a \in Seq(Char) /\ b \in Seq(Char) /\ Formed(a, Undone \union {0}) /\ Formed(b, Undone \union {0})
  BY StableIs
<1>2. Formed(a \o b, Undone \union {0})
  BY <1>1, FormedConcat
<1>3. a \in Seq(UCH_RES \ {Space}) /\ b \in Seq(UCH_RES \ {Space})
  BY DEF Stables
<1>4. a \o b \in Seq(UCH_RES \ {Space})
  BY <1>3
<1> QED BY <1>2, <1>4 DEF Stables

LEMMA StablePart ==
  ASSUME NEW t \in Stables, NEW n \in 0..Len(t), NEW k \in 0..n, n < Len(t) => t[n + 1] \notin HexDigit
  PROVE  SubSeq(t, k + 1, n) \in Stables
<1>1. t \in Seq(Char) /\ Formed(t, Undone \union {0}) /\ 0 \in Undone \union {0}
  BY StableIs
<1>2. Formed(SubSeq(t, k + 1, n), Undone \union {0})
  BY <1>1, FormedPart
<1>3. t \in Seq(UCH_RES \ {Space})
  BY DEF Stables
<1>4. SubSeq(t, k + 1, n) \in Seq(UCH_RES \ {Space})
  BY <1>3
<1> QED BY <1>2, <1>4 DEF Stables

LEMMA StableFew ==
  /\ <<>> \in Stables
  /\ \A c \in UCH_RES \ {Space, Percent} : <<c>> \in Stables
  /\ \A h, l \in HexDigit : to_char(h, l) \notin Undone \union {0} => <<Percent, h, l>> \in Stables
<1>1. <<>> \in Stables
  BY EmptyFormed DEF Stables
<1>2. ASSUME NEW c \in UCH_RES \ {Space, Percent} PROVE <<c>> \in Stables
  <2>1. c \in Char \ {Percent} /\ c \in UCH_RES \ {Space}
    BY CharClasses
  <2>2. Formed(<<c>>, Undone \union {0})
    BY <2>1, FormedOne
  <2>3. <<c>> \in Seq(UCH_RES \ {Space})
    BY <2>1
  <2> QED BY <2>2, <2>3 DEF Stables
<1>3. ASSUME NEW h \in HexDigit, NEW l \in HexDigit, to_char(h, l) \notin Undone \union {0}
      PROVE  <<Percent, h, l>> \in Stables
  <2>1. Percent \in UCH_RES \ {Space} /\ h \in UCH_RES \ {Space} /\ l \in UCH_RES \ {Space}
    BY DEF HexDigit, URL_DIGIT, UCH_RES, Space, Percent, Hash
  <2>2. Formed(<<Percent, h, l>>, Undone \union {0})
    BY <1>3, FormedEscape
  <2>3. <<Percent, h, l>> \in Seq(UCH_RES \ {Space})
    BY <2>1
  <2> QED BY <2>2, <2>3 DEF Stables
<1> QED BY <1>1, <1>2, <1>3

LEMMA StableFlatten ==
  ASSUME NEW seqs \in Seq(Stables)
  PROVE  FlattenSeq(seqs) \in Stables
<1> DEFINE T == {n \in Nat : \E x \in Seq(Stables) : Len(x) = n /\ FlattenSeq(x) \notin Stables}
<1>1. 0 \notin T
  <2>1. \A x \in Seq(Stables) : Len(x) = 0 => x = <<>>
    OBVIOUS
  <2> QED BY <2>1, FlattenEmpty, StableFew
<1>2. ASSUME NEW n \in Nat, n + 1 \in T PROVE n \in T
  <2>1. PICK x \in Seq(Stables) : Len(x) = n + 1 /\ FlattenSeq(x) \notin Stables
    BY <1>2
  <2> DEFINE rest == Take(n, x)
             last == x[n + 1]
  <2>2. rest \in Seq(Stables) /\ Len(rest) = n /\ last \in Stables /\ x = Append(rest, last)
    BY <2>1, TakenApart
  <2> HIDE DEF rest, last
  <2>3. Stables \subseteq Seq(Char)
    BY StableIs
  <2>4. rest \in Seq(Seq(Char)) /\ last \in Seq(Char)
    BY <2>2, <2>3
  <2>5. FlattenSeq(x) = FlattenSeq(rest) \o last
    BY <2>2, <2>4, FlattenAppend
  <2>6. FlattenSeq(rest) \notin Stables
    BY <2>1, <2>2, <2>5, StableConcat
  <2> QED BY <2>2, <2>6
<1> HIDE DEF T
<1>3. T = {}
  BY <1>1, <1>2, NoLeast DEF T
<1>4. Len(seqs) \in Nat
  OBVIOUS
<1> QED BY <1>3, <1>4 DEF T

(***************************************************************************)
(* space_escape_path, as what it writes for each character.                *)
(***************************************************************************)
Spaced(c)   == IF c = Space THEN <<Percent, 50, 48>> ELSE <<c>>
Unspaced(s) == FlattenSeq([i \in 1..Len(s) |-> Spaced(s[i])])
\* The same of each part of a text.
UnspacedEach(seqs) == [i \in 1..Len(seqs) |-> Unspaced(seqs[i])]

LEMMA SpacedIs ==
  /\ \A c \in Char : Spaced(c) \in Seq(Char)
  /\ \A c : c # Space => Spaced(c) = <<c>>
  /\ Spaced(Space) = <<Percent, 50, 48>>
<1>1. <<Percent, 50, 48>> \in Seq(Char)
  BY DEF Percent, Char
<1> QED BY <1>1 DEF Spaced

LEMMA SpacedAll ==
  ASSUME NEW s \in Seq(Char)
  PROVE  /\ [i \in 1..Len(s) |-> Spaced(s[i])] \in Seq(Seq(Char))
         /\ Unspaced(s) \in Seq(Char)
<1>1. \A i \in 1..Len(s) : Spaced(s[i]) \in Seq(Char)
  BY SpacedIs
<1>2. [i \in 1..Len(s) |-> Spaced(s[i])] \in Seq(Seq(Char))
  BY <1>1
<1> QED BY <1>2, FlattenType DEF Unspaced

LEMMA UnspacedConcat ==
  ASSUME NEW a \in Seq(Char), NEW b \in Seq(Char)
  PROVE  Unspaced(a \o b) = Unspaced(a) \o Unspaced(b)
<1> DEFINE c == a \o b
           P(s) == [i \in 1..Len(s) |-> Spaced(s[i])]
<1>1. /\ c \in Seq(Char) /\ Len(c) = Len(a) + Len(b) /\ Len(a) \in Nat /\ Len(b) \in Nat
      /\ \A i \in 1..Len(a) : c[i] = a[i]
      /\ \A i \in 1..Len(b) : c[Len(a) + i] = b[i]
  BY Joined
<1>2. /\ P(a) \in Seq(Seq(Char)) /\ P(b) \in Seq(Seq(Char)) /\ P(c) \in Seq(Seq(Char))
  BY <1>1, SpacedAll
<1> HIDE DEF c
<1>3. /\ Len(P(a)) = Len(a) /\ Len(P(b)) = Len(b) /\ Len(P(c)) = Len(a) + Len(b)
      /\ \A i \in 1..Len(a) : P(a)[i] = Spaced(a[i])
      /\ \A i \in 1..Len(b) : P(b)[i] = Spaced(b[i])
      /\ \A i \in 1..Len(a) + Len(b) : P(c)[i] = Spaced(c[i])
  BY <1>1
<1> HIDE DEF P
<1> DEFINE p == P(a)
           q == P(b)
           r == P(c)
           x == p \o q
<1>4. /\ x \in Seq(Seq(Char)) /\ Len(x) = Len(p) + Len(q)
      /\ \A i \in 1..Len(p) : x[i] = p[i]
      /\ \A i \in 1..Len(q) : x[Len(p) + i] = q[i]
  <2>1. p \in Seq(Seq(Char)) /\ q \in Seq(Seq(Char))
    BY <1>2
  <2> HIDE DEF p, q
  <2> QED BY <2>1, Joined
<1> HIDE DEF p, q, r, x
<1>5. \A i \in 1..Len(a) + Len(b) : r[i] = x[i]
  <2>1. ASSUME NEW i \in 1..Len(a) PROVE r[i] = x[i]
    <3>1. i \in 1..Len(p) /\ i \in 1..Len(a) + Len(b)
      BY <1>1, <1>3, <2>1 DEF p
    <3>2. x[i] = p[i] /\ p[i] = Spaced(a[i]) /\ r[i] = Spaced(c[i]) /\ c[i] = a[i]
      BY <1>1, <1>3, <1>4, <2>1, <3>1 DEF p, r
    <3> QED BY <3>2
  <2>2. ASSUME NEW i \in 1..Len(b) PROVE r[Len(a) + i] = x[Len(a) + i]
    <3>1. Len(a) + i \in 1..Len(a) + Len(b)
      BY <1>1
    <3>2. i \in 1..Len(q) /\ Len(p) = Len(a)
      BY <1>3, <2>2 DEF p, q
    <3>3. x[Len(a) + i] = q[i] /\ q[i] = Spaced(b[i])
      BY <1>3, <1>4, <2>2, <3>2 DEF q
    <3>4. r[Len(a) + i] = Spaced(c[Len(a) + i]) /\ c[Len(a) + i] = b[i]
      BY <1>1, <1>3, <2>2, <3>1 DEF r
    <3> QED BY <3>3, <3>4
  <2>3. \A i \in 1..Len(a) + Len(b) : i \in 1..Len(a) \/ (i - Len(a) \in 1..Len(b) /\ i = Len(a) + (i - Len(a)))
    BY <1>1
  <2>4. ASSUME NEW i \in 1..Len(a) + Len(b), i - Len(a) \in 1..Len(b), i = Len(a) + (i - Len(a))
        PROVE  r[i] = x[i]
    <3> DEFINE j == i - Len(a)
    <3>1. j \in 1..Len(b) /\ i = Len(a) + j
      BY <2>4
    <3> HIDE DEF j
    <3> QED BY <2>2, <3>1
  <2> QED BY <2>1, <2>3, <2>4
<1>6. r = x
  <2>1. r \in Seq(Seq(Char)) /\ Len(r) = Len(a) + Len(b)
    BY <1>2, <1>3 DEF r
  <2>2. Len(x) = Len(a) + Len(b)
    BY <1>3, <1>4 DEF p, q
  <2> QED BY <1>4, <1>5, <2>1, <2>2, SeqEqual
<1>7. FlattenSeq(p \o q) = FlattenSeq(p) \o FlattenSeq(q)
  <2>1. p \in Seq(Seq(Char)) /\ q \in Seq(Seq(Char))
    BY <1>2 DEF p, q
  <2> QED BY <2>1, FlattenConcat
<1>8. Unspaced(a) = FlattenSeq(p) /\ Unspaced(b) = FlattenSeq(q) /\ Unspaced(c) = FlattenSeq(r)
  BY DEF Unspaced, P, p, q, r
<1> QED BY <1>6, <1>7, <1>8 DEF c, x

LEMMA UnspacedSame ==
  ASSUME NEW s \in Seq(Char), \A i \in 1..Len(s) : s[i] # Space
  PROVE  Unspaced(s) = s
<1>1. [i \in 1..Len(s) |-> Spaced(s[i])] = [i \in 1..Len(s) |-> <<s[i]>>]
  BY SpacedIs
<1>2. FlattenSeq([i \in 1..Len(s) |-> <<s[i]>>]) = s
  BY FlattenSingles
<1> QED BY <1>1, <1>2 DEF Unspaced

LEMMA UnspacedFlatten ==
  ASSUME NEW seqs \in Seq(Seq(Char))
  PROVE  Unspaced(FlattenSeq(seqs)) = FlattenSeq(UnspacedEach(seqs))
<1> DEFINE Differ(x) == Unspaced(FlattenSeq(x)) # FlattenSeq(UnspacedEach(x))
           T == {n \in Nat : \E x \in Seq(Seq(Char)) : Len(x) = n /\ Differ(x)}
<1>1. 0 \notin T
  <2>1. \A x \in Seq(Seq(Char)) : Len(x) = 0 => x = <<>>
    OBVIOUS
  <2>2. UnspacedEach(<<>>) = <<>>
    BY DEF UnspacedEach
  <2>3. Unspaced(<<>>) = <<>>
    <3>1. <<>> \in Seq(Char) /\ \A i \in 1..Len(<<>>) : <<>>[i] # Space
      OBVIOUS
    <3> QED BY <3>1, UnspacedSame
  <2> QED BY <2>1, <2>2, <2>3, FlattenEmpty
<1>2. ASSUME NEW n \in Nat, n + 1 \in T PROVE n \in T
  <2>1. PICK x \in Seq(Seq(Char)) : Len(x) = n + 1 /\ Differ(x)
    BY <1>2
  <2> DEFINE rest == Take(n, x)
             last == x[n + 1]
  <2>2. rest \in Seq(Seq(Char)) /\ Len(rest) = n /\ last \in Seq(Char) /\ x = Append(rest, last)
    BY <2>1, TakenApart
  <2> HIDE DEF rest, last
  <2>3. UnspacedEach(x) = Append(UnspacedEach(rest), Unspaced(last))
    <3>1. UnspacedEach(Append(rest, last)) = Append(UnspacedEach(rest), Unspaced(last))
      BY <2>2 DEF UnspacedEach
    <3> QED BY <2>2, <3>1
  <2>4. UnspacedEach(rest) \in Seq(Seq(Char)) /\ Unspaced(last) \in Seq(Char)
    <3>1. \A i \in 1..Len(rest) : Unspaced(rest[i]) \in Seq(Char)
      BY <2>2, SpacedAll
    <3>2. UnspacedEach(rest) \in Seq(Seq(Char))
      BY <2>2, <3>1 DEF UnspacedEach
    <3> QED BY <2>2, <3>2, SpacedAll
  <2>5. FlattenSeq(UnspacedEach(x)) = FlattenSeq(UnspacedEach(rest)) \o Unspaced(last)
    BY <2>3, <2>4, FlattenAppend
  <2>6. FlattenSeq(x) = FlattenSeq(rest) \o last /\ FlattenSeq(rest) \in Seq(Char)
    BY <2>2, FlattenAppend, FlattenType
  <2>7. Unspaced(FlattenSeq(x)) = Unspaced(FlattenSeq(rest)) \o Unspaced(last)
    BY <2>2, <2>6, UnspacedConcat
  <2>8. Differ(rest)
    BY <2>1, <2>5, <2>7
  <2> QED BY <2>2, <2>8
<1> HIDE DEF T
<1>3. T = {}
  BY <1>1, <1>2, NoLeast DEF T
<1>4. Len(seqs) \in Nat
  OBVIOUS
<1> QED BY <1>3, <1>4 DEF T

LEMMA WithoutSpacesAre ==
  ASSUME NEW t \in Seq(Char)
  PROVE  /\ WithoutSpaces(t).ok => WithoutSpaces(t).text = Unspaced(t)
         /\ Len(Unspaced(t)) < MAX_PATH_LEN => WithoutSpaces(t) = Text(Unspaced(t))
<1>1. Replace(LAMBDA c : IF c = Space THEN <<Percent, 50, 48>> ELSE <<c>>, t) = Unspaced(t)
  BY DEF Replace, Each, Unspaced, Spaced
<1>2. space_escape_path(t) = IF Len(Unspaced(t)) < MAX_PATH_LEN THEN Text(Unspaced(t)) ELSE Failed
  BY <1>1 DEF space_escape_path
<1>3. ~Failed.ok /\ \A x : Text(x).text = x
  BY DEF Failed, Text
<1>4. CASE Space \in Range(t)
  <2>1. WithoutSpaces(t) = space_escape_path(t)
    BY <1>4 DEF WithoutSpaces
  <2> QED BY <1>2, <1>3, <2>1
<1>5. CASE Space \notin Range(t)
  <2>1. WithoutSpaces(t) = Text(t)
    BY <1>5 DEF WithoutSpaces
  <2>2. \A i \in 1..Len(t) : t[i] # Space
    BY <1>5 DEF Range
  <2>3. Unspaced(t) = t
    BY <2>2, UnspacedSame
  <2> QED BY <1>3, <2>1, <2>3
<1> QED BY <1>4, <1>5

(***************************************************************************)
(* What single_path_nointer writes is left as it is when it is read again. *)
(***************************************************************************)
LEMMA UnitsIn ==
  ASSUME NEW s \in Seq(Char), NEW U,
         \A i \in 1..Len(s) : ~InEscape(i, s) => UnitAt(i, s) \in U
  PROVE  Units(s) \in Seq(U)
<1>1. \A i \in 1..Len(s) : (IF InEscape(i, s) THEN <<>> ELSE <<UnitAt(i, s)>>) \in Seq(U)
  OBVIOUS
<1>2. UnitPieces(s) \in Seq(Seq(U))
  BY <1>1 DEF UnitPieces
<1>3. FlattenSeq(UnitPieces(s)) \in Seq(U)
  BY <1>2, FlattenType
<1> QED BY <1>3 DEF Units, UnitPieces

\* A percent sign that stands for itself is none of them.
Shown == {u \in Unit : Plain(u) => u.char # Percent}

LEMMA UnitsShown ==
  ASSUME NEW s \in Seq(Char), Formed(s, {0})
  PROVE  Units(s) \in Seq(Shown)
<1>1. ASSUME NEW i \in 1..Len(s) PROVE UnitAt(i, s) \in Shown
  <2> DEFINE u == UnitAt(i, s)
  <2>1. u \in Unit /\ IF Escape(i, s) THEN Escaped(u) ELSE Plain(u) /\ u.char = s[i]
    BY UnitAtIs
  <2> HIDE DEF u
  <2>2. CASE Escape(i, s)
    <3>1. Len(u.raw) = 3
      BY <2>1, <2>2 DEF Escaped
    <3>2. ~Plain(u)
      <4>1. Plain(u) => Len(u.raw) = 1
        BY DEF Plain
      <4> QED BY <3>1, <4>1
    <3> QED BY <2>1, <3>2 DEF Shown, u
  <2>3. CASE ~Escape(i, s)
    <3>1. u.char = s[i]
      BY <2>1, <2>3
    <3>2. s[i] # Percent
      <4>1. Begins(i, s, {0})
        BY DEF Formed
      <4> QED BY <2>3, <4>1 DEF Begins, Escape
    <3> QED BY <2>1, <3>1, <3>2 DEF Shown, u
  <2> QED BY <2>2, <2>3
<1> QED BY <1>1, UnitsIn

LEMMA UnspacedOne ==
  ASSUME NEW c \in Char
  PROVE  Unspaced(<<c>>) = Spaced(c)
<1>1. Spaced(c) \in Seq(Char)
  BY SpacedIs
<1>2. [i \in 1..Len(<<c>>) |-> Spaced(<<c>>[i])] = <<Spaced(c)>>
  <2> DEFINE d == Spaced(c)
  <2>1. Len(<<c>>) = 1 /\ \A i \in 1..1 : i = 1
    OBVIOUS
  <2>2. \A i \in 1..1 : Spaced(<<c>>[i]) = Spaced(c)
    BY <2>1
  <2>3. <<Spaced(c)>> = [i \in 1..1 |-> Spaced(c)]
    <3> HIDE DEF d
    <3>1. <<d>> = [i \in 1..1 |-> d]
      OBVIOUS
    <3> QED BY <3>1 DEF d
  <2> HIDE DEF d
  <2> QED BY <2>1, <2>2, <2>3
<1> QED BY <1>1, <1>2, FlattenOne DEF Unspaced

LEMMA SpacedStable ==
  ASSUME NEW c \in UCH_RES \ {Percent}
  PROVE  Spaced(c) \in Stables
<1>1. CASE c = Space
  <2>1. 50 \in HexDigit /\ 48 \in HexDigit
    BY DEF HexDigit, URL_DIGIT
  <2>2. to_char(50, 48) = 32
    BY DEF to_char, TO_CHAR, URL_DIGIT
  <2>3. 32 \notin Undone \union {0}
    BY DEF Undone, Space
  <2>4. <<Percent, 50, 48>> \in Stables
    BY <2>1, <2>2, <2>3, StableFew
  <2> QED BY <1>1, <2>4, SpacedIs
<1>2. CASE c # Space
  BY <1>2, SpacedIs, StableFew
<1> QED BY <1>1, <1>2

\* An escape that is kept has no spaces, and is itself.
LEMMA EscapedRaw ==
  ASSUME NEW u \in Unit, Escaped(u)
  PROVE  /\ u.raw = <<Percent, u.raw[2], u.raw[3]>>
         /\ u.raw[2] \in HexDigit /\ u.raw[3] \in HexDigit /\ u.char = to_char(u.raw[2], u.raw[3])
         /\ u.raw \in Seq(Char) /\ u.char \in Char /\ u.char # 0
         /\ Unspaced(u.raw) = u.raw
<1>1. /\ Len(u.raw) = 3 /\ u.raw[1] = Percent
      /\ u.raw[2] \in HexDigit /\ u.raw[3] \in HexDigit /\ u.char = to_char(u.raw[2], u.raw[3])
  BY DEF Escaped
<1>2. u.raw \in Seq(Char) /\ u.char \in Char
  BY DEF Unit
<1>3. u.char # 0
  <2>1. 0 \notin Char
    BY DEF Char
  <2> QED BY <1>2, <2>1
<1> DEFINE r == u.raw
<1> HIDE DEF r
<1>4. r \in Seq(Char) /\ Len(r) = 3 /\ r[1] = Percent
  BY <1>1, <1>2 DEF r
<1>5. r = <<Percent, r[2], r[3]>>
  BY <1>4
<1>6. Space \notin HexDigit /\ Space # Percent
  BY DEF HexDigit, URL_DIGIT, Space, Percent
<1>7. \A i \in 1..Len(r) : r[i] # Space
  <2>1. r[2] # Space /\ r[3] # Space /\ r[1] # Space
    BY <1>1, <1>6 DEF r
  <2>2. \A i \in 1..3 : i = 1 \/ i = 2 \/ i = 3
    OBVIOUS
  <2> QED BY <1>4, <2>1, <2>2
<1>8. Unspaced(r) = r
  BY <1>4, <1>7, UnspacedSame
<1> QED BY <1>1, <1>2, <1>3, <1>5, <1>8 DEF r

LEMMA RecodedStable ==
  ASSUME NEW u \in Shown, u.raw[1] \in UCH_RES
  PROVE  Unspaced(Recoded(u)) \in Stables
<1>1. u \in Unit /\ u.char \in Char /\ (Plain(u) \/ Escaped(u)) /\ (Plain(u) => u.char # Percent)
  BY DEF Shown, Unit
<1>2. CASE Plain(u)
  <2>1. u.char = u.raw[1] /\ Recoded(u) = <<u.char>>
    BY <1>2 DEF Plain, Recoded
  <2>2. u.char \in UCH_RES \ {Percent}
    BY <1>1, <1>2, <2>1
  <2> QED BY <1>1, <2>1, <2>2, UnspacedOne, SpacedStable
<1>3. CASE ~Plain(u) /\ u.char \in UCH_RES \ RESERVED
  <2>1. Recoded(u) = <<u.char>>
    BY <1>3 DEF Recoded
  <2>2. Percent \in RESERVED
    BY DEF RESERVED, Percent
  <2>3. u.char \in UCH_RES \ {Percent}
    BY <1>3, <2>2
  <2> QED BY <1>1, <2>1, <2>3, UnspacedOne, SpacedStable
<1>4. CASE ~Plain(u) /\ u.char \notin UCH_RES \ RESERVED
  <2>1. Recoded(u) = u.raw /\ Escaped(u)
    BY <1>1, <1>4 DEF Recoded
  <2> DEFINE h == u.raw[2]
             l == u.raw[3]
  <2>2. /\ u.raw = <<Percent, h, l>> /\ h \in HexDigit /\ l \in HexDigit
        /\ u.char = to_char(h, l) /\ u.char # 0 /\ Unspaced(u.raw) = u.raw
    BY <1>1, <2>1, EscapedRaw
  <2> HIDE DEF h, l
  <2>3. to_char(h, l) \notin Undone \union {0}
    BY <1>4, <2>2 DEF Undone
  <2> QED BY <2>1, <2>2, <2>3, StableFew
<1> QED BY <1>2, <1>3, <1>4

LEMMA SinglePathStable ==
  ASSUME NEW path \in Seq(Char), Formed(path, {0}), single_path_nointer(path).ok
  PROVE  single_path_nointer(path).text \in Stables
<1> DEFINE us == Units(path)
           rs == Recodes(us)
<1>1. us \in Seq(Shown) /\ us \in Seq(Unit)
  BY UnitsShown, UnitsAre
<1>2. single_path_nointer(path) = WithoutSpaces(FlattenSeq(rs))
  BY SinglePathIs
<1> HIDE DEF us
<1>3. rs \in Seq(Seq(UCH_RES)) /\ Len(rs) = InPart(us)
  BY <1>1, RecodesAre
<1>4. InPart(us) \in 0..Len(us) /\ \A i \in 1..InPart(us) : us[i].raw[1] \in UCH_RES
  BY <1>1, InPartIs
<1>5. \A i \in 1..InPart(us) : rs[i] = Recoded(us[i]) /\ us[i] \in Shown
  <2>1. \A i \in 1..InPart(us) : rs[i] = Recoded(us[i])
    BY DEF Recodes
  <2>2. \A i \in 1..InPart(us) : us[i] \in Shown
    BY <1>1, <1>4
  <2> QED BY <2>1, <2>2
<1> HIDE DEF rs
<1>6. UnspacedEach(rs) \in Seq(Stables)
  <2>1. \A i \in 1..Len(rs) : Unspaced(rs[i]) \in Stables
    BY <1>3, <1>4, <1>5, RecodedStable
  <2>2. Len(rs) \in Nat
    BY <1>3
  <2> QED BY <2>1, <2>2 DEF UnspacedEach
<1>7. FlattenSeq(UnspacedEach(rs)) \in Stables
  BY <1>6, StableFlatten
<1>8. rs \in Seq(Seq(Char)) /\ FlattenSeq(rs) \in Seq(Char)
  <2>1. Seq(UCH_RES) \subseteq Seq(Char)
    BY CharClasses
  <2>2. rs \in Seq(Seq(Char))
    BY <1>3, <2>1
  <2> QED BY <2>2, FlattenType
<1>9. Unspaced(FlattenSeq(rs)) = FlattenSeq(UnspacedEach(rs))
  BY <1>8, UnspacedFlatten
<1>10. WithoutSpaces(FlattenSeq(rs)).ok
  BY <1>2
<1>11. WithoutSpaces(FlattenSeq(rs)).text = Unspaced(FlattenSeq(rs))
  BY <1>8, <1>10, WithoutSpacesAre
<1> QED BY <1>2, <1>7, <1>9, <1>11

\* Written again, a unit is as it was.
Fixed == {u \in Unit : u.raw[1] \in UCH_RES /\ Unspaced(Recoded(u)) = u.raw}

LEMMA SpaceEscape ==
  \A h, l \in HexDigit : to_char(h, l) = 32 => h = 50 /\ l = 48
<1>1. ASSUME NEW h \in HexDigit, NEW l \in HexDigit, to_char(h, l) = 32 PROVE h = 50 /\ l = 48
  <2>1. \A c \in HexDigit : /\ TO_CHAR(c) \in 0..15
                            /\ TO_CHAR(c) = 2 => c = 50
                            /\ TO_CHAR(c) = 0 => c = 48
    BY DEF TO_CHAR, HexDigit, URL_DIGIT
  <2>2. 16 * TO_CHAR(h) + TO_CHAR(l) = 32
    BY <1>1 DEF to_char
  <2>3. TO_CHAR(h) \in 0..15 /\ TO_CHAR(l) \in 0..15
    BY <2>1
  <2>4. \A a, b \in 0..15 : 16 * a + b = 32 => a = 2 /\ b = 0
    OBVIOUS
  <2>5. TO_CHAR(h) = 2 /\ TO_CHAR(l) = 0
    BY <2>2, <2>3, <2>4
  <2> QED BY <2>1, <2>5
<1> QED BY <1>1

LEMMA UnitsFixed ==
  ASSUME NEW t \in Stables
  PROVE  Units(t) \in Seq(Fixed)
<1>0. t \in Seq(Char) /\ Formed(t, Undone \union {0}) /\ \A i \in 1..Len(t) : t[i] \in UCH_RES \ {Space}
  BY StableIs
<1>1. ASSUME NEW i \in 1..Len(t) PROVE UnitAt(i, t) \in Fixed
  <2> DEFINE u == UnitAt(i, t)
  <2>1. /\ u \in Unit /\ u.raw[1] = t[i]
        /\ IF Escape(i, t) THEN Escaped(u) /\ u.raw = SubSeq(t, i, i + 2) ELSE Plain(u) /\ u.char = t[i]
    BY <1>0, UnitAtIs
  <2> HIDE DEF u
  <2>2. t[i] \in UCH_RES \ {Space} /\ t[i] \in Char
    BY <1>0, CharClasses
  <2>3. Unspaced(Recoded(u)) = u.raw
    <3>1. CASE ~Escape(i, t)
      <4>1. Recoded(u) = <<t[i]>> /\ u.raw = <<t[i]>>
        BY <2>1, <3>1 DEF Recoded, Plain
      <4>2. Unspaced(<<t[i]>>) = Spaced(t[i]) /\ Spaced(t[i]) = <<t[i]>>
        BY <2>2, UnspacedOne, SpacedIs
      <4> QED BY <4>1, <4>2
    <3>2. CASE Escape(i, t)
      <4> DEFINE h == u.raw[2]
                 l == u.raw[3]
      <4>1. /\ Escaped(u) /\ u.raw = <<Percent, h, l>> /\ h \in HexDigit /\ l \in HexDigit
            /\ u.char = to_char(h, l) /\ u.char \in Char /\ u.char # 0 /\ Unspaced(u.raw) = u.raw
        BY <2>1, <3>2, EscapedRaw
      <4>2. t[i] = Percent /\ i + 2 <= Len(t)
        BY <3>2 DEF Escape
      <4>3. to_char(t[i + 1], t[i + 2]) \notin Undone \union {0}
        BY <1>0, <4>2 DEF Formed, Begins
      <4>4. h = t[i + 1] /\ l = t[i + 2]
        <5>1. u.raw = SubSeq(t, i, i + 2)
          BY <2>1, <3>2
        <5>2. SubSeq(t, i, i + 2)[2] = t[i + 1] /\ SubSeq(t, i, i + 2)[3] = t[i + 2]
          BY <1>0, <4>2
        <5> QED BY <5>1, <5>2 DEF h, l
      <4>5. u.char \notin Undone
        BY <4>1, <4>3, <4>4
      <4>6. ~Plain(u)
        <5>1. Len(u.raw) = 3
          BY <4>1 DEF Escaped
        <5>2. Plain(u) => Len(u.raw) = 1
          BY DEF Plain
        <5> QED BY <5>1, <5>2
      <4> HIDE DEF h, l
      <4>7. CASE u.char \in UCH_RES \ RESERVED
        <5>1. u.char = Space /\ Recoded(u) = <<u.char>>
          BY <4>5, <4>7 DEF Undone, Recoded
        <5>2. h = 50 /\ l = 48
          BY <4>1, <5>1, SpaceEscape, ZenonT(60) DEF Space
        <5>3. Unspaced(<<u.char>>) = <<Percent, 50, 48>>
          BY <4>1, <5>1, UnspacedOne, SpacedIs
        <5> QED BY <4>1, <5>1, <5>2, <5>3
      <4>8. CASE u.char \notin UCH_RES \ RESERVED
        BY <4>1, <4>6, <4>8 DEF Recoded
      <4> QED BY <4>7, <4>8
    <3> QED BY <3>1, <3>2
  <2>4. u.raw[1] \in UCH_RES
    BY <2>1, <2>2
  <2> QED BY <2>1, <2>3, <2>4 DEF Fixed, u
<1> QED BY <1>0, <1>1, UnitsIn

LEMMA StableSame ==
  ASSUME NEW t \in Stables, Len(t) < MAX_PATH_LEN
  PROVE  single_path_nointer(t) = Text(t)
<1> DEFINE us == Units(t)
           rs == Recodes(us)
<1>0. t \in Seq(Char)
  BY StableIs
<1>1. us \in Seq(Fixed) /\ us \in Seq(Unit)
  BY <1>0, UnitsFixed, UnitsAre
<1>2. FlattenSeq(Raws(us)) = t
  BY <1>0, UnitsSpell
<1> HIDE DEF us
<1>3. \A i \in 1..Len(us) : us[i] \in Fixed
  BY <1>1
<1>4. InPart(us) = Len(us)
  <2>1. InPart(us) \in 0..Len(us) /\ (InPart(us) < Len(us) => us[InPart(us) + 1].raw[1] \notin UCH_RES)
    BY <1>1, InPartIs
  <2>2. \A i \in 1..Len(us) : us[i].raw[1] \in UCH_RES
    BY <1>3 DEF Fixed
  <2>3. Len(us) \in Nat
    BY <1>1
  <2>4. \A m \in Nat : \A k \in 0..m : k = m \/ (k < m /\ k + 1 \in 1..m)
    OBVIOUS
  <2> QED BY <2>1, <2>2, <2>3, <2>4
<1>5. single_path_nointer(t) = WithoutSpaces(FlattenSeq(rs))
  BY <1>0, <1>4, SinglePathWhen DEF us
<1>6. rs \in Seq(Seq(UCH_RES)) /\ Len(rs) = Len(us) /\ \A i \in 1..Len(us) : rs[i] = Recoded(us[i])
  <2>1. rs \in Seq(Seq(UCH_RES)) /\ Len(rs) = InPart(us)
    BY <1>1, RecodesAre
  <2>2. \A i \in 1..InPart(us) : rs[i] = Recoded(us[i])
    BY DEF Recodes
  <2> HIDE DEF rs
  <2> QED BY <1>4, <2>1, <2>2
<1> HIDE DEF rs
<1>7. UnspacedEach(rs) = Raws(us)
  <2>1. \A i \in 1..Len(us) : Unspaced(rs[i]) = us[i].raw
    BY <1>3, <1>6 DEF Fixed
  <2> QED BY <1>6, <2>1 DEF UnspacedEach, Raws
<1>8. rs \in Seq(Seq(Char)) /\ FlattenSeq(rs) \in Seq(Char)
  <2>1. Seq(UCH_RES) \subseteq Seq(Char)
    BY CharClasses
  <2>2. rs \in Seq(Seq(Char))
    BY <1>6, <2>1
  <2> QED BY <2>2, FlattenType
<1>9. Unspaced(FlattenSeq(rs)) = t
  <2>1. Unspaced(FlattenSeq(rs)) = FlattenSeq(UnspacedEach(rs))
    BY <1>8, UnspacedFlatten
  <2> QED BY <1>2, <1>7, <2>1
<1>10. WithoutSpaces(FlattenSeq(rs)) = Text(Unspaced(FlattenSeq(rs)))
  BY <1>8, <1>9, WithoutSpacesAre
<1> QED BY <1>5, <1>9, <1>10

(***************************************************************************)
(* normalize_path keeps such a text as it is written: it cuts at slashes,  *)
(* and no escape goes on with one.                                         *)
(***************************************************************************)
LEMMA CutMarks ==
  /\ {Slash, Question, Semicolon, Backslash} \intersect HexDigit = {}
  /\ Slash \in UCH_RES \ {Space, Percent} /\ Slash # Question /\ Slash # Semicolon /\ Slash # Backslash
BY DEF HexDigit, URL_DIGIT, Slash, Question, Semicolon, Backslash, UCH_RES, Space, Percent, Hash

LEMMA ReplaceSlashStable ==
  ASSUME NEW t \in Stables
  PROVE  replace_slash(t) \in Stables
<1> DEFINE r == replace_slash(t)
<1>1. /\ t \in Seq(Char) /\ Len(t) \in Nat /\ Formed(t, Undone \union {0})
      /\ \A i \in 1..Len(t) : t[i] \in UCH_RES \ {Space}
  BY StableIs
<1>2. /\ Len(r) = Len(t)
      /\ \A i \in 1..Len(t) : r[i] = t[i] \/ (t[i] = Backslash /\ r[i] = Slash)
  BY <1>1 DEF replace_slash
<1>3. \A i \in 1..Len(t) : r[i] \in UCH_RES \ {Space}
  BY <1>1, <1>2, CutMarks
<1>4. r \in Seq(UCH_RES \ {Space})
  <2>1. \A i \in 1..Len(t) : (IF t[i] = Backslash /\ i < QueryStart(t) THEN Slash ELSE t[i]) \in UCH_RES \ {Space}
    BY <1>1, CutMarks
  <2> QED BY <1>1, <2>1 DEF replace_slash
<1> HIDE DEF r
<1>5. ASSUME NEW i \in 1..Len(r), r[i] = Percent
      PROVE  i + 2 <= Len(r) /\ to_char(r[i + 1], r[i + 2]) \notin Undone \union {0}
  <2>1. t[i] = Percent /\ i \in 1..Len(t)
    BY <1>2, <1>5, CutMarks
  <2>2. i + 2 <= Len(t) /\ to_char(t[i + 1], t[i + 2]) \notin Undone \union {0}
    BY <1>1, <2>1 DEF Formed, Begins
  <2>3. i + 1 \in 1..Len(t) /\ i + 2 \in 1..Len(t)
    BY <1>1, <2>1, <2>2
  <2>4. t[i + 1] \in HexDigit /\ t[i + 2] \in HexDigit
    <3>1. t[i + 1] \in Char /\ t[i + 2] \in Char /\ to_char(t[i + 1], t[i + 2]) # 0
      BY <1>1, <2>2, <2>3
    <3> QED BY <3>1, ToCharIs
  <2>5. r[i + 1] = t[i + 1] /\ r[i + 2] = t[i + 2]
    BY <1>2, <2>3, <2>4, CutMarks
  <2> QED BY <1>2, <2>2, <2>5
<1>6. Formed(r, Undone \union {0})
  BY <1>5 DEF Formed, Begins
<1> QED BY <1>4, <1>6 DEF Stables, r

\* What Split has found in the first n characters.
SplitSoFar(t, n) ==
  LET parts == Split(Slash, Take(n, t))
  IN Front(parts) \in Seq(Stables) /\ \E k \in 0..n : Last(parts) = SubSeq(t, k + 1, n)

LEMMA SplitNext ==
  ASSUME NEW t \in Stables, NEW n \in Nat, n + 1 <= Len(t), SplitSoFar(t, n)
  PROVE  SplitSoFar(t, n + 1)
<1> DEFINE P == Split(Slash, Take(n, t))
           Q == Split(Slash, Take(n + 1, t))
           d == t[n + 1]
<1>1. t \in Seq(UCH_RES) /\ Len(t) \in Nat /\ n + 1 \in 1..Len(t) /\ n \in 0..Len(t) /\ n < Len(t)
  BY StableIs
<1>2. d \in UCH_RES /\ Take(n, t) \in Seq(UCH_RES)
  BY <1>1, TakeIs
<1>3. Q = NextPart(Slash, P, d)
  <2>1. Take(n + 1, t) = Append(Take(n, t), d)
    BY <1>1, TakenNext
  <2> DEFINE x == Take(n, t)
  <2>2. x \in Seq(UCH_RES) /\ d \in UCH_RES
    BY <1>2
  <2> HIDE DEF x, d
  <2>3. Split(Slash, Append(x, d)) = NextPart(Slash, Split(Slash, x), d)
    BY <2>2, SplitAppend
  <2> QED BY <2>1, <2>3 DEF x
<1>4. Parted(UCH_RES, Slash, P)
  BY <1>2, SplitType
<1>5. Front(P) \in Seq(Stables)
  BY DEF SplitSoFar
<1>6. PICK k \in 0..n : Last(P) = SubSeq(t, k + 1, n)
  BY DEF SplitSoFar
<1>7. P = Append(Front(P), Last(P))
  <2>1. P \in Seq(Free(UCH_RES, Slash)) /\ P # <<>>
    BY <1>4 DEF Parted
  <2> HIDE DEF P
  <2>2. \A U : \A w \in Seq(U) : w # <<>> => w = Append(Front(w), Last(w))
    BY DEF Front, Last
  <2> QED BY <2>1, <2>2
<1>8. /\ Front(Q) = IF d = Slash THEN P ELSE Front(P)
      /\ Last(Q) = IF d = Slash THEN <<>> ELSE Append(Last(P), d)
  <2> HIDE DEF P, Q, d
  <2> QED BY <1>2, <1>3, <1>4, NextPartIs
<1> HIDE DEF P, Q
<1>9. CASE d = Slash
  <2>1. Last(P) \in Stables
    <3>1. t[n + 1] \notin HexDigit
      BY <1>9, CutMarks
    <3> QED BY <1>1, <1>6, <3>1, StablePart
  <2>2. Append(Front(P), Last(P)) \in Seq(Stables)
    BY <1>5, <2>1
  <2>3. SubSeq(t, (n + 1) + 1, n + 1) = <<>> /\ n + 1 \in 0..n + 1
    BY <1>1
  <2> QED BY <1>7, <1>8, <1>9, <2>2, <2>3 DEF SplitSoFar, Q
<1>10. CASE d # Slash
  <2>1. Append(SubSeq(t, k + 1, n), t[n + 1]) = SubSeq(t, k + 1, n + 1)
    BY <1>1
  <2>2. k \in 0..n + 1
    OBVIOUS
  <2> QED BY <1>5, <1>6, <1>8, <1>10, <2>1, <2>2 DEF SplitSoFar, Q
<1> QED BY <1>9, <1>10

LEMMA SplitStable ==
  ASSUME NEW t \in Stables
  PROVE  Split(Slash, t) \in Seq(Stables)
<1>0. t \in Seq(UCH_RES) /\ Len(t) \in Nat
  BY StableIs
<1> DEFINE T == {n \in Nat : n <= Len(t) /\ ~SplitSoFar(t, n)}
<1>1. 0 \notin T
  <2>1. Take(0, t) = <<>> /\ SubSeq(t, 0 + 1, 0) = <<>>
    BY <1>0 DEF Take
  <2>2. Split(Slash, Take(0, t)) = << <<>> >>
    BY <2>1, SplitEmpty
  <2>3. Front(<< <<>> >>) = <<>> /\ Last(<< <<>> >>) = <<>> /\ 0 \in 0..0 /\ <<>> \in Seq(Stables)
    BY DEF Front, Last
  <2>4. SplitSoFar(t, 0)
    BY <2>1, <2>2, <2>3 DEF SplitSoFar
  <2> QED BY <2>4
<1>2. ASSUME NEW n \in Nat, n + 1 \in T PROVE n \in T
  <2>1. n + 1 <= Len(t) /\ n <= Len(t) /\ ~SplitSoFar(t, n + 1)
    BY <1>0, <1>2
  <2> QED BY <2>1, SplitNext
<1>3. T = {}
  <2> HIDE DEF T
  <2>1. T \subseteq Nat
    BY DEF T
  <2> QED BY <1>1, <1>2, <2>1, NoLeast
<1>4. SplitSoFar(t, Len(t))
  BY <1>0, <1>3
<1>5. Take(Len(t), t) = t
  BY <1>0 DEF Take
<1> DEFINE P == Split(Slash, t)
<1>6. PICK k \in 0..Len(t) : Front(P) \in Seq(Stables) /\ Last(P) = SubSeq(t, k + 1, Len(t))
  BY <1>4, <1>5 DEF SplitSoFar
<1>7. Last(P) \in Stables
  <2>1. Len(t) \in 0..Len(t) /\ ~(Len(t) < Len(t))
    BY <1>0
  <2> HIDE DEF P
  <2> QED BY <1>6, <2>1, StablePart
<1>8. P = Append(Front(P), Last(P))
  <2>1. P \in Seq(Free(UCH_RES, Slash)) /\ P # <<>>
    BY <1>0, SplitType DEF Parted
  <2> HIDE DEF P
  <2>2. \A U : \A w \in Seq(U) : w # <<>> => w = Append(Front(w), Last(w))
    BY DEF Front, Last
  <2> QED BY <2>1, <2>2
<1>9. \A w \in Seq(Stables), u \in Stables : Append(w, u) \in Seq(Stables)
  OBVIOUS
<1> HIDE DEF P
<1>10. P \in Seq(Stables)
  <2>1. Append(Front(P), Last(P)) \in Seq(Stables)
    BY <1>6, <1>7, <1>9
  <2> QED BY <1>8, <2>1
<1> QED BY <1>10 DEF P

\* A stack holds segments it was given.
LEMMA EnteredFrom ==
  ASSUME NEW Q, NEW segments \in Seq(Q)
  PROVE  Entered(segments) \in Seq(Q)
<1> DEFINE T == {n \in Nat : \E ss \in Seq(Q) : Len(ss) = n /\ Entered(ss) \notin Seq(Q)}
<1>1. 0 \notin T
  <2>1. \A ss \in Seq(Q) : Len(ss) = 0 => ss = <<>>
    OBVIOUS
  <2>2. Entered(<<>>) = <<>> /\ <<>> \in Seq(Q)
    BY EnteredAppend
  <2> QED BY <2>1, <2>2
<1>2. ASSUME NEW n \in Nat, n + 1 \in T PROVE n \in T
  <2>1. PICK ss \in Seq(Q) : Len(ss) = n + 1 /\ Entered(ss) \notin Seq(Q)
    BY <1>2
  <2> DEFINE rest == Take(n, ss)
             last == ss[n + 1]
  <2>2. rest \in Seq(Q) /\ Len(rest) = n /\ last \in Q /\ ss = Append(rest, last)
    BY <2>1, TakenApart
  <2> HIDE DEF rest, last
  <2>3. Entered(ss) = Enter(Entered(rest), last)
    BY <2>2, EnteredAppend
  <2>4. \A stack \in Seq(Q) : Enter(stack, last) \in Seq(Q)
    BY <2>2 DEF Enter, Front
  <2> QED BY <2>1, <2>2, <2>3, <2>4
<1> HIDE DEF T
<1>3. T = {}
  BY <1>1, <1>2, NoLeast DEF T
<1>4. Len(segments) \in Nat
  OBVIOUS
<1> QED BY <1>3, <1>4 DEF T

LEMMA RootedStable ==
  ASSUME NEW stack \in Seq(Stables)
  PROVE  Rooted(stack) \in Stables
<1> DEFINE pieces_ == [i \in 1..Len(stack) |-> <<Slash>> \o stack[i]]
<1>1. <<Slash>> \in Stables
  BY StableFew, CutMarks
<1>2. \A i \in 1..Len(stack) : <<Slash>> \o stack[i] \in Stables
  <2>1. \A i \in 1..Len(stack) : stack[i] \in Stables
    OBVIOUS
  <2> QED BY <1>1, <2>1, StableConcat
<1>3. pieces_ \in Seq(Stables)
  BY <1>2
<1>4. Rooted(stack) = FlattenSeq(pieces_)
  BY DEF Rooted, Replace, Each
<1> HIDE DEF pieces_
<1> QED BY <1>3, <1>4, StableFlatten

LEMMA ResolvedStable ==
  ASSUME NEW path \in Stables, path # <<>>
  PROVE  ResolvedPath(path) \in Stables
<1> DEFINE stack == Entered(Split(Slash, Tail(path)))
           open == stack = <<>> \/ Last(Split(Slash, Tail(path))) \in Here \union {Up}
<1>1. Tail(path) \in Stables
  <2>1. path \in Seq(UCH_RES) /\ Len(path) \in Nat
    BY StableIs
  <2>2. Tail(path) = SubSeq(path, 1 + 1, Len(path)) /\ 1 \in 0..Len(path)
    BY <2>1
  <2>3. Len(path) \in 0..Len(path) /\ ~(Len(path) < Len(path))
    BY <2>1
  <2> QED BY <2>2, <2>3, StablePart
<1>2. Split(Slash, Tail(path)) \in Seq(Stables)
  BY <1>1, SplitStable
<1>3. stack \in Seq(Stables)
  BY <1>2, EnteredFrom
<1>4. ResolvedPath(path) = Rooted(stack) \o IF open THEN <<Slash>> ELSE <<>>
  BY DEF ResolvedPath
<1> HIDE DEF stack, open
<1>5. Rooted(stack) \in Stables
  BY <1>3, RootedStable
<1>6. <<Slash>> \in Stables /\ <<>> \in Stables
  BY StableFew, CutMarks
<1>7. (IF open THEN <<Slash>> ELSE <<>>) \in Stables
  BY <1>6
<1> QED BY <1>4, <1>5, <1>7, StableConcat

LEMMA NormalizePathStable ==
  ASSUME NEW path \in Path, path \in Stables
  PROVE  normalize_path(path) \in Stables
<1> DEFINE body == replace_slash(path)
           query == QueryStart(body)
           front == Take(query - 1, body)
           rest == Drop(query - 1, body)
<1>1. body \in Stables /\ body \in Path
  BY ReplaceSlashStable, ReplaceSlashIs
<1>2. query \in 2..Len(body) + 1 /\ (query <= Len(body) => body[query] \in {Question, Semicolon})
  BY <1>1, QueryStartIs
<1>3. normalize_path(path) = ResolvedPath(front) \o rest
  BY NormalizePathIs
<1>4. Len(body) \in Nat /\ body \in Seq(UCH_RES)
  BY <1>1, StableIs
<1> HIDE DEF body, query
<1>5. /\ query - 1 \in 1..Len(body) /\ query - 1 \in 0..Len(body) /\ (query - 1) + 1 = query
      /\ (query - 1 < Len(body) => query <= Len(body))
      /\ 0 \in 0..query - 1 /\ Len(body) \in 0..Len(body) /\ ~(Len(body) < Len(body))
  BY <1>2, <1>4
<1>6. front \in Stables
  <2>1. query - 1 < Len(body) => body[(query - 1) + 1] \notin HexDigit
    BY <1>2, <1>5, CutMarks
  <2>2. SubSeq(body, 0 + 1, query - 1) \in Stables
    BY <1>1, <1>5, <2>1, StablePart
  <2>3. 0 + 1 = 1
    OBVIOUS
  <2> QED BY <2>2, <2>3 DEF Take
<1>7. rest \in Stables
  <2>1. SubSeq(body, (query - 1) + 1, Len(body)) \in Stables
    BY <1>1, <1>5, StablePart
  <2> QED BY <2>1 DEF Drop
<1>8. front # <<>>
  <2>1. Len(front) = query - 1
    BY <1>4, <1>5, TakeIs
  <2> QED BY <1>5, <2>1
<1> HIDE DEF front, rest
<1>9. ResolvedPath(front) \in Stables
  BY <1>6, <1>8, ResolvedStable
<1> QED BY <1>3, <1>7, <1>9, StableConcat

(***************************************************************************)
(* normalize_path has nothing to do for what it has written.               *)
(***************************************************************************)
\* The query begins at k: at a question mark, or without one at a semicolon.
AtQuestion(s, k)  == k <= Len(s) /\ s[k] = Question /\ \A j \in 1..k - 1 : s[j] # Question
AtSemicolon(s, k) == /\ Question \notin Range(s) /\ (k <= Len(s) => s[k] = Semicolon)
                     /\ \A j \in 1..k - 1 : s[j] # Semicolon

LEMMA InRange ==
  ASSUME NEW s \in Seq(Char), NEW c
  PROVE  c \in Range(s) <=> \E i \in 1..Len(s) : s[i] = c
BY DEF Range

LEMMA FindWhen ==
  ASSUME NEW s \in Seq(Char), NEW c, NEW k \in 1..Len(s) + 1,
         \A j \in 1..k - 1 : s[j] # c, k <= Len(s) => s[k] = c
  PROVE  Find(c, s) = k
<1> DEFINE f == Find(c, s)
<1>1. /\ f \in 1..Len(s) + 1 /\ \A j \in 1..f - 1 : s[j] # c
      /\ f <= Len(s) => s[f] = c
  BY FindIs
<1>2. Len(s) \in Nat
  OBVIOUS
<1> HIDE DEF f
<1>3. ~(f < k)
  <2>1. f < k => f \in 1..k - 1 /\ f <= Len(s)
    BY <1>1, <1>2
  <2> QED BY <1>1, <2>1
<1>4. ~(k < f)
  <2>1. k < f => k \in 1..f - 1 /\ k <= Len(s)
    BY <1>1, <1>2
  <2> QED BY <1>1, <2>1
<1>5. f = k
  BY <1>1, <1>2, <1>3, <1>4
<1> QED BY <1>5 DEF f

LEMMA QueryAt ==
  ASSUME NEW s \in Seq(Char)
  PROVE  /\ QueryStart(s) \in 1..Len(s) + 1
         /\ AtQuestion(s, QueryStart(s)) \/ AtSemicolon(s, QueryStart(s))
<1>1. \A c : /\ Find(c, s) \in 1..Len(s) + 1
             /\ \A j \in 1..Find(c, s) - 1 : s[j] # c
             /\ Find(c, s) <= Len(s) => s[Find(c, s)] = c
  BY FindIs
<1>2. Len(s) \in Nat
  OBVIOUS
<1>3. CASE Question \in Range(s)
  <2>1. QueryStart(s) = Find(Question, s)
    BY <1>3 DEF QueryStart
  <2>2. PICK i \in 1..Len(s) : s[i] = Question
    BY <1>3, InRange
  <2>3. Find(Question, s) <= Len(s)
    <3> DEFINE f == Find(Question, s)
    <3>1. f \in 1..Len(s) + 1 /\ \A j \in 1..f - 1 : s[j] # Question
      BY <1>1
    <3> HIDE DEF f
    <3>2. ~(f <= Len(s)) => i \in 1..f - 1
      BY <1>2, <3>1
    <3>3. f <= Len(s)
      BY <2>2, <3>1, <3>2
    <3> QED BY <3>3 DEF f
  <2> QED BY <1>1, <2>1, <2>3 DEF AtQuestion
<1>4. CASE Question \notin Range(s)
  <2>1. QueryStart(s) = Find(Semicolon, s)
    BY <1>4 DEF QueryStart
  <2> QED BY <1>1, <1>4, <2>1 DEF AtSemicolon
<1> QED BY <1>3, <1>4

LEMMA QueryWhen ==
  ASSUME NEW s \in Seq(Char), NEW k \in 1..Len(s) + 1, AtQuestion(s, k) \/ AtSemicolon(s, k)
  PROVE  QueryStart(s) = k
<1>1. CASE AtQuestion(s, k)
  <2>1. k <= Len(s) /\ s[k] = Question /\ \A j \in 1..k - 1 : s[j] # Question
    BY <1>1 DEF AtQuestion
  <2>2. k \in 1..Len(s)
    BY <2>1
  <2>3. Question \in Range(s)
    BY <2>1, <2>2, InRange
  <2>4. Find(Question, s) = k
    BY <2>1, FindWhen
  <2> QED BY <2>3, <2>4 DEF QueryStart
<1>2. CASE AtSemicolon(s, k)
  <2>1. /\ Question \notin Range(s) /\ (k <= Len(s) => s[k] = Semicolon)
        /\ \A j \in 1..k - 1 : s[j] # Semicolon
    BY <1>2 DEF AtSemicolon
  <2>2. Find(Semicolon, s) = k
    BY <2>1, FindWhen
  <2> QED BY <2>1, <2>2 DEF QueryStart
<1> QED BY <1>1, <1>2

\* No backslash is left before the query.
LEMMA ReplaceSlashDone ==
  ASSUME NEW path \in Path
  PROVE  \A i \in 1..QueryStart(replace_slash(path)) - 1 : replace_slash(path)[i] # Backslash
<1> DEFINE body == replace_slash(path)
           k == QueryStart(path)
<1>1. path \in Seq(Char) /\ Len(path) \in Nat \ {0}
  BY PathIs
<1>2. body \in Seq(Char) /\ Len(body) = Len(path)
  BY ReplaceSlashIs, PathIs
<1>3. \A i \in 1..Len(path) : body[i] = IF path[i] = Backslash /\ i < k THEN Slash ELSE path[i]
  BY DEF replace_slash
<1>4. k \in 1..Len(path) + 1 /\ (AtQuestion(path, k) \/ AtSemicolon(path, k))
  BY <1>1, QueryAt
<1> HIDE DEF body, k
<1>5. /\ Backslash # Question /\ Backslash # Semicolon
      /\ Slash # Question /\ Slash # Semicolon /\ Slash # Backslash
  BY DEF Backslash, Slash, Question, Semicolon
<1>6. \A i \in 1..Len(path) : /\ (body[i] = Question <=> path[i] = Question)
                              /\ (body[i] = Semicolon <=> path[i] = Semicolon)
  BY <1>3, <1>5
<1>7. \A j \in 1..k - 1 : j \in 1..Len(path)
  BY <1>1, <1>4
<1>8. AtQuestion(body, k) \/ AtSemicolon(body, k)
  <2>1. k <= Len(path) => k \in 1..Len(path)
    BY <1>4
  <2>2. Question \in Range(body) <=> Question \in Range(path)
    BY <1>1, <1>2, <1>6, InRange
  <2>3. CASE AtQuestion(path, k)
    BY <1>2, <1>6, <1>7, <2>1, <2>3 DEF AtQuestion
  <2>4. CASE AtSemicolon(path, k)
    BY <1>2, <1>6, <1>7, <2>1, <2>2, <2>4 DEF AtSemicolon
  <2> QED BY <1>4, <2>3, <2>4
<1>9. QueryStart(body) = k
  BY <1>2, <1>4, <1>8, QueryWhen
<1>10. \A i \in 1..k - 1 : body[i] # Backslash
  <2>1. \A i \in 1..k - 1 : i < k
    BY <1>4
  <2> QED BY <1>3, <1>5, <1>7, <2>1
<1> QED BY <1>9, <1>10 DEF body

\* A path is resolved to characters of its own.
LEMMA ResolvedChars ==
  ASSUME NEW S, Slash \in S, NEW path \in Seq(S), path # <<>>
  PROVE  ResolvedPath(path) \in Seq(S)
<1> DEFINE stack == Entered(Split(Slash, Tail(path)))
           open == stack = <<>> \/ Last(Split(Slash, Tail(path))) \in Here \union {Up}
<1>1. Tail(path) \in Seq(S)
  OBVIOUS
<1>2. Split(Slash, Tail(path)) \in Seq(Seq(S))
  <2>1. Split(Slash, Tail(path)) \in Seq(Free(S, Slash))
    BY <1>1, SplitType DEF Parted
  <2>2. Free(S, Slash) \subseteq Seq(S)
    BY DEF Free
  <2> DEFINE U == Free(S, Slash)
             V == Seq(S)
             P == Split(Slash, Tail(path))
  <2>3. P \in Seq(U) /\ U \subseteq V
    BY <2>1, <2>2
  <2> HIDE DEF U, V, P
  <2>4. P \in Seq(V)
    BY <2>3
  <2> QED BY <2>4 DEF V, P
<1>3. stack \in Seq(Seq(S))
  BY <1>2, EnteredFrom
<1>4. ResolvedPath(path) = Rooted(stack) \o IF open THEN <<Slash>> ELSE <<>>
  BY DEF ResolvedPath
<1> HIDE DEF stack, open
<1>5. Rooted(stack) \in Seq(S)
  <2>1. <<>> \in Seq(S)
    OBVIOUS
  <2> QED BY <1>3, <2>1, RootedIs
<1>6. (IF open THEN <<Slash>> ELSE <<>>) \in Seq(S)
  OBVIOUS
<1> DEFINE a == Rooted(stack)
           b == IF open THEN <<Slash>> ELSE <<>>
<1>7. a \in Seq(S) /\ b \in Seq(S) /\ ResolvedPath(path) = a \o b
  BY <1>4, <1>5, <1>6
<1> HIDE DEF a, b
<1> QED BY <1>7

\* The segments of a path that a stack makes are that stack's.
LEMMA OutSplit ==
  ASSUME NEW stack \in Seq(Proper), NEW p \in Plainly
  PROVE  Split(Slash, Tail(Out(stack, p))) = Append(stack, p)
<1> DEFINE Differ(k, q) == Split(Slash, Tail(Out(k, q))) # Append(k, q)
           T == {n \in Nat : \E k \in Seq(Proper), q \in Plainly : Len(k) = n /\ Differ(k, q)}
<1>0. Slash \in UCH_RES /\ \A q \in Plainly : q \in Free(UCH_RES, Slash) /\ q \in Seq(UCH_RES)
  BY CharClasses, ProperSegments DEF Plainly, Free
<1>1. 0 \notin T
  <2>1. \A k \in Seq(Proper) : Len(k) = 0 => k = <<>>
    OBVIOUS
  <2>2. ASSUME NEW q \in Plainly PROVE ~Differ(<<>>, q)
    <3>1. Out(<<>>, q) = <<Slash>> \o q
      <4>1. Append(<<>>, Slash) = <<Slash>>
        OBVIOUS
      <4> QED BY <4>1, RootedNone DEF Out
    <3>2. Tail(<<Slash>> \o q) = q
      BY <1>0
    <3>3. Split(Slash, q) = <<q>>
      BY <1>0, SplitFree
    <3>4. Append(<<>>, q) = <<q>>
      OBVIOUS
    <3> QED BY <3>1, <3>2, <3>3, <3>4
  <2> HIDE DEF Differ
  <2> QED BY <2>1, <2>2
<1>2. ASSUME NEW n \in Nat, n + 1 \in T PROVE n \in T
  <2>1. PICK k \in Seq(Proper), q \in Plainly : Len(k) = n + 1 /\ Differ(k, q)
    BY <1>2
  <2> DEFINE rest == Take(n, k)
             last == k[n + 1]
  <2>2. rest \in Seq(Proper) /\ Len(rest) = n /\ last \in Proper /\ k = Append(rest, last)
    BY <2>1, TakenApart
  <2> HIDE DEF rest, last
  <2>3. last \in Plainly
    BY <2>2, ProperSegments
  <2> DEFINE before == Out(rest, last)
  <2>4. before \in Path /\ Rooted(k) = before
    BY <2>2, <2>3, OutIs
  <2>5. Out(k, q) = Append(before, Slash) \o q
    BY <2>4 DEF Out
  <2>6. before \in Seq(UCH_RES) /\ Len(before) \in Nat \ {0}
    BY <2>4, PathIs
  <2> HIDE DEF before
  <2>7. Tail(before) \in Seq(UCH_RES) /\ Tail(Append(before, Slash) \o q) = Append(Tail(before), Slash) \o q
    <3>1. q \in Seq(UCH_RES)
      BY <1>0
    <3> DEFINE x == Append(before, Slash)
    <3>2. x \in Seq(UCH_RES) /\ Len(x) \in Nat \ {0} /\ Tail(x) = Append(Tail(before), Slash)
          /\ Tail(before) \in Seq(UCH_RES)
      BY <1>0, <2>6
    <3> HIDE DEF x
    <3>3. Tail(x \o q) = Tail(x) \o q
      BY <3>1, <3>2
    <3> QED BY <3>2, <3>3 DEF x
  <2>8. Split(Slash, Append(Tail(before), Slash) \o q) = Append(Split(Slash, Tail(before)), q)
    <3>1. q \in Free(UCH_RES, Slash)
      BY <1>0
    <3> DEFINE x == Tail(before)
    <3>2. x \in Seq(UCH_RES)
      BY <2>7
    <3> HIDE DEF x
    <3>3. Split(Slash, Append(x, Slash) \o q) = Append(Split(Slash, x), q)
      BY <1>0, <3>1, <3>2, SplitAfter
    <3> QED BY <3>3 DEF x
  <2>9. Split(Slash, Tail(before)) # Append(rest, last)
    BY <2>1, <2>2, <2>5, <2>7, <2>8
  <2>10. Differ(rest, last)
    BY <2>9 DEF before
  <2> HIDE DEF Differ
  <2> QED BY <2>2, <2>3, <2>10
<1> HIDE DEF T
<1>3. T = {}
  BY <1>1, <1>2, NoLeast DEF T
<1>4. Len(stack) \in Nat
  OBVIOUS
<1> QED BY <1>3, <1>4 DEF T

\* A resolved path is resolved.
LEMMA ResolvedOut ==
  ASSUME NEW stack \in Seq(Proper), NEW p \in Plainly, p = <<>> \/ p \in Proper
  PROVE  Out(stack, p) \in Path /\ ResolvedPath(Out(stack, p)) = Out(stack, p)
<1> DEFINE done == Tail(Out(stack, p))
<1>1. Out(stack, p) \in Path
  BY OutIs
<1>2. ResolvedPath(Out(stack, p)) = Final(StackAt(done), PartAt(done))
  BY <1>1, RenderedIs DEF Rendered
<1>3. Split(Slash, done) = Append(stack, p)
  BY OutSplit
<1>4. Front(Append(stack, p)) = stack /\ Last(Append(stack, p)) = p
  BY DEF Front, Last
<1> HIDE DEF done
<1>5. StackAt(done) = stack /\ PartAt(done) = p
  BY <1>3, <1>4, EnteredSame DEF StackAt, PartAt
<1>6. CASE p = <<>>
  BY <1>1, <1>2, <1>5, <1>6 DEF Final, Here
<1>7. CASE p \in Proper
  <2>1. p \notin Here /\ p # Up
    BY <1>7 DEF Proper
  <2> QED BY <1>1, <1>2, <1>5, <2>1 DEF Final
<1> QED BY <1>6, <1>7

LEMMA ResolvedSame ==
  ASSUME NEW path \in Path
  PROVE  ResolvedPath(path) \in Path /\ ResolvedPath(ResolvedPath(path)) = ResolvedPath(path)
<1> DEFINE done == Tail(path)
           stack == StackAt(done)
           p == PartAt(done)
<1>1. done \in Seq(UCH_RES)
  BY PathIs
<1>2. stack \in Seq(Proper) /\ p \in Plainly
  BY <1>1, AtIs
<1>3. ResolvedPath(path) = Final(stack, p)
  BY RenderedIs DEF Rendered
<1> HIDE DEF done, stack, p
<1>4. <<>> \in Plainly /\ Up \in Plainly
  BY DEF Plainly, Up, Dot, UCH_RES, Slash, Hash
<1>5. CASE p \in Here
  BY <1>2, <1>3, <1>4, <1>5, ResolvedOut DEF Final
<1>6. CASE p \notin Here /\ p = Up
  <2>1. Enter(stack, Up) \in Seq(Proper)
    BY <1>2, <1>4, EnterIs
  <2> QED BY <1>3, <1>4, <1>6, <2>1, ResolvedOut DEF Final
<1>7. CASE p \notin Here /\ p # Up
  <2>1. p \in Proper
    BY <1>2, <1>7 DEF Proper
  <2> QED BY <1>2, <1>3, <1>7, <2>1, ResolvedOut DEF Final
<1> QED BY <1>5, <1>6, <1>7

LEMMA NormalizePathSame ==
  ASSUME NEW path \in Path
  PROVE  normalize_path(normalize_path(path)) = normalize_path(path)
<1> DEFINE body == replace_slash(path)
           query == QueryStart(body)
           front == Take(query - 1, body)
           d == Drop(query - 1, body)
           r == ResolvedPath(front)
           x == normalize_path(path)
<1>1. body \in Path /\ x \in Path /\ x = r \o d
  BY ReplaceSlashIs, NormalizePathType, NormalizePathIs
<1>2. body \in Seq(UCH_RES) /\ body \in Seq(Char) /\ Len(body) \in Nat \ {0} /\ body[1] = Slash
  BY <1>1, PathIs
<1>3. query \in 2..Len(body) + 1 /\ (AtQuestion(body, query) \/ AtSemicolon(body, query))
  BY <1>1, <1>2, QueryStartIs, QueryAt
<1>4. \A i \in 1..query - 1 : body[i] # Backslash
  BY ReplaceSlashDone
<1> HIDE DEF body, query, x
<1>5. query - 1 \in 0..Len(body) /\ query - 1 \in 1..Len(body) /\ (query - 1) + 1 = query
  BY <1>2, <1>3
<1>6. /\ front \in Seq(UCH_RES) /\ Len(front) = query - 1 /\ \A j \in 1..query - 1 : front[j] = body[j]
      /\ d \in Seq(UCH_RES) /\ Len(d) = Len(body) - (query - 1)
      /\ \A j \in 1..Len(body) - (query - 1) : d[j] = body[(query - 1) + j]
  <2>1. /\ front \in Seq(UCH_RES) /\ Len(front) = query - 1
        /\ \A j \in 1..query - 1 : front[j] = body[j]
    BY <1>2, <1>5, TakeIs
  <2>2. /\ d \in Seq(UCH_RES) /\ Len(d) = Len(body) - (query - 1)
        /\ \A j \in 1..Len(body) - (query - 1) : d[j] = body[(query - 1) + j]
    BY <1>2, <1>5, DropIs
  <2> HIDE DEF front, d
  <2> QED BY <2>1, <2>2
<1>7. front # <<>> /\ front[1] = Slash /\ front \in Path
  <2>1. 1 \in 1..query - 1 /\ query - 1 # 0
    BY <1>5
  <2>2. front # <<>> /\ front[1] = Slash
    BY <1>2, <1>6, <2>1
  <2> QED BY <1>6, <2>2 DEF Path
<1> HIDE DEF front, d
<1>8. r \in Path /\ ResolvedPath(r) = r
  BY <1>7, ResolvedSame
<1>9. r \in Seq(UCH_RES) /\ r \in Seq(Char) /\ Len(r) \in Nat \ {0} /\ d \in Seq(Char)
  BY <1>6, <1>8, PathIs, CharClasses
<1> DEFINE n == Len(r)
<1>10. n \in Nat \ {0} /\ n + 1 \in 1..Len(x) + 1 /\ x \in Seq(Char)
       /\ Len(x) = n + Len(d) /\ Len(d) \in Nat
       /\ (\A i \in 1..n : x[i] = r[i]) /\ (\A i \in 1..Len(d) : x[n + i] = d[i])
       /\ Take(n, x) = r /\ Drop(n, x) = d
  <2> HIDE DEF r
  <2>1. Take(Len(r), r \o d) = r /\ Drop(Len(r), r \o d) = d
    BY <1>9, TakeDropJoined
  <2>2. /\ r \o d \in Seq(Char) /\ Len(r \o d) = Len(r) + Len(d) /\ Len(d) \in Nat
        /\ \A i \in 1..Len(r) : (r \o d)[i] = r[i]
        /\ \A i \in 1..Len(d) : (r \o d)[Len(r) + i] = d[i]
    BY <1>9, Joined
  <2>3. n + 1 \in 1..Len(x) + 1
    BY <1>1, <1>9, <2>2
  <2> QED BY <1>1, <1>9, <2>1, <2>2, <2>3
<1>11. /\ (\A i \in 1..n : r[i] # Backslash)
       /\ AtQuestion(x, n + 1) \/ AtSemicolon(x, n + 1)
  <2>0. Slash \notin {Question, Semicolon, Backslash} /\ Slash \in UCH_RES
    BY CutMarks
  <2>1. CASE AtQuestion(body, query)
    <3> DEFINE S == UCH_RES \ {Backslash, Question}
    <3>1. /\ query <= Len(body) /\ body[query] = Question
          /\ \A j \in 1..query - 1 : body[j] # Question
      BY <2>1 DEF AtQuestion
    <3>2. \A j \in 1..Len(front) : front[j] \in S
      <4> TAKE j \in 1..Len(front)
      <4>1. j \in 1..query - 1 /\ front[j] \in UCH_RES
        BY <1>6
      <4>2. front[j] = body[j] /\ body[j] # Backslash /\ body[j] # Question
        BY <1>4, <1>6, <3>1, <4>1
      <4> QED BY <4>1, <4>2
    <3>3. front \in Seq(S) /\ Slash \in S
      BY <1>6, <2>0, <3>2, InSeq
    <3> HIDE DEF S
    <3>4. r \in Seq(S)
      BY <1>7, <3>3, ResolvedChars
    <3> HIDE DEF r
    <3>5. \A i \in 1..n : r[i] \in S
      BY <3>4
    <3>6. \A i \in 1..n : r[i] # Backslash /\ r[i] # Question
      BY <3>5 DEF S
    <3>7. x[n + 1] = Question /\ n + 1 <= Len(x)
      <4>1. 1 \in 1..Len(body) - (query - 1) /\ (query - 1) + 1 = query /\ 1 \in 1..Len(d)
        BY <1>2, <1>3, <1>6, <3>1
      <4>2. d[1] = Question
        BY <1>6, <3>1, <4>1
      <4>3. n + 1 <= n + Len(d)
        BY <1>10, <4>1
      <4> QED BY <1>10, <4>1, <4>2, <4>3
    <3>8. (n + 1) - 1 = n
      BY <1>10
    <3>9. AtQuestion(x, n + 1)
      BY <1>10, <3>6, <3>7, <3>8 DEF AtQuestion
    <3> QED BY <3>6, <3>9
  <2>2. CASE AtSemicolon(body, query)
    <3> DEFINE S == UCH_RES \ {Backslash, Question, Semicolon}
    <3>1. /\ \A i \in 1..Len(body) : body[i] # Question
          /\ query <= Len(body) => body[query] = Semicolon
          /\ \A j \in 1..query - 1 : body[j] # Semicolon
      BY <1>2, <2>2, InRange DEF AtSemicolon
    <3>2. \A j \in 1..Len(front) : front[j] \in S
      <4>1. \A j \in 1..query - 1 : j \in 1..Len(body)
        BY <1>2, <1>5
      <4> QED BY <1>4, <1>6, <3>1, <4>1
    <3>3. front \in Seq(S) /\ Slash \in S
      BY <1>6, <2>0, <3>2, InSeq
    <3> HIDE DEF S
    <3>4. r \in Seq(S)
      BY <1>7, <3>3, ResolvedChars
    <3> HIDE DEF r
    <3>5. \A i \in 1..n : r[i] \in S
      BY <3>4
    <3>6. \A i \in 1..n : r[i] # Backslash /\ r[i] # Question /\ r[i] # Semicolon
      BY <3>5 DEF S
    <3>7. n + 1 <= Len(x) => x[n + 1] = Semicolon
      <4>1. SUFFICES ASSUME n + 1 <= Len(x) PROVE x[n + 1] = Semicolon
        OBVIOUS
      <4>2. 1 \in 1..Len(d)
        BY <1>10, <4>1
      <4>3. 1 \in 1..Len(body) - (query - 1) /\ query <= Len(body)
        BY <1>2, <1>3, <1>6, <4>2
      <4>4. d[1] = Semicolon
        BY <1>5, <1>6, <3>1, <4>3
      <4> QED BY <1>10, <4>2, <4>4
    <3>8. \A i \in 1..Len(x) : x[i] # Question
      <4> TAKE i \in 1..Len(x)
      <4>1. i \in 1..n \/ (i - n \in 1..Len(d) /\ i = n + (i - n))
        BY <1>10
      <4>2. ASSUME i \in 1..n PROVE x[i] # Question
        BY <1>10, <3>6, <4>2
      <4>3. ASSUME i - n \in 1..Len(d), i = n + (i - n) PROVE x[i] # Question
        <5> DEFINE j == i - n
        <5>1. j \in 1..Len(d) /\ i = n + j
          BY <4>3
        <5> HIDE DEF j
        <5>2. j \in 1..Len(body) - (query - 1) /\ (query - 1) + j \in 1..Len(body)
          BY <1>2, <1>5, <1>6, <5>1, SMTT(30)
        <5>3. x[i] = d[j]
          BY <1>10, <5>1
        <5>4. d[j] = body[(query - 1) + j]
          BY <1>6, <5>2
        <5> QED BY <3>1, <5>2, <5>3, <5>4
      <4> QED BY <4>1, <4>2, <4>3
    <3>9. Question \notin Range(x)
      BY <1>10, <3>8, InRange
    <3>10. (n + 1) - 1 = n
      BY <1>10
    <3>11. AtSemicolon(x, n + 1)
      BY <1>10, <3>6, <3>7, <3>9, <3>10 DEF AtSemicolon
    <3> QED BY <3>6, <3>11
  <2> QED BY <1>3, <2>1, <2>2
<1> HIDE DEF r, n
<1>12. QueryStart(x) = n + 1
  BY <1>10, <1>11, QueryWhen
<1>13. replace_slash(x) = x
  <2>1. \A i \in 1..Len(x) : (IF x[i] = Backslash /\ i < QueryStart(x) THEN Slash ELSE x[i]) = x[i]
    <3> TAKE i \in 1..Len(x)
    <3>1. i < n + 1 => i \in 1..n
      BY <1>10
    <3> QED BY <1>10, <1>11, <1>12, <3>1
  <2>2. x = [i \in 1..Len(x) |-> x[i]]
    BY <1>10
  <2> QED BY <2>1, <2>2 DEF replace_slash
<1>14. normalize_path(x) = ResolvedPath(Take((n + 1) - 1, x)) \o Drop((n + 1) - 1, x)
  BY <1>1, <1>12, <1>13, NormalizePathIs
<1>15. (n + 1) - 1 = n
  BY <1>10
<1>16. normalize_path(x) = r \o d
  BY <1>8, <1>10, <1>14, <1>15
<1> QED BY <1>1, <1>16 DEF x

(***************************************************************************)
(* The spelling of a spelling.                                             *)
(***************************************************************************)
LEMMA NormalizePortSame ==
  ASSUME NEW port, IsPort(port)
  PROVE  normalize_port(port) = [ok |-> TRUE, text |-> port]
<1>1. CASE port = <<>>
  BY <1>1 DEF normalize_port, Text
<1>2. CASE port # <<>>
  <2>1. /\ port \in Seq(URL_DIGIT) /\ port \in Seq(Char) /\ Len(port) \in Nat \ {0} /\ Len(port) <= 5
        /\ port[1] # Zero /\ atoi(port) \in PortNumber \ {80}
    <3>1. port \in Seq(Char) /\ Len(port) \in Nat
      BY PortIs
    <3>2. /\ port \in Seq(URL_DIGIT) /\ Len(port) <= 5
          /\ port[1] # Zero /\ atoi(port) \in PortNumber \ {80}
      BY <1>2 DEF IsPort
    <3>3. Len(port) # 0
      BY <1>2, <3>1
    <3> QED BY <3>1, <3>2, <3>3
  <2>2. Range(port) \subseteq URL_DIGIT
    BY <2>1 DEF Range
  <2>3. Skip(1, {Zero}, port) = 1
    <3>1. 1 \in 1..Len(port) + 1 /\ port[1] \notin {Zero} /\ \A j \in 1..1 - 1 : port[j] \in {Zero}
      BY <2>1
    <3> QED BY <2>1, <3>1, SkipWhen
  <2>4. Drop(Skip(1, {Zero}, port) - 1, port) = port
    <3>1. Drop(1 - 1, port) = port
      BY <2>1 DEF Drop
    <3> QED BY <2>3, <3>1
  <2>5. port # HttpPort
    BY <2>1, HttpPortIs
  <2>6. atoi(port) \in PortNumber
    BY <2>1
  <2> QED BY <1>2, <2>1, <2>2, <2>4, <2>5, <2>6 DEF normalize_port, Text
<1> QED BY <1>1, <1>2

LEMMA NormalPathStable ==
  ASSUME NEW url \in Seq(Char), MeantWell(url)
  PROVE  NormalPath(url) \in Stables /\ normalize_path(NormalPath(url)) = NormalPath(url)
<1> DEFINE parts == parse_url(url, TRUE)
           path == single_path_nointer(parts.path)
<1>1. Fits(url) /\ WellFormed(url) /\ Normal(url).ok
  BY DEF MeantWell, Fits, Room
<1>2. parts.ok /\ path.ok
  BY <1>1, NormalizeIs
<1>3. IsParts(parts)
  BY <1>2, ParseIs
<1>4. Formed(parts.path, {0})
  BY <1>1, <1>2, PathFormed
<1> HIDE DEF parts
<1>5. parts.path \in Seq(Char) /\ parts.path # <<>> /\ parts.path[1] = Slash
  BY <1>3 DEF IsParts
<1>6. path.text \in Path /\ path.text \in Stables
  BY <1>2, <1>4, <1>5, SinglePathType, SinglePathStable
<1>7. NormalPath(url) = normalize_path(path.text)
  BY DEF NormalPath, parts
<1> HIDE DEF path
<1> QED BY <1>6, <1>7, NormalizePathStable, NormalizePathSame

LEMMA NormalText ==
  ASSUME NEW url \in Seq(Char), Fits(url)
  PROVE  Normal(url) = Text(Normal(url).text)
<1>1. Normal(url).ok
  BY NormalParted
<1>2. Normal(url) = Failed \/ \E t : Normal(url) = Text(t)
  BY DEF Normal, normalize_url, NormalParts, Printed
<1>3. ~Failed.ok
  BY DEF Failed
<1>4. PICK t : Normal(url) = Text(t)
  BY <1>1, <1>2, <1>3
<1>5. Text(t).text = t
  BY DEF Text
<1>6. Normal(url).text = t
  BY <1>4, <1>5
<1> QED BY <1>4, <1>6

LEMMA SpellingsAreNormal ==
  ASSUME NEW url \in Seq(Char), MeantWell(url)
  PROVE  Normal(Spelled(url)) = Normal(url)
<1> DEFINE s == NormalSite(url)
           p == NormalPort(url)
           q == NormalPath(url)
           t == Normal(url).text
           colon == IF p = <<>> THEN <<>> ELSE <<Colon>>
<1>1. Fits(url)
  BY DEF MeantWell
<1>2. /\ IsSite(s) /\ IsPort(p) /\ q \in Path /\ Len(q) < MAX_PATH_LEN
      /\ t = s \o colon \o p \o q /\ Len(t) + 7 < MAX_URL_LEN
  BY <1>1, NormalParted DEF ColonOf
<1>3. parse_url(Spelled(url), TRUE) = [ok |-> TRUE, site |-> s, port |-> p, path |-> q]
  BY <1>1, SpelledParses
<1>4. q \in Stables /\ normalize_path(q) = q
  BY NormalPathStable
<1> HIDE DEF s, p, q, t
<1>5. Normal(url) = Text(t)
  <2>1. Normal(url) = Text(Normal(url).text)
    BY <1>1, NormalText
  <2> QED BY <2>1 DEF t
<1>6. /\ normalize_site(s) = [ok |-> TRUE, text |-> s]
      /\ normalize_port(p) = [ok |-> TRUE, text |-> p]
      /\ single_path_nointer(q) = [ok |-> TRUE, text |-> q]
  BY <1>2, <1>4, NormalizeSiteSame, NormalizePortSame, StableSame DEF Text
<1>7. Normal(Spelled(url)) = NormalParts([ok |-> TRUE, site |-> s, port |-> p, path |-> q], MAX_URL_LEN)
  BY <1>3 DEF Normal, normalize_url
<1>8. NormalParts([ok |-> TRUE, site |-> s, port |-> p, path |-> q], MAX_URL_LEN)
        = Printed(MAX_URL_LEN, [ok |-> TRUE, text |-> s], [ok |-> TRUE, text |-> p], [ok |-> TRUE, text |-> q])
  BY <1>6 DEF NormalParts
<1>9. Printed(MAX_URL_LEN, [ok |-> TRUE, text |-> s], [ok |-> TRUE, text |-> p], [ok |-> TRUE, text |-> q])
        = Text(Fit(MAX_URL_LEN, s \o colon \o p \o normalize_path(q)))
  BY DEF Printed
<1>10. Fit(MAX_URL_LEN, t) = t
  <2>1. t \in Seq(Char)
    <3>1. s \in Seq(Char) /\ p \in Seq(Char) /\ q \in Seq(Char) /\ colon \in Seq(Char)
      BY <1>2, SiteIs, PortIs, PathIs, PortChars
    <3> HIDE DEF colon
    <3> QED BY <1>2, <3>1
  <2>2. Len(t) < MAX_URL_LEN
    <3>1. Len(t) \in Nat /\ MAX_URL_LEN \in Nat
      BY <2>1, BufferAssumption
    <3> QED BY <1>2, <3>1
  <2> QED BY <2>2 DEF Fit
<1> HIDE DEF colon
<1> QED BY <1>2, <1>4, <1>5, <1>7, <1>8, <1>9, <1>10

LEMMA StableFromInv == LinkInv => SignsAreStable
<1> SUFFICES ASSUME LinkInv, Asked(href) PROVE SignsAreStable
  BY DEF SignsAreStable
<1> DEFINE target == Target(href)
<1>1. target \in Seq(Char)
  <2>1. Host(page) \in Seq(Char)
    BY HostType DEF LinkInv
  <2>2. Trim(href) \in Seq(Char)
    BY TrimType DEF LinkInv
  <2> QED BY <2>1, <2>2, ResolvedType DEF Target
<1>2. MeantWell(target)
  BY DEF Asked
<1> HIDE DEF target
<1>3. Normal(Spelled(target)) = Normal(target) /\ Normal(target).ok
  BY <1>1, <1>2, SpellingsAreNormal, NormalParted DEF MeantWell
<1>4. get_url_sign64(Spelled(target)) = get_url_sign64(target)
  BY <1>3 DEF get_url_sign64, SignOf, Normal
<1> QED BY <1>4 DEF SignsAreStable, target

\* A URL whose percent signs begin escapes and whose spelling fits the buffers is
\* spelled as its spelling is: normalising again undoes no escape that was kept,
\* resolves nothing and finds its query where it was.  So a URL has one sign, whether it
\* is computed of the link as the page held it, by dumpOneLink, or of the URL under which
\* it was crawled, by dumpCrawlState.
THEOREM SignsAreStableAlways == LinkSpec => []SignsAreStable
BY LinksAreText, StableFromInv, PTL

(***************************************************************************)
(* The extractor's threads.                                                *)
(*                                                                         *)
(* Order is proved of the whole pipeline as one increasing sequence: the   *)
(* lemmas say when a concatenation increases, so that a step has only to   *)
(* compare the pages of the places it takes one from and puts one to.      *)
(***************************************************************************)
USE ViewAssumption

(***************************************************************************)
(* Sequences of pages.                                                     *)
(***************************************************************************)
PagesIn(s) == {s[i] : i \in DOMAIN s}
Increasing(s) == \A i, j \in DOMAIN s : i < j => s[i] < s[j]
Below(S, T) == \A x \in S, y \in T : x < y

LEMMA EmptyFacts == <<>> \in Seq(Pages) /\ PagesIn(<<>>) = {} /\ Increasing(<<>>)
BY DEF PagesIn, Increasing

LEMMA OneFacts ==
  ASSUME NEW p \in Pages
  PROVE  <<p>> \in Seq(Pages) /\ PagesIn(<<p>>) = {p} /\ Increasing(<<p>>)
<1>1. <<p>> \in Seq(Pages) /\ DOMAIN <<p>> = {1} /\ <<p>>[1] = p
  OBVIOUS
<1> QED BY <1>1 DEF PagesIn, Increasing

LEMMA ConcatFacts ==
  ASSUME NEW s \in Seq(Pages), NEW t \in Seq(Pages)
  PROVE  /\ s \o t \in Seq(Pages)
         /\ PagesIn(s \o t) = PagesIn(s) \union PagesIn(t)
         /\ Increasing(s \o t) <=>
              Increasing(s) /\ Increasing(t) /\ Below(PagesIn(s), PagesIn(t))
<1> DEFINE m == Len(s)
           n == Len(t)
           st == s \o t
<1>1. m \in Nat /\ n \in Nat /\ DOMAIN s = 1..m /\ DOMAIN t = 1..n
  OBVIOUS
<1>2. /\ st \in Seq(Pages) /\ DOMAIN st = 1..m + n
      /\ \A i \in 1..m : st[i] = s[i]
      /\ \A i \in 1..n : st[m + i] = t[i]
  <2>1. st \in Seq(Pages) /\ Len(st) = m + n
        /\ \A i \in 1..Len(st) : st[i] = IF i <= m THEN s[i] ELSE t[i - m]
    BY ConcatProperties
  <2>2. DOMAIN st = 1..m + n
    BY <2>1
  <2>3. ASSUME NEW i \in 1..m PROVE st[i] = s[i]
    BY <2>1, <1>1
  <2>4. ASSUME NEW i \in 1..n PROVE st[m + i] = t[i]
    <3>1. m + i \in 1..Len(st) /\ ~(m + i <= m) /\ (m + i) - m = i
      BY <2>1, <1>1
    <3> QED BY <2>1, <3>1
  <2> QED BY <2>1, <2>2, <2>3, <2>4
<1> HIDE DEF m, n, st
<1>3. PagesIn(st) = PagesIn(s) \union PagesIn(t)
  <2>1. ASSUME NEW i \in DOMAIN st PROVE st[i] \in PagesIn(s) \union PagesIn(t)
    <3>1. i \in 1..m \/ (i - m \in 1..n /\ i = m + (i - m))
      BY <1>1, <1>2
    <3> QED BY <3>1, <1>1, <1>2 DEF PagesIn
  <2>2. ASSUME NEW i \in DOMAIN s PROVE s[i] \in PagesIn(st)
    <3>1. i \in DOMAIN st /\ st[i] = s[i] BY <1>1, <1>2
    <3> QED BY <3>1 DEF PagesIn
  <2>3. ASSUME NEW i \in DOMAIN t PROVE t[i] \in PagesIn(st)
    <3>1. m + i \in DOMAIN st /\ st[m + i] = t[i] BY <1>1, <1>2
    <3> QED BY <3>1 DEF PagesIn
  <2> QED BY <2>1, <2>2, <2>3 DEF PagesIn
<1>4. ASSUME Increasing(st)
      PROVE  Increasing(s) /\ Increasing(t) /\ Below(PagesIn(s), PagesIn(t))
  <2>1. Increasing(s)
    BY <1>4, <1>1, <1>2 DEF Increasing
  <2>2. ASSUME NEW i \in DOMAIN t, NEW j \in DOMAIN t, i < j PROVE t[i] < t[j]
    <3>1. m + i \in DOMAIN st /\ m + j \in DOMAIN st /\ m + i < m + j
      BY <2>2, <1>1, <1>2
    <3> QED BY <3>1, <1>4, <1>1, <1>2 DEF Increasing
  <2>3. ASSUME NEW i \in DOMAIN s, NEW j \in DOMAIN t PROVE s[i] < t[j]
    <3>1. i \in DOMAIN st /\ m + j \in DOMAIN st /\ i < m + j
      BY <1>1, <1>2
    <3> QED BY <3>1, <1>4, <1>1, <1>2 DEF Increasing
  <2> QED BY <2>1, <2>2, <2>3 DEF Increasing, Below, PagesIn
<1>5. ASSUME Increasing(s), Increasing(t), Below(PagesIn(s), PagesIn(t)),
             NEW i \in DOMAIN st, NEW j \in DOMAIN st, i < j
      PROVE  st[i] < st[j]
  <2>1. CASE j \in 1..m
    <3>1. i \in 1..m BY <2>1, <1>5, <1>1, <1>2
    <3> QED BY <3>1, <2>1, <1>5, <1>1, <1>2 DEF Increasing
  <2>2. CASE j \notin 1..m /\ i \in 1..m
    <3>1. j - m \in 1..n /\ j = m + (j - m) BY <2>2, <1>1, <1>2
    <3>2. st[j] = t[j - m] /\ st[i] = s[i] BY <3>1, <2>2, <1>2
    <3> QED BY <3>1, <3>2, <2>2, <1>5, <1>1 DEF Below, PagesIn
  <2>3. CASE j \notin 1..m /\ i \notin 1..m
    <3>1. /\ j - m \in 1..n /\ j = m + (j - m)
          /\ i - m \in 1..n /\ i = m + (i - m) /\ i - m < j - m
      BY <2>3, <1>5, <1>1, <1>2
    <3>2. st[j] = t[j - m] /\ st[i] = t[i - m] BY <3>1, <1>2
    <3> QED BY <3>1, <3>2, <1>5, <1>1 DEF Increasing
  <2> QED BY <2>1, <2>2, <2>3
<1>6. Increasing(st) <=>
        Increasing(s) /\ Increasing(t) /\ Below(PagesIn(s), PagesIn(t))
  BY <1>4, <1>5 DEF Increasing
<1> QED BY <1>2, <1>3, <1>6 DEF st

LEMMA AppendFacts ==
  ASSUME NEW s \in Seq(Pages), NEW p \in Pages
  PROVE  /\ Append(s, p) \in Seq(Pages) /\ Len(Append(s, p)) = Len(s) + 1
         /\ PagesIn(Append(s, p)) = PagesIn(s) \union {p}
         /\ Increasing(Append(s, p)) <=> Increasing(s) /\ Below(PagesIn(s), {p})
<1>1. Append(s, p) = s \o <<p>>
  BY AppendIsConcat
<1>2. Len(Append(s, p)) = Len(s) + 1
  BY AppendProperties
<1> DEFINE o == <<p>>
<1>3. o \in Seq(Pages) /\ PagesIn(o) = {p} /\ Increasing(o)
  BY OneFacts
<1>4. Append(s, p) = s \o o
  BY <1>1
<1> HIDE DEF o
<1>5. /\ s \o o \in Seq(Pages)
      /\ PagesIn(s \o o) = PagesIn(s) \union PagesIn(o)
      /\ Increasing(s \o o) <=> Increasing(s) /\ Increasing(o) /\ Below(PagesIn(s), PagesIn(o))
  BY <1>3, ConcatFacts
<1> QED BY <1>2, <1>3, <1>4, <1>5

LEMMA FirstOutFacts ==
  ASSUME NEW s \in Seq(Pages), s # <<>>
  PROVE  /\ Head(s) \in Pages /\ Tail(s) \in Seq(Pages) /\ Len(Tail(s)) = Len(s) - 1
         /\ PagesIn(s) = {Head(s)} \union PagesIn(Tail(s))
         /\ Increasing(s) <=> Increasing(Tail(s)) /\ Below({Head(s)}, PagesIn(Tail(s)))
<1>1. Head(s) \in Pages /\ Tail(s) \in Seq(Pages) /\ Len(Tail(s)) = Len(s) - 1
      /\ Len(s) \in Nat /\ Len(s) >= 1
      /\ \A i \in 1..Len(Tail(s)) : Tail(s)[i] = s[i + 1]
  BY HeadTailProperties, EmptySeq
<1> DEFINE u == <<Head(s)>> \o Tail(s)
<1>2. u \in Seq(Pages) /\ Len(u) = 1 + Len(Tail(s))
      /\ \A i \in 1..Len(u) : u[i] = IF i <= 1 THEN Head(s) ELSE Tail(s)[i - 1]
  BY <1>1, ConcatProperties, OneFacts, Len(<<Head(s)>>) = 1, <<Head(s)>>[1] = Head(s)
<1>3. ASSUME NEW i \in 1..Len(s) PROVE u[i] = s[i]
  <2>1. CASE i = 1 BY <2>1, <1>1, <1>2, Head(s) = s[1]
  <2>2. CASE i # 1
    <3>1. i - 1 \in 1..Len(Tail(s)) /\ (i - 1) + 1 = i BY <2>2, <1>1
    <3> QED BY <3>1, <2>2, <1>1, <1>2
  <2> QED BY <2>1, <2>2
<1>4. s = u
  <2>1. Len(s) = Len(u) BY <1>1, <1>2
  <2> QED BY <2>1, <1>2, <1>3, SeqEqual
<1>5. Head(s) \in Pages /\ Tail(s) \in Seq(Pages) /\ Len(Tail(s)) = Len(s) - 1
  BY <1>1
<1> DEFINE o == <<Head(s)>>
           r == Tail(s)
<1>6. o \in Seq(Pages) /\ PagesIn(o) = {Head(s)} /\ Increasing(o) /\ r \in Seq(Pages) /\ s = o \o r
  BY <1>4, <1>5, OneFacts
<1> HIDE DEF o, u, r
<1>7. /\ PagesIn(o \o r) = PagesIn(o) \union PagesIn(r)
      /\ Increasing(o \o r) <=> Increasing(o) /\ Increasing(r) /\ Below(PagesIn(o), PagesIn(r))
  BY <1>6, ConcatFacts
<1>8. /\ PagesIn(s) = {Head(s)} \union PagesIn(r)
      /\ Increasing(s) <=> Increasing(r) /\ Below({Head(s)}, PagesIn(r))
  BY <1>6, <1>7
<1> QED BY <1>5, <1>8 DEF r

(***************************************************************************)
(* The invariant.                                                          *)
(***************************************************************************)
\* The places of the pipeline, front first, hold increasing pages, all of a place
\* before all of the places behind it.
PlacesOK ==
  /\ deleted \subseteq 1..pushed
  /\ Increasing(mysqlQueue) /\ Increasing(mongoHand) /\ Increasing(mongoQueue)
  /\ Increasing(Current) /\ Increasing(waitExtractQueue)
  /\ Below(PagesIn(mysqlQueue), PagesIn(mongoHand)) /\ Below(PagesIn(mysqlQueue), PagesIn(mongoQueue))
  /\ Below(PagesIn(mysqlQueue), PagesIn(Current)) /\ Below(PagesIn(mysqlQueue), PagesIn(waitExtractQueue))
  /\ Below(PagesIn(mongoHand), PagesIn(mongoQueue)) /\ Below(PagesIn(mongoHand), PagesIn(Current))
  /\ Below(PagesIn(mongoHand), PagesIn(waitExtractQueue))
  /\ Below(PagesIn(mongoQueue), PagesIn(Current)) /\ Below(PagesIn(mongoQueue), PagesIn(waitExtractQueue))
  /\ Below(PagesIn(Current), PagesIn(waitExtractQueue))
  /\ PagesIn(mysqlQueue) \union PagesIn(mongoHand) \union PagesIn(mongoQueue)
       \union PagesIn(Current) \union PagesIn(waitExtractQueue) = (1..pushed) \ deleted

\* The page in the view is one.
ViewOK == place = "view" => urlContext \in Pages

IInv == TypeOK /\ ViewOK /\ PlacesOK /\ TimersExplained

LEMMA CurrentFacts ==
  ASSUME TypeOK, ViewOK
  PROVE  /\ Current \in Seq(Pages) /\ Increasing(Current)
         /\ PagesIn(Current) = IF place = "view" THEN {urlContext} ELSE {}
<1>1. CASE place = "view"
  <2>1. urlContext \in Pages
    BY <1>1 DEF ViewOK
  <2> QED BY <2>1, <1>1, OneFacts DEF Current
<1>2. CASE place # "view"
  BY <1>2, EmptyFacts DEF Current
<1> QED BY <1>1, <1>2

LEMMA HandFacts ==
  ASSUME TypeOK, mongoHand # <<>>
  PROVE  mongoHand[1] \in Pages /\ mongoHand = <<mongoHand[1]>> /\ PagesIn(mongoHand) = {mongoHand[1]}
<1>1. PICK p \in Pages : mongoHand = <<p>>
  BY DEF TypeOK
<1> QED BY <1>1, OneFacts

LEMMA HandType ==
  ASSUME TypeOK
  PROVE  mongoHand \in Seq(Pages)
<1>1. CASE mongoHand = <<>> BY <1>1, EmptyFacts
<1>2. CASE mongoHand # <<>>
  <2>1. mongoHand[1] \in Pages /\ mongoHand = <<mongoHand[1]>> BY <1>2, HandFacts
  <2>2. <<mongoHand[1]>> \in Seq(Pages) BY <2>1, OneFacts
  <2> QED BY <2>1, <2>2
<1> QED BY <1>1, <1>2

\* The pipeline as a whole.
LEMMA PlacesInOrder ==
  ASSUME TypeOK, ViewOK, PlacesOK
  PROVE  OneInOrder
<1> DEFINE a == mysqlQueue
           b == mongoHand
           c == mongoQueue
           d == Current
           e == waitExtractQueue
           ab == a \o b
           abc == ab \o c
           abcd == abc \o d
<1>0. a \in Seq(Pages) /\ b \in Seq(Pages) /\ c \in Seq(Pages) /\ d \in Seq(Pages) /\ e \in Seq(Pages)
  BY HandType, CurrentFacts DEF TypeOK
<1>p. Pipeline = abcd \o e
  BY DEF Pipeline
<1>i. /\ Increasing(a) /\ Increasing(b) /\ Increasing(c) /\ Increasing(d) /\ Increasing(e)
      /\ Below(PagesIn(a), PagesIn(b)) /\ Below(PagesIn(a), PagesIn(c)) /\ Below(PagesIn(a), PagesIn(d))
      /\ Below(PagesIn(a), PagesIn(e)) /\ Below(PagesIn(b), PagesIn(c)) /\ Below(PagesIn(b), PagesIn(d))
      /\ Below(PagesIn(b), PagesIn(e)) /\ Below(PagesIn(c), PagesIn(d)) /\ Below(PagesIn(c), PagesIn(e))
      /\ Below(PagesIn(d), PagesIn(e))
      /\ PagesIn(a) \union PagesIn(b) \union PagesIn(c) \union PagesIn(d) \union PagesIn(e)
           = (1..pushed) \ deleted
  BY DEF PlacesOK
<1>u. \A S, T, U : Below(S \union T, U) <=> Below(S, U) /\ Below(T, U)
  BY DEF Below
<1> HIDE DEF a, b, c, d, e
<1>1. ab \in Seq(Pages) /\ PagesIn(ab) = PagesIn(a) \union PagesIn(b) /\ Increasing(ab)
  BY <1>0, <1>i, ConcatFacts
<1> HIDE DEF ab
<1>2. abc \in Seq(Pages) /\ PagesIn(abc) = PagesIn(ab) \union PagesIn(c) /\ Increasing(abc)
  <2>1. Below(PagesIn(ab), PagesIn(c)) BY <1>1, <1>i, <1>u
  <2> QED BY <2>1, <1>0, <1>1, <1>i, ConcatFacts
<1> HIDE DEF abc
<1>3. abcd \in Seq(Pages) /\ PagesIn(abcd) = PagesIn(abc) \union PagesIn(d) /\ Increasing(abcd)
  <2>1. Below(PagesIn(abc), PagesIn(d)) BY <1>1, <1>2, <1>i, <1>u, ZenonT(60)
  <2> QED BY <2>1, <1>0, <1>2, <1>i, ConcatFacts
<1> HIDE DEF abcd
<1>4. PagesIn(abcd \o e) = PagesIn(abcd) \union PagesIn(e) /\ Increasing(abcd \o e)
  <2>1. Below(PagesIn(abcd), PagesIn(e))
    <3>1. Below(PagesIn(ab), PagesIn(e)) BY <1>1, <1>i, <1>u
    <3>2. Below(PagesIn(abc), PagesIn(e)) BY <3>1, <1>2, <1>i, <1>u
    <3> QED BY <3>2, <1>3, <1>i, <1>u
  <2> QED BY <2>1, <1>0, <1>3, <1>i, ConcatFacts
<1>5. PagesIn(Pipeline) = (1..pushed) \ deleted
  BY <1>p, <1>1, <1>2, <1>3, <1>4, <1>i
<1>6. Increasing(Pipeline)
  BY <1>p, <1>4
<1> QED BY <1>5, <1>6 DEF OneInOrder, PagesIn, Increasing

(***************************************************************************)
(* Timers.                                                                 *)
(***************************************************************************)
LEMMA TimerSet ==
  ASSUME TypeOK
  PROVE  IsFiniteSet(DOMAIN timers) /\ Cardinality(DOMAIN timers) \in Nat
<1>1. IsFiniteSet(1..MaxTimers)
  BY FS_Interval
<1>2. DOMAIN timers \subseteq 1..MaxTimers
  BY DEF TypeOK
<1>3. IsFiniteSet(DOMAIN timers)
  BY <1>1, <1>2, FS_Subset
<1> QED BY <1>3, FS_CardinalityType

LEMMA FreeTimerFacts ==
  ASSUME TypeOK, Cardinality(DOMAIN timers) < MaxTimers
  PROVE  /\ FreeTimer \in 1..MaxTimers /\ FreeTimer \notin DOMAIN timers
         /\ Cardinality(DOMAIN timers \union {FreeTimer}) = Cardinality(DOMAIN timers) + 1
<1>1. \E t \in 1..MaxTimers : t \notin DOMAIN timers
  <2> SUFFICES ASSUME \A t \in 1..MaxTimers : t \in DOMAIN timers PROVE FALSE
    OBVIOUS
  <2>1. DOMAIN timers = 1..MaxTimers
    BY DEF TypeOK
  <2>2. Cardinality(1..MaxTimers) = MaxTimers
    <3>1. 1 \in Int /\ MaxTimers \in Int /\ MaxTimers - 1 + 1 = MaxTimers /\ ~(1 > MaxTimers) BY ViewAssumption
    <3> QED BY <3>1, FS_Interval
  <2> QED BY <2>1, <2>2
<1>2. FreeTimer \in 1..MaxTimers /\ FreeTimer \notin DOMAIN timers
  BY <1>1 DEF FreeTimer
<1> QED BY <1>2, TimerSet, FS_AddElement

\* What startTimer makes of timers that fit.
LEMMA StartTimerFacts ==
  ASSUME TypeOK, Cardinality(DOMAIN timers) < MaxTimers, NEW running,
         DOMAIN running = DOMAIN timers,
         \A t \in DOMAIN running : running[t] \in -Timeout..Timeout,
         StartTimer(running)
  PROVE  /\ timerID' \in 1..MaxTimers /\ timerID' \in DOMAIN timers'
         /\ DOMAIN timers' \subseteq 1..MaxTimers
         /\ \A t \in DOMAIN timers' : timers'[t] \in -Timeout..Timeout
         /\ Cardinality(DOMAIN timers') = Cardinality(DOMAIN timers) + 1
<1> DEFINE f == FreeTimer
<1>1. f \in 1..MaxTimers /\ f \notin DOMAIN timers
      /\ Cardinality(DOMAIN timers \union {f}) = Cardinality(DOMAIN timers) + 1
  BY FreeTimerFacts
<1>2. /\ timerID' = f
      /\ timers' = [t \in DOMAIN timers \union {f} |-> IF t \in DOMAIN timers THEN running[t] ELSE Timeout]
  BY DEF StartTimer
<1> HIDE DEF f
<1>3. DOMAIN timers' = DOMAIN timers \union {f}
  BY <1>2
<1>4. DOMAIN timers \subseteq 1..MaxTimers
  BY DEF TypeOK
<1>5. ASSUME NEW t \in DOMAIN timers' PROVE timers'[t] \in -Timeout..Timeout
  <2>1. Timeout \in -Timeout..Timeout BY ViewAssumption
  <2>2. timers'[t] = IF t \in DOMAIN timers THEN running[t] ELSE Timeout BY <1>2, <1>3
  <2> QED BY <2>1, <2>2
<1> QED BY <1>1, <1>2, <1>3, <1>4, <1>5

(***************************************************************************)
(* Steps.                                                                  *)
(***************************************************************************)
LEMMA PushStep ==
  ASSUME IInv, Push PROVE IInv'
<1> DEFINE n == pushed + 1
<1>1. n \in Pages /\ pushed \in Nat /\ pushed' = n /\ Len(waitExtractQueue) <= MaxQueueSize
  BY DEF IInv, TypeOK, Push, HasRoom, Pages
<1>2. /\ waitExtractQueue' = Append(waitExtractQueue, n)
      /\ waitExtractQueue \in Seq(Pages) /\ UNCHANGED <<view, store>>
  BY <1>1 DEF IInv, TypeOK, Push
<1>3. /\ waitExtractQueue' \in Seq(Pages) /\ Len(waitExtractQueue') = Len(waitExtractQueue) + 1
      /\ PagesIn(waitExtractQueue') = PagesIn(waitExtractQueue) \union {n}
      /\ Increasing(waitExtractQueue') <=> Increasing(waitExtractQueue) /\ Below(PagesIn(waitExtractQueue), {n})
  BY <1>1, <1>2, AppendFacts
<1>4. Len(waitExtractQueue') <= MaxQueueSize + 1
  <2>1. Len(waitExtractQueue) \in Nat BY <1>2
  <2> QED BY <2>1, <1>1, <1>3
<1> HIDE DEF n
<1>5. TypeOK'
  BY <1>1, <1>2, <1>3, <1>4 DEF IInv, TypeOK, view, store, Pages
<1>6. ViewOK' /\ TimersExplained' /\ Current' = Current
  BY <1>2 DEF IInv, ViewOK, TimersExplained, Current, view
<1>7. PlacesOK'
  <2>1. n = pushed + 1
    BY DEF n
  <2> QED BY <2>1, <1>1, <1>2, <1>3, <1>6 DEF IInv, PlacesOK, Below, store
<1> QED BY <1>5, <1>6, <1>7 DEF IInv

LEMMA DoWithOneUrlStep ==
  ASSUME IInv, DoWithOneUrl PROVE IInv'
<1> DEFINE p == Head(waitExtractQueue)
<1>1. /\ place = "pop" /\ place' = "view" /\ urlContext' = p
      /\ waitExtractQueue \in Seq(Pages) /\ waitExtractQueue # <<>>
      /\ waitExtractQueue' = Tail(waitExtractQueue)
      /\ UNCHANGED <<store, pushed, timeouts>> /\ work' \in 1..MaxCost /\ age' = 0
  BY DEF IInv, TypeOK, DoWithOneUrl, SetHtml
<1>2. /\ p \in Pages /\ waitExtractQueue' \in Seq(Pages)
      /\ Len(waitExtractQueue') = Len(waitExtractQueue) - 1
      /\ PagesIn(waitExtractQueue) = {p} \union PagesIn(waitExtractQueue')
      /\ Increasing(waitExtractQueue) <=>
           Increasing(waitExtractQueue') /\ Below({p}, PagesIn(waitExtractQueue'))
  BY <1>1, FirstOutFacts
<1> HIDE DEF p
<1>3. /\ timerID' \in 1..MaxTimers /\ timerID' \in DOMAIN timers'
      /\ DOMAIN timers' \subseteq 1..MaxTimers
      /\ \A t \in DOMAIN timers' : timers'[t] \in -Timeout..Timeout
      /\ Cardinality(DOMAIN timers') = Cardinality(DOMAIN timers) + 1
  <2>1. /\ StartTimer(timers) /\ Cardinality(DOMAIN timers) < MaxTimers /\ TypeOK
        /\ \A t \in DOMAIN timers : timers[t] \in -Timeout..Timeout
    BY DEF IInv, TypeOK, DoWithOneUrl
  <2> QED BY <2>1, StartTimerFacts
<1>4. TypeOK'
  <2>1. Len(waitExtractQueue') <= MaxQueueSize + 1
    <3>1. Len(waitExtractQueue) \in Nat /\ Len(waitExtractQueue) <= MaxQueueSize + 1
      BY <1>1 DEF IInv, TypeOK
    <3> QED BY <3>1, <1>2
  <2> QED BY <2>1, <1>1, <1>2, <1>3 DEF IInv, TypeOK, store
<1>5. ViewOK'
  BY <1>1, <1>2 DEF ViewOK
<1>6. TimersExplained'
  <2>1. Cardinality(DOMAIN timers) = timeouts /\ timeouts \in Nat
    BY <1>1 DEF IInv, TypeOK, TimersExplained
  <2> QED BY <2>1, <1>1, <1>3 DEF TimersExplained
<1>7. PlacesOK'
  <2>1. Increasing(Current') /\ PagesIn(Current') = {p}
    BY <1>1, <1>2, OneFacts DEF Current
  <2>2. PagesIn(Current) = {}
    BY <1>1, CurrentFacts DEF IInv
  <2> QED BY <2>1, <2>2, <1>1, <1>2 DEF IInv, PlacesOK, Below, store
<1> QED BY <1>4, <1>5, <1>6, <1>7 DEF IInv

LEMMA OnLoadFinishStep ==
  ASSUME IInv, OnLoadFinish PROVE IInv'
<1>1. /\ place = "view" /\ place' = "pop" /\ mongoQueue \in Seq(Pages)
      /\ mongoQueue' = Append(mongoQueue, urlContext) /\ urlContext \in Pages
      /\ UNCHANGED <<waitExtractQueue, urlContext, work, timerID, mongoHand, mysqlQueue, pushed,
                     deleted, age, timeouts>>
      /\ timers' = [u \in DOMAIN timers \ {timerID} |-> timers[u]]
  BY DEF IInv, TypeOK, ViewOK, OnLoadFinish, KillTimer
<1>2. /\ mongoQueue' \in Seq(Pages)
      /\ PagesIn(mongoQueue') = PagesIn(mongoQueue) \union {urlContext}
      /\ Increasing(mongoQueue') <=> Increasing(mongoQueue) /\ Below(PagesIn(mongoQueue), {urlContext})
  BY <1>1, AppendFacts
<1>3. TypeOK'
  BY <1>1, <1>2 DEF IInv, TypeOK
<1>4. ViewOK'
  BY <1>1 DEF ViewOK
<1>5. TimersExplained'
  <2>1. timerID \in DOMAIN timers /\ Cardinality(DOMAIN timers) = timeouts + 1 /\ timeouts \in Nat
    BY <1>1 DEF IInv, TypeOK, TimersExplained
  <2>2. IsFiniteSet(DOMAIN timers)
    BY TimerSet DEF IInv
  <2>3. Cardinality(DOMAIN timers \ {timerID}) = Cardinality(DOMAIN timers) - 1
    BY <2>1, <2>2, FS_RemoveElement
  <2>4. DOMAIN timers' = DOMAIN timers \ {timerID}
    BY <1>1
  <2> QED BY <2>1, <2>3, <2>4, <1>1 DEF TimersExplained
<1>6. PlacesOK'
  <2>1. Increasing(Current') /\ PagesIn(Current') = {}
    BY <1>1, EmptyFacts DEF Current
  <2>2. PagesIn(Current) = {urlContext}
    BY <1>1, CurrentFacts DEF IInv
  <2> QED BY <2>1, <2>2, <1>1, <1>2 DEF IInv, PlacesOK, Below
<1> QED BY <1>3, <1>4, <1>5, <1>6 DEF IInv

LEMMA TimerEventStep ==
  ASSUME IInv, NEW t \in 1..MaxTimers, TimerEvent(t) PROVE IInv'
<1> DEFINE running == [timers EXCEPT ![t] = Rearmed(@)]
<1>1. /\ place = "view" /\ Due(t) /\ timeouts' = timeouts + 1
      /\ UNCHANGED <<waitExtractQueue, place, urlContext, store, pushed>>
      /\ work' \in 1..MaxCost /\ age' = 0
      /\ StartTimer(running) /\ Cardinality(DOMAIN timers) < MaxTimers /\ TypeOK
  BY DEF IInv, TimerEvent, SetHtml
<1>2. DOMAIN running = DOMAIN timers
  OBVIOUS
<1>3. \A u \in DOMAIN running : running[u] \in -Timeout..Timeout
  <2> TAKE u \in DOMAIN running
  <2>1. CASE u # t
    BY <2>1, <1>1, <1>2 DEF TypeOK
  <2>2. CASE u = t
    <3>1. timers[t] \in -Timeout..Timeout /\ timers[t] <= 0 /\ running[u] = Rearmed(timers[t])
      BY <2>2, <1>1, <1>2 DEF TypeOK, Due
    <3> HIDE DEF running
    <3> QED BY <3>1 DEF Rearmed
  <2> QED BY <2>1, <2>2
<1> HIDE DEF running
<1>4. /\ timerID' \in 1..MaxTimers /\ timerID' \in DOMAIN timers'
      /\ DOMAIN timers' \subseteq 1..MaxTimers
      /\ \A u \in DOMAIN timers' : timers'[u] \in -Timeout..Timeout
      /\ Cardinality(DOMAIN timers') = Cardinality(DOMAIN timers) + 1
  BY <1>1, <1>2, <1>3, StartTimerFacts
<1>5. Cardinality(DOMAIN timers) = timeouts + 1 /\ timeouts \in Nat
  BY <1>1 DEF IInv, TypeOK, TimersExplained
<1>6. TypeOK'
  BY <1>1, <1>4, <1>5 DEF TypeOK, store
<1>7. ViewOK' /\ TimersExplained'
  BY <1>1, <1>4, <1>5 DEF IInv, ViewOK, TimersExplained
<1>8. PlacesOK'
  <2>1. Current' = Current
    BY <1>1 DEF Current
  <2> QED BY <2>1, <1>1 DEF IInv, PlacesOK, store
<1> QED BY <1>6, <1>7, <1>8 DEF IInv

LEMMA TickStep ==
  ASSUME IInv, Tick PROVE IInv'
<1>1. /\ UNCHANGED <<waitExtractQueue, place, urlContext, timerID, store, pushed, timeouts>>
      /\ timers' = [t \in DOMAIN timers |-> IF timers[t] = -Timeout THEN -Timeout ELSE timers[t] - 1]
  BY DEF Tick
<1>2. DOMAIN timers' = DOMAIN timers
      /\ \A t \in DOMAIN timers : timers'[t] \in -Timeout..Timeout
  BY <1>1 DEF IInv, TypeOK
<1>3. work' \in 0..MaxCost /\ age' \in 0..Timeout
  BY DEF IInv, TypeOK, Tick
<1>4. TypeOK'
  BY <1>1, <1>2, <1>3 DEF IInv, TypeOK, store
<1>5. ViewOK' /\ TimersExplained' /\ Current' = Current
  BY <1>1, <1>2 DEF IInv, ViewOK, TimersExplained, Current
<1>6. PlacesOK'
  BY <1>1, <1>5 DEF IInv, PlacesOK, store
<1> QED BY <1>4, <1>5, <1>6 DEF IInv

LEMMA MongoPopStep ==
  ASSUME IInv, MongoPop PROVE IInv'
<1> DEFINE p == Head(mongoQueue)
<1>1. /\ mongoHand = <<>> /\ mongoQueue # <<>> /\ mongoQueue \in Seq(Pages)
      /\ mongoHand' = <<p>> /\ mongoQueue' = Tail(mongoQueue)
      /\ UNCHANGED <<waitExtractQueue, view, mysqlQueue, deleted, pushed>>
  BY DEF IInv, TypeOK, MongoPop
<1>2. /\ p \in Pages /\ mongoQueue' \in Seq(Pages)
      /\ PagesIn(mongoQueue) = {p} \union PagesIn(mongoQueue')
      /\ Increasing(mongoQueue) <=> Increasing(mongoQueue') /\ Below({p}, PagesIn(mongoQueue'))
  BY <1>1, FirstOutFacts
<1> HIDE DEF p
<1>3. TypeOK'
  BY <1>1, <1>2 DEF IInv, TypeOK, view
<1>4. ViewOK' /\ TimersExplained' /\ Current' = Current
  BY <1>1 DEF IInv, ViewOK, TimersExplained, Current, view
<1>5. PlacesOK'
  <2>1. PagesIn(mongoHand) = {} /\ PagesIn(mongoHand') = {p} /\ Increasing(mongoHand')
    BY <1>1, <1>2, EmptyFacts, OneFacts
  <2> QED BY <2>1, <1>1, <1>2, <1>4 DEF IInv, PlacesOK, Below
<1> QED BY <1>3, <1>4, <1>5 DEF IInv

LEMMA MongoDumpStep ==
  ASSUME IInv, MongoDump PROVE IInv'
<1> DEFINE p == mongoHand[1]
<1>1. /\ mongoHand' = <<>> /\ mongoHand # <<>> /\ mysqlQueue \in Seq(Pages)
      /\ \/ mysqlQueue' = mysqlQueue \o mongoHand /\ deleted' = deleted
         \/ deleted' = deleted \union {p} /\ mysqlQueue' = mysqlQueue
      /\ UNCHANGED <<waitExtractQueue, view, mongoQueue, pushed>>
  BY DEF IInv, TypeOK, MongoDump
<1>2. /\ p \in Pages /\ PagesIn(mongoHand) = {p} /\ mongoHand \in Seq(Pages)
      /\ PagesIn(mongoHand') = {} /\ Increasing(mongoHand')
  BY <1>1, HandFacts, HandType, EmptyFacts DEF IInv
<1> HIDE DEF p
<1>3. /\ mysqlQueue \o mongoHand \in Seq(Pages)
      /\ PagesIn(mysqlQueue \o mongoHand) = PagesIn(mysqlQueue) \union {p}
      /\ Increasing(mysqlQueue) /\ Increasing(mongoHand) /\ Below(PagesIn(mysqlQueue), {p})
           => Increasing(mysqlQueue \o mongoHand)
  <2>1. /\ mysqlQueue \o mongoHand \in Seq(Pages)
        /\ PagesIn(mysqlQueue \o mongoHand) = PagesIn(mysqlQueue) \union PagesIn(mongoHand)
        /\ Increasing(mysqlQueue \o mongoHand) <=>
             /\ Increasing(mysqlQueue) /\ Increasing(mongoHand)
             /\ Below(PagesIn(mysqlQueue), PagesIn(mongoHand))
    BY <1>1, <1>2, ConcatFacts
  <2> QED BY <2>1, <1>2
<1>4. TypeOK'
  BY <1>1, <1>2, <1>3 DEF IInv, TypeOK, view
<1>5. ViewOK' /\ TimersExplained' /\ Current' = Current
  BY <1>1 DEF IInv, ViewOK, TimersExplained, Current, view
<1>6. PlacesOK'
  <2>1. CASE mysqlQueue' = mysqlQueue \o mongoHand /\ deleted' = deleted
    BY <2>1, <1>1, <1>2, <1>3, <1>5 DEF IInv, PlacesOK, Below
  <2>2. CASE deleted' = deleted \union {p} /\ mysqlQueue' = mysqlQueue
    <3>1. deleted' \subseteq 1..pushed'
      BY <2>2, <1>1, <1>2 DEF IInv, PlacesOK
    <3> QED BY <3>1, <2>2, <1>1, <1>2, <1>5 DEF IInv, PlacesOK, Below, Pages
  <2> QED BY <2>1, <2>2, <1>1
<1> QED BY <1>4, <1>5, <1>6 DEF IInv

LEMMA MySqlDumpStep ==
  ASSUME IInv, MySqlDump PROVE IInv'
<1> DEFINE p == Head(mysqlQueue)
<1>1. /\ mysqlQueue # <<>> /\ mysqlQueue \in Seq(Pages)
      /\ mysqlQueue' = Tail(mysqlQueue) /\ deleted' = deleted \union {p}
      /\ UNCHANGED <<waitExtractQueue, view, mongoQueue, mongoHand, pushed>>
  BY DEF IInv, TypeOK, MySqlDump
<1>2. /\ p \in Pages /\ mysqlQueue' \in Seq(Pages)
      /\ PagesIn(mysqlQueue) = {p} \union PagesIn(mysqlQueue')
      /\ Increasing(mysqlQueue) <=> Increasing(mysqlQueue') /\ Below({p}, PagesIn(mysqlQueue'))
  BY <1>1, FirstOutFacts
<1> HIDE DEF p
<1>3. TypeOK'
  BY <1>1, <1>2 DEF IInv, TypeOK, view
<1>4. ViewOK' /\ TimersExplained' /\ Current' = Current
  BY <1>1 DEF IInv, ViewOK, TimersExplained, Current, view
<1>5. PlacesOK'
  <2>1. deleted' \subseteq 1..pushed'
    BY <1>1, <1>2 DEF IInv, PlacesOK
  <2> DEFINE rest == PagesIn(mongoHand) \union PagesIn(mongoQueue) \union PagesIn(Current)
                       \union PagesIn(waitExtractQueue)
  <2>2. Below({p}, PagesIn(mysqlQueue') \union rest) /\ p \in Int
    <3>1. p \in PagesIn(mysqlQueue) /\ p \in Int
      BY <1>2 DEF Pages
    <3>2. Below({p}, PagesIn(mysqlQueue'))
      BY <1>2 DEF IInv, PlacesOK
    <3>3. Below({p}, rest)
      BY <3>1 DEF IInv, PlacesOK, Below
    <3> QED BY <3>1, <3>2, <3>3 DEF Below
  <2>3. p \notin PagesIn(mysqlQueue') \union rest
    BY <2>2 DEF Below
  <2>4. PagesIn(mysqlQueue) \union rest = (1..pushed) \ deleted
    BY DEF IInv, PlacesOK
  <2>5. PagesIn(mysqlQueue') \union rest = (1..pushed) \ deleted'
    BY <2>3, <2>4, <1>1, <1>2
  <2>6. PagesIn(mysqlQueue') \union PagesIn(mongoHand') \union PagesIn(mongoQueue')
          \union PagesIn(Current') \union PagesIn(waitExtractQueue') = (1..pushed') \ deleted'
    BY <2>5, <1>1, <1>4
  <2>7. Increasing(mysqlQueue') /\ \A S : Below(PagesIn(mysqlQueue), S) => Below(PagesIn(mysqlQueue'), S)
    BY <1>2 DEF IInv, PlacesOK, Below
  <2> HIDE DEF rest
  <2> QED BY <2>1, <2>6, <2>7, <1>1, <1>4 DEF IInv, PlacesOK
<1> QED BY <1>3, <1>4, <1>5 DEF IInv

(***************************************************************************)
(* Theorems.                                                               *)
(***************************************************************************)
LEMMA InitInv == Init => IInv
<1> SUFFICES ASSUME Init PROVE IInv
  OBVIOUS
<1>1. TypeOK
  <2>1. DOMAIN timers = {} /\ Len(waitExtractQueue) = 0
    BY DEF Init
  <2> QED BY <2>1, EmptyFacts DEF Init, TypeOK
<1>2. ViewOK
  BY DEF Init, ViewOK
<1>3. TimersExplained
  <2>1. DOMAIN timers = {}
    BY DEF Init
  <2> QED BY <2>1, FS_EmptySet DEF Init, TimersExplained
<1>4. PlacesOK
  <2>1. Current = <<>> BY DEF Init, Current
  <2> QED BY <2>1, EmptyFacts DEF Init, PlacesOK, Below
<1> QED BY <1>1, <1>2, <1>3, <1>4 DEF IInv

LEMMA StepInv == IInv /\ [Next]_vars => IInv'
<1> SUFFICES ASSUME IInv, [Next]_vars PROVE IInv'
  OBVIOUS
<1>1. CASE UNCHANGED vars
  BY <1>1 DEF vars, IInv, TypeOK, ViewOK, PlacesOK, TimersExplained, Current
<1>2. CASE Push BY <1>2, PushStep
<1>3. CASE DoWithOneUrl BY <1>3, DoWithOneUrlStep
<1>4. CASE OnLoadFinish BY <1>4, OnLoadFinishStep
<1>5. CASE \E t \in 1..MaxTimers : TimerEvent(t)
  BY <1>5, TimerEventStep
<1>6. CASE Tick BY <1>6, TickStep
<1>7. CASE MongoPop BY <1>7, MongoPopStep
<1>8. CASE MongoDump BY <1>8, MongoDumpStep
<1>9. CASE MySqlDump BY <1>9, MySqlDumpStep
<1> QED
  BY <1>1, <1>2, <1>3, <1>4, <1>5, <1>6, <1>7, <1>8, <1>9 DEF Next, MainThread

\* The places of a page, the timers and the types fit together in every reachable state.
THEOREM Invariance == Spec => []IInv
<1>1. Init => IInv BY InitInv
<1>2. IInv /\ [Next]_vars => IInv' BY StepInv
<1> QED BY <1>1, <1>2, PTL DEF Spec

\* Variables keep their types.
THEOREM TypeCorrect == Spec => []TypeOK
<1>1. IInv => TypeOK BY DEF IInv
<1> QED BY <1>1, Invariance, PTL

\* However often pages are loaded anew, each context is at one place, and they keep
\* their order.
THEOREM InOrder == Spec => []OneInOrder
<1>1. IInv => OneInOrder BY PlacesInOrder DEF IInv
<1> QED BY <1>1, Invariance, PTL

\* Every timer event leaves one more timer behind, for ever.
THEOREM TimersAlwaysExplained == Spec => []TimersExplained
<1>1. IInv => TimersExplained BY DEF IInv
<1> QED BY <1>1, Invariance, PTL
=============================================================================
