-------------------------- MODULE DoubleListProofs --------------------------
(***************************************************************************)
(* Theorems about DoubleList for any number of elements, lists and keys.   *)
(*                                                                         *)
(* The inductive invariant says that there are sequences ls, one for each  *)
(* head, that the links represent: the ring of a head goes through the     *)
(* elements of its sequence, no element is twice in them, and one that is  *)
(* in none is linked to itself.  Every primitive of link.h turns links     *)
(* that represent some sequences into links that represent the sequences   *)
(* changed accordingly; a call is one or two primitives.  By induction the *)
(* walk along the links (Contents) finds the sequences themselves, hence   *)
(* the refinement and the properties that are stated with Contents.        *)
(***************************************************************************)
EXTENDS DoubleList, TLAPS, SequenceTheorems, WellFoundedInduction

USE NodesAssumption

(***************************************************************************)
(* Natural numbers and sequences.                                          *)
(***************************************************************************)
Less == {ij \in Nat \X Nat : ij[1] < ij[2]}

\* A set of natural numbers has a least one: the form of induction used here.
LEMMA LeastNumber ==
  ASSUME NEW T, T \subseteq Nat, T # {}
  PROVE  \E m \in T : \A n \in T : m <= n
<1>1. OpToRel(<, Nat) = Less
  BY DEF OpToRel, Less
<1>2. IsWellFoundedOn(Less, Nat)
  BY <1>1, NatLessThanWellFounded
<1>3. PICK m \in T : \A n \in T : ~(<<n, m>> \in Less)
  BY <1>2, WFMin
<1>4. ASSUME NEW n \in T PROVE m <= n
  <2>1. m \in Nat /\ n \in Nat /\ ~(<<n, m>> \in Less)
    BY <1>3
  <2>2. ~(n < m)
    BY <2>1 DEF Less
  <2> QED BY <2>1, <2>2
<1> QED BY <1>4

\* A function on 1..n is a sequence of length n.
LEMMA FunctionIsSeq ==
  ASSUME NEW S, NEW n \in Nat, NEW f \in [1..n -> S]
  PROVE  f \in Seq(S) /\ Len(f) = n
<1>1. f \in Seq(S)
  BY SeqDef
<1>2. Len(f) \in Nat /\ DOMAIN f = 1..Len(f)
  BY <1>1, LenProperties
<1>3. 1..n = 1..Len(f)
  BY <1>2
<1>4. Len(f) = n
  BY <1>2, <1>3
<1> QED BY <1>1, <1>4

LEMMA SeqFacts ==
  ASSUME NEW S, NEW s \in Seq(S)
  PROVE  /\ Len(s) \in Nat /\ s \in [1..Len(s) -> S]
         /\ \A i \in 1..Len(s) : s[i] \in S
BY LenProperties, ElementOfSeq

\* What the operators of ElementLists make of sequences.
LEMMA AtBackSeq ==
  ASSUME NEW S, NEW s \in Seq(S), NEW e \in S
  PROVE  /\ Abstract!AtBack(s, e) \in Seq(S) /\ Len(Abstract!AtBack(s, e)) = Len(s) + 1
         /\ \A j \in 1..Len(s) + 1 : Abstract!AtBack(s, e)[j] = IF j <= Len(s) THEN s[j] ELSE e
<1> DEFINE t == Abstract!AtBack(s, e)
<1>1. Len(s) \in Nat /\ \A i \in 1..Len(s) : s[i] \in S
  BY SeqFacts
<1>2. t \in [1..Len(s) + 1 -> S]
  BY <1>1 DEF Abstract!AtBack
<1>3. \A j \in 1..Len(s) + 1 : t[j] = IF j <= Len(s) THEN s[j] ELSE e
  BY <1>1 DEF Abstract!AtBack
<1> HIDE DEF t
<1>4. t \in Seq(S) /\ Len(t) = Len(s) + 1
  BY <1>1, <1>2, FunctionIsSeq
<1> QED BY <1>3, <1>4 DEF t

LEMMA AtFrontSeq ==
  ASSUME NEW S, NEW s \in Seq(S), NEW e \in S
  PROVE  /\ Abstract!AtFront(s, e) \in Seq(S) /\ Len(Abstract!AtFront(s, e)) = Len(s) + 1
         /\ \A j \in 1..Len(s) + 1 : Abstract!AtFront(s, e)[j] = IF j = 1 THEN e ELSE s[j - 1]
<1> DEFINE t == Abstract!AtFront(s, e)
<1>1. Len(s) \in Nat /\ \A i \in 1..Len(s) : s[i] \in S
  BY SeqFacts
<1>2. t \in [1..Len(s) + 1 -> S]
  BY <1>1 DEF Abstract!AtFront
<1>3. \A j \in 1..Len(s) + 1 : t[j] = IF j = 1 THEN e ELSE s[j - 1]
  BY <1>1 DEF Abstract!AtFront
<1> HIDE DEF t
<1>4. t \in Seq(S) /\ Len(t) = Len(s) + 1
  BY <1>1, <1>2, FunctionIsSeq
<1> QED BY <1>3, <1>4 DEF t

LEMMA WithoutSeq ==
  ASSUME NEW S, NEW s \in Seq(S), NEW i \in 1..Len(s)
  PROVE  /\ Abstract!Without(s, i) \in Seq(S) /\ Len(Abstract!Without(s, i)) = Len(s) - 1
         /\ \A j \in 1..Len(s) - 1 :
              Abstract!Without(s, i)[j] = IF j < i THEN s[j] ELSE s[j + 1]
<1> DEFINE t == Abstract!Without(s, i)
<1>1. Len(s) \in Nat /\ Len(s) - 1 \in Nat /\ \A j \in 1..Len(s) : s[j] \in S
  BY SeqFacts
<1>2. t \in [1..Len(s) - 1 -> S]
  BY <1>1 DEF Abstract!Without
<1>3. \A j \in 1..Len(s) - 1 : t[j] = IF j < i THEN s[j] ELSE s[j + 1]
  BY <1>1 DEF Abstract!Without
<1> HIDE DEF t
<1>4. t \in Seq(S) /\ Len(t) = Len(s) - 1
  BY <1>1, <1>2, FunctionIsSeq
<1> QED BY <1>3, <1>4 DEF t

LEMMA ReplacedSeq ==
  ASSUME NEW S, NEW s \in Seq(S), NEW i \in 1..Len(s), NEW e \in S
  PROVE  /\ Abstract!Replaced(s, i, e) \in Seq(S) /\ Len(Abstract!Replaced(s, i, e)) = Len(s)
         /\ \A j \in 1..Len(s) : Abstract!Replaced(s, i, e)[j] = IF j = i THEN e ELSE s[j]
BY ExceptSeq DEF Abstract!Replaced

LEMMA JoinedSeq ==
  ASSUME NEW S, NEW s \in Seq(S), NEW u \in Seq(S)
  PROVE  /\ Abstract!Joined(s, u) \in Seq(S) /\ Len(Abstract!Joined(s, u)) = Len(s) + Len(u)
         /\ \A j \in 1..Len(s) + Len(u) :
              Abstract!Joined(s, u)[j] = IF j <= Len(s) THEN s[j] ELSE u[j - Len(s)]
<1> DEFINE t == Abstract!Joined(s, u)
<1>1. Len(s) \in Nat /\ Len(u) \in Nat /\ Len(s) + Len(u) \in Nat
      /\ (\A j \in 1..Len(s) : s[j] \in S) /\ (\A j \in 1..Len(u) : u[j] \in S)
  BY SeqFacts
<1>2. t \in [1..Len(s) + Len(u) -> S]
  BY <1>1 DEF Abstract!Joined
<1>3. \A j \in 1..Len(s) + Len(u) : t[j] = IF j <= Len(s) THEN s[j] ELSE u[j - Len(s)]
  BY <1>1 DEF Abstract!Joined
<1> HIDE DEF t
<1>4. t \in Seq(S) /\ Len(t) = Len(s) + Len(u)
  BY <1>1, <1>2, FunctionIsSeq
<1> QED BY <1>3, <1>4 DEF t

(***************************************************************************)
(* What the primitives of link.h assign.                                   *)
(***************************************************************************)
Links == [next : [Nodes -> Nodes], prev : [Nodes -> Nodes]]

LEMMA LinksInNodes ==
  ASSUME NEW l \in Links, NEW n \in Nodes
  PROVE  l.next[n] \in Nodes /\ l.prev[n] \in Nodes
BY DEF Links

LEMMA InitializeLinks ==
  ASSUME NEW l \in Links, NEW n \in Nodes
  PROVE  /\ DLINK_INITIALIZE(l, n) \in Links
         /\ \A x \in Nodes : /\ DLINK_INITIALIZE(l, n).next[x] = IF x = n THEN n ELSE l.next[x]
                             /\ DLINK_INITIALIZE(l, n).prev[x] = IF x = n THEN n ELSE l.prev[x]
BY DEF Links, SetNext, SetPrev, DLINK_INITIALIZE

LEMMA InsertPrevLinks ==
  ASSUME NEW l \in Links, NEW h \in Nodes, NEW e \in Nodes, e # h, l.prev[h] # e
  PROVE  LET k == DLINK_INSERT_PREV(l, h, e)
         IN /\ k \in Links
            /\ \A x \in Nodes :
                 /\ k.next[x] = IF x = l.prev[h] THEN e ELSE IF x = e THEN h ELSE l.next[x]
                 /\ k.prev[x] = IF x = h THEN e ELSE IF x = e THEN l.prev[h] ELSE l.prev[x]
BY DEF Links, SetNext, SetPrev, DLINK_INSERT_PREV

LEMMA InsertNextLinks ==
  ASSUME NEW l \in Links, NEW h \in Nodes, NEW e \in Nodes, e # h, l.next[h] # e
  PROVE  LET k == DLINK_INSERT_NEXT(l, h, e)
         IN /\ k \in Links
            /\ \A x \in Nodes :
                 /\ k.prev[x] = IF x = l.next[h] THEN e ELSE IF x = e THEN h ELSE l.prev[x]
                 /\ k.next[x] = IF x = h THEN e ELSE IF x = e THEN l.next[h] ELSE l.next[x]
BY DEF Links, SetNext, SetPrev, DLINK_INSERT_NEXT

\* Of a node that does not follow itself.
LEMMA TakenOutLinks ==
  ASSUME NEW l \in Links, NEW n \in Nodes, l.next[n] # n, l.prev[n] # n
  PROVE  /\ TakenOut(l, n) \in Links
         /\ \A x \in Nodes :
              /\ TakenOut(l, n).next[x] =
                   IF x = n THEN n ELSE IF x = l.prev[n] THEN l.next[n] ELSE l.next[x]
              /\ TakenOut(l, n).prev[x] =
                   IF x = n THEN n ELSE IF x = l.next[n] THEN l.prev[n] ELSE l.prev[x]
BY DEF Links, SetNext, SetPrev, TakenOut, DLINK_REMOVE, DLINK_INITIALIZE

LEMMA ReplaceLinks ==
  ASSUME NEW l \in Links, NEW old \in Nodes, NEW new \in Nodes, old # new,
         l.next[old] \notin {old, new}, l.prev[old] \notin {old, new}
  PROVE  LET k == DLINK_INITIALIZE(DLINK_REPLACE(l, old, new), old)
         IN /\ k \in Links
            /\ \A x \in Nodes :
                 /\ k.next[x] = IF x = old THEN old ELSE IF x = new THEN l.next[old]
                                ELSE IF x = l.prev[old] THEN new ELSE l.next[x]
                 /\ k.prev[x] = IF x = old THEN old ELSE IF x = new THEN l.prev[old]
                                ELSE IF x = l.next[old] THEN new ELSE l.prev[x]
BY ZenonT(60) DEF Links, SetNext, SetPrev, DLINK_REPLACE, DLINK_INITIALIZE


LEMMA MergedLinks ==
  ASSUME NEW l \in Links, NEW h \in Nodes, NEW g \in Nodes, g # h,
         l.next[g] \notin {g, h}, l.prev[g] \notin {g, h, l.prev[h]}, l.prev[h] # g
  PROVE  /\ Merged(l, h, g) \in Links
         /\ \A x \in Nodes :
              /\ Merged(l, h, g).next[x] = IF x = g THEN g ELSE IF x = l.prev[g] THEN h
                                           ELSE IF x = l.prev[h] THEN l.next[g] ELSE l.next[x]
              /\ Merged(l, h, g).prev[x] = IF x = g THEN g ELSE IF x = h THEN l.prev[g]
                                           ELSE IF x = l.next[g] THEN l.prev[h] ELSE l.prev[x]
BY ZenonT(60) DEF Links, SetNext, SetPrev, Merged, DLINK_INITIALIZE

\* The other list is empty.
LEMMA MergedWithNone ==
  ASSUME NEW l \in Links, NEW h \in Nodes, NEW g \in Nodes, g # h,
         l.next[g] = g, l.prev[g] = g, l.prev[h] # g
  PROVE  /\ Merged(l, h, g) \in Links
         /\ \A x \in Nodes :
              /\ Merged(l, h, g).next[x] = IF x = l.prev[h] THEN h ELSE l.next[x]
              /\ Merged(l, h, g).prev[x] = l.prev[x]
BY DEF Links, SetNext, SetPrev, Merged, DLINK_INITIALIZE

(***************************************************************************)
(* Links that represent sequences.                                         *)
(***************************************************************************)
\* The node at a place of the ring of head h; the head is before the first element
\* and behind the last.
Spot(h, s, i) == IF i \in 1..Len(s) THEN s[i] ELSE h

Ring(l, h, s) ==
  \A i \in 0..Len(s) : /\ l.next[Spot(h, s, i)] = Spot(h, s, i + 1)
                       /\ l.prev[Spot(h, s, i + 1)] = Spot(h, s, i)

Once(ls) ==
  \A g, h \in Heads : \A i \in 1..Len(ls[g]), j \in 1..Len(ls[h]) :
    ls[g][i] = ls[h][j] => g = h /\ i = j

Unused(ls, e) == \A h \in Heads : \A i \in 1..Len(ls[h]) : ls[h][i] # e

Represents(l, ls) ==
  /\ l \in Links /\ ls \in [Heads -> Seq(Elements)]
  /\ \A h \in Heads : Ring(l, h, ls[h])
  /\ Once(ls)
  /\ \A e \in Elements : Unused(ls, e) => l.next[e] = e /\ l.prev[e] = e

\* Typing facts of sequences under their heads.
LEMMA ListsTyped ==
  ASSUME NEW ls \in [Heads -> Seq(Elements)], NEW h \in Heads
  PROVE  /\ ls[h] \in Seq(Elements) /\ Len(ls[h]) \in Nat
         /\ \A i \in 1..Len(ls[h]) : ls[h][i] \in Elements
BY SeqFacts

\* Two places of rings hold the same node only if they are the same place.
LEMMA SpotsDiffer ==
  ASSUME NEW ls \in [Heads -> Seq(Elements)], Once(ls)
  PROVE  \A g, h \in Heads : \A i \in 0..Len(ls[g]), j \in 0..Len(ls[h]) :
           /\ Spot(g, ls[g], i) \in Nodes
           /\ Spot(g, ls[g], i) = Spot(h, ls[h], j) => g = h /\ i = j
<1> SUFFICES ASSUME NEW g \in Heads, NEW h \in Heads,
                    NEW i \in 0..Len(ls[g]), NEW j \in 0..Len(ls[h])
             PROVE  /\ Spot(g, ls[g], i) \in Nodes
                    /\ Spot(g, ls[g], i) = Spot(h, ls[h], j) => g = h /\ i = j
  OBVIOUS
<1>1. /\ Len(ls[g]) \in Nat /\ Len(ls[h]) \in Nat
      /\ \A k \in 1..Len(ls[g]) : ls[g][k] \in Elements
      /\ \A k \in 1..Len(ls[h]) : ls[h][k] \in Elements
  BY ListsTyped
<1>2. CASE i = 0 /\ j = 0
  BY <1>1, <1>2 DEF Spot, Nodes
<1>3. CASE i = 0 /\ j # 0
  <2>1. Spot(g, ls[g], i) = g /\ Spot(h, ls[h], j) \in Elements
    BY <1>1, <1>3 DEF Spot
  <2> QED BY <2>1 DEF Nodes, NodesAssumption
<1>4. CASE i # 0 /\ j = 0
  <2>1. Spot(g, ls[g], i) \in Elements /\ Spot(h, ls[h], j) = h
    BY <1>1, <1>4 DEF Spot
  <2> QED BY <2>1 DEF Nodes, NodesAssumption
<1>5. CASE i # 0 /\ j # 0
  <2>1. i \in 1..Len(ls[g]) /\ j \in 1..Len(ls[h])
    BY <1>1, <1>5
  <2>2. Spot(g, ls[g], i) = ls[g][i] /\ Spot(h, ls[h], j) = ls[h][j]
    BY <2>1 DEF Spot
  <2> QED BY <1>1, <2>1, <2>2 DEF Nodes, Once
<1> QED BY <1>2, <1>3, <1>4, <1>5

\* The element behind a list's last place is its head again.
LEMMA SpotEnds ==
  ASSUME NEW s \in Seq(Elements), NEW h \in Heads
  PROVE  /\ Spot(h, s, 0) = h /\ Spot(h, s, Len(s) + 1) = h
         /\ \A i \in 1..Len(s) : Spot(h, s, i) = s[i] /\ s[i] \in Elements
BY SeqFacts DEF Spot

\* The nodes of rings are not an element that no list uses, and differ from ring to
\* ring, the place behind the last one included.
LEMMA SpotsOfRings ==
  ASSUME NEW ls \in [Heads -> Seq(Elements)], Once(ls), NEW g \in Heads, NEW i \in 0..Len(ls[g])
  PROVE  /\ Spot(g, ls[g], i) \in Nodes /\ Spot(g, ls[g], i + 1) \in Nodes
         /\ \A e \in Elements : Unused(ls, e) =>
              Spot(g, ls[g], i) # e /\ Spot(g, ls[g], i + 1) # e
         /\ \A h \in Heads \ {g} : \A j \in 0..Len(ls[h]) :
              Spot(g, ls[g], i) # Spot(h, ls[h], j) /\ Spot(g, ls[g], i + 1) # Spot(h, ls[h], j)
<1>1. Len(ls[g]) \in Nat /\ \A k \in 1..Len(ls[g]) : ls[g][k] \in Elements
  BY ListsTyped
<1>2. PICK j \in 0..Len(ls[g]) : Spot(g, ls[g], i + 1) = Spot(g, ls[g], j)
  <2>1. CASE i = Len(ls[g])
    BY <1>1, <2>1 DEF Spot
  <2>2. CASE i # Len(ls[g])
    BY <1>1, <2>2
  <2> QED BY <2>1, <2>2
<1>3. Spot(g, ls[g], i) \in Nodes /\ Spot(g, ls[g], j) \in Nodes
  BY SpotsDiffer
<1>4. ASSUME NEW e \in Elements, Unused(ls, e), NEW k \in 0..Len(ls[g])
      PROVE  Spot(g, ls[g], k) # e
  BY <1>1, <1>4 DEF Spot, Unused, NodesAssumption
<1>5. ASSUME NEW h \in Heads \ {g}, NEW m \in 0..Len(ls[h]), NEW k \in 0..Len(ls[g])
      PROVE  Spot(g, ls[g], k) # Spot(h, ls[h], m)
  BY SpotsDiffer
<1> QED BY <1>2, <1>3, <1>4, <1>5

LEMMA InsertedBack ==
  ASSUME NEW l, NEW ls, Represents(l, ls), NEW h \in Heads, NEW e \in Elements, Unused(ls, e)
  PROVE  Represents(DLINK_INSERT_PREV(l, h, e), [ls EXCEPT ![h] = Abstract!AtBack(@, e)])
<1> DEFINE s == ls[h]
           n == Len(s)
           t == Abstract!AtBack(s, e)
           p == Spot(h, s, n)
           k == DLINK_INSERT_PREV(l, h, e)
           ms == [ls EXCEPT ![h] = t]
<1>1. /\ l \in Links /\ ls \in [Heads -> Seq(Elements)] /\ Once(ls)
      /\ \A g \in Heads : Ring(l, g, ls[g])
      /\ \A x \in Elements : Unused(ls, x) => l.next[x] = x /\ l.prev[x] = x
      /\ s \in Seq(Elements) /\ n \in Nat /\ h \in Nodes /\ e \in Nodes /\ e # h
  BY ListsTyped DEF Represents, Nodes, NodesAssumption
<1>2. /\ t \in Seq(Elements) /\ Len(t) = n + 1
      /\ \A j \in 1..n + 1 : t[j] = IF j <= n THEN s[j] ELSE e
  BY <1>1, AtBackSeq
<1>3. /\ \A g \in Heads : \A i \in 0..Len(ls[g]) :
           Spot(g, ls[g], i) # e /\ Spot(g, ls[g], i + 1) # e
      /\ \A g \in Heads : \A i \in 0..Len(ls[g]) :
           Spot(g, ls[g], i) \in Nodes /\ Spot(g, ls[g], i + 1) \in Nodes
  BY <1>1, SpotsOfRings
<1>4. l.prev[h] = p /\ p \in Nodes /\ p # e
  BY <1>1, <1>3, SpotEnds DEF Ring
<1>5. /\ k \in Links
      /\ \A x \in Nodes :
           /\ k.next[x] = IF x = p THEN e ELSE IF x = e THEN h ELSE l.next[x]
           /\ k.prev[x] = IF x = h THEN e ELSE IF x = e THEN p ELSE l.prev[x]
  BY <1>1, <1>4, InsertPrevLinks
<1>6. \A j \in 0..n + 2 :
        Spot(h, t, j) = IF j <= n THEN Spot(h, s, j) ELSE IF j = n + 1 THEN e ELSE h
  BY <1>1, <1>2 DEF Spot
<1> HIDE DEF t, p, k
<1>7. Ring(k, h, t)
  <2> SUFFICES ASSUME NEW i \in 0..n + 1
               PROVE  /\ k.next[Spot(h, t, i)] = Spot(h, t, i + 1)
                      /\ k.prev[Spot(h, t, i + 1)] = Spot(h, t, i)
    BY <1>2 DEF Ring
  <2>1. CASE i < n
    <3>1. /\ Spot(h, t, i) = Spot(h, s, i) /\ Spot(h, t, i + 1) = Spot(h, s, i + 1)
          /\ i \in 0..n /\ i + 1 \in 0..n
      BY <1>1, <1>6, <2>1
    <3>2. Spot(h, s, i) # p /\ Spot(h, s, i + 1) # h
      BY <1>1, <2>1, <3>1, SpotsDiffer, SpotEnds DEF p
    <3>3. l.next[Spot(h, s, i)] = Spot(h, s, i + 1) /\ l.prev[Spot(h, s, i + 1)] = Spot(h, s, i)
      BY <1>1, <3>1 DEF Ring
    <3> QED BY <1>3, <1>5, <3>1, <3>2, <3>3
  <2>2. CASE i = n
    <3>1. Spot(h, t, i) = p /\ Spot(h, t, i + 1) = e
      BY <1>1, <1>6, <2>2 DEF p
    <3> QED BY <1>1, <1>4, <1>5, <3>1
  <2>3. CASE i = n + 1
    <3>1. Spot(h, t, i) = e /\ Spot(h, t, i + 1) = h
      BY <1>1, <1>6, <2>3
    <3> QED BY <1>1, <1>4, <1>5, <3>1
  <2> QED BY <1>1, <2>1, <2>2, <2>3
<1>8. ASSUME NEW g \in Heads \ {h} PROVE Ring(k, g, ls[g])
  <2> SUFFICES ASSUME NEW i \in 0..Len(ls[g])
               PROVE  /\ k.next[Spot(g, ls[g], i)] = Spot(g, ls[g], i + 1)
                      /\ k.prev[Spot(g, ls[g], i + 1)] = Spot(g, ls[g], i)
    BY DEF Ring
  <2>1. Spot(g, ls[g], i) # p /\ Spot(g, ls[g], i + 1) # h
    BY <1>1, SpotsOfRings, SpotEnds DEF p
  <2>2. /\ l.next[Spot(g, ls[g], i)] = Spot(g, ls[g], i + 1)
        /\ l.prev[Spot(g, ls[g], i + 1)] = Spot(g, ls[g], i)
    BY <1>1 DEF Ring
  <2> QED BY <1>3, <1>5, <2>1, <2>2
<1>9. ms \in [Heads -> Seq(Elements)] /\ ms[h] = t /\ \A g \in Heads \ {h} : ms[g] = ls[g]
  BY <1>1, <1>2
<1> HIDE DEF ms
<1>a. ASSUME NEW g \in Heads, NEW i \in 1..Len(ms[g])
      PROVE  \/ g = h /\ i = n + 1 /\ ms[g][i] = e
             \/ i \in 1..Len(ls[g]) /\ ms[g][i] = ls[g][i]
  <2>1. CASE g = h
    BY <1>1, <1>2, <1>9, <2>1
  <2>2. CASE g # h
    BY <1>9, <2>2
  <2> QED BY <2>1, <2>2
<1>10. Once(ms)
  <2> SUFFICES ASSUME NEW g1 \in Heads, NEW g2 \in Heads, NEW i \in 1..Len(ms[g1]),
                      NEW j \in 1..Len(ms[g2]), ms[g1][i] = ms[g2][j]
               PROVE  g1 = g2 /\ i = j
    BY DEF Once
  <2>1. \/ g1 = h /\ i = n + 1 /\ ms[g1][i] = e
        \/ i \in 1..Len(ls[g1]) /\ ms[g1][i] = ls[g1][i] /\ ls[g1][i] # e
    BY <1>a DEF Unused
  <2>2. \/ g2 = h /\ j = n + 1 /\ ms[g2][j] = e
        \/ j \in 1..Len(ls[g2]) /\ ms[g2][j] = ls[g2][j] /\ ls[g2][j] # e
    BY <1>a DEF Unused
  <2> QED BY <1>1, <2>1, <2>2 DEF Once
<1>11. ASSUME NEW x \in Elements, Unused(ms, x) PROVE k.next[x] = x /\ k.prev[x] = x
  <2>1. Unused(ls, x) /\ x # e
    <3>1. n + 1 \in 1..Len(ms[h]) /\ ms[h][n + 1] = e
      BY <1>1, <1>2, <1>9
    <3>2. ASSUME NEW g \in Heads, NEW i \in 1..Len(ls[g])
          PROVE  i \in 1..Len(ms[g]) /\ ms[g][i] = ls[g][i]
      <4>1. CASE g = h
        BY <1>1, <1>2, <1>9, <4>1
      <4>2. CASE g # h
        BY <1>9, <4>2
      <4> QED BY <4>1, <4>2
    <3> QED BY <1>11, <3>1, <3>2 DEF Unused
  <2>2. x # p /\ x # h /\ x \in Nodes
    BY <1>1, <2>1, SpotsOfRings, SMTT(30) DEF p, Nodes, NodesAssumption
  <2> QED BY <1>1, <1>5, <2>1, <2>2
<1>12. \A g \in Heads : Ring(k, g, ms[g])
  BY <1>7, <1>8, <1>9
<1>13. Represents(k, ms)
  BY <1>5, <1>9, <1>10, <1>11, <1>12 DEF Represents
<1> QED BY <1>13 DEF k, ms, t

LEMMA InsertedFront ==
  ASSUME NEW l, NEW ls, Represents(l, ls), NEW h \in Heads, NEW e \in Elements, Unused(ls, e)
  PROVE  Represents(DLINK_INSERT_NEXT(l, h, e), [ls EXCEPT ![h] = Abstract!AtFront(@, e)])
<1> DEFINE s == ls[h]
           n == Len(s)
           t == Abstract!AtFront(s, e)
           q == IF n = 0 THEN 0 ELSE 1
           p == Spot(h, s, q)
           k == DLINK_INSERT_NEXT(l, h, e)
           ms == [ls EXCEPT ![h] = t]
<1>1. /\ l \in Links /\ ls \in [Heads -> Seq(Elements)] /\ Once(ls)
      /\ \A g \in Heads : Ring(l, g, ls[g])
      /\ \A x \in Elements : Unused(ls, x) => l.next[x] = x /\ l.prev[x] = x
      /\ s \in Seq(Elements) /\ n \in Nat /\ h \in Nodes /\ e \in Nodes /\ e # h
  BY ListsTyped DEF Represents, Nodes, NodesAssumption
<1>2. /\ t \in Seq(Elements) /\ Len(t) = n + 1
      /\ \A j \in 1..n + 1 : t[j] = IF j = 1 THEN e ELSE s[j - 1]
  BY <1>1, AtFrontSeq
<1>3. /\ \A g \in Heads : \A i \in 0..Len(ls[g]) :
           Spot(g, ls[g], i) # e /\ Spot(g, ls[g], i + 1) # e
      /\ \A g \in Heads : \A i \in 0..Len(ls[g]) :
           Spot(g, ls[g], i) \in Nodes /\ Spot(g, ls[g], i + 1) \in Nodes
  BY <1>1, SpotsOfRings
<1>b. q \in 0..n /\ p = Spot(h, s, 1)
  BY <1>1 DEF Spot
<1>4. l.next[h] = p /\ p \in Nodes /\ p # e
  <2>1. 0 \in 0..n
    BY <1>1
  <2> QED BY <1>1, <1>3, <1>b, <2>1, SpotEnds DEF Ring
<1>5. /\ k \in Links
      /\ \A x \in Nodes :
           /\ k.prev[x] = IF x = p THEN e ELSE IF x = e THEN h ELSE l.prev[x]
           /\ k.next[x] = IF x = h THEN e ELSE IF x = e THEN p ELSE l.next[x]
  BY <1>1, <1>4, InsertNextLinks
<1>6. \A j \in 0..n + 2 :
        Spot(h, t, j) = IF j = 0 THEN h ELSE IF j = 1 THEN e ELSE Spot(h, s, j - 1)
  BY <1>1, <1>2 DEF Spot
<1> HIDE DEF t, p, q, k
<1>7. Ring(k, h, t)
  <2> SUFFICES ASSUME NEW i \in 0..n + 1
               PROVE  /\ k.next[Spot(h, t, i)] = Spot(h, t, i + 1)
                      /\ k.prev[Spot(h, t, i + 1)] = Spot(h, t, i)
    BY <1>2 DEF Ring
  <2>1. CASE i > 1
    <3>1. /\ Spot(h, t, i) = Spot(h, s, i - 1) /\ Spot(h, t, i + 1) = Spot(h, s, i)
          /\ i - 1 \in 1..n /\ i - 1 \in 0..n /\ i \in 2..n + 1
      BY <1>1, <1>6, <2>1
    <3>2. Spot(h, s, i - 1) # h
      BY <1>1, <3>1, SpotEnds, NodesAssumption
    <3>3. Spot(h, s, i) # p
      <4>1. CASE i = n + 1
        <5>1. Spot(h, s, i) = h /\ 1 \in 1..n
          BY <1>1, <3>1, <4>1, SpotEnds
        <5> QED BY <1>1, <1>b, <5>1, SpotEnds, NodesAssumption
      <4>2. CASE i # n + 1
        <5>1. i \in 0..n /\ 1 \in 0..n /\ i # 1
          BY <1>1, <3>1, <4>2
        <5> QED BY <1>1, <1>b, <5>1, SpotsDiffer
      <4> QED BY <4>1, <4>2
    <3>4. l.next[Spot(h, s, i - 1)] = Spot(h, s, i) /\ l.prev[Spot(h, s, i)] = Spot(h, s, i - 1)
      <4>1. (i - 1) + 1 = i
        BY <1>1
      <4> QED BY <1>1, <3>1, <4>1 DEF Ring
    <3>5. /\ Spot(h, s, i - 1) \in Nodes /\ Spot(h, s, i) \in Nodes
          /\ Spot(h, s, i - 1) # e /\ Spot(h, s, i) # e
      <4>1. (i - 1) + 1 = i
        BY <1>1
      <4> QED BY <1>3, <3>1, <4>1
    <3> QED BY <1>5, <3>1, <3>2, <3>3, <3>4, <3>5
  <2>2. CASE i = 1
    <3>1. Spot(h, t, i) = e /\ Spot(h, t, i + 1) = p
      BY <1>1, <1>6, <1>b, <2>2
    <3> QED BY <1>1, <1>4, <1>5, <3>1
  <2>3. CASE i = 0
    <3>1. Spot(h, t, i) = h /\ Spot(h, t, i + 1) = e
      BY <1>1, <1>6, <2>3
    <3> QED BY <1>1, <1>4, <1>5, <3>1
  <2> QED BY <1>1, <2>1, <2>2, <2>3
<1>8. ASSUME NEW g \in Heads \ {h} PROVE Ring(k, g, ls[g])
  <2> SUFFICES ASSUME NEW i \in 0..Len(ls[g])
               PROVE  /\ k.next[Spot(g, ls[g], i)] = Spot(g, ls[g], i + 1)
                      /\ k.prev[Spot(g, ls[g], i + 1)] = Spot(g, ls[g], i)
    BY DEF Ring
  <2>1. Spot(g, ls[g], i) # h /\ Spot(g, ls[g], i + 1) # p
    <3>1. 0 \in 0..n
      BY <1>1
    <3> QED BY <1>1, <1>b, <3>1, SpotsOfRings, SpotEnds, SMTT(30) DEF p
  <2>2. /\ l.next[Spot(g, ls[g], i)] = Spot(g, ls[g], i + 1)
        /\ l.prev[Spot(g, ls[g], i + 1)] = Spot(g, ls[g], i)
    BY <1>1 DEF Ring
  <2> QED BY <1>3, <1>5, <2>1, <2>2
<1>9. ms \in [Heads -> Seq(Elements)] /\ ms[h] = t /\ \A g \in Heads \ {h} : ms[g] = ls[g]
  BY <1>1, <1>2
<1> HIDE DEF ms
<1> DEFINE At(g) == IF g = h THEN 1 ELSE 0
<1>a. ASSUME NEW g \in Heads, NEW i \in 1..Len(ms[g])
      PROVE  \/ g = h /\ i = 1 /\ ms[g][i] = e
             \/ /\ i # 1 \/ g # h
                /\ i - At(g) \in 1..Len(ls[g]) /\ ms[g][i] = ls[g][i - At(g)]
  <2>1. CASE g = h
    BY <1>1, <1>2, <1>9, <2>1
  <2>2. CASE g # h
    BY <1>9, <2>2
  <2> QED BY <2>1, <2>2
<1>10. Once(ms)
  <2> SUFFICES ASSUME NEW g1 \in Heads, NEW g2 \in Heads, NEW i \in 1..Len(ms[g1]),
                      NEW j \in 1..Len(ms[g2]), ms[g1][i] = ms[g2][j]
               PROVE  g1 = g2 /\ i = j
    BY DEF Once
  <2>1. \/ g1 = h /\ i = 1 /\ ms[g1][i] = e
        \/ /\ i - At(g1) \in 1..Len(ls[g1]) /\ ms[g1][i] = ls[g1][i - At(g1)]
           /\ ls[g1][i - At(g1)] # e
    BY <1>a DEF Unused
  <2>2. \/ g2 = h /\ j = 1 /\ ms[g2][j] = e
        \/ /\ j - At(g2) \in 1..Len(ls[g2]) /\ ms[g2][j] = ls[g2][j - At(g2)]
           /\ ls[g2][j - At(g2)] # e
    BY <1>a DEF Unused
  <2> QED BY <1>1, <2>1, <2>2 DEF Once
<1>11. ASSUME NEW x \in Elements, Unused(ms, x) PROVE k.next[x] = x /\ k.prev[x] = x
  <2>1. Unused(ls, x) /\ x # e
    <3>1. 1 \in 1..Len(ms[h]) /\ ms[h][1] = e
      BY <1>1, <1>2, <1>9
    <3>2. ASSUME NEW g \in Heads, NEW i \in 1..Len(ls[g])
          PROVE  i + At(g) \in 1..Len(ms[g]) /\ ms[g][i + At(g)] = ls[g][i]
      <4>1. CASE g = h
        BY <1>1, <1>2, <1>9, <4>1
      <4>2. CASE g # h
        BY <1>9, <4>2
      <4> QED BY <4>1, <4>2
    <3> QED BY <1>11, <3>1, <3>2 DEF Unused
  <2>2. x # p /\ x # h /\ x \in Nodes
    BY <1>1, <1>b, <2>1, SpotsOfRings DEF p, Nodes, NodesAssumption
  <2> QED BY <1>1, <1>5, <2>1, <2>2
<1>12. \A g \in Heads : Ring(k, g, ms[g])
  BY <1>7, <1>8, <1>9
<1>13. Represents(k, ms)
  BY <1>5, <1>9, <1>10, <1>11, <1>12 DEF Represents
<1> QED BY <1>13 DEF k, ms, t

LEMMA Removed ==
  ASSUME NEW l, NEW ls, Represents(l, ls), NEW h \in Heads, NEW i \in 1..Len(ls[h])
  PROVE  Represents(TakenOut(l, ls[h][i]), [ls EXCEPT ![h] = Abstract!Without(@, i)])
<1> DEFINE s == ls[h]
           n == Len(s)
           e == s[i]
           t == Abstract!Without(s, i)
           r == IF i = n THEN 0 ELSE i + 1
           a == Spot(h, s, i - 1)
           b == Spot(h, s, r)
           k == TakenOut(l, e)
           ms == [ls EXCEPT ![h] = t]
<1>1. /\ l \in Links /\ ls \in [Heads -> Seq(Elements)] /\ Once(ls)
      /\ \A g \in Heads : Ring(l, g, ls[g])
      /\ \A x \in Elements : Unused(ls, x) => l.next[x] = x /\ l.prev[x] = x
      /\ s \in Seq(Elements) /\ n \in Nat /\ h \in Nodes /\ e \in Nodes /\ e \in Elements
  BY ListsTyped DEF Represents, Nodes
<1>2. /\ t \in Seq(Elements) /\ Len(t) = n - 1
      /\ \A j \in 1..n - 1 : t[j] = IF j < i THEN s[j] ELSE s[j + 1]
  BY <1>1, WithoutSeq
<1>3. /\ i - 1 \in 0..n /\ i \in 0..n /\ r \in 0..n /\ r # i /\ i - 1 # i
      /\ e = Spot(h, s, i) /\ b = Spot(h, s, i + 1) /\ (i - 1) + 1 = i
  BY <1>1 DEF Spot
<1>4. l.next[e] = b /\ l.prev[e] = a
  BY <1>1, <1>3 DEF Ring
<1>5. a # e /\ b # e /\ a \in Nodes /\ b \in Nodes
  BY <1>1, <1>3, SpotsDiffer
<1>6. /\ k \in Links
      /\ \A x \in Nodes :
           /\ k.next[x] = IF x = e THEN e ELSE IF x = a THEN b ELSE l.next[x]
           /\ k.prev[x] = IF x = e THEN e ELSE IF x = b THEN a ELSE l.prev[x]
  BY <1>1, <1>4, <1>5, TakenOutLinks
<1>7. \A j \in 0..n : Spot(h, t, j) = IF j < i THEN Spot(h, s, j) ELSE Spot(h, s, j + 1)
  BY <1>1, <1>2 DEF Spot
<1> HIDE DEF t, k, a, b, r, e
<1>8. Ring(k, h, t)
  <2> SUFFICES ASSUME NEW j \in 0..n - 1
               PROVE  /\ k.next[Spot(h, t, j)] = Spot(h, t, j + 1)
                      /\ k.prev[Spot(h, t, j + 1)] = Spot(h, t, j)
    BY <1>2 DEF Ring
  <2>1. CASE j < i - 1
    <3>1. /\ Spot(h, t, j) = Spot(h, s, j) /\ Spot(h, t, j + 1) = Spot(h, s, j + 1)
          /\ j \in 0..n /\ j + 1 \in 0..n /\ j # i - 1 /\ j # i /\ j + 1 # i /\ j + 1 # r
      BY <1>1, <1>7, <2>1 DEF r
    <3>2. /\ Spot(h, s, j) \notin {a, e} /\ Spot(h, s, j + 1) \notin {b, e}
          /\ Spot(h, s, j) \in Nodes /\ Spot(h, s, j + 1) \in Nodes
      BY <1>1, <1>3, <3>1, SpotsDiffer DEF a, b
    <3>3. l.next[Spot(h, s, j)] = Spot(h, s, j + 1) /\ l.prev[Spot(h, s, j + 1)] = Spot(h, s, j)
      BY <1>1, <3>1 DEF Ring
    <3> QED BY <1>6, <3>1, <3>2, <3>3
  <2>2. CASE j = i - 1
    <3>1. Spot(h, t, j) = a /\ Spot(h, t, j + 1) = b
      BY <1>1, <1>3, <1>7, <2>2 DEF a
    <3> QED BY <1>5, <1>6, <3>1
  <2>3. CASE j >= i
    <3>1. /\ Spot(h, t, j) = Spot(h, s, j + 1) /\ Spot(h, t, j + 1) = Spot(h, s, j + 2)
          /\ j + 1 \in 0..n /\ j + 1 # i - 1 /\ j + 1 # i /\ (j + 1) + 1 = j + 2
      <4>1. j \in 0..n /\ j + 1 \in 0..n /\ ~(j < i) /\ ~(j + 1 < i) /\ (j + 1) + 1 = j + 2
        BY <1>1, <2>3
      <4> QED BY <1>1, <1>7, <2>3, <4>1
    <3>2. PICK m \in 0..n : Spot(h, s, j + 2) = Spot(h, s, m) /\ m # i /\ m # r
      <4>1. CASE j + 2 = n + 1
        <5>1. Spot(h, s, j + 2) = Spot(h, s, 0) /\ 0 \in 0..n /\ 0 # i /\ 0 # r
          BY <1>1, <2>3, <4>1 DEF Spot, r
        <5> QED BY <5>1
      <4>2. CASE j + 2 # n + 1
        <5>1. j + 2 \in 0..n /\ j + 2 # i /\ j + 2 # r
          BY <1>1, <2>3, <4>2, SMTT(30) DEF r
        <5> QED BY <5>1
      <4> QED BY <4>1, <4>2
    <3>3. /\ Spot(h, s, j + 1) \notin {a, e} /\ Spot(h, s, j + 2) \notin {b, e}
          /\ Spot(h, s, j + 1) \in Nodes /\ Spot(h, s, j + 2) \in Nodes
      BY <1>1, <1>3, <3>1, <3>2, SpotsDiffer DEF a, b
    <3>4. /\ l.next[Spot(h, s, j + 1)] = Spot(h, s, j + 2)
          /\ l.prev[Spot(h, s, j + 2)] = Spot(h, s, j + 1)
      BY <1>1, <3>1 DEF Ring
    <3> QED BY <1>6, <3>1, <3>3, <3>4
  <2> QED BY <1>1, <2>1, <2>2, <2>3
<1>9. ASSUME NEW g \in Heads \ {h} PROVE Ring(k, g, ls[g])
  <2> SUFFICES ASSUME NEW j \in 0..Len(ls[g])
               PROVE  /\ k.next[Spot(g, ls[g], j)] = Spot(g, ls[g], j + 1)
                      /\ k.prev[Spot(g, ls[g], j + 1)] = Spot(g, ls[g], j)
    BY DEF Ring
  <2>1. /\ Spot(g, ls[g], j) \notin {a, e} /\ Spot(g, ls[g], j + 1) \notin {b, e}
        /\ Spot(g, ls[g], j) \in Nodes /\ Spot(g, ls[g], j + 1) \in Nodes
    BY <1>1, <1>3, SpotsOfRings DEF a, b
  <2>2. /\ l.next[Spot(g, ls[g], j)] = Spot(g, ls[g], j + 1)
        /\ l.prev[Spot(g, ls[g], j + 1)] = Spot(g, ls[g], j)
    BY <1>1 DEF Ring
  <2> QED BY <1>6, <2>1, <2>2
<1>10. ms \in [Heads -> Seq(Elements)] /\ ms[h] = t /\ \A g \in Heads \ {h} : ms[g] = ls[g]
  BY <1>1, <1>2
<1> HIDE DEF ms
<1> DEFINE Old(g, j) == IF g = h /\ j >= i THEN j + 1 ELSE j
<1>11. ASSUME NEW g \in Heads, NEW j \in 1..Len(ms[g])
       PROVE  Old(g, j) \in 1..Len(ls[g]) /\ ms[g][j] = ls[g][Old(g, j)]
  <2>1. CASE g = h
    BY <1>1, <1>2, <1>10, <2>1
  <2>2. CASE g # h
    BY <1>10, <2>2
  <2> QED BY <2>1, <2>2
<1>12. Once(ms)
  <2> SUFFICES ASSUME NEW g1 \in Heads, NEW g2 \in Heads, NEW j1 \in 1..Len(ms[g1]),
                      NEW j2 \in 1..Len(ms[g2]), ms[g1][j1] = ms[g2][j2]
               PROVE  g1 = g2 /\ j1 = j2
    BY DEF Once
  <2>1. g1 = g2 /\ Old(g1, j1) = Old(g2, j2)
    <3> HIDE DEF Old
    <3>1. /\ Old(g1, j1) \in 1..Len(ls[g1]) /\ Old(g2, j2) \in 1..Len(ls[g2])
          /\ ls[g1][Old(g1, j1)] = ls[g2][Old(g2, j2)]
      BY <1>11
    <3> QED BY <1>1, <3>1 DEF Once
  <2>2. j1 \in Int /\ j2 \in Int
    OBVIOUS
  <2> QED BY <2>1, <2>2
<1>13. ASSUME NEW x \in Elements, Unused(ms, x) PROVE k.next[x] = x /\ k.prev[x] = x
  <2>1. CASE x = e
    BY <1>1, <1>6, <2>1
  <2>2. CASE x # e
    <3>1. ASSUME NEW g \in Heads, NEW j \in 1..Len(ls[g]) PROVE ls[g][j] # x
      <4>1. CASE g # h
        BY <1>10, <1>13, <4>1 DEF Unused
      <4>2. CASE g = h /\ j = i
        BY <2>2, <4>2 DEF e
      <4>3. CASE g = h /\ j < i
        BY <1>1, <1>2, <1>10, <1>13, <4>3 DEF Unused
      <4>4. CASE g = h /\ j > i
        <5>1. j - 1 \in 1..Len(ms[h]) /\ ms[h][j - 1] = ls[h][j]
          BY <1>1, <1>2, <1>10, <4>4
        <5> QED BY <1>13, <4>4, <5>1 DEF Unused
      <4>5. j \in Int /\ i \in Int
        OBVIOUS
      <4> QED BY <4>1, <4>2, <4>3, <4>4, <4>5
    <3>2. Unused(ls, x)
      BY <3>1 DEF Unused
    <3>3. x # a /\ x # b /\ x \in Nodes
      BY <1>1, <1>3, <3>2, SpotsOfRings DEF a, b, Nodes
    <3> QED BY <1>1, <1>6, <2>2, <3>2, <3>3
  <2> QED BY <2>1, <2>2
<1>14. \A g \in Heads : Ring(k, g, ms[g])
  BY <1>8, <1>9, <1>10
<1>15. Represents(k, ms)
  BY <1>6, <1>10, <1>12, <1>13, <1>14 DEF Represents
<1> QED BY <1>15 DEF k, ms, t, e

LEMMA ReplacedOne ==
  ASSUME NEW l, NEW ls, Represents(l, ls), NEW h \in Heads, NEW i \in 1..Len(ls[h]),
         NEW e \in Elements, Unused(ls, e)
  PROVE  Represents(DLINK_INITIALIZE(DLINK_REPLACE(l, ls[h][i], e), ls[h][i]),
                    [ls EXCEPT ![h] = Abstract!Replaced(@, i, e)])
<1> DEFINE s == ls[h]
           n == Len(s)
           old == s[i]
           t == Abstract!Replaced(s, i, e)
           r == IF i = n THEN 0 ELSE i + 1
           a == Spot(h, s, i - 1)
           b == Spot(h, s, r)
           k == DLINK_INITIALIZE(DLINK_REPLACE(l, old, e), old)
           ms == [ls EXCEPT ![h] = t]
<1>1. /\ l \in Links /\ ls \in [Heads -> Seq(Elements)] /\ Once(ls)
      /\ \A g \in Heads : Ring(l, g, ls[g])
      /\ \A x \in Elements : Unused(ls, x) => l.next[x] = x /\ l.prev[x] = x
      /\ s \in Seq(Elements) /\ n \in Nat /\ h \in Nodes /\ old \in Nodes
      /\ old \in Elements /\ e \in Nodes /\ e # old /\ e # h
  BY ListsTyped DEF Represents, Nodes, Unused, NodesAssumption
<1>2. /\ t \in Seq(Elements) /\ Len(t) = n
      /\ \A j \in 1..n : t[j] = IF j = i THEN e ELSE s[j]
  BY <1>1, ReplacedSeq
<1>3. /\ i - 1 \in 0..n /\ i \in 0..n /\ r \in 0..n /\ r # i /\ i - 1 # i
      /\ old = Spot(h, s, i) /\ b = Spot(h, s, i + 1) /\ (i - 1) + 1 = i
  BY <1>1 DEF Spot
<1>4. l.next[old] = b /\ l.prev[old] = a
  BY <1>1, <1>3 DEF Ring
<1>5. a \notin {old, e} /\ b \notin {old, e} /\ a \in Nodes /\ b \in Nodes
  BY <1>1, <1>3, SpotsDiffer, SpotsOfRings
<1>6. /\ k \in Links
      /\ \A x \in Nodes :
           /\ k.next[x] = IF x = old THEN old ELSE IF x = e THEN b
                          ELSE IF x = a THEN e ELSE l.next[x]
           /\ k.prev[x] = IF x = old THEN old ELSE IF x = e THEN a
                          ELSE IF x = b THEN e ELSE l.prev[x]
  BY <1>1, <1>4, <1>5, ReplaceLinks
<1>7. \A j \in 0..n + 1 : Spot(h, t, j) = IF j = i THEN e ELSE Spot(h, s, j)
  BY <1>1, <1>2 DEF Spot
<1> HIDE DEF t, k, a, b, r, old
<1>8. Ring(k, h, t)
  <2> SUFFICES ASSUME NEW j \in 0..n
               PROVE  /\ k.next[Spot(h, t, j)] = Spot(h, t, j + 1)
                      /\ k.prev[Spot(h, t, j + 1)] = Spot(h, t, j)
    BY <1>2 DEF Ring
  <2>1. CASE j = i
    <3>1. Spot(h, t, j) = e /\ Spot(h, t, j + 1) = b
      BY <1>1, <1>3, <1>7, <2>1
    <3> QED BY <1>1, <1>5, <1>6, <3>1
  <2>2. CASE j = i - 1
    <3>1. Spot(h, t, j) = a /\ Spot(h, t, j + 1) = e
      BY <1>1, <1>3, <1>7, <2>2 DEF a
    <3> QED BY <1>1, <1>5, <1>6, <3>1
  <2>3. CASE j # i /\ j # i - 1
    <3>1. /\ Spot(h, t, j) = Spot(h, s, j) /\ Spot(h, t, j + 1) = Spot(h, s, j + 1)
      BY <1>1, <1>7, <2>3
    <3>2. PICK m \in 0..n : Spot(h, s, j + 1) = Spot(h, s, m) /\ m # i /\ m # r
      <4>1. CASE j = n
        <5>1. Spot(h, s, j + 1) = Spot(h, s, 0) /\ 0 \in 0..n /\ 0 # i /\ 0 # r
          BY <1>1, <2>3, <4>1 DEF Spot, r
        <5> QED BY <5>1
      <4>2. CASE j # n
        <5>1. j + 1 \in 0..n /\ j + 1 # i /\ j + 1 # r
          BY <1>1, <2>3, <4>2 DEF r
        <5> QED BY <5>1
      <4> QED BY <4>1, <4>2
    <3>3. /\ Spot(h, s, j) \notin {a, old} /\ Spot(h, s, j + 1) \notin {b, old}
          /\ Spot(h, s, j) \in Nodes /\ Spot(h, s, j + 1) \in Nodes
      BY <1>1, <1>3, <2>3, <3>2, SpotsDiffer DEF a, b
    <3>4. Spot(h, s, j) # e /\ Spot(h, s, j + 1) # e
      BY <1>1, SpotsOfRings
    <3>5. l.next[Spot(h, s, j)] = Spot(h, s, j + 1) /\ l.prev[Spot(h, s, j + 1)] = Spot(h, s, j)
      BY <1>1 DEF Ring
    <3> QED BY <1>6, <3>1, <3>3, <3>4, <3>5
  <2> QED BY <1>1, <2>1, <2>2, <2>3
<1>9. ASSUME NEW g \in Heads \ {h} PROVE Ring(k, g, ls[g])
  <2> SUFFICES ASSUME NEW j \in 0..Len(ls[g])
               PROVE  /\ k.next[Spot(g, ls[g], j)] = Spot(g, ls[g], j + 1)
                      /\ k.prev[Spot(g, ls[g], j + 1)] = Spot(g, ls[g], j)
    BY DEF Ring
  <2>1. /\ Spot(g, ls[g], j) \notin {a, old} /\ Spot(g, ls[g], j + 1) \notin {b, old}
        /\ Spot(g, ls[g], j) \in Nodes /\ Spot(g, ls[g], j + 1) \in Nodes
    BY <1>1, <1>3, SpotsOfRings DEF a, b
  <2>2. Spot(g, ls[g], j) # e /\ Spot(g, ls[g], j + 1) # e
    BY <1>1, SpotsOfRings
  <2>3. /\ l.next[Spot(g, ls[g], j)] = Spot(g, ls[g], j + 1)
        /\ l.prev[Spot(g, ls[g], j + 1)] = Spot(g, ls[g], j)
    BY <1>1 DEF Ring
  <2> QED BY <1>6, <2>1, <2>2, <2>3
<1>10. ms \in [Heads -> Seq(Elements)] /\ ms[h] = t /\ \A g \in Heads \ {h} : ms[g] = ls[g]
  BY <1>1, <1>2
<1> HIDE DEF ms
<1>11. ASSUME NEW g \in Heads, NEW j \in 1..Len(ms[g])
       PROVE  /\ j \in 1..Len(ls[g])
              /\ \/ g = h /\ j = i /\ ms[g][j] = e
                 \/ ~(g = h /\ j = i) /\ ms[g][j] = ls[g][j] /\ ls[g][j] # e
  <2>1. CASE g = h
    BY <1>1, <1>2, <1>10, <2>1 DEF Unused
  <2>2. CASE g # h
    BY <1>10, <2>2 DEF Unused
  <2> QED BY <2>1, <2>2
<1>12. Once(ms)
  <2> SUFFICES ASSUME NEW g1 \in Heads, NEW g2 \in Heads, NEW j1 \in 1..Len(ms[g1]),
                      NEW j2 \in 1..Len(ms[g2]), ms[g1][j1] = ms[g2][j2]
               PROVE  g1 = g2 /\ j1 = j2
    BY DEF Once
  <2>1. /\ j1 \in 1..Len(ls[g1])
        /\ \/ g1 = h /\ j1 = i /\ ms[g1][j1] = e
           \/ ~(g1 = h /\ j1 = i) /\ ms[g1][j1] = ls[g1][j1] /\ ls[g1][j1] # e
    BY <1>11
  <2>2. /\ j2 \in 1..Len(ls[g2])
        /\ \/ g2 = h /\ j2 = i /\ ms[g2][j2] = e
           \/ ~(g2 = h /\ j2 = i) /\ ms[g2][j2] = ls[g2][j2] /\ ls[g2][j2] # e
    BY <1>11
  <2> QED BY <1>1, <2>1, <2>2 DEF Once
<1>13. ASSUME NEW x \in Elements, Unused(ms, x) PROVE k.next[x] = x /\ k.prev[x] = x
  <2>1. x # e
    <3>1. i \in 1..Len(ms[h]) /\ ms[h][i] = e
      BY <1>1, <1>2, <1>10
    <3> QED BY <1>13, <3>1 DEF Unused
  <2>2. CASE x = old
    BY <1>1, <1>6, <2>2
  <2>3. CASE x # old
    <3>1. ASSUME NEW g \in Heads, NEW j \in 1..Len(ls[g]) PROVE ls[g][j] # x
      <4>1. CASE g # h
        BY <1>10, <1>13, <4>1 DEF Unused
      <4>2. CASE g = h /\ j = i
        BY <2>3, <4>2 DEF old
      <4>3. CASE g = h /\ j # i
        BY <1>1, <1>2, <1>10, <1>13, <4>3 DEF Unused
      <4> QED BY <4>1, <4>2, <4>3
    <3>2. Unused(ls, x)
      BY <3>1 DEF Unused
    <3>3. x # a /\ x # b /\ x \in Nodes
      BY <1>1, <1>3, <3>2, SpotsOfRings DEF a, b, Nodes
    <3> QED BY <1>1, <1>6, <2>1, <2>3, <3>2, <3>3
  <2> QED BY <2>2, <2>3
<1>14. \A g \in Heads : Ring(k, g, ms[g])
  BY <1>8, <1>9, <1>10
<1>15. Represents(k, ms)
  BY <1>6, <1>10, <1>12, <1>13, <1>14 DEF Represents
<1> QED BY <1>15 DEF k, ms, t, old

LEMMA MergedEmpty ==
  ASSUME NEW l, NEW ls, Represents(l, ls), NEW h \in Heads, NEW g \in Heads \ {h}, Len(ls[g]) = 0
  PROVE  /\ Merged(l, h, g) = l
         /\ [ls EXCEPT ![h] = Abstract!Joined(@, ls[g]), ![g] = <<>>] = ls
<1>1. /\ l \in Links /\ ls \in [Heads -> Seq(Elements)] /\ Once(ls)
      /\ h \in Nodes /\ g \in Nodes /\ g # h /\ Ring(l, h, ls[h]) /\ Ring(l, g, ls[g])
      /\ ls[h] \in Seq(Elements) /\ ls[g] \in Seq(Elements) /\ Len(ls[h]) \in Nat
  BY ListsTyped DEF Represents, Nodes
<1> DEFINE a == Spot(h, ls[h], Len(ls[h]))
<1>2. l.next[g] = g /\ l.prev[g] = g
  BY <1>1 DEF Ring, Spot
<1>3. l.prev[h] = a /\ l.next[a] = h
  BY <1>1, SpotEnds DEF Ring
<1>4. a # g
  <2>1. Len(ls[h]) \in 0..Len(ls[h]) /\ 0 \in 0..Len(ls[g]) /\ Spot(g, ls[g], 0) = g
    BY <1>1, SpotEnds
  <2> QED BY <1>1, <2>1, SpotsDiffer, SMTT(30)
<1> HIDE DEF a
<1>5. /\ Merged(l, h, g) \in Links
      /\ \A x \in Nodes : /\ Merged(l, h, g).next[x] = IF x = a THEN h ELSE l.next[x]
                          /\ Merged(l, h, g).prev[x] = l.prev[x]
  BY <1>1, <1>2, <1>3, <1>4, MergedWithNone
<1>6. Merged(l, h, g) = l
  <2>1. \A x \in Nodes : /\ Merged(l, h, g).next[x] = l.next[x]
                         /\ Merged(l, h, g).prev[x] = l.prev[x]
    BY <1>3, <1>5
  <2> QED BY <1>1, <1>5, <2>1 DEF Links
<1>7. ls[g] = <<>>
  BY <1>1, EmptySeq
<1>8. Abstract!Joined(ls[h], ls[g]) = ls[h]
  <2> DEFINE t == Abstract!Joined(ls[h], ls[g])
  <2>1. /\ t \in Seq(Elements) /\ Len(t) = Len(ls[h])
        /\ \A j \in 1..Len(ls[h]) : t[j] = ls[h][j]
    <3>1. /\ t \in Seq(Elements) /\ Len(t) = Len(ls[h]) + Len(ls[g])
          /\ \A j \in 1..Len(ls[h]) + Len(ls[g]) :
               t[j] = IF j <= Len(ls[h]) THEN ls[h][j] ELSE ls[g][j - Len(ls[h])]
      <4>1. ls[h] \in Seq(Elements) /\ ls[g] \in Seq(Elements)
        BY <1>1
      <4> QED BY ONLY <4>1, JoinedSeq
    <3> HIDE DEF t
    <3>2. Len(ls[h]) + Len(ls[g]) = Len(ls[h])
      BY <1>1
    <3> QED BY <1>1, <3>1, <3>2
  <2> HIDE DEF t
  <2>2. t = ls[h]
    BY <1>1, <2>1, SeqEqual
  <2> QED BY <2>2 DEF t
<1> QED BY <1>1, <1>6, <1>7, <1>8

LEMMA MergedFull ==
  ASSUME NEW l, NEW ls, Represents(l, ls), NEW h \in Heads, NEW g \in Heads \ {h}, Len(ls[g]) # 0
  PROVE  Represents(Merged(l, h, g), [ls EXCEPT ![h] = Abstract!Joined(@, ls[g]), ![g] = <<>>])
<1> DEFINE s == ls[h]
           u == ls[g]
           n == Len(s)
           m == Len(u)
           t == Abstract!Joined(s, u)
           a == Spot(h, s, n)
           b == Spot(g, u, 1)
           c == Spot(g, u, m)
           k == Merged(l, h, g)
           ms == [ls EXCEPT ![h] = t, ![g] = <<>>]
<1>1. /\ l \in Links /\ ls \in [Heads -> Seq(Elements)] /\ Once(ls)
      /\ \A f \in Heads : Ring(l, f, ls[f])
      /\ \A x \in Elements : Unused(ls, x) => l.next[x] = x /\ l.prev[x] = x
      /\ s \in Seq(Elements) /\ n \in Nat /\ u \in Seq(Elements) /\ m \in Nat /\ m >= 1
      /\ h \in Nodes /\ g \in Nodes /\ g # h
  BY ListsTyped DEF Represents, Nodes
<1>2. /\ t \in Seq(Elements) /\ Len(t) = n + m
      /\ \A j \in 1..n + m : t[j] = IF j <= n THEN s[j] ELSE u[j - n]
  BY <1>1, JoinedSeq
<1>3. /\ n \in 0..n /\ 0 \in 0..n /\ 1 \in 0..m /\ m \in 0..m /\ 0 \in 0..m
      /\ Spot(h, s, 0) = h /\ Spot(h, s, n + 1) = h
      /\ Spot(g, u, 0) = g /\ Spot(g, u, m + 1) = g /\ 0 + 1 = 1
  BY <1>1, SpotEnds
<1>4. l.prev[h] = a /\ l.next[g] = b /\ l.prev[g] = c
  BY <1>1, <1>3 DEF Ring
<1>5. a # g /\ b \notin {g, h} /\ c \notin {g, h, a} /\ a # b
      /\ a \in Nodes /\ b \in Nodes /\ c \in Nodes
  <2>1. a # g /\ b # h /\ c # h /\ c # a /\ a # b
    BY <1>1, <1>3, SpotsDiffer
  <2>2. b # g /\ c # g
    BY <1>1, <1>3, SpotsDiffer
  <2>3. a \in Nodes /\ b \in Nodes /\ c \in Nodes
    BY <1>1, <1>3, SpotsDiffer
  <2> QED BY <2>1, <2>2, <2>3
<1>6. /\ k \in Links
      /\ \A x \in Nodes :
           /\ k.next[x] = IF x = g THEN g ELSE IF x = c THEN h ELSE IF x = a THEN b ELSE l.next[x]
           /\ k.prev[x] = IF x = g THEN g ELSE IF x = h THEN c ELSE IF x = b THEN a ELSE l.prev[x]
  BY <1>1, <1>4, <1>5, MergedLinks
<1>7. \A j \in 0..n + m + 1 :
        Spot(h, t, j) = IF j <= n THEN Spot(h, s, j) ELSE IF j <= n + m THEN Spot(g, u, j - n) ELSE h
  BY <1>1, <1>2 DEF Spot
<1> HIDE DEF t, k, a, b, c
<1>8. Ring(k, h, t)
  <2> SUFFICES ASSUME NEW j \in 0..n + m
               PROVE  /\ k.next[Spot(h, t, j)] = Spot(h, t, j + 1)
                      /\ k.prev[Spot(h, t, j + 1)] = Spot(h, t, j)
    BY <1>2 DEF Ring
  <2>1. CASE j < n
    <3>1. /\ Spot(h, t, j) = Spot(h, s, j) /\ Spot(h, t, j + 1) = Spot(h, s, j + 1)
          /\ j \in 0..n /\ j + 1 \in 0..n /\ j # n /\ j + 1 # 0
      BY <1>1, <1>7, <2>1
    <3>2. /\ Spot(h, s, j) # a /\ Spot(h, s, j + 1) # h
          /\ Spot(h, s, j) \in Nodes /\ Spot(h, s, j + 1) \in Nodes
      BY <1>1, <1>3, <3>1, SpotsDiffer DEF a
    <3>3. Spot(h, s, j) \notin {g, c} /\ Spot(h, s, j + 1) \notin {g, b}
      BY <1>1, <1>3, <3>1, SpotsDiffer DEF b, c
    <3>4. l.next[Spot(h, s, j)] = Spot(h, s, j + 1) /\ l.prev[Spot(h, s, j + 1)] = Spot(h, s, j)
      BY <1>1, <3>1 DEF Ring
    <3> QED BY <1>6, <3>1, <3>2, <3>3, <3>4
  <2>2. CASE j = n
    <3>1. Spot(h, t, j) = a /\ Spot(h, t, j + 1) = b
      <4>1. j \in 0..n + m + 1 /\ j + 1 \in 0..n + m + 1 /\ j <= n /\ ~(j + 1 <= n)
            /\ j + 1 <= n + m /\ (j + 1) - n = 1
        BY <1>1, <2>2
      <4> QED BY <1>7, <2>2, <4>1 DEF a, b
    <3> QED BY <1>1, <1>5, <1>6, <3>1
  <2>3. CASE j > n /\ j < n + m
    <3>1. /\ Spot(h, t, j) = Spot(g, u, j - n) /\ Spot(h, t, j + 1) = Spot(g, u, (j - n) + 1)
          /\ j - n \in 0..m /\ (j - n) + 1 \in 0..m /\ j - n # 0 /\ j - n # m
          /\ (j - n) + 1 # 0 /\ (j - n) + 1 # 1
      <4>1. j \in 0..n + m + 1 /\ j + 1 \in 0..n + m + 1 /\ ~(j <= n) /\ ~(j + 1 <= n)
            /\ j <= n + m /\ j + 1 <= n + m /\ (j + 1) - n = (j - n) + 1
        BY <1>1, <2>3
      <4>2. /\ j - n \in 0..m /\ (j - n) + 1 \in 0..m /\ j - n # 0 /\ j - n # m
            /\ (j - n) + 1 # 0 /\ (j - n) + 1 # 1
        BY <1>1, <2>3
      <4> QED BY <1>7, <4>1, <4>2
    <3> DEFINE i == j - n
    <3> HIDE DEF i
    <3>2. /\ Spot(g, u, i) \notin {g, c} /\ Spot(g, u, i + 1) \notin {g, b}
          /\ Spot(g, u, i) \in Nodes /\ Spot(g, u, i + 1) \in Nodes
      <4>1. /\ i \in 0..m /\ i + 1 \in 0..m /\ i # 0 /\ i # m /\ i + 1 # 0 /\ i + 1 # 1
            /\ 0 \in 0..m /\ 1 \in 0..m /\ m \in 0..m
        BY <1>1, <3>1 DEF i
      <4>2. \A p, q \in 0..m : Spot(g, u, p) \in Nodes /\ (Spot(g, u, p) = Spot(g, u, q) => p = q)
        BY <1>1, SpotsDiffer
      <4>3. Spot(g, u, 0) = g
        BY DEF Spot
      <4> QED BY <4>1, <4>2, <4>3 DEF b, c
    <3>3. Spot(g, u, i) # a /\ Spot(g, u, i + 1) # h
      <4>1. i \in 0..m /\ i + 1 \in 0..m
        BY <3>1 DEF i
      <4>2. Spot(g, u, i) # Spot(h, s, n) /\ Spot(g, u, i + 1) # Spot(h, s, 0)
        BY <1>1, <1>3, <4>1, SpotsDiffer
      <4> QED BY <1>3, <4>2 DEF a
    <3>4. l.next[Spot(g, u, i)] = Spot(g, u, i + 1) /\ l.prev[Spot(g, u, i + 1)] = Spot(g, u, i)
      BY <1>1, <3>1 DEF Ring, i
    <3>5. Spot(h, t, j) = Spot(g, u, i) /\ Spot(h, t, j + 1) = Spot(g, u, i + 1)
      BY <3>1 DEF i
    <3> QED BY <1>6, <3>2, <3>3, <3>4, <3>5
  <2>4. CASE j = n + m
    <3>1. Spot(h, t, j) = c /\ Spot(h, t, j + 1) = h
      <4>1. j \in 0..n + m + 1 /\ j + 1 \in 0..n + m + 1 /\ ~(j <= n) /\ ~(j + 1 <= n)
            /\ j <= n + m /\ ~(j + 1 <= n + m) /\ j - n = m
        BY <1>1, <2>4
      <4> QED BY <1>7, <4>1 DEF c
    <3> QED BY <1>1, <1>5, <1>6, <3>1
  <2>5. j < n \/ j = n \/ (j > n /\ j < n + m) \/ j = n + m
    <3>1. n \in Nat /\ m \in Nat /\ j \in 0..n + m
      BY <1>1
    <3> HIDE DEF n, m
    <3> QED BY <3>1
  <2> QED BY <2>1, <2>2, <2>3, <2>4, <2>5
<1>9. ASSUME NEW f \in Heads \ {g, h} PROVE Ring(k, f, ls[f])
  <2> SUFFICES ASSUME NEW j \in 0..Len(ls[f])
               PROVE  /\ k.next[Spot(f, ls[f], j)] = Spot(f, ls[f], j + 1)
                      /\ k.prev[Spot(f, ls[f], j + 1)] = Spot(f, ls[f], j)
    BY DEF Ring
  <2>1. /\ Spot(f, ls[f], j) # a /\ Spot(f, ls[f], j + 1) # h
        /\ Spot(f, ls[f], j) \in Nodes /\ Spot(f, ls[f], j + 1) \in Nodes
    BY <1>1, <1>3, SpotsOfRings DEF a
  <2>2. Spot(f, ls[f], j) \notin {c, g} /\ Spot(f, ls[f], j + 1) \notin {b, g}
    BY <1>1, <1>3, SpotsOfRings, SMTT(30) DEF b, c
  <2>3. /\ l.next[Spot(f, ls[f], j)] = Spot(f, ls[f], j + 1)
        /\ l.prev[Spot(f, ls[f], j + 1)] = Spot(f, ls[f], j)
    BY <1>1 DEF Ring
  <2> QED BY <1>6, <2>1, <2>2, <2>3
<1>10. /\ ms \in [Heads -> Seq(Elements)] /\ ms[h] = t /\ ms[g] = <<>>
       /\ \A f \in Heads \ {g, h} : ms[f] = ls[f]
  BY <1>1, <1>2, EmptySeq
<1> HIDE DEF ms
<1>11. Ring(k, g, <<>>)
  <2>1. Len(<<>>) = 0 /\ k.next[g] = g /\ k.prev[g] = g
    BY <1>1, <1>6, EmptySeq
  <2> QED BY <2>1 DEF Ring, Spot
<1> DEFINE From(f, j) == IF f = h /\ j > n THEN g ELSE f
           Old(f, j) == IF f = h /\ j > n THEN j - n ELSE j
<1>12. ASSUME NEW f \in Heads, NEW j \in 1..Len(ms[f])
       PROVE  /\ From(f, j) \in Heads /\ Old(f, j) \in 1..Len(ls[From(f, j)])
              /\ ms[f][j] = ls[From(f, j)][Old(f, j)] /\ f # g
  <2>1. CASE f = h
    BY <1>1, <1>2, <1>10, <2>1
  <2>2. CASE f = g
    BY <1>10, <2>2, EmptySeq
  <2>3. CASE f \notin {g, h}
    BY <1>10, <2>3
  <2> QED BY <2>1, <2>2, <2>3
<1>13. Once(ms)
  <2> SUFFICES ASSUME NEW g1 \in Heads, NEW g2 \in Heads, NEW j1 \in 1..Len(ms[g1]),
                      NEW j2 \in 1..Len(ms[g2]), ms[g1][j1] = ms[g2][j2]
               PROVE  g1 = g2 /\ j1 = j2
    BY DEF Once
  <2>1. From(g1, j1) = From(g2, j2) /\ Old(g1, j1) = Old(g2, j2)
    <3> HIDE DEF From, Old
    <3>1. /\ From(g1, j1) \in Heads /\ Old(g1, j1) \in 1..Len(ls[From(g1, j1)])
          /\ From(g2, j2) \in Heads /\ Old(g2, j2) \in 1..Len(ls[From(g2, j2)])
          /\ ls[From(g1, j1)][Old(g1, j1)] = ls[From(g2, j2)][Old(g2, j2)]
      BY <1>12
    <3> QED BY <1>1, <3>1, SMTT(30) DEF Once
  <2>2. g1 # g /\ g2 # g
    BY <1>12
  <2> QED BY <1>1, <2>1, <2>2
<1>14. ASSUME NEW x \in Elements, Unused(ms, x) PROVE k.next[x] = x /\ k.prev[x] = x
  <2>1. ASSUME NEW f \in Heads, NEW j \in 1..Len(ls[f]) PROVE ls[f][j] # x
    <3>1. CASE f = h
      <4>1. j \in 1..Len(ms[h]) /\ ms[h][j] = ls[f][j]
        BY <1>1, <1>2, <1>10, <3>1
      <4> QED BY <1>14, <4>1 DEF Unused
    <3>2. CASE f = g
      <4>1. j + n \in 1..Len(ms[h]) /\ ms[h][j + n] = ls[f][j]
        <5>1. j \in 1..m /\ ls[f] = u
          BY <3>2
        <5>2. j + n \in 1..n + m /\ ~(j + n <= n) /\ (j + n) - n = j
          BY <1>1, <5>1
        <5> QED BY <1>2, <1>10, <5>1, <5>2
      <4> QED BY <1>14, <4>1 DEF Unused
    <3>3. CASE f \notin {g, h}
      BY <1>10, <1>14, <3>3 DEF Unused
    <3> QED BY <3>1, <3>2, <3>3
  <2>2. Unused(ls, x)
    BY <2>1 DEF Unused
  <2>3. x \notin {a, b, c, g, h} /\ x \in Nodes
    <3>1. x # Spot(h, s, n) /\ x # Spot(g, u, 1) /\ x # Spot(g, u, m)
      BY <1>1, <1>3, <2>2, SpotsOfRings
    <3>2. x # g /\ x # h /\ x \in Nodes
      BY DEF Nodes, NodesAssumption
    <3> QED BY <3>1, <3>2 DEF a, b, c
  <2> QED BY <1>1, <1>6, <2>2, <2>3
<1>15. \A f \in Heads : Ring(k, f, ms[f])
  BY <1>8, <1>9, <1>10, <1>11
<1>16. Represents(k, ms)
  BY <1>6, <1>10, <1>13, <1>14, <1>15 DEF Represents
<1> QED BY <1>16 DEF k, ms, t

(***************************************************************************)
(* The walk along the links finds the sequence that they represent.        *)
(***************************************************************************)
LEMMA WalkFindsList ==
  ASSUME NEW l, NEW ls, Represents(l, ls), NEW h \in Heads
  PROVE  Walk(l, h, Len(ls[h])) = ls[h]
<1> DEFINE s == ls[h]
           n == Len(s)
           W(q) == q = [i \in 1..n |-> IF i = 1 THEN l.next[h] ELSE l.next[q[i - 1]]]
<1>1. s \in Seq(Elements) /\ n \in Nat /\ Ring(l, h, s) /\ s \in [1..n -> Elements]
  BY ListsTyped, SeqFacts DEF Represents
<1>2. ASSUME NEW i \in 1..n
      PROVE  s[i] = IF i = 1 THEN l.next[h] ELSE l.next[s[i - 1]]
  <2>1. i - 1 \in 0..n /\ (i - 1) + 1 = i /\ i \in 1..n
    BY <1>1
  <2>2. l.next[Spot(h, s, i - 1)] = Spot(h, s, i)
    BY <1>1, <2>1 DEF Ring
  <2>3. Spot(h, s, i) = s[i] /\ Spot(h, s, i - 1) = IF i = 1 THEN h ELSE s[i - 1]
    BY <1>1, <2>1 DEF Spot
  <2> QED BY <2>2, <2>3
<1>3. W(s)
  BY <1>1, <1>2
<1>4. Walk(l, h, n) = CHOOSE q : W(q)
  BY DEF Walk
<1>5. W(Walk(l, h, n))
  <2> HIDE DEF W
  <2> QED BY <1>3, <1>4
<1> DEFINE q == Walk(l, h, n)
           Bad == {i \in 1..n : q[i] # s[i]}
<1>6. /\ q = [i \in 1..n |-> IF i = 1 THEN l.next[h] ELSE l.next[q[i - 1]]]
  BY <1>5
<1> HIDE DEF q, W
<1>7. Bad = {}
  <2> SUFFICES ASSUME Bad # {} PROVE FALSE
    OBVIOUS
  <2>1. PICK m \in Bad : \A i \in Bad : m <= i
    <3>1. Bad \subseteq Nat
      BY <1>1
    <3> HIDE DEF Bad
    <3> QED BY <3>1, LeastNumber
  <2>2. m \in 1..n /\ q[m] # s[m]
    BY <2>1
  <2>3. CASE m = 1
    BY <1>2, <1>6, <2>2, <2>3
  <2>4. CASE m # 1
    <3>1. m - 1 \in 1..n /\ ~(m <= m - 1)
      BY <1>1, <2>2, <2>4
    <3>2. q[m - 1] = s[m - 1]
      BY <2>1, <3>1
    <3>3. q[m] = l.next[q[m - 1]]
      BY <1>6, <2>2, <2>4
    <3>4. s[m] = l.next[s[m - 1]]
      BY <1>2, <2>2, <2>4
    <3> QED BY <2>2, <3>2, <3>3, <3>4
  <2> QED BY <2>3, <2>4
<1>8. q = s
  <2>1. \A i \in 1..n : q[i] = s[i]
    BY <1>7
  <2>2. q \in [1..n -> Elements]
    <3>1. q = [i \in 1..n |-> q[i]]
      BY <1>6
    <3> QED BY <1>1, <2>1, <3>1
  <2> QED BY <1>1, <2>1, <2>2
<1> QED BY <1>8 DEF q

\* The check of push accepts an element exactly when no list has it.
LEMMA StandaloneUnused ==
  ASSUME NEW l, NEW ls, Represents(l, ls), NEW e \in Elements
  PROVE  DLINK_IS_STANDALONE(l, e) <=> Unused(ls, e)
<1>1. /\ ls \in [Heads -> Seq(Elements)] /\ Once(ls) /\ \A h \in Heads : Ring(l, h, ls[h])
      /\ Unused(ls, e) => l.next[e] = e /\ l.prev[e] = e
  BY DEF Represents
<1>2. ASSUME NEW h \in Heads, NEW i \in 1..Len(ls[h]), ls[h][i] = e PROVE l.next[e] # e
  <2>1. Len(ls[h]) \in Nat /\ i \in 0..Len(ls[h]) /\ Spot(h, ls[h], i) = e
    BY <1>1, <1>2, ListsTyped DEF Spot
  <2>2. l.next[e] = Spot(h, ls[h], i + 1)
    BY <1>1, <2>1 DEF Ring
  <2>3. CASE i = Len(ls[h])
    <3>1. Spot(h, ls[h], i + 1) = h
      BY <1>1, <2>3, SpotEnds
    <3> QED BY <2>2, <3>1, NodesAssumption
  <2>4. CASE i # Len(ls[h])
    <3>1. i + 1 \in 0..Len(ls[h]) /\ i + 1 # i
      BY <2>1, <2>4
    <3>2. Spot(h, ls[h], i + 1) # Spot(h, ls[h], i)
      BY <1>1, <2>1, <3>1, SpotsDiffer
    <3> QED BY <2>1, <2>2, <3>2
  <2> QED BY <2>3, <2>4
<1> QED BY <1>1, <1>2 DEF DLINK_IS_STANDALONE, Unused

\* The ends of a list as its head sees them.
LEMMA EndsOfList ==
  ASSUME NEW l, NEW ls, Represents(l, ls), NEW h \in Heads
  PROVE  /\ Len(ls[h]) \in Nat
         /\ l.next[h] # h => 1 \in 1..Len(ls[h]) /\ l.next[h] = ls[h][1]
         /\ l.prev[h] # h => Len(ls[h]) \in 1..Len(ls[h]) /\ l.prev[h] = ls[h][Len(ls[h])]
<1> DEFINE s == ls[h]
           n == Len(s)
<1>1. s \in Seq(Elements) /\ n \in Nat /\ Ring(l, h, s)
  BY ListsTyped DEF Represents
<1>2. 0 \in 0..n /\ n \in 0..n /\ Spot(h, s, 0) = h /\ Spot(h, s, n + 1) = h
  BY <1>1, SpotEnds
<1>3. l.next[h] = Spot(h, s, 0 + 1) /\ l.prev[h] = Spot(h, s, n)
  BY <1>1, <1>2 DEF Ring
<1>4. CASE n = 0
  BY <1>1, <1>3, <1>4 DEF Spot
<1>5. CASE n # 0
  BY <1>1, <1>3, <1>5 DEF Spot
<1> QED BY <1>4, <1>5

(***************************************************************************)
(* The inductive invariant.                                                *)
(***************************************************************************)
Has(s, e) == \E i \in 1..Len(s) : s[i] = e

Counts(ls) == m_count \in [Heads -> Nat] /\ \A h \in Heads : m_count[h] = Len(ls[h])

Indexed(ls) ==
  /\ m_Indexer \in [Keys -> Elements \union {NULL}]
  /\ \A e \in Elements : m_Indexer[key[e]] = e <=> Has(ls[Queue], e)
  /\ \A k \in Keys : m_Indexer[k] \in Elements => key[m_Indexer[k]] = k

Holds(ls) == Represents(links, ls) /\ Counts(ls) /\ Indexed(ls)

IInv == \E ls : Holds(ls)

\* What the list operators do to the elements of a sequence.
LEMMA HasAtBack ==
  ASSUME NEW s \in Seq(Elements), NEW e \in Elements, NEW x
  PROVE  Has(Abstract!AtBack(s, e), x) <=> Has(s, x) \/ x = e
<1> DEFINE t == Abstract!AtBack(s, e)
<1>1. /\ Len(s) \in Nat /\ Len(t) = Len(s) + 1
      /\ \A j \in 1..Len(s) + 1 : t[j] = IF j <= Len(s) THEN s[j] ELSE e
  BY AtBackSeq, SeqFacts
<1> HIDE DEF t
<1>2. ASSUME NEW i \in 1..Len(t), t[i] = x PROVE Has(s, x) \/ x = e
  <2>1. CASE i <= Len(s)
    BY <1>1, <1>2, <2>1 DEF Has
  <2>2. CASE ~(i <= Len(s))
    BY <1>1, <1>2, <2>2
  <2> QED BY <2>1, <2>2
<1>3. ASSUME NEW i \in 1..Len(s), s[i] = x PROVE i \in 1..Len(t) /\ t[i] = x
  BY <1>1, <1>3
<1>4. Len(s) + 1 \in 1..Len(t) /\ t[Len(s) + 1] = e
  BY <1>1
<1>5. Has(t, x) <=> Has(s, x) \/ x = e
  BY <1>2, <1>3, <1>4 DEF Has
<1> QED BY <1>5 DEF t

LEMMA HasAtFront ==
  ASSUME NEW s \in Seq(Elements), NEW e \in Elements, NEW x
  PROVE  Has(Abstract!AtFront(s, e), x) <=> Has(s, x) \/ x = e
<1> DEFINE t == Abstract!AtFront(s, e)
<1>1. /\ Len(s) \in Nat /\ Len(t) = Len(s) + 1
      /\ \A j \in 1..Len(s) + 1 : t[j] = IF j = 1 THEN e ELSE s[j - 1]
  BY AtFrontSeq, SeqFacts
<1> HIDE DEF t
<1>2. ASSUME NEW i \in 1..Len(t), t[i] = x PROVE Has(s, x) \/ x = e
  <2>1. CASE i = 1
    BY <1>1, <1>2, <2>1
  <2>2. CASE i # 1
    <3>1. i - 1 \in 1..Len(s) /\ s[i - 1] = x
      BY <1>1, <1>2, <2>2
    <3> QED BY <3>1 DEF Has
  <2> QED BY <2>1, <2>2
<1>3. ASSUME NEW i \in 1..Len(s), s[i] = x PROVE i + 1 \in 1..Len(t) /\ t[i + 1] = x
  BY <1>1, <1>3
<1>4. 1 \in 1..Len(t) /\ t[1] = e
  BY <1>1
<1>5. Has(t, x) <=> Has(s, x) \/ x = e
  BY <1>2, <1>3, <1>4 DEF Has
<1> QED BY <1>5 DEF t

LEMMA HasWithout ==
  ASSUME NEW s \in Seq(Elements), NEW i \in 1..Len(s), NEW x,
         \A j, k \in 1..Len(s) : s[j] = s[k] => j = k
  PROVE  Has(Abstract!Without(s, i), x) <=> Has(s, x) /\ x # s[i]
<1> DEFINE t == Abstract!Without(s, i)
<1>1. /\ Len(s) \in Nat /\ Len(t) = Len(s) - 1
      /\ \A j \in 1..Len(s) - 1 : t[j] = IF j < i THEN s[j] ELSE s[j + 1]
  BY WithoutSeq, SeqFacts
<1> HIDE DEF t
<1>2. ASSUME NEW j \in 1..Len(t), t[j] = x PROVE Has(s, x) /\ x # s[i]
  <2>1. CASE j < i
    <3>1. j \in 1..Len(s) /\ s[j] = x /\ j # i
      BY <1>1, <1>2, <2>1
    <3> QED BY <3>1 DEF Has
  <2>2. CASE ~(j < i)
    <3>1. j + 1 \in 1..Len(s) /\ s[j + 1] = x /\ j + 1 # i
      BY <1>1, <1>2, <2>2
    <3> QED BY <3>1 DEF Has
  <2> QED BY <2>1, <2>2
<1>3. ASSUME NEW j \in 1..Len(s), s[j] = x, x # s[i] PROVE Has(t, x)
  <2>1. CASE j < i
    <3>1. j \in 1..Len(t) /\ t[j] = x
      BY <1>1, <1>3, <2>1
    <3> QED BY <3>1 DEF Has
  <2>2. CASE j > i
    <3>1. j - 1 \in 1..Len(t) /\ t[j - 1] = x
      BY <1>1, <1>3, <2>2
    <3> QED BY <3>1 DEF Has
  <2>3. j # i /\ j \in Int /\ i \in Int
    BY <1>3
  <2> QED BY <2>1, <2>2, <2>3
<1>4. Has(t, x) <=> Has(s, x) /\ x # s[i]
  BY <1>2, <1>3 DEF Has
<1> QED BY <1>4 DEF t

LEMMA HasReplaced ==
  ASSUME NEW s \in Seq(Elements), NEW i \in 1..Len(s), NEW e \in Elements, NEW x,
         \A j, k \in 1..Len(s) : s[j] = s[k] => j = k
  PROVE  Has(Abstract!Replaced(s, i, e), x) <=> (Has(s, x) /\ x # s[i]) \/ x = e
<1> DEFINE t == Abstract!Replaced(s, i, e)
<1>1. Len(t) = Len(s) /\ \A j \in 1..Len(s) : t[j] = IF j = i THEN e ELSE s[j]
  BY ReplacedSeq
<1> HIDE DEF t
<1>2. Has(t, x) <=> (Has(s, x) /\ x # s[i]) \/ x = e
  BY <1>1 DEF Has
<1> QED BY <1>2 DEF t

\* Under the invariant the lists of DoubleList are the sequences,
LEMMA Serves ==
  ASSUME NEW ls, Holds(ls)
  PROVE  lists = ls /\ \A h \in Heads : Contents(h) = ls[h] /\ m_count[h] = Len(ls[h])
<1>1. \A h \in Heads : Contents(h) = ls[h] /\ m_count[h] = Len(ls[h])
  BY WalkFindsList DEF Holds, Counts, Contents
<1>2. ls = [h \in Heads |-> ls[h]]
  BY DEF Holds, Represents
<1> QED BY <1>1, <1>2 DEF lists

\* and after a step that keeps it those of the next state.
LEMMA ServesNext ==
  ASSUME NEW ms, Holds(ms)'
  PROVE  lists' = ms /\ IInv'
<1>1. Represents(links', ms) /\ \A h \in Heads : m_count'[h] = Len(ms[h])
  BY DEF Holds, Counts
<1>2. \A h \in Heads : Contents(h)' = ms[h]
  BY <1>1, WalkFindsList DEF Contents
<1>3. ms = [h \in Heads |-> ms[h]]
  BY <1>1 DEF Represents
<1> QED BY <1>2, <1>3 DEF lists, IInv

\* What every step lemma starts from.
LEMMA HoldsFacts ==
  ASSUME NEW ls, Holds(ls)
  PROVE  /\ Represents(links, ls) /\ ls \in [Heads -> Seq(Elements)] /\ links \in Links
         /\ \A h \in Heads : /\ ls[h] \in Seq(Elements) /\ Len(ls[h]) \in Nat
                             /\ \A i \in 1..Len(ls[h]) : ls[h][i] \in Elements
                             /\ \A i, j \in 1..Len(ls[h]) : ls[h][i] = ls[h][j] => i = j
         /\ Queue \in Heads /\ \A h \in Lists : h \in Heads /\ h # Queue
  BY ListsTyped DEF Holds, Represents, Once, Heads, NodesAssumption

\* Steps that leave the keyed queue and its index alone.
LEMMA IndexStays ==
  ASSUME NEW ls, NEW ms, Indexed(ls), m_Indexer' = m_Indexer,
         \A e \in Elements : Has(ms[Queue], e) <=> Has(ls[Queue], e)
  PROVE  Indexed(ms)'
BY DEF Indexed

\* One more at the end of a list, whatever else the call does.
LEMMA AddedBack ==
  ASSUME NEW ls, Holds(ls), NEW h \in Heads, NEW e \in Elements, DLINK_IS_STANDALONE(links, e),
         links' = DLINK_INSERT_PREV(links, h, e), Counted(h, 1)
  PROVE  LET ms == [ls EXCEPT ![h] = Abstract!AtBack(@, e)]
         IN Represents(links', ms) /\ Counts(ms)' /\ Unused(ls, e)
<1> DEFINE ms == [ls EXCEPT ![h] = Abstract!AtBack(@, e)]
<1>1. Unused(ls, e)
  BY HoldsFacts, StandaloneUnused
<1>2. Represents(links', ms)
  BY <1>1, HoldsFacts, InsertedBack
<1>3. /\ ms[h] = Abstract!AtBack(ls[h], e) /\ \A g \in Heads \ {h} : ms[g] = ls[g]
      /\ Len(Abstract!AtBack(ls[h], e)) = Len(ls[h]) + 1
  <2>1. ls \in [Heads -> Seq(Elements)] /\ ls[h] \in Seq(Elements) /\ Len(ls[h]) \in Nat
    BY HoldsFacts
  <2>2. /\ Len(Abstract!AtBack(ls[h], e)) = Len(ls[h]) + 1
    BY <2>1, AtBackSeq
  <2>3. ms[h] = Abstract!AtBack(ls[h], e) /\ \A g \in Heads \ {h} : ms[g] = ls[g]
    BY <2>1
  <2> QED BY <2>1, <2>2, <2>3
<1>4. Counts(ms)'
  <2> HIDE DEF ms
  <2> QED BY <1>3 DEF Holds, Counts, Counted
<1> QED BY <1>1, <1>2, <1>4

LEMMA AddedFront ==
  ASSUME NEW ls, Holds(ls), NEW h \in Heads, NEW e \in Elements, DLINK_IS_STANDALONE(links, e),
         links' = DLINK_INSERT_NEXT(links, h, e), Counted(h, 1)
  PROVE  LET ms == [ls EXCEPT ![h] = Abstract!AtFront(@, e)]
         IN Represents(links', ms) /\ Counts(ms)' /\ Unused(ls, e)
<1> DEFINE ms == [ls EXCEPT ![h] = Abstract!AtFront(@, e)]
<1>1. Unused(ls, e)
  BY HoldsFacts, StandaloneUnused
<1>2. Represents(links', ms)
  BY <1>1, HoldsFacts, InsertedFront
<1>3. /\ ms[h] = Abstract!AtFront(ls[h], e) /\ \A g \in Heads \ {h} : ms[g] = ls[g]
      /\ Len(Abstract!AtFront(ls[h], e)) = Len(ls[h]) + 1
  <2>1. ls \in [Heads -> Seq(Elements)] /\ ls[h] \in Seq(Elements) /\ Len(ls[h]) \in Nat
    BY HoldsFacts
  <2>2. /\ Len(Abstract!AtFront(ls[h], e)) = Len(ls[h]) + 1
    BY <2>1, AtFrontSeq
  <2>3. ms[h] = Abstract!AtFront(ls[h], e) /\ \A g \in Heads \ {h} : ms[g] = ls[g]
    BY <2>1
  <2> QED BY <2>1, <2>2, <2>3
<1>4. Counts(ms)'
  <2> HIDE DEF ms
  <2> QED BY <1>3 DEF Holds, Counts, Counted
<1> QED BY <1>1, <1>2, <1>4

\* One less.
LEMMA Taken ==
  ASSUME NEW ls, Holds(ls), NEW h \in Heads, NEW i \in 1..Len(ls[h]),
         links' = TakenOut(links, ls[h][i]), Counted(h, -1)
  PROVE  LET ms == [ls EXCEPT ![h] = Abstract!Without(@, i)]
         IN Represents(links', ms) /\ Counts(ms)'
<1> DEFINE ms == [ls EXCEPT ![h] = Abstract!Without(@, i)]
<1>1. Represents(links', ms)
  BY HoldsFacts, Removed
<1>2. /\ ms[h] = Abstract!Without(ls[h], i) /\ \A g \in Heads \ {h} : ms[g] = ls[g]
      /\ Len(Abstract!Without(ls[h], i)) = Len(ls[h]) - 1 /\ Len(ls[h]) \in Nat
      /\ Len(ls[h]) - 1 \in Nat
  <2>1. ls \in [Heads -> Seq(Elements)] /\ ls[h] \in Seq(Elements) /\ Len(ls[h]) \in Nat
    BY HoldsFacts
  <2>2. /\ Len(Abstract!Without(ls[h], i)) = Len(ls[h]) - 1 /\ Len(ls[h]) \in Nat
        /\ Len(ls[h]) - 1 \in Nat
    BY <2>1, WithoutSeq
  <2>3. ms[h] = Abstract!Without(ls[h], i) /\ \A g \in Heads \ {h} : ms[g] = ls[g]
    BY <2>1
  <2> QED BY <2>1, <2>2, <2>3
<1>3. Counts(ms)'
  <2> HIDE DEF ms
  <2> QED BY <1>2 DEF Holds, Counts, Counted
<1> QED BY <1>1, <1>3

\* An element taken out is used by no list.
LEMMA TakenUnused ==
  ASSUME NEW l, NEW ls, Represents(l, ls), NEW h \in Heads, NEW i \in 1..Len(ls[h])
  PROVE  Unused([ls EXCEPT ![h] = Abstract!Without(@, i)], ls[h][i])
<1>1. /\ ls \in [Heads -> Seq(Elements)] /\ ls[h] \in Seq(Elements)
      /\ \A j, k \in 1..Len(ls[h]) : ls[h][j] = ls[h][k] => j = k
      /\ \A g \in Heads \ {h} : \A j \in 1..Len(ls[g]) : ls[g][j] # ls[h][i]
  BY ListsTyped DEF Represents, Once
<1>2. ~Has(Abstract!Without(ls[h], i), ls[h][i])
  BY <1>1, HasWithout
<1> QED BY <1>1, <1>2 DEF Unused, Has

(***************************************************************************)
(* Every call keeps the invariant and is a call of ElementLists.           *)
(***************************************************************************)
LEMMA PushBackStep ==
  ASSUME NEW ls, Holds(ls), NEW h \in Lists, NEW e \in Elements, push_back(h, e)
  PROVE  IInv' /\ Abstract!Next
<1> DEFINE ms == [ls EXCEPT ![h] = Abstract!AtBack(@, e)]
<1>1. Represents(links', ms) /\ Counts(ms)' /\ Unused(ls, e)
  BY HoldsFacts, AddedBack DEF push_back
<1>2. ms[Queue] = ls[Queue]
  BY HoldsFacts
<1> HIDE DEF ms
<1>3. Holds(ms)'
  BY <1>1, <1>2, IndexStays DEF Holds, push_back
<1>4. lists = ls /\ lists' = ms /\ IInv'
  BY <1>3, Serves, ServesNext
<1>5. Abstract!PushBack(h, e)
  BY <1>1, <1>4 DEF Abstract!PushBack, Abstract!Free, Abstract!Heads, Heads, Unused, ms
<1> QED BY <1>4, <1>5 DEF Abstract!Next

LEMMA PushFrontStep ==
  ASSUME NEW ls, Holds(ls), NEW h \in Lists, NEW e \in Elements, push_front(h, e)
  PROVE  IInv' /\ Abstract!Next
<1> DEFINE ms == [ls EXCEPT ![h] = Abstract!AtFront(@, e)]
<1>1. Represents(links', ms) /\ Counts(ms)' /\ Unused(ls, e)
  BY HoldsFacts, AddedFront DEF push_front
<1>2. ms[Queue] = ls[Queue]
  BY HoldsFacts
<1> HIDE DEF ms
<1>3. Holds(ms)'
  BY <1>1, <1>2, IndexStays DEF Holds, push_front
<1>4. lists = ls /\ lists' = ms /\ IInv'
  BY <1>3, Serves, ServesNext
<1>5. Abstract!PushFront(h, e)
  BY <1>1, <1>4 DEF Abstract!PushFront, Abstract!Free, Abstract!Heads, Heads, Unused, ms
<1> QED BY <1>4, <1>5 DEF Abstract!Next

\* pop_back, pop_front and remove of a plain list.
LEMMA RemoveStep ==
  ASSUME NEW ls, Holds(ls), NEW h \in Lists, NEW i \in 1..Len(ls[h]),
         links' = TakenOut(links, ls[h][i]), Counted(h, -1), UNCHANGED m_Indexer
  PROVE  IInv' /\ Abstract!Next
<1> DEFINE ms == [ls EXCEPT ![h] = Abstract!Without(@, i)]
<1>1. Represents(links', ms) /\ Counts(ms)'
  BY HoldsFacts, Taken
<1>2. ms[Queue] = ls[Queue]
  BY HoldsFacts
<1> HIDE DEF ms
<1>3. Holds(ms)'
  BY <1>1, <1>2, IndexStays DEF Holds
<1>4. lists = ls /\ lists' = ms /\ IInv'
  BY <1>3, Serves, ServesNext
<1>5. Abstract!Remove(h, i)
  BY <1>4 DEF Abstract!Remove, ms
<1> QED BY <1>4, <1>5 DEF Abstract!Next, Abstract!Heads

LEMMA PopBackStep ==
  ASSUME NEW ls, Holds(ls), NEW h \in Lists, pop_back(h)
  PROVE  IInv' /\ Abstract!Next
<1>1. Len(ls[h]) \in 1..Len(ls[h]) /\ links.prev[h] = ls[h][Len(ls[h])]
  BY HoldsFacts, EndsOfList DEF pop_back
<1>2. links' = TakenOut(links, ls[h][Len(ls[h])]) /\ Counted(h, -1) /\ UNCHANGED m_Indexer
  BY <1>1 DEF pop_back
<1> QED BY <1>1, <1>2, RemoveStep

LEMMA PopFrontStep ==
  ASSUME NEW ls, Holds(ls), NEW h \in Lists, pop_front(h)
  PROVE  IInv' /\ Abstract!Next
<1>1. 1 \in 1..Len(ls[h]) /\ links.next[h] = ls[h][1]
  BY HoldsFacts, EndsOfList DEF pop_front
<1>2. links' = TakenOut(links, ls[h][1]) /\ Counted(h, -1) /\ UNCHANGED m_Indexer
  BY <1>1 DEF pop_front
<1> QED BY <1>1, <1>2, RemoveStep

LEMMA RemoveElementStep ==
  ASSUME NEW ls, Holds(ls), NEW h \in Lists, NEW e \in Elements, remove(h, e)
  PROVE  IInv' /\ Abstract!Next
<1>1. PICK i \in 1..Len(ls[h]) : ls[h][i] = e
  BY HoldsFacts, Serves DEF remove, contains
<1>2. links' = TakenOut(links, ls[h][i]) /\ Counted(h, -1) /\ UNCHANGED m_Indexer
  BY <1>1 DEF remove
<1> QED BY <1>2, RemoveStep

\* Eat takes the first element and puts it back: nothing has changed for the users.
LEMMA EatStep ==
  ASSUME NEW ls, Holds(ls), NEW h \in Lists, Eat(h)
  PROVE  IInv' /\ lists' = lists
<1> DEFINE e == ls[h][1]
           ks == [ls EXCEPT ![h] = Abstract!Without(@, 1)]
           ms == [ks EXCEPT ![h] = Abstract!AtFront(@, e)]
<1>1. 1 \in 1..Len(ls[h]) /\ links.next[h] = e /\ e \in Elements /\ h \in Heads
  BY HoldsFacts, EndsOfList DEF Eat
<1>2. Represents(TakenOut(links, e), ks) /\ Unused(ks, e)
  BY <1>1, HoldsFacts, Removed, TakenUnused
<1> HIDE DEF ks
<1>3. Represents(DLINK_INSERT_NEXT(TakenOut(links, e), h, e), ms)
  BY <1>1, <1>2, InsertedFront
<1>4. ms = ls
  <2> DEFINE t == Abstract!Without(ls[h], 1)
             u == Abstract!AtFront(t, e)
  <2>1. ls \in [Heads -> Seq(Elements)] /\ ls[h] \in Seq(Elements) /\ Len(ls[h]) \in Nat
    BY <1>1, HoldsFacts
  <2>2. /\ t \in Seq(Elements) /\ Len(t) = Len(ls[h]) - 1
        /\ \A j \in 1..Len(ls[h]) - 1 : t[j] = IF j < 1 THEN ls[h][j] ELSE ls[h][j + 1]
    BY <1>1, <2>1, WithoutSeq
  <2> HIDE DEF t
  <2>3. /\ u \in Seq(Elements) /\ Len(u) = Len(t) + 1
        /\ \A j \in 1..Len(t) + 1 : u[j] = IF j = 1 THEN e ELSE t[j - 1]
    BY <1>1, <2>2, AtFrontSeq
  <2> HIDE DEF u, e
  <2>4. Len(u) = Len(ls[h]) /\ \A j \in 1..Len(ls[h]) : u[j] = ls[h][j]
    <3>1. Len(u) = Len(ls[h]) /\ Len(t) = Len(ls[h]) - 1
      BY <2>1, <2>2, <2>3
    <3>2. ASSUME NEW j \in 1..Len(ls[h]) PROVE u[j] = ls[h][j]
      <4>1. CASE j = 1
        BY <1>1, <2>1, <2>3, <3>1, <4>1 DEF e
      <4>2. CASE j # 1
        <5>1. j - 1 \in 1..Len(ls[h]) - 1 /\ ~(j - 1 < 1) /\ (j - 1) + 1 = j
          BY <2>1, <4>2
        <5>2. t[j - 1] = ls[h][j]
          BY <2>2, <5>1
        <5>3. u[j] = t[j - 1]
          BY <2>1, <2>3, <3>1, <4>2
        <5> QED BY <5>2, <5>3
      <4> QED BY <4>1, <4>2
    <3> QED BY <3>1, <3>2
  <2>5. u = ls[h]
    BY <2>1, <2>3, <2>4, SeqEqual
  <2>6. ks[h] = t /\ ks \in [Heads -> Seq(Elements)] /\ \A g \in Heads \ {h} : ks[g] = ls[g]
    BY <1>1, <2>1, <2>2 DEF ks, t
  <2>7. ms[h] = u /\ \A g \in Heads \ {h} : ms[g] = ls[g]
    BY <1>1, <2>6 DEF u
  <2>8. ms \in [Heads -> Seq(Elements)]
    BY <2>3, <2>6 DEF u
  <2> QED BY <2>1, <2>5, <2>7, <2>8
<1> HIDE DEF ms, e
<1>5. links' = DLINK_INSERT_NEXT(TakenOut(links, e), h, e) /\ UNCHANGED <<m_count, m_Indexer>>
  BY <1>1 DEF Eat
<1>6. Holds(ls)'
  BY <1>3, <1>4, <1>5 DEF Holds, Counts, Indexed
<1> QED BY <1>6, Serves, ServesNext

LEMMA MergeStep ==
  ASSUME NEW ls, Holds(ls), NEW h \in Lists, NEW g \in Lists \ {h}, merge(h, g)
  PROVE  IInv' /\ Abstract!Next
<1> DEFINE ms == [ls EXCEPT ![h] = Abstract!Joined(@, ls[g]), ![g] = <<>>]
<1>1. Represents(links', ms)
  <2>1. h \in Heads /\ g \in Heads \ {h} /\ Represents(links, ls) /\ links' = Merged(links, h, g)
    BY HoldsFacts DEF merge
  <2>2. CASE Len(ls[g]) = 0
    BY <2>1, <2>2, MergedEmpty
  <2>3. CASE Len(ls[g]) # 0
    BY <2>1, <2>3, MergedFull
  <2> QED BY <2>2, <2>3
<1>2. /\ ls \in [Heads -> Seq(Elements)] /\ h \in Heads /\ g \in Heads /\ h # g
      /\ ls[h] \in Seq(Elements) /\ ls[g] \in Seq(Elements)
      /\ Len(ls[h]) \in Nat /\ Len(ls[g]) \in Nat /\ h # Queue /\ g # Queue /\ Queue \in Heads
  BY HoldsFacts
<1>3. Len(Abstract!Joined(ls[h], ls[g])) = Len(ls[h]) + Len(ls[g]) /\ Len(<<>>) = 0
  BY <1>2, JoinedSeq, EmptySeq
<1>4. /\ ms[h] = Abstract!Joined(ls[h], ls[g]) /\ ms[g] = <<>>
      /\ \A f \in Heads \ {g, h} : ms[f] = ls[f]
  BY <1>2
<1> HIDE DEF ms
<1>5. Counts(ms)'
  <2>1. m_count \in [Heads -> Nat] /\ \A f \in Heads : m_count[f] = Len(ls[f])
    BY DEF Holds, Counts
  <2>2. m_count' = [m_count EXCEPT ![h] = @ + m_count[g], ![g] = 0]
    BY DEF merge
  <2>3. m_count' \in [Heads -> Nat]
    <3>1. m_count[h] + m_count[g] \in Nat
      BY <1>2, <2>1
    <3> QED BY <1>2, <2>1, <2>2, <3>1
  <2>4. /\ m_count'[h] = Len(ls[h]) + Len(ls[g]) /\ m_count'[g] = 0
        /\ \A f \in Heads \ {g, h} : m_count'[f] = Len(ls[f])
    BY <1>2, <2>1, <2>2
  <2>5. \A f \in Heads : m_count'[f] = Len(ms[f])
    BY <1>3, <1>4, <2>4
  <2> QED BY <2>3, <2>5 DEF Counts
<1>6. Holds(ms)'
  BY <1>1, <1>2, <1>4, <1>5, IndexStays DEF Holds, merge
<1>7. lists = ls /\ lists' = ms /\ IInv'
  BY <1>6, Serves, ServesNext
<1>8. Abstract!Merge(h, g)
  BY <1>7 DEF Abstract!Merge, ms
<1> QED BY <1>7, <1>8 DEF Abstract!Next

(***************************************************************************)
(* The calls of the keyed queue.                                           *)
(***************************************************************************)
\* Where the index leads to.
LEMMA IndexLeads ==
  ASSUME NEW ls, Holds(ls), NEW k \in Keys, m_Indexer[k] # NULL
  PROVE  /\ m_Indexer[k] \in Elements /\ key[m_Indexer[k]] = k
         /\ \E i \in 1..Len(ls[Queue]) : ls[Queue][i] = m_Indexer[k]
<1>1. m_Indexer[k] \in Elements /\ key[m_Indexer[k]] = k
  BY DEF Holds, Indexed
<1>2. Has(ls[Queue], m_Indexer[k])
  BY <1>1 DEF Holds, Indexed
<1> QED BY <1>1, <1>2 DEF Has

LEMMA IndexFinds ==
  ASSUME NEW ls, Holds(ls), NEW i \in 1..Len(ls[Queue])
  PROVE  /\ ls[Queue][i] \in Elements /\ m_Indexer[key[ls[Queue][i]]] = ls[Queue][i]
         /\ key[ls[Queue][i]] \in Keys
<1>1. ls[Queue][i] \in Elements /\ Has(ls[Queue], ls[Queue][i])
  BY HoldsFacts DEF Has
<1> QED BY <1>1, NodesAssumption DEF Holds, Indexed

LEMMA KeyedPushBackStep ==
  ASSUME NEW ls, Holds(ls), NEW e \in Elements, keyed_push_back(e)
  PROVE  IInv' /\ Abstract!Next
<1> DEFINE ms == [ls EXCEPT ![Queue] = Abstract!AtBack(@, e)]
<1>1. Represents(links', ms) /\ Counts(ms)' /\ Unused(ls, e)
  BY HoldsFacts, AddedBack DEF keyed_push_back
<1>2. ms[Queue] = Abstract!AtBack(ls[Queue], e)
  BY HoldsFacts
<1>3. \A x \in Elements : Has(ms[Queue], x) <=> Has(ls[Queue], x) \/ x = e
  BY <1>2, HoldsFacts, HasAtBack
<1>4. \A i \in 1..Len(ls[Queue]) : key[ls[Queue][i]] # key[e]
  BY IndexFinds, NodesAssumption DEF keyed_push_back
<1> HIDE DEF ms
<1>5. Indexed(ms)'
  <2>1. m_Indexer' = [m_Indexer EXCEPT ![key[e]] = e] /\ key[e] \in Keys
    BY NodesAssumption DEF keyed_push_back
  <2>2. \A x \in Elements : Has(ls[Queue], x) => key[x] # key[e]
    BY <1>4 DEF Has
  <2>3. /\ m_Indexer \in [Keys -> Elements \union {NULL}]
        /\ \A x \in Elements : m_Indexer[key[x]] = x <=> Has(ls[Queue], x)
        /\ \A k \in Keys : m_Indexer[k] \in Elements => key[m_Indexer[k]] = k
    BY DEF Holds, Indexed
  <2>4. \A x \in Elements : m_Indexer'[key[x]] = x <=> Has(ms[Queue], x)
    BY <1>3, <2>1, <2>2, <2>3, NodesAssumption
  <2> QED BY <2>1, <2>3, <2>4 DEF Indexed
<1>6. Holds(ms)'
  BY <1>1, <1>5 DEF Holds
<1>7. lists = ls /\ lists' = ms /\ IInv'
  BY <1>6, Serves, ServesNext
<1>8. Abstract!NewKey(e) /\ Abstract!PushBack(Queue, e)
  BY <1>1, <1>4, <1>7
     DEF Abstract!NewKey, Abstract!PushBack, Abstract!Free, Abstract!Heads, Heads, Unused, ms
<1> QED BY <1>7, <1>8 DEF Abstract!Next

LEMMA ReplaceStep ==
  ASSUME NEW ls, Holds(ls), NEW e \in Elements, push_back_and_replace(e)
  PROVE  IInv' /\ Abstract!Next
<1> DEFINE old == m_Indexer[key[e]]
<1>1. /\ DLINK_IS_STANDALONE(links, e) /\ old # NULL /\ old # e
      /\ links' = DLINK_INITIALIZE(DLINK_REPLACE(links, old, e), old)
      /\ m_Indexer' = [m_Indexer EXCEPT ![key[e]] = e] /\ m_count' = m_count
      /\ key[e] \in Keys
  BY NodesAssumption DEF push_back_and_replace
<1>2. old \in Elements /\ key[old] = key[e]
  BY <1>1, IndexLeads
<1>3. PICK i \in 1..Len(ls[Queue]) : ls[Queue][i] = old
  BY <1>1, IndexLeads
<1> HIDE DEF old
<1> DEFINE ms == [ls EXCEPT ![Queue] = Abstract!Replaced(@, i, e)]
<1>4. Unused(ls, e)
  BY <1>1, HoldsFacts, StandaloneUnused
<1>5. Represents(links', ms)
  BY <1>1, <1>3, <1>4, HoldsFacts, ReplacedOne
<1>6. /\ ls \in [Heads -> Seq(Elements)] /\ ls[Queue] \in Seq(Elements) /\ Queue \in Heads
      /\ Len(ls[Queue]) \in Nat
      /\ \A j, k \in 1..Len(ls[Queue]) : ls[Queue][j] = ls[Queue][k] => j = k
  BY HoldsFacts
<1>7. Len(Abstract!Replaced(ls[Queue], i, e)) = Len(ls[Queue])
  BY <1>6, ReplacedSeq
<1>8. ms[Queue] = Abstract!Replaced(ls[Queue], i, e) /\ \A g \in Heads \ {Queue} : ms[g] = ls[g]
  BY <1>6
<1>9. \A x \in Elements : Has(ms[Queue], x) <=> (Has(ls[Queue], x) /\ x # old) \/ x = e
  BY <1>3, <1>6, <1>8, HasReplaced
<1> HIDE DEF ms
<1>10. Counts(ms)'
  BY <1>1, <1>7, <1>8 DEF Holds, Counts
<1>11. Indexed(ms)'
  <2>1. /\ m_Indexer \in [Keys -> Elements \union {NULL}]
        /\ \A x \in Elements : m_Indexer[key[x]] = x <=> Has(ls[Queue], x)
        /\ \A k \in Keys : m_Indexer[k] \in Elements => key[m_Indexer[k]] = k
    BY DEF Holds, Indexed
  <2>2. ASSUME NEW x \in Elements PROVE m_Indexer'[key[x]] = x <=> Has(ms[Queue], x)
    <3>1. key[x] \in Keys
      BY NodesAssumption
    <3>2. CASE key[x] = key[e]
      <4>1. m_Indexer'[key[x]] = e
        BY <1>1, <2>1, <3>1, <3>2
      <4>2. Has(ls[Queue], x) <=> x = old
        BY <2>1, <3>2 DEF old
      <4> QED BY <1>9, <4>1, <4>2
    <3>3. CASE key[x] # key[e]
      <4>1. m_Indexer'[key[x]] = m_Indexer[key[x]]
        BY <1>1, <2>1, <3>1, <3>3
      <4>2. x # old /\ x # e
        BY <1>2, <3>3
      <4> QED BY <1>9, <2>1, <4>1, <4>2
    <3> QED BY <3>2, <3>3
  <2> QED BY <1>1, <2>1, <2>2 DEF Indexed
<1>12. Holds(ms)'
  BY <1>5, <1>10, <1>11 DEF Holds
<1>13. lists = ls /\ lists' = ms /\ IInv'
  BY <1>12, Serves, ServesNext
<1>14. Abstract!Replace(i, e)
  BY <1>2, <1>3, <1>4, <1>13
     DEF Abstract!Replace, Abstract!Free, Abstract!Heads, Heads, Unused, ms
<1> QED BY <1>3, <1>13, <1>14 DEF Abstract!Next

\* pop_front and remove of the keyed queue.
LEMMA KeyedTakeStep ==
  ASSUME NEW ls, Holds(ls), NEW i \in 1..Len(ls[Queue]),
         links' = TakenOut(links, ls[Queue][i]), Counted(Queue, -1),
         m_Indexer' = [m_Indexer EXCEPT ![key[ls[Queue][i]]] = NULL]
  PROVE  IInv' /\ Abstract!Next
<1> DEFINE ms == [ls EXCEPT ![Queue] = Abstract!Without(@, i)]
           e == ls[Queue][i]
<1>1. Represents(links', ms) /\ Counts(ms)'
  BY HoldsFacts, Taken
<1>2. e \in Elements /\ m_Indexer[key[e]] = e /\ key[e] \in Keys
  BY IndexFinds
<1>3. ms[Queue] = Abstract!Without(ls[Queue], i)
  BY HoldsFacts
<1>4. \A x \in Elements : Has(ms[Queue], x) <=> Has(ls[Queue], x) /\ x # e
  BY <1>3, HoldsFacts, HasWithout
<1> HIDE DEF ms, e
<1>5. Indexed(ms)'
  <2>1. /\ m_Indexer \in [Keys -> Elements \union {NULL}]
        /\ \A x \in Elements : m_Indexer[key[x]] = x <=> Has(ls[Queue], x)
        /\ \A k \in Keys : m_Indexer[k] \in Elements => key[m_Indexer[k]] = k
    BY DEF Holds, Indexed
  <2>2. m_Indexer' = [m_Indexer EXCEPT ![key[e]] = NULL]
    BY DEF e
  <2>3. ASSUME NEW x \in Elements PROVE m_Indexer'[key[x]] = x <=> Has(ms[Queue], x)
    <3>1. key[x] \in Keys /\ x # NULL
      BY NodesAssumption
    <3>2. CASE key[x] = key[e]
      <4>1. m_Indexer'[key[x]] = NULL
        BY <2>1, <2>2, <3>1, <3>2
      <4>2. Has(ls[Queue], x) => x = e
        BY <1>2, <2>1, <3>2
      <4> QED BY <1>4, <3>1, <4>1, <4>2
    <3>3. CASE key[x] # key[e]
      <4>1. m_Indexer'[key[x]] = m_Indexer[key[x]] /\ x # e
        BY <2>1, <2>2, <3>1, <3>3
      <4> QED BY <1>4, <2>1, <4>1
    <3> QED BY <3>2, <3>3
  <2>4. m_Indexer' \in [Keys -> Elements \union {NULL}]
    BY <2>1, <2>2
  <2>5. \A k \in Keys : m_Indexer'[k] \in Elements => key[m_Indexer'[k]] = k
    BY <2>1, <2>2, NodesAssumption
  <2> QED BY <2>3, <2>4, <2>5 DEF Indexed
<1>6. Holds(ms)'
  BY <1>1, <1>5 DEF Holds
<1>7. lists = ls /\ lists' = ms /\ IInv'
  BY <1>6, Serves, ServesNext
<1>8. Abstract!Remove(Queue, i)
  BY <1>7 DEF Abstract!Remove, ms
<1>9. Queue \in Abstract!Heads
  BY DEF Abstract!Heads
<1> QED BY <1>7, <1>8, <1>9 DEF Abstract!Next

LEMMA KeyedPopFrontStep ==
  ASSUME NEW ls, Holds(ls), keyed_pop_front
  PROVE  IInv' /\ Abstract!Next
<1>1. 1 \in 1..Len(ls[Queue]) /\ links.next[Queue] = ls[Queue][1]
  BY HoldsFacts, EndsOfList DEF keyed_pop_front
<1>2. /\ links' = TakenOut(links, ls[Queue][1]) /\ Counted(Queue, -1)
      /\ m_Indexer' = [m_Indexer EXCEPT ![key[ls[Queue][1]]] = NULL]
  BY <1>1 DEF keyed_pop_front
<1> QED BY <1>1, <1>2, KeyedTakeStep

LEMMA KeyedRemoveStep ==
  ASSUME NEW ls, Holds(ls), NEW e \in Elements, keyed_remove(e)
  PROVE  IInv' /\ Abstract!Next
<1>1. m_Indexer[key[e]] # NULL /\ key[e] \in Keys
  BY NodesAssumption DEF keyed_remove
<1>2. PICK i \in 1..Len(ls[Queue]) : ls[Queue][i] = e
  BY <1>1, IndexLeads DEF keyed_remove
<1>3. /\ links' = TakenOut(links, ls[Queue][i]) /\ Counted(Queue, -1)
      /\ m_Indexer' = [m_Indexer EXCEPT ![key[ls[Queue][i]]] = NULL]
  BY <1>2 DEF keyed_remove
<1> QED BY <1>2, <1>3, KeyedTakeStep

\* An element of the queue goes to one of its ends.
LEMMA MoveToBackStep ==
  ASSUME NEW ls, Holds(ls), NEW i \in 1..Len(ls[Queue]),
         links' = DLINK_INSERT_PREV(TakenOut(links, ls[Queue][i]), Queue, ls[Queue][i]),
         UNCHANGED <<m_count, m_Indexer>>
  PROVE  IInv' /\ Abstract!Next
<1> DEFINE e == ls[Queue][i]
           t == Abstract!Without(ls[Queue], i)
           u == Abstract!AtBack(t, e)
           ks == [ls EXCEPT ![Queue] = Abstract!Without(@, i)]
           ns == [ks EXCEPT ![Queue] = Abstract!AtBack(@, e)]
           ms == [ls EXCEPT ![Queue] = u]
<1>1. /\ ls \in [Heads -> Seq(Elements)] /\ ls[Queue] \in Seq(Elements) /\ Queue \in Heads
      /\ Len(ls[Queue]) \in Nat /\ e \in Elements /\ Represents(links, ls)
      /\ \A j, k \in 1..Len(ls[Queue]) : ls[Queue][j] = ls[Queue][k] => j = k
  BY HoldsFacts
<1>2. Represents(TakenOut(links, e), ks) /\ Unused(ks, e)
  BY <1>1, Removed, TakenUnused
<1>3. Represents(links', ns)
  <2> HIDE DEF ks
  <2> QED BY <1>1, <1>2, InsertedBack
<1>4. ns = ms
  BY <1>1
<1>5. t \in Seq(Elements) /\ Len(t) = Len(ls[Queue]) - 1
  BY <1>1, WithoutSeq
<1>6. \A x \in Elements : Has(t, x) <=> Has(ls[Queue], x) /\ x # e
  BY <1>1, HasWithout
<1> HIDE DEF t, ns
<1>7. Len(u) = Len(t) + 1 /\ \A x \in Elements : Has(u, x) <=> Has(t, x) \/ x = e
  BY <1>1, <1>5, AtBackSeq, HasAtBack
<1>8. ms[Queue] = u /\ \A g \in Heads \ {Queue} : ms[g] = ls[g]
  BY <1>1
<1> HIDE DEF u, ms, e
<1>9. Counts(ms)'
  <2>1. Len(u) = Len(ls[Queue])
    BY <1>1, <1>5, <1>7
  <2> QED BY <1>8, <2>1 DEF Holds, Counts
<1>10. Has(ls[Queue], e)
  BY DEF Has, e
<1>11. Indexed(ms)'
  BY <1>6, <1>7, <1>8, <1>10, IndexStays DEF Holds
<1>12. Holds(ms)'
  BY <1>3, <1>4, <1>9, <1>11 DEF Holds
<1>13. lists = ls /\ lists' = ms /\ IInv'
  BY <1>12, Serves, ServesNext
<1>14. Abstract!ToBack(i)
  BY <1>13 DEF Abstract!ToBack, ms, u, t, e
<1> QED BY <1>13, <1>14 DEF Abstract!Next

LEMMA MoveToFrontStep ==
  ASSUME NEW ls, Holds(ls), NEW i \in 1..Len(ls[Queue]),
         links' = DLINK_INSERT_NEXT(TakenOut(links, ls[Queue][i]), Queue, ls[Queue][i]),
         UNCHANGED <<m_count, m_Indexer>>
  PROVE  IInv' /\ Abstract!Next
<1> DEFINE e == ls[Queue][i]
           t == Abstract!Without(ls[Queue], i)
           u == Abstract!AtFront(t, e)
           ks == [ls EXCEPT ![Queue] = Abstract!Without(@, i)]
           ns == [ks EXCEPT ![Queue] = Abstract!AtFront(@, e)]
           ms == [ls EXCEPT ![Queue] = u]
<1>1. /\ ls \in [Heads -> Seq(Elements)] /\ ls[Queue] \in Seq(Elements) /\ Queue \in Heads
      /\ Len(ls[Queue]) \in Nat /\ e \in Elements /\ Represents(links, ls)
      /\ \A j, k \in 1..Len(ls[Queue]) : ls[Queue][j] = ls[Queue][k] => j = k
  BY HoldsFacts
<1>2. Represents(TakenOut(links, e), ks) /\ Unused(ks, e)
  BY <1>1, Removed, TakenUnused
<1>3. Represents(links', ns)
  <2> HIDE DEF ks
  <2> QED BY <1>1, <1>2, InsertedFront
<1>4. ns = ms
  BY <1>1
<1>5. t \in Seq(Elements) /\ Len(t) = Len(ls[Queue]) - 1
  BY <1>1, WithoutSeq
<1>6. \A x \in Elements : Has(t, x) <=> Has(ls[Queue], x) /\ x # e
  BY <1>1, HasWithout
<1> HIDE DEF t, ns
<1>7. Len(u) = Len(t) + 1 /\ \A x \in Elements : Has(u, x) <=> Has(t, x) \/ x = e
  <2> HIDE DEF e
  <2>1. Len(u) = Len(t) + 1
    BY <1>1, <1>5, AtFrontSeq
  <2> QED BY <1>1, <1>5, <2>1, HasAtFront
<1>8. ms[Queue] = u /\ \A g \in Heads \ {Queue} : ms[g] = ls[g]
  BY <1>1
<1> HIDE DEF u, ms, e
<1>9. Counts(ms)'
  <2>1. Len(u) = Len(ls[Queue])
    BY <1>1, <1>5, <1>7
  <2> QED BY <1>8, <2>1 DEF Holds, Counts
<1>10. Has(ls[Queue], e)
  BY DEF Has, e
<1>11. Indexed(ms)'
  BY <1>6, <1>7, <1>8, <1>10, IndexStays DEF Holds
<1>12. Holds(ms)'
  BY <1>3, <1>4, <1>9, <1>11 DEF Holds
<1>13. lists = ls /\ lists' = ms /\ IInv'
  BY <1>12, Serves, ServesNext
<1>14. Abstract!ToFront(i)
  BY <1>13 DEF Abstract!ToFront, ms, u, t, e
<1> QED BY <1>13, <1>14 DEF Abstract!Next

LEMMA FrontToBackStep ==
  ASSUME NEW ls, Holds(ls), front_to_back
  PROVE  IInv' /\ Abstract!Next
<1>1. 1 \in 1..Len(ls[Queue]) /\ links.next[Queue] = ls[Queue][1]
  BY HoldsFacts, EndsOfList DEF front_to_back
<1>2. /\ links' = DLINK_INSERT_PREV(TakenOut(links, ls[Queue][1]), Queue, ls[Queue][1])
      /\ UNCHANGED <<m_count, m_Indexer>>
  BY <1>1 DEF front_to_back
<1> QED BY <1>1, <1>2, MoveToBackStep

LEMMA MoveStep ==
  ASSUME NEW ls, Holds(ls), NEW e \in Elements, move_to_back(e) \/ move_to_front(e)
  PROVE  IInv' /\ Abstract!Next
<1>1. m_Indexer[key[e]] = e /\ e # NULL /\ key[e] \in Keys
  BY NodesAssumption DEF move_to_back, move_to_front
<1>2. PICK i \in 1..Len(ls[Queue]) : ls[Queue][i] = e
  BY <1>1, IndexLeads
<1>3. CASE move_to_back(e)
  <2>1. /\ links' = DLINK_INSERT_PREV(TakenOut(links, ls[Queue][i]), Queue, ls[Queue][i])
        /\ UNCHANGED <<m_count, m_Indexer>>
    BY <1>2, <1>3 DEF move_to_back
  <2> QED BY <2>1, MoveToBackStep
<1>4. CASE move_to_front(e)
  <2>1. /\ links' = DLINK_INSERT_NEXT(TakenOut(links, ls[Queue][i]), Queue, ls[Queue][i])
        /\ UNCHANGED <<m_count, m_Indexer>>
    BY <1>2, <1>4 DEF move_to_front
  <2> QED BY <2>1, MoveToFrontStep
<1> QED BY <1>3, <1>4

(***************************************************************************)
(* The invariant, and what follows from it.                                *)
(***************************************************************************)
LEMMA InitHolds ==
  ASSUME Init
  PROVE  IInv /\ Abstract!Init
<1> DEFINE ls == [h \in Heads |-> <<>>]
<1>1. ls \in [Heads -> Seq(Elements)] /\ Len(<<>>) = 0 /\ \A h \in Heads : ls[h] = <<>>
  BY EmptySeq
<1>2. links \in Links /\ \A n \in Nodes : links.next[n] = n /\ links.prev[n] = n
  BY DEF Init, Links
<1> HIDE DEF ls
<1>3. ASSUME NEW h \in Heads PROVE Ring(links, h, ls[h])
  <2>1. links.next[h] = h /\ links.prev[h] = h
    BY <1>2 DEF Nodes
  <2> QED BY <1>1, <2>1 DEF Ring, Spot
<1>4. \A h \in Heads : 1..Len(ls[h]) = {}
  BY <1>1
<1>5. Once(ls) /\ \A e : \A h \in Heads : ~Has(ls[h], e)
  BY <1>4 DEF Once, Has
<1>6. Represents(links, ls)
  BY <1>1, <1>2, <1>3, <1>5 DEF Represents, Nodes
<1>7. Counts(ls)
  BY <1>1 DEF Counts, Init
<1>8. Indexed(ls)
  BY <1>5, NodesAssumption DEF Indexed, Init, Heads
<1>9. Holds(ls)
  BY <1>6, <1>7, <1>8 DEF Holds
<1>10. Abstract!Init
  BY <1>9, Serves DEF Abstract!Init, Abstract!Heads, Heads, ls
<1> QED BY <1>9, <1>10 DEF IInv

LEMMA StepHolds ==
  ASSUME IInv, [Next]_vars
  PROVE  IInv' /\ [Abstract!Next]_lists
<1>1. PICK ls : Holds(ls)
  BY DEF IInv
<1>2. CASE UNCHANGED vars
  <2>1. Holds(ls)'
    BY <1>1, <1>2 DEF vars, Holds, Counts, Indexed
  <2> QED BY <1>1, <2>1, Serves, ServesNext
<1>3. ASSUME NEW h \in Lists,
             \/ pop_back(h) \/ pop_front(h) \/ Eat(h)
             \/ \E e \in Elements : push_back(h, e) \/ push_front(h, e) \/ remove(h, e)
             \/ \E g \in Lists \ {h} : merge(h, g)
      PROVE  IInv' /\ [Abstract!Next]_lists
  BY <1>1, <1>3, PopBackStep, PopFrontStep, EatStep, PushBackStep, PushFrontStep,
     RemoveElementStep, MergeStep
<1>4. CASE keyed_pop_front \/ front_to_back
  BY <1>1, <1>4, KeyedPopFrontStep, FrontToBackStep
<1>5. ASSUME NEW e \in Elements,
             \/ keyed_push_back(e) \/ push_back_and_replace(e)
             \/ move_to_back(e) \/ move_to_front(e) \/ keyed_remove(e)
      PROVE  IInv' /\ [Abstract!Next]_lists
  BY <1>1, <1>5, KeyedPushBackStep, ReplaceStep, MoveStep, KeyedRemoveStep
<1> QED BY <1>2, <1>3, <1>4, <1>5 DEF Next

\* The links, counts and index of every reachable state represent some sequences.
THEOREM Invariance == Spec => []IInv
<1>1. Init => IInv
  BY InitHolds
<1>2. IInv /\ [Next]_vars => IInv'
  BY StepHolds
<1> QED BY <1>1, <1>2, PTL DEF Spec

\* The intrusive lists with their pointers and counts are sequences to their users:
\* every call of DoubleList.h and keyed_queue.h does what ElementLists promises.
THEOREM Implements == Spec => ServesAsLists
<1>1. Init => IInv /\ Abstract!Init
  BY InitHolds
<1>2. IInv /\ [Next]_vars => IInv' /\ [Abstract!Next]_lists
  BY StepHolds
<1> QED BY <1>1, <1>2, PTL DEF Spec, ServesAsLists, Abstract!Spec

\* Every link leads to a node, no list counts below zero.
THEOREM TypeCorrect == Spec => []TypeOK
<1>1. IInv => TypeOK
  BY DEF IInv, Holds, Represents, Links, Counts, Indexed, TypeOK
<1> QED BY <1>1, Invariance, PTL

\* An element passes the check of push exactly when no list has it, after any calls
\* of any lists.
THEOREM Standalone == Spec => []StandaloneIsFree
<1>1. ASSUME NEW ls, Holds(ls) PROVE StandaloneIsFree
  <2>1. Represents(links, ls) /\ \A h \in Heads : Contents(h) = ls[h] /\ m_count[h] = Len(ls[h])
    BY <1>1, Serves DEF Holds
  <2>2. \A e \in Elements : (\A h \in Heads : ~contains(h, e)) <=> Unused(ls, e)
    BY <2>1 DEF contains, Unused
  <2> QED BY <2>1, <2>2, StandaloneUnused DEF StandaloneIsFree
<1>2. IInv => StandaloneIsFree
  BY <1>1 DEF IInv
<1> QED BY <1>2, Invariance, PTL

\* No element is at two places of the lists.
THEOREM OnePlace == Spec => []InOnePlace
<1>1. ASSUME NEW ls, Holds(ls) PROVE InOnePlace
  <2>1. \A h \in Heads : Contents(h) = ls[h] /\ m_count[h] = Len(ls[h])
    BY <1>1, Serves
  <2> QED BY <1>1, <2>1 DEF InOnePlace, Holds, Represents, Once
<1>2. IInv => InOnePlace
  BY <1>1 DEF IInv
<1> QED BY <1>2, Invariance, PTL

\* The index of the keyed queue and its list agree.
THEOREM IndexCorrect == Spec => []IndexIsOfTheQueue
<1>1. ASSUME NEW ls, Holds(ls) PROVE IndexIsOfTheQueue
  <2>1. Queue \in Heads /\ Contents(Queue) = ls[Queue] /\ m_count[Queue] = Len(ls[Queue])
    BY <1>1, Serves DEF Heads
  <2> QED BY <1>1, <2>1 DEF IndexIsOfTheQueue, contains, Holds, Indexed, Has
<1>2. IInv => IndexIsOfTheQueue
  BY <1>1 DEF IInv
<1> QED BY <1>2, Invariance, PTL

\* Every link is matched by the link back, also of elements in no list, and every
\* ring closes after as many elements as the list counts: Assert never fails.
THEOREM AssertNeverFails == Spec => []AssertHolds
<1>1. ASSUME NEW ls, Holds(ls) PROVE AssertHolds
  <2>1. /\ Represents(links, ls) /\ links \in Links /\ ls \in [Heads -> Seq(Elements)]
        /\ \A h \in Heads : /\ Contents(h) = ls[h] /\ m_count[h] = Len(ls[h])
                            /\ ls[h] \in Seq(Elements) /\ Len(ls[h]) \in Nat
                            /\ Ring(links, h, ls[h])
    BY <1>1, HoldsFacts, Serves DEF Represents
  <2>2. ASSUME NEW h \in Heads, NEW i \in 0..Len(ls[h])
        PROVE  LET n == Spot(h, ls[h], i)
               IN links.prev[links.next[n]] = n /\ links.next[links.prev[n]] = n
    <3> DEFINE n == Spot(h, ls[h], i)
    <3>1. links.next[n] = Spot(h, ls[h], i + 1) /\ links.prev[Spot(h, ls[h], i + 1)] = n
      BY <2>1 DEF Ring
    <3>2. CASE i = 0
      <4>1. Len(ls[h]) \in 0..Len(ls[h]) /\ n = Spot(h, ls[h], Len(ls[h]) + 1)
        BY <2>1, <3>2, SpotEnds
      <4>2. links.prev[n] = Spot(h, ls[h], Len(ls[h])) /\ links.next[Spot(h, ls[h], Len(ls[h]))] = n
        BY <2>1, <4>1 DEF Ring
      <4> QED BY <3>1, <4>2
    <3>3. CASE i # 0
      <4>1. i - 1 \in 0..Len(ls[h]) /\ (i - 1) + 1 = i
        BY <2>1, <3>3
      <4>2. links.prev[n] = Spot(h, ls[h], i - 1) /\ links.next[Spot(h, ls[h], i - 1)] = n
        BY <2>1, <4>1 DEF Ring
      <4> QED BY <3>1, <4>2
    <3> QED BY <3>2, <3>3
  <2>3. ASSUME NEW n \in Nodes PROVE links.prev[links.next[n]] = n /\ links.next[links.prev[n]] = n
    <3>1. CASE n \in Heads
      <4>1. 0 \in 0..Len(ls[n]) /\ Spot(n, ls[n], 0) = n
        BY <2>1, <3>1, SpotEnds
      <4> QED BY <2>2, <3>1, <4>1
    <3>2. CASE n \in Elements /\ Unused(ls, n)
      BY <2>1, <3>2 DEF Represents
    <3>3. CASE n \in Elements /\ ~Unused(ls, n)
      <4>1. PICK h \in Heads : \E i \in 1..Len(ls[h]) : ls[h][i] = n
        BY <3>3 DEF Unused
      <4>2. PICK i \in 1..Len(ls[h]) : ls[h][i] = n
        BY <4>1
      <4>3. i \in 0..Len(ls[h]) /\ Spot(h, ls[h], i) = n
        BY <2>1, <4>2, SpotEnds
      <4> QED BY <2>2, <4>3
    <3> QED BY <3>1, <3>2, <3>3 DEF Nodes
  <2>4. ASSUME NEW h \in Heads
        PROVE  /\ \A i \in 1..m_count[h] : Contents(h)[i] # h
               /\ links.next[IF m_count[h] = 0 THEN h ELSE Contents(h)[m_count[h]]] = h
    <3>1. \A i \in 1..Len(ls[h]) : ls[h][i] # h
      BY <2>1, SpotEnds, NodesAssumption
    <3>2. links.next[Spot(h, ls[h], Len(ls[h]))] = h
      <4>1. Len(ls[h]) \in 0..Len(ls[h]) /\ Spot(h, ls[h], Len(ls[h]) + 1) = h
        BY <2>1, SpotEnds
      <4> QED BY <2>1, <4>1 DEF Ring
    <3>3. Spot(h, ls[h], Len(ls[h])) = IF Len(ls[h]) = 0 THEN h ELSE ls[h][Len(ls[h])]
      BY <2>1 DEF Spot
    <3> QED BY <2>1, <3>1, <3>2, <3>3
  <2> QED BY <2>3, <2>4 DEF AssertHolds
<1>2. IInv => AssertHolds
  BY <1>1 DEF IInv
<1> QED BY <1>2, Invariance, PTL
=============================================================================
