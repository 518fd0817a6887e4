--------------------------- MODULE LinkStoreProofs ---------------------------
(***************************************************************************)
(* Theorems about LinkStore for any table, any links and any bounds:       *)
(* statements that fail and crashes at any point included.                 *)
(*                                                                         *)
(* What a statement does to the table is said once per statement, row by   *)
(* row; the invariant is then kept by each action because of what the      *)
(* statement does and of where the action moves a context.                 *)
(*                                                                         *)
(* There are two invariants.  IInv says where the selected rows are        *)
(* accounted for; Crawls counts the contexts of each link against what its *)
(* row and the statements that failed allow.                               *)
(***************************************************************************)
EXTENDS LinkStore, TLAPS, SequenceTheorems, FiniteSetTheorems, WellFoundedInduction

\* Sums of counts: one of them grows smaller, or one context changes its place.
LEMMA LessComing ==
  ASSUME NEW w \in Nat, NEW f \in Nat, NEW q \in Nat, NEW h \in Nat, NEW d \in Nat,
         NEW e \in Nat, e <= d
  PROVE  /\ w + f + q + h <= w + f + q + h /\ f + q + h <= f + q + h
         /\ w + f + q + e <= w + f + q + d
OBVIOUS

LEMMA Popped ==
  ASSUME NEW w \in Nat, NEW f \in Nat, NEW q \in Nat, NEW h \in Nat
  PROVE  /\ w + f + q + h <= w + f + (q + h) + 0 /\ f + q + h <= f + (q + h) + 0
OBVIOUS

USE StoreAssumption

(***************************************************************************)
(* What the statements do.                                                 *)
(***************************************************************************)
\* A set of natural numbers has a least one.
LEMMA LeastNumber ==
  ASSUME NEW T, T \subseteq Nat, T # {}
  PROVE  \E m \in T : \A n \in T : ~(n < m)
<1> DEFINE R == OpToRel(<, Nat)
<1>1. PICK m \in T : \A n \in T : ~(<<n, m>> \in R)
  BY NatLessThanWellFounded, WFMin
<1>2. \A n \in T : n < m => <<n, m>> \in R
  BY DEF OpToRel
<1> QED BY <1>1, <1>2

\* A position before another one of a sequence of length n.
LEMMA Earlier ==
  ASSUME NEW n \in Nat, NEW m \in 1 .. n, NEW j \in 1 .. m - 1
  PROVE  j \in 1 .. n /\ j < m
OBVIOUS

IsTable(table) == DOMAIN table \subseteq Urls /\ \A u \in DOMAIN table : table[u] \in Row

FailedRow(row) == [row EXCEPT !.crawlretry = @ + 1, !.crawlstate = "NEW"]

\* What only dumpHub changes in a row.
Alike(row, old) == row.linkdepth = old.linkdepth /\ row.hub = old.hub

\* What the change of its state leaves of a row.
LEMMA StateFacts ==
  ASSUME NEW row \in Row, NEW state \in States
  PROVE  /\ WithState(row, state) \in Row /\ WithState(row, state).crawlstate = state
         /\ WithState(row, state).crawlretry = row.crawlretry
         /\ Alike(WithState(row, state), row)
BY DEF Row, WithState, Alike

LEMMA RowFacts ==
  ASSUME NEW row \in Row
  PROVE  /\ row.crawlstate \in States /\ row.crawlretry \in 0 .. MaxCount
         /\ row.linkdepth \in Nat /\ row.hub \in BOOLEAN
         /\ \A state \in States : WithState(row, state) \in Row
                                   /\ WithState(row, state).crawlstate = state
                                   /\ WithState(row, state).crawlretry = row.crawlretry
                                   /\ Alike(WithState(row, state), row)
         /\ HubRow(row) \in Row /\ HubRow(row).crawlstate = "NEW" /\ HubRow(row).hub
         /\ row.crawlretry < MaxCount =>
              /\ FailedRow(row) \in Row /\ FailedRow(row).crawlstate = "NEW"
              /\ FailedRow(row).crawlretry = row.crawlretry + 1 /\ Alike(FailedRow(row), row)
<1>1. /\ row.crawlstate \in States /\ row.crawlretry \in 0 .. MaxCount
      /\ row.linkdepth \in Nat /\ row.hub \in BOOLEAN
  BY DEF Row
<1>2. ASSUME NEW state \in States
      PROVE  /\ WithState(row, state) \in Row /\ WithState(row, state).crawlstate = state
             /\ WithState(row, state).crawlretry = row.crawlretry
             /\ Alike(WithState(row, state), row)
  BY StateFacts
<1>3. "NEW" \in States
  BY DEF States
<1>4. HubRow(row) \in Row /\ HubRow(row).crawlstate = "NEW" /\ HubRow(row).hub
  BY <1>3 DEF Row, HubRow
<1>5. ASSUME row.crawlretry < MaxCount
      PROVE  /\ FailedRow(row) \in Row /\ FailedRow(row).crawlstate = "NEW"
             /\ FailedRow(row).crawlretry = row.crawlretry + 1 /\ Alike(FailedRow(row), row)
  <2>1. row.crawlretry + 1 \in 0 .. MaxCount
    BY <1>1, <1>5
  <2> QED BY <2>1, <1>3 DEF Row, Alike, FailedRow
<1> QED BY <1>1, <1>2, <1>4, <1>5

LEMMA FailedFacts ==
  ASSUME NEW table, IsTable(table), NEW u \in Urls,
         u \in DOMAIN table => table[u].crawlretry < MaxCount
  PROVE  /\ IsTable(Failed(table, u)) /\ DOMAIN Failed(table, u) = DOMAIN table
         /\ \A v \in DOMAIN table \ {u} : Failed(table, u)[v] = table[v]
         /\ u \in DOMAIN table => /\ Failed(table, u)[u].crawlstate = "NEW"
                                  /\ Failed(table, u)[u].crawlretry = table[u].crawlretry + 1
                                  /\ Alike(Failed(table, u)[u], table[u])
<1>1. DOMAIN Failed(table, u) = DOMAIN table
      /\ \A v \in DOMAIN table : Failed(table, u)[v] =
           IF v = u THEN FailedRow(table[v]) ELSE table[v]
  BY DEF Failed, Update, FailedRow
<1>2. ASSUME NEW v \in DOMAIN table PROVE Failed(table, u)[v] \in Row
  BY <1>1, RowFacts DEF IsTable
<1>3. ASSUME u \in DOMAIN table
      PROVE  /\ Failed(table, u)[u].crawlstate = "NEW"
             /\ Failed(table, u)[u].crawlretry = table[u].crawlretry + 1
             /\ Alike(Failed(table, u)[u], table[u])
  BY <1>1, <1>3, RowFacts DEF IsTable
<1> QED BY <1>1, <1>2, <1>3 DEF IsTable

LEMMA MarkFacts ==
  ASSUME NEW table, IsTable(table), NEW u \in Urls, NEW state \in States
  PROVE  /\ IsTable(Mark(table, u, state)) /\ DOMAIN Mark(table, u, state) = DOMAIN table
         /\ \A v \in DOMAIN table \ {u} : Mark(table, u, state)[v] = table[v]
         /\ u \in DOMAIN table => /\ Mark(table, u, state)[u].crawlstate = state
                                  /\ Mark(table, u, state)[u].crawlretry = table[u].crawlretry
                                  /\ Alike(Mark(table, u, state)[u], table[u])
<1>1. DOMAIN Mark(table, u, state) = DOMAIN table
      /\ \A v \in DOMAIN table :
           Mark(table, u, state)[v] = IF v = u THEN WithState(table[v], state) ELSE table[v]
  BY DEF Mark, Update
<1>2. ASSUME NEW v \in DOMAIN table
      PROVE  /\ WithState(table[v], state) \in Row /\ WithState(table[v], state).crawlstate = state
             /\ WithState(table[v], state).crawlretry = table[v].crawlretry
             /\ Alike(WithState(table[v], state), table[v])
  <2>1. table[v] \in Row
    BY DEF IsTable
  <2> QED BY <2>1, StateFacts
<1> QED BY <1>1, <1>2 DEF IsTable

LEMMA RecoverFacts ==
  ASSUME NEW table, IsTable(table)
  PROVE  /\ IsTable(Recover(table)) /\ DOMAIN Recover(table) = DOMAIN table
         /\ \A u \in DOMAIN table :
              \/ /\ ~(table[u].crawlstate = "SELECTED" /\ table[u].crawlretry < MaxCrawlRetry)
                 /\ Recover(table)[u] = table[u]
              \/ /\ table[u].crawlstate = "SELECTED" /\ Recover(table)[u].crawlstate = "NEW"
                 /\ Recover(table)[u].crawlretry = table[u].crawlretry
                 /\ Alike(Recover(table)[u], table[u])
<1>1. DOMAIN Recover(table) = DOMAIN table
      /\ \A u \in DOMAIN table : Recover(table)[u] =
           IF table[u].crawlstate = "SELECTED" /\ table[u].crawlretry < MaxCrawlRetry
           THEN WithState(table[u], "NEW") ELSE table[u]
  BY DEF Recover, Update
<1>2. "NEW" \in States
  BY DEF States
<1>3. ASSUME NEW u \in DOMAIN table
      PROVE  /\ WithState(table[u], "NEW") \in Row /\ WithState(table[u], "NEW").crawlstate = "NEW"
             /\ WithState(table[u], "NEW").crawlretry = table[u].crawlretry
             /\ Alike(WithState(table[u], "NEW"), table[u])
  <2>1. table[u] \in Row
    BY DEF IsTable
  <2> QED BY <2>1, <1>2, StateFacts
<1> QED BY <1>1, <1>3 DEF IsTable

LEMMA SelectedFacts ==
  ASSUME NEW table, IsTable(table)
  PROVE  /\ IsTable(MarkSelected(table)) /\ DOMAIN MarkSelected(table) = DOMAIN table
         /\ \A u \in DOMAIN table :
              \/ MarkSelected(table)[u] = table[u] /\ ~Marked(table[u])
              \/ /\ Marked(table[u]) /\ MarkSelected(table)[u].crawlretry < MaxCrawlRetry
                 /\ MarkSelected(table)[u].crawlstate = "SELECTED"
                 /\ MarkSelected(table)[u].crawlretry = table[u].crawlretry
                 /\ Alike(MarkSelected(table)[u], table[u])
<1>1. DOMAIN MarkSelected(table) = DOMAIN table
      /\ \A u \in DOMAIN table : MarkSelected(table)[u] =
           IF Marked(table[u]) THEN WithState(table[u], "SELECTED") ELSE table[u]
  BY DEF MarkSelected, Update
<1>2. "SELECTED" \in States
  BY DEF States
<1>3. ASSUME NEW u \in DOMAIN table
      PROVE  /\ WithState(table[u], "SELECTED") \in Row
             /\ WithState(table[u], "SELECTED").crawlstate = "SELECTED"
             /\ WithState(table[u], "SELECTED").crawlretry = table[u].crawlretry
             /\ Alike(WithState(table[u], "SELECTED"), table[u])
  <2>1. table[u] \in Row
    BY DEF IsTable
  <2> QED BY <2>1, <1>2, StateFacts
<1>4. ASSUME NEW u \in DOMAIN table, Marked(table[u])
      PROVE  MarkSelected(table)[u].crawlretry < MaxCrawlRetry
  BY <1>1, <1>3, <1>4 DEF Marked
<1> QED BY <1>1, <1>3, <1>4 DEF IsTable

LEMMA CrawledFacts ==
  ASSUME NEW table, IsTable(table), NEW urls
  PROVE  /\ IsTable(MarkCrawled(table, urls)) /\ DOMAIN MarkCrawled(table, urls) = DOMAIN table
         /\ \A u \in DOMAIN table \ urls : MarkCrawled(table, urls)[u] = table[u]
         /\ \A u \in DOMAIN table \cap urls : /\ MarkCrawled(table, urls)[u].crawlstate = "CRAWLED"
                                              /\ MarkCrawled(table, urls)[u].crawlretry = table[u].crawlretry
                                              /\ Alike(MarkCrawled(table, urls)[u], table[u])
<1>1. DOMAIN MarkCrawled(table, urls) = DOMAIN table
      /\ \A u \in DOMAIN table : MarkCrawled(table, urls)[u] =
           IF u \in urls THEN WithState(table[u], "CRAWLED") ELSE table[u]
  BY DEF MarkCrawled, Update
<1>2. "CRAWLED" \in States
  BY DEF States
<1>3. ASSUME NEW u \in DOMAIN table
      PROVE  /\ WithState(table[u], "CRAWLED") \in Row /\ WithState(table[u], "CRAWLED").crawlstate = "CRAWLED"
             /\ WithState(table[u], "CRAWLED").crawlretry = table[u].crawlretry
             /\ Alike(WithState(table[u], "CRAWLED"), table[u])
  <2>1. table[u] \in Row
    BY DEF IsTable
  <2> QED BY <2>1, <1>2, StateFacts
<1> QED BY <1>1, <1>3 DEF IsTable

LEMMA InsertFacts ==
  ASSUME NEW table, IsTable(table), NEW rows \in Seq(Urls \X Nat)
  PROVE  /\ IsTable(InsertIgnore(table, rows)) /\ DOMAIN table \subseteq DOMAIN InsertIgnore(table, rows)
         /\ \A u \in DOMAIN table : InsertIgnore(table, rows)[u] = table[u]
         /\ \A u \in DOMAIN InsertIgnore(table, rows) \ DOMAIN table :
              InsertIgnore(table, rows)[u].crawlstate = "NEW" /\ InsertIgnore(table, rows)[u].crawlretry = 0
<1> DEFINE first(u) == CHOOSE i \in DOMAIN rows : rows[i][1] = u /\ \A j \in 1 .. i - 1 : rows[j][1] # u
<1>1. /\ DOMAIN InsertIgnore(table, rows) = DOMAIN table \cup {r[1] : r \in SetOf(rows)}
      /\ \A u \in DOMAIN InsertIgnore(table, rows) :
           InsertIgnore(table, rows)[u] = IF u \in DOMAIN table THEN table[u] ELSE NewRow(rows[first(u)][2])
  BY DEF InsertIgnore
<1>2. ASSUME NEW u \in {r[1] : r \in SetOf(rows)}
      PROVE  u \in Urls /\ first(u) \in DOMAIN rows
  <2>1. PICK k \in DOMAIN rows : rows[k][1] = u
    BY DEF SetOf
  <2>2. u \in Urls
    BY <2>1
  <2>3. DOMAIN rows = 1 .. Len(rows) /\ Len(rows) \in Nat
    OBVIOUS
  <2>4. \E i \in DOMAIN rows : rows[i][1] = u /\ \A j \in 1 .. i - 1 : rows[j][1] # u
    <3> DEFINE S == {i \in DOMAIN rows : rows[i][1] = u}
    <3>1. S \subseteq Nat /\ S # {}
      BY <2>1, <2>3
    <3>2. PICK m \in S : \A n \in S : ~(n < m)
      BY <3>1, LeastNumber
    <3>3. m \in 1 .. Len(rows) /\ rows[m][1] = u
      BY <2>3
    <3>4. ASSUME NEW j \in 1 .. m - 1 PROVE rows[j][1] # u
      <4>1. j \in 1 .. Len(rows) /\ j < m
        BY <2>3, <3>3, Earlier
      <4> QED BY <2>3, <4>1, <3>2
    <3> QED BY <2>3, <3>3, <3>4
  <2> QED BY <2>2, <2>4
<1>3. ASSUME NEW i \in DOMAIN rows
      PROVE  /\ NewRow(rows[i][2]) \in Row /\ NewRow(rows[i][2]).crawlstate = "NEW"
             /\ NewRow(rows[i][2]).crawlretry = 0
  <2>1. rows[i][2] \in Nat
    OBVIOUS
  <2>2. 0 \in 0 .. MaxCount
    OBVIOUS
  <2> QED BY <2>1, <2>2 DEF NewRow, Row, States
<1> HIDE DEF first
<1> DEFINE t == InsertIgnore(table, rows)
<1> HIDE DEF t
<1>4. ASSUME NEW u \in DOMAIN t, u \notin DOMAIN table
      PROVE  u \in Urls /\ t[u] \in Row /\ t[u].crawlstate = "NEW" /\ t[u].crawlretry = 0
  <2>1. u \in {r[1] : r \in SetOf(rows)} /\ t[u] = NewRow(rows[first(u)][2])
    BY <1>1, <1>4 DEF t
  <2> QED BY <2>1, <1>2, <1>3
<1>5. ASSUME NEW u \in DOMAIN table PROVE u \in DOMAIN t /\ t[u] = table[u] /\ u \in Urls /\ t[u] \in Row
  <2>1. u \in DOMAIN t /\ t[u] = table[u]
    BY <1>1 DEF t
  <2> QED BY <2>1 DEF IsTable
<1>6. IsTable(t)
  BY <1>4, <1>5 DEF IsTable
<1>7. DOMAIN table \subseteq DOMAIN t /\ \A u \in DOMAIN table : t[u] = table[u]
  BY <1>5
<1> QED BY <1>4, <1>6, <1>7 DEF t

(***************************************************************************)
(* Bags and sequences.                                                     *)
(***************************************************************************)
Counted(bag) == \A c \in DOMAIN bag : bag[c] \in Nat /\ bag[c] > 0

LEMMA PutFacts ==
  ASSUME NEW bag, Counted(bag), NEW c
  PROVE  /\ BagToSet(bag (+) SetToBag({c})) = BagToSet(bag) \cup {c}
         /\ Counted(bag (+) SetToBag({c}))
<1> DEFINE sum == bag (+) SetToBag({c})
<1>1. DOMAIN sum = DOMAIN bag \cup {c}
  BY DEF (+), SetToBag
<1>2. ASSUME NEW d \in DOMAIN sum PROVE sum[d] \in Nat /\ sum[d] > 0
  <2>1. sum[d] = (IF d \in DOMAIN bag THEN bag[d] ELSE 0) + (IF d \in {c} THEN 1 ELSE 0)
    BY DEF (+), SetToBag
  <2> HIDE DEF sum
  <2>2. CASE d \in DOMAIN bag BY <2>1, <2>2 DEF Counted
  <2>3. CASE d \notin DOMAIN bag BY <2>1, <2>3, <1>1
  <2> QED BY <2>2, <2>3
<1> QED BY <1>1, <1>2 DEF BagToSet, Counted

LEMMA TakeFacts ==
  ASSUME NEW bag, Counted(bag), NEW c
  PROVE  /\ BagToSet(bag (-) SetToBag({c})) \subseteq BagToSet(bag)
         /\ BagToSet(bag) \subseteq BagToSet(bag (-) SetToBag({c})) \cup {c}
         /\ Counted(bag (-) SetToBag({c}))
<1> DEFINE B == [e \in DOMAIN bag |-> IF e \in {c} THEN bag[e] - 1 ELSE bag[e]]
           diff == bag (-) SetToBag({c})
<1>1. diff = [e \in {d \in DOMAIN B : B[d] > 0} |-> B[e]]
  BY DEF (-), SetToBag
<1>2. /\ DOMAIN diff \subseteq DOMAIN bag
      /\ \A e \in DOMAIN diff : diff[e] = B[e] /\ B[e] > 0
      /\ \A e \in DOMAIN bag : B[e] > 0 => e \in DOMAIN diff
  BY <1>1
<1>3. ASSUME NEW e \in DOMAIN bag PROVE B[e] \in Int /\ (e # c => B[e] > 0)
  BY DEF Counted
<1> HIDE DEF B, diff
<1>4. \A e \in DOMAIN diff : diff[e] \in Nat /\ diff[e] > 0
  BY <1>2, <1>3
<1> QED BY <1>2, <1>3, <1>4 DEF BagToSet, Counted, diff

LEMMA SetOfEmpty == SetOf(<< >>) = {}
BY DEF SetOf

LEMMA SetOfAppend ==
  ASSUME NEW S, NEW s \in Seq(S), NEW x \in S
  PROVE  /\ Append(s, x) \in Seq(S) /\ Len(Append(s, x)) = Len(s) + 1
         /\ SetOf(Append(s, x)) = SetOf(s) \cup {x} /\ Append(s, x) # << >>
<1> DEFINE t == Append(s, x)
<1>1. /\ t \in Seq(S) /\ Len(s) \in Nat /\ Len(t) = Len(s) + 1
      /\ DOMAIN s = 1 .. Len(s) /\ DOMAIN t = 1 .. Len(s) + 1
      /\ \A i \in 1 .. Len(s) : t[i] = s[i]
      /\ t[Len(s) + 1] = x
  BY AppendProperties
<1> HIDE DEF t
<1>2. ASSUME NEW i \in DOMAIN t PROVE t[i] \in SetOf(s) \cup {x}
  <2>1. i \in DOMAIN s \/ i = Len(s) + 1 BY <1>1
  <2> QED BY <2>1, <1>1 DEF SetOf
<1>3. ASSUME NEW i \in DOMAIN s PROVE s[i] \in SetOf(t)
  <2>1. i \in DOMAIN t /\ t[i] = s[i] BY <1>1
  <2> QED BY <2>1 DEF SetOf
<1>4. x \in SetOf(t)
  <2>1. Len(s) + 1 \in DOMAIN t BY <1>1
  <2> QED BY <2>1, <1>1 DEF SetOf
<1>5. SetOf(t) = SetOf(s) \cup {x}
  BY <1>2, <1>3, <1>4 DEF SetOf
<1>6. t # << >>
  BY <1>1
<1> QED BY <1>1, <1>5, <1>6 DEF t

LEMMA SetOfTail ==
  ASSUME NEW S, NEW s \in Seq(S), s # << >>
  PROVE  /\ Head(s) \in S /\ Tail(s) \in Seq(S)
         /\ SetOf(s) \subseteq SetOf(Tail(s)) \cup {Head(s)}
<1>1. /\ Head(s) \in S /\ Tail(s) \in Seq(S) /\ Len(Tail(s)) = Len(s) - 1
      /\ Len(s) \in Nat /\ Len(s) >= 1 /\ Head(s) = s[1]
      /\ \A i \in 1 .. Len(Tail(s)) : Tail(s)[i] = s[i + 1]
  BY HeadTailProperties, EmptySeq
<1>2. DOMAIN Tail(s) = 1 .. Len(s) - 1 /\ DOMAIN s = 1 .. Len(s)
  BY <1>1
<1>3. ASSUME NEW i \in DOMAIN s, i # 1 PROVE s[i] \in SetOf(Tail(s))
  <2>1. i - 1 \in DOMAIN Tail(s) /\ (i - 1) + 1 = i BY <1>1, <1>2, <1>3
  <2> QED BY <2>1, <1>1, <1>2 DEF SetOf
<1> QED BY <1>1, <1>2, <1>3 DEF SetOf

(***************************************************************************)
(* The invariant.                                                          *)
(***************************************************************************)
Types ==
  /\ TypeOK /\ Counted(flight)
  /\ updateLinks \in Seq(Urls) /\ insertLinks \in Seq(Urls \X Nat)

\* What the place of a thread says of its variables.
FlowOK ==
  /\ selPc \in {"recover", "select"} => result = {}
  /\ dumpPc = "flushInsert" => updateLinks = << >>
  /\ dumpPc = "pop" => waitDumpQueue # << >> \/ (updateLinks = << >> /\ insertLinks = << >>)

IInv == Types /\ FlowOK /\ RecoverableAll /\ SelectedAccounted

InHand   == IF dumpPc \in {"hub", "state"} THEN {cur.url} ELSE {}
Accounts == UrlsOf(result) \cup UrlsOf(BagToSet(flight)) \cup UrlsOf(SetOf(waitDumpQueue))
              \cup InHand \cup SetOf(updateLinks) \cup lost \cup missed

\* A step that selects no row leaves those that are selected as they are.
OldSelected ==
  \A u \in DOMAIN link' : link'[u].crawlstate = "SELECTED" => u \in DOMAIN link /\ link'[u] = link[u]

LEMMA SelectedStay ==
  ASSUME IInv, OldSelected,
         \A u \in DOMAIN link' : link'[u].crawlstate = "SELECTED" /\ u \in Accounts => u \in Accounts'
  PROVE  RecoverableAll' /\ SelectedAccounted'
<1>1. RecoverableAll'
  BY DEF IInv, RecoverableAll, OldSelected, Stored
<1>2. SelectedAccounted <=> \A u \in DOMAIN link : link[u].crawlstate = "SELECTED" => u \in Accounts
  BY DEF SelectedAccounted, Stored, Accounts, OnTheWay, InHand
<1>3. SelectedAccounted' <=> \A u \in DOMAIN link' : link'[u].crawlstate = "SELECTED" => u \in Accounts'
  BY DEF SelectedAccounted, Stored, Accounts, OnTheWay, InHand
<1> QED BY <1>1, <1>2, <1>3 DEF IInv, OldSelected

\* The last statement of a context leaves its row unselected, or its url is lost.
LEMMA LastWordFacts ==
  ASSUME Types, NEW u \in Urls, NEW table, LastWord(table, u), IsTable(table),
         DOMAIN table = DOMAIN link, \A v \in DOMAIN link \ {u} : table[v] = link[v],
         u \in DOMAIN link => table[u].crawlstate = "NEW"
  PROVE  /\ IsTable(link') /\ lost \subseteq lost' /\ lost' \subseteq Urls
         /\ failures' \in 0 .. MaxFaults /\ OldSelected
         /\ \A v \in DOMAIN link' : link'[v].crawlstate = "SELECTED" => v # u \/ v \in lost'
<1>0. IsTable(link) /\ lost \subseteq Urls /\ failures \in 0 .. MaxFaults /\ crashes \in 0 .. MaxFaults
  BY DEF Types, TypeOK, IsTable
<1>1. CASE Works(table) /\ UNCHANGED lost
  BY <1>1, <1>0 DEF Works, OldSelected
<1>2. CASE Fails /\ lost' = lost \cup {u}
  <2>1. failures' \in 0 .. MaxFaults
    BY <1>2, <1>0 DEF Fails
  <2> QED BY <2>1, <1>2, <1>0 DEF Fails, OldSelected
<1> QED BY <1>1, <1>2 DEF LastWord

LEMMA ContextType ==
  ASSUME NEW c \in Context
  PROVE  c.url \in Urls /\ c.linkdepth \in Nat /\ c.hub \in BOOLEAN /\ c # NoContext
<1>1. c.url \in Urls /\ c.linkdepth \in Nat /\ c.hub \in BOOLEAN
  BY DEF Context
<1>2. DOMAIN c = {"url", "linkdepth", "hub"}
  BY DEF Context
<1>3. DOMAIN NoContext = {"url"}
  BY DEF NoContext
<1>4. "hub" \in DOMAIN c /\ "hub" \notin DOMAIN NoContext
  BY <1>2, <1>3
<1> QED BY <1>1, <1>4

(***************************************************************************)
(* MySqlSelector.                                                          *)
(***************************************************************************)
LEMMA RecoverStep ==
  ASSUME IInv, RecoverCrawlState PROVE IInv'
<1>1. /\ Types /\ IsTable(link) /\ selPc' = "select"
      /\ UNCHANGED <<result, flight, waitDumpQueue, dumpVars, lost, missed, replaced, crashes>>
      /\ result = {}
  BY DEF IInv, Types, TypeOK, IsTable, RecoverCrawlState, FlowOK
<1>2. IsTable(link') /\ failures' \in 0 .. MaxFaults /\ OldSelected
  <2>1. CASE Works(Recover(link))
    BY <2>1, <1>1, RecoverFacts DEF Works, OldSelected, Types, TypeOK
  <2>2. CASE Fails
    BY <2>2, <1>1, SMTT(30) DEF Fails, OldSelected, Types, TypeOK
  <2> QED BY <2>1, <2>2 DEF RecoverCrawlState, Exec
<1>3. Types'
  BY <1>1, <1>2 DEF Types, TypeOK, IsTable, dumpVars
<1>4. FlowOK'
  BY <1>1 DEF IInv, FlowOK, dumpVars
<1>5. Accounts' = Accounts
  BY <1>1 DEF Accounts, InHand, dumpVars
<1> QED BY <1>2, <1>3, <1>4, <1>5, SelectedStay DEF IInv

LEMMA SelectStep ==
  ASSUME IInv, Select PROVE IInv'
<1>1. /\ Types /\ selPc' = "update" /\ result = {}
      /\ UNCHANGED <<link, flight, waitDumpQueue, dumpVars, history>>
  BY DEF IInv, FlowOK, Select
<1>2. result' \subseteq Context
  <2>1. ASSUME NEW u \in DOMAIN link
        PROVE  [url |-> u, linkdepth |-> link[u].linkdepth, hub |-> link[u].hub] \in Context
    <3>1. link[u] \in Row /\ u \in Urls
      BY <1>1 DEF Types, TypeOK
    <3> QED BY <3>1 DEF Row, Context
  <2>2. ASSUME NEW c \in result' PROVE c \in Context
    BY <2>1 DEF Select, Stored
  <2> QED BY <2>2
<1>3. Types'
  BY <1>1, <1>2 DEF Types, TypeOK, dumpVars, history
<1>4. FlowOK'
  BY <1>1 DEF IInv, FlowOK, dumpVars
<1>5. Accounts \subseteq Accounts'
  BY <1>1 DEF Accounts, InHand, dumpVars, history, UrlsOf
<1> QED BY <1>1, <1>3, <1>4, <1>5, SelectedStay DEF IInv, OldSelected

LEMMA UpdateSelectedStep ==
  ASSUME IInv, UpdateSelected PROVE IInv'
<1>1. /\ Types /\ IsTable(link) /\ selPc' = "add"
      /\ UNCHANGED <<result, flight, waitDumpQueue, dumpVars, replaced, crashes>>
  BY DEF IInv, Types, TypeOK, IsTable, UpdateSelected
<1> DEFINE chosen == UrlsOf(result)
<1>2. CASE /\ Works(MarkSelected(link))
           /\ missed' = (missed \cup {u \in Stored : Marked(link[u])}) \ {r.url : r \in result}
           /\ lost' = lost \ {r.url : r \in result}
  <2>1. /\ missed' = (missed \cup {u \in DOMAIN link : Marked(link[u])}) \ chosen
        /\ lost' = lost \ chosen
        /\ link' = MarkSelected(link) /\ failures' = failures
    BY <1>2 DEF Works, UrlsOf, Stored
  <2> HIDE DEF chosen
  <2>2. /\ IsTable(link') /\ DOMAIN link' = DOMAIN link
        /\ \A u \in DOMAIN link : \/ link'[u] = link[u] /\ ~Marked(link[u])
                                  \/ Marked(link[u]) /\ link'[u].crawlretry < MaxCrawlRetry
    BY <2>1, <1>1, SelectedFacts
  <2>3. Types'
    BY <2>1, <2>2, <1>1 DEF Types, TypeOK, IsTable, dumpVars
  <2>4. FlowOK'
    BY <1>1 DEF IInv, FlowOK, dumpVars
  <2>5. RecoverableAll'
    BY <2>2 DEF IInv, RecoverableAll, Stored
  <2>6. SelectedAccounted'
    <3>1. /\ Accounts \subseteq Accounts'
          /\ {u \in DOMAIN link : Marked(link[u])} \subseteq Accounts'
      BY <2>1, <1>1 DEF Accounts, InHand, dumpVars, chosen
    <3>2. \A u \in DOMAIN link : link[u].crawlstate = "SELECTED" => u \in Accounts
      BY DEF IInv, SelectedAccounted, Stored, Accounts, OnTheWay, InHand
    <3>3. \A u \in DOMAIN link' : link'[u].crawlstate = "SELECTED" => u \in Accounts'
      BY <3>1, <3>2, <2>2
    <3> QED BY <3>3 DEF SelectedAccounted, Stored, Accounts, OnTheWay, InHand
  <2> QED BY <2>3, <2>4, <2>5, <2>6 DEF IInv
<1>3. CASE Fails /\ UNCHANGED <<missed, lost>>
  <2>1. link' = link /\ failures' \in 0 .. MaxFaults
    BY <1>3, <1>1, SMTT(30) DEF Fails, Types, TypeOK
  <2>2. Types'
    BY <2>1, <1>1, <1>3 DEF Types, TypeOK, dumpVars
  <2>3. FlowOK' /\ Accounts' = Accounts
    BY <1>1, <1>3 DEF IInv, FlowOK, Accounts, InHand, dumpVars
  <2> QED BY <2>1, <2>2, <2>3, SelectedStay DEF IInv, OldSelected
<1> QED BY <1>2, <1>3 DEF UpdateSelected

LEMMA AddUrlStep ==
  ASSUME IInv, NEW r \in result, AddUrl(r) PROVE IInv'
<1>1. /\ Types /\ IsTable(link) /\ selPc = "add" /\ result' = result \ {r} /\ r \in Context
      /\ UNCHANGED <<selPc, waitDumpQueue, dumpVars, missed, replaced, crashes>>
  BY DEF IInv, Types, TypeOK, IsTable, AddUrl
<1>2. r.url \in Urls /\ UrlsOf(result) \subseteq UrlsOf(result') \cup {r.url}
  BY <1>1, ContextType DEF UrlsOf
<1>3. FlowOK'
  BY <1>1 DEF IInv, FlowOK, dumpVars
<1>4. CASE flight' = flight (+) SetToBag({r}) /\ UNCHANGED <<link, lost, failures>>
  <2>1. BagToSet(flight') = BagToSet(flight) \cup {r} /\ Counted(flight')
    BY <1>4, <1>1, PutFacts DEF Types
  <2>2. Types'
    BY <2>1, <1>1, <1>4 DEF Types, TypeOK, dumpVars
  <2>3. UrlsOf(BagToSet(flight')) = UrlsOf(BagToSet(flight)) \cup {r.url}
    BY <2>1 DEF UrlsOf
  <2>4. Accounts \subseteq Accounts'
    <3>1. InHand' = InHand /\ UNCHANGED <<waitDumpQueue, updateLinks, lost, missed>>
      BY <1>1, <1>4 DEF InHand, dumpVars
    <3> QED BY <3>1, <2>3, <1>2 DEF Accounts
  <2> QED BY <2>2, <2>4, <1>3, <1>4, SelectedStay DEF IInv, OldSelected
<1>5. ASSUME NEW table, LastWord(table, r.url), flight' = flight, IsTable(table),
             DOMAIN table = DOMAIN link, \A v \in DOMAIN link \ {r.url} : table[v] = link[v],
             r.url \in DOMAIN link => table[r.url].crawlstate = "NEW"
      PROVE  IInv'
  <2>1. /\ IsTable(link') /\ lost \subseteq lost' /\ lost' \subseteq Urls
        /\ failures' \in 0 .. MaxFaults /\ OldSelected
        /\ \A v \in DOMAIN link' : link'[v].crawlstate = "SELECTED" => v # r.url \/ v \in lost'
    BY <1>1, <1>2, <1>5, LastWordFacts
  <2>2. Types'
    BY <2>1, <1>1, <1>5 DEF Types, TypeOK, IsTable, dumpVars
  <2>3. \A v \in DOMAIN link' : link'[v].crawlstate = "SELECTED" /\ v \in Accounts => v \in Accounts'
    BY <2>1, <1>1, <1>2, <1>5 DEF Accounts, InHand, dumpVars
  <2> QED BY <2>1, <2>2, <2>3, <1>3, SelectedStay DEF IInv
<1>6. CASE MayFailOnce(r.url) /\ LastWord(Failed(link, r.url), r.url) /\ UNCHANGED flight
  BY <1>1, <1>2, <1>5, <1>6, FailedFacts DEF MayFailOnce, Stored
<1>7. CASE LastWord(Mark(link, r.url, "NEW"), r.url) /\ UNCHANGED flight
  <2>1. "NEW" \in States BY DEF States
  <2> QED BY <2>1, <1>1, <1>2, <1>5, <1>7, MarkFacts
<1> QED BY <1>4, <1>6, <1>7 DEF AddUrl

LEMMA EndOfResultStep ==
  ASSUME IInv, EndOfResult PROVE IInv'
<1>1. /\ result = {} /\ selPc' = "select"
      /\ UNCHANGED <<link, result, flight, waitDumpQueue, dumpVars, history>>
  BY DEF EndOfResult
<1>2. Types' /\ FlowOK' /\ Accounts' = Accounts
  BY <1>1 DEF IInv, Types, TypeOK, FlowOK, Accounts, InHand, dumpVars, history
<1> QED BY <1>1, <1>2, SelectedStay DEF IInv, OldSelected

(***************************************************************************)
(* The way of a context.                                                   *)
(***************************************************************************)
LEMMA RequestStep ==
  ASSUME IInv, NEW u \in Urls, Request(u) PROVE IInv'
<1> DEFINE c == [url |-> u, linkdepth |-> 0, hub |-> TRUE]
<1>1. /\ Types /\ flight' = flight (+) SetToBag({c}) /\ c \in Context
      /\ UNCHANGED <<link, selVars, waitDumpQueue, dumpVars, history>>
  BY DEF IInv, Request, Context
<1> HIDE DEF c
<1>2. BagToSet(flight') = BagToSet(flight) \cup {c} /\ Counted(flight')
  BY <1>1, PutFacts DEF Types
<1>3. Types'
  BY <1>1, <1>2 DEF Types, TypeOK, selVars, dumpVars, history
<1>4. FlowOK'
  BY <1>1 DEF IInv, FlowOK, selVars, dumpVars
<1>5. Accounts \subseteq Accounts'
  <2>1. UrlsOf(BagToSet(flight)) \subseteq UrlsOf(BagToSet(flight'))
    BY <1>2 DEF UrlsOf
  <2>2. InHand' = InHand /\ UNCHANGED <<result, waitDumpQueue, updateLinks, lost, missed>>
    BY <1>1 DEF InHand, selVars, dumpVars, history
  <2> QED BY <2>1, <2>2 DEF Accounts
<1> QED BY <1>1, <1>3, <1>4, <1>5, SelectedStay DEF IInv, OldSelected

\* What it means for all three that a context leaves the bag.
LEMMA LeaveFacts ==
  ASSUME Types, NEW c \in BagToSet(flight), flight' = flight (-) SetToBag({c})
  PROVE  /\ c \in Context /\ c.url \in Urls
         /\ Counted(flight') /\ BagToSet(flight') \subseteq Context
         /\ UrlsOf(BagToSet(flight)) \subseteq UrlsOf(BagToSet(flight')) \cup {c.url}
<1>1. /\ BagToSet(flight') \subseteq BagToSet(flight)
      /\ BagToSet(flight) \subseteq BagToSet(flight') \cup {c} /\ Counted(flight')
  BY TakeFacts DEF Types
<1>2. c \in Context /\ BagToSet(flight) \subseteq Context
  BY DEF Types, TypeOK
<1> QED BY <1>1, <1>2, ContextType DEF UrlsOf

LEMMA CrawlFailedStep ==
  ASSUME IInv, NEW c \in BagToSet(flight), CrawlFailed(c) PROVE IInv'
<1>1. /\ Types /\ IsTable(link) /\ MayFailOnce(c.url) /\ flight' = flight (-) SetToBag({c})
      /\ LastWord(Failed(link, c.url), c.url)
      /\ UNCHANGED <<selVars, waitDumpQueue, dumpVars, missed, replaced, crashes>>
  BY DEF IInv, Types, TypeOK, IsTable, CrawlFailed
<1>2. /\ c \in Context /\ c.url \in Urls
      /\ Counted(flight') /\ BagToSet(flight') \subseteq Context
      /\ UrlsOf(BagToSet(flight)) \subseteq UrlsOf(BagToSet(flight')) \cup {c.url}
  BY <1>1, LeaveFacts
<1> DEFINE table == Failed(link, c.url)
<1>3. /\ IsTable(table) /\ DOMAIN table = DOMAIN link
      /\ \A v \in DOMAIN link \ {c.url} : table[v] = link[v]
      /\ c.url \in DOMAIN link => table[c.url].crawlstate = "NEW"
  BY <1>1, <1>2, FailedFacts DEF MayFailOnce, Stored
<1>4. LastWord(table, c.url)
  BY <1>1
<1> HIDE DEF table
<1>5. /\ IsTable(link') /\ lost \subseteq lost' /\ lost' \subseteq Urls
      /\ failures' \in 0 .. MaxFaults /\ OldSelected
      /\ \A v \in DOMAIN link' : link'[v].crawlstate = "SELECTED" => v # c.url \/ v \in lost'
  BY <1>1, <1>2, <1>3, <1>4, LastWordFacts
<1>6. Types'
  BY <1>1, <1>2, <1>5 DEF Types, TypeOK, IsTable, selVars, dumpVars
<1>7. FlowOK'
  BY <1>1 DEF IInv, FlowOK, selVars, dumpVars
<1>8. \A v \in DOMAIN link' : link'[v].crawlstate = "SELECTED" /\ v \in Accounts => v \in Accounts'
  <2>1. InHand' = InHand /\ UNCHANGED <<result, waitDumpQueue, updateLinks, missed>>
    BY <1>1 DEF InHand, selVars, dumpVars
  <2>2. Accounts \subseteq Accounts' \cup {c.url}
    BY <2>1, <1>2, <1>5 DEF Accounts
  <2>3. lost' \subseteq Accounts'
    BY DEF Accounts
  <2> QED BY <2>2, <2>3, <1>5
<1> QED BY <1>5, <1>6, <1>7, <1>8, SelectedStay DEF IInv

LEMMA DroppedStep ==
  ASSUME IInv, NEW c \in BagToSet(flight), Dropped(c) PROVE IInv'
<1>1. /\ Types /\ flight' = flight (-) SetToBag({c}) /\ lost' = lost \cup {c.url}
      /\ UNCHANGED <<link, selVars, waitDumpQueue, dumpVars, missed, replaced, crashes, failures>>
  BY DEF IInv, Dropped
<1>2. /\ c \in Context /\ c.url \in Urls
      /\ Counted(flight') /\ BagToSet(flight') \subseteq Context
      /\ UrlsOf(BagToSet(flight)) \subseteq UrlsOf(BagToSet(flight')) \cup {c.url}
  BY <1>1, LeaveFacts
<1>3. Types'
  BY <1>1, <1>2 DEF Types, TypeOK, selVars, dumpVars
<1>4. FlowOK'
  BY <1>1 DEF IInv, FlowOK, selVars, dumpVars
<1>5. Accounts \subseteq Accounts'
  <2>1. InHand' = InHand /\ UNCHANGED <<result, waitDumpQueue, updateLinks, missed>>
    BY <1>1 DEF InHand, selVars, dumpVars
  <2> QED BY <2>1, <1>1, <1>2, ZenonT(40) DEF Accounts
<1> QED BY <1>1, <1>3, <1>4, <1>5, SelectedStay DEF IInv, OldSelected

LEMMA CrawledStep ==
  ASSUME IInv, NEW c \in BagToSet(flight), Crawled(c) PROVE IInv'
<1>1. /\ Types /\ flight' = flight (-) SetToBag({c})
      /\ waitDumpQueue \in Seq(Context) /\ waitDumpQueue' = Append(waitDumpQueue, c)
      /\ UNCHANGED <<link, selVars, dumpVars, history>>
  BY DEF IInv, Types, TypeOK, Crawled
<1>2. /\ c \in Context /\ c.url \in Urls
      /\ Counted(flight') /\ BagToSet(flight') \subseteq Context
      /\ UrlsOf(BagToSet(flight)) \subseteq UrlsOf(BagToSet(flight')) \cup {c.url}
  BY <1>1, LeaveFacts
<1>3. /\ waitDumpQueue' \in Seq(Context) /\ waitDumpQueue' # << >>
      /\ SetOf(waitDumpQueue') = SetOf(waitDumpQueue) \cup {c}
  BY <1>1, <1>2, SetOfAppend
<1>4. Types'
  BY <1>1, <1>2, <1>3 DEF Types, TypeOK, selVars, dumpVars, history
<1>5. FlowOK'
  BY <1>1, <1>3 DEF IInv, FlowOK, selVars, dumpVars
<1>6. Accounts \subseteq Accounts'
  <2>1. UrlsOf(SetOf(waitDumpQueue')) = UrlsOf(SetOf(waitDumpQueue)) \cup {c.url}
    BY <1>3 DEF UrlsOf
  <2>2. InHand' = InHand /\ UNCHANGED <<result, updateLinks, lost, missed>>
    BY <1>1 DEF InHand, selVars, dumpVars, history
  <2> QED BY <2>1, <2>2, <1>2 DEF Accounts
<1> QED BY <1>1, <1>4, <1>5, <1>6, SelectedStay DEF IInv, OldSelected

(***************************************************************************)
(* MySqlDumper.                                                            *)
(***************************************************************************)
\* What flushing does to the table and to the batch.
LEMMA FlushUpdateFacts ==
  ASSUME Types, NEW batch \in Seq(Urls), FlushUpdate(batch)
  PROVE  /\ IsTable(link') /\ updateLinks' = << >> /\ failures' \in 0 .. MaxFaults
         /\ lost \subseteq lost' /\ lost' \subseteq Urls /\ OldSelected
         /\ \A u \in DOMAIN link' : link'[u].crawlstate = "SELECTED" => u \notin SetOf(batch) \/ u \in lost'
<1>0. /\ IsTable(link) /\ lost \subseteq Urls /\ failures \in 0 .. MaxFaults /\ crashes \in 0 .. MaxFaults
      /\ updateLinks' = << >>
  BY DEF Types, TypeOK, IsTable, FlushUpdate
<1>1. CASE batch = << >> /\ UNCHANGED <<link, lost, failures>>
  BY <1>0, <1>1, SetOfEmpty DEF OldSelected
<1>2. CASE Works(MarkCrawled(link, SetOf(batch))) /\ UNCHANGED lost
  <2>1. link' = MarkCrawled(link, SetOf(batch)) /\ failures' = failures
    BY <1>2 DEF Works
  <2>2. /\ IsTable(link') /\ DOMAIN link' = DOMAIN link
        /\ \A u \in DOMAIN link \ SetOf(batch) : link'[u] = link[u]
        /\ \A u \in DOMAIN link \cap SetOf(batch) : link'[u].crawlstate = "CRAWLED"
    BY <2>1, <1>0, CrawledFacts
  <2> QED BY <2>1, <2>2, <1>0, <1>2 DEF OldSelected
<1>3. CASE Fails /\ lost' = lost \cup SetOf(batch)
  <2>1. failures' \in 0 .. MaxFaults /\ link' = link
    BY <1>0, <1>3 DEF Fails
  <2>2. SetOf(batch) \subseteq Urls
    BY DEF SetOf
  <2> QED BY <2>1, <2>2, <1>0, <1>3 DEF OldSelected
<1> QED BY <1>1, <1>2, <1>3 DEF FlushUpdate

LEMMA FlushInsertFacts ==
  ASSUME Types, NEW batch \in Seq(Urls \X Nat), FlushInsert(batch)
  PROVE  /\ IsTable(link') /\ insertLinks' = << >> /\ failures' \in 0 .. MaxFaults /\ OldSelected
<1>0. IsTable(link) /\ failures \in 0 .. MaxFaults /\ crashes \in 0 .. MaxFaults /\ insertLinks' = << >>
  BY DEF Types, TypeOK, IsTable, FlushInsert
<1>1. CASE Works(InsertIgnore(link, batch))
  <2>1. link' = InsertIgnore(link, batch) /\ failures' = failures
    BY <1>1 DEF Works
  <2>2. /\ IsTable(link') /\ DOMAIN link \subseteq DOMAIN link'
        /\ \A u \in DOMAIN link : link'[u] = link[u]
        /\ \A u \in DOMAIN link' \ DOMAIN link : link'[u].crawlstate = "NEW"
    BY <2>1, <1>0, InsertFacts, SMTT(30)
  <2> QED BY <2>1, <2>2, <1>0 DEF OldSelected
<1>2. CASE Fails
  BY <1>0, <1>2 DEF Fails, OldSelected
<1> QED BY <1>1, <1>2 DEF FlushInsert, Exec

LEMMA EmptyBatches ==
  /\ << >> \in Seq(Urls) /\ << >> \in Seq(Urls \X Nat) /\ Len(<< >>) = 0
  /\ 0 < UpdateBatch /\ 0 < InsertBatch
OBVIOUS

LEMMA CheckStep ==
  ASSUME IInv, Check PROVE IInv'
<1>1. /\ Types /\ dumpPc = "check" /\ cur = NoContext /\ updateLinks \in Seq(Urls)
      /\ UNCHANGED <<selVars, flight, waitDumpQueue, cur, hrefs, insertLinks, missed, replaced, crashes>>
  BY DEF IInv, Types, TypeOK, Check
<1>2. CASE /\ waitDumpQueue # << >> /\ dumpPc' = "pop"
           /\ UNCHANGED <<link, updateLinks, lost, failures>>
  <2>1. Types' /\ FlowOK'
    BY <1>1, <1>2 DEF IInv, Types, TypeOK, FlowOK, selVars
  <2>2. Accounts' = Accounts
    BY <1>1, <1>2 DEF Accounts, InHand, selVars
  <2> QED BY <2>1, <2>2, <1>2, SelectedStay DEF IInv, OldSelected
<1>3. CASE waitDumpQueue = << >> /\ FlushUpdate(updateLinks) /\ dumpPc' = "flushInsert"
  <2>1. /\ IsTable(link') /\ updateLinks' = << >> /\ failures' \in 0 .. MaxFaults
        /\ lost \subseteq lost' /\ lost' \subseteq Urls /\ OldSelected
        /\ \A u \in DOMAIN link' : link'[u].crawlstate = "SELECTED" => u \notin SetOf(updateLinks) \/ u \in lost'
    BY <1>1, <1>3, FlushUpdateFacts
  <2>2. Types'
    BY <2>1, <1>1, <1>3, EmptyBatches DEF Types, TypeOK, IsTable, selVars
  <2>3. FlowOK'
    BY <2>1, <1>1, <1>3 DEF IInv, FlowOK, selVars
  <2>4. \A u \in DOMAIN link' : link'[u].crawlstate = "SELECTED" /\ u \in Accounts => u \in Accounts'
    <3>1. InHand' = InHand /\ UNCHANGED <<result, flight, waitDumpQueue, missed>>
      BY <1>1, <1>3 DEF InHand, selVars
    <3>2. Accounts \subseteq Accounts' \cup SetOf(updateLinks) /\ lost' \subseteq Accounts'
      BY <3>1, <2>1 DEF Accounts
    <3> QED BY <3>2, <2>1
  <2> QED BY <2>1, <2>2, <2>3, <2>4, SelectedStay DEF IInv
<1> QED BY <1>2, <1>3 DEF Check

LEMMA CheckInsertStep ==
  ASSUME IInv, CheckInsert PROVE IInv'
<1>1. /\ Types /\ dumpPc = "flushInsert" /\ dumpPc' = "pop" /\ cur = NoContext
      /\ updateLinks = << >> /\ insertLinks \in Seq(Urls \X Nat) /\ FlushInsert(insertLinks)
      /\ UNCHANGED <<selVars, flight, waitDumpQueue, cur, hrefs, updateLinks, lost, missed, replaced, crashes>>
  BY DEF IInv, Types, TypeOK, FlowOK, CheckInsert
<1>2. IsTable(link') /\ insertLinks' = << >> /\ failures' \in 0 .. MaxFaults /\ OldSelected
  BY <1>1, FlushInsertFacts
<1>3. Types'
  BY <1>1, <1>2, EmptyBatches DEF Types, TypeOK, IsTable, selVars
<1>4. FlowOK'
  BY <1>1, <1>2 DEF IInv, FlowOK, selVars
<1>5. Accounts' = Accounts
  BY <1>1 DEF Accounts, InHand, selVars
<1> QED BY <1>2, <1>3, <1>4, <1>5, SelectedStay DEF IInv

LEMMA PopStep ==
  ASSUME IInv, Pop PROVE IInv'
<1> DEFINE c == Head(waitDumpQueue)
<1>1. /\ Types /\ dumpPc = "pop" /\ waitDumpQueue \in Seq(Context) /\ waitDumpQueue # << >>
      /\ cur' = c /\ hrefs' = Links[c.url] /\ waitDumpQueue' = Tail(waitDumpQueue)
      /\ dumpPc' \in {"hub", "state"}
      /\ UNCHANGED <<link, selVars, flight, updateLinks, insertLinks, history>>
  BY DEF IInv, Types, TypeOK, Pop
<1>2. /\ c \in Context /\ waitDumpQueue' \in Seq(Context)
      /\ SetOf(waitDumpQueue) \subseteq SetOf(waitDumpQueue') \cup {c}
  BY <1>1, SetOfTail
<1> HIDE DEF c
<1>3. c.url \in Urls /\ c # NoContext /\ hrefs' \subseteq Urls
  BY <1>1, <1>2, ContextType
<1>4. Types'
  BY <1>1, <1>2, <1>3 DEF Types, TypeOK, selVars, history
<1>5. FlowOK'
  BY <1>1 DEF IInv, FlowOK, selVars
<1>6. Accounts \subseteq Accounts'
  <2>1. InHand = {} /\ InHand' = {c.url} /\ UNCHANGED <<result, flight, updateLinks, lost, missed>>
    BY <1>1 DEF InHand, selVars, history
  <2>2. UrlsOf(SetOf(waitDumpQueue)) \subseteq UrlsOf(SetOf(waitDumpQueue')) \cup {c.url}
    BY <1>2 DEF UrlsOf
  <2> QED BY <2>1, <2>2 DEF Accounts
<1> QED BY <1>1, <1>4, <1>5, <1>6, SelectedStay DEF IInv, OldSelected

LEMMA SetHubFacts ==
  ASSUME Types, NEW u \in Urls, SetHub(u)
  PROVE  /\ IsTable(link') /\ failures' \in 0 .. MaxFaults /\ replaced' \subseteq Urls /\ OldSelected
<1>0. /\ IsTable(link) /\ failures \in 0 .. MaxFaults /\ crashes \in 0 .. MaxFaults /\ replaced \subseteq Urls
  BY DEF Types, TypeOK, IsTable
<1>h. \A v \in DOMAIN link : HubRow(link[v]) \in Row /\ HubRow(link[v]).crawlstate = "NEW"
  BY <1>0, RowFacts DEF IsTable
<1>1. CASE Works(Update(link, LAMBDA v : v = u, HubRow)) /\ UNCHANGED replaced
  <2>1. /\ failures' = failures /\ DOMAIN link' = DOMAIN link
        /\ \A v \in DOMAIN link : link'[v] = IF v = u THEN HubRow(link[v]) ELSE link[v]
    BY <1>1 DEF Works, Update
  <2> QED BY <2>1, <1>0, <1>h, <1>1 DEF IsTable, OldSelected
<1>2. ASSUME u \notin DOMAIN link, NEW v \in DOMAIN link,
             Works([w \in (Stored \ {v}) \cup {u} |-> IF w = u THEN HubRow(link[v]) ELSE link[w]]),
             replaced' = replaced \cup {v}
      PROVE  /\ IsTable(link') /\ failures' \in 0 .. MaxFaults /\ replaced' \subseteq Urls /\ OldSelected
  <2>1. /\ failures' = failures /\ DOMAIN link' = (DOMAIN link \ {v}) \cup {u}
        /\ \A w \in DOMAIN link' : link'[w] = IF w = u THEN HubRow(link[v]) ELSE link[w]
    BY <1>2 DEF Works, Stored
  <2> QED BY <2>1, <1>0, <1>h, <1>2 DEF IsTable, OldSelected
<1>3. CASE Works(link) /\ UNCHANGED replaced
  BY <1>3, <1>0 DEF Works, OldSelected
<1>4. CASE Fails /\ UNCHANGED replaced
  BY <1>4, <1>0 DEF Fails, OldSelected
<1> QED BY <1>1, <1>2, <1>3, <1>4 DEF SetHub, Stored

LEMMA DumpHubStep ==
  ASSUME IInv, DumpHub PROVE IInv'
<1>1. /\ Types /\ dumpPc = "hub" /\ dumpPc' = "state" /\ SetHub(cur.url) /\ cur \in Context
      /\ cur # NoContext /\ updateLinks' = << >> /\ lost' = lost \cup SetOf(updateLinks)
      /\ UNCHANGED <<selVars, flight, waitDumpQueue, cur, hrefs, insertLinks, missed, crashes>>
  BY DEF IInv, Types, TypeOK, DumpHub
<1>2. cur.url \in Urls /\ SetOf(updateLinks) \subseteq Urls
  BY <1>1, ContextType DEF Types, SetOf
<1>3. IsTable(link') /\ failures' \in 0 .. MaxFaults /\ replaced' \subseteq Urls /\ OldSelected
  BY <1>1, <1>2, SetHubFacts
<1>4. Types'
  BY <1>1, <1>2, <1>3, EmptyBatches DEF Types, TypeOK, IsTable, selVars
<1>5. FlowOK'
  BY <1>1 DEF IInv, FlowOK, selVars
<1>6. Accounts \subseteq Accounts'
  <2>1. InHand' = InHand /\ UNCHANGED <<result, flight, waitDumpQueue, missed>>
    BY <1>1 DEF InHand, selVars
  <2> QED BY <2>1, <1>1 DEF Accounts
<1> QED BY <1>3, <1>4, <1>5, <1>6, SelectedStay DEF IInv

LEMMA UpdateCrawlStateStep ==
  ASSUME IInv, UpdateCrawlState PROVE IInv'
<1> DEFINE batch == Append(updateLinks, cur.url)
<1>1. /\ Types /\ dumpPc = "state" /\ dumpPc' = "links" /\ cur \in Context /\ cur # NoContext
      /\ \/ BatchFull(batch, UpdateBatch) /\ FlushUpdate(batch)
         \/ /\ ~BatchFull(batch, UpdateBatch) /\ updateLinks' = batch
            /\ UNCHANGED <<link, lost, failures>>
      /\ UNCHANGED <<selVars, flight, waitDumpQueue, cur, hrefs, insertLinks, missed, replaced, crashes>>
  BY DEF IInv, Types, TypeOK, UpdateCrawlState
<1>2. /\ batch \in Seq(Urls) /\ SetOf(batch) = SetOf(updateLinks) \cup {cur.url}
      /\ Len(batch) \in Nat
  <2>1. cur.url \in Urls /\ updateLinks \in Seq(Urls)
    BY <1>1, ContextType DEF Types
  <2>2. batch \in Seq(Urls) /\ SetOf(batch) = SetOf(updateLinks) \cup {cur.url}
    BY <2>1, SetOfAppend
  <2> QED BY <2>2
<1> HIDE DEF batch
<1>3. FlowOK'
  BY <1>1 DEF IInv, FlowOK, selVars
<1>4. /\ InHand = {cur.url} /\ InHand' = {} /\ UNCHANGED <<result, flight, waitDumpQueue, missed>>
  BY <1>1 DEF InHand, selVars
<1>5. CASE FlushUpdate(batch)
  <2>1. /\ IsTable(link') /\ updateLinks' = << >> /\ failures' \in 0 .. MaxFaults
        /\ lost \subseteq lost' /\ lost' \subseteq Urls /\ OldSelected
        /\ \A u \in DOMAIN link' : link'[u].crawlstate = "SELECTED" => u \notin SetOf(batch) \/ u \in lost'
    BY <1>1, <1>2, <1>5, FlushUpdateFacts
  <2>2. Types'
    BY <2>1, <1>1, EmptyBatches DEF Types, TypeOK, IsTable, selVars
  <2>3. Accounts \subseteq Accounts' \cup SetOf(batch) /\ lost' \subseteq Accounts'
    BY <2>1, <1>2, <1>4 DEF Accounts
  <2> QED BY <2>1, <2>2, <2>3, <1>3, SelectedStay DEF IInv
<1>6. CASE ~BatchFull(batch, UpdateBatch) /\ updateLinks' = batch /\ UNCHANGED <<link, lost, failures>>
  <2>1. Len(updateLinks') < UpdateBatch
    BY <1>2, <1>6 DEF BatchFull
  <2>2. Types'
    BY <2>1, <1>1, <1>2, <1>6 DEF Types, TypeOK, selVars
  <2>3. Accounts \subseteq Accounts'
    BY <1>2, <1>4, <1>6 DEF Accounts
  <2> QED BY <2>2, <2>3, <1>3, <1>6, SelectedStay DEF IInv, OldSelected
<1> QED BY <1>1, <1>5, <1>6

LEMMA DumpOneLinkStep ==
  ASSUME IInv, NEW u \in hrefs, DumpOneLink(u) PROVE IInv'
<1> DEFINE batch == Append(insertLinks, <<u, cur.linkdepth + 1>>)
<1>1. /\ Types /\ dumpPc = "links" /\ hrefs' = hrefs \ {u} /\ cur \in Context /\ u \in Urls
      /\ \/ BatchFull(batch, InsertBatch) /\ FlushInsert(batch)
         \/ ~BatchFull(batch, InsertBatch) /\ insertLinks' = batch /\ UNCHANGED <<link, failures>>
      /\ UNCHANGED <<selVars, flight, waitDumpQueue, dumpPc, cur, updateLinks, lost, missed, replaced, crashes>>
  BY DEF IInv, Types, TypeOK, DumpOneLink
<1>2. batch \in Seq(Urls \X Nat) /\ Len(batch) \in Nat
  <2>1. <<u, cur.linkdepth + 1>> \in Urls \X Nat /\ insertLinks \in Seq(Urls \X Nat)
    BY <1>1, ContextType DEF Types
  <2>2. batch \in Seq(Urls \X Nat)
    BY <2>1, SetOfAppend
  <2> QED BY <2>2
<1> HIDE DEF batch
<1>3. FlowOK'
  BY <1>1 DEF IInv, FlowOK, selVars
<1>4. Accounts' = Accounts
  BY <1>1 DEF Accounts, InHand, selVars
<1>5. CASE FlushInsert(batch)
  <2>1. IsTable(link') /\ insertLinks' = << >> /\ failures' \in 0 .. MaxFaults /\ OldSelected
    BY <1>1, <1>2, <1>5, FlushInsertFacts
  <2>2. Types'
    BY <2>1, <1>1, EmptyBatches DEF Types, TypeOK, IsTable, selVars
  <2> QED BY <2>1, <2>2, <1>3, <1>4, SelectedStay DEF IInv
<1>6. CASE ~BatchFull(batch, InsertBatch) /\ insertLinks' = batch /\ UNCHANGED <<link, failures>>
  <2>1. Len(insertLinks') < InsertBatch
    BY <1>2, <1>6 DEF BatchFull
  <2>2. Types'
    BY <2>1, <1>1, <1>2, <1>6 DEF Types, TypeOK, selVars
  <2> QED BY <2>2, <1>3, <1>4, <1>6, SelectedStay DEF IInv, OldSelected
<1> QED BY <1>1, <1>5, <1>6

LEMMA EndOfDumpStep ==
  ASSUME IInv, EndOfDump PROVE IInv'
<1>1. /\ dumpPc = "links" /\ cur' = NoContext /\ dumpPc' = "check"
      /\ UNCHANGED <<link, selVars, flight, waitDumpQueue, hrefs, updateLinks, insertLinks, history>>
  BY DEF EndOfDump
<1>2. Types' /\ FlowOK'
  BY <1>1 DEF IInv, Types, TypeOK, FlowOK, selVars, history
<1>3. Accounts' = Accounts
  BY <1>1 DEF Accounts, InHand, selVars, history
<1> QED BY <1>1, <1>2, <1>3, SelectedStay DEF IInv, OldSelected

LEMMA CrashStep ==
  ASSUME IInv, Crash PROVE IInv'
<1>1. /\ crashes' = crashes + 1 /\ crashes + failures < MaxFaults
      /\ selPc' = "recover" /\ result' = {}
      /\ flight' = EmptyBag /\ waitDumpQueue' = << >>
      /\ dumpPc' = "check" /\ cur' = NoContext /\ hrefs' = {}
      /\ updateLinks' = << >> /\ insertLinks' = << >>
      /\ lost' = {u \in Stored : link[u].crawlstate = "SELECTED"} /\ missed' = {}
      /\ UNCHANGED <<link, replaced, failures>>
  BY DEF Crash
<1>2. BagToSet(flight') = {} /\ Counted(flight')
  BY <1>1 DEF EmptyBag, SetToBag, BagToSet, Counted
<1>3. crashes' \in 0 .. MaxFaults /\ lost' \subseteq Urls
  BY <1>1, SMTT(30) DEF IInv, Types, TypeOK, Stored
<1>4. << >> \in Seq(Context)
  OBVIOUS
<1>5. Types'
  BY <1>1, <1>2, <1>3, <1>4, EmptyBatches DEF IInv, Types, TypeOK
<1>6. FlowOK'
  BY <1>1 DEF FlowOK
<1>7. \A u \in DOMAIN link' : link'[u].crawlstate = "SELECTED" /\ u \in Accounts => u \in Accounts'
  BY <1>1 DEF Accounts, Stored
<1> QED BY <1>1, <1>5, <1>6, <1>7, SelectedStay DEF IInv, OldSelected

(***************************************************************************)
(* Theorems.                                                               *)
(***************************************************************************)
LEMMA InitInv == Init => IInv
<1> SUFFICES ASSUME Init PROVE IInv
  OBVIOUS
<1>1. /\ link \in InitLinks
      /\ selPc = "recover" /\ result = {}
      /\ flight = EmptyBag /\ waitDumpQueue = << >>
      /\ dumpPc = "check" /\ cur = NoContext /\ hrefs = {}
      /\ updateLinks = << >> /\ insertLinks = << >>
      /\ lost = {} /\ missed = {} /\ replaced = {} /\ crashes = 0 /\ failures = 0
  BY DEF Init
<1>2. BagToSet(flight) = {} /\ Counted(flight)
  BY <1>1 DEF EmptyBag, SetToBag, BagToSet, Counted
<1>3. IsTable(link) /\ \A u \in DOMAIN link : link[u].crawlstate # "SELECTED"
  BY <1>1 DEF IsTable
<1>4. << >> \in Seq(Context) /\ 0 \in 0 .. MaxFaults
  OBVIOUS
<1>5. Types
  BY <1>1, <1>2, <1>3, <1>4, EmptyBatches DEF Types, TypeOK, IsTable
<1>6. FlowOK
  BY <1>1 DEF FlowOK
<1>7. RecoverableAll /\ SelectedAccounted
  BY <1>3 DEF RecoverableAll, SelectedAccounted, Stored
<1> QED BY <1>5, <1>6, <1>7 DEF IInv

LEMMA StepInv == IInv /\ [Next]_vars => IInv'
<1> SUFFICES ASSUME IInv, [Next]_vars PROVE IInv'
  OBVIOUS
<1>1. CASE UNCHANGED vars
  <2>1. UNCHANGED <<link, selPc, result, flight, waitDumpQueue, dumpPc, cur, hrefs, updateLinks,
                    insertLinks, lost, missed, replaced, crashes, failures>>
    BY <1>1 DEF vars, selVars, dumpVars, history
  <2>2. Types' /\ FlowOK'
    BY <2>1 DEF IInv, Types, TypeOK, FlowOK
  <2>3. Accounts' = Accounts
    BY <2>1 DEF Accounts, InHand
  <2> QED BY <2>1, <2>2, <2>3, SelectedStay DEF IInv, OldSelected
<1>2. CASE Selector
  BY <1>2, RecoverStep, SelectStep, UpdateSelectedStep, EndOfResultStep, AddUrlStep DEF Selector
<1>3. CASE Pipeline
  BY <1>3, RequestStep, CrawlFailedStep, DroppedStep, CrawledStep DEF Pipeline
<1>4. CASE Dumper
  BY <1>4, CheckStep, CheckInsertStep, PopStep, DumpHubStep, UpdateCrawlStateStep, EndOfDumpStep,
     DumpOneLinkStep DEF Dumper
<1>5. CASE Crash
  BY <1>5, CrashStep
<1> QED BY <1>1, <1>2, <1>3, <1>4, <1>5 DEF Next

\* Types, places and what is said of selected rows hold together in every state.
THEOREM Invariance == Safety => []IInv
<1>1. Init => IInv BY InitInv
<1>2. IInv /\ [Next]_vars => IInv' BY StepInv
<1> QED BY <1>1, <1>2, PTL DEF Safety

\* Variables keep their types.
THEOREM TypeCorrect == Safety => []TypeOK
<1>1. IInv => TypeOK BY DEF IInv, Types
<1> QED BY <1>1, Invariance, PTL

\* A selected row is on its way, in the batch, lost or missed, whatever fails.
THEOREM SelectedAlwaysAccounted == Safety => []SelectedAccounted
<1>1. IInv => SelectedAccounted BY DEF IInv
<1> QED BY <1>1, Invariance, PTL

\* No selected row fails the test of recoverCrawlState, whatever fails.
THEOREM AlwaysRecoverable == Safety => []RecoverableAll
<1>1. IInv => RecoverableAll BY DEF IInv
<1> QED BY <1>1, Invariance, PTL

\* Both batches are in the table before the dumper blocks.
THEOREM FlushedBeforeBlocking == Safety => []NothingLeftBehind
<1>1. IInv => NothingLeftBehind BY DEF IInv, FlowOK, NothingLeftBehind
<1> QED BY <1>1, Invariance, PTL

\* After recoverCrawlState no row is selected.
THEOREM RestartAlwaysFrees == Safety => RestartFrees
<1> DEFINE Freed == selPc = "recover" /\ selPc' = "select" /\ failures' = failures =>
                      \A u \in DOMAIN link' : link'[u].crawlstate # "SELECTED"
<1>1. IInv /\ [Next]_vars => [Freed]_vars
  <2> SUFFICES ASSUME IInv, Next, selPc = "recover", selPc' = "select", failures' = failures
               PROVE  \A u \in DOMAIN link' : link'[u].crawlstate # "SELECTED"
    OBVIOUS
  <2>1. RecoverCrawlState
    BY DEF Next, Selector, Pipeline, Dumper, Crash, Select, UpdateSelected, EndOfResult, AddUrl,
           Request, CrawlFailed, Dropped, Crawled, Check, CheckInsert, Pop, DumpHub, UpdateCrawlState,
           EndOfDump, DumpOneLink, selVars
  <2>2. failures \in Nat /\ IsTable(link) /\ RecoverableAll
    BY DEF IInv, Types, TypeOK, IsTable
  <2>3. link' = Recover(link)
    BY <2>1, <2>2 DEF RecoverCrawlState, Exec, Works, Fails
  <2>4. /\ DOMAIN link' = DOMAIN link
        /\ \A u \in DOMAIN link :
             \/ /\ ~(link[u].crawlstate = "SELECTED" /\ link[u].crawlretry < MaxCrawlRetry)
                /\ link'[u] = link[u]
             \/ link'[u].crawlstate = "NEW"
    BY <2>2, <2>3, RecoverFacts
  <2> QED BY <2>2, <2>4 DEF RecoverableAll, Stored
<1> QED BY <1>1, Invariance, PTL DEF Safety, RestartFrees

(***************************************************************************)
(* Counting the contexts of a url.                                         *)
(***************************************************************************)
Places(s, u) == {i \in DOMAIN s : s[i].url = u}
QueuedIn(s, u) == Cardinality(Places(s, u))

CountOf(bag, e) == IF e \in DOMAIN bag THEN bag[e] ELSE 0

One(is) == IF is THEN 1 ELSE 0

\* The queue counts each url by a natural number.
LEMMA QueuedType ==
  ASSUME NEW s \in Seq(Context), NEW u
  PROVE  IsFiniteSet(Places(s, u)) /\ QueuedIn(s, u) \in Nat
<1>1. DOMAIN s = 1 .. Len(s) /\ Len(s) \in Nat
  OBVIOUS
<1>2. IsFiniteSet(1 .. Len(s))
  <2>1. 1 \in Int /\ Len(s) \in Int
    BY <1>1
  <2> QED BY <2>1, FS_Interval
<1>3. Places(s, u) \subseteq 1 .. Len(s)
  BY <1>1 DEF Places
<1>4. IsFiniteSet(Places(s, u))
  BY <1>2, <1>3, FS_Subset
<1> QED BY <1>4, FS_CardinalityType DEF QueuedIn

\* A queue where no context is of u counts none.
LEMMA QueuedNone ==
  ASSUME NEW s \in Seq(Context), NEW u, u \notin UrlsOf(SetOf(s))
  PROVE  QueuedIn(s, u) = 0
<1>1. Places(s, u) = {}
  BY DEF Places, UrlsOf, SetOf
<1> QED BY <1>1, FS_EmptySet DEF QueuedIn

\* A context at the end of the queue counts for its url.
LEMMA QueuedAppend ==
  ASSUME NEW s \in Seq(Context), NEW c \in Context, NEW u
  PROVE  QueuedIn(Append(s, c), u) = QueuedIn(s, u) + One(c.url = u)
<1> DEFINE t == Append(s, c)
           n == Len(s) + 1
<1>1. /\ Len(s) \in Nat /\ DOMAIN s = 1 .. Len(s) /\ DOMAIN t = 1 .. n
      /\ \A i \in 1 .. Len(s) : t[i] = s[i]
      /\ t[n] = c
  BY AppendProperties
<1>2. n \in Nat /\ n \notin DOMAIN s /\ DOMAIN t = DOMAIN s \cup {n}
  BY <1>1
<1> HIDE DEF t, n
<1>3. n \notin Places(s, u)
  BY <1>2 DEF Places
<1>4. \A i \in DOMAIN s : t[i] = s[i]
  BY <1>1
<1>5. CASE c.url = u
  <2>1. Places(t, u) = Places(s, u) \cup {n}
    BY <1>1, <1>2, <1>4, <1>5 DEF Places
  <2>2. Cardinality(Places(t, u)) = Cardinality(Places(s, u)) + 1
    BY <2>1, <1>3, QueuedType, FS_AddElement
  <2> QED BY <2>2, <1>5 DEF QueuedIn, One, t
<1>6. CASE c.url # u
  <2>1. Places(t, u) = Places(s, u)
    BY <1>1, <1>2, <1>4, <1>6 DEF Places
  <2> QED BY <2>1, <1>6, QueuedType DEF QueuedIn, One, t
<1> QED BY <1>5, <1>6

\* The one that is taken counts no more.
LEMMA QueuedTail ==
  ASSUME NEW s \in Seq(Context), s # << >>, NEW u
  PROVE  QueuedIn(s, u) = QueuedIn(Tail(s), u) + One(Head(s).url = u)
<1> DEFINE t == Tail(s)
           c == Head(s)
           m == Len(t)
<1>1. /\ c = s[1] /\ t \in Seq(Context) /\ m \in Nat /\ DOMAIN t = 1 .. m
      /\ DOMAIN s = 1 .. m + 1 /\ \A i \in 1 .. m : t[i] = s[i + 1]
  BY HeadTailProperties, EmptySeq
<1> HIDE DEF t, c, m
<1> DEFINE up == [i \in Places(t, u) |-> i + 1]
<1>2. \A i \in Places(t, u) : i \in 1 .. m /\ i + 1 \in 2 .. m + 1 /\ t[i] = s[i + 1]
  BY <1>1, SMTT(30) DEF Places
<1>3. up \in Bijection(Places(t, u), Places(s, u) \ {1})
  <2>1. \A i \in Places(t, u) : i + 1 \in Places(s, u) \ {1}
    <3> SUFFICES ASSUME NEW i \in Places(t, u) PROVE i + 1 \in Places(s, u) \ {1}
      OBVIOUS
    <3>1. i + 1 \in DOMAIN s /\ i + 1 # 1 /\ t[i].url = u /\ t[i] = s[i + 1]
      BY <1>1, <1>2 DEF Places
    <3> QED BY <3>1 DEF Places
  <2>2. up \in Injection(Places(t, u), Places(s, u) \ {1})
    BY <2>1, <1>2, SMTT(30) DEF Injection, IsInjective
  <2>3. \A j \in Places(s, u) \ {1} : \E i \in Places(t, u) : up[i] = j
    <3> SUFFICES ASSUME NEW j \in Places(s, u) \ {1} PROVE \E i \in Places(t, u) : up[i] = j
      OBVIOUS
    <3>1. j - 1 \in 1 .. m /\ (j - 1) + 1 = j /\ s[j].url = u
      BY <1>1 DEF Places
    <3>2. j - 1 \in Places(t, u)
      BY <3>1, <1>1 DEF Places
    <3> QED BY <3>1, <3>2
  <2> HIDE DEF up
  <2> QED BY <2>2, <2>3 DEF Bijection, Surjection, Injection
<1>4. IsFiniteSet(Places(s, u)) /\ IsFiniteSet(Places(t, u)) /\ QueuedIn(t, u) \in Nat
  BY <1>1, QueuedType
<1>5. Cardinality(Places(s, u) \ {1}) = Cardinality(Places(t, u))
  <2>1. ExistsBijection(Places(t, u), Places(s, u) \ {1})
    BY <1>3 DEF ExistsBijection
  <2> QED BY <2>1, <1>4, FS_Bijection
<1>6. CASE c.url = u
  <2>1. 1 \in Places(s, u)
    BY <1>1, <1>6 DEF Places
  <2>2. Cardinality(Places(s, u) \ {1}) = Cardinality(Places(s, u)) - 1 /\ Cardinality(Places(s, u)) \in Nat
    BY <2>1, <1>4, FS_RemoveElement, FS_CardinalityType
  <2>3. QueuedIn(s, u) = QueuedIn(t, u) + 1 /\ One(c.url = u) = 1
    BY <2>2, <1>4, <1>5, <1>6 DEF QueuedIn, One
  <2> QED BY <2>3 DEF t, c
<1>7. CASE c.url # u
  <2>1. Places(s, u) \ {1} = Places(s, u)
    BY <1>1, <1>7 DEF Places
  <2>2. QueuedIn(s, u) = QueuedIn(t, u) /\ One(c.url = u) = 0
    BY <2>1, <1>5, <1>7 DEF QueuedIn, One
  <2> QED BY <2>2, <1>4 DEF t, c
<1> QED BY <1>6, <1>7

\* What one element more, or less, does to the counts of a bag.
LEMMA CopiesPut ==
  ASSUME NEW bag, Counted(bag), NEW c \in Context, NEW e
  PROVE  CountOf(bag (+) SetToBag({c}), e) = CountOf(bag, e) + One(c = e)
<1> DEFINE sum == bag (+) SetToBag({c})
<1>1. DOMAIN sum = DOMAIN bag \cup {c}
  BY DEF (+), SetToBag
<1>2. e \in DOMAIN sum =>
        sum[e] = (IF e \in DOMAIN bag THEN bag[e] ELSE 0) + (IF e \in {c} THEN 1 ELSE 0)
  BY DEF (+), SetToBag
<1>3. CountOf(sum, e) = IF e \in DOMAIN sum THEN sum[e] ELSE 0
  BY DEF CountOf
<1>4. CountOf(bag, e) = IF e \in DOMAIN bag THEN bag[e] ELSE 0
  BY DEF CountOf
<1> HIDE DEF sum
<1>5. CountOf(sum, e) = CountOf(bag, e) + One(c = e)
  <2>1. CASE e \in DOMAIN bag
    BY <1>1, <1>2, <1>3, <1>4, <2>1 DEF One, Counted
  <2>2. CASE e \notin DOMAIN bag
    BY <1>1, <1>2, <1>3, <1>4, <2>2 DEF One
  <2> QED BY <2>1, <2>2
<1> QED BY <1>5 DEF sum

LEMMA CopiesTake ==
  ASSUME NEW bag, Counted(bag), NEW c \in DOMAIN bag, NEW e
  PROVE  CountOf(bag, e) = CountOf(bag (-) SetToBag({c}), e) + One(c = e)
<1> DEFINE B == [d \in DOMAIN bag |-> IF d \in {c} THEN bag[d] - 1 ELSE bag[d]]
           diff == bag (-) SetToBag({c})
<1>1. diff = [d \in {d \in DOMAIN B : B[d] > 0} |-> B[d]]
  BY DEF (-), SetToBag
<1>2. /\ DOMAIN diff \subseteq DOMAIN bag
      /\ \A d \in DOMAIN diff : diff[d] = B[d]
      /\ \A d \in DOMAIN bag : d \in DOMAIN diff <=> B[d] > 0
  BY <1>1
<1>3. \A d \in DOMAIN bag : bag[d] \in Nat /\ bag[d] > 0 /\ B[d] = bag[d] - One(c = d)
  BY DEF Counted, One
<1>4. CountOf(diff, e) = IF e \in DOMAIN diff THEN diff[e] ELSE 0
  BY DEF CountOf
<1>5. CountOf(bag, e) = IF e \in DOMAIN bag THEN bag[e] ELSE 0
  BY DEF CountOf
<1> HIDE DEF B, diff
<1>6. CountOf(bag, e) = CountOf(diff, e) + One(c = e)
  <2>1. CASE e \in DOMAIN bag
    BY <1>2, <1>3, <1>4, <1>5, <2>1 DEF One
  <2>2. CASE e \notin DOMAIN bag
    BY <1>2, <1>4, <1>5, <2>2 DEF One
  <2> QED BY <2>1, <2>2
<1> QED BY <1>6 DEF diff

\* The size of a bag that holds one element at most.
LEMMA BagOfOne ==
  ASSUME NEW f, NEW c, DOMAIN f \subseteq {c}, \A e \in DOMAIN f : f[e] \in Nat
  PROVE  BagCardinality(f) = IF c \in DOMAIN f THEN f[c] ELSE 0
<1> DEFINE D == DOMAIN f
           IsTotal(d) == d = [S \in SUBSET D |->
                                LET elt == CHOOSE e \in S : TRUE
                                IN  IF S = {} THEN 0 ELSE f[elt] + d[S \ {elt}]]
           dsum == CHOOSE d : IsTotal(d)
           g == [S \in SUBSET D |-> IF S = {} THEN 0 ELSE f[c]]
<1>1. BagCardinality(f) = dsum[D]
  BY Zenon DEF BagCardinality
<1>2. \A S \in SUBSET D : S = {} \/ (S = {c} /\ c \in D)
  OBVIOUS
<1>3. (CHOOSE e \in {c} : TRUE) = c
  OBVIOUS
<1>4. IsTotal(g)
  <2>1. ASSUME NEW S \in SUBSET D
        PROVE  g[S] = LET elt == CHOOSE e \in S : TRUE
                      IN  IF S = {} THEN 0 ELSE f[elt] + g[S \ {elt}]
    <3>1. CASE S = {}
      BY <3>1
    <3>2. CASE S = {c} /\ c \in D
      <4>1. S \ {c} = {} /\ g[{}] = 0 /\ f[c] \in Nat /\ g[S] = f[c] /\ S # {}
        BY <3>2
      <4>2. (CHOOSE e \in S : TRUE) = c
        BY <3>2, <1>3
      <4> HIDE DEF g
      <4>3. g[S] = f[c] + g[S \ {c}]
        BY <4>1
      <4> QED BY <4>1, <4>2, <4>3, Zenon
    <3> QED BY <3>1, <3>2, <1>2
  <2> QED BY <2>1, Zenon
<1>5. IsTotal(dsum)
  <2> HIDE DEF IsTotal
  <2> QED BY <1>4, Zenon
<1>6. \A S \in SUBSET D : dsum[S] = LET elt == CHOOSE e \in S : TRUE
                                    IN  IF S = {} THEN 0 ELSE f[elt] + dsum[S \ {elt}]
  <2> HIDE DEF dsum
  <2> QED BY <1>5
<1> HIDE DEF dsum
<1>7. dsum[{}] = 0
  BY <1>6
<1>8. CASE c \in D
  <2>1. D = {c} /\ f[c] \in Nat /\ {c} \ {c} = {}
    BY <1>8
  <2>2. dsum[D] = f[c] + dsum[{c} \ {c}]
    BY <2>1, <1>6, <1>3
  <2>3. dsum[{c} \ {c}] = 0
    BY <2>1, <1>7
  <2>4. dsum[D] = f[c]
    BY <2>1, <2>2, <2>3
  <2> QED BY <1>1, <1>8, <2>4
<1>9. CASE c \notin D
  <2>1. D = {}
    BY <1>9
  <2> QED BY <2>1, <1>1, <1>7, <1>9
<1> QED BY <1>8, <1>9

(***************************************************************************)
(* The invariant of a crawl.                                               *)
(***************************************************************************)
\* What the query makes of the row of a link that is no hub.
RowContext(u) == [url |-> u, linkdepth |-> link[u].linkdepth, hub |-> FALSE]
Kept == Plain \ replaced

\* The urls that a context or the batch of crawls has.
Elsewhere ==
  UrlsOf(result) \cup UrlsOf(DOMAIN flight) \cup UrlsOf(SetOf(waitDumpQueue))
    \cup (IF cur = NoContext THEN {} ELSE {cur.url}) \cup SetOf(updateLinks)

\* A link has its contexts from its row, and its depth never changes.
ContextsOfRow ==
  \A u \in Kept : \A c \in result \cup DOMAIN flight : c.url = u => c = RowContext(u)

\* A url gets into the crawler from the table or from lspider_client.
OnlyStored == Elsewhere \subseteq Stored \cup Seeds \cup replaced

\* Until the selector has recovered the table there are only seeds.
Recovering == selPc = "recover" => Elsewhere \subseteq Seeds

Waits(u)   == One(RowContext(u) \in result)
Flying(u)  == CountOf(flight, RowContext(u))
Queued(u)  == QueuedIn(waitDumpQueue, u)
Held(u)    == One(cur.url = u)
Dumping(u) == One(dumpPc \in {"hub", "state"} /\ cur.url = u)

\* A row may still be selected as often as it may fail, and it is NEW only when
\* none of its contexts is out; each statement that failed adds one.
Fits(row, updating, waits, out, faults) ==
  /\ waits + out <= 1 + faults
  /\ row.crawlstate = "NEW" =>
       IF updating /\ row.crawlretry < MaxCrawlRetry THEN out <= faults ELSE waits + out <= faults
  /\ row.crawlretry + waits + out <= MaxCrawlRetry + faults

\* A link whose crawl is recorded, or in the batch, has no context to come.
Ends(row, coming, batched) ==
  /\ row.crawlstate = "CRAWLED" => coming = 0
  /\ batched => coming = 0 /\ row.crawlstate # "NEW"

At(u) ==
  /\ Fits(link[u], selPc = "update", Waits(u), Flying(u) + Queued(u) + Held(u), failures)
  /\ failures = 0 => Ends(link[u], Waits(u) + Flying(u) + Queued(u) + Dumping(u), u \in SetOf(updateLinks))

Crawls == ContextsOfRow /\ OnlyStored /\ Recovering /\ \A u \in Kept : At(u)

(***************************************************************************)
(* What every step does to the rows and the contexts.                      *)
(***************************************************************************)
\* What the row of a link and its counts are.
LEMMA KeptTypes ==
  ASSUME Types, NEW u \in Kept
  PROVE  /\ u \in DOMAIN link /\ u \in Urls /\ u \notin Seeds /\ u \notin replaced
         /\ link[u] \in Row /\ link[u].crawlretry \in Nat /\ link[u].crawlstate \in States
         /\ ~link[u].hub /\ failures \in Nat /\ MaxCrawlRetry \in Nat
         /\ Waits(u) \in {0, 1} /\ Flying(u) \in Nat /\ Queued(u) \in Nat
         /\ Held(u) \in {0, 1} /\ Dumping(u) \in {0, 1}
<1>1. /\ u \in DOMAIN link /\ u \in Urls /\ u \notin Seeds /\ u \notin replaced
      /\ link[u] \in Row /\ ~link[u].hub
  BY DEF Kept, Plain, Stored, Types, TypeOK
<1>2. link[u].crawlretry \in Nat /\ link[u].crawlstate \in States
  BY <1>1, RowFacts
<1>3. failures \in Nat
  BY DEF Types, TypeOK
<1>4. Flying(u) \in Nat
  BY DEF Types, Counted, Flying, CountOf
<1>5. Queued(u) \in Nat
  BY QueuedType DEF Types, TypeOK, Queued
<1>6. Waits(u) \in {0, 1} /\ Held(u) \in {0, 1} /\ Dumping(u) \in {0, 1}
  BY DEF Waits, Held, Dumping, One
<1> QED BY <1>1, <1>2, <1>3, <1>4, <1>5, <1>6

\* The counts alone.
LEMMA CountTypes ==
  ASSUME Types, NEW u \in Kept
  PROVE  Waits(u) \in Nat /\ Flying(u) \in Nat /\ Queued(u) \in Nat /\ Held(u) \in Nat /\ Dumping(u) \in Nat
BY KeptTypes

\* A row of a link either was one already, with the same depth, or was inserted now.
Follows ==
  /\ replaced \subseteq replaced' /\ DOMAIN link \subseteq DOMAIN link' \cup replaced'
  /\ \A u \in Kept' :
       \/ u \in Kept /\ link'[u].linkdepth = link[u].linkdepth
       \/ /\ u \notin Stored \cup Seeds \cup replaced
          /\ link'[u].crawlstate = "NEW" /\ link'[u].crawlretry = 0

\* A context of a link that was there stays as it is, and no other is made but from
\* its row.
Moves ==
  /\ Elsewhere' \subseteq Elsewhere \cup Seeds \cup Stored
  /\ \A c \in result' \cup DOMAIN flight' :
       c \in result \cup DOMAIN flight \/ c.url \in Seeds \/ (c.url \in Kept => c = RowContext(c.url))
  /\ selPc' = "recover" => (selPc = "recover" /\ Elsewhere' \subseteq Elsewhere \cup Seeds) \/ Elsewhere' = {}

\* The invariant goes over a step when the rows follow, the contexts only move, and
\* the counts of each link that was there still fit.
LEMMA Carried ==
  ASSUME IInv, IInv', Crawls, Follows, Moves,
         \A u \in Kept \cap Kept' : link'[u].linkdepth = link[u].linkdepth => At(u)'
  PROVE  Crawls'
<1>1. ASSUME NEW u \in Kept', u \notin Stored \cup Seeds \cup replaced,
             link'[u].crawlstate = "NEW", link'[u].crawlretry = 0
      PROVE  /\ \A c \in result' \cup DOMAIN flight' : c.url # u
             /\ At(u)'
  <2>1. u \notin Elsewhere'
    BY <1>1 DEF Crawls, OnlyStored, Moves
  <2>2. /\ \A c \in result' \cup DOMAIN flight' : c.url # u
        /\ u \notin UrlsOf(SetOf(waitDumpQueue')) /\ u \notin SetOf(updateLinks')
        /\ cur' = NoContext \/ cur'.url # u
    BY <2>1 DEF Elsewhere, UrlsOf
  <2>3. u \in Urls /\ failures' \in Nat /\ waitDumpQueue' \in Seq(Context) /\ cur' \in Context \cup {NoContext}
    BY <1>1 DEF Kept, Plain, Stored, IInv, Types, TypeOK
  <2>4. RowContext(u)'.url = u
    BY DEF RowContext
  <2>5. Waits(u)' = 0 /\ Flying(u)' = 0
    BY <2>2, <2>4 DEF Waits, Flying, One, CountOf
  <2>6. Queued(u)' = 0
    BY <2>2, <2>3, QueuedNone DEF Queued
  <2>7. Held(u)' = 0 /\ Dumping(u)' = 0
    <3>1. cur'.url # u
      BY <2>2, <2>3 DEF NoContext
    <3> QED BY <3>1 DEF Held, Dumping, One
  <2>8. Fits(link'[u], (selPc = "update")', 0, 0, failures')
    BY <1>1, <2>3 DEF Fits
  <2>9. At(u)'
    BY <2>2, <2>5, <2>6, <2>7, <1>1, <2>3 DEF At, Fits, Ends
  <2> QED BY <2>2, <2>9
<1>2. ASSUME NEW u \in Kept', u \in Kept, link'[u].linkdepth = link[u].linkdepth
      PROVE  \A c \in result' \cup DOMAIN flight' : c.url = u => c = RowContext(u)'
  <2>1. RowContext(u)' = RowContext(u) /\ u \notin Seeds
    BY <1>2 DEF RowContext, Kept, Plain
  <2> QED BY <2>1, <1>2 DEF Moves, Crawls, ContextsOfRow
<1>3. ContextsOfRow' /\ \A u \in Kept' : At(u)'
  BY <1>1, <1>2 DEF ContextsOfRow, Follows
<1>4. OnlyStored'
  BY DEF OnlyStored, Crawls, Follows, Moves, Stored
<1>5. Recovering'
  BY DEF Recovering, Crawls, Moves
<1> QED BY <1>3, <1>4, <1>5 DEF Crawls

\* A statement that changes states and retries only.
LEMMA UpdateFollows ==
  ASSUME Types, DOMAIN link' = DOMAIN link, replaced' = replaced,
         \A u \in DOMAIN link : link'[u] = link[u] \/ Alike(link'[u], link[u])
  PROVE  Follows
BY DEF Follows, Kept, Plain, Stored, Alike

\* The counts of a link after a step, its row having kept its depth.
LEMMA CountsAfter ==
  ASSUME NEW u, link'[u].linkdepth = link[u].linkdepth
  PROVE  /\ RowContext(u)' = RowContext(u) /\ RowContext(u).url = u
         /\ Waits(u)' = One(RowContext(u) \in result') /\ Flying(u)' = CountOf(flight', RowContext(u))
         /\ Queued(u)' = QueuedIn(waitDumpQueue', u) /\ Held(u)' = One(cur'.url = u)
         /\ Dumping(u)' = One(dumpPc' \in {"hub", "state"} /\ cur'.url = u)
         /\ result' = result => Waits(u)' = Waits(u)
         /\ flight' = flight => Flying(u)' = Flying(u)
         /\ waitDumpQueue' = waitDumpQueue => Queued(u)' = Queued(u)
         /\ cur' = cur => Held(u)' = Held(u)
         /\ cur' = cur /\ dumpPc' = dumpPc => Dumping(u)' = Dumping(u)
<1>1. RowContext(u)' = RowContext(u) /\ RowContext(u).url = u
  BY DEF RowContext
<1> QED BY <1>1 DEF Waits, Flying, Queued, Held, Dumping

\* A url that is nowhere in the crawler has no contexts.
LEMMA NotElsewhere ==
  ASSUME Types, NEW u \in Kept, u \notin Elsewhere
  PROVE  /\ Waits(u) = 0 /\ Flying(u) = 0 /\ Queued(u) = 0 /\ Held(u) = 0 /\ Dumping(u) = 0
         /\ u \notin SetOf(updateLinks)
<1>1. /\ \A c \in result \cup DOMAIN flight : c.url # u
      /\ u \notin UrlsOf(SetOf(waitDumpQueue)) /\ u \notin SetOf(updateLinks)
      /\ cur = NoContext \/ cur.url # u
  BY DEF Elsewhere, UrlsOf
<1>2. u \in Urls /\ waitDumpQueue \in Seq(Context) /\ RowContext(u).url = u
  BY DEF Kept, Plain, Stored, Types, TypeOK, RowContext
<1>3. Waits(u) = 0 /\ Flying(u) = 0
  BY <1>1, <1>2 DEF Waits, Flying, One, CountOf
<1>4. Queued(u) = 0
  BY <1>1, <1>2, QueuedNone DEF Queued
<1>5. cur.url # u
  BY <1>1, <1>2 DEF NoContext
<1> QED BY <1>1, <1>3, <1>4, <1>5 DEF Held, Dumping, One

\* recoverCrawlState: nobody has a link yet.
LEMMA RecoverCrawls ==
  ASSUME IInv, Crawls, RecoverCrawlState PROVE Crawls'
<1>1. /\ Types /\ IsTable(link) /\ selPc = "recover" /\ selPc' = "select" /\ Exec(Recover(link))
      /\ UNCHANGED <<result, flight, waitDumpQueue, dumpVars, lost, missed, replaced, crashes>>
      /\ failures \in Nat
  BY DEF IInv, Types, TypeOK, IsTable, RecoverCrawlState
<1>2. DOMAIN link' = DOMAIN link /\ failures' \in {failures, failures + 1}
      /\ \A u \in DOMAIN link : \/ link'[u] = link[u]
                                \/ link'[u].crawlretry = link[u].crawlretry /\ Alike(link'[u], link[u])
  <2>1. CASE Works(Recover(link))
    BY <1>1, <2>1, RecoverFacts DEF Works
  <2>2. CASE Fails
    BY <2>2 DEF Fails
  <2> QED BY <1>1, <2>1, <2>2 DEF Exec
<1>3. Follows
  BY <1>1, <1>2, UpdateFollows
<1>4. Moves
  BY <1>1 DEF Moves, Elsewhere, dumpVars
<1>5. ASSUME NEW u \in Kept \cap Kept', link'[u].linkdepth = link[u].linkdepth
      PROVE  At(u)'
  <2>1. u \notin Elsewhere
    BY <1>1 DEF Crawls, Recovering, Kept, Plain
  <2>2. /\ Waits(u)' = 0 /\ Flying(u)' = 0 /\ Queued(u)' = 0 /\ Held(u)' = 0 /\ Dumping(u)' = 0
        /\ u \notin SetOf(updateLinks')
    BY <1>1, <1>5, <2>1, NotElsewhere, CountsAfter DEF dumpVars
  <2>3. link'[u].crawlretry = link[u].crawlretry
    BY <1>2 DEF Kept, Plain, Stored
  <2>4. At(u) /\ link[u].crawlretry \in Nat /\ MaxCrawlRetry \in Nat /\ failures \in Nat
        /\ Waits(u) = 0 /\ Flying(u) = 0 /\ Queued(u) = 0 /\ Held(u) = 0
    BY <1>1, <2>1, KeptTypes, NotElsewhere DEF Crawls
  <2>5. link[u].crawlretry <= MaxCrawlRetry + failures
    BY <2>4 DEF At, Fits
  <2> QED BY <1>1, <1>2, <2>2, <2>3, <2>4, <2>5 DEF At, Fits, Ends
<1> QED BY <1>3, <1>4, <1>5, RecoverStep, Carried

\* The query: a NEW row makes the one context that its row had room for.
LEMMA SelectCrawls ==
  ASSUME IInv, Crawls, Select PROVE Crawls'
<1>1. /\ Types /\ selPc = "select" /\ selPc' = "update" /\ result = {}
      /\ result' = {[url |-> u, linkdepth |-> link[u].linkdepth, hub |-> link[u].hub] :
                      u \in {v \in Stored : Selectable(link[v])}}
      /\ UNCHANGED <<link, flight, waitDumpQueue, dumpVars, history>>
  BY DEF IInv, FlowOK, Select
<1>2. \A c \in result' : /\ c.url \in Stored /\ Selectable(link[c.url])
                         /\ c = [url |-> c.url, linkdepth |-> link[c.url].linkdepth, hub |-> link[c.url].hub]
  BY <1>1
<1>3. Follows
  BY <1>1, UpdateFollows DEF history
<1>4. Moves
  <2>1. Elsewhere' \subseteq Elsewhere \cup Stored
    BY <1>1, <1>2 DEF Elsewhere, UrlsOf, dumpVars
  <2>2. \A c \in result' : c.url \in Kept => c = RowContext(c.url)
    <3> SUFFICES ASSUME NEW c \in result', c.url \in Kept PROVE c = RowContext(c.url)
      OBVIOUS
    <3>1. link[c.url].hub = FALSE
      BY <1>1, KeptTypes, RowFacts
    <3> QED BY <1>2, <3>1 DEF RowContext
  <2> QED BY <1>1, <2>1, <2>2 DEF Moves
<1>5. ASSUME NEW u \in Kept \cap Kept', link'[u].linkdepth = link[u].linkdepth
      PROVE  At(u)'
  <2>1. /\ Waits(u) = 0 /\ Waits(u)' = One(RowContext(u) \in result') /\ Flying(u)' = Flying(u)
        /\ Queued(u)' = Queued(u) /\ Held(u)' = Held(u) /\ Dumping(u)' = Dumping(u)
    BY <1>1, <1>5, CountsAfter DEF dumpVars, Waits, One
  <2>2. RowContext(u) \in result' => link[u].crawlstate = "NEW" /\ link[u].crawlretry < MaxCrawlRetry
    BY <1>1, <1>2, <1>5, CountsAfter, KeptTypes DEF Selectable
  <2>3. At(u)
    BY DEF Crawls
  <2>4. link' = link /\ failures' = failures /\ updateLinks' = updateLinks
    BY <1>1 DEF history, dumpVars
  <2>5. CASE RowContext(u) \in result'
    <3>1. Waits(u)' = 1
      BY <2>1, <2>5 DEF One
    <3> QED BY <1>1, <2>1, <2>2, <2>3, <2>4, <2>5, <3>1, KeptTypes DEF At, Fits, Ends
  <2>6. CASE RowContext(u) \notin result'
    <3>1. Waits(u)' = 0
      BY <2>1, <2>6 DEF One
    <3> QED BY <1>1, <2>1, <2>3, <2>4, <3>1, KeptTypes DEF At, Fits, Ends
  <2> QED BY <2>5, <2>6
<1> QED BY <1>3, <1>4, <1>5, SelectStep, Carried

\* The update: what it marks is SELECTED now, what it misses had no room anyway.
LEMMA UpdateSelectedCrawls ==
  ASSUME IInv, Crawls, UpdateSelected PROVE Crawls'
<1>1. /\ Types /\ IsTable(link) /\ selPc = "update" /\ selPc' = "add"
      /\ UNCHANGED <<result, flight, waitDumpQueue, dumpVars, replaced, crashes>>
      /\ Works(MarkSelected(link)) \/ Fails
  BY DEF IInv, Types, TypeOK, IsTable, UpdateSelected
<1>2. DOMAIN link' = DOMAIN link
      /\ \/ /\ failures' = failures
            /\ \A u \in DOMAIN link :
                 \/ link'[u] = link[u] /\ ~Marked(link[u])
                 \/ /\ link'[u].crawlstate = "SELECTED" /\ link'[u].crawlretry = link[u].crawlretry
                    /\ Marked(link[u]) /\ Alike(link'[u], link[u])
         \/ failures' = failures + 1 /\ link' = link
  <2>1. CASE Works(MarkSelected(link))
    BY <1>1, <2>1, SelectedFacts DEF Works
  <2>2. CASE Fails
    BY <2>2 DEF Fails
  <2> QED BY <1>1, <2>1, <2>2
<1>3. Follows
  BY <1>1, <1>2, UpdateFollows
<1>4. Moves
  BY <1>1 DEF Moves, Elsewhere, dumpVars
<1>5. ASSUME NEW u \in Kept \cap Kept', link'[u].linkdepth = link[u].linkdepth
      PROVE  At(u)'
  <2>1. /\ Waits(u)' = Waits(u) /\ Flying(u)' = Flying(u)
        /\ Queued(u)' = Queued(u) /\ Held(u)' = Held(u) /\ Dumping(u)' = Dumping(u)
    BY <1>1, <1>5, CountsAfter DEF dumpVars
  <2>2. At(u) /\ updateLinks' = updateLinks /\ u \in DOMAIN link
    BY <1>1, KeptTypes DEF Crawls, dumpVars
  <2>3. CASE failures' = failures /\ link'[u] = link[u] /\ ~Marked(link[u])
    BY <1>1, <2>1, <2>2, <2>3, KeptTypes DEF At, Fits, Ends, Marked
  <2>4. CASE failures' = failures /\ link'[u].crawlstate = "SELECTED" /\ link'[u].crawlretry = link[u].crawlretry
             /\ Marked(link[u])
    <3>1. link[u].crawlstate = "NEW"
      BY <1>1, <2>4, KeptTypes DEF Marked
    <3> QED BY <1>1, <2>1, <2>2, <2>4, <3>1, KeptTypes DEF At, Fits, Ends
  <2>5. CASE failures' = failures + 1 /\ link' = link
    BY <1>1, <2>1, <2>2, <2>5, KeptTypes DEF At, Fits
  <2> QED BY <1>2, <2>2, <2>3, <2>4, <2>5
<1> QED BY <1>3, <1>4, <1>5, UpdateSelectedStep, Carried

\* What the last statement of a context does to the row of each link: with c out of
\* the counts, the row may be NEW again and have failed once more.
LEMMA LastWordRows ==
  ASSUME Types, NEW c \in Context,
         \/ MayFailOnce(c.url) /\ LastWord(Failed(link, c.url), c.url)
         \/ LastWord(Mark(link, c.url, "NEW"), c.url)
  PROVE  /\ DOMAIN link' = DOMAIN link
         /\ \A u \in DOMAIN link : link'[u] = link[u] \/ Alike(link'[u], link[u])
         /\ \/ /\ failures' = failures /\ \A u \in DOMAIN link \ {c.url} : link'[u] = link[u]
               /\ c.url \in DOMAIN link =>
                    /\ link'[c.url].crawlstate = "NEW"
                    /\ link'[c.url].crawlretry \in {link[c.url].crawlretry, link[c.url].crawlretry + 1}
            \/ failures' = failures + 1 /\ link' = link
<1>1. IsTable(link) /\ c.url \in Urls /\ "NEW" \in States
  BY ContextType DEF Types, TypeOK, IsTable, States
<1>2. CASE Fails
  BY <1>2 DEF Fails
<1>3. CASE MayFailOnce(c.url) /\ Works(Failed(link, c.url))
  BY <1>1, <1>3, FailedFacts DEF Works, MayFailOnce, Stored
<1>4. CASE Works(Mark(link, c.url, "NEW"))
  BY <1>1, <1>4, MarkFacts DEF Works
<1> QED BY <1>2, <1>3, <1>4 DEF LastWord

\* A step that leaves the row of a link as it is, and makes no context of it.
LEMMA SameRowAt ==
  ASSUME Types, NEW u \in Kept, At(u), link'[u] = link[u], failures' \in {failures, failures + 1}, selPc' = selPc,
         Waits(u)' \in Nat, Flying(u)' \in Nat, Queued(u)' \in Nat, Held(u)' \in Nat, Dumping(u)' \in Nat,
         Waits(u)' + Flying(u)' + Queued(u)' + Held(u)' <= Waits(u) + Flying(u) + Queued(u) + Held(u),
         selPc = "update" => Flying(u)' + Queued(u)' + Held(u)' <= Flying(u) + Queued(u) + Held(u),
         Waits(u)' + Flying(u)' + Queued(u)' + Dumping(u)' <= Waits(u) + Flying(u) + Queued(u) + Dumping(u),
         u \in SetOf(updateLinks') => u \in SetOf(updateLinks)
  PROVE  At(u)'
<1> DEFINE w == Waits(u)
           o == Flying(u) + Queued(u) + Held(u)
           p == Waits(u) + Flying(u) + Queued(u) + Dumping(u)
<1>1. /\ link[u].crawlretry \in Nat /\ MaxCrawlRetry \in Nat /\ failures \in Nat
      /\ w \in Nat /\ o \in Nat /\ p \in Nat /\ w' \in Nat /\ o' \in Nat /\ p' \in Nat
  BY KeptTypes
<1>2. w' + o' <= w + o /\ p' <= p /\ (selPc = "update" => o' <= o)
  BY KeptTypes
<1>3. Fits(link[u], selPc = "update", w, o, failures)
  BY DEF At
<1>4. failures = 0 => Ends(link[u], p, u \in SetOf(updateLinks))
  BY DEF At
<1> HIDE DEF w, o, p
<1>5. Fits(link'[u], (selPc = "update")', w', o', failures')
  BY <1>1, <1>2, <1>3 DEF Fits
<1>6. failures' = 0 => Ends(link'[u], p', u \in SetOf(updateLinks'))
  BY <1>1, <1>2, <1>4 DEF Ends
<1> QED BY <1>5, <1>6 DEF At, w, o, p

\* A context leaves the result or the flight with its last statement.
LEMMA LastWordAt ==
  ASSUME IInv, Crawls, NEW c \in Context, NEW u \in Kept \cap Kept', selPc' = selPc,
         \/ MayFailOnce(c.url) /\ LastWord(Failed(link, c.url), c.url)
         \/ LastWord(Mark(link, c.url, "NEW"), c.url),
         c.url = u <=> c = RowContext(u),
         Waits(u)' + Flying(u)' + One(c = RowContext(u)) = Waits(u) + Flying(u),
         Waits(u)' \in {0, 1}, Flying(u)' \in Nat, Waits(u)' <= Waits(u),
         c.url # u => Flying(u)' = Flying(u),
         Queued(u)' = Queued(u), Held(u)' = Held(u), Dumping(u)' = Dumping(u), updateLinks' = updateLinks
  PROVE  At(u)'
<1>1. Types /\ At(u) /\ u \in DOMAIN link
  BY KeptTypes DEF IInv, Crawls
<1>2. CASE failures' = failures + 1 /\ link' = link
  <2>1. Flying(u)' <= Flying(u) + 1 /\ Waits(u)' + Flying(u)' <= Waits(u) + Flying(u)
    BY <1>1, KeptTypes DEF One
  <2> QED BY <1>1, <1>2, <2>1, KeptTypes DEF At, Fits
<1>3. CASE failures' = failures /\ c.url # u /\ link'[u] = link[u]
  <2>1. Waits(u)' + Flying(u)' = Waits(u) + Flying(u)
    BY <1>1, <1>3, KeptTypes DEF One
  <2>2. /\ Waits(u)' \in Nat /\ Queued(u)' \in Nat /\ Held(u)' \in Nat /\ Dumping(u)' \in Nat
        /\ Flying(u)' + Queued(u)' + Held(u)' <= Flying(u) + Queued(u) + Held(u)
        /\ Waits(u)' + Flying(u)' + Queued(u)' + Held(u)' <= Waits(u) + Flying(u) + Queued(u) + Held(u)
        /\ Waits(u)' + Flying(u)' + Queued(u)' + Dumping(u)' <= Waits(u) + Flying(u) + Queued(u) + Dumping(u)
    <3>1. Types /\ u \in Kept
      BY <1>1
    <3>2. /\ Waits(u) \in Nat /\ Flying(u) \in Nat /\ Queued(u) \in Nat /\ Held(u) \in Nat /\ Dumping(u) \in Nat
      BY <3>1, CountTypes
    <3>3. Waits(u)' \in Nat /\ Flying(u)' = Flying(u)
      BY <1>3
    <3> QED BY <3>2, <3>3
  <2> QED BY <1>1, <1>3, <2>2, SameRowAt
<1>4. CASE /\ failures' = failures /\ c.url = u /\ link'[u].crawlstate = "NEW"
           /\ link'[u].crawlretry \in {link[u].crawlretry, link[u].crawlretry + 1}
  <2>1. Waits(u)' + Flying(u)' + 1 = Waits(u) + Flying(u)
    BY <1>1, <1>4, KeptTypes DEF One
  <2>2. Fits(link'[u], (selPc = "update")', Waits(u)', Flying(u)' + Queued(u)' + Held(u)', failures')
    BY <1>1, <1>4, <2>1, KeptTypes DEF At, Fits
  <2>3. failures' = 0 => Ends(link'[u], Waits(u)' + Flying(u)' + Queued(u)' + Dumping(u)', u \in SetOf(updateLinks'))
    BY <1>1, <1>4, <2>1, KeptTypes DEF At, Ends
  <2> QED BY <2>2, <2>3 DEF At
<1> QED BY <1>1, <1>2, <1>3, <1>4, LastWordRows

\* The loop over the result: the context goes to the scheduler or ends.
LEMMA AddUrlCrawls ==
  ASSUME IInv, Crawls, NEW r \in result, AddUrl(r) PROVE Crawls'
<1>1. /\ Types /\ selPc = "add" /\ selPc' = "add" /\ result' = result \ {r} /\ r \in Context /\ Counted(flight)
      /\ UNCHANGED <<waitDumpQueue, dumpVars, missed, replaced, crashes>>
  BY DEF IInv, Types, TypeOK, AddUrl
<1>2. \/ flight' = flight (+) SetToBag({r}) /\ UNCHANGED <<link, failures>>
      \/ /\ \/ MayFailOnce(r.url) /\ LastWord(Failed(link, r.url), r.url)
            \/ LastWord(Mark(link, r.url, "NEW"), r.url)
         /\ flight' = flight
  BY DEF AddUrl
<1>3. Follows
  BY <1>1, <1>2, LastWordRows, UpdateFollows
<1>4. Moves
  <2>1. DOMAIN flight' \subseteq DOMAIN flight \cup {r}
    BY <1>1, <1>2, PutFacts DEF BagToSet
  <2> QED BY <1>1, <2>1 DEF Moves, Elsewhere, UrlsOf, dumpVars
<1>5. ASSUME NEW u \in Kept \cap Kept', link'[u].linkdepth = link[u].linkdepth
      PROVE  At(u)'
  <2>1. /\ Queued(u)' = Queued(u) /\ Held(u)' = Held(u) /\ Dumping(u)' = Dumping(u)
        /\ Waits(u)' = One(RowContext(u) \in result') /\ Flying(u)' = CountOf(flight', RowContext(u))
        /\ At(u) /\ updateLinks' = updateLinks
    BY <1>1, <1>5, CountsAfter DEF dumpVars, Crawls
  <2>2. r.url = u <=> r = RowContext(u)
    BY CountsAfter, <1>5 DEF Crawls, ContextsOfRow
  <2>3. Waits(u)' + One(r = RowContext(u)) = Waits(u) /\ Waits(u)' \in {0, 1}
    BY <1>1, <2>1 DEF Waits, One
  <2>4. CASE flight' = flight (+) SetToBag({r}) /\ UNCHANGED <<link, failures>>
    <3>1. Flying(u)' = Flying(u) + One(r = RowContext(u))
      BY <1>1, <2>1, <2>4, CopiesPut DEF Flying
    <3>2. Waits(u)' + Flying(u)' = Waits(u) + Flying(u) /\ Flying(u)' \in Nat
      BY <1>1, <2>3, <3>1, KeptTypes DEF One
    <3>3. /\ Waits(u)' \in Nat /\ Queued(u)' \in Nat /\ Held(u)' \in Nat /\ Dumping(u)' \in Nat
          /\ Waits(u)' + Flying(u)' + Queued(u)' + Held(u)' <= Waits(u) + Flying(u) + Queued(u) + Held(u)
          /\ Waits(u)' + Flying(u)' + Queued(u)' + Dumping(u)' <= Waits(u) + Flying(u) + Queued(u) + Dumping(u)
      BY <1>1, <2>1, <2>3, <3>2, KeptTypes
    <3> QED BY <1>1, <2>1, <2>4, <3>2, <3>3, SameRowAt
  <2>5. CASE /\ \/ MayFailOnce(r.url) /\ LastWord(Failed(link, r.url), r.url)
                \/ LastWord(Mark(link, r.url, "NEW"), r.url)
             /\ flight' = flight
    <3>1. Flying(u)' = Flying(u) /\ Flying(u) \in Nat /\ Waits(u) \in {0, 1} /\ One(r = RowContext(u)) \in {0, 1}
      BY <1>1, <2>1, <2>5, KeptTypes DEF Flying, One
    <3>2. /\ Waits(u)' + Flying(u)' + One(r = RowContext(u)) = Waits(u) + Flying(u)
          /\ Flying(u)' \in Nat /\ Waits(u)' <= Waits(u)
      BY <2>3, <3>1
    <3> QED BY <1>1, <2>1, <2>2, <2>3, <2>5, <3>1, <3>2, LastWordAt
  <2> QED BY <1>2, <2>4, <2>5
<1> QED BY <1>3, <1>4, <1>5, AddUrlStep, Carried

\* The end of the loop.
LEMMA EndOfResultCrawls ==
  ASSUME IInv, Crawls, EndOfResult PROVE Crawls'
<1>1. /\ Types /\ selPc = "add" /\ selPc' = "select"
      /\ UNCHANGED <<link, result, flight, waitDumpQueue, dumpVars, history>>
  BY DEF IInv, EndOfResult
<1>2. Follows
  BY <1>1, UpdateFollows DEF history
<1>3. Moves
  BY <1>1 DEF Moves, Elsewhere, dumpVars
<1>4. ASSUME NEW u \in Kept \cap Kept', link'[u].linkdepth = link[u].linkdepth
      PROVE  At(u)'
  <2>1. /\ Waits(u)' = Waits(u) /\ Flying(u)' = Flying(u) /\ Queued(u)' = Queued(u)
        /\ Held(u)' = Held(u) /\ Dumping(u)' = Dumping(u)
        /\ At(u) /\ updateLinks' = updateLinks /\ link' = link /\ failures' = failures
    BY <1>1, <1>4, CountsAfter DEF dumpVars, history, Crawls
  <2> QED BY <1>1, <2>1, KeptTypes DEF At, Fits, Ends
<1> QED BY <1>2, <1>3, <1>4, EndOfResultStep, Carried

\* A seed is no link.
LEMMA RequestCrawls ==
  ASSUME IInv, Crawls, NEW s \in Urls, Request(s) PROVE Crawls'
<1> DEFINE c == [url |-> s, linkdepth |-> 0, hub |-> TRUE]
<1>1. /\ Types /\ s \in Seeds /\ c \in Context /\ flight' = flight (+) SetToBag({c}) /\ Counted(flight) /\ c.url = s
      /\ UNCHANGED <<link, selVars, waitDumpQueue, dumpVars, history>>
  BY DEF IInv, Types, Request, Context
<1> HIDE DEF c
<1>2. DOMAIN flight' = DOMAIN flight \cup {c}
  BY <1>1, PutFacts DEF BagToSet
<1>3. Follows
  BY <1>1, UpdateFollows DEF history
<1>4. Moves
  <2>1. UrlsOf(DOMAIN flight') \subseteq UrlsOf(DOMAIN flight) \cup Seeds
    BY <1>1, <1>2 DEF UrlsOf
  <2>2. Elsewhere' \subseteq Elsewhere \cup Seeds
    BY <1>1, <2>1, ZenonT(40) DEF Elsewhere, dumpVars, selVars
  <2> QED BY <1>1, <1>2, <2>2 DEF Moves, selVars
<1>5. ASSUME NEW u \in Kept \cap Kept', link'[u].linkdepth = link[u].linkdepth
      PROVE  At(u)'
  <2>1. c # RowContext(u)
    BY <1>1, <1>5, CountsAfter DEF Kept, Plain
  <2>2. CountOf(flight', RowContext(u)) = Flying(u)
    <3>1. Flying(u) \in Nat /\ One(c = RowContext(u)) = 0
      BY <1>1, <2>1, KeptTypes DEF One
    <3>2. CountOf(flight', RowContext(u)) = CountOf(flight, RowContext(u)) + One(c = RowContext(u))
      BY <1>1, CopiesPut
    <3>3. CountOf(flight, RowContext(u)) = Flying(u)
      BY DEF Flying
    <3> QED BY <3>1, <3>2, <3>3
  <2>3. /\ Waits(u)' = Waits(u) /\ Flying(u)' = Flying(u) /\ Queued(u)' = Queued(u)
        /\ Held(u)' = Held(u) /\ Dumping(u)' = Dumping(u)
        /\ At(u) /\ updateLinks' = updateLinks /\ link' = link /\ failures' = failures /\ selPc' = selPc
    BY <1>1, <1>5, <2>2, CountsAfter DEF dumpVars, selVars, history, Crawls
  <2> QED BY <1>1, <2>3, KeptTypes DEF At, Fits, Ends
<1> QED BY <1>3, <1>4, <1>5, RequestStep, Carried

\* A crawl that failed gives its context back to the row.
LEMMA CrawlFailedCrawls ==
  ASSUME IInv, Crawls, NEW c \in BagToSet(flight), CrawlFailed(c) PROVE Crawls'
<1>1. /\ Types /\ c \in DOMAIN flight /\ c \in Context /\ Counted(flight)
      /\ flight' = flight (-) SetToBag({c})
      /\ MayFailOnce(c.url) /\ LastWord(Failed(link, c.url), c.url)
      /\ UNCHANGED <<selVars, waitDumpQueue, dumpVars, missed, replaced, crashes>>
  BY DEF IInv, Types, TypeOK, CrawlFailed, BagToSet
<1>2. DOMAIN flight' \subseteq DOMAIN flight
  BY <1>1, TakeFacts DEF BagToSet
<1>3. Follows
  BY <1>1, LastWordRows, UpdateFollows
<1>4. Moves
  <2>1. UrlsOf(DOMAIN flight') \subseteq UrlsOf(DOMAIN flight)
    BY <1>2 DEF UrlsOf
  <2>2. Elsewhere' \subseteq Elsewhere
    BY <1>1, <2>1 DEF Elsewhere, dumpVars, selVars
  <2> QED BY <1>1, <1>2, <2>2 DEF Moves, selVars
<1>5. ASSUME NEW u \in Kept \cap Kept', link'[u].linkdepth = link[u].linkdepth
      PROVE  At(u)'
  <2>1. c.url = u <=> c = RowContext(u)
    BY <1>1, <1>5, CountsAfter DEF Crawls, ContextsOfRow
  <2>2. /\ Waits(u)' = Waits(u) /\ Queued(u)' = Queued(u) /\ Held(u)' = Held(u) /\ Dumping(u)' = Dumping(u)
        /\ Flying(u)' = CountOf(flight', RowContext(u)) /\ updateLinks' = updateLinks /\ selPc' = selPc
    BY <1>1, <1>5, CountsAfter DEF dumpVars, selVars
  <2>3. Flying(u) = Flying(u)' + One(c = RowContext(u))
    BY <1>1, <2>2, CopiesTake DEF Flying
  <2>4. Flying(u)' \in Nat /\ Waits(u) \in {0, 1} /\ One(c = RowContext(u)) \in {0, 1}
        /\ (c.url # u => One(c = RowContext(u)) = 0)
    <3>1. Counted(flight')
      BY <1>1, TakeFacts
    <3>2. Flying(u)' \in Nat
      BY <2>2, <3>1 DEF CountOf, Counted
    <3>3. Waits(u) \in {0, 1}
      BY <1>1, KeptTypes
    <3> QED BY <2>1, <3>2, <3>3 DEF One
  <2>5. /\ Waits(u)' + Flying(u)' + One(c = RowContext(u)) = Waits(u) + Flying(u) /\ Waits(u)' <= Waits(u)
        /\ (c.url # u => Flying(u)' = Flying(u))
    BY <2>2, <2>3, <2>4
  <2> QED BY <1>1, <2>1, <2>2, <2>4, <2>5, LastWordAt
<1> QED BY <1>3, <1>4, <1>5, CrawlFailedStep, Carried

\* A context that is deleted is one less.
LEMMA DroppedCrawls ==
  ASSUME IInv, Crawls, NEW c \in BagToSet(flight), Dropped(c) PROVE Crawls'
<1>1. /\ Types /\ c \in DOMAIN flight /\ Counted(flight) /\ flight' = flight (-) SetToBag({c})
      /\ UNCHANGED <<link, selVars, waitDumpQueue, dumpVars, missed, replaced, crashes, failures>>
  BY DEF IInv, Types, TypeOK, Dropped, BagToSet
<1>2. DOMAIN flight' \subseteq DOMAIN flight
  BY <1>1, TakeFacts DEF BagToSet
<1>3. Follows
  BY <1>1, UpdateFollows
<1>4. Moves
  <2>1. UrlsOf(DOMAIN flight') \subseteq UrlsOf(DOMAIN flight)
    BY <1>2 DEF UrlsOf
  <2>2. Elsewhere' \subseteq Elsewhere
    BY <1>1, <2>1, ZenonT(40) DEF Elsewhere, dumpVars, selVars
  <2> QED BY <1>1, <1>2, <2>2 DEF Moves, selVars
<1>5. ASSUME NEW u \in Kept \cap Kept', link'[u].linkdepth = link[u].linkdepth
      PROVE  At(u)'
  <2>1. /\ Waits(u)' = Waits(u) /\ Queued(u)' = Queued(u) /\ Held(u)' = Held(u) /\ Dumping(u)' = Dumping(u)
        /\ Flying(u)' = CountOf(flight', RowContext(u))
        /\ At(u) /\ updateLinks' = updateLinks /\ link' = link /\ failures' = failures /\ selPc' = selPc
    BY <1>1, <1>5, CountsAfter DEF dumpVars, selVars, Crawls
  <2>2. Flying(u) = Flying(u)' + One(c = RowContext(u))
    BY <1>1, <2>1, CopiesTake DEF Flying
  <2>3. Flying(u)' \in Nat /\ Flying(u)' <= Flying(u)
    <3>1. Counted(flight')
      BY <1>1, TakeFacts
    <3>2. Flying(u)' \in Nat /\ One(c = RowContext(u)) \in {0, 1}
      BY <2>1, <3>1 DEF CountOf, Counted, One
    <3> QED BY <2>2, <3>2
  <2>4. /\ Waits(u)' \in Nat /\ Queued(u)' \in Nat /\ Held(u)' \in Nat /\ Dumping(u)' \in Nat
        /\ Flying(u)' + Queued(u)' + Held(u)' <= Flying(u) + Queued(u) + Held(u)
        /\ Waits(u)' + Flying(u)' + Queued(u)' + Held(u)' <= Waits(u) + Flying(u) + Queued(u) + Held(u)
        /\ Waits(u)' + Flying(u)' + Queued(u)' + Dumping(u)' <= Waits(u) + Flying(u) + Queued(u) + Dumping(u)
    BY <1>1, <2>1, <2>3, KeptTypes
  <2> QED BY <1>1, <2>1, <2>3, <2>4, SameRowAt
<1> QED BY <1>3, <1>4, <1>5, DroppedStep, Carried

\* From the flight to the queue.
LEMMA CrawledCrawls ==
  ASSUME IInv, Crawls, NEW c \in BagToSet(flight), Crawled(c) PROVE Crawls'
<1>1. /\ Types /\ c \in DOMAIN flight /\ c \in Context /\ Counted(flight) /\ waitDumpQueue \in Seq(Context)
      /\ flight' = flight (-) SetToBag({c}) /\ waitDumpQueue' = Append(waitDumpQueue, c)
      /\ UNCHANGED <<link, selVars, dumpVars, history>>
  BY DEF IInv, Types, TypeOK, Crawled, BagToSet
<1>2. DOMAIN flight' \subseteq DOMAIN flight /\ SetOf(waitDumpQueue') = SetOf(waitDumpQueue) \cup {c}
  <2>1. DOMAIN flight' \subseteq DOMAIN flight
    BY <1>1, TakeFacts DEF BagToSet
  <2>2. SetOf(waitDumpQueue') = SetOf(waitDumpQueue) \cup {c}
    BY <1>1, SetOfAppend
  <2> QED BY <2>1, <2>2
<1>3. Follows
  BY <1>1, UpdateFollows DEF history
<1>4. Moves
  <2>1. /\ UrlsOf(DOMAIN flight') \subseteq UrlsOf(DOMAIN flight)
        /\ UrlsOf(SetOf(waitDumpQueue')) \subseteq UrlsOf(SetOf(waitDumpQueue)) \cup UrlsOf(DOMAIN flight)
    BY <1>1, <1>2 DEF UrlsOf
  <2>2. Elsewhere' \subseteq Elsewhere
    BY <1>1, <2>1 DEF Elsewhere, dumpVars, selVars
  <2> QED BY <1>1, <1>2, <2>2 DEF Moves, selVars
<1>5. ASSUME NEW u \in Kept \cap Kept', link'[u].linkdepth = link[u].linkdepth
      PROVE  At(u)'
  <2>1. c.url = u <=> c = RowContext(u)
    BY <1>1, <1>5, CountsAfter DEF Crawls, ContextsOfRow
  <2>2. /\ Waits(u)' = Waits(u) /\ Held(u)' = Held(u) /\ Dumping(u)' = Dumping(u)
        /\ Flying(u)' = CountOf(flight', RowContext(u)) /\ Queued(u)' = QueuedIn(waitDumpQueue', u)
        /\ At(u) /\ updateLinks' = updateLinks /\ link' = link /\ failures' = failures /\ selPc' = selPc
    BY <1>1, <1>5, CountsAfter DEF dumpVars, selVars, history, Crawls
  <2>3. Flying(u) = Flying(u)' + One(c = RowContext(u))
    BY <1>1, <2>2, CopiesTake DEF Flying
  <2>4. Queued(u)' = Queued(u) + One(c.url = u) /\ One(c.url = u) = One(c = RowContext(u))
    BY <1>1, <2>1, <2>2, QueuedAppend DEF Queued, One
  <2>5. Flying(u)' + Queued(u)' = Flying(u) + Queued(u) /\ Flying(u)' \in Nat /\ Queued(u)' \in Nat
    <3>1. Counted(flight') /\ One(c = RowContext(u)) \in {0, 1}
      BY <1>1, TakeFacts DEF One
    <3>2. Flying(u)' \in Nat
      BY <2>2, <3>1 DEF CountOf, Counted
    <3>3. Queued(u) \in Nat
      BY <1>1, KeptTypes
    <3> QED BY <2>3, <2>4, <3>1, <3>2, <3>3
  <2>6. /\ Waits(u)' \in Nat /\ Held(u)' \in Nat /\ Dumping(u)' \in Nat
        /\ Flying(u)' + Queued(u)' + Held(u)' <= Flying(u) + Queued(u) + Held(u)
        /\ Waits(u)' + Flying(u)' + Queued(u)' + Held(u)' <= Waits(u) + Flying(u) + Queued(u) + Held(u)
        /\ Waits(u)' + Flying(u)' + Queued(u)' + Dumping(u)' <= Waits(u) + Flying(u) + Queued(u) + Dumping(u)
    <3>1. /\ Waits(u) \in Nat /\ Flying(u) \in Nat /\ Queued(u) \in Nat /\ Held(u) \in Nat /\ Dumping(u) \in Nat
      BY <1>1, CountTypes
    <3> QED BY <2>2, <2>5, <3>1
  <2> QED BY <1>1, <2>2, <2>5, <2>6, SameRowAt
<1> QED BY <1>3, <1>4, <1>5, CrawledStep, Carried

(***************************************************************************)
(* The dumper.                                                             *)
(***************************************************************************)
\* What flushUpdate does to each row.
LEMMA FlushUpdateRows ==
  ASSUME Types, NEW batch \in Seq(Urls), FlushUpdate(batch)
  PROVE  /\ DOMAIN link' = DOMAIN link /\ updateLinks' = << >>
         /\ \A u \in DOMAIN link : link'[u] = link[u] \/ Alike(link'[u], link[u])
         /\ \/ /\ failures' = failures
               /\ \A u \in DOMAIN link \ SetOf(batch) : link'[u] = link[u]
               /\ \A u \in DOMAIN link \cap SetOf(batch) :
                    link'[u].crawlstate = "CRAWLED" /\ link'[u].crawlretry = link[u].crawlretry
            \/ failures' = failures + 1 /\ link' = link
<1>1. IsTable(link) /\ updateLinks' = << >>
  BY DEF Types, TypeOK, IsTable, FlushUpdate
<1>2. CASE batch = << >> /\ UNCHANGED <<link, lost, failures>>
  BY <1>1, <1>2, SetOfEmpty
<1>3. CASE Works(MarkCrawled(link, SetOf(batch)))
  BY <1>1, <1>3, CrawledFacts DEF Works
<1>4. CASE Fails
  BY <1>1, <1>4 DEF Fails
<1> QED BY <1>2, <1>3, <1>4 DEF FlushUpdate

\* The batch of crawls is written: what it holds has no context to come.
LEMMA FlushUpdateAt ==
  ASSUME IInv, Crawls, NEW batch \in Seq(Urls), FlushUpdate(batch), NEW u \in Kept \cap Kept', selPc' = selPc,
         Waits(u)' = Waits(u), Flying(u)' = Flying(u), Queued(u)' = Queued(u), Held(u)' = Held(u),
         Dumping(u)' \in Nat, Dumping(u)' <= Dumping(u),
         failures = 0 /\ u \in SetOf(batch) => Waits(u) + Flying(u) + Queued(u) + Dumping(u)' = 0
  PROVE  At(u)'
<1>1. Types /\ At(u) /\ u \in DOMAIN link /\ updateLinks' = << >> /\ u \notin SetOf(updateLinks')
  <2>1. Types /\ At(u) /\ u \in DOMAIN link
    BY KeptTypes DEF IInv, Crawls
  <2> QED BY <2>1, FlushUpdateRows, SetOfEmpty
<1>2. Waits(u) \in Nat /\ Flying(u) \in Nat /\ Queued(u) \in Nat /\ Held(u) \in Nat /\ Dumping(u) \in Nat
  BY <1>1, CountTypes
<1>3. CASE link'[u] = link[u] /\ failures' \in {failures, failures + 1}
  <2>1. /\ Waits(u)' + Flying(u)' + Queued(u)' + Held(u)' <= Waits(u) + Flying(u) + Queued(u) + Held(u)
        /\ Flying(u)' + Queued(u)' + Held(u)' <= Flying(u) + Queued(u) + Held(u)
        /\ Waits(u)' + Flying(u)' + Queued(u)' + Dumping(u)' <= Waits(u) + Flying(u) + Queued(u) + Dumping(u)
    <3>1. /\ Waits(u)' = Waits(u) /\ Flying(u)' = Flying(u) /\ Queued(u)' = Queued(u) /\ Held(u)' = Held(u)
          /\ Dumping(u)' \in Nat /\ Dumping(u)' <= Dumping(u)
      OBVIOUS
    <3> QED BY <1>2, <3>1, LessComing, ZenonT(40)
  <2> QED BY <1>1, <1>2, <1>3, <2>1, SameRowAt
<1>4. CASE /\ failures' = failures /\ u \in SetOf(batch) /\ link'[u].crawlstate = "CRAWLED"
           /\ link'[u].crawlretry = link[u].crawlretry
  <2>1. Fits(link'[u], (selPc = "update")', Waits(u)', Flying(u)' + Queued(u)' + Held(u)', failures')
    BY <1>1, <1>2, <1>4 DEF At, Fits
  <2>2. failures' = 0 => Ends(link'[u], Waits(u)' + Flying(u)' + Queued(u)' + Dumping(u)', u \in SetOf(updateLinks'))
    BY <1>1, <1>4 DEF Ends
  <2> QED BY <2>1, <2>2 DEF At
<1>5. \/ link'[u] = link[u] /\ failures' \in {failures, failures + 1}
      \/ /\ failures' = failures /\ u \in SetOf(batch) /\ link'[u].crawlstate = "CRAWLED"
         /\ link'[u].crawlretry = link[u].crawlretry
  BY <1>1, FlushUpdateRows
<1> QED BY <1>3, <1>4, <1>5

\* What flushInsert does to each row.
LEMMA FlushInsertRows ==
  ASSUME Types, NEW batch \in Seq(Urls \X Nat), FlushInsert(batch)
  PROVE  /\ DOMAIN link \subseteq DOMAIN link' /\ failures' \in {failures, failures + 1}
         /\ \A u \in DOMAIN link : link'[u] = link[u]
         /\ \A u \in DOMAIN link' \ DOMAIN link : link'[u].crawlstate = "NEW" /\ link'[u].crawlretry = 0
<1>1. IsTable(link)
  BY DEF Types, TypeOK, IsTable
<1>2. CASE Works(InsertIgnore(link, batch))
  BY <1>1, <1>2, InsertFacts DEF Works
<1>3. CASE Fails
  BY <1>3 DEF Fails
<1> QED BY <1>2, <1>3 DEF FlushInsert, Exec

\* The links that a flush of the other batch inserts are new, and the rows that were
\* there stay.
LEMMA InsertFollows ==
  ASSUME Types, replaced' = replaced, NEW batch \in Seq(Urls \X Nat), FlushInsert(batch)
  PROVE  Follows
<1>1. /\ DOMAIN link \subseteq DOMAIN link' /\ \A u \in DOMAIN link : link'[u] = link[u]
      /\ \A u \in DOMAIN link' \ DOMAIN link : link'[u].crawlstate = "NEW" /\ link'[u].crawlretry = 0
  BY FlushInsertRows
<1>2. ASSUME NEW u \in Kept', u \in DOMAIN link
      PROVE  u \in Kept /\ link'[u].linkdepth = link[u].linkdepth
  BY <1>1, <1>2 DEF Kept, Plain, Stored
<1>3. ASSUME NEW u \in Kept', u \notin DOMAIN link
      PROVE  /\ u \notin Stored \cup Seeds \cup replaced
             /\ link'[u].crawlstate = "NEW" /\ link'[u].crawlretry = 0
  BY <1>1, <1>3 DEF Kept, Plain, Stored
<1> QED BY <1>1, <1>2, <1>3 DEF Follows

\* The test before the pop.
LEMMA CheckCrawls ==
  ASSUME IInv, Crawls, Check PROVE Crawls'
<1>1. /\ Types /\ dumpPc = "check" /\ dumpPc' \in {"pop", "flushInsert"} /\ updateLinks \in Seq(Urls)
      /\ UNCHANGED <<selVars, flight, waitDumpQueue, cur, hrefs, insertLinks, missed, replaced, crashes>>
      /\ UNCHANGED <<link, updateLinks, lost, failures>> \/ FlushUpdate(updateLinks)
  BY DEF IInv, Types, Check
<1>2. Follows
  BY <1>1, FlushUpdateRows, UpdateFollows
<1>3. Moves
  <2>1. SetOf(updateLinks') \subseteq SetOf(updateLinks)
    BY <1>1, FlushUpdateRows, SetOfEmpty
  <2> QED BY <1>1, <2>1 DEF Moves, Elsewhere, selVars
<1>4. ASSUME NEW u \in Kept \cap Kept', link'[u].linkdepth = link[u].linkdepth
      PROVE  At(u)'
  <2>1. /\ Waits(u)' = Waits(u) /\ Flying(u)' = Flying(u) /\ Queued(u)' = Queued(u) /\ Held(u)' = Held(u)
        /\ Dumping(u)' = 0 /\ Dumping(u) = 0 /\ selPc' = selPc /\ At(u)
    BY <1>1, <1>4, CountsAfter DEF selVars, Dumping, One, Crawls
  <2>2. Waits(u) \in Nat /\ Flying(u) \in Nat /\ Queued(u) \in Nat /\ Held(u) \in Nat
    BY <1>1, CountTypes
  <2>3. CASE UNCHANGED <<link, updateLinks, lost, failures>>
    <3>1. /\ Waits(u)' + Flying(u)' + Queued(u)' + Held(u)' <= Waits(u) + Flying(u) + Queued(u) + Held(u)
          /\ Flying(u)' + Queued(u)' + Held(u)' <= Flying(u) + Queued(u) + Held(u)
          /\ Waits(u)' + Flying(u)' + Queued(u)' + Dumping(u)' <= Waits(u) + Flying(u) + Queued(u) + Dumping(u)
      BY <2>1, <2>2
    <3> QED BY <1>1, <2>1, <2>2, <2>3, <3>1, SameRowAt, SMTT(30)
  <2>4. CASE FlushUpdate(updateLinks)
    <3>1. failures = 0 /\ u \in SetOf(updateLinks) => Waits(u) + Flying(u) + Queued(u) + Dumping(u)' = 0
      BY <2>1 DEF At, Ends
    <3> QED BY <1>1, <2>1, <2>2, <2>4, <3>1, FlushUpdateAt
  <2> QED BY <1>1, <2>3, <2>4
<1> QED BY <1>2, <1>3, <1>4, CheckStep, Carried

\* A step of the dumper that leaves contexts and crawls alone.
LEMMA StillAt ==
  ASSUME IInv, Crawls, NEW u \in Kept \cap Kept', link'[u] = link[u], failures' \in {failures, failures + 1},
         UNCHANGED <<selVars, flight, waitDumpQueue, cur>>, Dumping(u)' = Dumping(u),
         SetOf(updateLinks') \subseteq SetOf(updateLinks)
  PROVE  At(u)'
<1>1. Types /\ At(u) /\ selPc' = selPc
  BY DEF IInv, Crawls, selVars
<1>2. Waits(u) \in Nat /\ Flying(u) \in Nat /\ Queued(u) \in Nat /\ Held(u) \in Nat /\ Dumping(u) \in Nat
  BY <1>1, CountTypes
<1>3. Waits(u)' = Waits(u) /\ Flying(u)' = Flying(u) /\ Queued(u)' = Queued(u) /\ Held(u)' = Held(u)
  BY CountsAfter DEF selVars
<1>4. /\ Waits(u)' + Flying(u)' + Queued(u)' + Held(u)' <= Waits(u) + Flying(u) + Queued(u) + Held(u)
      /\ Flying(u)' + Queued(u)' + Held(u)' <= Flying(u) + Queued(u) + Held(u)
      /\ Waits(u)' + Flying(u)' + Queued(u)' + Dumping(u)' <= Waits(u) + Flying(u) + Queued(u) + Dumping(u)
  BY <1>2, <1>3
<1> QED BY <1>1, <1>2, <1>3, <1>4, SameRowAt

\* Its flush of the links.
LEMMA CheckInsertCrawls ==
  ASSUME IInv, Crawls, CheckInsert PROVE Crawls'
<1>1. /\ Types /\ dumpPc = "flushInsert" /\ dumpPc' = "pop" /\ insertLinks \in Seq(Urls \X Nat)
      /\ FlushInsert(insertLinks)
      /\ UNCHANGED <<selVars, flight, waitDumpQueue, cur, hrefs, updateLinks, lost, missed, replaced, crashes>>
  BY DEF IInv, Types, CheckInsert
<1>2. Follows
  BY <1>1, InsertFollows
<1>3. Moves
  BY <1>1 DEF Moves, Elsewhere, selVars
<1>4. ASSUME NEW u \in Kept \cap Kept', link'[u].linkdepth = link[u].linkdepth
      PROVE  At(u)'
  <2>1. Dumping(u)' = Dumping(u)
    BY <1>1, <1>4, CountsAfter DEF Dumping, One
  <2>2. link'[u] = link[u] /\ failures' \in {failures, failures + 1}
    BY <1>1, KeptTypes, FlushInsertRows
  <2> QED BY <1>1, <2>1, <2>2, StillAt
<1> QED BY <1>2, <1>3, <1>4, CheckInsertStep, Carried

\* One link of the page.
LEMMA DumpOneLinkCrawls ==
  ASSUME IInv, Crawls, NEW v \in hrefs, DumpOneLink(v) PROVE Crawls'
<1> DEFINE batch == Append(insertLinks, <<v, cur.linkdepth + 1>>)
<1>1. /\ Types /\ dumpPc = "links" /\ cur \in Context /\ v \in Urls /\ cur # NoContext
      /\ FlushInsert(batch) \/ UNCHANGED <<link, failures>>
      /\ UNCHANGED <<selVars, flight, waitDumpQueue, dumpPc, cur, updateLinks, lost, missed, replaced, crashes>>
  BY DEF IInv, Types, TypeOK, DumpOneLink
<1>2. batch \in Seq(Urls \X Nat)
  <2>1. <<v, cur.linkdepth + 1>> \in Urls \X Nat /\ insertLinks \in Seq(Urls \X Nat)
    BY <1>1, ContextType, SMTT(30) DEF Types
  <2> QED BY <2>1, SetOfAppend
<1> HIDE DEF batch
<1>3. Follows
  <2>1. CASE FlushInsert(batch)
    BY <1>1, <1>2, <2>1, InsertFollows
  <2>2. CASE UNCHANGED <<link, failures>>
    BY <1>1, <2>2, UpdateFollows
  <2> QED BY <1>1, <2>1, <2>2
<1>4. Moves
  BY <1>1 DEF Moves, Elsewhere, selVars
<1>5. ASSUME NEW u \in Kept \cap Kept', link'[u].linkdepth = link[u].linkdepth
      PROVE  At(u)'
  <2>1. Dumping(u)' = Dumping(u)
    BY <1>1, <1>5, CountsAfter
  <2>2. link'[u] = link[u] /\ failures' \in {failures, failures + 1}
    BY <1>1, <1>2, KeptTypes, FlushInsertRows
  <2> QED BY <1>1, <2>1, <2>2, StillAt
<1> QED BY <1>3, <1>4, <1>5, DumpOneLinkStep, Carried

\* From the queue to the hand of the dumper.
LEMMA PopCrawls ==
  ASSUME IInv, Crawls, Pop PROVE Crawls'
<1> DEFINE c == Head(waitDumpQueue)
<1>1. /\ Types /\ cur = NoContext /\ dumpPc = "pop" /\ waitDumpQueue \in Seq(Context) /\ waitDumpQueue # << >>
      /\ cur' = c /\ waitDumpQueue' = Tail(waitDumpQueue) /\ dumpPc' \in {"hub", "state"}
      /\ UNCHANGED <<link, selVars, flight, updateLinks, insertLinks, history>>
  BY DEF IInv, Types, TypeOK, Pop
<1>2. /\ c \in Context /\ waitDumpQueue' \in Seq(Context)
      /\ SetOf(waitDumpQueue') \cup {c} \subseteq SetOf(waitDumpQueue)
  <2>1. /\ c = waitDumpQueue[1] /\ c \in Context /\ waitDumpQueue' \in Seq(Context) /\ Len(waitDumpQueue) \in Nat
        /\ Len(waitDumpQueue') = Len(waitDumpQueue) - 1 /\ Len(waitDumpQueue) >= 1
        /\ \A i \in 1 .. Len(waitDumpQueue') : waitDumpQueue'[i] = waitDumpQueue[i + 1]
    BY <1>1, HeadTailProperties, EmptySeq
  <2>2. \A i \in 1 .. Len(waitDumpQueue') : i + 1 \in 1 .. Len(waitDumpQueue)
    BY <2>1, SMTT(30)
  <2>3. 1 \in 1 .. Len(waitDumpQueue) /\ DOMAIN waitDumpQueue = 1 .. Len(waitDumpQueue)
        /\ DOMAIN waitDumpQueue' = 1 .. Len(waitDumpQueue')
    BY <1>1, <2>1
  <2> HIDE DEF c
  <2> QED BY <2>1, <2>2, <2>3 DEF SetOf
<1>3. \A u : QueuedIn(waitDumpQueue, u) = QueuedIn(waitDumpQueue', u) + One(c.url = u)
  BY <1>1, QueuedTail
<1> HIDE DEF c
<1>4. Follows
  BY <1>1, UpdateFollows DEF history
<1>5. Moves
  <2>1. UrlsOf(SetOf(waitDumpQueue')) \cup {c.url} \subseteq UrlsOf(SetOf(waitDumpQueue))
    BY <1>2 DEF UrlsOf
  <2>2. Elsewhere' \subseteq Elsewhere
    BY <1>1, <2>1 DEF Elsewhere, selVars
  <2> QED BY <1>1, <2>2 DEF Moves, selVars
<1>6. ASSUME NEW u \in Kept \cap Kept', link'[u].linkdepth = link[u].linkdepth
      PROVE  At(u)'
  <2>1. /\ Waits(u)' = Waits(u) /\ Flying(u)' = Flying(u) /\ Queued(u)' = QueuedIn(waitDumpQueue', u)
        /\ Held(u)' = One(c.url = u) /\ Dumping(u)' = One(c.url = u)
        /\ selPc' = selPc /\ At(u) /\ link' = link /\ failures' = failures /\ updateLinks' = updateLinks
    BY <1>1, <1>6, CountsAfter DEF selVars, history, Crawls
  <2>2. Held(u) = 0 /\ Dumping(u) = 0
    <3>1. cur.url # u
      BY <1>1, KeptTypes DEF NoContext
    <3> QED BY <3>1 DEF Held, Dumping, One
  <2>3. Queued(u) = Queued(u)' + Held(u)' /\ Dumping(u)' = Held(u)'
    BY <1>3, <2>1 DEF Queued
  <2>4. Waits(u) \in Nat /\ Flying(u) \in Nat /\ Queued(u)' \in Nat /\ Held(u)' \in Nat
    <3>1. Waits(u) \in Nat /\ Flying(u) \in Nat
      BY <1>1, CountTypes
    <3>2. Queued(u)' \in Nat
      BY <1>2, <2>1, QueuedType
    <3> QED BY <2>1, <3>1, <3>2 DEF One
  <2>5. /\ Waits(u)' + Flying(u)' + Queued(u)' + Held(u)' <= Waits(u) + Flying(u) + Queued(u) + Held(u)
        /\ Flying(u)' + Queued(u)' + Held(u)' <= Flying(u) + Queued(u) + Held(u)
        /\ Waits(u)' + Flying(u)' + Queued(u)' + Dumping(u)' <= Waits(u) + Flying(u) + Queued(u) + Dumping(u)
    BY <2>1, <2>2, <2>3, <2>4, Popped, SMTT(30)
  <2> QED BY <1>1, <2>1, <2>3, <2>4, <2>5, SameRowAt
<1> QED BY <1>4, <1>5, <1>6, PopStep, Carried

\* dumpHub writes the row of its url, which is a hub after it, or the row of another,
\* which is then replaced.
LEMMA SetHubRows ==
  ASSUME Types, NEW v \in Urls, SetHub(v)
  PROVE  /\ failures' \in {failures, failures + 1} /\ replaced \subseteq replaced'
         /\ DOMAIN link \subseteq DOMAIN link' \cup replaced'
         /\ \A u \in DOMAIN link' : ~link'[u].hub /\ u \notin replaced' => u \in DOMAIN link /\ link'[u] = link[u]
         /\ \A u \in DOMAIN link \ replaced' : u # v => u \in DOMAIN link' /\ link'[u] = link[u]
<1>0. IsTable(link) /\ failures \in Nat
  BY DEF Types, TypeOK, IsTable
<1>h. \A u \in DOMAIN link : HubRow(link[u]).hub
  BY <1>0, RowFacts DEF IsTable
<1>1. CASE Works(Update(link, LAMBDA w : w = v, HubRow)) /\ UNCHANGED replaced
  <2>1. /\ failures' = failures /\ DOMAIN link' = DOMAIN link
        /\ \A u \in DOMAIN link : link'[u] = IF u = v THEN HubRow(link[u]) ELSE link[u]
    BY <1>1 DEF Works, Update
  <2> QED BY <2>1, <1>h, <1>1
<1>2. ASSUME v \notin DOMAIN link, NEW o \in DOMAIN link,
             Works([w \in (Stored \ {o}) \cup {v} |-> IF w = v THEN HubRow(link[o]) ELSE link[w]]),
             replaced' = replaced \cup {o}
      PROVE  /\ failures' \in {failures, failures + 1} /\ replaced \subseteq replaced'
             /\ DOMAIN link \subseteq DOMAIN link' \cup replaced'
             /\ \A u \in DOMAIN link' : ~link'[u].hub /\ u \notin replaced' => u \in DOMAIN link /\ link'[u] = link[u]
             /\ \A u \in DOMAIN link \ replaced' : u # v => u \in DOMAIN link' /\ link'[u] = link[u]
  <2>1. /\ failures' = failures /\ DOMAIN link' = (DOMAIN link \ {o}) \cup {v}
        /\ \A w \in DOMAIN link' : link'[w] = IF w = v THEN HubRow(link[o]) ELSE link[w]
    BY <1>2 DEF Works, Stored
  <2> QED BY <2>1, <1>h, <1>2
<1>3. CASE Works(link) /\ UNCHANGED replaced
  BY <1>3, <1>0 DEF Works
<1>4. CASE Fails /\ UNCHANGED replaced
  BY <1>4, <1>0 DEF Fails
<1> QED BY <1>1, <1>2, <1>3, <1>4 DEF SetHub, Stored

\* dumpHub: a link whose row it wrote is none any more.
LEMMA DumpHubCrawls ==
  ASSUME IInv, Crawls, DumpHub PROVE Crawls'
<1>1. /\ Types /\ dumpPc = "hub" /\ dumpPc' = "state" /\ SetHub(cur.url) /\ cur.url \in Urls
      /\ updateLinks' = << >>
      /\ UNCHANGED <<selVars, flight, waitDumpQueue, cur, hrefs, insertLinks, missed, crashes>>
  BY ContextType DEF IInv, Types, TypeOK, DumpHub
<1>2. /\ failures' \in {failures, failures + 1} /\ replaced \subseteq replaced'
      /\ DOMAIN link \subseteq DOMAIN link' \cup replaced'
      /\ \A u \in DOMAIN link' : ~link'[u].hub /\ u \notin replaced' => u \in DOMAIN link /\ link'[u] = link[u]
  BY <1>1, SetHubRows
<1>3. \A u \in Kept' : u \in Kept /\ link'[u] = link[u]
  BY <1>2 DEF Kept, Plain, Stored
<1>4. Follows
  BY <1>2, <1>3 DEF Follows
<1>5. Moves
  BY <1>1, SetOfEmpty DEF Moves, Elsewhere, selVars
<1>6. ASSUME NEW u \in Kept \cap Kept', link'[u].linkdepth = link[u].linkdepth
      PROVE  At(u)'
  <2>1. Dumping(u)' = Dumping(u)
    BY <1>1 DEF Dumping
  <2> QED BY <1>1, <1>2, <1>3, <2>1, SetOfEmpty, StillAt
<1> QED BY <1>4, <1>5, <1>6, DumpHubStep, Carried

\* The crawl is recorded, or in the batch: its context was the only one.
LEMMA UpdateCrawlStateCrawls ==
  ASSUME IInv, Crawls, UpdateCrawlState PROVE Crawls'
<1> DEFINE batch == Append(updateLinks, cur.url)
<1>1. /\ Types /\ dumpPc = "state" /\ dumpPc' = "links" /\ cur \in Context /\ cur # NoContext
      /\ FlushUpdate(batch) \/ (updateLinks' = batch /\ UNCHANGED <<link, lost, failures>>)
      /\ UNCHANGED <<selVars, flight, waitDumpQueue, cur, hrefs, insertLinks, missed, replaced, crashes>>
  BY DEF IInv, Types, TypeOK, UpdateCrawlState
<1>2. batch \in Seq(Urls) /\ SetOf(batch) = SetOf(updateLinks) \cup {cur.url}
  <2>1. cur.url \in Urls /\ updateLinks \in Seq(Urls)
    BY <1>1, ContextType DEF Types
  <2> QED BY <2>1, SetOfAppend
<1> HIDE DEF batch
<1>3. Follows
  <2>1. CASE FlushUpdate(batch)
    BY <1>1, <1>2, <2>1, FlushUpdateRows, UpdateFollows
  <2>2. CASE UNCHANGED <<link, lost, failures>>
    BY <1>1, <2>2, UpdateFollows
  <2> QED BY <1>1, <2>1, <2>2
<1>4. Moves
  <2>1. SetOf(updateLinks') \subseteq SetOf(updateLinks) \cup {cur.url}
    BY <1>1, <1>2, FlushUpdateRows, SetOfEmpty
  <2>2. Elsewhere' \subseteq Elsewhere
    BY <1>1, <2>1 DEF Elsewhere, selVars
  <2> QED BY <1>1, <2>2 DEF Moves, selVars
<1>5. ASSUME NEW u \in Kept \cap Kept', link'[u].linkdepth = link[u].linkdepth
      PROVE  At(u)'
  <2>1. /\ Waits(u)' = Waits(u) /\ Flying(u)' = Flying(u) /\ Queued(u)' = Queued(u) /\ Held(u)' = Held(u)
        /\ Dumping(u)' = 0 /\ Dumping(u) = Held(u) /\ selPc' = selPc /\ At(u)
    BY <1>1, <1>5, CountsAfter DEF selVars, Dumping, Held, One, Crawls
  <2>2. Waits(u) \in Nat /\ Flying(u) \in Nat /\ Queued(u) \in Nat /\ Held(u) \in Nat /\ Dumping(u) \in Nat
    BY <1>1, CountTypes
  <2>3. cur.url = u => Held(u) = 1
    BY DEF Held, One
  <2>4. failures = 0 /\ cur.url = u => Waits(u) + Flying(u) + Queued(u) = 0 /\ link[u].crawlstate # "NEW"
    <3> SUFFICES ASSUME failures = 0, cur.url = u
                 PROVE  Waits(u) + Flying(u) + Queued(u) = 0 /\ link[u].crawlstate # "NEW"
      OBVIOUS
    <3>1. Fits(link[u], selPc = "update", Waits(u), Flying(u) + Queued(u) + Held(u), 0)
      BY <2>1 DEF At
    <3> QED BY <2>2, <2>3, <3>1 DEF Fits
  <2>5. failures = 0 /\ u \in SetOf(batch) =>
          Waits(u) + Flying(u) + Queued(u) + Dumping(u)' = 0 /\ link[u].crawlstate # "NEW"
    <3>1. CASE cur.url = u
      BY <2>1, <2>2, <2>4, <3>1
    <3>2. CASE cur.url # u
      <4>1. Held(u) = 0
        BY <3>2 DEF Held, One
      <4>2. failures = 0 /\ u \in SetOf(updateLinks) =>
              Waits(u) + Flying(u) + Queued(u) + Dumping(u) = 0 /\ link[u].crawlstate # "NEW"
        BY <2>1 DEF At, Ends
      <4> QED BY <1>2, <2>1, <3>2, <4>1, <4>2
    <3> QED BY <3>1, <3>2
  <2>6. Dumping(u)' \in Nat /\ Dumping(u)' <= Dumping(u)
    BY <2>1, <2>2
  <2>7. CASE FlushUpdate(batch)
    BY <1>1, <1>2, <2>1, <2>5, <2>6, <2>7, FlushUpdateAt
  <2>8. CASE updateLinks' = batch /\ UNCHANGED <<link, lost, failures>>
    <3>1. Fits(link'[u], (selPc = "update")', Waits(u)', Flying(u)' + Queued(u)' + Held(u)', failures')
      BY <2>1, <2>8 DEF At
    <3>2. ASSUME failures = 0
          PROVE  Ends(link[u], Waits(u) + Flying(u) + Queued(u) + Dumping(u)', u \in SetOf(batch))
      <4>1. ASSUME link[u].crawlstate = "CRAWLED" PROVE Waits(u) + Flying(u) + Queued(u) + Dumping(u)' = 0
        <5>1. Waits(u) + Flying(u) + Queued(u) + Dumping(u) = 0
          BY <2>1, <3>2, <4>1 DEF At, Ends
        <5> QED BY <2>1, <2>2, <5>1
      <4> QED BY <2>5, <3>2, <4>1 DEF Ends
    <3>3. failures' = 0 => Ends(link'[u], Waits(u)' + Flying(u)' + Queued(u)' + Dumping(u)', u \in SetOf(updateLinks'))
      BY <2>1, <2>8, <3>2
    <3> QED BY <3>1, <3>3 DEF At
  <2> QED BY <1>1, <2>7, <2>8
<1> QED BY <1>3, <1>4, <1>5, UpdateCrawlStateStep, Carried

\* The dumper deletes the context.
LEMMA EndOfDumpCrawls ==
  ASSUME IInv, Crawls, EndOfDump PROVE Crawls'
<1>1. /\ Types /\ dumpPc = "links" /\ cur' = NoContext /\ dumpPc' = "check"
      /\ UNCHANGED <<link, selVars, flight, waitDumpQueue, hrefs, updateLinks, insertLinks, history>>
  BY DEF IInv, EndOfDump
<1>2. Follows
  BY <1>1, UpdateFollows DEF history
<1>3. Moves
  BY <1>1 DEF Moves, Elsewhere, selVars
<1>4. ASSUME NEW u \in Kept \cap Kept', link'[u].linkdepth = link[u].linkdepth
      PROVE  At(u)'
  <2>1. /\ Waits(u)' = Waits(u) /\ Flying(u)' = Flying(u) /\ Queued(u)' = Queued(u)
        /\ Dumping(u)' = 0 /\ Dumping(u) = 0
        /\ selPc' = selPc /\ At(u) /\ link' = link /\ failures' = failures /\ updateLinks' = updateLinks
    BY <1>1, <1>4, CountsAfter DEF selVars, history, Crawls, Dumping, One
  <2>2. Held(u)' = 0
    <3>1. cur'.url # u
      BY <1>1, KeptTypes DEF NoContext
    <3> QED BY <3>1 DEF Held, One
  <2>3. Waits(u) \in Nat /\ Flying(u) \in Nat /\ Queued(u) \in Nat /\ Held(u) \in Nat
    BY <1>1, CountTypes
  <2>4. /\ Waits(u)' + Flying(u)' + Queued(u)' + Held(u)' <= Waits(u) + Flying(u) + Queued(u) + Held(u)
        /\ Flying(u)' + Queued(u)' + Held(u)' <= Flying(u) + Queued(u) + Held(u)
        /\ Waits(u)' + Flying(u)' + Queued(u)' + Dumping(u)' <= Waits(u) + Flying(u) + Queued(u) + Dumping(u)
    BY <2>1, <2>2, <2>3
  <2> QED BY <1>1, <2>1, <2>2, <2>3, <2>4, SameRowAt
<1> QED BY <1>2, <1>3, <1>4, EndOfDumpStep, Carried

\* The process dies: no context is left.
LEMMA CrashCrawls ==
  ASSUME IInv, Crawls, Crash PROVE Crawls'
<1>1. /\ selPc' = "recover" /\ result' = {} /\ flight' = EmptyBag /\ waitDumpQueue' = << >>
      /\ cur' = NoContext /\ updateLinks' = << >> /\ UNCHANGED <<link, replaced, failures>>
  BY DEF Crash
<1>2. DOMAIN flight' = {}
  BY <1>1 DEF EmptyBag, SetToBag
<1>3. Elsewhere' = {}
  BY <1>1, <1>2, SetOfEmpty DEF Elsewhere, UrlsOf
<1>4. Follows
  BY <1>1, UpdateFollows DEF IInv
<1>5. Moves
  BY <1>1, <1>2, <1>3 DEF Moves
<1>6. ASSUME NEW u \in Kept \cap Kept', link'[u].linkdepth = link[u].linkdepth
      PROVE  At(u)'
  <2>1. Waits(u)' = 0 /\ Flying(u)' = 0
    BY <1>1, <1>2 DEF Waits, Flying, One, CountOf
  <2>2. Queued(u)' = 0
    <3>1. << >> \in Seq(Context) /\ u \notin UrlsOf(SetOf(<< >>))
      BY SetOfEmpty DEF UrlsOf
    <3> QED BY <1>1, <3>1, QueuedNone DEF Queued
  <2>3. Held(u)' = 0 /\ Dumping(u)' = 0
    <3>1. cur'.url # u
      BY <1>1, KeptTypes DEF NoContext, IInv
    <3> QED BY <3>1 DEF Held, Dumping, One
  <2>4. /\ At(u) /\ link[u].crawlretry \in Nat /\ failures \in Nat /\ MaxCrawlRetry \in Nat
        /\ Waits(u) \in Nat /\ Flying(u) \in Nat /\ Queued(u) \in Nat /\ Held(u) \in Nat
    BY KeptTypes DEF IInv, Crawls
  <2>5. link[u].crawlretry <= MaxCrawlRetry + failures
    BY <2>4 DEF At, Fits
  <2>6. link'[u] = link[u] /\ failures' = failures /\ selPc' # "update" /\ u \notin SetOf(updateLinks')
    BY <1>1, SetOfEmpty
  <2>7. Waits(u)' + (Flying(u)' + Queued(u)' + Held(u)') = 0 /\ Flying(u)' + Queued(u)' + Held(u)' = 0
        /\ Waits(u)' + Flying(u)' + Queued(u)' + Dumping(u)' = 0
    BY <2>1, <2>2, <2>3
  <2>8. Fits(link'[u], (selPc = "update")', Waits(u)', Flying(u)' + Queued(u)' + Held(u)', failures')
    BY <2>1, <2>4, <2>5, <2>6, <2>7 DEF Fits
  <2>9. Ends(link'[u], Waits(u)' + Flying(u)' + Queued(u)' + Dumping(u)', u \in SetOf(updateLinks'))
    BY <2>6, <2>7 DEF Ends
  <2> QED BY <2>8, <2>9 DEF At
<1> QED BY <1>4, <1>5, <1>6, CrashStep, Carried

\* The table before the first start holds no row that failed too often.
LEMMA InitCrawls == Init => Crawls
<1> SUFFICES ASSUME Init PROVE Crawls
  OBVIOUS
<1>1. /\ link \in InitLinks /\ selPc = "recover" /\ result = {} /\ flight = EmptyBag /\ waitDumpQueue = << >>
      /\ cur = NoContext /\ updateLinks = << >> /\ failures = 0
  BY DEF Init
<1>2. DOMAIN flight = {}
  BY <1>1 DEF EmptyBag, SetToBag
<1>3. Elsewhere = {}
  BY <1>1, <1>2, SetOfEmpty DEF Elsewhere, UrlsOf
<1>4. ContextsOfRow /\ OnlyStored /\ Recovering
  BY <1>1, <1>2, <1>3 DEF ContextsOfRow, OnlyStored, Recovering
<1>5. ASSUME NEW u \in Kept PROVE At(u)
  <2>1. Types
    BY InitInv DEF IInv
  <2>2. /\ Waits(u) = 0 /\ Flying(u) = 0 /\ Queued(u) = 0 /\ Held(u) = 0 /\ Dumping(u) = 0
        /\ u \notin SetOf(updateLinks)
    BY <2>1, <1>3, NotElsewhere
  <2>3. link[u].crawlretry <= MaxCrawlRetry /\ link[u].crawlretry \in Nat /\ MaxCrawlRetry \in Nat
    BY <1>1, <2>1, KeptTypes DEF Kept, Plain, Stored
  <2> QED BY <1>1, <2>2, <2>3 DEF At, Fits, Ends
<1> QED BY <1>4, <1>5 DEF Crawls

\* Every step keeps the invariant of a crawl.
LEMMA StepCrawls == IInv /\ Crawls /\ [Next]_vars => Crawls'
<1> SUFFICES ASSUME IInv, Crawls, [Next]_vars PROVE Crawls'
  OBVIOUS
<1>1. CASE UNCHANGED vars
  <2>1. UNCHANGED <<link, selPc, result, flight, waitDumpQueue, dumpPc, cur, updateLinks, replaced, failures>>
    BY <1>1 DEF vars, selVars, dumpVars, history
  <2>2. Kept' = Kept /\ Elsewhere' = Elsewhere /\ \A u : RowContext(u)' = RowContext(u)
    BY <2>1 DEF Kept, Plain, Stored, Elsewhere, RowContext
  <2>3. ContextsOfRow' /\ OnlyStored' /\ Recovering'
    BY <2>1, <2>2 DEF Crawls, ContextsOfRow, OnlyStored, Recovering, Stored
  <2>4. ASSUME NEW u \in Kept PROVE At(u)'
    <3>1. At(u)
      BY DEF Crawls
    <3>2. /\ Waits(u)' = Waits(u) /\ Flying(u)' = Flying(u) /\ Queued(u)' = Queued(u)
          /\ Held(u)' = Held(u) /\ Dumping(u)' = Dumping(u)
      BY <2>1, CountsAfter
    <3> QED BY <2>1, <3>1, <3>2 DEF At
  <2> QED BY <2>2, <2>3, <2>4 DEF Crawls
<1>2. CASE Selector
  BY <1>2, RecoverCrawls, SelectCrawls, UpdateSelectedCrawls, EndOfResultCrawls, AddUrlCrawls DEF Selector
<1>3. CASE Pipeline
  BY <1>3, RequestCrawls, CrawlFailedCrawls, DroppedCrawls, CrawledCrawls DEF Pipeline
<1>4. CASE Dumper
  BY <1>4, CheckCrawls, CheckInsertCrawls, PopCrawls, DumpHubCrawls, UpdateCrawlStateCrawls, EndOfDumpCrawls,
     DumpOneLinkCrawls DEF Dumper
<1>5. CASE Crash
  BY <1>5, CrashCrawls
<1> QED BY <1>1, <1>2, <1>3, <1>4, <1>5 DEF Next

\* The contexts of a link are those that its row made.
LEMMA CopiesAre ==
  ASSUME Types, ContextsOfRow, NEW u \in Kept
  PROVE  Copies(u) = Waits(u) + Flying(u) + Queued(u) + Held(u)
<1> DEFINE c == RowContext(u)
           chosen == {r \in result : r.url = u}
           own == {d \in BagToSet(flight) : d.url = u}
           bag == [d \in own |-> flight[d]]
<1>0. c.url = u /\ \A d \in result \cup DOMAIN flight : d.url = u <=> d = c
  BY DEF ContextsOfRow, RowContext
<1> HIDE DEF c
<1>1. Cardinality(chosen) = Waits(u)
  <2>1. CASE c \in result
    <3>1. chosen = {c}
      BY <1>0, <2>1
    <3> QED BY <2>1, <3>1, FS_Singleton DEF Waits, One, c
  <2>2. CASE c \notin result
    <3>1. chosen = {}
      BY <1>0, <2>2
    <3> QED BY <2>2, <3>1, FS_EmptySet DEF Waits, One, c
  <2> QED BY <2>1, <2>2
<1>2. BagCardinality(bag) = Flying(u)
  <2>1. own \subseteq {c} /\ DOMAIN bag = own /\ (c \in own <=> c \in DOMAIN flight)
    BY <1>0 DEF BagToSet
  <2>2. \A d \in DOMAIN bag : bag[d] \in Nat /\ bag[d] = flight[d]
    BY DEF Types, Counted, BagToSet
  <2> HIDE DEF bag, own
  <2>3. BagCardinality(bag) = IF c \in DOMAIN bag THEN bag[c] ELSE 0
    BY <2>1, <2>2, BagOfOne
  <2> QED BY <2>1, <2>2, <2>3 DEF Flying, CountOf, c
<1>3. Cardinality({i \in DOMAIN waitDumpQueue : waitDumpQueue[i].url = u}) = Queued(u)
  BY DEF Queued, QueuedIn, Places
<1>4. (IF cur.url = u THEN 1 ELSE 0) = Held(u)
  BY DEF Held, One
<1> HIDE DEF chosen, bag
<1> QED BY <1>1, <1>2, <1>3, <1>4 DEF Copies, chosen, bag

\* The invariant of a crawl holds with the other one in every state.
THEOREM CrawlInvariance == Safety => [](IInv /\ Crawls)
<1>1. Init => Crawls BY InitCrawls
<1>2. IInv /\ Crawls /\ [Next]_vars => Crawls' BY StepCrawls
<1> QED BY <1>1, <1>2, Invariance, PTL DEF Safety

\* A link is crawled by one context at a time, and one more for each statement that
\* failed, whatever the order of select's two statements and those of the others.
THEOREM OneCrawl == Safety => []OneCrawlAtATime
<1>1. IInv /\ Crawls => OneCrawlAtATime
  <2> SUFFICES ASSUME IInv, Crawls, NEW u \in Kept PROVE Copies(u) <= 1 + failures
    BY DEF OneCrawlAtATime, Kept
  <2>1. /\ Copies(u) = Waits(u) + Flying(u) + Queued(u) + Held(u) /\ At(u) /\ Types
    BY CopiesAre DEF IInv, Crawls
  <2>2. Waits(u) \in Nat /\ Flying(u) \in Nat /\ Queued(u) \in Nat /\ Held(u) \in Nat /\ failures \in Nat
    BY <2>1, KeptTypes
  <2> QED BY <2>1, <2>2 DEF At, Fits
<1> QED BY <1>1, CrawlInvariance, PTL

\* A plain link whose row was not written over fails at most MaxCrawlRetry times, and
\* once more for each statement that failed.
THEOREM RetriesEnd == Safety => []RetryBounded
<1>1. IInv /\ Crawls => RetryBounded
  <2> SUFFICES ASSUME IInv, Crawls, NEW u \in Kept PROVE link[u].crawlretry <= MaxCrawlRetry + failures
    BY DEF RetryBounded, Kept
  <2>1. At(u) /\ Types
    BY DEF IInv, Crawls
  <2>2. /\ Waits(u) \in Nat /\ Flying(u) \in Nat /\ Queued(u) \in Nat /\ Held(u) \in Nat /\ failures \in Nat
        /\ link[u].crawlretry \in Nat /\ MaxCrawlRetry \in Nat
    BY <2>1, KeptTypes
  <2> QED BY <2>1, <2>2 DEF At, Fits
<1> QED BY <1>1, CrawlInvariance, PTL

\* As long as no statement has failed, the row of a plain link that is CRAWLED and was
\* not written over stays so: no step that would write it another way can come.
THEOREM CrawledForGood == Safety => CrawledIsFinal
<1> DEFINE Stays == \A u \in Plain \ replaced' : failures = 0 /\ link[u].crawlstate = "CRAWLED" =>
                       u \in DOMAIN link' /\ link'[u].crawlstate = "CRAWLED"
<1>1. IInv /\ Crawls /\ [Next]_vars => [Stays]_vars
  <2> SUFFICES ASSUME IInv, Crawls, Next, NEW u \in Plain \ replaced', failures = 0,
                      link[u].crawlstate = "CRAWLED"
               PROVE  u \in DOMAIN link' /\ link'[u].crawlstate = "CRAWLED"
    OBVIOUS
  <2>1. u \in DOMAIN link /\ IsTable(link) /\ Types /\ ~link[u].hub /\ u \in Urls
    BY DEF Plain, Stored, IInv, Types, TypeOK, IsTable
  <2>2. ASSUME u \in replaced PROVE FALSE
    <3>1. replaced \subseteq replaced'
      <4>1. CASE DumpHub
        <5>1. cur.url \in Urls /\ SetHub(cur.url)
          BY <4>1, ContextType DEF DumpHub, IInv, Types, TypeOK
        <5> QED BY <2>1, <5>1, SetHubRows
      <4>2. CASE ~DumpHub
        BY <4>2 DEF Next, Selector, Pipeline, Dumper, Crash, RecoverCrawlState, Select, UpdateSelected, EndOfResult,
             AddUrl, Request, CrawlFailed, Dropped, Crawled, Check, CheckInsert, Pop, UpdateCrawlState,
             EndOfDump, DumpOneLink, history
      <4> QED BY <4>1, <4>2
    <3> QED BY <2>2, <3>1
  <2>3. u \in Kept /\ At(u) /\ ContextsOfRow
    BY <2>2 DEF Kept, Crawls
  <2>4. Waits(u) \in {0, 1} /\ Flying(u) \in Nat /\ Queued(u) \in Nat /\ Dumping(u) \in {0, 1}
    BY <2>1, <2>3, KeptTypes
  <2>5. Waits(u) = 0 /\ Flying(u) = 0 /\ Dumping(u) = 0
    <3>1. Waits(u) + Flying(u) + Queued(u) + Dumping(u) = 0
      BY <2>3 DEF At, Ends
    <3> QED BY <2>4, <3>1
  <2>6. \A c \in result \cup DOMAIN flight : c.url # u
    <3> SUFFICES ASSUME NEW c \in result \cup DOMAIN flight, c.url = u PROVE FALSE
      OBVIOUS
    <3>1. c = RowContext(u)
      BY <2>3 DEF ContextsOfRow
    <3>2. CASE c \in result
      BY <2>5, <3>1, <3>2 DEF Waits, One
    <3>3. CASE c \in DOMAIN flight
      <4>1. flight[c] > 0
        BY <2>1, <3>3 DEF Types, Counted
      <4> QED BY <2>5, <3>1, <3>3, <4>1 DEF Flying, CountOf
    <3> QED BY <3>2, <3>3
  <2>7. CASE UNCHANGED link
    BY <2>1, <2>7
  <2>8. CASE RecoverCrawlState
    <3>1. CASE Works(Recover(link))
      BY <2>1, <3>1, RecoverFacts DEF Works
    <3> QED BY <2>8, <2>7, <3>1 DEF RecoverCrawlState, Exec, Fails
  <2>9. CASE UpdateSelected
    <3>1. ~Marked(link[u])
      BY <2>1 DEF Marked
    <3>2. CASE Works(MarkSelected(link))
      BY <2>1, <3>1, <3>2, SelectedFacts DEF Works
    <3> QED BY <2>9, <2>7, <3>2 DEF UpdateSelected, Fails
  <2>10. ASSUME NEW c \in Context, c.url # u,
                \/ MayFailOnce(c.url) /\ LastWord(Failed(link, c.url), c.url)
                \/ LastWord(Mark(link, c.url, "NEW"), c.url)
         PROVE  u \in DOMAIN link' /\ link'[u].crawlstate = "CRAWLED"
    BY <2>1, <2>10, LastWordRows
  <2>11. ASSUME NEW r \in result, AddUrl(r)
         PROVE  u \in DOMAIN link' /\ link'[u].crawlstate = "CRAWLED"
    <3>1. r \in Context /\ r.url # u
      BY <2>1, <2>6 DEF Types, TypeOK
    <3> QED BY <2>7, <2>10, <2>11, <3>1 DEF AddUrl
  <2>12. ASSUME NEW c \in BagToSet(flight), CrawlFailed(c)
         PROVE  u \in DOMAIN link' /\ link'[u].crawlstate = "CRAWLED"
    <3>1. c \in Context /\ c.url # u
      BY <2>1, <2>6 DEF Types, TypeOK, BagToSet
    <3> QED BY <2>10, <2>12, <3>1 DEF CrawlFailed
  <2>13. ASSUME NEW batch \in Seq(Urls), FlushUpdate(batch)
         PROVE  u \in DOMAIN link' /\ link'[u].crawlstate = "CRAWLED"
    BY <2>1, <2>13, FlushUpdateRows
  <2>14. ASSUME NEW batch \in Seq(Urls \X Nat), FlushInsert(batch)
         PROVE  u \in DOMAIN link' /\ link'[u].crawlstate = "CRAWLED"
    BY <2>1, <2>14, FlushInsertRows
  <2>15. CASE Check
    BY <2>1, <2>7, <2>13, <2>15 DEF Check, Types
  <2>16. CASE CheckInsert
    BY <2>1, <2>14, <2>16 DEF CheckInsert, Types
  <2>17. CASE DumpHub
    <3>1. cur.url \in Urls /\ SetHub(cur.url) /\ cur.url # u
      BY <2>5, <2>17, <2>1, ContextType DEF DumpHub, Types, TypeOK, Dumping, One
    <3> QED BY <2>1, <3>1, SetHubRows
  <2>18. CASE UpdateCrawlState
    <3>1. Append(updateLinks, cur.url) \in Seq(Urls)
      <4>1. cur.url \in Urls /\ updateLinks \in Seq(Urls)
        BY <2>1, <2>18, ContextType DEF UpdateCrawlState, Types, TypeOK
      <4> QED BY <4>1
    <3> QED BY <2>7, <2>13, <2>18, <3>1 DEF UpdateCrawlState
  <2>19. ASSUME NEW v \in hrefs, DumpOneLink(v)
         PROVE  u \in DOMAIN link' /\ link'[u].crawlstate = "CRAWLED"
    <3>1. Append(insertLinks, <<v, cur.linkdepth + 1>>) \in Seq(Urls \X Nat)
      <4>1. <<v, cur.linkdepth + 1>> \in Urls \X Nat /\ insertLinks \in Seq(Urls \X Nat)
        BY <2>1, <2>19, ContextType, SMTT(30) DEF DumpOneLink, Types, TypeOK
      <4> QED BY <4>1
    <3> QED BY <2>7, <2>14, <2>19, <3>1 DEF DumpOneLink
  <2> QED BY <2>7, <2>8, <2>9, <2>11, <2>12, <2>15, <2>16, <2>17, <2>18, <2>19
          DEF Next, Selector, Pipeline, Dumper, Crash, Select, EndOfResult, Request, Dropped, Crawled, Pop, EndOfDump
<1> QED BY <1>1, CrawlInvariance, PTL DEF Safety, CrawledIsFinal
==============================================================================
