-------------------------- MODULE SyncedQueueProofs --------------------------
(***************************************************************************)
(* Theorems about SyncedQueue for any number of producers and consumers    *)
(* and any limit.  The inductive invariant is                              *)
(*                                                                         *)
(*    TypeOK /\ MutexOK /\ SemAccounting /\ GotOK                          *)
(*                                                                         *)
(* The mutex makes the view of a thread inside it the list itself; then    *)
(* the semaphore accounting survives every step; then a consumer about to  *)
(* remove counts for one element, so the list it sees is not empty.        *)
(***************************************************************************)
EXTENDS SyncedQueue, TLAPS, FiniteSetTheorems, SequenceTheorems

\* A consumer holds an element exactly between its pop and its return.
GotOK == \A c \in Consumers : (pc[c] = "check") <=> (got[c] # None)

IInv == TypeOK /\ MutexOK /\ SemAccounting /\ GotOK

\* The elements of a sequence with its last one removed.
LEMMA FrontOfSeq ==
  ASSUME NEW S, NEW s \in Seq(S), s # << >>
  PROVE  /\ SubSeq(s, 1, Len(s) - 1) \in Seq(S)
         /\ Len(SubSeq(s, 1, Len(s) - 1)) = Len(s) - 1
         /\ \A i \in 1 .. Len(s) - 1 : SubSeq(s, 1, Len(s) - 1)[i] = s[i]
         /\ s[Len(s)] \in S
<1>1. Len(s) \in Nat \ {0}
  BY EmptySeq
<1>2. \A i \in 1 .. Len(s) : s[i] \in S
  BY ElementOfSeq
<1> DEFINE n == Len(s) - 1
<1>3. n \in Nat /\ 1 \in Int /\ \A i \in 1 .. n : s[i] \in S
  BY <1>1, <1>2
<1>4. /\ SubSeq(s, 1, n) \in Seq(S)
      /\ Len(SubSeq(s, 1, n)) = IF 1 <= n THEN n - 1 + 1 ELSE 0
      /\ \A i \in 1 .. n - 1 + 1 : SubSeq(s, 1, n)[i] = s[1 + i - 1]
  <2> HIDE DEF n
  <2> QED
    BY <1>3, SubSeqProperties
<1>5. \A i \in 1 .. n : SubSeq(s, 1, n)[i] = s[i]
  <2> HIDE DEF n
  <2> SUFFICES ASSUME NEW i \in 1 .. n PROVE SubSeq(s, 1, n)[i] = s[i]
    OBVIOUS
  <2>1. 1 + i - 1 = i /\ n - 1 + 1 = n
    BY <1>3
  <2> QED
    BY <1>4, <2>1
<1>6. Len(SubSeq(s, 1, n)) = n
  <2> HIDE DEF n
  <2> QED
    BY <1>3, <1>4
<1>7. s[Len(s)] \in S
  BY <1>1, <1>2
<1> QED
  BY <1>4, <1>5, <1>6, <1>7

\* Popping is a finite set, and so is Posting.
LEMMA CountersFinite ==
  /\ IsFiniteSet(Popping) /\ Cardinality(Popping) \in Nat
  /\ IsFiniteSet(Posting) /\ Cardinality(Posting) \in Nat
BY ThreadAssumption, FS_Subset, FS_CardinalityType DEF Popping, Posting

LEMMA InitIInv == Init => IInv
<1> SUFFICES ASSUME Init PROVE IInv
  OBVIOUS
<1>1. Popping = {} /\ Posting = {}
  BY DEF Init, Popping, Posting, Threads
<1>2. Cardinality(Popping) = 0 /\ Cardinality(Posting) = 0
  BY <1>1, FS_EmptySet
<1>3. << >> \in Seq(Item) /\ Len(<< >>) = 0
  BY EmptySeq
<1>4. TypeOK
  BY <1>3, BoundAssumption, ThreadAssumption DEF Init, TypeOK, Threads
<1> QED
  BY <1>2, <1>3, <1>4 DEF Init, IInv, MutexOK, SemAccounting, GotOK, Threads

\* Steps that leave the list, the semaphore and both counters alone.
LEMMA BeginPushIInv ==
  ASSUME IInv, NEW p \in Producers, BeginPush(p)
  PROVE  IInv'
<1> USE DEF IInv
<1>1. TypeOK'
  BY ThreadAssumption DEF BeginPush, TypeOK, Threads
<1>2. MutexOK'
  BY DEF BeginPush, MutexOK, TypeOK, Threads
<1>3. Popping' = Popping /\ Posting' = Posting
  BY ThreadAssumption DEF BeginPush, Popping, Posting, TypeOK, Threads
<1>4. SemAccounting'
  BY <1>3 DEF BeginPush, SemAccounting
<1>5. GotOK'
  BY ThreadAssumption DEF BeginPush, GotOK, TypeOK, Threads
<1> QED
  BY <1>1, <1>2, <1>4, <1>5

LEMMA LockToPushIInv ==
  ASSUME IInv, NEW p \in Producers, LockToPush(p)
  PROVE  IInv'
<1> USE DEF IInv
<1>1. TypeOK'
  BY ThreadAssumption DEF LockToPush, Acquire, TypeOK, Threads
<1>2. MutexOK'
  BY ThreadAssumption DEF LockToPush, Acquire, MutexOK, TypeOK, Threads
<1>3. Popping' = Popping /\ Posting' = Posting
  BY ThreadAssumption DEF LockToPush, Popping, Posting, TypeOK, Threads
<1>4. SemAccounting'
  BY <1>3 DEF LockToPush, SemAccounting
<1>5. GotOK'
  BY ThreadAssumption DEF LockToPush, GotOK, TypeOK, Threads
<1> QED
  BY <1>1, <1>2, <1>4, <1>5

\* The insertion adds one element and one producer yet to post.
LEMMA InsertIInv ==
  ASSUME IInv, NEW p \in Producers, Insert(p)
  PROVE  /\ IInv'
         /\ m_queue' = IF p \in FrontProducers THEN <<<<p, pushed[p] + 1>>>> \o m_queue
                                               ELSE Append(m_queue, <<p, pushed[p] + 1>>)
<1> USE DEF IInv
<1> DEFINE e == <<p, pushed[p] + 1>>
<1>1. view[p] = m_queue /\ m_lock = p
  BY DEF Insert, MutexOK, Threads
<1>2. m_queue' = IF p \in FrontProducers THEN <<e>> \o m_queue ELSE Append(m_queue, e)
  BY <1>1 DEF Insert
<1>3. e \in Item
  BY BoundAssumption DEF Insert, TypeOK, Item
<1>4. m_queue' \in Seq(Item) /\ Len(m_queue') = Len(m_queue) + 1
  <2>1. m_queue \in Seq(Item)
    BY DEF TypeOK
  <2>2. <<e>> \in Seq(Item) /\ Len(<<e>>) = 1
    BY <1>3
  <2>3. /\ <<e>> \o m_queue \in Seq(Item)
        /\ Len(<<e>> \o m_queue) = 1 + Len(m_queue)
    BY <2>1, <2>2, ConcatProperties
  <2>4. /\ Append(m_queue, e) \in Seq(Item)
        /\ Len(Append(m_queue, e)) = Len(m_queue) + 1
    BY <2>1, <1>3, AppendProperties
  <2> QED
    BY <1>2, <2>1, <2>3, <2>4, LenProperties
<1>5. TypeOK'
  BY <1>4, ThreadAssumption, BoundAssumption DEF Insert, TypeOK, Threads
<1>6. MutexOK'
  BY <1>1, ThreadAssumption DEF Insert, MutexOK, TypeOK, Threads
<1>7. Popping' = Popping
  BY ThreadAssumption DEF Insert, Popping, TypeOK, Threads
<1>8. Posting' = Posting \cup {p} /\ p \notin Posting
  BY ThreadAssumption DEF Insert, Posting, TypeOK, Threads
<1>9. Cardinality(Posting') = Cardinality(Posting) + 1
  BY <1>8, CountersFinite, FS_AddElement
<1>10. SemAccounting'
  BY <1>4, <1>7, <1>9, CountersFinite, LenProperties, SMTT(30) DEF Insert, SemAccounting, TypeOK
<1>11. GotOK'
  BY ThreadAssumption DEF Insert, GotOK, TypeOK, Threads
<1> QED
  BY <1>2, <1>5, <1>6, <1>10, <1>11

\* sem_post turns the producer that posts into a unit of the semaphore.
LEMMA SemPostIInv ==
  ASSUME IInv, NEW p \in Producers, SemPost(p)
  PROVE  IInv'
<1> USE DEF IInv
<1>1. TypeOK'
  BY ThreadAssumption DEF SemPost, TypeOK, Threads
<1>2. MutexOK'
  BY DEF SemPost, MutexOK, TypeOK, Threads
<1>3. Popping' = Popping
  BY ThreadAssumption DEF SemPost, Popping, TypeOK, Threads
<1>4. Posting' = Posting \ {p} /\ p \in Posting
  BY DEF SemPost, Posting, TypeOK, Threads
<1>5. Cardinality(Posting') = Cardinality(Posting) - 1
  BY <1>4, CountersFinite, FS_RemoveElement
<1>6. SemAccounting'
  BY <1>3, <1>5, CountersFinite, LenProperties DEF SemPost, SemAccounting, TypeOK
<1>7. GotOK'
  BY ThreadAssumption DEF SemPost, GotOK, TypeOK, Threads
<1> QED
  BY <1>1, <1>2, <1>6, <1>7

\* sem_wait turns a unit of the semaphore into a consumer about to pop.
LEMMA SemWaitIInv ==
  ASSUME IInv, NEW c \in Consumers, SemWait(c)
  PROVE  IInv'
<1> USE DEF IInv
<1>1. TypeOK'
  BY ThreadAssumption DEF SemWait, TypeOK, Threads
<1>2. MutexOK'
  BY DEF SemWait, MutexOK, TypeOK, Threads
<1>3. Posting' = Posting
  BY ThreadAssumption DEF SemWait, Posting, TypeOK, Threads
<1>4. Popping' = Popping \cup {c} /\ c \notin Popping
  BY DEF SemWait, Popping, TypeOK, Threads
<1>5. Cardinality(Popping') = Cardinality(Popping) + 1
  BY <1>4, CountersFinite, FS_AddElement
<1>6. SemAccounting'
  BY <1>3, <1>5, CountersFinite, LenProperties DEF SemWait, SemAccounting, TypeOK
<1>7. GotOK'
  BY DEF SemWait, GotOK, TypeOK, Threads
<1> QED
  BY <1>1, <1>2, <1>6, <1>7

LEMMA LockToPopIInv ==
  ASSUME IInv, NEW c \in Consumers, LockToPop(c)
  PROVE  IInv'
<1> USE DEF IInv
<1>1. TypeOK'
  BY ThreadAssumption DEF LockToPop, Acquire, TypeOK, Threads
<1>2. MutexOK'
  BY ThreadAssumption DEF LockToPop, Acquire, MutexOK, TypeOK, Threads
<1>3. Popping' = Popping /\ Posting' = Posting
  BY ThreadAssumption DEF LockToPop, Popping, Posting, TypeOK, Threads
<1>4. SemAccounting'
  BY <1>3 DEF LockToPop, SemAccounting
<1>5. GotOK'
  BY DEF LockToPop, GotOK, TypeOK, Threads
<1> QED
  BY <1>1, <1>2, <1>4, <1>5

\* A consumer inside the mutex finds an element: the accounting reserves one.
LEMMA RemoveFindsElement ==
  ASSUME IInv, NEW c \in Consumers, pc[c] = "remove"
  PROVE  /\ view[c] = m_queue /\ m_lock = c
         /\ m_queue # << >> /\ Len(m_queue) \in Nat \ {0}
<1>1. view[c] = m_queue /\ m_lock = c
  BY DEF IInv, MutexOK, Threads
<1>2. Popping # {}
  BY DEF Popping
<1>3. Cardinality(Popping) # 0
  BY <1>2, CountersFinite, FS_EmptySet
<1>4. Len(m_queue) \in Nat \ {0}
  BY <1>3, CountersFinite, LenProperties DEF IInv, TypeOK, SemAccounting
<1> QED
  BY <1>1, <1>4, EmptySeq

LEMMA RemoveIInv ==
  ASSUME IInv, NEW c \in Consumers, Remove(c)
  PROVE  IInv'
<1> USE DEF IInv
<1>1. view[c] = m_queue /\ m_lock = c /\ m_queue # << >> /\ Len(m_queue) \in Nat \ {0}
  BY RemoveFindsElement DEF Remove
<1>2. m_queue \in Seq(Item)
  BY ZenonT(60) DEF TypeOK
<1>3. /\ m_queue' \in Seq(Item) /\ Len(m_queue') = Len(m_queue) - 1
      /\ got' = [got EXCEPT ![c] = got'[c]] /\ got'[c] \in Item
  <2>1. /\ got \in [Consumers -> Item \cup {None}]
        /\ \/ /\ got' = [got EXCEPT ![c] = m_queue[Len(m_queue)]]
              /\ m_queue' = SubSeq(m_queue, 1, Len(m_queue) - 1)
           \/ /\ got' = [got EXCEPT ![c] = Head(m_queue)]
              /\ m_queue' = Tail(m_queue)
    BY <1>1 DEF Remove, TypeOK
  <2>2. /\ SubSeq(m_queue, 1, Len(m_queue) - 1) \in Seq(Item)
        /\ Len(SubSeq(m_queue, 1, Len(m_queue) - 1)) = Len(m_queue) - 1
        /\ m_queue[Len(m_queue)] \in Item
    BY <1>1, <1>2, FrontOfSeq
  <2>3. /\ Tail(m_queue) \in Seq(Item) /\ Len(Tail(m_queue)) = Len(m_queue) - 1
        /\ Head(m_queue) \in Item
    BY <1>1, <1>2, HeadTailProperties
  <2>4. got'[c] \in Item /\ got' = [got EXCEPT ![c] = got'[c]]
    BY <2>1, <2>2, <2>3
  <2> QED
    BY <2>1, <2>2, <2>3, <2>4
<1>4. got'[c] # None
  BY <1>3, ThreadAssumption DEF Item
<1>5. TypeOK'
  BY <1>3, ThreadAssumption DEF Remove, TypeOK, Threads
<1>6. MutexOK'
  BY <1>1, ThreadAssumption DEF Remove, MutexOK, TypeOK, Threads
<1>7. Posting' = Posting
  BY ThreadAssumption DEF Remove, Posting, TypeOK, Threads
<1>8. Popping' = Popping \ {c} /\ c \in Popping
  BY DEF Remove, Popping, TypeOK, Threads
<1>9. Cardinality(Popping') = Cardinality(Popping) - 1
  BY <1>8, CountersFinite, FS_RemoveElement
<1>10. SemAccounting'
  BY <1>1, <1>3, <1>7, <1>9, CountersFinite DEF Remove, SemAccounting, TypeOK
<1>11. GotOK'
  BY <1>3, <1>4 DEF Remove, GotOK, TypeOK, Threads
<1> QED
  BY <1>5, <1>6, <1>10, <1>11

LEMMA ReturnIInv ==
  ASSUME IInv, NEW c \in Consumers, Return(c)
  PROVE  IInv'
<1> USE DEF IInv
<1>1. TypeOK'
  BY ThreadAssumption DEF Return, TypeOK, Threads
<1>2. MutexOK'
  BY DEF Return, MutexOK, TypeOK, Threads
<1>3. Popping' = Popping /\ Posting' = Posting
  BY ThreadAssumption DEF Return, Popping, Posting, TypeOK, Threads
<1>4. SemAccounting'
  BY <1>3 DEF Return, SemAccounting
<1>5. GotOK'
  BY DEF Return, GotOK, TypeOK, Threads
<1> QED
  BY <1>1, <1>2, <1>4, <1>5

LEMMA StutterIInv == IInv /\ UNCHANGED vars => IInv'
BY DEF vars, IInv, TypeOK, MutexOK, SemAccounting, GotOK, Popping, Posting

\* The inductive invariant holds in every reachable state of the queue.
THEOREM QueueInvariant == Safety => []IInv
<1>1. IInv /\ [Next]_vars => IInv'
  BY BeginPushIInv, LockToPushIInv, InsertIInv, SemPostIInv, SemWaitIInv,
     LockToPopIInv, RemoveIInv, ReturnIInv, StutterIInv DEF Next, PushStep, PopStep
<1> QED
  BY InitIInv, <1>1, PTL DEF Safety

\* The variables of the queue keep their types (TSyncedQueue's fields).
THEOREM TypeCorrect == Safety => []TypeOK
BY QueueInvariant, PTL DEF IInv

\* mutex_lock.h: one thread at a time is inside a list operation, and what it saw
\* there is still the list when it writes.
THEOREM OneThreadInside == Safety => []MutexOK
BY QueueInvariant, PTL DEF IInv

\* synced_queue.h:28-61: semaphore, consumers and producers account for every
\* element, for any number of threads.
THEOREM SemaphoreAccounts == Safety => []SemAccounting
BY QueueInvariant, PTL DEF IInv

\* synced_queue.h:48 and 59: the assertion that a pop returns an element holds.
THEOREM PopReturnsElement == Safety => []PopNeverNull
<1>1. IInv => PopNeverNull
  BY DEF IInv, GotOK, PopNeverNull
<1> QED
  BY <1>1, QueueInvariant, PTL

----------------------------------------------------------------------------
(***************************************************************************)
(* The limit of a throttled queue.  ThrottleBound is inductive given the   *)
(* invariant above: a producer passes its check only while the list is no  *)
(* longer than the limit, and from then on its element is counted.         *)
(***************************************************************************)

\* The positions of throttled elements are finitely many.
LEMMA ThrottledAtFinite ==
  ASSUME NEW q \in Seq(Item)
  PROVE  /\ IsFiniteSet(ThrottledAt(q))
         /\ Cardinality(ThrottledAt(q)) \in Nat
         /\ Cardinality(ThrottledAt(q)) <= Len(q)
<1>1. Len(q) \in Nat /\ DOMAIN q = 1 .. Len(q)
  BY LenProperties
<1>2. IsFiniteSet(1 .. Len(q)) /\ Cardinality(1 .. Len(q)) = Len(q)
  BY <1>1, FS_Interval, SMTT(30)
<1>3. ThrottledAt(q) \subseteq 1 .. Len(q)
  BY <1>1 DEF ThrottledAt
<1> QED
  BY <1>2, <1>3, FS_Subset, FS_CardinalityType

\* An injection of positions cannot increase the count.
LEMMA ShiftedCount ==
  ASSUME NEW q \in Seq(Item), NEW A, NEW d \in Int,
         \A i \in A : i \in Int /\ i + d \in ThrottledAt(q)
  PROVE  IsFiniteSet(A) /\ Cardinality(A) \in Nat
           /\ Cardinality(A) <= Cardinality(ThrottledAt(q))
<1> DEFINE f == [i \in A |-> i + d]
<1>1. f \in Injection(A, ThrottledAt(q))
  BY DEF Injection, IsInjective
<1> HIDE DEF f
<1>2. IsFiniteSet(A) /\ Cardinality(A) <= Cardinality(ThrottledAt(q))
  BY <1>1, ThrottledAtFinite, FS_Injection DEF ExistsInjection
<1> QED
  BY <1>2, FS_CardinalityType

\* Pushing an element at either end adds at most one throttled position, and
\* none if its producer is not throttled.
LEMMA PushCount ==
  ASSUME NEW q \in Seq(Item), NEW e \in Item, NEW r,
         r = Append(q, e) \/ r = <<e>> \o q
  PROVE  /\ r \in Seq(Item)
         /\ Cardinality(ThrottledAt(r)) \in Nat
         /\ Cardinality(ThrottledAt(r)) <= Cardinality(ThrottledAt(q)) + 1
         /\ e[1] \notin Throttled =>
              Cardinality(ThrottledAt(r)) <= Cardinality(ThrottledAt(q))
<1> DEFINE k == IF r = Append(q, e) THEN Len(q) + 1 ELSE 1
           d == IF r = Append(q, e) THEN 0 ELSE -1
           A == ThrottledAt(r) \ {k}
<1>1. Len(q) \in Nat /\ DOMAIN q = 1 .. Len(q)
  BY LenProperties
<1>2. <<e>> \in Seq(Item) /\ Len(<<e>>) = 1 /\ <<e>>[1] = e
  OBVIOUS
<1>3. /\ r \in Seq(Item) /\ Len(r) = Len(q) + 1 /\ DOMAIN r = 1 .. Len(q) + 1
      /\ r[k] = e /\ \A i \in 1 .. Len(q) + 1 : i # k => r[i] = q[i + d] /\ i + d \in 1 .. Len(q)
  <2>1. CASE r = Append(q, e)
    <3>1. /\ r \in Seq(Item) /\ Len(r) = Len(q) + 1
          /\ \A i \in 1 .. Len(q) : r[i] = q[i]
          /\ r[Len(q) + 1] = e
      BY <2>1, AppendProperties
    <3>2. DOMAIN r = 1 .. Len(q) + 1
      BY <3>1, LenProperties
    <3> QED
      BY <2>1, <3>1, <3>2, <1>1
  <2>2. CASE r # Append(q, e)
    <3>1. r = <<e>> \o q
      BY <2>2
    <3>2. /\ r \in Seq(Item) /\ Len(r) = 1 + Len(q)
          /\ \A i \in 1 .. 1 + Len(q) : r[i] = IF i <= 1 THEN <<e>>[i] ELSE q[i - 1]
      BY <3>1, <1>2, ConcatProperties
    <3>3. DOMAIN r = 1 .. Len(q) + 1
      BY <3>2, <1>1, LenProperties
    <3> QED
      BY <2>2, <3>2, <3>3, <1>1, <1>2
  <2> QED
    BY <2>1, <2>2
<1>4. d \in Int /\ \A i \in A : i \in Int /\ i + d \in ThrottledAt(q)
  BY <1>1, <1>3 DEF ThrottledAt
<1>5. IsFiniteSet(A) /\ Cardinality(A) \in Nat
        /\ Cardinality(A) <= Cardinality(ThrottledAt(q))
  <2> HIDE DEF A, d
  <2> QED
    BY <1>4, ShiftedCount
<1>6. ThrottledAt(r) = A \/ (ThrottledAt(r) = A \cup {k} /\ k \notin A)
  OBVIOUS
<1>7. e[1] \notin Throttled => ThrottledAt(r) = A
  BY <1>3 DEF ThrottledAt
<1> HIDE DEF A, k, d
<1>8. Cardinality(ThrottledAt(q)) \in Nat
  BY ThrottledAtFinite
<1>9. CASE ThrottledAt(r) = A
  BY <1>3, <1>5, <1>8, <1>9
<1>10. CASE ThrottledAt(r) = A \cup {k} /\ k \notin A
  <2>1. Cardinality(A \cup {k}) = Cardinality(A) + 1
    BY <1>5, <1>10, FS_AddElement
  <2>2. e[1] \in Throttled
    BY <1>7, <1>10
  <2> QED
    BY <1>3, <1>5, <1>8, <1>10, <2>1, <2>2
<1> QED
  BY <1>6, <1>9, <1>10

\* Popping at either end adds no throttled position.
LEMMA PopCount ==
  ASSUME NEW q \in Seq(Item), q # << >>, NEW r,
         r = Tail(q) \/ r = SubSeq(q, 1, Len(q) - 1)
  PROVE  /\ Cardinality(ThrottledAt(r)) \in Nat
         /\ Cardinality(ThrottledAt(r)) <= Cardinality(ThrottledAt(q))
<1>1. Len(q) \in Nat \ {0} /\ DOMAIN q = 1 .. Len(q)
  BY LenProperties, EmptySeq
<1>2. /\ Tail(q) \in Seq(Item) /\ Len(Tail(q)) = Len(q) - 1
      /\ \A i \in 1 .. Len(Tail(q)) : Tail(q)[i] = q[i + 1]
  BY HeadTailProperties
<1>3. DOMAIN Tail(q) = 1 .. Len(q) - 1
  BY <1>2, LenProperties
<1>4. CASE r = Tail(q)
  <2>1. \A i \in ThrottledAt(r) : i \in Int /\ i + 1 \in ThrottledAt(q)
    BY <1>1, <1>2, <1>3, <1>4 DEF ThrottledAt
  <2>4. 1 \in Int
    OBVIOUS
  <2> QED
    BY <2>1, <2>4, ShiftedCount
<1>5. CASE r = SubSeq(q, 1, Len(q) - 1)
  <2>1. /\ r \in Seq(Item) /\ Len(r) = Len(q) - 1
        /\ \A i \in 1 .. Len(q) - 1 : r[i] = q[i]
    BY <1>5, FrontOfSeq
  <2>2. DOMAIN r = 1 .. Len(q) - 1
    BY <2>1, LenProperties
  <2>3. \A i \in ThrottledAt(r) : i \in Int /\ i + 0 \in ThrottledAt(q)
    BY <1>1, <2>1, <2>2 DEF ThrottledAt
  <2>4. 0 \in Int
    OBVIOUS
  <2> QED
    BY <2>3, <2>4, ShiftedCount
<1> QED
  BY <1>4, <1>5

\* The producers past their check are at most all the throttled ones.
LEMMA InFlightFinite ==
  /\ IsFiniteSet(Throttled) /\ Cardinality(Throttled) \in Nat
  /\ IsFiniteSet(InFlight) /\ Cardinality(InFlight) \in Nat
  /\ Cardinality(InFlight) <= Cardinality(Throttled)
<1>1. IsFiniteSet(Throttled) /\ InFlight \subseteq Throttled
  BY ThreadAssumption, FS_Subset DEF InFlight
<1> QED
  BY <1>1, FS_Subset, FS_CardinalityType

LEMMA InitThrottle == Init => ThrottleBound
<1> SUFFICES ASSUME Init PROVE ThrottleBound
  OBVIOUS
<1>1. << >> \in Seq(Item) /\ Len(<< >>) = 0
  BY EmptySeq
<1>2. Cardinality(ThrottledAt(m_queue)) <= 0 /\ Cardinality(ThrottledAt(m_queue)) \in Nat
  BY <1>1, ThrottledAtFinite DEF Init
<1> QED
  BY <1>2, InFlightFinite, BoundAssumption DEF ThrottleBound

LEMMA BeginPushThrottle ==
  ASSUME IInv, ThrottleBound, NEW p \in Producers, BeginPush(p)
  PROVE  ThrottleBound'
<1>1. m_queue' = m_queue /\ m_queue \in Seq(Item) /\ Len(m_queue) \in Nat
  BY LenProperties DEF IInv, TypeOK, BeginPush
<1>2. CASE p \in Throttled
  <2>1. Len(m_queue) <= MaxQueueSize
    BY <1>2 DEF BeginPush, HasRoom
  <2>2. Cardinality(InFlight') <= Cardinality(Throttled) /\ Cardinality(InFlight') \in Nat
    <3>1. InFlight' \subseteq Throttled
      BY DEF InFlight
    <3> QED
      BY <3>1, InFlightFinite, FS_Subset, FS_CardinalityType
  <2> QED
    BY <1>1, <2>1, <2>2, ThrottledAtFinite, InFlightFinite, BoundAssumption
       DEF ThrottleBound
<1>3. CASE p \notin Throttled
  <2>1. InFlight' = InFlight
    BY <1>3, ThreadAssumption DEF BeginPush, InFlight, IInv, TypeOK, Threads
  <2> QED
    BY <1>1, <2>1 DEF ThrottleBound
<1> QED
  BY <1>2, <1>3

LEMMA InsertThrottle ==
  ASSUME IInv, ThrottleBound, NEW p \in Producers, Insert(p)
  PROVE  ThrottleBound'
<1> DEFINE e == <<p, pushed[p] + 1>>
<1>1. m_queue' = Append(m_queue, e) \/ m_queue' = <<e>> \o m_queue
  BY InsertIInv
<1>2. e \in Item /\ e[1] = p /\ m_queue \in Seq(Item)
  BY BoundAssumption DEF Insert, IInv, TypeOK, Item
<1> HIDE DEF e
<1>3. /\ Cardinality(ThrottledAt(m_queue')) \in Nat
      /\ Cardinality(ThrottledAt(m_queue')) <= Cardinality(ThrottledAt(m_queue)) + 1
      /\ p \notin Throttled =>
           Cardinality(ThrottledAt(m_queue')) <= Cardinality(ThrottledAt(m_queue))
  BY <1>1, <1>2, PushCount
<1>4. ThrottledAt(m_queue)' = ThrottledAt(m_queue')
  BY DEF ThrottledAt
<1>5. CASE p \in Throttled
  <2>1. InFlight' = InFlight \ {p} /\ p \in InFlight
    BY <1>5, ThreadAssumption DEF Insert, InFlight, IInv, TypeOK, Threads
  <2>2. Cardinality(InFlight') = Cardinality(InFlight) - 1
    BY <2>1, InFlightFinite, FS_RemoveElement
  <2> QED
    BY <1>2, <1>3, <1>4, <2>2, ThrottledAtFinite, InFlightFinite, BoundAssumption
       DEF ThrottleBound
<1>6. CASE p \notin Throttled
  <2>1. InFlight' = InFlight
    BY <1>6, ThreadAssumption DEF Insert, InFlight, IInv, TypeOK, Threads
  <2> QED
    BY <1>2, <1>3, <1>4, <1>6, <2>1, ThrottledAtFinite, InFlightFinite, BoundAssumption
       DEF ThrottleBound
<1> QED
  BY <1>5, <1>6

LEMMA RemoveThrottle ==
  ASSUME IInv, ThrottleBound, NEW c \in Consumers, Remove(c)
  PROVE  ThrottleBound'
<1>1. view[c] = m_queue /\ m_queue # << >> /\ m_queue \in Seq(Item)
  BY RemoveFindsElement DEF Remove, IInv, TypeOK
<1>2. m_queue' = Tail(m_queue) \/ m_queue' = SubSeq(m_queue, 1, Len(m_queue) - 1)
  BY <1>1 DEF Remove
<1>3. /\ Cardinality(ThrottledAt(m_queue')) \in Nat
      /\ Cardinality(ThrottledAt(m_queue')) <= Cardinality(ThrottledAt(m_queue))
  BY <1>1, <1>2, PopCount
<1>4. ThrottledAt(m_queue)' = ThrottledAt(m_queue')
  BY DEF ThrottledAt
<1>5. InFlight' = InFlight
  BY ThreadAssumption DEF Remove, InFlight, IInv, TypeOK, Threads
<1> QED
  BY <1>1, <1>3, <1>4, <1>5, ThrottledAtFinite, InFlightFinite, BoundAssumption
     DEF ThrottleBound

\* The steps that touch neither the list nor the producers past their check.
LEMMA OtherThrottle ==
  ASSUME IInv, ThrottleBound,
         \/ \E p \in Producers : LockToPush(p) \/ SemPost(p)
         \/ \E c \in Consumers : SemWait(c) \/ LockToPop(c) \/ Return(c)
         \/ UNCHANGED vars
  PROVE  ThrottleBound'
<1>1. m_queue' = m_queue
  BY DEF LockToPush, SemPost, SemWait, LockToPop, Return, vars
<1>2. InFlight' = InFlight
  BY ThreadAssumption
     DEF LockToPush, SemPost, SemWait, LockToPop, Return, vars,
         InFlight, IInv, TypeOK, Threads
<1> QED
  BY <1>1, <1>2 DEF ThrottleBound, ThrottledAt

\* http_processor.cpp:44-51 and extractor.cpp:26-32: however many threads wait
\* for room at once, the elements they queue stay within the limit plus one
\* for each of them, whatever the other producers queue.
THEOREM ThrottledWithinBound == Safety => []ThrottleBound
<1>1. IInv /\ ThrottleBound /\ [Next]_vars => ThrottleBound'
  BY BeginPushThrottle, InsertThrottle, RemoveThrottle, OtherThrottle
     DEF Next, PushStep, PopStep
<1> QED
  BY InitThrottle, <1>1, QueueInvariant, PTL DEF Safety

----------------------------------------------------------------------------
(* The queue implements the atomic deque.  Insert is a Put, Remove is a    *)
(* Take, Return is a Finish; every other step changes nothing the deque    *)
(* shows.                                                                  *)

LEMMA InitDeque == Init => Deque!Init
BY DEF Init, Deque!Init

\* What a consumer has in hand, as the deque shows it.
Hand == [c \in Consumers |-> IF got[c] = None THEN << >> ELSE <<got[c]>>]

LEMMA InsertIsPut ==
  ASSUME IInv, NEW p \in Producers, Insert(p)
  PROVE  Deque!Put(p)
<1>1. m_queue' = IF p \in FrontProducers THEN <<<<p, pushed[p] + 1>>>> \o m_queue
                                          ELSE Append(m_queue, <<p, pushed[p] + 1>>)
  BY InsertIInv
<1> QED
  BY <1>1 DEF Insert, Deque!Put, IInv, TypeOK

LEMMA RemoveIsTake ==
  ASSUME IInv, NEW c \in Consumers, Remove(c)
  PROVE  Deque!Take(c)
<1>1. view[c] = m_queue /\ m_queue # << >>
  BY RemoveFindsElement DEF Remove
<1>2. got[c] = None /\ got \in [Consumers -> Item \cup {None}]
  BY DEF Remove, IInv, GotOK, TypeOK
<1>3. IInv'
  BY RemoveIInv
<1>4. got'[c] # None
  BY <1>3 DEF Remove, IInv, GotOK, TypeOK, Threads
<1>5. CASE c \in BackConsumers
  <2>1. /\ got' = [got EXCEPT ![c] = m_queue[Len(m_queue)]]
        /\ m_queue' = SubSeq(m_queue, 1, Len(m_queue) - 1)
        /\ pushed' = pushed
    BY <1>1, <1>5 DEF Remove
  <2>2. Hand' = [Hand EXCEPT ![c] = <<m_queue[Len(m_queue)]>>]
    BY <2>1, <1>2, <1>4 DEF Hand
  <2> QED
    BY <1>1, <1>2, <1>5, <2>1, <2>2 DEF Deque!Take, Hand
<1>6. CASE c \notin BackConsumers
  <2>1. /\ got' = [got EXCEPT ![c] = Head(m_queue)]
        /\ m_queue' = Tail(m_queue)
        /\ pushed' = pushed
    BY <1>1, <1>6 DEF Remove
  <2>2. Hand' = [Hand EXCEPT ![c] = <<Head(m_queue)>>]
    BY <2>1, <1>2, <1>4 DEF Hand
  <2> QED
    BY <1>1, <1>2, <1>6, <2>1, <2>2 DEF Deque!Take, Hand
<1> QED
  BY <1>5, <1>6

LEMMA ReturnIsFinish ==
  ASSUME IInv, NEW c \in Consumers, Return(c)
  PROVE  Deque!Finish(c)
<1>1. got' = [got EXCEPT ![c] = None] /\ got[c] # None
      /\ got \in [Consumers -> Item \cup {None}]
      /\ m_queue' = m_queue /\ pushed' = pushed
  BY DEF Return, IInv, TypeOK
<1>2. Hand' = [Hand EXCEPT ![c] = << >>] /\ Hand[c] # << >>
  BY <1>1 DEF Hand
<1> QED
  BY <1>1, <1>2 DEF Deque!Finish, Hand

\* The other steps are invisible to the clients of the deque.
LEMMA OtherIsStutter ==
  ASSUME \/ \E p \in Producers : BeginPush(p) \/ LockToPush(p) \/ SemPost(p)
         \/ \E c \in Consumers : SemWait(c) \/ LockToPop(c)
         \/ UNCHANGED vars
  PROVE  UNCHANGED Deque!vars
BY DEF BeginPush, LockToPush, SemPost, SemWait, LockToPop, vars, Deque!vars

\* TSyncedQueue is an atomic deque for its clients: every behaviour of the
\* locked list and its semaphore is one of SharedDeque.
THEOREM QueueImplementsDeque == Safety => ImplementsDeque
<1>1. IInv /\ [Next]_vars => [Deque!Next]_(Deque!vars)
  BY InsertIsPut, RemoveIsTake, ReturnIsFinish, OtherIsStutter
     DEF Next, PushStep, PopStep, Deque!Next
<1> QED
  BY InitDeque, <1>1, QueueInvariant, PTL
     DEF Safety, ImplementsDeque, Deque!Safety
==============================================================================
