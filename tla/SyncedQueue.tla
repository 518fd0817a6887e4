----------------------------- MODULE SyncedQueue -----------------------------
(***************************************************************************)
(* TSyncedQueue (synced_queue.h): a linked list under a mutex, with a      *)
(* semaphore that counts the elements for the consumers, used between      *)
(* every two threads of the crawler.  The producers include the callers    *)
(* that first wait for room (HttpProcessor::pushConnectQueue and           *)
(* Extractor::push) and those that do not (retries and redirects of the    *)
(* event thread, the mongo and mysql queues).                              *)
(*                                                                         *)
(* The list operations are not atomic in themselves: a thread that runs    *)
(* one works on the list it found when the operation began (view).  It is  *)
(* the mutex that makes the result right.                                  *)
(***************************************************************************)
EXTENDS Integers, Sequences, FiniteSets

CONSTANTS Producers,      \* threads that push
          Throttled,      \* those that wait for room before they push
          FrontProducers, \* those that push_front
          Consumers,      \* threads that pop
          BackConsumers,  \* those that pop_back
          MaxQueueSize,   \* connectQueueSize / extractor maxQueueSize
          MaxPushes,      \* elements each producer pushes: bounds the model
          None            \* no element (NULL) and no thread

Threads == Producers \cup Consumers

ASSUME ThreadAssumption ==
  /\ IsFiniteSet(Producers) /\ IsFiniteSet(Consumers)
  /\ Producers \cap Consumers = {}
  /\ Throttled \subseteq Producers
  /\ FrontProducers \subseteq Producers
  /\ BackConsumers \subseteq Consumers
  /\ None \notin Threads
  /\ None \notin Producers \X (1 .. MaxPushes)
ASSUME BoundAssumption == MaxQueueSize \in Nat /\ MaxPushes \in Nat

VARIABLES m_queue, \* the list: a sequence of elements
          m_lock,  \* the thread that holds the mutex, or None
          sem,     \* value of _sem
          pc,      \* pc[t]: the call thread t is inside
          view,    \* view[t]: the list as t found it inside the mutex
          pushed,  \* pushed[p]: elements p has put into the list
          got      \* got[c]: what the last pop of c returned

vars == <<m_queue, m_lock, sem, pc, view, pushed, got>>

\* An element is named by its producer and its number.
Item == Producers \X (1 .. MaxPushes)

Init ==
  /\ m_queue = << >>
  /\ m_lock = None
  /\ sem = 0
  /\ pc = [t \in Threads |-> "idle"]
  /\ view = [t \in Threads |-> << >>]
  /\ pushed = [p \in Producers |-> 0]
  /\ got = [c \in Consumers |-> None]

----------------------------------------------------------------------------
(* The mutex.                                                              *)

Acquire(t) == m_lock = None /\ m_lock' = t

----------------------------------------------------------------------------
(* Pushing.                                                                *)

\* A plausible bug: waiting only while the queue is far over its limit.
HasRoom_TooFar == m_lock = None /\ Len(m_queue) <= MaxQueueSize + 1

\* size() <= limit, read under the mutex, is the exit of the waiting loop.
HasRoom == m_lock = None /\ Len(m_queue) <= MaxQueueSize

\* pushConnectQueue and Extractor::push leave their waiting loop; the other
\* callers go straight on.
BeginPush(p) ==
  /\ pc[p] = "idle" /\ pushed[p] < MaxPushes
  /\ p \in Throttled => HasRoom
  /\ pc' = [pc EXCEPT ![p] = "push"]
  /\ UNCHANGED <<m_queue, m_lock, sem, view, pushed, got>>

LockToPush(p) ==
  /\ pc[p] = "push" /\ Acquire(p)
  /\ view' = [view EXCEPT ![p] = m_queue]
  /\ pc' = [pc EXCEPT ![p] = "insert"]
  /\ UNCHANGED <<m_queue, sem, pushed, got>>

\* m_queue.push_back(e) or push_front(e), then Unlock.
Insert(p) ==
  LET e == <<p, pushed[p] + 1>>
  IN  /\ pc[p] = "insert"
      /\ m_queue' = IF p \in FrontProducers THEN <<e>> \o view[p]
                                            ELSE Append(view[p], e)
      /\ pushed' = [pushed EXCEPT ![p] = @ + 1]
      /\ m_lock' = None
      /\ pc' = [pc EXCEPT ![p] = "post"]
      /\ UNCHANGED <<sem, view, got>>

\* A plausible bug: an element is not announced when the list was not empty.
SemPost_WasNotEmpty(p) ==
  /\ pc[p] = "post"
  /\ sem' = IF Len(m_queue) > 1 THEN sem ELSE sem + 1
  /\ pc' = [pc EXCEPT ![p] = "idle"]
  /\ UNCHANGED <<m_queue, m_lock, view, pushed, got>>

SemPost(p) ==
  /\ pc[p] = "post"
  /\ sem' = sem + 1
  /\ pc' = [pc EXCEPT ![p] = "idle"]
  /\ UNCHANGED <<m_queue, m_lock, view, pushed, got>>

----------------------------------------------------------------------------
(* Popping.                                                                *)

\* A plausible bug: the semaphore is only tested (sem_getvalue), not taken.
SemWait_NotTaken(c) ==
  /\ pc[c] = "idle" /\ sem > 0
  /\ pc' = [pc EXCEPT ![c] = "pop"]
  /\ UNCHANGED <<m_queue, m_lock, sem, view, pushed, got>>

SemWait(c) ==
  /\ pc[c] = "idle" /\ sem > 0
  /\ sem' = sem - 1
  /\ pc' = [pc EXCEPT ![c] = "pop"]
  /\ UNCHANGED <<m_queue, m_lock, view, pushed, got>>

LockToPop(c) ==
  /\ pc[c] = "pop" /\ Acquire(c)
  /\ view' = [view EXCEPT ![c] = m_queue]
  /\ pc' = [pc EXCEPT ![c] = "remove"]
  /\ UNCHANGED <<m_queue, sem, pushed, got>>

\* m_queue.pop_front() or pop_back(), NULL if the list is empty, then Unlock.
Remove(c) ==
  LET q == view[c]
  IN  /\ pc[c] = "remove"
      /\ \/ q = << >> /\ got' = [got EXCEPT ![c] = None] /\ m_queue' = q
         \/ /\ q # << >> /\ c \in BackConsumers
            /\ got' = [got EXCEPT ![c] = q[Len(q)]]
            /\ m_queue' = SubSeq(q, 1, Len(q) - 1)
         \/ /\ q # << >> /\ c \notin BackConsumers
            /\ got' = [got EXCEPT ![c] = Head(q)]
            /\ m_queue' = Tail(q)
      /\ m_lock' = None
      /\ pc' = [pc EXCEPT ![c] = "check"]
      /\ UNCHANGED <<sem, view, pushed>>

\* assert(NULL != e); the caller works on the element and comes back for more.
Return(c) ==
  /\ pc[c] = "check" /\ got[c] # None
  /\ got' = [got EXCEPT ![c] = None]
  /\ pc' = [pc EXCEPT ![c] = "idle"]
  /\ UNCHANGED <<m_queue, m_lock, sem, view, pushed>>

----------------------------------------------------------------------------
PushStep(p) == LockToPush(p) \/ Insert(p) \/ SemPost(p)
PopStep(c)  == SemWait(c) \/ LockToPop(c) \/ Remove(c) \/ Return(c)

Next == \/ \E p \in Producers : BeginPush(p) \/ PushStep(p)
        \/ \E c \in Consumers : PopStep(c)

\* A thread inside a call keeps running.  A producer may stop pushing.  The
\* mutex needs no strong fairness: a model has finitely many pushes.
Fairness == /\ \A p \in Producers : WF_vars(PushStep(p))
            /\ \A c \in Consumers : WF_vars(PopStep(c))

Safety == Init /\ [][Next]_vars
Spec   == Safety /\ Fairness

----------------------------------------------------------------------------
(* Properties.                                                             *)

TypeOK ==
  /\ m_queue \in Seq(Item)
  /\ m_lock \in Threads \cup {None}
  /\ sem \in Nat
  /\ pc \in [Threads -> {"idle", "push", "insert", "post", "pop", "remove", "check"}]
  /\ \A p \in Producers : pc[p] \in {"idle", "push", "insert", "post"}
  /\ \A c \in Consumers : pc[c] \in {"idle", "pop", "remove", "check"}
  /\ view \in [Threads -> Seq(Item)]
  /\ pushed \in [Producers -> 0 .. MaxPushes]
  /\ \A p \in Producers : pc[p] \in {"push", "insert"} => pushed[p] < MaxPushes
  /\ got \in [Consumers -> Item \cup {None}]

\* Only the holder of the mutex is inside a list operation, and the list it
\* works on is the current one.
MutexOK ==
  \A t \in Threads : pc[t] \in {"insert", "remove"} => m_lock = t /\ view[t] = m_queue

Posting == {p \in Producers : pc[p] = "post"}
Popping == {c \in Consumers : pc[c] \in {"pop", "remove"}}

\* The semaphore, the consumers it has let in and the producers yet to post
\* account for every element of the list: each consumer past sem_wait has an
\* element reserved, although it takes the mutex later than others.
SemAccounting ==
  sem + Cardinality(Popping) + Cardinality(Posting) = Len(m_queue)

\* assert(NULL != e) in pop_front and pop_back never fails, whoever else pops
\* between this consumer's sem_wait and its Lock.
PopNeverNull == \A c \in Consumers : pc[c] = "check" => got[c] # None

ThrottledAt(q) == {i \in DOMAIN q : q[i][1] \in Throttled}
InFlight       == {p \in Throttled : pc[p] \in {"push", "insert"}}

\* The check of size() and the push are two critical sections, so the limit
\* is not exact: with all throttled producers past the check at once, the
\* elements they queue exceed it by up to one each, and never by more.
ThrottleBound ==
  Cardinality(ThrottledAt(m_queue)) + Cardinality(InFlight)
     <= MaxQueueSize + Cardinality(Throttled)

\* Element for element and call for call the queue behaves as the atomic deque
\* of SharedDeque: nothing is lost, taken twice or reordered.
Deque == INSTANCE SharedDeque
           WITH queue <- m_queue, puts <- pushed,
                hand <- [c \in Consumers |-> IF got[c] = None THEN << >> ELSE <<got[c]>>]
ImplementsDeque == Deque!Safety

\* It serves its consumers as the deque promises: while elements remain and a
\* consumer waits, some consumer gets one.
ServesAsDeque == Deque!Spec

==============================================================================
