----------------------------- MODULE DoubleList -----------------------------
(***************************************************************************)
(* The intrusive doubly linked lists under every queue of lspider (link.h, *)
(* TLinkedList in DoubleList.h) and the keyed queue built from one of them *)
(* (keyed_queue.h).  Each element carries its links itself; a list is a    *)
(* ring through its head.  A call is a step, for the lists know no         *)
(* threads; what it assigns, and in which order, is kept.                  *)
(***************************************************************************)
EXTENDS Integers, Sequences

CONSTANTS
  Elements,
  Lists,      \* the heads of plain lists
  Queue,      \* the head of m_Queue of a keyed queue
  Keys,
  key,        \* key[e]: the field by which the keyed queue knows an element
  NULL

Heads == Lists \union {Queue}
Nodes == Elements \union Heads

ASSUME NodesAssumption ==
  /\ Elements \intersect Heads = {} /\ Queue \notin Lists /\ NULL \notin Elements
  /\ key \in [Elements -> Keys]

VARIABLES
  links,      \* the links of all nodes: links.next[n], links.prev[n]
  m_count,    \* m_count[h]: the elements a list believes to have
  m_Indexer   \* m_Indexer[k]: the element of the keyed queue with the key, or NULL

vars == <<links, m_count, m_Indexer>>

(***************************************************************************)
(* link.h: assignments to links, in the order of the source.               *)
(***************************************************************************)
SetNext(l, n, m) == [l EXCEPT !.next = [@ EXCEPT ![n] = m]]
SetPrev(l, n, m) == [l EXCEPT !.prev = [@ EXCEPT ![n] = m]]

DLINK_INITIALIZE(l, n) == SetNext(SetPrev(l, n, n), n, n)

DLINK_IS_STANDALONE(l, n) == l.next[n] = n /\ l.prev[n] = n

DLINK_INSERT_NEXT(l, h, n) ==
  LET l2 == SetPrev(SetNext(l, n, l.next[h]), n, h)
  IN SetNext(SetPrev(l2, l2.next[h], n), h, n)

DLINK_INSERT_PREV(l, h, n) ==
  LET l2 == SetNext(SetPrev(l, n, l.prev[h]), n, h)
  IN SetPrev(SetNext(l2, l2.prev[h], n), h, n)

DLINK_REMOVE(l, n) ==
  LET l1 == SetNext(l, l.prev[n], l.next[n]) IN SetPrev(l1, l1.next[n], l1.prev[n])

DLINK_REPLACE(l, old, new) ==
  LET l1 == SetPrev(l, l.next[old], new)
      l2 == SetNext(l1, l1.prev[old], new)
  IN SetPrev(SetNext(l2, new, l2.next[old]), new, l2.prev[old])

TakenOut(l, n) == DLINK_INITIALIZE(DLINK_REMOVE(l, n), n)

\* A plausible bug: those of list g go before those of h.
Merged_AtFront(l, h, g) ==
  LET l1 == SetPrev(l, l.next[h], l.prev[g])
      l2 == SetNext(l1, l1.prev[g], l1.next[h])
      l3 == SetNext(l2, h, l2.next[g])
  IN DLINK_INITIALIZE(SetPrev(l3, l3.next[g], h), g)

\* TLinkedList::merge, the links: those of list g go behind those of h.
Merged(l, h, g) ==
  LET l1 == SetNext(l, l.prev[h], l.next[g])
      l2 == SetPrev(l1, l1.next[g], l1.prev[h])
      l3 == SetPrev(l2, h, l2.prev[g])
  IN DLINK_INITIALIZE(SetNext(l3, l3.prev[g], h), g)

(***************************************************************************)
(* The elements of a list, as Enumerate meets them.                        *)
(***************************************************************************)
Walk(l, h, n) ==
  LET p[i \in 1..n] == IF i = 1 THEN l.next[h] ELSE l.next[p[i - 1]] IN p

Contents(h) == Walk(links, h, m_count[h])

contains(h, e) == \E i \in 1..m_count[h] : Contents(h)[i] = e

(***************************************************************************)
(* TLinkedList.                                                            *)
(***************************************************************************)
Init ==
  /\ links = [next |-> [n \in Nodes |-> n], prev |-> [n \in Nodes |-> n]]
  /\ m_count = [h \in Heads |-> 0]
  /\ m_Indexer = [k \in Keys |-> NULL]

Counted(h, d) == m_count' = [m_count EXCEPT ![h] = @ + d]

push_back(h, e) ==
  /\ DLINK_IS_STANDALONE(links, e)
  /\ links' = DLINK_INSERT_PREV(links, h, e) /\ Counted(h, 1)
  /\ UNCHANGED m_Indexer

push_front(h, e) ==
  /\ DLINK_IS_STANDALONE(links, e)
  /\ links' = DLINK_INSERT_NEXT(links, h, e) /\ Counted(h, 1)
  /\ UNCHANGED m_Indexer

pop_back(h) ==
  /\ links.prev[h] # h
  /\ links' = TakenOut(links, links.prev[h]) /\ Counted(h, -1)
  /\ UNCHANGED m_Indexer

pop_front(h) ==
  /\ links.next[h] # h
  /\ links' = TakenOut(links, links.next[h]) /\ Counted(h, -1)
  /\ UNCHANGED m_Indexer

\* Of an element of this list: only a test build looks whether it is.
remove(h, e) ==
  /\ contains(h, e)
  /\ links' = TakenOut(links, e) /\ Counted(h, -1)
  /\ UNCHANGED m_Indexer

merge(h, g) ==
  /\ links' = Merged(links, h, g)
  /\ m_count' = [m_count EXCEPT ![h] = @ + m_count[g], ![g] = 0]
  /\ UNCHANGED m_Indexer

\* Eat, when the function refuses an element: it is taken and put back.
Eat(h) ==
  /\ links.next[h] # h
  /\ links' = DLINK_INSERT_NEXT(TakenOut(links, links.next[h]), h, links.next[h])
  /\ UNCHANGED <<m_count, m_Indexer>>

(***************************************************************************)
(* TKeyedQueue.                                                            *)
(***************************************************************************)
keyed_push_back(e) ==
  /\ DLINK_IS_STANDALONE(links, e) /\ m_Indexer[key[e]] = NULL
  /\ links' = DLINK_INSERT_PREV(links, Queue, e) /\ Counted(Queue, 1)
  /\ m_Indexer' = [m_Indexer EXCEPT ![key[e]] = e]

\* A plausible bug: the element replaced keeps its links.
push_back_and_replace_OldStays(e) ==
  LET old == m_Indexer[key[e]]
  IN /\ DLINK_IS_STANDALONE(links, e) /\ old \notin {NULL, e}
     /\ links' = DLINK_REPLACE(links, old, e)
     /\ m_Indexer' = [m_Indexer EXCEPT ![key[e]] = e]
     /\ UNCHANGED m_count

\* Of a key that the queue has; of a new one it is keyed_push_back.
push_back_and_replace(e) ==
  LET old == m_Indexer[key[e]]
  IN /\ DLINK_IS_STANDALONE(links, e) /\ old \notin {NULL, e}
     /\ links' = DLINK_INITIALIZE(DLINK_REPLACE(links, old, e), old)
     /\ m_Indexer' = [m_Indexer EXCEPT ![key[e]] = e]
     /\ UNCHANGED m_count

\* A plausible bug: the index keeps the element.
keyed_pop_front_StaysIndexed ==
  /\ links.next[Queue] # Queue
  /\ links' = TakenOut(links, links.next[Queue]) /\ Counted(Queue, -1)
  /\ UNCHANGED m_Indexer

keyed_pop_front ==
  /\ links.next[Queue] # Queue
  /\ links' = TakenOut(links, links.next[Queue]) /\ Counted(Queue, -1)
  /\ m_Indexer' = [m_Indexer EXCEPT ![key[links.next[Queue]]] = NULL]

front_to_back ==
  /\ links.next[Queue] # Queue
  /\ links' = DLINK_INSERT_PREV(TakenOut(links, links.next[Queue]), Queue, links.next[Queue])
  /\ UNCHANGED <<m_count, m_Indexer>>

move_to_back(e) ==
  /\ m_Indexer[key[e]] = e
  /\ links' = DLINK_INSERT_PREV(TakenOut(links, e), Queue, e)
  /\ UNCHANGED <<m_count, m_Indexer>>

move_to_front(e) ==
  /\ m_Indexer[key[e]] = e
  /\ links' = DLINK_INSERT_NEXT(TakenOut(links, e), Queue, e)
  /\ UNCHANGED <<m_count, m_Indexer>>

\* By the element, or by its key.
keyed_remove(e) ==
  /\ m_Indexer[key[e]] = e
  /\ links' = TakenOut(links, e) /\ Counted(Queue, -1)
  /\ m_Indexer' = [m_Indexer EXCEPT ![key[e]] = NULL]

Next ==
  \/ \E h \in Lists :
       \/ pop_back(h) \/ pop_front(h) \/ Eat(h)
       \/ \E e \in Elements : push_back(h, e) \/ push_front(h, e) \/ remove(h, e)
       \/ \E g \in Lists \ {h} : merge(h, g)
  \/ keyed_pop_front \/ front_to_back
  \/ \E e \in Elements :
       \/ keyed_push_back(e) \/ push_back_and_replace(e)
       \/ move_to_back(e) \/ move_to_front(e) \/ keyed_remove(e)

Spec == Init /\ [][Next]_vars

(***************************************************************************)
(* Properties.                                                             *)
(***************************************************************************)
\* Every link leads to a node, and no list counts below zero.
TypeOK ==
  /\ links \in [next : [Nodes -> Nodes], prev : [Nodes -> Nodes]]
  /\ m_count \in [Heads -> Nat]
  /\ m_Indexer \in [Keys -> Elements \union {NULL}]

\* What Assert() of the list claims after any calls: each link is matched by the
\* link back, and the ring closes after as many elements as are counted.
AssertHolds ==
  /\ \A n \in Nodes : links.prev[links.next[n]] = n /\ links.next[links.prev[n]] = n
  /\ \A h \in Heads :
       /\ \A i \in 1..m_count[h] : Contents(h)[i] # h
       /\ links.next[IF m_count[h] = 0 THEN h ELSE Contents(h)[m_count[h]]] = h

\* "To prevent a node is inserted to list twice or to multiple lists": an element
\* passes the check of push exactly when no list has it,
StandaloneIsFree ==
  \A e \in Elements : DLINK_IS_STANDALONE(links, e) <=> \A h \in Heads : ~contains(h, e)

\* and so it never is at two places.
InOnePlace ==
  \A g, h \in Heads : \A i \in 1..m_count[g], j \in 1..m_count[h] :
    Contents(g)[i] = Contents(h)[j] => g = h /\ i = j

\* The index of the keyed queue has the elements of its list, each under its key.
IndexIsOfTheQueue ==
  \A e \in Elements : m_Indexer[key[e]] = e <=> contains(Queue, e)

\* The lists are the sequences that they promise to be.
lists == [h \in Heads |-> Contents(h)]
Abstract == INSTANCE ElementLists WITH lists <- lists
ServesAsLists == Abstract!Spec
=============================================================================
