----------------------------- MODULE SharedDeque -----------------------------
(***************************************************************************)
(* What a queue shared by threads promises its clients, with every call    *)
(* reduced to one step: an element put at an end stays until exactly one   *)
(* consumer takes it, nothing is lost, copied or reordered, and a waiting  *)
(* consumer is eventually served while elements remain.  The pipeline of   *)
(* lspider (connect, extract, mongo and mysql queues) relies on this much  *)
(* of TSyncedQueue; SyncedQueue.tla is shown to implement it.              *)
(***************************************************************************)
EXTENDS Integers, Sequences

CONSTANTS Producers,      \* threads that put elements
          FrontProducers, \* those that put at the front (push_front)
          Consumers,      \* threads that take elements
          BackConsumers,  \* those that take from the back (pop_back)
          MaxPushes       \* elements each producer puts: bounds the model

VARIABLES queue,  \* the elements in the queue, oldest back insertion first
          puts,   \* puts[p]: how many elements producer p has put
          hand    \* hand[c]: the element consumer c is working on, as a sequence

vars == <<queue, puts, hand>>

Item == Producers \X (1 .. MaxPushes)

Init == /\ queue = << >>
        /\ puts = [p \in Producers |-> 0]
        /\ hand = [c \in Consumers |-> << >>]

Put(p) ==
  LET item == <<p, puts[p] + 1>>
  IN  /\ puts[p] < MaxPushes
      /\ puts' = [puts EXCEPT ![p] = @ + 1]
      /\ \/ p \in FrontProducers    /\ queue' = <<item>> \o queue
         \/ p \notin FrontProducers /\ queue' = Append(queue, item)
      /\ UNCHANGED hand

Take(c) ==
  /\ hand[c] = << >>
  /\ queue # << >>
  /\ \/ /\ c \in BackConsumers
        /\ hand' = [hand EXCEPT ![c] = <<queue[Len(queue)]>>]
        /\ queue' = SubSeq(queue, 1, Len(queue) - 1)
     \/ /\ c \notin BackConsumers
        /\ hand' = [hand EXCEPT ![c] = <<Head(queue)>>]
        /\ queue' = Tail(queue)
  /\ UNCHANGED puts

Finish(c) ==
  /\ hand[c] # << >>
  /\ hand' = [hand EXCEPT ![c] = << >>]
  /\ UNCHANGED <<queue, puts>>

Next == \/ \E p \in Producers : Put(p)
        \/ \E c \in Consumers : Take(c) \/ Finish(c)

Safety == Init /\ [][Next]_vars

\* Some consumer takes while elements remain and consumers are free.
Spec == Safety /\ WF_vars(\E c \in Consumers : Take(c))
==============================================================================
