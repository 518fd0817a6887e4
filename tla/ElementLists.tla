---------------------------- MODULE ElementLists ----------------------------
(***************************************************************************)
(* What the intrusive lists promise their users: every list is a sequence, *)
(* an element is in one of them at most, and one of the lists is keyed: it *)
(* holds one element of a key at most, and finds it wherever it is.        *)
(* DoubleList.tla, with its pointers, is shown to implement this.          *)
(***************************************************************************)
EXTENDS Integers, Sequences

CONSTANTS Elements, Lists, Queue, key

VARIABLE lists   \* lists[h]: the elements of a list, or of the keyed queue

Heads == Lists \union {Queue}

Free(e) == \A h \in Heads : \A i \in 1..Len(lists[h]) : lists[h][i] # e

\* The sequence without its i-th element, with another one instead, and with one
\* more at either end.
Without(s, i)    == [j \in 1..Len(s) - 1 |-> IF j < i THEN s[j] ELSE s[j + 1]]
Replaced(s, i, e) == [s EXCEPT ![i] = e]
AtBack(s, e)     == [j \in 1..Len(s) + 1 |-> IF j <= Len(s) THEN s[j] ELSE e]
AtFront(s, e)    == [j \in 1..Len(s) + 1 |-> IF j = 1 THEN e ELSE s[j - 1]]
Joined(s, t)     == [j \in 1..Len(s) + Len(t) |-> IF j <= Len(s) THEN s[j] ELSE t[j - Len(s)]]

Init == lists = [h \in Heads |-> <<>>]

PushBack(h, e)  == Free(e) /\ lists' = [lists EXCEPT ![h] = AtBack(@, e)]
PushFront(h, e) == Free(e) /\ lists' = [lists EXCEPT ![h] = AtFront(@, e)]
Remove(h, i)    == lists' = [lists EXCEPT ![h] = Without(@, i)]
Merge(h, g)     == lists' = [lists EXCEPT ![h] = Joined(@, lists[g]), ![g] = <<>>]

NewKey(e) == \A i \in 1..Len(lists[Queue]) : key[lists[Queue][i]] # key[e]
Replace(i, e) ==
  /\ Free(e) /\ key[lists[Queue][i]] = key[e]
  /\ lists' = [lists EXCEPT ![Queue] = Replaced(@, i, e)]
ToBack(i)  == lists' = [lists EXCEPT ![Queue] = AtBack(Without(@, i), @[i])]
ToFront(i) == lists' = [lists EXCEPT ![Queue] = AtFront(Without(@, i), @[i])]

Next ==
  \/ \E h \in Lists, e \in Elements : PushBack(h, e) \/ PushFront(h, e)
  \/ \E e \in Elements : NewKey(e) /\ PushBack(Queue, e)
  \/ \E h \in Heads : \E i \in 1..Len(lists[h]) : Remove(h, i)
  \/ \E h \in Lists : \E g \in Lists \ {h} : Merge(h, g)
  \/ \E i \in 1..Len(lists[Queue]) :
       ToBack(i) \/ ToFront(i) \/ \E e \in Elements : Replace(i, e)

Spec == Init /\ [][Next]_lists
=============================================================================
