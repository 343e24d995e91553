----------------------------- MODULE FifoQueue -----------------------------
(***************************************************************************)
(* What both queues of assignment2 promise to their callers: a first-in    *)
(* first-out queue of at most Capacity items.  add(item) appends the item  *)
(* when there is room, remove() takes the oldest one, each in one step at  *)
(* some moment of the call.  BlockingQueue and NonBlockingQueue are shown  *)
(* to implement this specification.                                        *)
(***************************************************************************)
EXTENDS Naturals, Sequences

CONSTANTS Workers,   \* the threads that call add and remove
          Items,     \* what may be put in the queue
          NoItem,    \* what a worker holds before its first remove
          Capacity   \* the number of slots

VARIABLES items,     \* the queue, oldest item first
          taken      \* taken[w]: the last item remove() handed to worker w

vars == <<items, taken>>

Init == /\ items \in Seq(Items) /\ Len(items) <= Capacity
        /\ taken = [w \in Workers |-> NoItem]

Add == /\ Len(items) < Capacity
       /\ \E v \in Items : items' = Append(items, v)
       /\ UNCHANGED taken

Remove(w) == /\ items # <<>>
             /\ items' = Tail(items)
             /\ taken' = [taken EXCEPT ![w] = Head(items)]

Next == Add \/ \E w \in Workers : Remove(w)

Spec == Init /\ [][Next]_vars
=============================================================================
