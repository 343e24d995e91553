--------------------------- MODULE BlockingQueue ---------------------------
(***************************************************************************)
(* assignment2/blocking_queue.hpp: a bounded ring buffer with one mutex    *)
(* for producers (tail_mutex), one for consumers (head_mutex), an atomic   *)
(* size shared by both sides and two condition variables.  The workers are *)
(* those of assignment2/main.cpp: each runs its slice of the operations on *)
(* a queue that main() has pre-filled.                                     *)
(*                                                                         *)
(* A step is one access to shared state.  A worker inside wait() first     *)
(* evaluates the predicate and only then, in a later step, releases its    *)
(* mutex and goes to sleep: the two are atomic with respect to holders of  *)
(* that mutex, and the notifying side holds the other one.                 *)
(***************************************************************************)
EXTENDS BenchWorkload, FiniteSets

CONSTANT Nobody     \* the owner of a free mutex

ASSUME NobodyAssumption == Nobody \notin Workers
ASSUME WorkersAssumption == IsFiniteSet(Workers)

VARIABLES buffer,     \* buffer[i]: content of slot i
          head, tail, \* next slot to read, next slot to write
          size,       \* the atomic counter
          headLock,   \* owner of head_mutex
          tailLock,   \* owner of tail_mutex
          todo,       \* todo[w]: operations w has not started yet
          pc,         \* pc[w]: where w is
          out         \* out[w]: the last item w read

vars == <<buffer, head, tail, size, headLock, tailLock, todo, pc, out>>

Goto(w, label) == pc' = [pc EXCEPT ![w] = label]

Init == /\ buffer = PrefilledBuffer
        /\ head = 0
        /\ tail = Prefill % Capacity
        /\ size = Prefill
        /\ headLock = Nobody /\ tailLock = Nobody
        /\ todo \in Workloads
        /\ pc = [w \in Workers |-> "idle"]
        /\ out = [w \in Workers |-> NoItem]
-----------------------------------------------------------------------------
(* notify_one(): one of the workers asleep on the condition variable, if   *)
(* there is any, goes on to take its mutex again.                           *)

NotifyOne(w, waiting, relock, next) ==
  LET sleepers == {u \in Workers : pc[u] = waiting} IN
  IF sleepers = {} THEN Goto(w, next)
  ELSE \E u \in sleepers : pc' = [pc EXCEPT ![w] = next, ![u] = relock]

(* add(item) *)

\* Mutant: producers do not exclude each other.
LockTailShared(w) ==
  /\ \/ pc[w] = "idle" /\ todo[w] # <<>> /\ Head(todo[w]) = "add"
        /\ todo' = [todo EXCEPT ![w] = Tail(@)]
     \/ pc[w] = "a_relock" /\ UNCHANGED todo
  /\ tailLock' = w
  /\ Goto(w, "a_check")
  /\ UNCHANGED <<buffer, head, tail, size, headLock, out>>

LockTail(w) ==
  /\ \/ pc[w] = "idle" /\ todo[w] # <<>> /\ Head(todo[w]) = "add"
        /\ todo' = [todo EXCEPT ![w] = Tail(@)]
     \/ pc[w] = "a_relock" /\ UNCHANGED todo
  /\ tailLock = Nobody
  /\ tailLock' = w
  /\ Goto(w, "a_check")
  /\ UNCHANGED <<buffer, head, tail, size, headLock, out>>

\* Mutant: one item more than there are slots.
CheckNotFullOffByOne(w) ==
  /\ pc[w] = "a_check"
  /\ Goto(w, IF size <= Capacity THEN "a_write" ELSE "a_sleep")
  /\ UNCHANGED <<buffer, head, tail, size, headLock, tailLock, todo, out>>

CheckNotFull(w) ==
  /\ pc[w] = "a_check"
  /\ Goto(w, IF size < Capacity THEN "a_write" ELSE "a_sleep")
  /\ UNCHANGED <<buffer, head, tail, size, headLock, tailLock, todo, out>>

SleepNotFull(w) ==
  /\ pc[w] = "a_sleep"
  /\ tailLock' = Nobody
  /\ Goto(w, "a_waiting")
  /\ UNCHANGED <<buffer, head, tail, size, headLock, todo, out>>

WriteSlot(w) ==
  /\ pc[w] = "a_write"
  /\ buffer' = [buffer EXCEPT ![tail] = ItemOf(w, todo[w])]
  /\ tail' = (tail + 1) % Capacity
  /\ Goto(w, "a_publish")
  /\ UNCHANGED <<head, size, headLock, tailLock, todo, out>>

Publish(w) ==
  /\ pc[w] = "a_publish"
  /\ size' = size + 1
  /\ Goto(w, "a_notify")
  /\ UNCHANGED <<buffer, head, tail, headLock, tailLock, todo, out>>

\* Mutant: only the first item of an empty queue is announced.
NotifyIfFirst(w) ==
  /\ pc[w] = "a_notify"
  /\ IF size = 1 THEN NotifyOne(w, "r_waiting", "r_relock", "a_unlock") ELSE Goto(w, "a_unlock")
  /\ UNCHANGED <<buffer, head, tail, size, headLock, tailLock, todo, out>>

NotifyNotEmpty(w) ==
  /\ pc[w] = "a_notify"
  /\ NotifyOne(w, "r_waiting", "r_relock", "a_unlock")
  /\ UNCHANGED <<buffer, head, tail, size, headLock, tailLock, todo, out>>

UnlockTail(w) ==
  /\ pc[w] = "a_unlock"
  /\ tailLock' = Nobody
  /\ Goto(w, "idle")
  /\ UNCHANGED <<buffer, head, tail, size, headLock, todo, out>>

(* remove() *)

LockHead(w) ==
  /\ \/ pc[w] = "idle" /\ todo[w] # <<>> /\ Head(todo[w]) = "remove"
        /\ todo' = [todo EXCEPT ![w] = Tail(@)]
     \/ pc[w] = "r_relock" /\ UNCHANGED todo
  /\ headLock = Nobody
  /\ headLock' = w
  /\ Goto(w, "r_check")
  /\ UNCHANGED <<buffer, head, tail, size, tailLock, out>>

CheckNotEmpty(w) ==
  /\ pc[w] = "r_check"
  /\ Goto(w, IF size > 0 THEN "r_read" ELSE "r_sleep")
  /\ UNCHANGED <<buffer, head, tail, size, headLock, tailLock, todo, out>>

SleepNotEmpty(w) ==
  /\ pc[w] = "r_sleep"
  /\ headLock' = Nobody
  /\ Goto(w, "r_waiting")
  /\ UNCHANGED <<buffer, head, tail, size, tailLock, todo, out>>

ReadSlot(w) ==
  /\ pc[w] = "r_read"
  /\ out' = [out EXCEPT ![w] = buffer[head]]
  /\ head' = (head + 1) % Capacity
  /\ Goto(w, "r_release")
  /\ UNCHANGED <<buffer, tail, size, headLock, tailLock, todo>>

\* Mutant: the decrement is lost.
ReleaseNothing(w) ==
  /\ pc[w] = "r_release"
  /\ Goto(w, "r_notify")
  /\ UNCHANGED <<buffer, head, tail, size, headLock, tailLock, todo, out>>

Release(w) ==
  /\ pc[w] = "r_release"
  /\ size' = size - 1
  /\ Goto(w, "r_notify")
  /\ UNCHANGED <<buffer, head, tail, headLock, tailLock, todo, out>>

NotifyNotFull(w) ==
  /\ pc[w] = "r_notify"
  /\ NotifyOne(w, "a_waiting", "a_relock", "r_unlock")
  /\ UNCHANGED <<buffer, head, tail, size, headLock, tailLock, todo, out>>

UnlockHead(w) ==
  /\ pc[w] = "r_unlock"
  /\ headLock' = Nobody
  /\ Goto(w, "idle")
  /\ UNCHANGED <<buffer, head, tail, size, tailLock, todo, out>>

\* A condition variable may wake a sleeper without any notification.
SpuriousWakeup(w) ==
  /\ \/ pc[w] = "a_waiting" /\ Goto(w, "a_relock")
     \/ pc[w] = "r_waiting" /\ Goto(w, "r_relock")
  /\ UNCHANGED <<buffer, head, tail, size, headLock, tailLock, todo, out>>
-----------------------------------------------------------------------------
Lock(w) == LockTail(w) \/ LockHead(w)

Work(w) == \/ CheckNotFull(w) \/ SleepNotFull(w) \/ WriteSlot(w)
           \/ Publish(w) \/ NotifyNotEmpty(w) \/ UnlockTail(w)
           \/ CheckNotEmpty(w) \/ SleepNotEmpty(w) \/ ReadSlot(w)
           \/ Release(w) \/ NotifyNotFull(w) \/ UnlockHead(w)

Next == \E w \in Workers : Lock(w) \/ Work(w) \/ SpuriousWakeup(w)

Spec == Init /\ [][Next]_vars
-----------------------------------------------------------------------------
\* An item has been written but not counted; one has been read but is counted.
Coming == IF \E w \in Workers : pc[w] = "a_publish" THEN 1 ELSE 0
Leaving == IF \E w \in Workers : pc[w] = "r_release" THEN 1 ELSE 0

\* The queue as its callers see it: add() takes effect when size grows,
\* remove() when the slot is read, a moment before size shrinks.
Contents == [i \in 1..(size - Leaving) |-> buffer[(head + i - 1) % Capacity]]

\* add() and remove() behave as those of a bounded first-in first-out queue.
Fifo == INSTANCE FifoQueue WITH items <- Contents, taken <- out
RefinesFifo == Fifo!Spec

\* The slot a producer overwrites is never the one a consumer reads, although
\* the two hold different mutexes: neither has a torn or stale item.
SlotsDisjoint ==
  \A p, c \in Workers : pc[p] = "a_write" /\ pc[c] = "r_read" => head # tail

\* size, head and tail, each guarded by a different lock or by none, agree:
\* the distance from head to tail is size, up to the item being moved, and size
\* never leaves 0 .. Capacity.
CountersAgree ==
  /\ size \in 0..Capacity
  /\ (head + size + Coming) % Capacity = (tail + Leaving) % Capacity

\* The items, and the free slots, that some worker is on its way to use: it is
\* awake and has still to look, or has looked and found one, or it is about to
\* be notified.
At(labels) == Cardinality({w \in Workers : pc[w] \in labels})
Asleep(label) == \E w \in Workers : pc[w] = label

ItemsAttended ==
  Asleep("r_waiting") => size <= At({"r_relock", "r_check", "r_read", "r_release", "a_notify"})
SlotsAttended ==
  Asleep("a_waiting") =>
    Capacity - size <= At({"a_relock", "a_check", "a_write", "a_publish", "r_notify"})

\* A worker is left asleep beside an item, or a free slot, that nobody will use
\* only because it fell asleep on an answer that was no longer true: between
\* the predicate and the sleep it holds the wrong mutex to keep the other side
\* from changing size and notifying nobody.  Wherever else the notification
\* falls, it is not lost.
WakeupsAreLostOnlyFallingAsleep ==
  [][/\ ItemsAttended /\ ~ItemsAttended' =>
          \E w \in Workers : pc[w] = "r_sleep" /\ pc'[w] = "r_waiting" /\ size > 0
     /\ SlotsAttended /\ ~SlotsAttended' =>
          \E w \in Workers : pc[w] = "a_sleep" /\ pc'[w] = "a_waiting" /\ size < Capacity]_vars
-----------------------------------------------------------------------------
(* What always holds of the queue; BlockingQueueProofs proves that it does. *)

TailLabels == {"a_check", "a_sleep", "a_write", "a_publish", "a_notify", "a_unlock"}
HeadLabels == {"r_check", "r_sleep", "r_read", "r_release", "r_notify", "r_unlock"}
Labels == TailLabels \cup HeadLabels
            \cup {"idle", "a_waiting", "a_relock", "r_waiting", "r_relock"}

TypeOK ==
  /\ buffer \in [Slots -> Items \cup {NoItem}]
  /\ head \in Slots /\ tail \in Slots /\ size \in 0..Capacity
  /\ headLock \in Workers \cup {Nobody} /\ tailLock \in Workers \cup {Nobody}
  /\ todo \in [Workers -> Seq(Ops)] /\ \A w \in Workers : Len(todo[w]) <= OpsPerThread
  /\ pc \in [Workers -> Labels]
  /\ out \in [Workers -> Items \cup {NoItem}]

\* Whoever is between lock and unlock has the mutex.
LocksInv ==
  \A w \in Workers : /\ pc[w] \in TailLabels => tailLock = w
                     /\ pc[w] \in HeadLabels => headLock = w

\* What a worker has found stays true until it has used it: the other side
\* only makes more room, or more items.
RoomInv ==
  \A w \in Workers : /\ pc[w] \in {"a_write", "a_publish"} => size < Capacity
                     /\ pc[w] \in {"r_read", "r_release"} => size > 0

\* The slot i places after the next one to read.
SlotAt(i) == (head + i) % Capacity

\* There are items in the slots of the queue, the one being added included.
ItemsInv == \A i \in 0..(size - Leaving + Coming - 1) : buffer[SlotAt(i)] \in Items

IInv == TypeOK /\ LocksInv /\ RoomInv /\ CountersAgree /\ ItemsInv
=============================================================================
