------------------------ MODULE BlockingQueueProofs ------------------------
(***************************************************************************)
(* BlockingQueue keeps producers and consumers apart, its counters agree,  *)
(* and it implements FifoQueue: for any set of workers, any capacity and   *)
(* any workload.                                                           *)
(***************************************************************************)
EXTENDS BlockingQueue, RingArithmetic, SequenceTheorems, FiniteSetTheorems

\* Once around the ring at most.
LEMMA Wrap ==
  ASSUME NEW n \in 0..(2 * Capacity - 1)
  PROVE  n % Capacity = IF n < Capacity THEN n ELSE n - Capacity
<1>1. Capacity \in Nat /\ Capacity > 0 /\ n \in Nat
  BY CapacityAssumption
<1>2. CASE n < Capacity
  <2>1. n = Capacity * 0 + n /\ 0 \in Int /\ n \in 0..(Capacity - 1)
    BY <1>1, <1>2, SMT
  <2> QED BY <1>1, <1>2, <2>1, ModIs
<1>3. CASE n >= Capacity
  <2>1. n = Capacity * 1 + (n - Capacity) /\ 1 \in Int /\ n - Capacity \in 0..(Capacity - 1)
    BY <1>1, <1>3, SMT
  <2>2. n % Capacity = n - Capacity
    BY <1>1, <2>1, ModIs
  <2> QED BY <1>1, <1>3, <2>2
<1> QED BY <1>1, <1>2, <1>3

LEMMA SlotAtIs ==
  ASSUME head \in Slots, NEW i \in 0..(Capacity - 1)
  PROVE  /\ SlotAt(i) \in Slots
         /\ SlotAt(i) = IF head + i < Capacity THEN head + i ELSE (head + i) - Capacity
<1>1. Capacity \in Nat /\ Capacity > 0
  BY CapacityAssumption
<1>2. head + i \in 0..(2 * Capacity - 1)
  BY <1>1 DEF Slots
<1>3. SlotAt(i) = IF head + i < Capacity THEN head + i ELSE (head + i) - Capacity
  BY <1>2, Wrap DEF SlotAt
<1> QED BY <1>1, <1>3 DEF Slots

LEMMA Flags ==
  /\ Coming \in {0, 1} /\ Leaving \in {0, 1}
  /\ Coming = 1 <=> \E w \in Workers : pc[w] = "a_publish"
  /\ Leaving = 1 <=> \E w \in Workers : pc[w] = "r_release"
BY DEF Coming, Leaving

\* CountersAgree without remainders: the next slot to write is the one after
\* the items.
LEMMA TailIs ==
  ASSUME IInv
  PROVE  /\ Capacity \in Nat \ {0} /\ head \in 0..(Capacity - 1) /\ tail \in 0..(Capacity - 1)
         /\ Coming \in {0, 1} /\ Leaving \in {0, 1}
         /\ size \in Nat /\ size - Leaving >= 0 /\ size + Coming <= Capacity
         /\ LET n == (head + (size - Leaving)) + Coming
            IN tail = IF n < Capacity THEN n ELSE n - Capacity
<1> USE DEF IInv, TypeOK
<1>1. Capacity \in Nat \ {0} /\ head \in 0..(Capacity - 1) /\ tail \in 0..(Capacity - 1)
  BY CapacityAssumption DEF Slots
<1>2. Coming \in {0, 1} /\ Leaving \in {0, 1}
  BY Flags
<1>3. size \in Nat /\ size - Leaving >= 0 /\ size + Coming <= Capacity
  <2>1. Leaving = 1 => size > 0
    BY Flags DEF RoomInv
  <2>2. Coming = 1 => size < Capacity
    BY Flags DEF RoomInv
  <2> QED BY <1>1, <1>2, <2>1, <2>2
<1> DEFINE a == head + size + Coming
           b == tail + Leaving
<1>4. a \in 0..(2 * Capacity - 1) /\ b \in 0..(2 * Capacity - 1)
  BY <1>1, <1>2, <1>3
<1>5. a % Capacity = b % Capacity
  BY DEF CountersAgree
<1>6. a % Capacity = IF a < Capacity THEN a ELSE a - Capacity
  BY <1>4, Wrap
<1>7. b % Capacity = IF b < Capacity THEN b ELSE b - Capacity
  BY <1>4, Wrap
<1>8. (IF a < Capacity THEN a ELSE a - Capacity) = (IF b < Capacity THEN b ELSE b - Capacity)
  BY <1>5, <1>6, <1>7
<1>9. LET n == (head + (size - Leaving)) + Coming
      IN tail = IF n < Capacity THEN n ELSE n - Capacity
  BY <1>1, <1>2, <1>3, <1>8
<1> QED BY <1>1, <1>2, <1>3, <1>9

\* The converse, for the state after a step.
LEMMA SameSlot ==
  ASSUME NEW a \in 0..(2 * Capacity - 1), NEW b \in 0..(2 * Capacity - 1),
         (IF a < Capacity THEN a ELSE a - Capacity) = (IF b < Capacity THEN b ELSE b - Capacity)
  PROVE  a % Capacity = b % Capacity
BY Wrap

LEMMA InitInv == Init => IInv
<1> SUFFICES ASSUME Init PROVE IInv
  OBVIOUS
<1> USE DEF Init
<1>1. Capacity \in Nat \ {0} /\ Prefill \in 0..Capacity
  BY CapacityAssumption, PrefillAssumption
<1>2. tail = IF Prefill < Capacity THEN Prefill ELSE Prefill - Capacity
  <2>1. Prefill \in 0..(2 * Capacity - 1)
    BY <1>1
  <2> QED BY <2>1, Wrap
<1>3. TypeOK
  <2>1. buffer \in [Slots -> Items \cup {NoItem}]
    BY DEF PrefilledBuffer, Items
  <2>2. head \in Slots /\ tail \in Slots
    BY <1>1, <1>2 DEF Slots
  <2>3. todo \in [Workers -> Seq(Ops)] /\ \A w \in Workers : Len(todo[w]) <= OpsPerThread
    <3>1. todo \in [Workers -> [1..OpsPerThread -> Ops]] /\ OpsPerThread \in Nat
      BY WorkloadsAssumption
    <3>2. ASSUME NEW w \in Workers
          PROVE  todo[w] \in Seq(Ops) /\ Len(todo[w]) = OpsPerThread
      BY <3>1
    <3> QED BY <3>1, <3>2
  <2> QED BY <1>1, <2>1, <2>2, <2>3 DEF TypeOK, Labels
<1>4. Coming = 0 /\ Leaving = 0
  BY DEF Coming, Leaving
<1>5. LocksInv /\ RoomInv
  BY DEF LocksInv, RoomInv, TailLabels, HeadLabels
<1>6. CountersAgree
  <2>1. tail \in 0..(Capacity - 1)
    BY <1>3 DEF TypeOK, Slots
  <2>2. /\ Prefill \in 0..(2 * Capacity - 1) /\ tail \in 0..(2 * Capacity - 1)
        /\ (IF Prefill < Capacity THEN Prefill ELSE Prefill - Capacity)
             = (IF tail < Capacity THEN tail ELSE tail - Capacity)
    BY <1>1, <1>2, <2>1
  <2>3. Prefill % Capacity = tail % Capacity
    BY <2>2, SameSlot
  <2>4. head + size + Coming = Prefill /\ tail + Leaving = tail
    BY <1>1, <1>4, <2>1
  <2> QED BY <1>1, <2>1, <2>3, <2>4 DEF CountersAgree
<1>7. ItemsInv
  <2> SUFFICES ASSUME NEW i \in 0..(Prefill - 1)
               PROVE  buffer[SlotAt(i)] \in Items
    BY <1>1, <1>4 DEF ItemsInv
  <2>1. i \in 0..(Capacity - 1) /\ i \in Slots
    BY <1>1 DEF Slots
  <2>2. SlotAt(i) = i
    BY <1>1, <1>3, <2>1, SlotAtIs DEF TypeOK
  <2> QED BY <1>1, <2>1, <2>2 DEF PrefilledBuffer, Items
<1> QED BY <1>3, <1>5, <1>6, <1>7 DEF IInv
-----------------------------------------------------------------------------
(* The steps.                                                              *)

\* Steps that touch neither the ring nor the answers of remove().
Quiet(w) ==
  \/ Lock(w) \/ SpuriousWakeup(w)
  \/ CheckNotFull(w) \/ SleepNotFull(w) \/ NotifyNotEmpty(w) \/ UnlockTail(w)
  \/ CheckNotEmpty(w) \/ SleepNotEmpty(w) \/ NotifyNotFull(w) \/ UnlockHead(w)

LEMMA QuietType ==
  ASSUME TypeOK, NEW w \in Workers, Quiet(w)
  PROVE  TypeOK'
<1> USE DEF TypeOK, Goto, Labels, TailLabels, HeadLabels
<1>1. CASE Lock(w)
  <2>1. /\ todo' \in [Workers -> Seq(Ops)]
        /\ \A u \in Workers : Len(todo'[u]) <= OpsPerThread
    <3>1. CASE UNCHANGED todo
      BY <3>1
    <3>2. CASE todo[w] # <<>> /\ todo' = [todo EXCEPT ![w] = Tail(@)]
      <4>1. todo[w] \in Seq(Ops) /\ Len(todo[w]) <= OpsPerThread /\ OpsPerThread \in Nat
        BY WorkloadsAssumption
      <4>2. Tail(todo[w]) \in Seq(Ops) /\ Len(Tail(todo[w])) <= OpsPerThread
        BY <3>2, <4>1
      <4> QED BY <3>2, <4>2
    <3> QED BY <1>1, <3>1, <3>2 DEF Lock, LockTail, LockHead
  <2>2. /\ UNCHANGED <<buffer, head, tail, size, out>>
        /\ pc' \in [Workers -> Labels]
        /\ headLock' \in Workers \cup {Nobody} /\ tailLock' \in Workers \cup {Nobody}
    BY <1>1 DEF Lock, LockTail, LockHead
  <2> QED BY <2>1, <2>2
<1>2. CASE ~Lock(w)
  <2>1. UNCHANGED <<buffer, head, tail, size, todo, out>>
    BY <1>2 DEF Quiet, SpuriousWakeup, CheckNotFull, SleepNotFull, NotifyNotEmpty, UnlockTail,
                CheckNotEmpty, SleepNotEmpty, NotifyNotFull, UnlockHead
  <2>2. headLock' \in Workers \cup {Nobody} /\ tailLock' \in Workers \cup {Nobody}
    BY <1>2 DEF Quiet, SpuriousWakeup, CheckNotFull, SleepNotFull, NotifyNotEmpty, UnlockTail,
                CheckNotEmpty, SleepNotEmpty, NotifyNotFull, UnlockHead
  <2>3. pc' \in [Workers -> Labels]
    BY <1>2 DEF Quiet, SpuriousWakeup, CheckNotFull, SleepNotFull, NotifyNotEmpty, UnlockTail,
                CheckNotEmpty, SleepNotEmpty, NotifyNotFull, UnlockHead, NotifyOne
  <2> QED BY <2>1, <2>2, <2>3
<1> QED BY <1>1, <1>2

\* A mutex is handed over, or its owner goes on; a notified sleeper has none.
LEMMA QuietLocks ==
  ASSUME TypeOK, LocksInv, NEW w \in Workers, Quiet(w)
  PROVE  LocksInv'
<1> USE NobodyAssumption DEF TypeOK, LocksInv, Goto, TailLabels, HeadLabels
<1>1. CASE LockTail(w)
  BY <1>1 DEF LockTail
<1>2. CASE LockHead(w)
  BY <1>2 DEF LockHead
<1>3. CASE SpuriousWakeup(w) \/ CheckNotFull(w) \/ CheckNotEmpty(w)
  BY <1>3 DEF SpuriousWakeup, CheckNotFull, CheckNotEmpty
<1>4. CASE SleepNotFull(w) \/ UnlockTail(w)
  BY <1>4 DEF SleepNotFull, UnlockTail
<1>5. CASE SleepNotEmpty(w) \/ UnlockHead(w)
  BY <1>5 DEF SleepNotEmpty, UnlockHead
<1>6. CASE NotifyNotEmpty(w)
  BY <1>6 DEF NotifyNotEmpty, NotifyOne
<1>7. CASE NotifyNotFull(w)
  BY <1>7 DEF NotifyNotFull, NotifyOne
<1> QED BY <1>1, <1>2, <1>3, <1>4, <1>5, <1>6, <1>7 DEF Quiet, Lock

\* What a quiet step leaves as it is.
LEMMA QuietEffect ==
  ASSUME TypeOK, NEW w \in Workers, Quiet(w)
  PROVE  /\ UNCHANGED <<buffer, head, tail, size, out>>
         /\ \A u \in Workers :
              /\ pc'[u] = "a_publish" <=> pc[u] = "a_publish"
              /\ pc'[u] = "r_release" <=> pc[u] = "r_release"
              /\ pc'[u] = "a_write" => pc[u] = "a_write" \/ size < Capacity
              /\ pc'[u] = "r_read" => pc[u] = "r_read" \/ size > 0
<1> USE DEF TypeOK, Goto
<1>1. CASE Lock(w)
  BY <1>1 DEF Lock, LockTail, LockHead
<1>2. CASE SpuriousWakeup(w) \/ CheckNotFull(w) \/ CheckNotEmpty(w)
  BY <1>2 DEF SpuriousWakeup, CheckNotFull, CheckNotEmpty
<1>3. CASE SleepNotFull(w) \/ UnlockTail(w) \/ SleepNotEmpty(w) \/ UnlockHead(w)
  BY <1>3 DEF SleepNotFull, UnlockTail, SleepNotEmpty, UnlockHead
<1>4. CASE NotifyNotEmpty(w) \/ NotifyNotFull(w)
  BY <1>4 DEF NotifyNotEmpty, NotifyNotFull, NotifyOne
<1> QED BY <1>1, <1>2, <1>3, <1>4 DEF Quiet

LEMMA QuietSteps ==
  ASSUME IInv, NEW w \in Workers, Quiet(w)
  PROVE  IInv' /\ UNCHANGED <<Contents, out>>
<1> USE DEF IInv
<1>1. TypeOK' /\ LocksInv'
  BY QuietType, QuietLocks
<1>2. /\ UNCHANGED <<buffer, head, tail, size, out>>
      /\ \A u \in Workers :
           /\ pc'[u] = "a_publish" <=> pc[u] = "a_publish"
           /\ pc'[u] = "r_release" <=> pc[u] = "r_release"
           /\ pc'[u] = "a_write" => pc[u] = "a_write" \/ size < Capacity
           /\ pc'[u] = "r_read" => pc[u] = "r_read" \/ size > 0
  BY QuietEffect
<1>3. Coming' = Coming /\ Leaving' = Leaving
  BY <1>2 DEF Coming, Leaving
<1>4. RoomInv'
  BY <1>2 DEF RoomInv
<1>5. CountersAgree' /\ ItemsInv'
  BY <1>2, <1>3 DEF CountersAgree, ItemsInv, SlotAt
<1>6. UNCHANGED Contents
  BY <1>2, <1>3 DEF Contents
<1> QED BY <1>1, <1>2, <1>4, <1>5, <1>6

\* Different places of the queue are different slots.
LEMMA SlotsDiffer ==
  ASSUME head \in Slots, NEW i \in 0..(Capacity - 1), NEW j \in 0..(Capacity - 1), i # j
  PROVE  SlotAt(i) # SlotAt(j)
<1>1. Capacity \in Nat /\ head \in 0..(Capacity - 1)
  BY CapacityAssumption DEF Slots
<1>2. /\ SlotAt(i) = IF head + i < Capacity THEN head + i ELSE (head + i) - Capacity
      /\ SlotAt(j) = IF head + j < Capacity THEN head + j ELSE (head + j) - Capacity
  BY SlotAtIs
<1> QED BY <1>1, <1>2

\* The queue as a sequence of items.
LEMMA ContentsIs ==
  ASSUME IInv
  PROVE  /\ size - Leaving \in Nat
         /\ Contents \in [1..(size - Leaving) -> Items]
         /\ Contents \in Seq(Items) /\ Len(Contents) = size - Leaving
         /\ \A i \in 1..(size - Leaving) : Contents[i] = buffer[SlotAt(i - 1)]
<1>1. /\ size - Leaving \in Nat /\ Coming \in {0, 1}
      /\ size \in Nat /\ Leaving \in {0, 1} /\ head \in 0..(Capacity - 1)
  BY TailIs
<1>2. ASSUME NEW i \in 1..(size - Leaving)
      PROVE  /\ buffer[(head + i - 1) % Capacity] = buffer[SlotAt(i - 1)]
             /\ buffer[SlotAt(i - 1)] \in Items
  <2>1. i - 1 \in 0..(size - Leaving + Coming - 1) /\ head + i - 1 = head + (i - 1)
    BY <1>1
  <2>2. buffer[SlotAt(i - 1)] \in Items
    BY <2>1 DEF IInv, ItemsInv
  <2> QED BY <2>1, <2>2 DEF SlotAt
<1>3. Contents \in [1..(size - Leaving) -> Items]
  BY <1>2 DEF Contents
<1>4. \A i \in 1..(size - Leaving) : Contents[i] = buffer[SlotAt(i - 1)]
  BY <1>2 DEF Contents
<1> QED BY <1>1, <1>3, <1>4

\* A worker at a label of its mutex is the only one there.
LEMMA Alone ==
  ASSUME LocksInv, NEW w \in Workers, NEW u \in Workers, u # w
  PROVE  /\ pc[w] \in TailLabels => pc[u] \notin TailLabels
         /\ pc[w] \in HeadLabels => pc[u] \notin HeadLabels
BY DEF LocksInv

\* add() writes the free slot behind the items; nobody sees it yet.
LEMMA WriteStep ==
  ASSUME IInv, NEW w \in Workers, WriteSlot(w)
  PROVE  IInv' /\ UNCHANGED <<Contents, out>>
<1> USE DEF IInv
<1> DEFINE item == ItemOf(w, todo[w])
           n == size - Leaving
<1>1. /\ pc[w] = "a_write" /\ pc' = [pc EXCEPT ![w] = "a_publish"]
      /\ buffer' = [buffer EXCEPT ![tail] = item] /\ tail' = (tail + 1) % Capacity
      /\ UNCHANGED <<head, size, headLock, tailLock, todo, out>>
      /\ size < Capacity
  BY DEF WriteSlot, Goto, RoomInv
<1>2. \A u \in Workers : u # w => pc'[u] = pc[u] /\ pc[u] \notin TailLabels
  BY <1>1, Alone DEF TypeOK, TailLabels
<1>3. pc'[w] = "a_publish"
  BY <1>1 DEF TypeOK
<1>4. Coming = 0 /\ Coming' = 1 /\ Leaving' = Leaving
  BY <1>1, <1>2, <1>3 DEF Coming, Leaving, TailLabels
<1>5. /\ Capacity \in Nat \ {0} /\ head \in 0..(Capacity - 1) /\ tail \in 0..(Capacity - 1)
      /\ Leaving \in {0, 1} /\ size \in Nat /\ n \in 0..(Capacity - 1)
      /\ tail = IF head + n < Capacity THEN head + n ELSE (head + n) - Capacity
  BY <1>1, <1>4, TailIs
<1>6. tail = SlotAt(n)
  BY <1>5, SlotAtIs DEF Slots
<1>7. tail' = IF tail + 1 < Capacity THEN tail + 1 ELSE (tail + 1) - Capacity
  <2>1. tail + 1 \in 0..(2 * Capacity - 1)
    BY <1>5
  <2> QED BY <1>1, <2>1, Wrap
<1>8. item \in Items
  <2>1. Len(todo[w]) \in Nat /\ Len(todo[w]) <= OpsPerThread /\ OpsPerThread \in Nat
    BY WorkloadsAssumption DEF TypeOK
  <2> QED BY <2>1 DEF ItemOf, Items
<1>9. TypeOK'
  <2>1. tail' \in Slots
    BY <1>5, <1>7 DEF Slots
  <2>2. buffer' \in [Slots -> Items \cup {NoItem}]
    BY <1>1, <1>8 DEF TypeOK
  <2> QED BY <1>1, <2>1, <2>2 DEF TypeOK, Labels, TailLabels
<1>10. LocksInv' /\ RoomInv'
  BY <1>1, <1>2, <1>3 DEF LocksInv, RoomInv, TailLabels, HeadLabels, TypeOK
<1>11. CountersAgree'
  <2> DEFINE a == head + size + 1
             b == tail' + Leaving
  <2>1. /\ a \in 0..(2 * Capacity - 1) /\ b \in 0..(2 * Capacity - 1)
        /\ (IF a < Capacity THEN a ELSE a - Capacity) = (IF b < Capacity THEN b ELSE b - Capacity)
    BY <1>1, <1>5, <1>7
  <2>2. a % Capacity = b % Capacity
    <3> HIDE DEF a, b
    <3> QED BY <2>1, SameSlot
  <2> QED BY <1>1, <1>4, <1>5, <2>2 DEF CountersAgree
<1>12. \A i \in 0..(n - 1) : buffer'[SlotAt(i)] = buffer[SlotAt(i)]
  <2> SUFFICES ASSUME NEW i \in 0..(n - 1) PROVE buffer'[SlotAt(i)] = buffer[SlotAt(i)]
    OBVIOUS
  <2>1. i \in 0..(Capacity - 1) /\ i # n
    BY <1>5
  <2>2. SlotAt(i) \in Slots /\ SlotAt(i) # tail
    BY <1>5, <1>6, <2>1, SlotAtIs, SlotsDiffer DEF Slots
  <2> QED BY <1>1, <2>2 DEF TypeOK
<1>13. ItemsInv'
  <2> SUFFICES ASSUME NEW i \in 0..n PROVE buffer'[SlotAt(i)] \in Items
    BY <1>1, <1>4, <1>5 DEF ItemsInv, SlotAt
  <2>1. CASE i = n
    BY <1>1, <1>5, <1>6, <1>8, <2>1 DEF TypeOK, Slots
  <2>2. CASE i # n
    <3>1. i \in 0..(n - 1) /\ i \in 0..(size - Leaving + Coming - 1)
      BY <1>4, <1>5, <2>2
    <3> QED BY <1>12, <3>1 DEF ItemsInv
  <2> QED BY <2>1, <2>2
<1>14. UNCHANGED Contents
  <2>1. \A i \in 1..n : buffer'[(head + i - 1) % Capacity] = buffer[(head + i - 1) % Capacity]
    <3> SUFFICES ASSUME NEW i \in 1..n
                 PROVE  buffer'[(head + i - 1) % Capacity] = buffer[(head + i - 1) % Capacity]
      OBVIOUS
    <3>1. i - 1 \in 0..(n - 1) /\ head + i - 1 = head + (i - 1)
      BY <1>5
    <3> QED BY <1>12, <3>1 DEF SlotAt
  <2> QED BY <1>1, <1>4, <2>1 DEF Contents
<1> QED BY <1>1, <1>9, <1>10, <1>11, <1>13, <1>14

\* add() takes effect: the item written joins the queue.
LEMMA PublishStep ==
  ASSUME IInv, NEW w \in Workers, Publish(w)
  PROVE  IInv' /\ Fifo!Add
<1> USE DEF IInv
<1> DEFINE n == size - Leaving
<1>1. /\ pc[w] = "a_publish" /\ pc' = [pc EXCEPT ![w] = "a_notify"]
      /\ size' = size + 1
      /\ UNCHANGED <<buffer, head, tail, headLock, tailLock, todo, out>>
      /\ size < Capacity
  BY DEF Publish, Goto, RoomInv
<1>2. \A u \in Workers : u # w => pc'[u] = pc[u] /\ pc[u] \notin TailLabels
  BY <1>1, Alone DEF TypeOK, TailLabels
<1>3. pc'[w] = "a_notify"
  BY <1>1 DEF TypeOK
<1>4. Coming = 1 /\ Coming' = 0 /\ Leaving' = Leaving
  BY <1>1, <1>2, <1>3 DEF Coming, Leaving, TailLabels
<1>5. /\ Capacity \in Nat \ {0} /\ head \in 0..(Capacity - 1) /\ tail \in 0..(Capacity - 1)
      /\ Leaving \in {0, 1} /\ size \in Nat /\ n \in 0..(Capacity - 1)
      /\ LET m == (head + n) + 1 IN tail = IF m < Capacity THEN m ELSE m - Capacity
  BY <1>1, <1>4, TailIs
<1>6. TypeOK'
  BY <1>1, <1>5 DEF TypeOK, Labels, TailLabels
<1>7. LocksInv' /\ RoomInv'
  <2>1. LocksInv'
    BY <1>1, <1>2, <1>3 DEF LocksInv, TailLabels, HeadLabels
  <2>2. RoomInv'
    BY <1>1, <1>2, <1>3, <1>5 DEF RoomInv, TailLabels
  <2> QED BY <2>1, <2>2
<1>8. CountersAgree'
  <2> DEFINE a == (head + (size + 1)) + 0
             b == tail + Leaving
  <2>1. /\ a \in 0..(2 * Capacity - 1) /\ b \in 0..(2 * Capacity - 1)
        /\ (IF a < Capacity THEN a ELSE a - Capacity) = (IF b < Capacity THEN b ELSE b - Capacity)
    BY <1>1, <1>5
  <2>2. a % Capacity = b % Capacity
    <3> HIDE DEF a, b
    <3> QED BY <2>1, SameSlot
  <2> QED BY <1>1, <1>4, <1>5, <2>2 DEF CountersAgree
<1>9. ItemsInv'
  <2>1. size' - Leaving' + Coming' - 1 = size - Leaving + Coming - 1
    BY <1>1, <1>4, <1>5
  <2> QED BY <1>1, <2>1 DEF ItemsInv, SlotAt
<1>10. IInv'
  BY <1>6, <1>7, <1>8, <1>9
<1>11. Fifo!Add
  <2>1. /\ Contents \in [1..n -> Items] /\ Contents \in Seq(Items) /\ Len(Contents) = n
        /\ \A i \in 1..n : Contents[i] = buffer[SlotAt(i - 1)]
    BY ContentsIs
  <2>2. /\ size' - Leaving' = n + 1
        /\ Contents' \in [1..(n + 1) -> Items] /\ Contents' \in Seq(Items)
        /\ \A i \in 1..(n + 1) : Contents'[i] = buffer[SlotAt(i - 1)]
    <3>1. size' - Leaving' = n + 1
      BY <1>1, <1>4, <1>5
    <3>2. \A i \in 1..(n + 1) : /\ buffer'[(head' + i - 1) % Capacity] = buffer[SlotAt(i - 1)]
                               /\ buffer[SlotAt(i - 1)] \in Items
      <4> SUFFICES ASSUME NEW i \in 1..(n + 1)
                   PROVE  /\ buffer'[(head' + i - 1) % Capacity] = buffer[SlotAt(i - 1)]
                          /\ buffer[SlotAt(i - 1)] \in Items
        OBVIOUS
      <4>1. i - 1 \in 0..(size - Leaving + Coming - 1) /\ head + i - 1 = head + (i - 1)
        BY <1>4, <1>5
      <4>2. buffer[SlotAt(i - 1)] \in Items
        BY <4>1 DEF ItemsInv
      <4> QED BY <1>1, <4>1, <4>2 DEF SlotAt
    <3>3. Contents' = [i \in 1..(n + 1) |-> buffer[SlotAt(i - 1)]]
      BY <3>1, <3>2 DEF Contents
    <3>4. Contents' \in [1..(n + 1) -> Items]
      BY <3>2, <3>3
    <3>5. \A i \in 1..(n + 1) : Contents'[i] = buffer[SlotAt(i - 1)]
      BY <3>3
    <3>6. n + 1 \in Nat
      BY <1>5
    <3> HIDE DEF n
    <3> QED BY <3>1, <3>4, <3>5, <3>6
  <2>3. Contents' = Append(Contents, Contents'[n + 1]) /\ Contents'[n + 1] \in Items
    BY <1>5, <2>1, <2>2, SMTT(30)
  <2>4. Len(Contents) < Capacity
    BY <1>5, <2>1
  <2> QED BY <1>1, <2>3, <2>4 DEF Fifo!Add
<1> QED BY <1>10, <1>11

LEMMA Rest ==
  ASSUME NEW S, NEW q \in Seq(S), q # <<>>
  PROVE  Tail(q) = [i \in 1..(Len(q) - 1) |-> q[i + 1]]
<1>1. /\ Tail(q) \in Seq(S) /\ Len(Tail(q)) = Len(q) - 1
      /\ \A i \in 1..Len(Tail(q)) : Tail(q)[i] = q[i + 1]
  BY HeadTailProperties
<1>2. \A r : r \in Seq(S) => r = [i \in 1..Len(r) |-> r[i]]
  OBVIOUS
<1>3. Tail(q) = [i \in 1..Len(Tail(q)) |-> Tail(q)[i]]
  BY <1>1, <1>2
<1> QED BY <1>1, <1>3

\* remove() takes effect: the oldest item is read and leaves the queue.
LEMMA ReadStep ==
  ASSUME IInv, NEW w \in Workers, ReadSlot(w)
  PROVE  IInv' /\ Fifo!Remove(w)
<1> USE DEF IInv
<1> DEFINE n == size - Leaving
<1>1. /\ pc[w] = "r_read" /\ pc' = [pc EXCEPT ![w] = "r_release"]
      /\ out' = [out EXCEPT ![w] = buffer[head]] /\ head' = (head + 1) % Capacity
      /\ UNCHANGED <<buffer, tail, size, headLock, tailLock, todo>>
      /\ size > 0
  BY DEF ReadSlot, Goto, RoomInv
<1>2. \A u \in Workers : u # w => pc'[u] = pc[u] /\ pc[u] \notin HeadLabels
  BY <1>1, Alone DEF TypeOK, HeadLabels
<1>3. pc'[w] = "r_release"
  BY <1>1 DEF TypeOK
<1>4. Leaving = 0 /\ Leaving' = 1 /\ Coming' = Coming
  BY <1>1, <1>2, <1>3 DEF Coming, Leaving, HeadLabels
<1>5. /\ Capacity \in Nat \ {0} /\ head \in 0..(Capacity - 1) /\ tail \in 0..(Capacity - 1)
      /\ Coming \in {0, 1} /\ size \in Nat /\ n = size /\ size + Coming <= Capacity
      /\ LET m == (head + size) + Coming IN tail = IF m < Capacity THEN m ELSE m - Capacity
  BY <1>1, <1>4, TailIs
<1>6. head' = IF head + 1 < Capacity THEN head + 1 ELSE (head + 1) - Capacity
  <2>1. head + 1 \in 0..(2 * Capacity - 1)
    BY <1>5
  <2> QED BY <1>1, <2>1, Wrap
<1>7. head' \in Slots
  BY <1>5, <1>6 DEF Slots
<1>8. /\ Contents \in [1..size -> Items] /\ Contents \in Seq(Items) /\ Len(Contents) = size
      /\ \A i \in 1..size : Contents[i] = buffer[SlotAt(i - 1)]
  BY <1>5, ContentsIs
<1>9. Contents[1] = buffer[head] /\ buffer[head] \in Items
  <2>1. 1 \in 1..size /\ 0 \in 0..(Capacity - 1)
    BY <1>1, <1>5
  <2>2. SlotAt(0) = head
    BY <1>5, <2>1, SlotAtIs DEF Slots
  <2>3. Contents[1] = buffer[SlotAt(0)]
    BY <1>8, <2>1
  <2> QED BY <1>8, <2>1, <2>2, <2>3
<1>10. TypeOK'
  BY <1>1, <1>7, <1>9 DEF TypeOK, Labels, HeadLabels
<1>11. LocksInv' /\ RoomInv'
  <2>1. LocksInv'
    BY <1>1, <1>2, <1>3 DEF LocksInv, TailLabels, HeadLabels
  <2>2. RoomInv'
    BY <1>1, <1>2, <1>3 DEF RoomInv
  <2> QED BY <2>1, <2>2
<1>12. CountersAgree'
  <2> DEFINE a == head' + size + Coming
             b == tail + 1
  <2>1. /\ a \in 0..(2 * Capacity - 1) /\ b \in 0..(2 * Capacity - 1)
        /\ (IF a < Capacity THEN a ELSE a - Capacity) = (IF b < Capacity THEN b ELSE b - Capacity)
    BY <1>1, <1>5, <1>6
  <2>2. a % Capacity = b % Capacity
    <3> HIDE DEF a, b
    <3> QED BY <2>1, SameSlot
  <2>3. size' \in 0..Capacity
    BY <1>1, <1>5
  <2> QED BY <1>1, <1>4, <2>2, <2>3 DEF CountersAgree
\* The slots move up by one place.
<1>13. \A i \in 0..(Capacity - 2) : SlotAt(i)' = SlotAt(i + 1)
  <2> SUFFICES ASSUME NEW i \in 0..(Capacity - 2) PROVE SlotAt(i)' = SlotAt(i + 1)
    OBVIOUS
  <2>1. i + 1 \in 0..(Capacity - 1)
    BY <1>5
  <2>2. SlotAt(i + 1) = IF head + (i + 1) < Capacity THEN head + (i + 1)
                        ELSE (head + (i + 1)) - Capacity
    BY <1>5, <2>1, SlotAtIs DEF Slots
  <2>3. head' + i \in 0..(2 * Capacity - 1)
    BY <1>5, <1>6
  <2>4. (head' + i) % Capacity = IF head' + i < Capacity THEN head' + i
                                 ELSE (head' + i) - Capacity
    BY <2>3, Wrap
  <2>5. (head' + i) % Capacity = SlotAt(i + 1)
    <3> DEFINE s == SlotAt(i + 1)
               r == (head' + i) % Capacity
    <3>1. s = IF head + (i + 1) < Capacity THEN head + (i + 1) ELSE (head + (i + 1)) - Capacity
      BY <2>2
    <3>2. r = IF head' + i < Capacity THEN head' + i ELSE (head' + i) - Capacity
      BY <2>4
    <3> HIDE DEF s, r
    <3>3. s = r
      BY <1>5, <1>6, <3>1, <3>2
    <3> QED BY <3>3 DEF s, r
  <2> QED BY <2>5 DEF SlotAt
<1>14. ItemsInv'
  <2> SUFFICES ASSUME NEW i \in 0..(size - 1 + Coming - 1)
               PROVE  (buffer[SlotAt(i)])' \in Items
    BY <1>1, <1>4 DEF ItemsInv
  <2>1. i \in 0..(Capacity - 2) /\ i + 1 \in 0..(size - Leaving + Coming - 1)
    BY <1>4, <1>5
  <2>2. SlotAt(i)' = SlotAt(i + 1) /\ buffer[SlotAt(i + 1)] \in Items
    BY <1>13, <2>1 DEF ItemsInv
  <2> QED BY <1>1, <2>2
<1>15. IInv'
  BY <1>10, <1>11, <1>12, <1>14
<1>16. Fifo!Remove(w)
  <2>1. \A i \in 1..(size - 1) : /\ buffer'[(head' + i - 1) % Capacity] = Contents[i + 1]
                                /\ Contents[i + 1] \in Items
    <3> SUFFICES ASSUME NEW i \in 1..(size - 1)
                 PROVE  /\ buffer'[(head' + i - 1) % Capacity] = Contents[i + 1]
                        /\ Contents[i + 1] \in Items
      OBVIOUS
    <3>1. /\ i - 1 \in 0..(Capacity - 2) /\ (i - 1) + 1 = i /\ i + 1 \in 1..size
          /\ (i + 1) - 1 = i /\ head' + i - 1 = head' + (i - 1)
      BY <1>5, <1>6
    <3>2. SlotAt(i - 1)' = SlotAt(i)
      BY <1>13, <3>1
    <3>3. (head' + (i - 1)) % Capacity = SlotAt(i)
      BY <3>2 DEF SlotAt
    <3> QED BY <1>1, <1>8, <3>1, <3>3
  <2>2. Contents' = [i \in 1..(size - 1) |-> Contents[i + 1]]
    BY <1>1, <1>4, <1>5, <2>1 DEF Contents
  <2>3. Contents # <<>> /\ Contents' = Tail(Contents) /\ Head(Contents) = buffer[head]
    <3>1. Len(Contents) = size /\ size \in Nat /\ size > 0 /\ Contents \in Seq(Items)
      BY <1>1, <1>5, <1>8
    <3>2. Contents # <<>> /\ Head(Contents) = Contents[1]
      BY <3>1
    <3>3. Tail(Contents) = [i \in 1..(Len(Contents) - 1) |-> Contents[i + 1]]
      BY <3>1, <3>2, Rest
    <3> QED BY <1>9, <2>2, <3>1, <3>2, <3>3
  <2> QED BY <1>1, <2>3 DEF Fifo!Remove
<1> QED BY <1>15, <1>16

\* The slot read is counted as free: the queue, which it has left, is as before.
LEMMA ReleaseStep ==
  ASSUME IInv, NEW w \in Workers, Release(w)
  PROVE  IInv' /\ UNCHANGED <<Contents, out>>
<1> USE DEF IInv
<1>1. /\ pc[w] = "r_release" /\ pc' = [pc EXCEPT ![w] = "r_notify"]
      /\ size' = size - 1
      /\ UNCHANGED <<buffer, head, tail, headLock, tailLock, todo, out>>
      /\ size > 0
  BY DEF Release, Goto, RoomInv
<1>2. \A u \in Workers : u # w => pc'[u] = pc[u] /\ pc[u] \notin HeadLabels
  BY <1>1, Alone DEF TypeOK, HeadLabels
<1>3. pc'[w] = "r_notify"
  BY <1>1 DEF TypeOK
<1>4. Leaving = 1 /\ Leaving' = 0 /\ Coming' = Coming
  BY <1>1, <1>2, <1>3 DEF Coming, Leaving, HeadLabels
<1>5. /\ Capacity \in Nat \ {0} /\ head \in 0..(Capacity - 1) /\ tail \in 0..(Capacity - 1)
      /\ Coming \in {0, 1} /\ size \in Nat /\ size + Coming <= Capacity
      /\ LET m == (head + (size - 1)) + Coming IN tail = IF m < Capacity THEN m ELSE m - Capacity
  BY <1>1, <1>4, TailIs
<1>6. TypeOK'
  BY <1>1, <1>5 DEF TypeOK, Labels, HeadLabels
<1>7. LocksInv' /\ RoomInv'
  <2>1. LocksInv'
    BY <1>1, <1>2, <1>3 DEF LocksInv, TailLabels, HeadLabels
  <2>2. RoomInv'
    BY <1>1, <1>2, <1>3, <1>5 DEF RoomInv, HeadLabels
  <2> QED BY <2>1, <2>2
<1>8. CountersAgree'
  <2> DEFINE a == (head + (size - 1)) + Coming
  <2>1. /\ a \in 0..(2 * Capacity - 1) /\ tail \in 0..(2 * Capacity - 1)
        /\ (IF a < Capacity THEN a ELSE a - Capacity)
             = (IF tail < Capacity THEN tail ELSE tail - Capacity)
    BY <1>1, <1>5
  <2>2. a % Capacity = tail % Capacity
    <3> HIDE DEF a
    <3> QED BY <2>1, SameSlot
  <2>3. size' \in 0..Capacity /\ tail + 0 = tail
    BY <1>1, <1>5
  <2> QED BY <1>1, <1>4, <2>2, <2>3 DEF CountersAgree
<1>9. size' - Leaving' = size - Leaving /\ size' - Leaving' + Coming' - 1 = size - Leaving + Coming - 1
  BY <1>1, <1>4, <1>5
<1>10. ItemsInv'
  BY <1>1, <1>9 DEF ItemsInv, SlotAt
<1>11. UNCHANGED <<Contents, out>>
  BY <1>1, <1>9 DEF Contents
<1> QED BY <1>6, <1>7, <1>8, <1>10, <1>11
-----------------------------------------------------------------------------
(* The theorems.                                                           *)

LEMMA StutterStep ==
  ASSUME IInv, UNCHANGED vars
  PROVE  IInv' /\ UNCHANGED <<Contents, out>>
BY DEF vars, IInv, TypeOK, LocksInv, RoomInv, CountersAgree, ItemsInv, SlotAt,
       Coming, Leaving, Contents

\* Every step keeps the invariant and is one of the bounded queue, or none.
LEMMA NextStep ==
  ASSUME IInv, [Next]_vars
  PROVE  IInv' /\ [Fifo!Next]_(Fifo!vars)
<1>1. CASE UNCHANGED vars
  BY <1>1, StutterStep DEF Fifo!vars
<1>2. CASE Next
  <2> SUFFICES ASSUME NEW w \in Workers, Lock(w) \/ Work(w) \/ SpuriousWakeup(w)
               PROVE  IInv' /\ [Fifo!Next]_(Fifo!vars)
    BY <1>2 DEF Next
  <2>1. CASE Quiet(w)
    BY <2>1, QuietSteps DEF Fifo!vars
  <2>2. CASE WriteSlot(w)
    BY <2>2, WriteStep DEF Fifo!vars
  <2>3. CASE Publish(w)
    BY <2>3, PublishStep DEF Fifo!Next
  <2>4. CASE ReadSlot(w)
    BY <2>4, ReadStep DEF Fifo!Next
  <2>5. CASE Release(w)
    BY <2>5, ReleaseStep DEF Fifo!vars
  <2> QED BY <2>1, <2>2, <2>3, <2>4, <2>5 DEF Quiet, Work
<1> QED BY <1>1, <1>2

\* The invariant holds in every reachable state.
THEOREM Invariance == Spec => []IInv
BY InitInv, NextStep, PTL DEF Spec

\* blocking_queue.hpp: size, head and tail, under two mutexes and none, agree.
THEOREM CountersAlwaysAgree == Spec => []CountersAgree
BY Invariance, PTL DEF IInv

\* The slot a producer overwrites is never the one a consumer reads.
THEOREM SlotsAreDisjoint == Spec => []SlotsDisjoint
<1>1. IInv => SlotsDisjoint
  <2> SUFFICES ASSUME IInv, NEW p \in Workers, NEW c \in Workers,
                      pc[p] = "a_write", pc[c] = "r_read"
               PROVE  head # tail
    BY DEF SlotsDisjoint
  <2>1. Coming = 0 /\ Leaving = 0
    BY Alone DEF IInv, Coming, Leaving, TailLabels, HeadLabels
  <2>2. size > 0 /\ size < Capacity
    BY DEF IInv, RoomInv
  <2> QED BY <2>1, <2>2, TailIs
<1> QED BY <1>1, Invariance, PTL

\* add() and remove() of blocking_queue.hpp implement a bounded first-in
\* first-out queue.
THEOREM ImplementsFifo == Spec => RefinesFifo
<1>1. Init => Fifo!Init
  <2> SUFFICES ASSUME Init PROVE Fifo!Init
    OBVIOUS
  <2>1. IInv /\ size - Leaving <= Capacity
    <3>1. IInv
      BY InitInv
    <3> QED BY <3>1, TailIs
  <2>2. Contents \in Seq(Items) /\ Len(Contents) <= Capacity
    BY <2>1, ContentsIs
  <2> QED BY <2>2 DEF Fifo!Init, Init
<1> QED BY <1>1, Invariance, NextStep, PTL DEF Spec, RefinesFifo, Fifo!Spec

-----------------------------------------------------------------------------
(***************************************************************************)
(* Where notifications are lost.                                           *)
(***************************************************************************)
\* The workers at some labels, and how a move of one of them changes their number.
Count(p, labels) == Cardinality({u \in Workers : p[u] \in labels})
One(label, labels) == IF label \in labels THEN 1 ELSE 0
Moved(p, q, w, to) == p \in [Workers -> Labels] /\ q = [p EXCEPT ![w] = to]

LEMMA CountMoves ==
  ASSUME NEW p, NEW q, NEW w \in Workers, NEW to \in Labels, Moved(p, q, w, to), NEW labels
  PROVE  /\ Count(p, labels) \in Nat /\ Count(q, labels) \in Nat
         /\ Count(q, labels) + One(p[w], labels) = Count(p, labels) + One(to, labels)
<1> DEFINE S == {u \in Workers : p[u] \in labels}
           T == {u \in Workers : q[u] \in labels}
<1>1. q[w] = to /\ \A u \in Workers \ {w} : q[u] = p[u]
  BY DEF Moved
<1>2. IsFiniteSet(S) /\ IsFiniteSet(T)
  <2>1. S \in SUBSET Workers /\ T \in SUBSET Workers
    OBVIOUS
  <2> HIDE DEF S, T
  <2> QED BY <2>1, FS_Subset, WorkersAssumption
<1>3. Cardinality(S) \in Nat /\ Cardinality(T) \in Nat
  BY <1>2, FS_CardinalityType
<1>4. S \ {w} = T \ {w} /\ (w \in S <=> p[w] \in labels) /\ (w \in T <=> to \in labels)
  BY <1>1
<1>5. /\ Count(p, labels) = Cardinality(S) /\ Count(q, labels) = Cardinality(T)
  BY DEF Count
<1> HIDE DEF S, T
<1>6. /\ Cardinality(S \ {w}) = IF w \in S THEN Cardinality(S) - 1 ELSE Cardinality(S)
      /\ Cardinality(T \ {w}) = IF w \in T THEN Cardinality(T) - 1 ELSE Cardinality(T)
  BY <1>2, FS_RemoveElement
<1>7. Cardinality(S) = Cardinality(S \ {w}) + One(p[w], labels)
  BY <1>3, <1>4, <1>6 DEF One
<1>8. Cardinality(T) = Cardinality(S \ {w}) + One(to, labels)
  <2>1. Cardinality(T) = Cardinality(T \ {w}) + One(to, labels)
    BY <1>3, <1>4, <1>6 DEF One
  <2> QED BY <1>4, <2>1
<1>9. Cardinality(S \ {w}) \in Nat /\ One(p[w], labels) \in Nat /\ One(to, labels) \in Nat
  BY <1>2, FS_RemoveElement, FS_CardinalityType DEF One
<1> QED BY <1>3, <1>5, <1>7, <1>8, <1>9

\* notify_one() moves its caller and, when somebody sleeps, one sleeper.
Notified(p, q, from, waiting, relock, next, labels) ==
  /\ Count(p, labels) \in Nat /\ Count(q, labels) \in Nat
  /\ \/ /\ \A u \in Workers : q[u] # waiting
        /\ Count(q, labels) + One(from, labels) = Count(p, labels) + One(next, labels)
     \/ Count(q, labels) + One(from, labels) + One(waiting, labels)
          = Count(p, labels) + One(next, labels) + One(relock, labels)

LEMMA NotifyMoves ==
  ASSUME NEW w \in Workers, pc \in [Workers -> Labels],
         NEW waiting, NEW relock \in Labels, NEW next \in Labels,
         pc[w] # waiting, next # waiting, NotifyOne(w, waiting, relock, next),
         NEW q, q = pc', NEW labels
  PROVE  Notified(pc, q, pc[w], waiting, relock, next, labels)
<1> USE DEF Notified
<1> DEFINE sleepers == {u \in Workers : pc[u] = waiting}
           r == [pc EXCEPT ![w] = next]
<1>1. r \in [Workers -> Labels] /\ \A u \in Workers \ {w} : r[u] = pc[u]
  OBVIOUS
<1>2. /\ Count(pc, labels) \in Nat /\ Count(r, labels) \in Nat
      /\ Count(r, labels) + One(pc[w], labels) = Count(pc, labels) + One(next, labels)
  <2>1. Moved(pc, r, w, next)
    BY DEF Moved
  <2> HIDE DEF r
  <2> QED BY <2>1, CountMoves
<1>3. CASE sleepers = {}
  <2>1. q = r
    BY <1>3 DEF NotifyOne, Goto
  <2>2. \A u \in Workers : q[u] # waiting
    BY <1>3, <2>1
  <2> HIDE DEF r
  <2> QED BY <1>2, <2>1, <2>2
<1>4. CASE sleepers # {}
  <2>1. PICK u \in sleepers : q = [pc EXCEPT ![w] = next, ![u] = relock]
    BY <1>4 DEF NotifyOne
  <2>2. u \in Workers /\ u # w /\ r[u] = waiting
    OBVIOUS
  <2>3. Moved(r, q, u, relock)
    BY <1>1, <2>1 DEF Moved
  <2> HIDE DEF r, sleepers
  <2>4. /\ Count(q, labels) \in Nat
        /\ Count(q, labels) + One(waiting, labels) = Count(r, labels) + One(relock, labels)
    BY <1>1, <2>2, <2>3, CountMoves
  <2>5. One(pc[w], labels) \in Nat /\ One(next, labels) \in Nat /\ One(waiting, labels) \in Nat
        /\ One(relock, labels) \in Nat
    BY DEF One
  <2> QED BY <1>2, <2>4, <2>5
<1> QED BY <1>3, <1>4

\* Who is on the way to an item, and to a free slot.
Takers == {"r_relock", "r_check", "r_read", "r_release", "a_notify"}
Fillers == {"a_relock", "a_check", "a_write", "a_publish", "r_notify"}

\* A step either keeps the items and the slots attended or puts a worker to sleep.
Keeps(p, q, old, new) ==
  /\ (((\E u \in Workers : p[u] = "r_waiting") => old <= Count(p, Takers))
        /\ ~((\E u \in Workers : q[u] = "r_waiting") => new <= Count(q, Takers)))
       => \E w \in Workers : p[w] = "r_sleep" /\ q[w] = "r_waiting" /\ old > 0
  /\ (((\E u \in Workers : p[u] = "a_waiting") => Capacity - old <= Count(p, Fillers))
        /\ ~((\E u \in Workers : q[u] = "a_waiting") => Capacity - new <= Count(q, Fillers)))
       => \E w \in Workers : p[w] = "a_sleep" /\ q[w] = "a_waiting" /\ old < Capacity

\* A worker that moves on.
LEMMA MoveKeeps ==
  ASSUME NEW p \in [Workers -> Labels], NEW w \in Workers, NEW to \in Labels,
         NEW q, q = [p EXCEPT ![w] = to],
         NEW old \in 0..Capacity, NEW new \in 0..Capacity,
         to = "r_waiting" => p[w] = "r_sleep" /\ new = old,
         to = "a_waiting" => p[w] = "a_sleep" /\ new = old,
         new = 0 \/ new + One(p[w], Takers) <= old + One(to, Takers),
         new = Capacity \/ old + One(p[w], Fillers) <= new + One(to, Fillers)
  PROVE  Keeps(p, q, old, new)
<1>1. Capacity \in Nat
  BY CapacityAssumption
<1>m. Moved(p, q, w, to)
  BY DEF Moved
<1>2. /\ Count(p, Takers) \in Nat /\ Count(q, Takers) \in Nat
      /\ Count(q, Takers) + One(p[w], Takers) = Count(p, Takers) + One(to, Takers)
  BY <1>m, CountMoves
<1>3. /\ Count(p, Fillers) \in Nat /\ Count(q, Fillers) \in Nat
      /\ Count(q, Fillers) + One(p[w], Fillers) = Count(p, Fillers) + One(to, Fillers)
  BY <1>m, CountMoves
<1>4. q[w] = to /\ \A u \in Workers \ {w} : q[u] = p[u]
  OBVIOUS
<1>5. /\ One(p[w], Takers) \in Nat /\ One(to, Takers) \in Nat
      /\ One(p[w], Fillers) \in Nat /\ One(to, Fillers) \in Nat
  BY DEF One
<1>6. ASSUME NEW u \in Workers, q[u] = "r_waiting", ~(new <= Count(q, Takers)),
             (\E v \in Workers : p[v] = "r_waiting") => old <= Count(p, Takers)
      PROVE  p[w] = "r_sleep" /\ q[w] = "r_waiting" /\ old > 0
  <2>1. new # 0
    BY <1>2, <1>6
  <2>2. CASE to = "r_waiting"
    BY <1>4, <2>1, <2>2
  <2>3. CASE to # "r_waiting"
    <3>1. p[u] = "r_waiting"
      BY <1>4, <1>6, <2>3
    <3>2. old <= Count(p, Takers)
      BY <1>6, <3>1
    <3> QED BY <1>1, <1>2, <1>5, <1>6, <2>1, <3>2
  <2> QED BY <2>2, <2>3
<1>7. ASSUME NEW u \in Workers, q[u] = "a_waiting", ~(Capacity - new <= Count(q, Fillers)),
             (\E v \in Workers : p[v] = "a_waiting") => Capacity - old <= Count(p, Fillers)
      PROVE  p[w] = "a_sleep" /\ q[w] = "a_waiting" /\ old < Capacity
  <2>1. new # Capacity
    BY <1>1, <1>3, <1>7
  <2>2. CASE to = "a_waiting"
    BY <1>1, <1>4, <2>1, <2>2
  <2>3. CASE to # "a_waiting"
    <3>1. p[u] = "a_waiting"
      BY <1>4, <1>7, <2>3
    <3>2. Capacity - old <= Count(p, Fillers)
      BY <1>7, <3>1
    <3> QED BY <1>1, <1>3, <1>5, <1>7, <2>1, <3>2
  <2> QED BY <2>2, <2>3
<1> QED BY <1>6, <1>7 DEF Keeps

LEMMA StepKeeps ==
  ASSUME IInv, IInv', NEW w \in Workers, Lock(w) \/ Work(w) \/ SpuriousWakeup(w),
         NEW q, q = pc', NEW new, new = size'
  PROVE  Keeps(pc, q, size, new)
<1>1. /\ pc \in [Workers -> Labels] /\ size \in 0..Capacity /\ new \in 0..Capacity
      /\ Capacity \in Nat /\ size \in Nat
  BY CapacityAssumption DEF IInv, TypeOK
<1> DEFINE Move(to) ==
             /\ to \in Labels /\ q = [pc EXCEPT ![w] = to]
             /\ to = "r_waiting" => pc[w] = "r_sleep" /\ new = size
             /\ to = "a_waiting" => pc[w] = "a_sleep" /\ new = size
             /\ new = 0 \/ new + One(pc[w], Takers) <= size + One(to, Takers)
             /\ new = Capacity \/ size + One(pc[w], Fillers) <= new + One(to, Fillers)
<1> USE DEF Goto, One, Takers, Fillers, Labels, TailLabels, HeadLabels
<1>2. ASSUME NEW to, Move(to)
      PROVE  Keeps(pc, q, size, new)
  BY <1>1, <1>2, MoveKeeps
<1>3. CASE LockTail(w)
  <2>1. Move("a_check")
    BY <1>1, <1>3 DEF LockTail
  <2> QED BY <1>2, <2>1
<1>4. CASE CheckNotFull(w)
  <2>1. size < Capacity => Move("a_write")
    BY <1>1, <1>4 DEF CheckNotFull
  <2>2. ~(size < Capacity) => Move("a_sleep")
    BY <1>1, <1>4 DEF CheckNotFull
  <2> QED BY <1>2, <2>1, <2>2
<1>5. CASE SleepNotFull(w)
  <2>1. Move("a_waiting")
    BY <1>1, <1>5 DEF SleepNotFull
  <2> QED BY <1>2, <2>1
<1>6. CASE WriteSlot(w)
  <2>1. Move("a_publish")
    BY <1>1, <1>6 DEF WriteSlot
  <2> QED BY <1>2, <2>1
<1>7. CASE Publish(w)
  <2>1. Move("a_notify")
    BY <1>1, <1>7 DEF Publish
  <2> QED BY <1>2, <2>1
<1>8. CASE NotifyNotEmpty(w)
  <2>1. pc[w] = "a_notify" /\ NotifyOne(w, "r_waiting", "r_relock", "a_unlock") /\ new = size
    BY <1>8 DEF NotifyNotEmpty
  <2>2. "r_relock" \in Labels /\ "a_unlock" \in Labels
    OBVIOUS
  <2>3. \/ \A u \in Workers : q[u] # "r_waiting"
        \/ Count(q, Takers) = Count(pc, Takers) /\ \E u \in Workers : pc[u] = "r_waiting"
    <3>1. Notified(pc, q, pc[w], "r_waiting", "r_relock", "a_unlock", Takers)
      BY ONLY <1>1, <2>1, <2>2, w \in Workers, q = pc', NotifyMoves
    <3>2. (\A u \in Workers : pc[u] # "r_waiting") => \A u \in Workers : q[u] # "r_waiting"
      BY <1>1, <2>1 DEF NotifyOne
    <3> QED BY <2>1, <3>1, <3>2 DEF Notified
  <2>4. \/ Count(q, Fillers) = Count(pc, Fillers)
    <3>1. Notified(pc, q, pc[w], "r_waiting", "r_relock", "a_unlock", Fillers)
      BY ONLY <1>1, <2>1, <2>2, w \in Workers, q = pc', NotifyMoves
    <3> QED BY <2>1, <3>1 DEF Notified
  <2>5. \A u \in Workers : q[u] = "a_waiting" => pc[u] = "a_waiting"
    BY <1>1, <2>1 DEF NotifyOne
  <2> QED BY <2>1, <2>3, <2>4, <2>5 DEF Keeps
<1>9. CASE UnlockTail(w)
  <2>1. Move("idle")
    BY <1>1, <1>9 DEF UnlockTail
  <2> QED BY <1>2, <2>1
<1>10. CASE LockHead(w)
  <2>1. Move("r_check")
    BY <1>1, <1>10 DEF LockHead
  <2> QED BY <1>2, <2>1
<1>11. CASE CheckNotEmpty(w)
  <2>1. size > 0 => Move("r_read")
    BY <1>1, <1>11 DEF CheckNotEmpty
  <2>2. ~(size > 0) => Move("r_sleep")
    BY <1>1, <1>11 DEF CheckNotEmpty
  <2> QED BY <1>2, <2>1, <2>2
<1>12. CASE SleepNotEmpty(w)
  <2>1. Move("r_waiting")
    BY <1>1, <1>12 DEF SleepNotEmpty
  <2> QED BY <1>2, <2>1
<1>13. CASE ReadSlot(w)
  <2>1. Move("r_release")
    BY <1>1, <1>13 DEF ReadSlot
  <2> QED BY <1>2, <2>1
<1>14. CASE Release(w)
  <2>1. Move("r_notify")
    BY <1>1, <1>14 DEF Release
  <2> QED BY <1>2, <2>1
<1>15. CASE NotifyNotFull(w)
  <2>1. pc[w] = "r_notify" /\ NotifyOne(w, "a_waiting", "a_relock", "r_unlock") /\ new = size
    BY <1>15 DEF NotifyNotFull
  <2>2. "a_relock" \in Labels /\ "r_unlock" \in Labels
    OBVIOUS
  <2>3. \/ \A u \in Workers : q[u] # "a_waiting"
        \/ Count(q, Fillers) = Count(pc, Fillers) /\ \E u \in Workers : pc[u] = "a_waiting"
    <3>1. Notified(pc, q, pc[w], "a_waiting", "a_relock", "r_unlock", Fillers)
      BY ONLY <1>1, <2>1, <2>2, w \in Workers, q = pc', NotifyMoves
    <3>2. (\A u \in Workers : pc[u] # "a_waiting") => \A u \in Workers : q[u] # "a_waiting"
      BY <1>1, <2>1 DEF NotifyOne
    <3> QED BY <2>1, <3>1, <3>2 DEF Notified
  <2>4. Count(q, Takers) = Count(pc, Takers)
    <3>1. Notified(pc, q, pc[w], "a_waiting", "a_relock", "r_unlock", Takers)
      BY ONLY <1>1, <2>1, <2>2, w \in Workers, q = pc', NotifyMoves
    <3> QED BY <2>1, <3>1 DEF Notified
  <2>5. \A u \in Workers : q[u] = "r_waiting" => pc[u] = "r_waiting"
    BY <1>1, <2>1 DEF NotifyOne
  <2> QED BY <2>1, <2>3, <2>4, <2>5 DEF Keeps
<1>16. CASE UnlockHead(w)
  <2>1. Move("idle")
    BY <1>1, <1>16 DEF UnlockHead
  <2> QED BY <1>2, <2>1
<1>17. CASE SpuriousWakeup(w)
  <2>1. Move("a_relock") \/ Move("r_relock")
    BY <1>1, <1>17 DEF SpuriousWakeup
  <2> QED BY <1>2, <2>1
<1> QED BY <1>3, <1>4, <1>5, <1>6, <1>7, <1>8, <1>9, <1>10, <1>11, <1>12, <1>13, <1>14,
           <1>15, <1>16, <1>17 DEF Lock, Work

\* blocking_queue.hpp: a notification is lost in one place only, between the
\* predicate of wait() and the sleep.
THEOREM LostFallingAsleep == Spec => WakeupsAreLostOnlyFallingAsleep
<1> DEFINE A == /\ ItemsAttended /\ ~ItemsAttended' =>
                     \E w \in Workers : pc[w] = "r_sleep" /\ pc'[w] = "r_waiting" /\ size > 0
                /\ SlotsAttended /\ ~SlotsAttended' =>
                     \E w \in Workers : pc[w] = "a_sleep" /\ pc'[w] = "a_waiting" /\ size < Capacity
<1>1. ASSUME IInv, IInv', Next PROVE A
  <2>1. Keeps(pc, pc', size, size')
    BY <1>1, StepKeeps DEF Next
  <2> QED BY <2>1 DEF Keeps, Count, Takers, Fillers, ItemsAttended, SlotsAttended, At, Asleep
<1>2. IInv /\ IInv' /\ [Next]_vars => [A]_vars
  BY <1>1
<1> QED BY <1>2, Invariance, PTL DEF Spec, WakeupsAreLostOnlyFallingAsleep
=============================================================================
