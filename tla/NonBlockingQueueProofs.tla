----------------------- MODULE NonBlockingQueueProofs -----------------------
(***************************************************************************)
(* Type correctness of NonBlockingQueue, exclusive access to its slots and *)
(* refinement of FifoQueue, for any set of workers, any capacity from two  *)
(* on and any workload.                                                    *)
(***************************************************************************)
EXTENDS NonBlockingQueue, RingArithmetic, SequenceTheorems

\* What the ring gives: a position has a slot, the same one a round later, and
\* never its neighbour's.
LEMMA SlotFacts ==
  ASSUME NEW p \in Nat
  PROVE  /\ Slot(p) \in Slots
         /\ Slot(p + Capacity) = Slot(p)
         /\ Slot(p + 1) # Slot(p)
<1>1. Capacity \in Nat /\ Capacity > 0 /\ Capacity > 1
  BY CapacityAssumption, TwoSlotsAssumption
<1>2. p % Capacity \in 0..(Capacity - 1)
  BY <1>1, DivMod
<1>3. (p + Capacity) % Capacity = p % Capacity
  BY <1>1, ModRound
<1>4. (p + 1) % Capacity # p % Capacity
  BY <1>1, ModNeighbours
<1> QED BY <1>2, <1>3, <1>4 DEF Slot, Slots

LEMMA SlotOfFirstRound ==
  ASSUME NEW i \in Slots
  PROVE  i \in Nat /\ Slot(i) = i
<1>1. Capacity \in Nat /\ Capacity > 0 /\ i \in 0..(Capacity - 1)
  BY CapacityAssumption DEF Slots
<1>2. i = Capacity * 0 + i /\ 0 \in Int
  BY <1>1, SMT
<1> QED BY <1>1, <1>2, ModIs DEF Slot

LEMMA InitInv == Init => IInv
<1> SUFFICES ASSUME Init PROVE IInv
  OBVIOUS
<1> USE DEF Init
<1>1. Capacity \in Nat /\ Capacity >= 2 /\ Prefill \in 0..Capacity
  BY CapacityAssumption, TwoSlotsAssumption, PrefillAssumption
<1>2. TypeOK
  <2>1. data \in [Slots -> Items \cup {NoItem}]
    BY DEF PrefilledBuffer, Items
  <2>2. seq \in [Slots -> Nat]
    BY <1>1 DEF Slots
  <2>3. todo \in [Workers -> Seq(Ops)] /\ \A w \in Workers : Len(todo[w]) <= OpsPerThread
    <3>1. todo \in [Workers -> [1..OpsPerThread -> Ops]] /\ OpsPerThread \in Nat
      BY WorkloadsAssumption
    <3>2. ASSUME NEW w \in Workers
          PROVE  todo[w] \in Seq(Ops) /\ Len(todo[w]) = OpsPerThread
      BY <3>1
    <3> QED BY <3>1, <3>2
  <2> QED BY <1>1, <2>1, <2>2, <2>3 DEF TypeOK, Pcs
<1>3. OwnersInv /\ UniqueInv /\ ClaimsInv
  BY DEF OwnersInv, UniqueInv, ClaimsInv, Producing, Consuming
<1>4. RoundsInv
  <2> SUFFICES ASSUME NEW p \in Nat
               PROVE  /\ seq[Slot(p)] = p + 1 => p < tail
                      /\ seq[Slot(p)] = p /\ p >= Capacity => p - Capacity < head
    BY DEF RoundsInv
  <2> DEFINE i == Slot(p)
  <2>1. i \in Slots /\ i \in 0..(Capacity - 1) /\ Slot(i) = i
    BY SlotFacts, SlotOfFirstRound DEF Slots
  <2>2. seq[i] = IF i < Prefill THEN i + 1 ELSE i
    BY <2>1
  <2>3. seq[i] = p + 1 => p < tail
    <3>1. CASE i < Prefill
      BY <1>1, <2>1, <2>2, <3>1
    <3>2. CASE i >= Prefill
      \* Then p + 1 is the slot of p.
      <4>1. seq[i] = p + 1 => Slot(p + 1) = Slot(p)
        BY <1>1, <2>1, <2>2, <3>2
      <4> QED BY <4>1, SlotFacts
    <3> QED BY <1>1, <2>1, <3>1, <3>2
  <2>4. ~(seq[i] = p /\ p >= Capacity)
    <3> SUFFICES ASSUME seq[i] = p, p >= Capacity PROVE FALSE
      OBVIOUS
    <3>1. i + 1 = Capacity /\ p = Capacity
      BY <1>1, <2>1, <2>2
    <3>2. Slot(0 + Capacity) = Slot(0) /\ 0 \in Slots
      BY <1>1, SlotFacts DEF Slots
    <3>3. Slot(0) = 0
      BY <3>2, SlotOfFirstRound
    <3> QED BY <1>1, <3>1, <3>2, <3>3
  <2> QED BY <2>3, <2>4
<1> QED BY <1>2, <1>3, <1>4 DEF IInv

\* The slots of two owners, one producing and one consuming, differ: the
\* sequence number of one slot cannot be pos[w] and pos[u] + 1 at once when
\* both positions lie in it.
LEMMA OwnersApart ==
  ASSUME IInv, NEW w \in Workers, NEW u \in Workers,
         Owns(w), Owns(u), Slot(pos[w]) = Slot(pos[u])
  PROVE  w = u
<1> USE DEF IInv, TypeOK
<1>1. pos[w] \in Nat /\ pos[u] \in Nat
  OBVIOUS
<1>2. /\ Producing(w) \/ Consuming(w)
      /\ Producing(u) \/ Consuming(u)
  BY DEF Owns, Producing, Consuming
<1>3. CASE Producing(w) /\ Producing(u)
  <2>1. pos[w] = pos[u]
    BY <1>3 DEF OwnersInv
  <2> QED BY <1>3, <2>1 DEF UniqueInv
<1>4. CASE Consuming(w) /\ Consuming(u)
  <2>1. seq[Slot(pos[w])] = pos[w] + 1 /\ seq[Slot(pos[u])] = pos[u] + 1
    BY <1>4 DEF OwnersInv
  <2>2. pos[w] = pos[u]
    BY <1>1, <2>1
  <2> QED BY <1>4, <2>2 DEF UniqueInv
<1>5. CASE Producing(w) /\ Consuming(u)
  <2>1. pos[w] = pos[u] + 1
    BY <1>5 DEF OwnersInv
  <2> QED BY <1>1, <2>1, SlotFacts
<1>6. CASE Consuming(w) /\ Producing(u)
  <2>1. pos[u] = pos[w] + 1
    BY <1>6 DEF OwnersInv
  <2> QED BY <1>1, <2>1, SlotFacts
<1> QED BY <1>2, <1>3, <1>4, <1>5, <1>6

\* Starting an operation keeps the type of todo.
LEMMA BeginType ==
  ASSUME TypeOK, NEW w \in Workers, NEW op, NEW retry, Begin(w, op, retry)
  PROVE  /\ todo' \in [Workers -> Seq(Ops)]
         /\ \A u \in Workers : Len(todo'[u]) <= OpsPerThread
<1>1. CASE UNCHANGED todo
  BY <1>1 DEF TypeOK
<1>2. CASE todo[w] # <<>> /\ todo' = [todo EXCEPT ![w] = Tail(@)]
  <2>1. todo[w] \in Seq(Ops) /\ Len(todo[w]) <= OpsPerThread /\ OpsPerThread \in Nat
    BY WorkloadsAssumption DEF TypeOK
  <2>2. Tail(todo[w]) \in Seq(Ops) /\ Len(Tail(todo[w])) <= OpsPerThread
    BY <1>2, <2>1
  <2> QED BY <1>2, <2>2 DEF TypeOK
<1> QED BY <1>1, <1>2 DEF Begin

\* The steps that only load, compare or give up touch neither the slots nor
\* the positions of owners.
LEMMA LocalSteps ==
  ASSUME IInv, NEW w \in Workers,
         \/ LoadTail(w) \/ MissTail(w) \/ CheckFree(w)
         \/ LoadHead(w) \/ MissHead(w) \/ CheckFilled(w)
  PROVE  IInv'
<1> USE DEF IInv
<1>1. TypeOK'
  <2>1. CASE LoadTail(w) \/ LoadHead(w)
    <3>1. /\ todo' \in [Workers -> Seq(Ops)]
          /\ \A u \in Workers : Len(todo'[u]) <= OpsPerThread
      BY <2>1, BeginType DEF LoadTail, LoadHead
    <3>2. tail \in Nat
      BY CapacityAssumption DEF TypeOK
    <3> QED BY <2>1, <3>1, <3>2 DEF LoadTail, LoadHead, Goto, TypeOK, Pcs
  <2>2. CASE MissTail(w) \/ CheckFree(w) \/ MissHead(w) \/ CheckFilled(w)
    BY <2>2 DEF MissTail, CheckFree, MissHead, CheckFilled, Goto, TypeOK, Pcs
  <2> QED BY <2>1, <2>2
<1>2. /\ UNCHANGED <<seq, head, tail>>
      /\ \A u \in Workers : u # w => pc'[u] = pc[u] /\ pos'[u] = pos[u]
      /\ ~Producing(w)' /\ ~Consuming(w)'
  BY DEF LoadTail, LoadHead, MissTail, CheckFree, MissHead, CheckFilled, Goto,
         TypeOK, Producing, Consuming
<1>3. OwnersInv' /\ UniqueInv'
  BY <1>2 DEF OwnersInv, UniqueInv, Producing, Consuming
<1>4. ClaimsInv'
  <2>1. pc'[w] = "a_claim" => pos'[w] = pos[w] /\ seq[Slot(pos[w])] = pos[w]
    BY DEF LoadTail, LoadHead, MissTail, CheckFree, MissHead, CheckFilled, Goto, TypeOK
  <2>2. pc'[w] = "r_claim" => pos'[w] = pos[w] /\ seq[Slot(pos[w])] = pos[w] + 1
    BY DEF LoadTail, LoadHead, MissTail, CheckFree, MissHead, CheckFilled, Goto, TypeOK
  <2>3. /\ pc'[w] \in {"a_seq", "a_claim"} => pos'[w] <= tail
        /\ pc'[w] \in {"r_seq", "r_claim"} => pos'[w] <= head
    BY CapacityAssumption DEF LoadTail, LoadHead, MissTail, CheckFree, MissHead,
       CheckFilled, Goto, TypeOK, ClaimsInv
  <2> QED BY <1>2, <2>1, <2>2, <2>3 DEF ClaimsInv
<1>5. RoundsInv'
  BY <1>2 DEF RoundsInv
<1> QED BY <1>1, <1>3, <1>4, <1>5

\* A producer wins position tail: no other producer is that far.
LEMMA ClaimTailStep ==
  ASSUME IInv, NEW w \in Workers, ClaimTail(w)
  PROVE  IInv'
<1> USE DEF IInv
<1>1. /\ tail \in Nat /\ head \in Nat /\ Capacity \in Nat
      /\ pos[w] = tail /\ tail' = tail + 1
      /\ pc' = [pc EXCEPT ![w] = "a_write"]
      /\ UNCHANGED <<data, seq, head, pos, todo, out>>
  BY CapacityAssumption DEF ClaimTail, Goto, TypeOK
<1>2. seq[Slot(tail)] = tail
  BY <1>1 DEF ClaimTail, ClaimsInv
<1>3. tail < head + Capacity
  BY <1>1, <1>2 DEF RoundsInv
<1>4. TypeOK'
  BY <1>1, <1>3 DEF TypeOK, Pcs
<1>5. \A u \in Workers : u # w => pc'[u] = pc[u]
  BY <1>1 DEF TypeOK
<1>6. pc'[w] = "a_write"
  BY <1>1 DEF TypeOK
<1>7. OwnersInv'
  BY <1>1, <1>2, <1>5, <1>6 DEF OwnersInv, Producing, Consuming, TypeOK
<1>8. UniqueInv'
  BY <1>1, <1>5, <1>6 DEF UniqueInv, OwnersInv, Producing, Consuming, TypeOK
<1>9. ClaimsInv'
  \* The number of the new tail is not yet known to anyone.
  <2> SUFFICES ASSUME NEW u \in Workers
               PROVE  ClaimsInv!(u)'
    BY DEF ClaimsInv
  <2>1. CASE u = w
    BY <1>6, <2>1
  <2>2. CASE u # w
    BY <1>1, <1>5, <2>2 DEF ClaimsInv, TypeOK
  <2> QED BY <2>1, <2>2
<1>10. RoundsInv'
  BY <1>1 DEF RoundsInv
<1> QED BY <1>4, <1>7, <1>8, <1>9, <1>10

\* A consumer wins position head: its slot was filled, so head does not pass
\* tail.
LEMMA ClaimHeadStep ==
  ASSUME IInv, NEW w \in Workers, ClaimHead(w)
  PROVE  IInv'
<1> USE DEF IInv
<1>1. /\ tail \in Nat /\ head \in Nat /\ Capacity \in Nat
      /\ tail <= head + Capacity
      /\ pos[w] = head /\ head' = head + 1
      /\ pc' = [pc EXCEPT ![w] = "r_read"]
      /\ UNCHANGED <<data, seq, tail, pos, todo, out>>
  BY CapacityAssumption DEF ClaimHead, Goto, TypeOK
<1>2. seq[Slot(head)] = head + 1
  BY <1>1 DEF ClaimHead, ClaimsInv
<1>3. head < tail
  BY <1>1, <1>2 DEF RoundsInv
<1>4. TypeOK'
  BY <1>1, <1>3 DEF TypeOK, Pcs
<1>5. \A u \in Workers : u # w => pc'[u] = pc[u]
  BY <1>1 DEF TypeOK
<1>6. pc'[w] = "r_read"
  BY <1>1 DEF TypeOK
<1>7. OwnersInv'
  BY <1>1, <1>2, <1>5, <1>6 DEF OwnersInv, Producing, Consuming, TypeOK
<1>8. UniqueInv'
  BY <1>1, <1>5, <1>6 DEF UniqueInv, OwnersInv, Producing, Consuming, TypeOK
<1>9. ClaimsInv'
  <2> SUFFICES ASSUME NEW u \in Workers
               PROVE  ClaimsInv!(u)'
    BY DEF ClaimsInv
  <2>1. CASE u = w
    BY <1>6, <2>1
  <2>2. CASE u # w
    BY <1>1, <1>5, <2>2 DEF ClaimsInv, TypeOK
  <2> QED BY <2>1, <2>2
<1>10. RoundsInv'
  BY <1>1 DEF RoundsInv
<1> QED BY <1>4, <1>7, <1>8, <1>9, <1>10

\* Reading and writing the data of an owned slot leave its number alone.
LEMMA DataSteps ==
  ASSUME IInv, NEW w \in Workers, WriteData(w) \/ ReadData(w)
  PROVE  IInv'
<1> USE DEF IInv
<1>1. /\ UNCHANGED <<seq, head, tail, pos, todo>>
      /\ \A u \in Workers : u # w => pc'[u] = pc[u]
      /\ \/ pc[w] = "a_write" /\ pc'[w] = "a_publish"
         \/ pc[w] = "r_read" /\ pc'[w] = "r_release"
      /\ pc' \in [Workers -> Pcs]
  BY DEF WriteData, ReadData, Goto, TypeOK, Pcs
<1>2. pos[w] \in Nat /\ Slot(pos[w]) \in Slots
  BY SlotFacts DEF TypeOK
<1>3. ItemOf(w, todo[w]) \in Items
  <2>1. Len(todo[w]) \in Nat /\ Len(todo[w]) <= OpsPerThread /\ OpsPerThread \in Nat
    BY WorkloadsAssumption DEF TypeOK
  <2> QED BY <2>1 DEF ItemOf, Items
<1>4. data' \in [Slots -> Items \cup {NoItem}] /\ out' \in [Workers -> Items \cup {NoItem}]
  BY <1>2, <1>3 DEF WriteData, ReadData, TypeOK
<1>5. TypeOK'
  BY <1>1, <1>4 DEF TypeOK
<1>6. OwnersInv' /\ UniqueInv'
  BY <1>1 DEF OwnersInv, UniqueInv, Producing, Consuming
<1>7. ClaimsInv'
  BY <1>1 DEF ClaimsInv
<1>8. RoundsInv'
  BY <1>1 DEF RoundsInv
<1> QED BY <1>5, <1>6, <1>7, <1>8

\* A producer publishes its slot and a consumer frees it: the owner gives the
\* slot its next number and owns it no more.
LEMMA GiveUpSteps ==
  ASSUME IInv, NEW w \in Workers, Publish(w) \/ Release(w)
  PROVE  IInv'
<1> USE DEF IInv
<1> DEFINE i == Slot(pos[w])
<1>1. /\ pos[w] \in Nat /\ tail \in Nat /\ head \in Nat
      /\ Capacity \in Nat /\ Capacity >= 2
      /\ i \in Slots
  BY CapacityAssumption, TwoSlotsAssumption, SlotFacts DEF TypeOK
<1>2. /\ UNCHANGED <<data, head, tail, pos, todo, out>>
      /\ pc' = [pc EXCEPT ![w] = "idle"]
      /\ \A u \in Workers : u # w => pc'[u] = pc[u]
      /\ pc'[w] = "idle" /\ Owns(w)
  BY DEF Publish, Release, Goto, TypeOK, Owns
\* What the two steps do to the slot.
<1>3. \/ /\ pos[w] < tail /\ seq[i] = pos[w]
         /\ seq' = [seq EXCEPT ![i] = pos[w] + 1]
      \/ /\ pos[w] < head /\ seq[i] = pos[w] + 1
         /\ seq' = [seq EXCEPT ![i] = pos[w] + Capacity]
  BY DEF Publish, Release, OwnersInv, Producing, Consuming
<1>4. \A j \in Slots : j # i => seq'[j] = seq[j]
  BY <1>3 DEF TypeOK
<1>5. TypeOK'
  <2>1. seq' \in [Slots -> Nat]
    BY <1>1, <1>3 DEF TypeOK
  <2> QED BY <1>2, <2>1 DEF TypeOK, Pcs
<1>6. OwnersInv'
  <2> SUFFICES ASSUME NEW u \in Workers
               PROVE  OwnersInv!(u)'
    BY DEF OwnersInv
  <2>1. CASE u = w
    BY <1>2, <2>1 DEF Producing, Consuming
  <2>2. CASE u # w /\ Owns(u)
    <3>1. Slot(pos[u]) \in Slots /\ Slot(pos[u]) # i
      BY <1>2, <2>2, OwnersApart, SlotFacts DEF TypeOK
    <3>2. seq'[Slot(pos[u])] = seq[Slot(pos[u])]
      BY <1>4, <3>1
    <3> QED BY <1>2, <2>2, <3>2 DEF OwnersInv, Producing, Consuming
  <2>3. CASE u # w /\ ~Owns(u)
    BY <1>2, <2>3 DEF Owns, Producing, Consuming
  <2> QED BY <2>1, <2>2, <2>3
<1>7. UniqueInv'
  BY <1>2 DEF UniqueInv, Producing, Consuming
<1>8. ClaimsInv'
  <2> SUFFICES ASSUME NEW u \in Workers
               PROVE  ClaimsInv!(u)'
    BY DEF ClaimsInv
  <2>1. CASE u = w
    BY <1>2, <2>1
  <2>2. CASE u # w
    <3>1. pc[u] = "a_claim" /\ pos[u] = tail => seq'[Slot(tail)] = tail
      <4> SUFFICES ASSUME pc[u] = "a_claim", pos[u] = tail
                   PROVE  seq'[Slot(tail)] = tail
        OBVIOUS
      <4>1. seq[Slot(tail)] = tail /\ Slot(tail) \in Slots
        BY <1>1, SlotFacts DEF ClaimsInv
      <4>2. Slot(tail) # i
        BY <1>1, <1>3, <4>1, SlotFacts
      <4> QED BY <1>4, <4>1, <4>2
    <3>2. pc[u] = "r_claim" /\ pos[u] = head => seq'[Slot(head)] = head + 1
      <4> SUFFICES ASSUME pc[u] = "r_claim", pos[u] = head
                   PROVE  seq'[Slot(head)] = head + 1
        OBVIOUS
      <4>1. seq[Slot(head)] = head + 1 /\ Slot(head) \in Slots
        BY <1>1, SlotFacts DEF ClaimsInv
      <4>2. Slot(head) # i
        BY <1>1, <1>3, <4>1, SlotFacts
      <4> QED BY <1>4, <4>1, <4>2
    <3> QED BY <1>2, <2>2, <3>1, <3>2 DEF ClaimsInv
  <2> QED BY <2>1, <2>2
<1>9. RoundsInv'
  <2> SUFFICES ASSUME NEW p \in Nat
               PROVE  RoundsInv!(p)'
    BY DEF RoundsInv
  <2>1. Slot(p) \in Slots /\ Slot(p + 1) # Slot(p)
    BY SlotFacts
  <2>2. CASE Slot(p) # i
    BY <1>2, <1>4, <2>1, <2>2 DEF RoundsInv
  <2>3. CASE Slot(p) = i
    <3>1. Slot(pos[w] + 1) # i /\ Slot(pos[w] + Capacity) = i
      BY <1>1, SlotFacts
    <3>2. CASE seq' = [seq EXCEPT ![i] = pos[w] + 1] /\ pos[w] < tail
      <4>1. seq'[Slot(p)] = pos[w] + 1
        BY <1>1, <2>3, <3>2 DEF TypeOK
      <4>2. p # pos[w] + 1
        BY <2>3, <3>1
      <4> QED BY <1>1, <1>2, <3>2, <4>1, <4>2
    <3>3. CASE seq' = [seq EXCEPT ![i] = pos[w] + Capacity] /\ pos[w] < head
      <4>1. seq'[Slot(p)] = pos[w] + Capacity
        BY <1>1, <2>3, <3>3 DEF TypeOK
      <4>2. p + 1 # pos[w] + Capacity
        BY <2>1, <2>3, <3>1
      <4> QED BY <1>1, <1>2, <3>3, <4>1, <4>2
    <3> QED BY <1>3, <3>2, <3>3
  <2> QED BY <2>2, <2>3
<1> QED BY <1>5, <1>6, <1>7, <1>8, <1>9

\* The invariant holds in every reachable state.
THEOREM Invariance == Spec => []IInv
<1>1. Init => IInv
  BY InitInv
<1>2. IInv /\ [Next]_vars => IInv'
  <2> SUFFICES ASSUME IInv, [Next]_vars PROVE IInv'
    OBVIOUS
  <2>1. CASE UNCHANGED vars
    BY <2>1 DEF vars, IInv, TypeOK, OwnersInv, UniqueInv, ClaimsInv, RoundsInv,
                Producing, Consuming
  <2>2. CASE Next
    <3> SUFFICES ASSUME NEW w \in Workers, AddStep(w) \/ RemoveStep(w) PROVE IInv'
      BY <2>2 DEF Next
    <3> QED BY LocalSteps, ClaimTailStep, ClaimHeadStep, DataSteps, GiveUpSteps
            DEF AddStep, RemoveStep
  <2> QED BY <2>1, <2>2
<1> QED BY <1>1, <1>2, PTL DEF Spec

\* noblocking_queue.hpp keeps its state well-formed, and the claimed positions
\* stay within one round of the taken ones.
THEOREM TypeCorrect == Spec => []TypeOK
BY Invariance, PTL DEF IInv

\* The data of a slot, which is not atomic, is never accessed by two threads.
THEOREM SlotsAreExclusive == Spec => []SlotsExclusive
<1>1. IInv => SlotsExclusive
  BY OwnersApart DEF SlotsExclusive
<1> QED BY <1>1, Invariance, PTL

-----------------------------------------------------------------------------
(***************************************************************************)
(* NonBlockingQueue implements FifoQueue: an item is in the queue from the *)
(* moment its position is claimed, although it is written later, and out   *)
(* of it when a consumer claims that position, although it is read later.  *)
(***************************************************************************)
\* Consumers do not overtake a producer who has claimed but not published.
AheadInv == \A w \in Workers : Producing(w) => head <= pos[w]

JInv == IInv /\ AheadInv
-----------------------------------------------------------------------------
LEMMA AheadStep ==
  ASSUME JInv, NEW w \in Workers, AddStep(w) \/ RemoveStep(w)
  PROVE  AheadInv'
<1> USE DEF JInv, IInv, AheadInv
<1>1. head \in Nat /\ tail \in Nat /\ head <= tail /\ pos[w] \in Nat
  BY CapacityAssumption DEF TypeOK
<1>2. \A u \in Workers : u # w => pc'[u] = pc[u] /\ pos'[u] = pos[u]
  BY DEF AddStep, RemoveStep, LoadTail, CheckFree, ClaimTail, MissTail, WriteData, Publish,
         LoadHead, CheckFilled, ClaimHead, MissHead, ReadData, Release, Goto, TypeOK
<1>3. CASE ClaimHead(w)
  <2> SUFFICES ASSUME NEW u \in Workers, Producing(u)' PROVE head' <= pos'[u]
    OBVIOUS
  <2>1. head' = head + 1 /\ pc' = [pc EXCEPT ![w] = "r_read"] /\ pos' = pos /\ pos[w] = head
        /\ pc[w] = "r_claim"
    BY <1>3 DEF ClaimHead, Goto
  <2>2. u # w /\ Producing(u)
    BY <1>2, <2>1 DEF Producing, TypeOK
  <2>3. seq[Slot(head)] = head + 1
    BY <2>1 DEF ClaimsInv
  <2>4. head <= pos[u] /\ seq[Slot(pos[u])] = pos[u] /\ pos[u] \in Nat
    BY <2>2 DEF OwnersInv, TypeOK
  <2>5. pos[u] # head
    BY <1>1, <2>3, <2>4
  <2> QED BY <1>1, <2>1, <2>4, <2>5
<1>4. CASE ClaimTail(w)
  <2>1. head' = head /\ pos' = pos /\ pos[w] = tail
    BY <1>4 DEF ClaimTail
  <2> QED BY <1>1, <1>2, <2>1 DEF Producing
<1>5. CASE ~ClaimHead(w) /\ ~ClaimTail(w)
  <2>1. head' = head
    BY <1>5 DEF AddStep, RemoveStep, LoadTail, CheckFree, MissTail, WriteData, Publish,
                LoadHead, CheckFilled, MissHead, ReadData, Release
  <2>2. Producing(w)' => Producing(w) /\ pos'[w] = pos[w]
    BY <1>5 DEF AddStep, RemoveStep, LoadTail, CheckFree, MissTail, WriteData, Publish,
                LoadHead, CheckFilled, MissHead, ReadData, Release, Goto, TypeOK, Producing
  <2> QED BY <1>2, <2>1, <2>2 DEF Producing
<1> QED BY <1>3, <1>4, <1>5

\* Positions less than a round apart lie in different slots.
LEMMA OneRound ==
  ASSUME NEW a \in Nat, NEW b \in Nat, a <= b, b < a + Capacity, Slot(a) = Slot(b)
  PROVE  a = b
<1> DEFINE m == a % Capacity
           d == a \div Capacity
           e == b \div Capacity
<1>1. Capacity \in Nat /\ Capacity > 0
  BY CapacityAssumption
<1>2. m \in 0..(Capacity - 1) /\ d \in Int /\ a = (Capacity * d) + m
  BY <1>1, DivMod
<1>3. e \in Int /\ b = (Capacity * e) + m
  BY <1>1, DivMod DEF Slot
<1>4. (b - a) \in 0..(Capacity - 1)
  BY <1>1
<1> HIDE DEF m, d, e
<1>5. (Capacity * (e - d)) + 0 = (Capacity * 0) + (b - a)
  BY <1>1, <1>2, <1>3
<1>6. (e - d) \in Int /\ 0 \in Int /\ 0 \in 0..(Capacity - 1)
  BY <1>1, <1>2, <1>3
<1>7. 0 = b - a
  BY <1>1, <1>4, <1>5, <1>6, Euclid
<1> QED BY <1>7

-----------------------------------------------------------------------------
(* The item at a position.                                                 *)

LEMMA TheOnlyOne ==
  ASSUME NEW W, NEW f, NEW g, NEW p, NEW w \in W, f[w] = "a_write", g[w] = p,
         \A u \in W : f[u] = "a_write" /\ g[u] = p => u = w
  PROVE  (CHOOSE u \in W : f[u] = "a_write" /\ g[u] = p) = w
OBVIOUS

LEMMA ItemWritten ==
  ASSUME IInv, NEW w \in Workers, pc[w] = "a_write", NEW p, pos[w] = p
  PROVE  ItemAt(p) = ItemOf(w, todo[w])
<1>1. \A u \in Workers : pc[u] = "a_write" /\ pos[u] = p => u = w
  BY DEF IInv, UniqueInv, Producing
<1>2. (CHOOSE u \in Workers : pc[u] = "a_write" /\ pos[u] = p) = w
  BY <1>1, TheOnlyOne
<1> QED BY <1>2 DEF ItemAt

LEMMA ItemWrittenNext ==
  ASSUME IInv', NEW w \in Workers, pc'[w] = "a_write", NEW p, pos'[w] = p
  PROVE  ItemAt(p)' = ItemOf(w, todo'[w])
<1>1. \A u \in Workers : pc'[u] = "a_write" /\ pos'[u] = p => u = w
  BY DEF IInv, UniqueInv, Producing
<1>2. (CHOOSE u \in Workers : pc'[u] = "a_write" /\ pos'[u] = p) = w
  BY <1>1, TheOnlyOne
<1> QED BY <1>2 DEF ItemAt, ItemOf

\* A position keeps its item when its producer and its slot are left alone.
LEMMA ItemKept ==
  ASSUME IInv, IInv', NEW p \in Nat,
         \A u \in Workers : /\ pos[u] = p => (pc[u] = "a_write" => pc'[u] = "a_write")
                            /\ pos'[u] = p => (pc'[u] = "a_write" => pc[u] = "a_write")
                            /\ pc[u] = "a_write" => pos'[u] = pos[u] /\ todo'[u] = todo[u],
         data'[Slot(p)] = data[Slot(p)]
  PROVE  ItemAt(p)' = ItemAt(p)
<1>1. CASE \E u \in Workers : pc[u] = "a_write" /\ pos[u] = p
  <2>1. PICK u \in Workers : pc[u] = "a_write" /\ pos[u] = p
    BY <1>1
  <2>2. pc'[u] = "a_write" /\ pos'[u] = p /\ todo'[u] = todo[u]
    BY <2>1
  <2>3. ItemAt(p) = ItemOf(u, todo[u]) /\ ItemAt(p)' = ItemOf(u, todo'[u])
    BY <2>1, <2>2, ItemWritten, ItemWrittenNext
  <2> QED BY <2>2, <2>3
<1>2. CASE ~ \E u \in Workers : pc[u] = "a_write" /\ pos[u] = p
  <2>1. ~ \E u \in Workers : pc'[u] = "a_write" /\ pos'[u] = p
    BY <1>2
  <2> QED BY <1>2, <2>1 DEF ItemAt, Slot
<1> QED BY <1>1, <1>2

LEMMA ItemType ==
  ASSUME IInv, NEW p \in Nat
  PROVE  ItemAt(p) \in Items \cup {NoItem}
<1>1. CASE \E u \in Workers : pc[u] = "a_write" /\ pos[u] = p
  <2>1. PICK u \in Workers : pc[u] = "a_write" /\ pos[u] = p
    BY <1>1
  <2>2. ItemAt(p) = ItemOf(u, todo[u])
    BY <2>1, ItemWritten
  <2>3. Len(todo[u]) \in Nat /\ Len(todo[u]) <= OpsPerThread /\ OpsPerThread \in Nat
    BY WorkloadsAssumption DEF IInv, TypeOK
  <2> QED BY <2>2, <2>3 DEF ItemOf, Items
<1>2. CASE ~ \E u \in Workers : pc[u] = "a_write" /\ pos[u] = p
  <2>1. ItemAt(p) = data[Slot(p)]
    BY <1>2 DEF ItemAt
  <2> QED BY <2>1, SlotFacts DEF IInv, TypeOK
<1> QED BY <1>1, <1>2

LEMMA ContentsIs ==
  ASSUME IInv
  PROVE  /\ tail - head \in 0..Capacity
         /\ Contents \in Seq(Items \cup {NoItem}) /\ Len(Contents) = tail - head
         /\ \A i \in 1..(tail - head) : Contents[i] = ItemAt(head + i - 1)
<1>1. head \in Nat /\ tail \in Nat /\ tail - head \in 0..Capacity /\ Capacity \in Nat
  BY CapacityAssumption DEF IInv, TypeOK
<1>2. \A i \in 1..(tail - head) : ItemAt(head + i - 1) \in Items \cup {NoItem}
  <2> SUFFICES ASSUME NEW i \in 1..(tail - head)
               PROVE  ItemAt(head + i - 1) \in Items \cup {NoItem}
    OBVIOUS
  <2>1. head + i - 1 \in Nat
    BY <1>1
  <2> QED BY <2>1, ItemType
<1> DEFINE n == tail - head
           It(i) == ItemAt(head + i - 1)
<1>3. n \in Nat /\ \A i \in 1..n : It(i) \in Items \cup {NoItem}
  BY <1>1, <1>2
<1> HIDE DEF It, n
<1>4. [i \in 1..n |-> It(i)] \in Seq(Items \cup {NoItem}) /\ Len([i \in 1..n |-> It(i)]) = n
  BY <1>3
<1> QED BY <1>1, <1>4 DEF Contents, It, n

-----------------------------------------------------------------------------
(* Steps.                                                                  *)

Same == UNCHANGED <<Contents, Taken>>

\* All positions keep their items.
LEMMA ContentsKept ==
  ASSUME IInv, head' = head, tail' = tail,
         \A p \in Nat : head <= p /\ p < tail => ItemAt(p)' = ItemAt(p)
  PROVE  Contents' = Contents
<1>1. head \in Nat /\ tail \in Nat
  BY CapacityAssumption DEF IInv, TypeOK
<1>2. \A i \in 1..(tail - head) : ItemAt(head + i - 1)' = ItemAt(head + i - 1)
  BY <1>1
<1> QED BY <1>2 DEF Contents

\* Everything but the claims and the write.
LEMMA QuietStep ==
  ASSUME IInv, IInv', NEW w \in Workers,
         \/ LoadTail(w) \/ MissTail(w) \/ CheckFree(w) \/ Publish(w)
         \/ LoadHead(w) \/ MissHead(w) \/ CheckFilled(w) \/ ReadData(w) \/ Release(w)
  PROVE  Same
<1> USE DEF IInv, TypeOK
<1>1. /\ UNCHANGED <<data, head, tail>>
      /\ pc[w] # "a_write" /\ pc'[w] # "a_write" /\ pc'[w] # "r_read"
      /\ \A u \in Workers : u # w => /\ pc'[u] = pc[u] /\ pos'[u] = pos[u]
                                     /\ todo'[u] = todo[u] /\ out'[u] = out[u]
      /\ IF pc[w] = "r_read" THEN out'[w] = data[Slot(pos[w])] ELSE out'[w] = out[w]
  BY DEF LoadTail, MissTail, CheckFree, Publish, LoadHead, MissHead, CheckFilled, ReadData,
         Release, Goto, Begin
<1>2. \A p \in Nat : ItemAt(p)' = ItemAt(p)
  <2> SUFFICES ASSUME NEW p \in Nat PROVE ItemAt(p)' = ItemAt(p)
    OBVIOUS
  <2>1. \A u \in Workers : /\ pos[u] = p => (pc[u] = "a_write" => pc'[u] = "a_write")
                           /\ pos'[u] = p => (pc'[u] = "a_write" => pc[u] = "a_write")
                           /\ pc[u] = "a_write" => pos'[u] = pos[u] /\ todo'[u] = todo[u]
    BY <1>1
  <2>2. data'[Slot(p)] = data[Slot(p)]
    BY <1>1
  <2> HIDE DEF IInv, TypeOK
  <2> QED BY <2>1, <2>2, ItemKept
<1>3. Contents' = Contents
  BY <1>1, <1>2, ContentsKept
<1>4. Taken' = Taken
  BY <1>1 DEF Taken, Slot
<1> QED BY <1>3, <1>4 DEF Same

\* The item arrives where it was counted already.
LEMMA WriteStep ==
  ASSUME JInv, IInv', NEW w \in Workers, WriteData(w)
  PROVE  Same
<1> USE DEF JInv
<1>1. /\ pc[w] = "a_write" /\ pc' = [pc EXCEPT ![w] = "a_publish"]
      /\ data' = [data EXCEPT ![Slot(pos[w])] = ItemOf(w, todo[w])]
      /\ UNCHANGED <<seq, head, tail, pos, todo, out>>
  BY DEF WriteData, Goto
<1>2. /\ pc'[w] = "a_publish" /\ \A u \in Workers : u # w => pc'[u] = pc[u]
      /\ head \in Nat /\ tail \in Nat /\ tail <= head + Capacity /\ Capacity \in Nat
      /\ pos[w] \in Nat /\ data \in [Slots -> Items \cup {NoItem}]
  BY <1>1, CapacityAssumption DEF IInv, TypeOK
<1>3. head <= pos[w] /\ pos[w] < tail
  BY <1>1 DEF AheadInv, IInv, OwnersInv, Producing
<1>4. ASSUME NEW p \in Nat, head <= p, p < tail PROVE ItemAt(p)' = ItemAt(p)
  <2>1. CASE p = pos[w]
    <3>1. ItemAt(p) = ItemOf(w, todo[w])
      BY <1>1, <2>1, ItemWritten
    <3>2. \A u \in Workers : pc[u] = "a_write" /\ pos[u] = p => u = w
      BY <1>1, <2>1 DEF IInv, UniqueInv, Producing
    <3>3. ~ \E u \in Workers : pc'[u] = "a_write" /\ pos'[u] = p
      BY <1>1, <1>2, <3>2
    <3>4. ItemAt(p)' = data'[Slot(p)]
      BY <3>3 DEF ItemAt, Slot
    <3>5. Slot(p) \in Slots
      BY SlotFacts
    <3> QED BY <1>1, <1>2, <2>1, <3>1, <3>4, <3>5
  <2>2. CASE p # pos[w]
    <3>1. Slot(p) # Slot(pos[w])
      <4>1. CASE p <= pos[w]
        BY <1>2, <1>3, <1>4, <2>2, <4>1, OneRound
      <4>2. CASE pos[w] <= p
        BY <1>2, <1>3, <1>4, <2>2, <4>2, OneRound
      <4> QED BY <1>2, <4>1, <4>2
    <3>2. data'[Slot(p)] = data[Slot(p)]
      BY <1>1, <1>2, <3>1, SlotFacts
    <3>3. \A u \in Workers : /\ pos[u] = p => (pc[u] = "a_write" => pc'[u] = "a_write")
                             /\ pos'[u] = p => (pc'[u] = "a_write" => pc[u] = "a_write")
                             /\ pc[u] = "a_write" => pos'[u] = pos[u] /\ todo'[u] = todo[u]
      BY <1>1, <1>2, <2>2
    <3> QED BY <3>2, <3>3, ItemKept
  <2> QED BY <2>1, <2>2
<1>5. Contents' = Contents
  BY <1>1, <1>4, ContentsKept
<1>6. Taken' = Taken
  <2> SUFFICES ASSUME NEW u \in Workers, pc[u] = "r_read"
               PROVE  data'[Slot(pos[u])] = data[Slot(pos[u])]
    BY <1>1, <1>2 DEF Taken, Slot
  <2>1. Slot(pos[u]) # Slot(pos[w]) /\ Slot(pos[u]) \in Slots
    BY <1>1, OwnersApart, SlotFacts DEF Owns, IInv, TypeOK
  <2> QED BY <1>1, <1>2, <2>1
<1> QED BY <1>5, <1>6 DEF Same
LEMMA AppendIs ==
  ASSUME NEW S, NEW q \in Seq(S), NEW e \in S, NEW r \in Seq(S),
         Len(r) = Len(q) + 1, \A i \in 1..Len(q) : r[i] = q[i], r[Len(q) + 1] = e
  PROVE  r = Append(q, e)
<1> DEFINE a == Append(q, e)
<1>1. /\ a \in Seq(S) /\ Len(a) = Len(q) + 1
      /\ \A i \in 1..Len(q) : a[i] = q[i]
      /\ a[Len(q) + 1] = e
  BY AppendProperties
<1>2. Len(q) \in Nat
  OBVIOUS
<1> HIDE DEF a
<1>3. \A i \in 1..Len(r) : r[i] = a[i]
  <2> SUFFICES ASSUME NEW i \in 1..Len(r) PROVE r[i] = a[i]
    OBVIOUS
  <2>1. i \in 1..Len(q) \/ i = Len(q) + 1
    BY <1>2
  <2> QED BY <1>1, <2>1
<1>4. r = a
  BY <1>1, <1>3, SeqEqual
<1> QED BY <1>4 DEF a

LEMMA TailIs ==
  ASSUME NEW S, NEW q \in Seq(S), q # <<>>, NEW r \in Seq(S),
         Len(r) = Len(q) - 1, \A i \in 1..Len(r) : r[i] = q[i + 1]
  PROVE  r = Tail(q)
<1>1. /\ Tail(q) \in Seq(S) /\ Len(Tail(q)) = Len(q) - 1
      /\ \A i \in 1..Len(Tail(q)) : Tail(q)[i] = q[i + 1]
  BY HeadTailProperties
<1> QED BY <1>1, SeqEqual

\* A claimed position is at the end of the queue, with the producer's item.
LEMMA AddStepRefines ==
  ASSUME JInv, IInv', NEW w \in Workers, ClaimTail(w)
  PROVE  Fifo!Add
<1> USE DEF JInv
<1> DEFINE n == tail - head
           S == Items \cup {NoItem}
           e == ItemOf(w, todo[w])
<1>1. /\ pc[w] = "a_claim" /\ pos[w] = tail /\ tail' = tail + 1
      /\ pc' = [pc EXCEPT ![w] = "a_write"]
      /\ UNCHANGED <<data, seq, head, pos, todo, out>>
  BY DEF ClaimTail, Goto
<1>2. /\ pc'[w] = "a_write" /\ \A u \in Workers : u # w => pc'[u] = pc[u]
      /\ head \in Nat /\ tail \in Nat /\ head <= tail
  BY <1>1, CapacityAssumption DEF IInv, TypeOK
<1>3. n < Capacity /\ n \in Nat /\ n + 1 <= Capacity
  <2>1. tail' \in head'..(head' + Capacity) /\ Capacity \in Nat
    BY CapacityAssumption DEF IInv, TypeOK
  <2> QED BY <1>1, <1>2, <2>1
<1>4. e \in Items
  <2>1. Len(todo[w]) \in Nat /\ Len(todo[w]) <= OpsPerThread /\ OpsPerThread \in Nat
    BY WorkloadsAssumption DEF IInv, TypeOK
  <2> QED BY <2>1 DEF ItemOf, Items
<1>5. ASSUME NEW p, p = tail PROVE ItemAt(p)' = e
  BY <1>1, <1>2, <1>5, ItemWrittenNext
<1>6. ASSUME NEW p \in Nat, head <= p, p < tail PROVE ItemAt(p)' = ItemAt(p)
  <2>1. \A u \in Workers : /\ pos[u] = p => (pc[u] = "a_write" => pc'[u] = "a_write")
                           /\ pos'[u] = p => (pc'[u] = "a_write" => pc[u] = "a_write")
                           /\ pc[u] = "a_write" => pos'[u] = pos[u] /\ todo'[u] = todo[u]
    BY <1>1, <1>2, <1>6
  <2> QED BY <1>1, <2>1, ItemKept
<1>7. Contents \in Seq(S) /\ Len(Contents) = n /\ \A i \in 1..n : Contents[i] = ItemAt(head + i - 1)
  BY ContentsIs
<1>8. Contents' = [i \in 1..(n + 1) |-> IF i = n + 1 THEN e ELSE ItemAt(head + i - 1)]
  <2>1. \A i \in 1..(n + 1) :
          ItemAt(head + i - 1)' = IF i = n + 1 THEN e ELSE ItemAt(head + i - 1)
    <3> SUFFICES ASSUME NEW i \in 1..(n + 1)
                 PROVE  ItemAt(head + i - 1)' = IF i = n + 1 THEN e ELSE ItemAt(head + i - 1)
      OBVIOUS
    <3>1. CASE i = n + 1
      <4>1. head + i - 1 = tail
        BY <1>2, <3>1
      <4> QED BY <1>1, <1>5, <3>1, <4>1
    <3>2. CASE i # n + 1
      <4>1. head + i - 1 \in Nat /\ head <= head + i - 1 /\ head + i - 1 < tail
        BY <1>2, <1>3, <3>2
      <4> QED BY <1>1, <1>6, <3>2, <4>1
    <3> QED BY <3>1, <3>2
  <2>2. tail' - head' = n + 1
    BY <1>1, <1>2
  <2> QED BY <1>1, <2>1, <2>2 DEF Contents
<1>9. Contents' = Append(Contents, e)
  <2> DEFINE It(i) == ItemAt(head + i - 1)
             r == [i \in 1..(n + 1) |-> IF i = n + 1 THEN e ELSE It(i)]
  <2>1. \A i \in 1..n : It(i) \in S
    BY <1>7
  <2>2. e \in S /\ n \in Nat
    BY <1>3, <1>4
  <2>3. \A i \in 1..n : Contents[i] = It(i)
    BY <1>7
  <2>4. Contents' = r
    BY <1>8
  <2> HIDE DEF It, n, S, e
  <2>5. r \in Seq(S) /\ Len(r) = n + 1 /\ r[n + 1] = e /\ \A i \in 1..n : r[i] = It(i)
    BY <2>1, <2>2
  <2> HIDE DEF r
  <2>6. r = Append(Contents, e)
    BY <1>7, <2>2, <2>3, <2>5, AppendIs
  <2> QED BY <2>4, <2>6
<1>10. Taken' = Taken
  BY <1>1, <1>2 DEF Taken, Slot
<1>11. Len(Contents) < Capacity
  BY <1>3, <1>7
<1> QED BY <1>4, <1>9, <1>10, <1>11 DEF Fifo!Add

\* The oldest item leaves with its position: nobody is still writing it.
LEMMA RemoveStepRefines ==
  ASSUME JInv, IInv', NEW w \in Workers, ClaimHead(w)
  PROVE  Fifo!Remove(w)
<1> USE DEF JInv
<1> DEFINE n == tail - head
           S == Items \cup {NoItem}
<1>1. /\ pc[w] = "r_claim" /\ pos[w] = head /\ head' = head + 1
      /\ pc' = [pc EXCEPT ![w] = "r_read"]
      /\ UNCHANGED <<data, seq, tail, pos, todo, out>>
  BY DEF ClaimHead, Goto
<1>2. /\ pc'[w] = "r_read" /\ \A u \in Workers : u # w => pc'[u] = pc[u]
      /\ head \in Nat /\ tail \in Nat
  BY <1>1, CapacityAssumption DEF IInv, TypeOK
<1>3. head < tail /\ n \in Nat /\ n > 0
  <2>1. tail' \in head'..(head' + Capacity) /\ Capacity \in Nat
    BY CapacityAssumption DEF IInv, TypeOK
  <2> QED BY <1>1, <1>2, <2>1
<1>4. ItemAt(head) = data[Slot(head)]
  <2>1. seq[Slot(head)] = head + 1
    BY <1>1 DEF IInv, ClaimsInv
  <2>2. \A u \in Workers : pc[u] = "a_write" => seq[Slot(pos[u])] = pos[u]
    BY DEF IInv, OwnersInv, Producing
  <2>3. ~ \E u \in Workers : pc[u] = "a_write" /\ pos[u] = head
    BY <1>2, <2>1, <2>2
  <2> QED BY <2>3 DEF ItemAt
<1>5. ASSUME NEW p \in Nat PROVE ItemAt(p)' = ItemAt(p)
  <2>1. \A u \in Workers : /\ pos[u] = p => (pc[u] = "a_write" => pc'[u] = "a_write")
                           /\ pos'[u] = p => (pc'[u] = "a_write" => pc[u] = "a_write")
                           /\ pc[u] = "a_write" => pos'[u] = pos[u] /\ todo'[u] = todo[u]
    BY <1>1, <1>2
  <2> QED BY <1>1, <2>1, ItemKept
<1>6. Contents \in Seq(S) /\ Len(Contents) = n /\ \A i \in 1..n : Contents[i] = ItemAt(head + i - 1)
  BY ContentsIs
<1>7. Contents # <<>> /\ Head(Contents) = data[Slot(head)]
  <2>1. Len(Contents) > 0 /\ Contents # <<>>
    BY <1>3, <1>6
  <2>2. 1 \in 1..n /\ head + 1 - 1 = head
    BY <1>2, <1>3
  <2>3. Contents[1] = ItemAt(head)
    BY <1>6, <2>2
  <2>4. Head(Contents) = Contents[1]
    BY <1>6, <2>1
  <2> QED BY <1>4, <2>1, <2>3, <2>4
<1>8. Contents' = [i \in 1..(n - 1) |-> ItemAt(head + i)]
  <2>1. tail' - head' = n - 1
    BY <1>1, <1>2
  <2>2. \A i \in 1..(n - 1) : ItemAt(head + i - 1)' = ItemAt(head + i)
    <3> SUFFICES ASSUME NEW i \in 1..(n - 1) PROVE ItemAt(head + i - 1)' = ItemAt(head + i)
      OBVIOUS
    <3>1. head' + i - 1 = head + i /\ head + i \in Nat
      BY <1>1, <1>2
    <3> QED BY <1>5, <3>1
  <2> QED BY <2>1, <2>2 DEF Contents
<1>9. Contents' = Tail(Contents)
  <2> DEFINE It(i) == ItemAt(head + i)
             r == [i \in 1..(n - 1) |-> It(i)]
  <2>1. \A i \in 1..(n - 1) : It(i) = Contents[i + 1]
    <3> SUFFICES ASSUME NEW i \in 1..(n - 1) PROVE It(i) = Contents[i + 1]
      OBVIOUS
    <3>1. i + 1 \in 1..n /\ head + (i + 1) - 1 = head + i
      BY <1>2, <1>3
    <3> QED BY <1>6, <3>1
  <2>2. \A i \in 1..(n - 1) : It(i) \in S
    <3> SUFFICES ASSUME NEW i \in 1..(n - 1) PROVE It(i) \in S
      OBVIOUS
    <3>1. head + i \in Nat
      BY <1>2, <1>3
    <3> QED BY <3>1, ItemType
  <2>3. Contents' = r
    BY <1>8
  <2>4. n - 1 \in Nat
    BY <1>3
  <2> HIDE DEF It, n, S
  <2>5. r \in Seq(S) /\ Len(r) = n - 1 /\ \A i \in 1..(n - 1) : r[i] = It(i)
    BY <2>2, <2>4
  <2> HIDE DEF r
  <2>6. r = Tail(Contents)
    BY <1>6, <1>7, <2>1, <2>5, TailIs
  <2> QED BY <2>3, <2>6
<1>10. Taken' = [Taken EXCEPT ![w] = data[Slot(head)]]
  BY <1>1, <1>2 DEF Taken, Slot
<1> QED BY <1>7, <1>9, <1>10 DEF Fifo!Remove

-----------------------------------------------------------------------------
LEMMA StepRefines ==
  ASSUME JInv, IInv', [Next]_vars
  PROVE  [Fifo!Next]_(Fifo!vars)
<1>1. CASE UNCHANGED vars
  BY <1>1 DEF vars, Contents, ItemAt, ItemOf, Taken, Slot, Fifo!vars
<1>2. ASSUME NEW w \in Workers, AddStep(w) \/ RemoveStep(w)
      PROVE  [Fifo!Next]_(Fifo!vars)
  <2>1. CASE ClaimTail(w)
    BY <2>1, AddStepRefines DEF Fifo!Next
  <2>2. CASE ClaimHead(w)
    BY <2>2, RemoveStepRefines DEF Fifo!Next
  <2>3. CASE WriteData(w)
    BY <2>3, WriteStep DEF Same, Fifo!vars
  <2>4. CASE ~(ClaimTail(w) \/ ClaimHead(w) \/ WriteData(w))
    <3>1. Same
      BY <1>2, <2>4, QuietStep DEF AddStep, RemoveStep, JInv
    <3> QED BY <3>1 DEF Same, Fifo!vars
  <2> QED BY <2>1, <2>2, <2>3, <2>4
<1> QED BY <1>1, <1>2 DEF Next

LEMMA InitRefines ==
  ASSUME Init PROVE JInv /\ Fifo!Init
<1>1. IInv
  BY InitInv
<1>2. AheadInv
  BY DEF Init, AheadInv, Producing
<1>3. Taken = [w \in Workers |-> NoItem]
  BY DEF Init, Taken
<1>4. Capacity \in Nat /\ Capacity > 0 /\ Prefill \in 0..Capacity /\ head = 0 /\ tail = Prefill
  BY CapacityAssumption, PrefillAssumption DEF Init
<1>5. Len(Contents) = Prefill
  BY <1>1, <1>4, ContentsIs
<1>6. \A i \in 1..Prefill : ItemAt(i - 1) \in Items
  <2> SUFFICES ASSUME NEW i \in 1..Prefill PROVE ItemAt(i - 1) \in Items
    OBVIOUS
  <2>1. i - 1 \in Slots /\ i - 1 < Prefill
    BY <1>4 DEF Slots
  <2>2. ItemAt(i - 1) = data[Slot(i - 1)]
    BY DEF Init, ItemAt
  <2>3. data[i - 1] = <<Main, i - 1>>
    BY <2>1 DEF Init, PrefilledBuffer
  <2> QED BY <2>1, <2>2, <2>3, SlotOfFirstRound DEF Items
<1>7. Contents \in Seq(Items)
  <2> DEFINE It(i) == ItemAt(i - 1)
  <2>1. \A i \in 1..Prefill : ItemAt(head + i - 1) = It(i) /\ It(i) \in Items
    <3> SUFFICES ASSUME NEW i \in 1..Prefill PROVE ItemAt(head + i - 1) = It(i) /\ It(i) \in Items
      OBVIOUS
    <3>1. head + i - 1 = i - 1
      BY <1>4
    <3> QED BY <1>6, <3>1
  <2>2. tail - head = Prefill /\ Prefill \in Nat
    BY <1>4
  <2>3. Contents = [i \in 1..Prefill |-> It(i)]
    BY <2>1, <2>2 DEF Contents
  <2> HIDE DEF It
  <2> QED BY <2>1, <2>2, <2>3
<1> QED BY <1>1, <1>2, <1>3, <1>4, <1>5, <1>7 DEF JInv, Fifo!Init

\* noblocking_queue.hpp: add() and remove() implement a bounded first-in
\* first-out queue; an operation takes effect when its compare-exchange
\* succeeds.
THEOREM ImplementsFifo == Spec => RefinesFifo
<1>1. JInv /\ IInv' /\ [Next]_vars => JInv'
  <2> SUFFICES ASSUME JInv, IInv', [Next]_vars PROVE AheadInv'
    BY DEF JInv
  <2>1. CASE UNCHANGED vars
    BY <2>1 DEF vars, JInv, AheadInv, Producing
  <2> QED BY <2>1, AheadStep DEF Next
<1>2. Init => JInv /\ Fifo!Init
  BY InitRefines
<1>3. JInv /\ IInv' /\ [Next]_vars => [Fifo!Next]_(Fifo!vars)
  BY StepRefines
<1> QED BY <1>1, <1>2, <1>3, Invariance, PTL DEF Spec, RefinesFifo, Fifo!Spec
=============================================================================
