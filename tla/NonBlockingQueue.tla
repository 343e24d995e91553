-------------------------- MODULE NonBlockingQueue --------------------------
(***************************************************************************)
(* assignment2/noblocking_queue.hpp: a bounded queue of any number of      *)
(* producers and consumers without locks.  head and tail are positions     *)
(* that only grow; position p lives in slot p % Capacity, and the sequence *)
(* number of that slot tells whose turn it is: p when the producer of      *)
(* position p may fill it, p + 1 when the consumer of p may empty it,      *)
(* p + Capacity when it is free for the next round.                        *)
(*                                                                         *)
(* A step is one atomic load, store or compare-exchange, or one access to  *)
(* the data of a slot.  A relaxed load that returns a stale position is    *)
(* the same as a load made earlier by a thread that is then delayed.       *)
(* compare_exchange_weak may fail although the position is unchanged.      *)
(***************************************************************************)
EXTENDS BenchWorkload

\* With one slot, "filled by p" (p + 1) and "free for p + 1" are one number.
ASSUME TwoSlotsAssumption == Capacity >= 2

VARIABLES data,   \* data[i]: payload of slot i
          seq,    \* seq[i]: sequence number of slot i
          head,   \* next position to take
          tail,   \* next position to fill
          pos,    \* pos[w]: the position w last loaded
          todo,   \* todo[w]: operations w has not started yet
          pc,     \* pc[w]: where w is
          out     \* out[w]: the last item w read

vars == <<data, seq, head, tail, pos, todo, pc, out>>

Slot(p) == p % Capacity

Goto(w, label) == pc' = [pc EXCEPT ![w] = label]

\* The queue as the constructor and the pre-fill leave it.
Init == /\ data = PrefilledBuffer
        /\ seq = [i \in Slots |-> IF i < Prefill THEN i + 1 ELSE i]
        /\ head = 0
        /\ tail = Prefill
        /\ pos = [w \in Workers |-> 0]
        /\ todo \in Workloads
        /\ pc = [w \in Workers |-> "idle"]
        /\ out = [w \in Workers |-> NoItem]
-----------------------------------------------------------------------------
\* A worker starts its next operation, or tries the same one again.
Begin(w, op, retry) ==
  \/ pc[w] = retry /\ UNCHANGED todo
  \/ /\ pc[w] = "idle" /\ todo[w] # <<>> /\ Head(todo[w]) = op
     /\ todo' = [todo EXCEPT ![w] = Tail(@)]

(* add(item) *)

LoadTail(w) ==
  /\ Begin(w, "add", "a_load")
  /\ pos' = [pos EXCEPT ![w] = tail]
  /\ Goto(w, "a_seq")
  /\ UNCHANGED <<data, seq, head, tail, out>>

\* Too small a number: the queue is full.  Too large: another producer has
\* taken the position.  Either way, after backoff() or at once, load again.
CheckFree(w) ==
  /\ pc[w] = "a_seq"
  /\ Goto(w, IF seq[Slot(pos[w])] = pos[w] THEN "a_claim" ELSE "a_load")
  /\ UNCHANGED <<data, seq, head, tail, pos, todo, out>>

\* Mutant: a plain store where the compare-exchange is.
ClaimTailStore(w) ==
  /\ pc[w] = "a_claim"
  /\ tail' = pos[w] + 1
  /\ Goto(w, "a_write")
  /\ UNCHANGED <<data, seq, head, pos, todo, out>>

ClaimTail(w) ==
  /\ pc[w] = "a_claim"
  /\ tail = pos[w]
  /\ tail' = tail + 1
  /\ Goto(w, "a_write")
  /\ UNCHANGED <<data, seq, head, pos, todo, out>>

MissTail(w) ==
  /\ pc[w] = "a_claim"
  /\ Goto(w, "a_load")
  /\ UNCHANGED <<data, seq, head, tail, pos, todo, out>>

WriteData(w) ==
  /\ pc[w] = "a_write"
  /\ data' = [data EXCEPT ![Slot(pos[w])] = ItemOf(w, todo[w])]
  /\ Goto(w, "a_publish")
  /\ UNCHANGED <<seq, head, tail, pos, todo, out>>

Publish(w) ==
  /\ pc[w] = "a_publish"
  /\ seq' = [seq EXCEPT ![Slot(pos[w])] = pos[w] + 1]
  /\ Goto(w, "idle")
  /\ UNCHANGED <<data, head, tail, pos, todo, out>>

(* remove() *)

LoadHead(w) ==
  /\ Begin(w, "remove", "r_load")
  /\ pos' = [pos EXCEPT ![w] = head]
  /\ Goto(w, "r_seq")
  /\ UNCHANGED <<data, seq, head, tail, out>>

\* Too small a number: the queue is empty, or the producer of this position
\* has not published it yet.  Too large: another consumer has taken it.
\* Mutant: the consumer takes a slot that is claimed but not published.
CheckFilledEarly(w) ==
  /\ pc[w] = "r_seq"
  /\ Goto(w, IF seq[Slot(pos[w])] >= pos[w] THEN "r_claim" ELSE "r_load")
  /\ UNCHANGED <<data, seq, head, tail, pos, todo, out>>

CheckFilled(w) ==
  /\ pc[w] = "r_seq"
  /\ Goto(w, IF seq[Slot(pos[w])] = pos[w] + 1 THEN "r_claim" ELSE "r_load")
  /\ UNCHANGED <<data, seq, head, tail, pos, todo, out>>

ClaimHead(w) ==
  /\ pc[w] = "r_claim"
  /\ head = pos[w]
  /\ head' = head + 1
  /\ Goto(w, "r_read")
  /\ UNCHANGED <<data, seq, tail, pos, todo, out>>

MissHead(w) ==
  /\ pc[w] = "r_claim"
  /\ Goto(w, "r_load")
  /\ UNCHANGED <<data, seq, head, tail, pos, todo, out>>

ReadData(w) ==
  /\ pc[w] = "r_read"
  /\ out' = [out EXCEPT ![w] = data[Slot(pos[w])]]
  /\ Goto(w, "r_release")
  /\ UNCHANGED <<data, seq, head, tail, pos, todo>>

\* Mutant: the number of the next round is one too large.
ReleaseOffByOne(w) ==
  /\ pc[w] = "r_release"
  /\ seq' = [seq EXCEPT ![Slot(pos[w])] = pos[w] + Capacity + 1]
  /\ Goto(w, "idle")
  /\ UNCHANGED <<data, head, tail, pos, todo, out>>

Release(w) ==
  /\ pc[w] = "r_release"
  /\ seq' = [seq EXCEPT ![Slot(pos[w])] = pos[w] + Capacity]
  /\ Goto(w, "idle")
  /\ UNCHANGED <<data, head, tail, pos, todo, out>>
-----------------------------------------------------------------------------
AddStep(w) == \/ LoadTail(w) \/ CheckFree(w) \/ ClaimTail(w)
              \/ MissTail(w) \/ WriteData(w) \/ Publish(w)

RemoveStep(w) == \/ LoadHead(w) \/ CheckFilled(w) \/ ClaimHead(w)
                 \/ MissHead(w) \/ ReadData(w) \/ Release(w)

Next == \E w \in Workers : AddStep(w) \/ RemoveStep(w)

Spec == Init /\ [][Next]_vars

\* Every thread runs, and compare_exchange_weak does not fail spuriously
\* forever.
Fairness == \A w \in Workers : /\ WF_vars(AddStep(w) \/ RemoveStep(w))
                               /\ SF_vars(ClaimTail(w))
                               /\ SF_vars(ClaimHead(w))

FairSpec == Spec /\ Fairness
-----------------------------------------------------------------------------
Pcs == {"idle", "a_load", "a_seq", "a_claim", "a_write", "a_publish",
        "r_load", "r_seq", "r_claim", "r_read", "r_release"}

\* Every variable stays in its type; the claimed positions are at most one
\* round apart.
TypeOK == /\ data \in [Slots -> Items \cup {NoItem}]
          /\ seq \in [Slots -> Nat]
          /\ head \in Nat /\ tail \in head..(head + Capacity)
          /\ pos \in [Workers -> Nat]
          /\ todo \in [Workers -> Seq(Ops)]
          /\ \A w \in Workers : Len(todo[w]) <= OpsPerThread
          /\ pc \in [Workers -> Pcs]
          /\ out \in [Workers -> Items \cup {NoItem}]

\* A producer owns its slot from the claim to the publication, a consumer
\* from the claim to the release.
Owns(w) == pc[w] \in {"a_write", "a_publish", "r_read", "r_release"}

\* No two threads ever own one slot, whatever rounds their positions belong
\* to: the accesses to data, which is not atomic, never race.
SlotsExclusive ==
  \A w, u \in Workers :
    Owns(w) /\ Owns(u) /\ Slot(pos[w]) = Slot(pos[u]) => w = u

(* Why slots are exclusive: the inductive invariant.                        *)

Producing(w) == pc[w] \in {"a_write", "a_publish"}
Consuming(w) == pc[w] \in {"r_read", "r_release"}

\* An owner's position is claimed, and the slot's number still is the one
\* under which it was claimed.
OwnersInv ==
  \A w \in Workers :
    /\ Producing(w) => pos[w] < tail /\ seq[Slot(pos[w])] = pos[w]
    /\ Consuming(w) => pos[w] < head /\ seq[Slot(pos[w])] = pos[w] + 1

\* No position is claimed twice on the same side.
UniqueInv ==
  \A w, u \in Workers :
    /\ Producing(w) /\ Producing(u) /\ pos[w] = pos[u] => w = u
    /\ Consuming(w) /\ Consuming(u) /\ pos[w] = pos[u] => w = u

\* A successful compare-exchange proves that the number read before it is
\* still there; a position loaded earlier may only be out of date.
ClaimsInv ==
  \A w \in Workers :
    /\ pc[w] \in {"a_seq", "a_claim"} => pos[w] <= tail
    /\ pc[w] \in {"r_seq", "r_claim"} => pos[w] <= head
    /\ pc[w] = "a_claim" /\ pos[w] = tail => seq[Slot(tail)] = tail
    /\ pc[w] = "r_claim" /\ pos[w] = head => seq[Slot(head)] = head + 1

\* A filled slot was claimed, and a slot free for a later round was emptied.
RoundsInv ==
  \A p \in Nat :
    /\ seq[Slot(p)] = p + 1 => p < tail
    /\ seq[Slot(p)] = p /\ p >= Capacity => p - Capacity < head

IInv == TypeOK /\ OwnersInv /\ UniqueInv /\ ClaimsInv /\ RoundsInv

\* The item at a claimed position: the one its producer is about to write, or
\* the one in the slot.
ItemAt(p) == IF \E w \in Workers : pc[w] = "a_write" /\ pos[w] = p
             THEN LET w == CHOOSE w \in Workers : pc[w] = "a_write" /\ pos[w] = p
                  IN ItemOf(w, todo[w])
             ELSE data[Slot(p)]

\* The queue as its callers see it: add() and remove() take effect when they
\* claim their position.
Contents == [i \in 1..(tail - head) |-> ItemAt(head + i - 1)]
Taken == [w \in Workers |-> IF pc[w] = "r_read" THEN data[Slot(pos[w])] ELSE out[w]]

\* add() and remove() behave as those of a bounded first-in first-out queue,
\* although items are written and read after their positions are claimed.
Fifo == INSTANCE FifoQueue WITH items <- Contents, taken <- Taken
RefinesFifo == Fifo!Spec

\* Every worker gets through its whole slice.
AllFinish == <>(\A w \in Workers : todo[w] = <<>> /\ pc[w] = "idle")
=============================================================================
