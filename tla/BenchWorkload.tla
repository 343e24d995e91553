--------------------------- MODULE BenchWorkload ---------------------------
(***************************************************************************)
(* What run_benchmark_queue() of assignment2/main.cpp deals out: a queue   *)
(* of Capacity slots that the main thread has pre-filled, and for every    *)
(* worker a slice of OpsPerThread random operations with the values to     *)
(* add.  Both queues are modelled under this load.                         *)
(***************************************************************************)
EXTENDS Naturals, Sequences

CONSTANTS Workers,      \* worker threads
          Main,         \* the thread that pre-fills the queue
          NoItem,       \* what a worker holds before its first remove()
          Capacity,     \* number of slots
          Prefill,      \* items Main adds before the workers start
          OpsPerThread, \* operations in a worker's slice
          Workloads     \* the ways the operations may be dealt out

Ops == {"add", "remove"}

ASSUME CapacityAssumption == Capacity \in Nat \ {0}
ASSUME PrefillAssumption == Prefill \in 0..Capacity
ASSUME WorkloadsAssumption ==
  /\ OpsPerThread \in Nat
  /\ Workloads \subseteq [Workers -> [1..OpsPerThread -> Ops]]

Slots == 0..(Capacity - 1)

\* An item is told apart by who adds it and how many operations that worker
\* has left, or by the slot the main thread puts it in.
Items == (Workers \X (0..OpsPerThread)) \cup ({Main} \X Slots)
ItemOf(w, left) == <<w, Len(left)>>

\* The slots after shuffle_queue().
PrefilledBuffer == [i \in Slots |-> IF i < Prefill THEN <<Main, i>> ELSE NoItem]
=============================================================================
