------------------------- MODULE MCNonBlockingQueue -------------------------
(* Instances of NonBlockingQueue for TLC. *)
EXTENDS NonBlockingQueue, MCWorkload

\* Every worker whose operations are all additions or all removals, in a load
\* that leaves a legal number of items, finishes, although the queue runs
\* full and empty on the way: a spinning worker misses nothing.
BalancedFinish == todo \in BalancedWorkloads => AllFinish
=============================================================================
