----------------------------- MODULE DiningTable -----------------------------
(***************************************************************************)
(* What the programs of assignment1/program2 have in common: a table of    *)
(* philosophers, each a thread, and a counter under a mutex of its own,    *)
(* wait_mutex.                                                             *)
(***************************************************************************)
EXTENDS Integers

CONSTANTS N,      \* number of philosophers
          Nobody  \* owner of a free mutex

Philosophers == 0 .. N - 1

ASSUME NAssumption == N \in Nat /\ N >= 2
ASSUME NobodyAssumption == Nobody \notin Philosophers

VARIABLES wait,   \* owner of wait_mutex
          count,  \* the shared counter
          pc      \* pc[p]: where philosopher p is

Goto(p, label) == pc' = [pc EXCEPT ![p] = label]
=============================================================================
