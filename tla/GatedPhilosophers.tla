-------------------------- MODULE GatedPhilosophers --------------------------
(***************************************************************************)
(* assignment1/program2/version3.cpp and version4.cpp: philosophers who    *)
(* pass a gate that admits N - 1 of them, pick up both chopsticks at once  *)
(* under one mutex, leave the gate, eat and put both back; the user ends   *)
(* the dinner.  Version 3 is five philosophers at a table of Seats = 5;    *)
(* version 4 asks for N, sizes the table and the gate by it, but still     *)
(* computes the second chopstick modulo Seats = 5 and joins five threads.  *)
(*                                                                         *)
(* A step is one lock, one unlock or what a thread does holding a mutex;   *)
(* the chopsticks and the count are only touched under theirs.  count is   *)
(* the number of philosophers past the gate who have no chopsticks yet.    *)
(***************************************************************************)
EXTENDS DiningTable

CONSTANT Seats  \* the modulus of the second chopstick, and the threads joined

\* With fewer philosophers than Seats the program indexes past its vectors.
ASSUME TableAssumption == Seats \in Nat /\ Seats >= 2 /\ N >= Seats

VARIABLES chopsticks,  \* chopsticks[i]: TRUE when i lies on the table
          mutex,       \* owner of mutex
          exit_flag,   \* the user has ended the dinner
          main         \* where the main thread is

gatedVars == <<chopsticks, mutex, wait, count, exit_flag, pc, main>>

Chopsticks(p) == {p, (p + 1) % Seats}

GatedInit == /\ chopsticks = [i \in Philosophers |-> TRUE]
             /\ mutex = Nobody
             /\ wait = Nobody
             /\ count = 0
             /\ exit_flag = FALSE
             /\ pc = [p \in Philosophers |-> "new"]
             /\ main = "spawn"

\* Once main has returned or exited, no thread takes another step.
GatedAt(p, label) == pc[p] = label /\ main # "gone"

LockMutex(p, from, to) ==
  /\ GatedAt(p, from) /\ mutex = Nobody
  /\ mutex' = p
  /\ Goto(p, to)
  /\ UNCHANGED <<chopsticks, wait, count, exit_flag, main>>

GatedLockWait(p, from, to) ==
  /\ GatedAt(p, from) /\ wait = Nobody
  /\ wait' = p
  /\ Goto(p, to)
  /\ UNCHANGED <<chopsticks, mutex, count, exit_flag, main>>
-----------------------------------------------------------------------------
\* The flag is read without exit_mutex.
GatedLook(p) ==
  /\ GatedAt(p, "look")
  /\ Goto(p, IF exit_flag THEN "left" ELSE "lock_gate")
  /\ UNCHANGED <<chopsticks, mutex, wait, count, exit_flag, main>>

LockGate(p) == GatedLockWait(p, "lock_gate", "gate")

\* Admitted, or unlock and lock again.
PassGate(p) ==
  /\ GatedAt(p, "gate")
  /\ IF count = N - 1 THEN Goto(p, "lock_gate") /\ UNCHANGED count
                      ELSE Goto(p, "lock_pick") /\ count' = count + 1
  /\ wait' = Nobody
  /\ UNCHANGED <<chopsticks, mutex, exit_flag, main>>

LockPick(p) == LockMutex(p, "lock_pick", "pick")

\* Mutant: one chopstick on the table is enough.
PickAny(p) ==
  /\ GatedAt(p, "pick")
  /\ IF \E i \in Chopsticks(p) : chopsticks[i]
     THEN /\ Goto(p, "lock_leave")
          /\ chopsticks' = [i \in Philosophers |->
                              chopsticks[i] /\ i \notin Chopsticks(p)]
     ELSE Goto(p, "lock_pick") /\ UNCHANGED chopsticks
  /\ mutex' = Nobody
  /\ UNCHANGED <<wait, count, exit_flag, main>>

\* Both chopsticks, or unlock and lock again.
Pick(p) ==
  /\ GatedAt(p, "pick")
  /\ IF \A i \in Chopsticks(p) : chopsticks[i]
     THEN /\ Goto(p, "lock_leave")
          /\ chopsticks' = [i \in Philosophers |->
                              chopsticks[i] /\ i \notin Chopsticks(p)]
     ELSE Goto(p, "lock_pick") /\ UNCHANGED chopsticks
  /\ mutex' = Nobody
  /\ UNCHANGED <<wait, count, exit_flag, main>>

LockLeave(p) == GatedLockWait(p, "lock_leave", "leave")

\* Mutant: the gate counts the philosopher for good.
LeaveGateCounted(p) ==
  /\ GatedAt(p, "leave")
  /\ Goto(p, "lock_put")
  /\ wait' = Nobody
  /\ UNCHANGED <<chopsticks, mutex, count, exit_flag, main>>

LeaveGate(p) ==
  /\ GatedAt(p, "leave")
  /\ count' = count - 1
  /\ wait' = Nobody
  /\ Goto(p, "lock_put")
  /\ UNCHANGED <<chopsticks, mutex, exit_flag, main>>

\* The philosopher eats until he has the mutex again.
LockPut(p) == LockMutex(p, "lock_put", "put")

Put(p) ==
  /\ GatedAt(p, "put")
  /\ chopsticks' = [i \in Philosophers |-> chopsticks[i] \/ i \in Chopsticks(p)]
  /\ mutex' = Nobody
  /\ Goto(p, "look")
  /\ UNCHANGED <<wait, count, exit_flag, main>>

GatedPhilosopher(p) ==
  \/ GatedLook(p)      \/ LockGate(p)   \/ PassGate(p)  \/ LockPick(p)  \/ Pick(p)
  \/ LockLeave(p) \/ LeaveGate(p)  \/ LockPut(p)   \/ Put(p)
-----------------------------------------------------------------------------
\* pthread_create, in order; when it fails the process exits.
GatedSpawn(p) ==
  /\ main = "spawn" /\ pc[p] = "new"
  /\ \A q \in 0 .. p - 1 : pc[q] # "new"
  /\ \/ Goto(p, "look") /\ main' = (IF p = N - 1 THEN "input" ELSE "spawn")
     \/ main' = "gone" /\ UNCHANGED pc
  /\ UNCHANGED <<chopsticks, mutex, wait, count, exit_flag>>

\* The user types "n"; the flag has a mutex of its own that nobody else takes.
EndDinner ==
  /\ main = "input"
  /\ exit_flag' = TRUE
  /\ main' = "join"
  /\ UNCHANGED <<chopsticks, mutex, wait, count, pc>>

\* All joined, main destroys the mutexes and returns.
Return ==
  /\ main = "join"
  /\ \A p \in 0 .. Seats - 1 : pc[p] = "left"
  /\ main' = "gone"
  /\ UNCHANGED <<chopsticks, mutex, wait, count, exit_flag, pc>>

Gone == main = "gone" /\ UNCHANGED gatedVars

GatedNext == \/ EndDinner \/ Return \/ Gone
        \/ \E p \in Philosophers : GatedSpawn(p) \/ GatedPhilosopher(p)

GatedSpec == GatedInit /\ [][GatedNext]_gatedVars

\* A thread that keeps asking for a mutex eventually gets it (the fairness of a
\* philosopher is strong: he asks for one mutex at a time, and the spinning
\* threads release theirs again and again).  The user may let the dinner last
\* forever.
GatedFairSpec ==
  /\ GatedSpec
  /\ WF_gatedVars(Return)
  /\ \A p \in Philosophers : WF_gatedVars(GatedSpawn(p)) /\ SF_gatedVars(GatedPhilosopher(p))
-----------------------------------------------------------------------------
HasChopsticks(p) == pc[p] \in {"lock_leave", "leave", "lock_put", "put"}

\* Of two neighbours at the round table, at most one has chopsticks.
NeighboursTakeTurns ==
  \A p \in Philosophers :
    LET q == (p + 1) % N IN ~(HasChopsticks(p) /\ HasChopsticks(q))

\* Once the user has ended the dinner, main returns: every philosopher who is
\* hungry at that moment still gets through the gate, gets his chopsticks,
\* and looks at the flag.
DinnerEnds == exit_flag ~> main = "gone"
=============================================================================
