---------------------------- MODULE Philosophers ----------------------------
(***************************************************************************)
(* assignment1/program2/version1.cpp: the dining philosophers who take the *)
(* left fork, then the right one, and watch for their own deadlock.  A     *)
(* philosopher counts himself once he has his left fork, and leaves the    *)
(* count after putting it down; the one who brings the count to N reports  *)
(* a deadlock and ends the process.                                        *)
(*                                                                         *)
(* A step is one lock, one unlock or one access to count.  The program     *)
(* has N = 5.                                                              *)
(***************************************************************************)
EXTENDS DiningTable

VARIABLES fork,   \* fork[i]: owner of mutex[i], one for each philosopher
          exited  \* how the process ended, or "no"

vars == <<fork, wait, count, pc, exited>>

Right(p) == (p + 1) % N

Init == /\ fork = [i \in Philosophers |-> Nobody]
        /\ wait = Nobody
        /\ count = 0
        /\ pc = [p \in Philosophers |-> "new"]
        /\ exited = "no"

At(p, label) == pc[p] = label /\ exited = "no"
-----------------------------------------------------------------------------
\* main creates the threads in order, or gives up.
Spawn(p) ==
  /\ At(p, "new")
  /\ \A q \in 0 .. p - 1 : pc[q] # "new"
  /\ \/ Goto(p, "think") /\ UNCHANGED exited
     \/ exited' = "spawn" /\ UNCHANGED pc
  /\ UNCHANGED <<fork, wait, count>>

\* A thinker looks at the count without a lock.
Look(p) ==
  /\ At(p, "think")
  /\ IF count = N THEN exited' = "look" /\ UNCHANGED pc
                  ELSE Goto(p, "left") /\ UNCHANGED exited
  /\ UNCHANGED <<fork, wait, count>>

LockFork(p, i, from, to) ==
  /\ At(p, from)
  /\ fork[i] = Nobody
  /\ fork' = [fork EXCEPT ![i] = p]
  /\ Goto(p, to)
  /\ UNCHANGED <<wait, count, exited>>

UnlockFork(p, i, from, to) ==
  /\ At(p, from)
  /\ fork' = [fork EXCEPT ![i] = Nobody]
  /\ Goto(p, to)
  /\ UNCHANGED <<wait, count, exited>>

LockWait(p, from, to) ==
  /\ At(p, from)
  /\ wait = Nobody
  /\ wait' = p
  /\ Goto(p, to)
  /\ UNCHANGED <<fork, count, exited>>

UnlockWait(p, from, to) ==
  /\ At(p, from)
  /\ wait' = Nobody
  /\ Goto(p, to)
  /\ UNCHANGED <<fork, count, exited>>

Count(p, change, from, to) ==
  /\ At(p, from)
  /\ count' = count + change
  /\ Goto(p, to)
  /\ UNCHANGED <<fork, wait, exited>>
-----------------------------------------------------------------------------
LockLeft(p) == LockFork(p, p, "left", "wait_up")

LockUp(p) == LockWait(p, "wait_up", "up")

CountUp(p) == Count(p, 1, "up", "compare")

\* Mutant: the report needs one philosopher more than there are.
CompareLate(p) ==
  /\ At(p, "compare")
  /\ IF count > N THEN exited' = "count" /\ UNCHANGED pc
                  ELSE Goto(p, "unlock_up") /\ UNCHANGED exited
  /\ UNCHANGED <<fork, wait, count>>

\* The philosopher who completes the count destroys the forks and exits.
\* By then every fork is locked, and destroying a locked mutex only fails.
Compare(p) ==
  /\ At(p, "compare")
  /\ IF count = N THEN exited' = "count" /\ UNCHANGED pc
                  ELSE Goto(p, "unlock_up") /\ UNCHANGED exited
  /\ UNCHANGED <<fork, wait, count>>

UnlockUp(p) == UnlockWait(p, "unlock_up", "right")

LockRight(p) == LockFork(p, Right(p), "right", "eat")

\* Mutant: both forks are put down before the count is decremented.
UnlockBoth(p) ==
  /\ At(p, "eat")
  /\ fork' = [fork EXCEPT ![p] = Nobody, ![Right(p)] = Nobody]
  /\ Goto(p, "wait_down")
  /\ UNCHANGED <<wait, count, exited>>

UnlockLeft(p) == UnlockFork(p, p, "eat", "wait_down")

LockDown(p) == LockWait(p, "wait_down", "down")

CountDown(p) == Count(p, -1, "down", "unlock_down")

\* Mutant: wait_mutex stays locked.
UnlockDownMissing(p) ==
  /\ At(p, "unlock_down")
  /\ Goto(p, "unlock_right")
  /\ UNCHANGED <<fork, wait, count, exited>>

UnlockDown(p) == UnlockWait(p, "unlock_down", "unlock_right")

UnlockRight(p) == UnlockFork(p, Right(p), "unlock_right", "think")
-----------------------------------------------------------------------------
Philosopher(p) ==
  \/ Look(p)       \/ LockLeft(p)   \/ LockUp(p)     \/ CountUp(p)
  \/ Compare(p)    \/ UnlockUp(p)   \/ LockRight(p)  \/ UnlockLeft(p)
  \/ LockDown(p)   \/ CountDown(p)  \/ UnlockDown(p) \/ UnlockRight(p)

\* The process is gone.
Ended == exited # "no" /\ UNCHANGED vars

Next == Ended \/ \E p \in Philosophers : Spawn(p) \/ Philosopher(p)

Spec == Init /\ [][Next]_vars

\* Every thread that can take a step eventually does.  No mutex is promised
\* to any particular one of the threads that keep asking for it.
FairSpec == /\ Spec
            /\ \A p \in Philosophers :
                 WF_vars(Spawn(p)) /\ WF_vars(Philosopher(p))
-----------------------------------------------------------------------------
Labels == {"new", "think", "left", "wait_up", "up", "compare", "unlock_up",
           "right", "eat", "wait_down", "down", "unlock_down", "unlock_right"}

\* Every variable stays in its type; the count never leaves 0 .. N.
TypeOK == /\ fork \in [Philosophers -> Philosophers \cup {Nobody}]
          /\ wait \in Philosophers \cup {Nobody}
          /\ count \in 0 .. N
          /\ pc \in [Philosophers -> Labels]
          /\ exited \in {"no", "spawn", "look", "count"}

\* Everybody holds the left fork and has yet to take the right one.
AllHoldLeft == \A p \in Philosophers :
                 fork[p] = p /\ pc[p] \in {"compare", "unlock_up", "right"}

\* "DeadLock!" is printed at line 32 only when there is one: all forks are
\* taken as left forks.  This needs the order of lines 43 to 47: a
\* philosopher keeps his right fork until he has left the count.
ReportIsTrue == exited = "count" => AllHoldLeft

\* A deadlock never goes unreported: the philosophers are never all blocked
\* on their right forks in a process that is still running.
DeadlockIsReported == exited = "no" => \E p \in Philosophers : pc[p] # "right"

\* The report at line 24, of a thinker who reads count without the lock, is
\* dead code: whoever completes the count exits holding wait_mutex, and
\* no one can be thinking by then.
LookNeverReports == exited # "look"

\* Somebody eats again and again, unless the process ends.
SomebodyEats == []<>(exited # "no" \/ \E p \in Philosophers : pc[p] = "eat")
=============================================================================
