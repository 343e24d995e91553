------------------------- MODULE PhilosophersProofs -------------------------
(***************************************************************************)
(* Safety of the dining philosophers, for a table of any size.             *)
(*                                                                         *)
(* Version 1 (Philosophers): the deadlock report is true, it never fails   *)
(* to come, and the look of a thinker at the count never reports.          *)
(* Versions 3 and 4 (GatedPhilosophers): no chopstick is in two hands, so  *)
(* neighbours take turns, and the gate keeps one philosopher out.          *)
(***************************************************************************)
EXTENDS Philosophers, GatedPhilosophers, RingArithmetic, FiniteSetTheorems

LeftLabels == {"wait_up", "up", "compare", "unlock_up", "right", "eat"}

RightLabels == {"eat", "wait_down", "down", "unlock_down", "unlock_right"}

WaitLabels == {"up", "compare", "unlock_up", "down", "unlock_down"}

CountedLabels == {"compare", "unlock_up", "right", "eat", "wait_down", "down"}

Counted == {p \in Philosophers : pc[p] \in CountedLabels}

Types == /\ fork \in [Philosophers -> Philosophers \cup {Nobody}]
         /\ wait \in Philosophers \cup {Nobody}
         /\ pc \in [Philosophers -> Labels]
         /\ exited \in {"no", "spawn", "look", "count"}

\* A philosopher owns the mutexes he has locked and not yet unlocked.
ForksInv == \A p \in Philosophers :
              /\ pc[p] \in LeftLabels => fork[p] = p
              /\ pc[p] \in RightLabels => fork[Right(p)] = p

WaitInv == \A p \in Philosophers : pc[p] \in WaitLabels => wait = p

CountInv == count = Cardinality(Counted)

\* A complete count is always in the hands of the one who compares.
ReportInv == /\ exited = "count" => Counted = Philosophers
             /\ Counted = Philosophers => \E p \in Philosophers : pc[p] = "compare"
             /\ exited # "look"

IInv == Types /\ ForksInv /\ WaitInv /\ CountInv /\ ReportInv
-----------------------------------------------------------------------------
LEMMA Neighbours ==
  ASSUME NEW p \in Philosophers
  PROVE  Right(p) \in Philosophers /\ Right(p) # p
<1>1. N \in Nat /\ N > 0 /\ N > 1 /\ p \in Nat /\ p \in 0..(N - 1)
  BY NAssumption DEF Philosophers
<1>2. (p + 1) % N \in 0..(N - 1)
  BY <1>1, DivMod
<1>3. p % N = p
  <2>1. p = N * 0 + p /\ 0 \in Int
    BY <1>1, SMT
  <2> QED BY <1>1, <2>1, ModIs
<1>4. (p + 1) % N # p % N
  BY <1>1, ModNeighbours
<1> QED BY <1>2, <1>3, <1>4 DEF Right, Philosophers

\* Different philosophers have different right forks.
LEMMA RightInjective ==
  ASSUME NEW p \in Philosophers, NEW q \in Philosophers, Right(p) = Right(q)
  PROVE  p = q
<1>1. N \in Nat /\ N > 0
  BY NAssumption
<1>2. ASSUME NEW r \in Philosophers
      PROVE  Right(r) = IF r + 1 = N THEN 0 ELSE r + 1
  <2>1. r \in Nat /\ r \in 0..(N - 1) /\ r = N * 0 + r /\ 0 \in Int
    BY <1>1, SMT DEF Philosophers
  <2>2. r % N = r
    BY <1>1, <2>1, ModIs
  <2>3. (r + 1) % N = IF (r % N) + 1 = N THEN 0 ELSE (r % N) + 1
    BY <1>1, <2>1, ModNext
  <2> QED BY <2>2, <2>3 DEF Right
<1> QED BY <1>1, <1>2 DEF Philosophers

LEMMA FinitelyMany ==
  IsFiniteSet(Philosophers) /\ Cardinality(Philosophers) = N
<1>1. N \in Nat /\ 0 \in Int /\ N - 1 \in Int
  BY NAssumption
<1>2. /\ IsFiniteSet(0..(N - 1))
      /\ Cardinality(0..(N - 1)) = IF 0 > N - 1 THEN 0 ELSE ((N - 1) - 0) + 1
  BY <1>1, FS_Interval
<1> QED BY <1>1, <1>2, NAssumption DEF Philosophers

LEMMA CountedFacts ==
  /\ Counted \in SUBSET Philosophers
  /\ IsFiniteSet(Counted)
  /\ Cardinality(Counted) \in 0..N
  /\ Cardinality(Counted) = N => Counted = Philosophers
<1>1. Counted \in SUBSET Philosophers
  BY DEF Counted
<1>2. /\ IsFiniteSet(Counted)
      /\ Cardinality(Counted) <= Cardinality(Philosophers)
      /\ Cardinality(Philosophers) = Cardinality(Counted) => Philosophers = Counted
  BY <1>1, FinitelyMany, FS_Subset
<1>3. Cardinality(Counted) \in Nat
  BY <1>2, FS_CardinalityType
<1> QED BY <1>1, <1>2, <1>3, FinitelyMany, NAssumption

\* The heart of the matter.  When all are counted and one of them compares,
\* nobody has a right fork: whoever has one keeps his right neighbour, who is
\* counted, off his left fork, so that the neighbour has eaten already and
\* has a right fork too; around the ring, so would the one who compares.
LEMMA CompleteCountIsDeadlock ==
  ASSUME IInv, Counted = Philosophers,
         NEW r \in Philosophers, pc[r] = "compare"
  PROVE  AllHoldLeft
<1> DEFINE S == {p \in Philosophers : pc[p] \in {"eat", "wait_down"}}
<1>1. wait = r
  BY DEF IInv, WaitInv, WaitLabels
<1>2. ASSUME NEW p \in Philosophers, p # r
      PROVE  pc[p] \in {"right", "eat", "wait_down"}
  <2>1. pc[p] \in CountedLabels /\ pc[p] \notin WaitLabels
    BY <1>1, <1>2 DEF IInv, WaitInv, Counted
  <2> QED BY <2>1 DEF CountedLabels, WaitLabels
<1>3. ASSUME NEW p \in S
      PROVE  Right(p) \in S
  <2>1. Right(p) \in Philosophers /\ Right(p) # p
    BY Neighbours
  <2>2. fork[Right(p)] = p
    BY DEF IInv, ForksInv, RightLabels
  <2>3. pc[Right(p)] \notin LeftLabels
    BY <2>1, <2>2 DEF IInv, ForksInv
  <2>4. Right(p) # r
    BY <2>3 DEF LeftLabels
  <2> QED BY <1>2, <2>1, <2>3, <2>4 DEF LeftLabels
<1>4. S = {}
  <2> SUFFICES ASSUME NEW h \in S PROVE FALSE
    OBVIOUS
  <2>1. N \in Nat /\ N > 0 /\ S \in SUBSET (0..(N - 1))
    BY NAssumption DEF Philosophers
  <2>2. \A x \in S : (x + 1) % N \in S
    BY <1>3 DEF Right
  <2> HIDE DEF S
  <2>3. S = 0..(N - 1)
    BY <2>1, <2>2, RingClosed
  <2> QED BY <2>3 DEF S, Philosophers
<1>5. ASSUME NEW p \in Philosophers
      PROVE  pc[p] \in {"compare", "unlock_up", "right"}
  BY <1>2, <1>4
<1> QED BY <1>5 DEF AllHoldLeft, IInv, ForksInv, LeftLabels
-----------------------------------------------------------------------------
LEMMA InitInv == Init => IInv
<1> SUFFICES ASSUME Init PROVE IInv
  OBVIOUS
<1>1. Counted = {} /\ Philosophers # {}
  <2>1. 0 \in Philosophers
    BY NAssumption DEF Philosophers
  <2>2. \A p \in Philosophers : pc[p] = "new"
    BY DEF Init
  <2> QED BY <2>1, <2>2 DEF Counted, CountedLabels
<1>2. Types /\ ForksInv /\ WaitInv
  BY DEF Init, Types, Labels, ForksInv, LeftLabels, RightLabels, WaitInv, WaitLabels
<1>3. CountInv
  BY <1>1, FS_EmptySet DEF Init, CountInv
<1> QED BY <1>1, <1>2, <1>3 DEF Init, IInv, ReportInv

\* A step that changes only the place of one philosopher, and leaves him on
\* the same side of the count, keeps the count right.
LEMMA SameCount ==
  ASSUME IInv, NEW p \in Philosophers, NEW to,
         exited = "no", Goto(p, to), UNCHANGED <<count, exited>>,
         pc[p] # "compare" \/ count # N,
         pc[p] \in CountedLabels <=> to \in CountedLabels,
         to # "compare"
  PROVE  CountInv' /\ ReportInv'
<1>1. pc' = [pc EXCEPT ![p] = to] /\ pc \in [Philosophers -> Labels]
  BY DEF Goto, IInv, Types
<1>2. Counted' = Counted
  BY <1>1 DEF Counted
<1>3. CountInv'
  BY <1>2 DEF IInv, CountInv
<1>4. Counted = Philosophers => \E q \in Philosophers : pc'[q] = "compare"
  <2> SUFFICES ASSUME Counted = Philosophers
               PROVE  \E q \in Philosophers : pc'[q] = "compare"
    OBVIOUS
  <2>1. PICK q \in Philosophers : pc[q] = "compare"
    BY DEF IInv, ReportInv
  <2>2. count = N
    BY FinitelyMany DEF IInv, CountInv
  <2>3. q # p
    BY <2>1, <2>2
  <2> QED BY <1>1, <2>1, <2>3
<1> QED BY <1>2, <1>3, <1>4 DEF ReportInv

LEMMA StepInv ==
  ASSUME IInv, NEW p \in Philosophers, Spawn(p) \/ Philosopher(p)
  PROVE  IInv'
<1> USE DEF IInv
<1>0. Types /\ ForksInv /\ WaitInv /\ CountInv /\ ReportInv /\ exited = "no"
  BY DEF Spawn, Philosopher, Look, LockLeft, LockUp, CountUp, Compare, UnlockUp,
         LockRight, UnlockLeft, LockDown, CountDown, UnlockDown, UnlockRight,
         LockFork, UnlockFork, LockWait, UnlockWait, Count, At
<1> USE <1>0
<1> USE DEF Types, ForksInv, WaitInv, Goto, At, Labels,
            LeftLabels, RightLabels, WaitLabels
<1>1. CASE Spawn(p)
  <2>1. CASE exited' = "spawn" /\ UNCHANGED pc
    BY <1>1, <2>1 DEF Spawn, CountInv, ReportInv, Counted
  <2>2. CASE Goto(p, "think") /\ UNCHANGED exited
    <3>1. Types' /\ ForksInv' /\ WaitInv'
      BY <1>1, <2>2 DEF Spawn
    <3>2. CountInv' /\ ReportInv'
      BY <1>1, <2>2, SameCount DEF Spawn, CountedLabels
    <3> QED BY <3>1, <3>2
  <2> QED BY <1>1, <2>1, <2>2 DEF Spawn
<1>2. CASE Look(p)
  <2>1. count # N
    <3>1. p \notin Counted
      BY <1>2 DEF Look, Counted, CountedLabels
    <3> QED BY <3>1, CountedFacts DEF CountInv
  <2>2. Goto(p, "left") /\ UNCHANGED <<fork, wait, count, exited>> /\ pc[p] = "think"
    BY <1>2, <2>1 DEF Look
  <2>3. Types' /\ ForksInv' /\ WaitInv'
    BY <2>2
  <2>4. CountInv' /\ ReportInv'
    BY <2>2, SameCount DEF CountedLabels
  <2> QED BY <2>3, <2>4
<1>3. CASE LockLeft(p)
  <2>1. Types' /\ WaitInv'
    BY <1>3 DEF LockLeft, LockFork
  <2>2. ForksInv'
    BY <1>3, Neighbours, NobodyAssumption DEF LockLeft, LockFork
  <2>3. CountInv' /\ ReportInv'
    BY <1>3, SameCount DEF LockLeft, LockFork, CountedLabels
  <2> QED BY <2>1, <2>2, <2>3
<1>4. CASE LockUp(p)
  <2>1. Types' /\ ForksInv' /\ WaitInv'
    BY <1>4, NobodyAssumption DEF LockUp, LockWait
  <2>2. CountInv' /\ ReportInv'
    BY <1>4, SameCount DEF LockUp, LockWait, CountedLabels
  <2> QED BY <2>1, <2>2
<1>5. CASE CountUp(p)
  <2>1. Types' /\ ForksInv' /\ WaitInv'
    BY <1>5 DEF CountUp, Count
  <2>2. p \notin Counted /\ Counted' = Counted \cup {p} /\ pc'[p] = "compare"
    BY <1>5 DEF CountUp, Count, Counted, CountedLabels
  <2>3. CountInv'
    <3>1. Cardinality(Counted \cup {p}) = Cardinality(Counted) + 1
      BY <2>2, CountedFacts, FS_AddElement
    <3> QED BY <1>5, <2>2, <3>1 DEF CountUp, Count, CountInv
  <2>4. ReportInv'
    BY <1>5, <2>2 DEF CountUp, Count, ReportInv
  <2> QED BY <2>1, <2>3, <2>4
<1>6. CASE Compare(p)
  <2>1. CASE count = N
    <3>1. exited' = "count" /\ UNCHANGED <<pc, fork, wait, count>>
      BY <1>6, <2>1 DEF Compare
    <3>2. Counted = Philosophers /\ Counted' = Counted
      BY <2>1, <3>1, CountedFacts DEF CountInv, Counted
    <3> QED BY <3>1, <3>2 DEF CountInv, ReportInv
  <2>2. CASE count # N
    <3>1. Goto(p, "unlock_up") /\ UNCHANGED <<fork, wait, count, exited>> /\ pc[p] = "compare"
      BY <1>6, <2>2 DEF Compare
    <3>2. Types' /\ ForksInv' /\ WaitInv'
      BY <3>1
    <3>3. CountInv' /\ ReportInv'
      BY <2>2, <3>1, SameCount DEF CountedLabels
    <3> QED BY <3>2, <3>3
  <2> QED BY <2>1, <2>2
<1>7. CASE UnlockUp(p)
  <2>1. Types' /\ ForksInv' /\ WaitInv'
    BY <1>7 DEF UnlockUp, UnlockWait
  <2>2. CountInv' /\ ReportInv'
    BY <1>7, SameCount DEF UnlockUp, UnlockWait, CountedLabels
  <2> QED BY <2>1, <2>2
<1>8. CASE LockRight(p)
  <2>1. Types' /\ WaitInv'
    BY <1>8, Neighbours DEF LockRight, LockFork
  <2>2. ForksInv'
    BY <1>8, Neighbours, RightInjective, NobodyAssumption DEF LockRight, LockFork
  <2>3. CountInv' /\ ReportInv'
    BY <1>8, SameCount DEF LockRight, LockFork, CountedLabels
  <2> QED BY <2>1, <2>2, <2>3
<1>9. CASE UnlockLeft(p)
  <2>1. Types' /\ WaitInv'
    BY <1>9 DEF UnlockLeft, UnlockFork
  <2>2. ForksInv'
    BY <1>9, Neighbours DEF UnlockLeft, UnlockFork
  <2>3. CountInv' /\ ReportInv'
    BY <1>9, SameCount DEF UnlockLeft, UnlockFork, CountedLabels
  <2> QED BY <2>1, <2>2, <2>3
<1>10. CASE LockDown(p)
  <2>1. Types' /\ ForksInv' /\ WaitInv'
    BY <1>10, NobodyAssumption DEF LockDown, LockWait
  <2>2. CountInv' /\ ReportInv'
    BY <1>10, SameCount DEF LockDown, LockWait, CountedLabels
  <2> QED BY <2>1, <2>2
<1>11. CASE CountDown(p)
  <2>1. Types' /\ ForksInv' /\ WaitInv'
    BY <1>11 DEF CountDown, Count
  <2>2. p \in Counted /\ Counted' = Counted \ {p}
    BY <1>11 DEF CountDown, Count, Counted, CountedLabels
  <2>3. CountInv'
    <3>1. Cardinality(Counted \ {p}) = Cardinality(Counted) - 1
      BY <2>2, CountedFacts, FS_RemoveElement
    <3> QED BY <1>11, <2>2, <3>1, CountedFacts DEF CountDown, Count, CountInv
  <2>4. ReportInv'
    BY <1>11, <2>2 DEF CountDown, Count, ReportInv
  <2> QED BY <2>1, <2>3, <2>4
<1>12. CASE UnlockDown(p)
  <2>1. Types' /\ ForksInv' /\ WaitInv'
    BY <1>12 DEF UnlockDown, UnlockWait
  <2>2. CountInv' /\ ReportInv'
    BY <1>12, SameCount DEF UnlockDown, UnlockWait, CountedLabels
  <2> QED BY <2>1, <2>2
<1>13. CASE UnlockRight(p)
  <2>1. Types' /\ WaitInv'
    BY <1>13, Neighbours DEF UnlockRight, UnlockFork
  <2>2. ForksInv'
    BY <1>13, Neighbours, RightInjective DEF UnlockRight, UnlockFork
  <2>3. CountInv' /\ ReportInv'
    BY <1>13, SameCount DEF UnlockRight, UnlockFork, CountedLabels
  <2> QED BY <2>1, <2>2, <2>3
<1> QED
  BY <1>1, <1>2, <1>3, <1>4, <1>5, <1>6, <1>7, <1>8, <1>9, <1>10, <1>11, <1>12, <1>13
  DEF Philosopher

LEMMA StutterInv == IInv /\ UNCHANGED vars => IInv'
BY DEF vars, IInv, Types, ForksInv, WaitInv, CountInv, ReportInv, Counted
-----------------------------------------------------------------------------
\* Who holds which mutex, and whom the count counts (version1.cpp:28-47).
THEOREM Invariance == Spec => []IInv
<1>1. IInv /\ [Next]_vars => IInv'
  <2> SUFFICES ASSUME IInv, [Next]_vars PROVE IInv'
    OBVIOUS
  <2>1. CASE UNCHANGED vars
    BY <2>1, StutterInv
  <2>2. CASE Ended
    BY <2>2, StutterInv DEF Ended
  <2>3. CASE \E p \in Philosophers : Spawn(p) \/ Philosopher(p)
    BY <2>3, StepInv
  <2> QED BY <2>1, <2>2, <2>3 DEF Next
<1> QED BY <1>1, InitInv, PTL DEF Spec

\* Type correctness; in particular the counter stays within 0 .. N.
THEOREM TypeCorrect == Spec => []TypeOK
<1>1. IInv => TypeOK
  BY CountedFacts DEF IInv, Types, CountInv, TypeOK
<1> QED BY <1>1, Invariance, PTL

\* The report of line 32 is true.
THEOREM ReportsAreTrue == Spec => []ReportIsTrue
<1>1. IInv => ReportIsTrue
  <2> SUFFICES ASSUME IInv, exited = "count" PROVE AllHoldLeft
    BY DEF ReportIsTrue
  <2>1. Counted = Philosophers
    BY DEF IInv, ReportInv
  <2>2. PICK r \in Philosophers : pc[r] = "compare"
    BY <2>1 DEF IInv, ReportInv
  <2> QED BY <2>1, <2>2, CompleteCountIsDeadlock
<1> QED BY <1>1, Invariance, PTL

\* The process does not hang in the deadlock it is there to find.
THEOREM DeadlocksAreReported == Spec => []DeadlockIsReported
<1>1. IInv => DeadlockIsReported
  <2> SUFFICES ASSUME IInv, \A p \in Philosophers : pc[p] = "right" PROVE FALSE
    BY DEF DeadlockIsReported
  <2>1. Counted = Philosophers
    BY DEF Counted, CountedLabels
  <2> QED BY <2>1 DEF IInv, ReportInv
<1> QED BY <1>1, Invariance, PTL

\* The report of line 24 never happens.
THEOREM LookIsDead == Spec => []LookNeverReports
<1>1. IInv => LookNeverReports
  BY DEF IInv, ReportInv, LookNeverReports
<1> QED BY <1>1, Invariance, PTL
-----------------------------------------------------------------------------
(* Versions 3 and 4.                                                       *)

WithChopsticks == {"lock_leave", "leave", "lock_put", "put"}

PastGate == {"lock_pick", "pick", "lock_leave", "leave"}

GatedLabels == {"new", "look", "left", "lock_gate", "gate"} \cup PastGate \cup WithChopsticks

GatedTypes == /\ chopsticks \in [Philosophers -> BOOLEAN]
              /\ mutex \in Philosophers \cup {Nobody}
              /\ wait \in Philosophers \cup {Nobody}
              /\ count \in Int
              /\ pc \in [Philosophers -> GatedLabels]

\* Whoever is between lock and unlock has the mutex, so that what he does there
\* may be one step.
LocksInv == \A p \in Philosophers : /\ pc[p] \in {"gate", "leave"} => wait = p
                                    /\ pc[p] \in {"pick", "put"} => mutex = p

\* Chopsticks in a hand are not on the table.
TakenInv ==
  \A p \in Philosophers : HasChopsticks(p) => \A i \in Chopsticks(p) : chopsticks[i] = FALSE

\* No chopstick is in two hands.
NoneShared ==
  \A p, q \in Philosophers :
    p # q /\ HasChopsticks(p) /\ HasChopsticks(q) => Chopsticks(p) \cap Chopsticks(q) = {}

\* A chopstick that is not on the table is in a hand.
HeldInv ==
  \A i \in Philosophers :
    chopsticks[i] = FALSE => \E p \in Philosophers : HasChopsticks(p) /\ i \in Chopsticks(p)

Passed == {p \in Philosophers : pc[p] \in PastGate}

\* count is the number of philosophers past the gate, never all of them.
GateInv == count = Cardinality(Passed) /\ count <= N - 1

GatedIInv == GatedTypes /\ LocksInv /\ TakenInv /\ NoneShared /\ HeldInv /\ GateInv
-----------------------------------------------------------------------------
LEMMA Table ==
  ASSUME NEW p \in Philosophers
  PROVE  Chopsticks(p) \subseteq Philosophers /\ p \in Chopsticks(p)
<1>1. Seats \in Nat /\ Seats > 0 /\ N \in Nat /\ N >= Seats /\ p + 1 \in Nat
  BY TableAssumption, NAssumption DEF Philosophers
<1>2. (p + 1) % Seats \in 0..(Seats - 1)
  BY <1>1, DivMod
<1> QED BY <1>1, <1>2 DEF Chopsticks, Philosophers

LEMMA PassedFinite == IsFiniteSet(Passed) /\ Cardinality(Passed) \in Nat
<1>1. Passed \in SUBSET Philosophers
  BY DEF Passed
<1>2. IsFiniteSet(Passed)
  BY <1>1, FinitelyMany, FS_Subset
<1> QED BY <1>2, FS_CardinalityType

LEMMA GatedInitInv == GatedInit => GatedIInv
<1> SUFFICES ASSUME GatedInit PROVE GatedIInv
  OBVIOUS
<1>1. GatedTypes
  BY TableAssumption, NAssumption DEF GatedInit, GatedTypes, GatedLabels
<1>2. \A p \in Philosophers : pc[p] = "new"
  BY DEF GatedInit
<1>3. LocksInv /\ TakenInv /\ NoneShared
  BY <1>2 DEF LocksInv, TakenInv, NoneShared, HasChopsticks
<1>h. HeldInv
  BY DEF HeldInv, GatedInit
<1>4. Passed = {}
  BY <1>2 DEF Passed, PastGate
<1>5. GateInv
  BY <1>4, FS_EmptySet, TableAssumption, NAssumption DEF GateInv, GatedInit
<1> QED BY <1>1, <1>3, <1>h, <1>5 DEF GatedIInv
-----------------------------------------------------------------------------

\* The types, the owners of the mutexes.
LEMMA LocksStep ==
  ASSUME GatedIInv, [GatedNext]_gatedVars
  PROVE  GatedTypes' /\ LocksInv'
<1> USE TableAssumption, NAssumption, NobodyAssumption
    DEF GatedIInv, GatedTypes, LocksInv, GatedLabels, PastGate, WithChopsticks, Goto, GatedAt
<1>1. CASE UNCHANGED gatedVars
  BY <1>1 DEF gatedVars
<1>2. CASE EndDinner \/ Return \/ Gone
  BY <1>2 DEF EndDinner, Return, Gone, gatedVars
<1>3. ASSUME NEW p \in Philosophers, GatedSpawn(p)
      PROVE  GatedTypes' /\ LocksInv'
  BY <1>3 DEF GatedSpawn
<1>4. ASSUME NEW p \in Philosophers, GatedPhilosopher(p)
      PROVE  GatedTypes' /\ LocksInv'
  <2>1. CASE GatedLook(p)
    BY <2>1 DEF GatedLook
  <2>2. CASE LockGate(p)
    BY <2>2 DEF LockGate, GatedLockWait
  <2>3. CASE PassGate(p)
    BY <2>3 DEF PassGate
  <2>4. CASE LockPick(p)
    BY <2>4 DEF LockPick, LockMutex
  <2>5. CASE Pick(p)
    BY <2>5 DEF Pick
  <2>6. CASE LockLeave(p)
    BY <2>6 DEF LockLeave, GatedLockWait
  <2>7. CASE LeaveGate(p)
    BY <2>7 DEF LeaveGate
  <2>8. CASE LockPut(p)
    BY <2>8 DEF LockPut, LockMutex
  <2>9. CASE Put(p)
    BY <2>9 DEF Put
  <2> QED BY <1>4, <2>1, <2>2, <2>3, <2>4, <2>5, <2>6, <2>7, <2>8, <2>9 DEF GatedPhilosopher
<1> QED BY <1>1, <1>2, <1>3, <1>4 DEF GatedNext

\* A step that neither moves a chopstick nor gives a philosopher any.
LEMMA HandsUnchanged ==
  ASSUME GatedIInv, chopsticks' = chopsticks,
         \A p \in Philosophers : HasChopsticks(p)' => HasChopsticks(p)
  PROVE  (TakenInv /\ NoneShared)'
BY DEF GatedIInv, TakenInv, NoneShared

LEMMA PickStep ==
  ASSUME GatedIInv, NEW p \in Philosophers, Pick(p)
  PROVE  (TakenInv /\ NoneShared)'
<1> USE DEF GatedIInv
<1>1. pc[p] = "pick" /\ ~HasChopsticks(p)
  BY DEF Pick, GatedAt, HasChopsticks
<1>2. \A q \in Philosophers : q # p => pc'[q] = pc[q]
  BY DEF Pick, Goto, GatedTypes
<1>3. \A q \in Philosophers : q # p => (HasChopsticks(q)' <=> HasChopsticks(q))
  BY <1>2 DEF HasChopsticks
<1>4. CASE \A i \in Chopsticks(p) : chopsticks[i]
  <2>1. chopsticks' = [i \in Philosophers |-> chopsticks[i] /\ i \notin Chopsticks(p)]
    BY <1>4 DEF Pick
  <2>2. \A i \in Philosophers : /\ i \in Chopsticks(p) => chopsticks'[i] = FALSE
                                /\ chopsticks[i] = FALSE => chopsticks'[i] = FALSE
    BY <2>1
  <2>3. \A q \in Philosophers :
          q # p /\ HasChopsticks(q) => Chopsticks(p) \cap Chopsticks(q) = {}
    BY <1>4 DEF TakenInv
  <2>4. TakenInv'
    <3> SUFFICES ASSUME NEW q \in Philosophers, HasChopsticks(q)', NEW i \in Chopsticks(q)
                 PROVE  chopsticks'[i] = FALSE
      BY DEF TakenInv, Chopsticks
    <3>1. i \in Philosophers
      BY Table
    <3>2. CASE q = p
      BY <2>2, <3>1, <3>2
    <3>3. CASE q # p
      <4>1. chopsticks[i] = FALSE
        BY <1>3, <3>3 DEF TakenInv
      <4> QED BY <2>2, <3>1, <4>1
    <3> QED BY <3>2, <3>3
  <2>5. NoneShared'
    <3> SUFFICES ASSUME NEW q \in Philosophers, NEW r \in Philosophers, q # r,
                        HasChopsticks(q)', HasChopsticks(r)'
                 PROVE  Chopsticks(q) \cap Chopsticks(r) = {}
      BY DEF NoneShared, Chopsticks
    <3>1. CASE q = p
      BY <1>3, <2>3, <3>1
    <3>2. CASE r = p
      BY <1>3, <2>3, <3>2
    <3>3. CASE q # p /\ r # p
      BY <1>3, <3>3 DEF NoneShared
    <3> QED BY <3>1, <3>2, <3>3
  <2> QED BY <2>4, <2>5
<1>5. CASE ~ \A i \in Chopsticks(p) : chopsticks[i]
  <2>1. chopsticks' = chopsticks /\ pc' = [pc EXCEPT ![p] = "lock_pick"]
    BY <1>5 DEF Pick, Goto
  <2>2. ~HasChopsticks(p)'
    BY <2>1 DEF HasChopsticks, GatedTypes
  <2> QED BY <1>3, <2>1, <2>2, HandsUnchanged
<1> QED BY <1>4, <1>5

\* What he puts back is nobody else's.
LEMMA PutStep ==
  ASSUME GatedIInv, NEW p \in Philosophers, Put(p)
  PROVE  (TakenInv /\ NoneShared)'
<1> USE DEF GatedIInv
<1>1. pc[p] = "put" /\ pc' = [pc EXCEPT ![p] = "look"]
  BY DEF Put, GatedAt, Goto
<1>2. \A q \in Philosophers : HasChopsticks(q)' => HasChopsticks(q) /\ q # p
  BY <1>1 DEF HasChopsticks, GatedTypes
<1>3. chopsticks' = [i \in Philosophers |-> chopsticks[i] \/ i \in Chopsticks(p)]
  BY DEF Put
<1>4. TakenInv'
  <2> SUFFICES ASSUME NEW q \in Philosophers, HasChopsticks(q)', NEW i \in Chopsticks(q)
               PROVE  chopsticks'[i] = FALSE
    BY DEF TakenInv, Chopsticks
  <2>1. i \in Philosophers /\ chopsticks[i] = FALSE
    BY <1>2, Table DEF TakenInv
  <2>2. HasChopsticks(p)
    BY <1>1 DEF HasChopsticks
  <2>3. i \notin Chopsticks(p)
    BY <1>2, <2>2 DEF NoneShared
  <2> QED BY <1>3, <2>1, <2>3
<1>5. NoneShared'
  BY <1>2 DEF NoneShared, Chopsticks
<1> QED BY <1>4, <1>5

LEMMA ChopsticksStep ==
  ASSUME GatedIInv, [GatedNext]_gatedVars
  PROVE  (TakenInv /\ NoneShared)'
<1> DEFINE Quiet == /\ chopsticks' = chopsticks
                    /\ \A p \in Philosophers : HasChopsticks(p)' => HasChopsticks(p)
<1> USE DEF GatedIInv
<1>1. Quiet => (TakenInv /\ NoneShared)'
  BY HandsUnchanged
<1>2. CASE UNCHANGED gatedVars \/ EndDinner \/ Return \/ Gone
  <2>1. UNCHANGED <<chopsticks, pc>>
    BY <1>2 DEF EndDinner, Return, Gone, gatedVars
  <2> QED BY <1>1, <2>1 DEF HasChopsticks
<1>3. ASSUME NEW p \in Philosophers, GatedSpawn(p)
      PROVE  (TakenInv /\ NoneShared)'
  <2>1. Quiet
    BY <1>3 DEF GatedSpawn, Goto, HasChopsticks, GatedTypes
  <2> QED BY <1>1, <2>1
<1>4. ASSUME NEW p \in Philosophers, GatedPhilosopher(p)
      PROVE  (TakenInv /\ NoneShared)'
  <2> USE DEF HasChopsticks, GatedTypes, Goto, GatedAt
  <2>1. CASE GatedLook(p) \/ LockGate(p) \/ PassGate(p)
    <3>1. Quiet
      BY <2>1 DEF GatedLook, LockGate, GatedLockWait, PassGate
    <3> QED BY <1>1, <3>1
  <2>2. CASE LockPick(p) \/ LockLeave(p) \/ LeaveGate(p) \/ LockPut(p)
    <3>1. Quiet
      BY <2>2 DEF LockPick, LockMutex, LockLeave, GatedLockWait, LeaveGate, LockPut
    <3> QED BY <1>1, <3>1
  <2>3. CASE Pick(p)
    BY <2>3, PickStep
  <2>4. CASE Put(p)
    BY <2>4, PutStep
  <2> QED BY <1>4, <2>1, <2>2, <2>3, <2>4 DEF GatedPhilosopher
<1> QED BY <1>2, <1>3, <1>4 DEF GatedNext
-----------------------------------------------------------------------------
\* Nobody loses a chopstick: who picks two up has them, who stops eating puts
\* both back.
LEMMA HeldStep ==
  ASSUME GatedIInv, [GatedNext]_gatedVars
  PROVE  HeldInv'
<1> DEFINE Quiet == /\ chopsticks' = chopsticks
                    /\ \A p \in Philosophers : HasChopsticks(p) => HasChopsticks(p)'
<1> USE DEF GatedIInv
<1>1. Quiet => HeldInv'
  BY DEF HeldInv, Chopsticks
<1>2. CASE UNCHANGED gatedVars \/ EndDinner \/ Return \/ Gone
  <2>1. UNCHANGED <<chopsticks, pc>>
    BY <1>2 DEF EndDinner, Return, Gone, gatedVars
  <2> QED BY <1>1, <2>1 DEF HasChopsticks
<1>3. ASSUME NEW p \in Philosophers, GatedSpawn(p)
      PROVE  HeldInv'
  <2>1. Quiet
    BY <1>3 DEF GatedSpawn, Goto, HasChopsticks, GatedTypes
  <2> QED BY <1>1, <2>1
<1>4. ASSUME NEW p \in Philosophers, Pick(p)
      PROVE  HeldInv'
  <2>1. pc[p] = "pick" /\ \A q \in Philosophers : q # p => pc'[q] = pc[q]
    BY <1>4 DEF Pick, GatedAt, Goto, GatedTypes
  <2>2. \A q \in Philosophers : HasChopsticks(q) => HasChopsticks(q)'
    BY <2>1 DEF HasChopsticks
  <2>3. CASE \A i \in Chopsticks(p) : chopsticks[i]
    <3>1. /\ chopsticks' = [i \in Philosophers |-> chopsticks[i] /\ i \notin Chopsticks(p)]
          /\ pc'[p] = "lock_leave"
      BY <1>4, <2>3 DEF Pick, Goto, GatedTypes
    <3>2. HasChopsticks(p)'
      BY <3>1 DEF HasChopsticks
    <3> SUFFICES ASSUME NEW i \in Philosophers, chopsticks'[i] = FALSE
                 PROVE  \E q \in Philosophers : HasChopsticks(q)' /\ i \in Chopsticks(q)
      BY DEF HeldInv, Chopsticks
    <3>3. CASE i \in Chopsticks(p)
      BY <3>2, <3>3
    <3>4. CASE i \notin Chopsticks(p)
      <4>1. chopsticks[i] = FALSE
        BY <3>1, <3>4 DEF GatedTypes
      <4>2. PICK q \in Philosophers : HasChopsticks(q) /\ i \in Chopsticks(q)
        BY <4>1 DEF HeldInv
      <4> QED BY <2>2, <4>2
    <3> QED BY <3>3, <3>4
  <2>4. CASE ~ \A i \in Chopsticks(p) : chopsticks[i]
    <3>1. chopsticks' = chopsticks
      BY <1>4, <2>4 DEF Pick
    <3> QED BY <1>1, <2>2, <3>1
  <2> QED BY <2>3, <2>4
<1>5. ASSUME NEW p \in Philosophers, Put(p)
      PROVE  HeldInv'
  <2>1. /\ \A q \in Philosophers : q # p => pc'[q] = pc[q]
        /\ chopsticks' = [i \in Philosophers |-> chopsticks[i] \/ i \in Chopsticks(p)]
    BY <1>5 DEF Put, Goto, GatedTypes
  <2>2. \A q \in Philosophers : q # p /\ HasChopsticks(q) => HasChopsticks(q)'
    BY <2>1 DEF HasChopsticks
  <2> SUFFICES ASSUME NEW i \in Philosophers, chopsticks'[i] = FALSE
               PROVE  \E q \in Philosophers : HasChopsticks(q)' /\ i \in Chopsticks(q)
    BY DEF HeldInv, Chopsticks
  <2>3. chopsticks[i] = FALSE /\ i \notin Chopsticks(p)
    BY <2>1 DEF GatedTypes
  <2>4. PICK q \in Philosophers : HasChopsticks(q) /\ i \in Chopsticks(q)
    BY <2>3 DEF HeldInv
  <2>5. q # p
    BY <2>3, <2>4
  <2> QED BY <2>2, <2>4, <2>5
<1>6. ASSUME NEW p \in Philosophers, GatedPhilosopher(p)
      PROVE  HeldInv'
  <2> USE DEF HasChopsticks, GatedTypes, Goto, GatedAt
  <2>1. CASE GatedLook(p) \/ LockGate(p) \/ PassGate(p)
    <3>1. Quiet
      BY <2>1 DEF GatedLook, LockGate, GatedLockWait, PassGate
    <3> QED BY <1>1, <3>1
  <2>2. CASE LockPick(p) \/ LockLeave(p) \/ LeaveGate(p) \/ LockPut(p)
    <3>1. Quiet
      BY <2>2 DEF LockPick, LockMutex, LockLeave, GatedLockWait, LeaveGate, LockPut
    <3> QED BY <1>1, <3>1
  <2> QED BY <1>4, <1>5, <1>6, <2>1, <2>2 DEF GatedPhilosopher
<1> QED BY <1>2, <1>3, <1>6 DEF GatedNext
-----------------------------------------------------------------------------
LEMMA GateStep ==
  ASSUME GatedIInv, [GatedNext]_gatedVars
  PROVE  GateInv'
<1> USE DEF GatedIInv
<1>1. count \in Nat /\ N \in Nat /\ N > 0
  BY PassedFinite, TableAssumption, NAssumption DEF GateInv
<1>2. (Passed' = Passed /\ count' = count) => GateInv'
  BY DEF GateInv
<1>3. CASE UNCHANGED gatedVars \/ EndDinner \/ Return \/ Gone
  BY <1>2, <1>3 DEF EndDinner, Return, Gone, gatedVars, Passed
<1>4. ASSUME NEW p \in Philosophers, GatedSpawn(p)
      PROVE  GateInv'
  <2>1. Passed' = Passed /\ count' = count
    BY <1>4 DEF GatedSpawn, Goto, GatedTypes, Passed, PastGate
  <2> QED BY <1>2, <2>1
<1>5. ASSUME NEW p \in Philosophers, PassGate(p), count # N - 1
      PROVE  GateInv'
  <2>1. /\ pc[p] = "gate" /\ pc' = [pc EXCEPT ![p] = "lock_pick"] /\ count' = count + 1
    BY <1>5 DEF PassGate, GatedAt, Goto
  <2>2. p \notin Passed /\ Passed' = Passed \cup {p}
    BY <2>1 DEF GatedTypes, Passed, PastGate
  <2>3. Cardinality(Passed') = Cardinality(Passed) + 1
    BY <2>2, PassedFinite, FS_AddElement
  <2> QED BY <1>1, <1>5, <2>1, <2>3 DEF GateInv
<1>6. ASSUME NEW p \in Philosophers, LeaveGate(p)
      PROVE  GateInv'
  <2>1. pc[p] = "leave" /\ pc' = [pc EXCEPT ![p] = "lock_put"] /\ count' = count - 1
    BY <1>6 DEF LeaveGate, GatedAt, Goto
  <2>2. p \in Passed /\ Passed' = Passed \ {p}
    BY <2>1 DEF GatedTypes, Passed, PastGate
  <2>3. Cardinality(Passed') = Cardinality(Passed) - 1
    BY <2>2, PassedFinite, FS_RemoveElement
  <2> QED BY <1>1, <2>1, <2>3 DEF GateInv
<1>7. ASSUME NEW p \in Philosophers, GatedPhilosopher(p)
      PROVE  GateInv'
  <2> USE DEF GatedTypes, Passed, PastGate, Goto, GatedAt
  <2>1. CASE GatedLook(p) \/ LockGate(p) \/ LockPick(p)
    <3>1. Passed' = Passed /\ count' = count
      BY <2>1 DEF GatedLook, LockGate, GatedLockWait, LockPick, LockMutex
    <3> QED BY <1>2, <3>1
  <2>2. CASE PassGate(p)
    <3>1. CASE count = N - 1
      <4>1. Passed' = Passed /\ count' = count
        BY <2>2, <3>1 DEF PassGate
      <4> QED BY <1>2, <4>1
    <3> QED BY <1>5, <2>2, <3>1
  <2>3. CASE Pick(p) \/ LockLeave(p) \/ LockPut(p) \/ Put(p)
    <3>1. Passed' = Passed /\ count' = count
      BY <2>3 DEF Pick, LockLeave, GatedLockWait, LockPut, LockMutex, Put
    <3> QED BY <1>2, <3>1
  <2>4. CASE LeaveGate(p)
    BY <1>6, <2>4
  <2> QED BY <1>7, <2>1, <2>2, <2>3, <2>4 DEF GatedPhilosopher
<1> QED BY <1>3, <1>4, <1>7 DEF GatedNext
-----------------------------------------------------------------------------
\* The invariant holds in every reachable state.
THEOREM GatedInvariance == GatedSpec => []GatedIInv
<1>1. GatedIInv /\ [GatedNext]_gatedVars => GatedIInv'
  BY LocksStep, ChopsticksStep, HeldStep, GateStep DEF GatedIInv
<1> QED BY <1>1, GatedInitInv, PTL DEF GatedSpec

\* version3.cpp and version4.cpp: no chopstick is in two hands, also where
\* version 4 computes the second one modulo the wrong number.
THEOREM ChopsticksAreExclusive == GatedSpec => []NoneShared
BY GatedInvariance, PTL DEF GatedIInv

\* version3.cpp and version4.cpp: a philosopher who waits for chopsticks has none,
\* and waits for one who eats and is not waiting for any: a chopstick is missing
\* from the table only while somebody past the pick has it.  So there is no
\* cycle of waiting philosophers, with the wrong modulus either.
THEOREM ChopsticksAreNotLost ==
  GatedSpec => [](\A i \in Philosophers :
               ~chopsticks[i] <=> \E p \in Philosophers : HasChopsticks(p) /\ i \in Chopsticks(p))
<1>1. GatedIInv => \A i \in Philosophers :
        ~chopsticks[i] <=> \E p \in Philosophers : HasChopsticks(p) /\ i \in Chopsticks(p)
  BY DEF GatedIInv, GatedTypes, TakenInv, HeldInv
<1> QED BY <1>1, GatedInvariance, PTL

\* version3.cpp: while (count == 4): one philosopher at least is not past the
\* gate, at a table of any size.
THEOREM GateKeepsOneOut == GatedSpec => [](Passed # Philosophers)
<1>1. GatedIInv => Passed # Philosophers
  BY FinitelyMany, TableAssumption, NAssumption DEF GatedIInv, GateInv
<1> QED BY <1>1, GatedInvariance, PTL

\* When the modulus fits the table, neighbours never have chopsticks at once.
THEOREM NeighboursDoTakeTurns ==
  ASSUME Seats = N
  PROVE  GatedSpec => []NeighboursTakeTurns
<1>1. GatedIInv => NeighboursTakeTurns
  <2> SUFFICES ASSUME GatedIInv, NEW p \in Philosophers
               PROVE  ~(HasChopsticks(p) /\ HasChopsticks((p + 1) % N))
    BY DEF NeighboursTakeTurns
  <2> DEFINE q == (p + 1) % N
  <2>1. N \in Nat /\ N > 1 /\ N > 0 /\ p \in Nat /\ p \in 0..(N - 1) /\ p + 1 \in Nat
    BY TableAssumption, NAssumption DEF Philosophers
  <2>2. q \in Philosophers
    BY <2>1, DivMod DEF Philosophers
  <2>3. p % N = p
    <3>1. p = N * 0 + p /\ 0 \in Int
      BY <2>1, SMT
    <3> QED BY <2>1, <3>1, ModIs
  <2>4. q # p
    BY <2>1, <2>3, ModNeighbours
  <2>5. q \in Chopsticks(p) /\ q \in Chopsticks(q)
    BY <2>2, Table DEF Chopsticks
  <2> HIDE DEF q
  <2>6. ~(HasChopsticks(p) /\ HasChopsticks(q))
    BY <2>2, <2>4, <2>5 DEF GatedIInv, NoneShared
  <2> QED BY <2>6 DEF q
<1> QED BY <1>1, GatedInvariance, PTL
=============================================================================
