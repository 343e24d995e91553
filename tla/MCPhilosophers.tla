--------------------------- MODULE MCPhilosophers ---------------------------
(***************************************************************************)
(* The programs of assignment1/program2 for TLC: version 1, or version 3,  *)
(* which version 4 is with five philosophers.  A behavior is one run of    *)
(* one of them; what belongs to the other one stays as it begins, such     *)
(* that the properties of the other one ask nothing of this run.           *)
(***************************************************************************)
EXTENDS Philosophers, GatedPhilosophers

VARIABLE version

v1 == <<fork, exited>>
v3 == <<chopsticks, mutex, exit_flag, main>>
allVars == <<v1, v3, wait, count, pc, version>>

VersionInit ==
  /\ version \in {1, 3}
  /\ fork = [i \in Philosophers |-> Nobody] /\ exited = (IF version = 1 THEN "no" ELSE "not run")
  /\ chopsticks = [i \in Philosophers |-> TRUE] /\ mutex = Nobody
  /\ exit_flag = FALSE /\ main = "spawn"
  /\ wait = Nobody /\ count = 0 /\ pc = [p \in Philosophers |-> "new"]

InV1(A) == version = 1 /\ A /\ UNCHANGED <<v3, version>>
InV3(A) == version = 3 /\ A /\ UNCHANGED <<v1, version>>

VersionNext == InV1(Next) \/ InV3(GatedNext)

VersionFairSpec ==
  /\ VersionInit /\ [][VersionNext]_allVars
  /\ WF_allVars(InV3(Return))
  /\ \A p \in Philosophers :
       /\ WF_allVars(InV1(Spawn(p))) /\ WF_allVars(InV1(Philosopher(p)))
       /\ WF_allVars(InV3(GatedSpawn(p))) /\ SF_allVars(InV3(GatedPhilosopher(p)))
=============================================================================
