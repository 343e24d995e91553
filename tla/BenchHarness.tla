---------------------------- MODULE BenchHarness ----------------------------
(***************************************************************************)
(* assignment2/main.cpp, run_benchmark_queue: the main thread spawns the   *)
(* workers, waits at most ten seconds until all are ready, starts them,    *)
(* joins them and reports the time.  A queue operation, which the other    *)
(* modules model, begins and ends here: it returns, throws, or blocks or   *)
(* spins for ever.                                                         *)
(*                                                                         *)
(* An exception that leaves worker_fn, or a vector of joinable threads     *)
(* that is destroyed, calls std::terminate.                                *)
(***************************************************************************)
EXTENDS Naturals, FiniteSets

CONSTANTS Workers,       \* the workers, spawned in any order
          OpsPerThread   \* operations of each worker

ASSUME WorkersAssumption == IsFiniteSet(Workers) /\ Workers # {}
ASSUME OpsAssumption == OpsPerThread \in Nat

VARIABLES ready_count, start_flag, fatal_error,
          pc,    \* pc[w]: where worker w is
          left,  \* left[w]: operations w still has to do
          main   \* where the main thread is, and how the call ended

vars == <<ready_count, start_flag, fatal_error, pc, left, main>>

Init == /\ ready_count = 0
        /\ start_flag = FALSE
        /\ fatal_error = FALSE
        /\ pc = [w \in Workers |-> "unborn"]
        /\ left = [w \in Workers |-> OpsPerThread]
        /\ main = "spawn"

Goto(w, label) == pc' = [pc EXCEPT ![w] = label]

\* After std::terminate no thread takes another step.
At(w, label) == pc[w] = label /\ main # "terminated"
-----------------------------------------------------------------------------
(* worker_fn *)

SignalReady(w) ==
  /\ At(w, "ready")
  /\ ready_count' = ready_count + 1
  /\ Goto(w, "spin")
  /\ UNCHANGED <<start_flag, fatal_error, left, main>>

Spin(w) ==
  /\ At(w, "spin")
  /\ Goto(w, IF start_flag THEN "work" ELSE "look")
  /\ UNCHANGED <<ready_count, start_flag, fatal_error, left, main>>

\* Seeing no error, the worker sleeps and spins on.
LookForError(w) ==
  /\ At(w, "look")
  /\ Goto(w, IF fatal_error THEN "done" ELSE "spin")
  /\ UNCHANGED <<ready_count, start_flag, fatal_error, left, main>>

Work(w) ==
  /\ At(w, "work")
  /\ Goto(w, IF left[w] = 0 THEN "done" ELSE "operate")
  /\ UNCHANGED <<ready_count, start_flag, fatal_error, left, main>>

\* queue.add() or queue.remove() comes to an end.
EndOperation(w) ==
  /\ At(w, "operate")
  /\ \/ left' = [left EXCEPT ![w] = @ - 1] /\ Goto(w, "work") /\ UNCHANGED fatal_error
     \/ fatal_error' = TRUE /\ Goto(w, "throw") /\ UNCHANGED left
  /\ UNCHANGED <<ready_count, start_flag, main>>

Rethrow(w) ==
  /\ At(w, "throw")
  /\ main' = "terminated"
  /\ UNCHANGED <<ready_count, start_flag, fatal_error, pc, left>>

\* What a worker does by itself.
Go(w) == SignalReady(w) \/ Spin(w) \/ LookForError(w) \/ Work(w) \/ Rethrow(w)

Worker(w) == Go(w) \/ EndOperation(w)
-----------------------------------------------------------------------------
(* The main thread *)

AllJoined == \A w \in Workers : pc[w] \in {"unborn", "done"}

NobodySpawned == \A w \in Workers : pc[w] = "unborn"

\* emplace_back may fail; the vector of workers is then destroyed, and the
\* exception gets out only when no thread is in it.
Spawn ==
  /\ main = "spawn"
  /\ \/ \E w \in Workers : pc[w] = "unborn" /\ Goto(w, "ready") /\ UNCHANGED main
     \/ /\ \E w \in Workers : pc[w] = "unborn"
        /\ main' = IF NobodySpawned THEN "threw_spawn" ELSE "terminated"
        /\ UNCHANGED pc
     \/ /\ \A w \in Workers : pc[w] # "unborn"
        /\ main' = "count" /\ UNCHANGED pc
  /\ UNCHANGED <<ready_count, start_flag, fatal_error, left>>

\* Mutant: one worker too few is waited for.
CountReadyEarly ==
  /\ main = "count"
  /\ main' = (IF ready_count + 1 >= Cardinality(Workers) THEN "start" ELSE "error")
  /\ UNCHANGED <<ready_count, start_flag, fatal_error, pc, left>>

CountReady ==
  /\ main = "count"
  /\ main' = (IF ready_count = Cardinality(Workers) THEN "start" ELSE "error")
  /\ UNCHANGED <<ready_count, start_flag, fatal_error, pc, left>>

\* An error joins the workers and is thrown; a deadline that has passed joins
\* them too, without a word to them.
LookForErrorInWait ==
  /\ main = "error"
  /\ main' \in IF fatal_error THEN {"join_fatal"}
                              ELSE {"count", "join_late"}
  /\ UNCHANGED <<ready_count, start_flag, fatal_error, pc, left>>

\* Mutant: nobody is told to start.
StartForgotten ==
  /\ main = "start"
  /\ main' = "join"
  /\ UNCHANGED <<ready_count, start_flag, fatal_error, pc, left>>

Start ==
  /\ main = "start"
  /\ start_flag' = TRUE
  /\ main' = "join"
  /\ UNCHANGED <<ready_count, fatal_error, pc, left>>

AfterJoin == [join |-> "check", join_fatal |-> "threw_fatal", join_late |-> "threw_late"]

\* Mutant: the workers are not waited for.
JoinNobody ==
  /\ main \in DOMAIN AfterJoin
  /\ main' = AfterJoin[main]
  /\ UNCHANGED <<ready_count, start_flag, fatal_error, pc, left>>

Join ==
  /\ main \in DOMAIN AfterJoin /\ AllJoined
  /\ main' = AfterJoin[main]
  /\ UNCHANGED <<ready_count, start_flag, fatal_error, pc, left>>

Report ==
  /\ main = "check"
  /\ main' = (IF fatal_error THEN "threw_fatal" ELSE "returned")
  /\ UNCHANGED <<ready_count, start_flag, fatal_error, pc, left>>

MainThread == \/ Spawn \/ CountReady \/ LookForErrorInWait \/ Start
              \/ Join \/ Report
-----------------------------------------------------------------------------
Outcomes == {"returned", "threw_fatal", "threw_late", "threw_spawn", "terminated"}

Ended == main \in Outcomes /\ UNCHANGED vars

Next == Ended \/ MainThread \/ \E w \in Workers : Worker(w)

Spec == Init /\ [][Next]_vars

\* Every thread keeps running.  A queue operation need not end: a notification
\* may be lost (BlockingQueue), and the random operations of the workers may leave
\* one with a full or an empty queue for ever.
FairSpec == /\ Spec
            /\ WF_vars(MainThread)
            /\ \A w \in Workers : WF_vars(Go(w))
-----------------------------------------------------------------------------
\* The benchmark measures contention: no worker works while another is not
\* ready yet.
WorkTogether ==
  (\E w \in Workers : pc[w] \in {"work", "operate", "throw"}) =>
    \A w \in Workers : pc[w] \notin {"unborn", "ready"}

\* The workers hold references to the locals of run_benchmark_queue: when it
\* returns or throws, none of them can use one any more, and a time is only
\* reported for work that was done to the end.
LocalsOutliveWorkers ==
  main \in Outcomes \ {"terminated"} =>
    /\ AllJoined
    /\ main = "returned" => \A w \in Workers : left[w] = 0

\* The call ends, one way or another, provided that no queue operation goes on for
\* ever and the deadline does not pass: otherwise the joins (main.cpp:135, 146)
\* need not return.
CallEnds ==
  (\A w \in Workers : []<>(pc[w] # "operate")) => <>(main \in Outcomes \cup {"join_late"})
=============================================================================
