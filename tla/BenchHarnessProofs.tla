------------------------- MODULE BenchHarnessProofs -------------------------
(***************************************************************************)
(* Safety of BenchHarness for any finite set of workers and any number of  *)
(* operations: nobody works early, and nobody outlives the call.           *)
(***************************************************************************)
EXTENDS BenchHarness, FiniteSetTheorems, TLAPS

Labels == {"unborn", "ready", "spin", "look", "work", "operate", "throw", "done"}

MainLabels == {"spawn", "count", "error", "start", "check"} \cup DOMAIN AfterJoin \cup Outcomes

Types == /\ ready_count \in Nat
         /\ start_flag \in BOOLEAN
         /\ fatal_error \in BOOLEAN
         /\ pc \in [Workers -> Labels]
         /\ left \in [Workers -> Nat]
         /\ main \in MainLabels

Ready == {w \in Workers : pc[w] \notin {"unborn", "ready"}}

\* ready_count counts the workers that have got so far.
CountInv == ready_count = Cardinality(Ready)

\* The main thread goes on when all workers are there, and starts them when all
\* are ready.
StartInv == /\ main \notin {"spawn", "threw_spawn", "terminated"} => \A w \in Workers : pc[w] # "unborn"
            /\ main = "start" \/ start_flag = TRUE => Ready = Workers

\* What the workers have done so far.
WorkersInv ==
  \A w \in Workers : /\ pc[w] \in {"work", "operate", "throw"} => start_flag = TRUE
                     /\ pc[w] = "operate" => left[w] # 0
                     /\ pc[w] = "done" => left[w] = 0 \/ fatal_error = TRUE

\* After the join nothing happens but the report.
JoinedInv == /\ main \in {"check"} \cup (Outcomes \ {"terminated"}) => AllJoined
             /\ main = "returned" => fatal_error = FALSE

IInv == Types /\ CountInv /\ StartInv /\ WorkersInv /\ JoinedInv
-----------------------------------------------------------------------------
LEMMA AfterJoinIs ==
  /\ DOMAIN AfterJoin = {"join", "join_fatal", "join_late"}
  /\ AfterJoin["join"] = "check"
  /\ AfterJoin["join_fatal"] = "threw_fatal"
  /\ AfterJoin["join_late"] = "threw_late"
BY DEF AfterJoin

LEMMA ReadyFacts ==
  /\ IsFiniteSet(Ready) /\ Cardinality(Ready) \in Nat
  /\ Cardinality(Ready) = Cardinality(Workers) => Ready = Workers
<1>1. Ready \in SUBSET Workers
  BY DEF Ready
<1> QED BY <1>1, WorkersAssumption, FS_Subset, FS_CardinalityType

LEMMA InitInv == Init => IInv
<1> SUFFICES ASSUME Init PROVE IInv
  OBVIOUS
<1> USE DEF Init
<1>1. Types
  BY OpsAssumption DEF Types, Labels, MainLabels
<1>2. CountInv
  <2>1. Ready = {}
    BY DEF Ready
  <2> QED BY <2>1, FS_EmptySet DEF CountInv
<1>3. StartInv /\ WorkersInv /\ JoinedInv
  BY DEF StartInv, WorkersInv, JoinedInv, Outcomes
<1> QED BY <1>1, <1>2, <1>3 DEF IInv

LEMMA WorkerStep ==
  ASSUME IInv, NEW w \in Workers, Worker(w)
  PROVE  IInv'
<1> USE DEF IInv
\* A worker that can still take a step has not been joined.
<1>1. /\ pc[w] \in {"ready", "spin", "look", "work", "operate", "throw"}
      /\ main # "terminated" /\ main \notin {"check"} \cup (Outcomes \ {"terminated"})
  <2>1. pc[w] \in {"ready", "spin", "look", "work", "operate", "throw"} /\ main # "terminated"
    BY DEF Worker, Go, SignalReady, Spin, LookForError, Work, EndOperation, Rethrow, At
  <2> QED BY <2>1 DEF JoinedInv, AllJoined
<1>2. /\ start_flag' = start_flag
      /\ \A u \in Workers : u # w => pc'[u] = pc[u] /\ left'[u] = left[u]
      /\ fatal_error = TRUE => fatal_error' = TRUE
      /\ main' = main \/ main' = "terminated"
  BY DEF Worker, Go, SignalReady, Spin, LookForError, Work, EndOperation, Rethrow, Goto, Types
<1>3. Types'
  <2> USE DEF Goto, Types, Labels
  <2>1. CASE EndOperation(w)
    <3>1. left[w] # 0
      BY <2>1 DEF EndOperation, At, WorkersInv
    <3>2. left[w] - 1 \in Nat
      BY <3>1
    <3> QED BY <2>1, <3>2 DEF EndOperation
  <2>2. CASE Rethrow(w)
    BY <2>2 DEF Rethrow, MainLabels, Outcomes
  <2>3. CASE SignalReady(w) \/ Spin(w) \/ LookForError(w) \/ Work(w)
    BY <2>3 DEF SignalReady, Spin, LookForError, Work
  <2> QED BY <2>1, <2>2, <2>3 DEF Worker, Go
<1>4. CASE SignalReady(w)
  <2>1. /\ pc[w] = "ready" /\ pc' = [pc EXCEPT ![w] = "spin"] /\ ready_count' = ready_count + 1
        /\ UNCHANGED <<start_flag, fatal_error, left, main>>
    BY <1>4 DEF SignalReady, At, Goto
  <2>2. w \notin Ready /\ Ready' = Ready \cup {w}
    BY <2>1 DEF Ready, Types
  <2>3. CountInv'
    <3>1. Cardinality(Ready') = Cardinality(Ready) + 1
      BY <2>2, ReadyFacts, FS_AddElement
    <3> QED BY <2>1, <3>1 DEF CountInv
  <2>4. StartInv'
    BY <2>1, <2>2 DEF StartInv, Types
  <2>5. WorkersInv' /\ JoinedInv'
    BY <1>1, <2>1 DEF WorkersInv, JoinedInv, Types, Outcomes
  <2> QED BY <1>3, <2>3, <2>4, <2>5
<1>5. CASE ~SignalReady(w)
  <2>1. /\ pc[w] \in {"spin", "look", "work", "operate", "throw"}
        /\ pc'[w] \in {"spin", "look", "work", "operate", "throw", "done"}
        /\ ready_count' = ready_count
    BY <1>5 DEF Worker, Go, Spin, LookForError, Work, EndOperation, Rethrow, At, Goto, Types
  <2>2. Ready' = Ready
    BY <1>2, <2>1 DEF Ready
  <2>3. CountInv' /\ StartInv'
    BY <1>2, <2>1, <2>2 DEF CountInv, StartInv
  <2>4. WorkersInv'
    <3>1. /\ pc'[w] \in {"work", "operate", "throw"} => start_flag = TRUE
          /\ pc'[w] = "operate" => left'[w] # 0
          /\ pc'[w] = "done" => left'[w] = 0 \/ fatal_error' = TRUE
      BY <1>5 DEF Worker, Go, Spin, LookForError, Work, EndOperation, Rethrow, At, Goto, Types, WorkersInv
    <3> QED BY <1>2, <3>1 DEF WorkersInv
  <2>5. JoinedInv'
    BY <1>1, <1>2 DEF JoinedInv, Outcomes
  <2> QED BY <1>3, <2>3, <2>4, <2>5
<1> QED BY <1>4, <1>5

LEMMA MainStep ==
  ASSUME IInv, MainThread
  PROVE  IInv'
<1> USE DEF IInv
<1>1. CASE Spawn
  <2>1. /\ main = "spawn" /\ UNCHANGED <<ready_count, start_flag, fatal_error, left>>
        /\ \/ main' = main /\ \E w \in Workers : pc[w] = "unborn" /\ pc' = [pc EXCEPT ![w] = "ready"]
           \/ main' = "terminated" /\ pc' = pc
           \/ main' = "threw_spawn" /\ pc' = pc /\ NobodySpawned
           \/ main' = "count" /\ pc' = pc /\ \A w \in Workers : pc[w] # "unborn"
    BY <1>1 DEF Spawn, Goto
  <2>2. Types'
    BY <2>1 DEF Types, Labels, MainLabels, Outcomes
  <2>3. Ready' = Ready
    BY <2>1 DEF Ready, Types
  <2>4. CountInv' /\ StartInv' /\ WorkersInv' /\ JoinedInv'
    <3>1. CountInv' /\ StartInv'
      BY <2>1, <2>3 DEF CountInv, StartInv
    <3>2. WorkersInv' /\ JoinedInv'
      BY <2>1 DEF WorkersInv, JoinedInv, Types, Outcomes, AllJoined, NobodySpawned
    <3> QED BY <3>1, <3>2
  <2> QED BY <2>2, <2>4
<1>2. CASE ~Spawn
  <2>1. UNCHANGED <<ready_count, fatal_error, pc, left>> /\ main \notin {"spawn", "threw_spawn", "terminated"}
    BY <1>2, AfterJoinIs DEF MainThread, CountReady, LookForErrorInWait, Start, Join, Report
  <2>2. Ready' = Ready /\ \A w \in Workers : pc[w] # "unborn"
    BY <2>1 DEF Ready, StartInv
  <2>3. CASE CountReady
    <3>1. UNCHANGED start_flag /\ main' \in {"start", "error"} /\ (main' = "start" => Ready = Workers)
      BY <2>3, ReadyFacts DEF CountReady, CountInv
    <3> QED BY <2>1, <2>2, <3>1 DEF Types, MainLabels, CountInv, StartInv, WorkersInv, JoinedInv, Outcomes
  <2>4. CASE LookForErrorInWait
    <3>1. UNCHANGED start_flag /\ main' \in {"count", "join_fatal", "join_late"}
      BY <2>4 DEF LookForErrorInWait
    <3> QED BY <2>1, <2>2, <3>1, AfterJoinIs
            DEF Types, MainLabels, CountInv, StartInv, WorkersInv, JoinedInv, Outcomes
  <2>5. CASE Start
    <3>1. start_flag' = TRUE /\ main' = "join" /\ Ready = Workers
      BY <2>5 DEF Start, StartInv
    <3> QED BY <2>1, <2>2, <3>1, AfterJoinIs
            DEF Types, MainLabels, CountInv, StartInv, WorkersInv, JoinedInv, Outcomes
  <2>6. CASE Join
    <3>1. UNCHANGED start_flag /\ main' \in {"check", "threw_fatal", "threw_late"} /\ AllJoined
      BY <2>6, AfterJoinIs DEF Join
    <3>2. AllJoined'
      BY <2>1, <3>1 DEF AllJoined
    <3> QED BY <2>1, <2>2, <3>1, <3>2
            DEF Types, MainLabels, CountInv, StartInv, WorkersInv, JoinedInv, Outcomes
  <2>7. CASE Report
    <3>1. /\ UNCHANGED start_flag /\ main = "check" /\ main' \in {"threw_fatal", "returned"}
          /\ main' = "returned" => fatal_error = FALSE
      BY <2>7 DEF Report, Types
    <3>2. AllJoined'
      BY <2>1, <3>1 DEF AllJoined, JoinedInv
    <3> QED BY <2>1, <2>2, <3>1, <3>2
            DEF Types, MainLabels, CountInv, StartInv, WorkersInv, JoinedInv, Outcomes
  <2> QED BY <1>2, <2>3, <2>4, <2>5, <2>6, <2>7 DEF MainThread
<1> QED BY <1>1, <1>2

\* The invariant holds in every reachable state.
THEOREM Invariance == Spec => []IInv
<1>1. IInv /\ [Next]_vars => IInv'
  <2> SUFFICES ASSUME IInv, [Next]_vars PROVE IInv'
    OBVIOUS
  <2>1. CASE UNCHANGED vars \/ Ended
    BY <2>1 DEF Ended, vars, IInv, Types, CountInv, StartInv, WorkersInv, JoinedInv, Ready, AllJoined
  <2> QED BY <2>1, MainStep, WorkerStep DEF Next
<1> QED BY <1>1, InitInv, PTL DEF Spec

\* main.cpp, worker_fn: no worker begins its operations while another is not
\* ready yet.
THEOREM NobodyWorksEarly == Spec => []WorkTogether
<1>1. IInv => WorkTogether
  BY DEF IInv, WorkTogether, WorkersInv, StartInv, Ready
<1> QED BY <1>1, Invariance, PTL

\* main.cpp, run_benchmark_queue: when it returns or throws no worker uses its
\* locals any more, and a time is reported only for work done to the end.
THEOREM NobodyOutlivesTheCall == Spec => []LocalsOutliveWorkers
<1>1. IInv => LocalsOutliveWorkers
  BY DEF IInv, LocalsOutliveWorkers, WorkersInv, StartInv, JoinedInv, Types, AllJoined, Outcomes
<1> QED BY <1>1, Invariance, PTL
=============================================================================
