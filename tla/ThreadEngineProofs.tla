------------------------- MODULE ThreadEngineProofs -------------------------
(***************************************************************************)
(* Proofs about the run loop of the model checker: for every number of     *)
(* threads, every set of mutexes and condition variables and every user    *)
(* program, the assertions of take_step hold, no wake-up is missed, and    *)
(* threads wait for each other in a cycle exactly when a deadlock has been *)
(* reported.                                                               *)
(***************************************************************************)
EXTENDS ThreadEngine, RingArithmetic, FiniteSetTheorems, SequenceTheorems

ThreadStates == {"none", "created", "ready", "blocked", "completed"}

TypeOK ==
  /\ phase \in {"stash", "choose"} \cup Ended
  /\ next \in Threads \cup {None}
  /\ pending \in [Threads -> Acts \cup {None}]
  /\ state \in [Threads -> ThreadStates]
  /\ enabled \in [Threads -> BOOLEAN]
  /\ locked \in [Mutexes -> Threads \cup {None}]
  /\ waiters \in [Conds -> Seq(Threads)]
  /\ relock \in [Threads -> Mutexes \cup {None}]
  /\ fuel \in [Threads -> Nat]
  /\ deadlock \in BOOLEAN
  /\ asleep \in SUBSET Threads

\* Between two steps of the run loop; in the other phases nothing happens.
Running == phase \in {"stash", "choose"}

\* A pending action names objects of its kind, and is one that a correct user
\* program may have come to: the mutex it releases is held, the thread it
\* joins was created, and a thread that ends holds nothing.
ActsAreLegal ==
  \A t \in Threads :
    /\ IsLock(pending[t]) => pending[t].obj \in Mutexes
    /\ IsJoin(pending[t]) => pending[t].obj \in Created
    /\ pending[t] # None /\ pending[t].kind = "trylock" => pending[t].obj \in Mutexes
    /\ pending[t] # None /\ pending[t].kind = "unlock" =>
         pending[t].obj \in Mutexes /\ locked[pending[t].obj] = t
    /\ pending[t] # None /\ pending[t].kind = "wait" =>
         /\ pending[t].obj \in Conds
         /\ pending[t].mutex \in Mutexes
         /\ locked[pending[t].mutex] = t
    /\ pending[t] # None /\ pending[t].kind \in {"notify_all", "notify_one"} =>
         pending[t].obj \in Conds
    /\ pending[t] # None /\ pending[t].kind = "finish" => \A m \in Mutexes : locked[m] # t

\* What the state of a thread says about the rest.
StatesFit ==
  \A t \in Threads :
    /\ state[t] \in {"none", "completed"} => pending[t] = None
    /\ state[t] = "created" => pending[t] = None /\ enabled[t]
    /\ enabled[t] => state[t] \in {"created", "ready"}
    /\ pending[t] # None /\ enabled[t] => state[t] = "ready"

\* Mutexes are held, and conditions waited for, by threads that have run.
HoldersRun == \A m \in Mutexes : locked[m] # None => locked[m] \in Incomplete
WaitersRan == \A c \in Conds : \A t \in ToSet(waiters[c]) : state[t] \notin {"none", "created"}

\* The child that runs next.
ChildFirst ==
  next # None =>
    /\ enabled[next]
    /\ \/ pending[next] = None /\ state[next] = "created" /\ phase = "stash"
       \/ pending[next] # None /\ pending[next].kind = "start"

\* A thread is disabled only while it sleeps or its action is impossible.
DisabledForAReason ==
  \A t \in Incomplete :
    ~enabled[t] => \/ t \in asleep
                   \/ pending[t] # None /\ ~CheckActionEnabled(pending[t])

\* When the loop chooses, every thread has come to an action, those enabled
\* can perform theirs, and no deadlock has been reported.
Settled ==
  phase = "choose" =>
    /\ NeedPending = {}
    /\ ~deadlock
    /\ \A t \in Threads : enabled[t] => CheckActionEnabled(pending[t])

\* The inductive invariant.
IInv ==
  /\ TypeOK
  /\ Running => /\ ActsAreLegal /\ StatesFit /\ HoldersRun /\ WaitersRan
                /\ ChildFirst /\ DisabledForAReason /\ Settled
                /\ CyclesReported /\ SleepersListed
  /\ StuckNeedsSleeper
-----------------------------------------------------------------------------
(***************************************************************************)
(* Chains of waiting threads.                                              *)
(***************************************************************************)
Graphs == [Threads -> Threads \cup {None}]

\* The rounds of Chain, as a function of which exist a unique one.
IsWalk(step, W, t, last) ==
  step = [n \in 0..last |->
            IF n = 0 THEN {W[t]} ELSE step[n - 1] \cup {W[u] : u \in step[n - 1] \ {None}}]

\* The recursive function of Chain exists.
LEMMA WalkExists ==
  ASSUME NEW W \in Graphs, NEW t \in Threads, NEW last \in Nat
  PROVE  \E step : IsWalk(step, W, t, last)
<1> DEFINE T == {n \in Nat : \E step : IsWalk(step, W, t, n)}
<1>1. 0 \in T
  <2> DEFINE step == [n \in 0..0 |-> {W[t]}]
  <2>1. IsWalk(step, W, t, 0)
    BY DEF IsWalk
  <2> QED BY <2>1
<1>2. ASSUME NEW n \in Nat, n \in T
      PROVE  n + 1 \in T
  <2>1. PICK step : IsWalk(step, W, t, n)
    BY <1>2
  <2> DEFINE more == [k \in 0..(n + 1) |->
                        IF k <= n THEN step[k]
                        ELSE step[n] \cup {W[u] : u \in step[n] \ {None}}]
  <2>2. ASSUME NEW k \in 0..(n + 1)
        PROVE  more[k] = IF k = 0 THEN {W[t]}
                         ELSE more[k - 1] \cup {W[u] : u \in more[k - 1] \ {None}}
    <3>1. CASE k <= n /\ k = 0
      BY <2>1, <3>1 DEF IsWalk
    <3>2. CASE k <= n /\ k # 0
      <4>1. k - 1 \in 0..n /\ k \in 0..n /\ k - 1 <= n /\ k - 1 \in 0..(n + 1)
        BY <3>2
      <4>2. step[k] = step[k - 1] \cup {W[u] : u \in step[k - 1] \ {None}}
        BY <2>1, <3>2, <4>1 DEF IsWalk
      <4>3. more[k] = step[k] /\ more[k - 1] = step[k - 1]
        BY <3>2, <4>1
      <4> QED BY <3>2, <4>2, <4>3
    <3>3. CASE k = n + 1
      <4>1. k # 0 /\ k - 1 = n /\ ~(k <= n) /\ n \in 0..(n + 1)
        BY <3>3
      <4>2. more[k] = step[n] \cup {W[u] : u \in step[n] \ {None}} /\ more[n] = step[n]
        BY <4>1
      <4> QED BY <4>1, <4>2
    <3> QED BY <3>1, <3>2, <3>3
  <2>3. IsWalk(more, W, t, n + 1)
    <3> HIDE DEF more
    <3>1. more = [k \in 0..(n + 1) |-> more[k]]
      BY DEF more
    <3> QED BY <2>2, <3>1 DEF IsWalk
  <2> QED BY <2>3
<1>3. Nat \subseteq T
  <2> HIDE DEF T
  <2> QED BY <1>1, <1>2, NatSetInduction
<1> QED BY <1>3

\* What the code computes is the last round of such a walk.
LEMMA ChainIsWalk ==
  ASSUME NEW W \in Graphs, NEW t \in Threads
  PROVE  \E step : IsWalk(step, W, t, NumThreads) /\ Chain(W, t) = step[NumThreads] \ {None}
<1> DEFINE f == CHOOSE step : IsWalk(step, W, t, NumThreads)
<1>1. NumThreads \in Nat
  BY NumThreadsAssumption
<1>2. IsWalk(f, W, t, NumThreads)
  BY <1>1, WalkExists
<1>3. Chain(W, t) = f[NumThreads] \ {None}
  BY DEF Chain, IsWalk
<1> QED BY <1>2, <1>3

\* A set of threads that holds whom t waits for, and whom each of its elements
\* waits for, holds the whole chain of t.
LEMMA ChainLeast ==
  ASSUME NEW W \in Graphs, NEW t \in Threads, NEW S,
         W[t] \in S \cup {None},
         \A u \in S : u \in Threads /\ W[u] \in S \cup {None}
  PROVE  Chain(W, t) \subseteq S
<1>1. PICK step : IsWalk(step, W, t, NumThreads) /\ Chain(W, t) = step[NumThreads] \ {None}
  BY ChainIsWalk
<1> DEFINE T == {n \in Nat : n <= NumThreads => step[n] \subseteq S \cup {None}}
<1>2. 0 \in T
  BY <1>1, NumThreadsAssumption DEF IsWalk
<1>3. ASSUME NEW n \in Nat, n \in T
      PROVE  n + 1 \in T
  <2> SUFFICES ASSUME n + 1 <= NumThreads PROVE step[n + 1] \subseteq S \cup {None}
    OBVIOUS
  <2>1. step[n + 1] = step[n] \cup {W[u] : u \in step[n] \ {None}}
    <3>1. n + 1 \in 0..NumThreads /\ n + 1 # 0 /\ (n + 1) - 1 = n
      BY NumThreadsAssumption
    <3> QED BY <1>1, <3>1 DEF IsWalk
  <2>2. step[n] \subseteq S \cup {None}
    BY <1>3, NumThreadsAssumption
  <2> QED BY <2>1, <2>2
<1>4. Nat \subseteq T
  <2> HIDE DEF T
  <2> QED BY <1>2, <1>3, NatSetInduction
<1> QED BY <1>1, <1>4, NumThreadsAssumption

LEMMA ThreadsFinite ==
  /\ IsFiniteSet(Threads \cup {None})
  /\ Cardinality(Threads \cup {None}) = NumThreads + 1
  /\ None \notin Threads
<1>1. None \notin Threads
  BY NoneAssumption
<1>2. NumThreads \in Nat /\ 1 \in Int /\ NumThreads \in Int
  BY NumThreadsAssumption
<1>3. IsFiniteSet(Threads) /\ Cardinality(Threads) = NumThreads
  <2>1. IsFiniteSet(1..NumThreads) /\ Cardinality(1..NumThreads) = IF 1 > NumThreads THEN 0 ELSE NumThreads - 1 + 1
    BY <1>2, FS_Interval
  <2> QED BY <1>2, <2>1, NumThreadsAssumption DEF Threads
<1> QED BY <1>1, <1>3, FS_AddElement

\* NumThreads rounds are enough: each round adds a thread or has come to an end.
LEMMA ChainClosed ==
  ASSUME NEW W \in Graphs, NEW t \in Threads
  PROVE  /\ Chain(W, t) \subseteq Threads
         /\ W[t] \in Chain(W, t) \cup {None}
         /\ \A u \in Chain(W, t) : W[u] \in Chain(W, t) \cup {None}
<1>1. PICK step : IsWalk(step, W, t, NumThreads) /\ Chain(W, t) = step[NumThreads] \ {None}
  BY ChainIsWalk
<1>2. \A n \in 0..NumThreads : n # 0 =>
        step[n] = step[n - 1] \cup {W[u] : u \in step[n - 1] \ {None}}
  BY <1>1 DEF IsWalk
<1>3. step[0] = {W[t]}
  BY <1>1, NumThreadsAssumption DEF IsWalk
<1> DEFINE All == Threads \cup {None}
           Closed(S) == \A u \in S \ {None} : W[u] \in S
           T == {n \in Nat : n <= NumThreads =>
                   /\ step[n] \subseteq All
                   /\ W[t] \in step[n]
                   /\ Closed(step[n]) \/ Cardinality(step[n]) >= n + 1}
<1>4. 0 \in T
  <2>1. Cardinality({W[t]}) = 1
    <3>1. IsFiniteSet({}) /\ Cardinality({}) = 0
      BY FS_EmptySet
    <3>2. Cardinality({} \cup {W[t]}) = Cardinality({}) + 1
      BY <3>1, FS_AddElement
    <3>3. {} \cup {W[t]} = {W[t]}
      OBVIOUS
    <3> QED BY <3>1, <3>2, <3>3
  <2>2. W[t] \in All
    BY DEF Graphs
  <2> QED BY <1>3, <2>1, <2>2
<1>5. ASSUME NEW n \in Nat, n \in T
      PROVE  n + 1 \in T
  <2> SUFFICES ASSUME n + 1 <= NumThreads
               PROVE  /\ step[n + 1] \subseteq All
                      /\ W[t] \in step[n + 1]
                      /\ Closed(step[n + 1]) \/ Cardinality(step[n + 1]) >= n + 2
    OBVIOUS
  <2>1. step[n + 1] = step[n] \cup {W[u] : u \in step[n] \ {None}}
    <3>1. n + 1 \in 0..NumThreads /\ n + 1 # 0 /\ (n + 1) - 1 = n
      BY NumThreadsAssumption
    <3> QED BY <1>2, <3>1
  <2>2. /\ step[n] \subseteq All
        /\ W[t] \in step[n]
        /\ Closed(step[n]) \/ Cardinality(step[n]) >= n + 1
    BY <1>5, NumThreadsAssumption
  <2>3. step[n + 1] \subseteq All /\ W[t] \in step[n + 1]
    BY <2>1, <2>2 DEF Graphs
  <2>4. CASE Closed(step[n])
    <3>1. step[n + 1] = step[n]
      BY <2>1, <2>4
    <3> QED BY <2>3, <2>4, <3>1
  <2>5. CASE ~Closed(step[n])
    <3>1. PICK u \in step[n] \ {None} : W[u] \notin step[n]
      BY <2>5
    <3>2. IsFiniteSet(step[n]) /\ IsFiniteSet(step[n + 1])
      BY <2>2, <2>3, ThreadsFinite, FS_Subset
    <3>3. step[n] \cup {W[u]} \subseteq step[n + 1]
      BY <2>1, <3>1
    <3>4. /\ IsFiniteSet(step[n] \cup {W[u]})
          /\ Cardinality(step[n] \cup {W[u]}) = Cardinality(step[n]) + 1
      BY <3>1, <3>2, FS_AddElement
    <3>5. Cardinality(step[n] \cup {W[u]}) <= Cardinality(step[n + 1])
      BY <3>2, <3>3, FS_Subset
    <3>6. Cardinality(step[n]) \in Nat /\ Cardinality(step[n + 1]) \in Nat
      BY <3>2, FS_CardinalityType
    <3>7. Cardinality(step[n]) >= n + 1
      BY <2>2, <2>5
    <3>8. Cardinality(step[n + 1]) >= n + 2
      BY <3>4, <3>5, <3>6, <3>7
    <3> QED BY <2>3, <3>8
  <2> QED BY <2>4, <2>5
<1>6. Nat \subseteq T
  <2> HIDE DEF T
  <2> QED BY <1>4, <1>5, NatSetInduction
<1> DEFINE last == step[NumThreads]
<1>7. /\ last \subseteq All
      /\ W[t] \in last
      /\ Closed(last) \/ Cardinality(last) >= NumThreads + 1
  BY <1>6, NumThreadsAssumption
<1>8. Closed(last)
  <2>1. CASE Cardinality(last) >= NumThreads + 1
    <3>1. /\ IsFiniteSet(All) /\ Cardinality(All) = NumThreads + 1
          /\ Cardinality(last) <= Cardinality(All)
          /\ Cardinality(last) = Cardinality(All) => last = All
      BY <1>7, ThreadsFinite, FS_Subset
    <3>2. Cardinality(last) \in Nat
      BY <1>7, <3>1, FS_Subset, FS_CardinalityType
    <3>3. last = All
      BY <2>1, <3>1, <3>2, NumThreadsAssumption
    <3> QED BY <3>3 DEF Graphs
  <2> QED BY <1>7, <2>1
<1> QED BY <1>1, <1>7, <1>8 DEF Graphs

LEMMA NoWaitNoChain ==
  ASSUME NEW W \in Graphs, NEW t \in Threads, W[t] = None
  PROVE  Chain(W, t) = {}
<1> DEFINE S == {}
<1>1. W[t] \in S \cup {None} /\ \A u \in S : u \in Threads /\ W[u] \in S \cup {None}
  OBVIOUS
<1>2. Chain(W, t) \subseteq S
  <2> HIDE DEF S
  <2> QED BY <1>1, ChainLeast
<1> QED BY <1>2

\* The chain of t is whom t waits for and the chain of that thread.
LEMMA ChainUnfold ==
  ASSUME NEW W \in Graphs, NEW t \in Threads, NEW v \in Chain(W, t)
  PROVE  /\ W[t] \in Threads
         /\ v = W[t] \/ v \in Chain(W, W[t])
<1>1. CASE W[t] = None
  BY <1>1, NoWaitNoChain
<1>2. CASE W[t] \in Threads
  <2> DEFINE S == {W[t]} \cup Chain(W, W[t])
  <2>1. /\ Chain(W, W[t]) \subseteq Threads
        /\ W[W[t]] \in Chain(W, W[t]) \cup {None}
        /\ \A u \in Chain(W, W[t]) : W[u] \in Chain(W, W[t]) \cup {None}
    BY <1>2, ChainClosed
  <2>2. /\ W[t] \in S \cup {None}
        /\ \A u \in S : u \in Threads /\ W[u] \in S \cup {None}
    BY <1>2, <2>1
  <2>3. Chain(W, t) \subseteq S
    <3> HIDE DEF S
    <3> QED BY <2>2, ChainLeast
  <2> QED BY <1>2, <2>3
<1> QED BY <1>1, <1>2 DEF Graphs

LEMMA ChainTransitive ==
  ASSUME NEW W \in Graphs, NEW t \in Threads, NEW u \in Chain(W, t)
  PROVE  Chain(W, u) \subseteq Chain(W, t)
<1>1. /\ u \in Threads
      /\ W[u] \in Chain(W, t) \cup {None}
      /\ \A v \in Chain(W, t) : v \in Threads /\ W[v] \in Chain(W, t) \cup {None}
  BY ChainClosed
<1> QED BY <1>1, ChainLeast

\* From any thread on a cycle, the chain comes back to where it started.
LEMMA CycleReturns ==
  ASSUME NEW W \in Graphs, NEW t \in Threads, t \in Chain(W, t), NEW u \in Chain(W, t)
  PROVE  t \in Chain(W, u)
<1> DEFINE S == {v \in Threads : t \in Chain(W, v)}
<1>1. ASSUME NEW v \in S
      PROVE  W[v] \in S
  <2>1. W[v] \in Threads /\ (t = W[v] \/ t \in Chain(W, W[v]))
    BY <1>1, ChainUnfold
  <2> QED BY <2>1
<1>2. Chain(W, t) \subseteq S
  <2>1. t \in S
    OBVIOUS
  <2>2. W[t] \in S \cup {None} /\ \A v \in S : v \in Threads /\ W[v] \in S \cup {None}
    BY <1>1, <2>1
  <2> HIDE DEF S
  <2> QED BY <2>2, ChainLeast
<1> QED BY <1>2

\* Fewer edges, shorter chains.
LEMMA ChainMonotone ==
  ASSUME NEW W \in Graphs, NEW V \in Graphs, NEW t \in Threads,
         \A u \in Threads : W[u] \in {V[u], None}
  PROVE  Chain(W, t) \subseteq Chain(V, t)
<1>1. /\ V[t] \in Chain(V, t) \cup {None}
      /\ \A u \in Chain(V, t) : u \in Threads /\ V[u] \in Chain(V, t) \cup {None}
  BY ChainClosed
<1>2. /\ W[t] \in Chain(V, t) \cup {None}
      /\ \A u \in Chain(V, t) : u \in Threads /\ W[u] \in Chain(V, t) \cup {None}
  BY <1>1
<1> QED BY <1>2, ChainLeast

\* A thread that starts to wait closes a cycle through itself or none.
LEMMA NewWait ==
  ASSUME NEW W \in Graphs, NEW V \in Graphs, NEW t \in Threads, W[t] = None,
         \A u \in Threads \ {t} : V[u] = W[u]
  PROVE  (\E u \in Threads : u \in Chain(V, u)) <=>
            \/ \E u \in Threads : u \in Chain(W, u)
            \/ t \in Chain(V, t)
<1>1. ASSUME NEW u \in Threads, u \in Chain(W, u)
      PROVE  u \in Chain(V, u)
  <2>1. \A v \in Threads : W[v] \in {V[v], None}
    OBVIOUS
  <2> QED BY <1>1, <2>1, ChainMonotone
<1>2. ASSUME NEW u \in Threads, u \in Chain(V, u), t \notin Chain(V, t)
      PROVE  u \in Chain(W, u)
  <2>1. t \notin Chain(V, u)
    <3> SUFFICES ASSUME t \in Chain(V, u) PROVE FALSE
      OBVIOUS
    <3>1. u \in Chain(V, t)
      BY <1>2, CycleReturns
    <3>2. Chain(V, u) \subseteq Chain(V, t)
      BY <3>1, ChainTransitive
    <3> QED BY <1>2, <3>2
  <2> DEFINE S == Chain(V, u) \cap Chain(W, u)
  <2>2. /\ V[u] \in Chain(V, u) \cup {None}
        /\ \A v \in Chain(V, u) : v \in Threads /\ V[v] \in Chain(V, u) \cup {None}
    BY ChainClosed
  <2>3. /\ W[u] \in Chain(W, u) \cup {None}
        /\ \A v \in Chain(W, u) : v \in Threads /\ W[v] \in Chain(W, u) \cup {None}
    BY ChainClosed
  <2>4. u # t /\ \A v \in Chain(V, u) : v # t
    BY <1>2, <2>1
  <2>5. V[u] \in S \cup {None} /\ \A v \in S : v \in Threads /\ V[v] \in S \cup {None}
    BY <2>2, <2>3, <2>4
  <2>6. Chain(V, u) \subseteq S
    <3> HIDE DEF S
    <3> QED BY <2>5, ChainLeast
  <2> QED BY <1>2, <2>6
<1> QED BY <1>1, <1>2

\* A thread that waits for nobody, and for which others may start to wait,
\* closes no cycle.
LEMMA NoNewCycle ==
  ASSUME NEW W \in Graphs, NEW V \in Graphs, NEW t \in Threads, V[t] = None,
         \A u \in Threads : V[u] \in {W[u], None, t},
         NEW u \in Threads, u \in Chain(V, u)
  PROVE  u \in Chain(W, u)
<1>1. Chain(V, t) = {}
  BY NoWaitNoChain
<1>2. u # t
  BY <1>1
<1> DEFINE S == Chain(W, u) \cup {t}
<1>3. /\ W[u] \in Chain(W, u) \cup {None}
      /\ \A v \in Chain(W, u) : v \in Threads /\ W[v] \in Chain(W, u) \cup {None}
  BY ChainClosed
<1>4. V[u] \in S \cup {None} /\ \A v \in S : v \in Threads /\ V[v] \in S \cup {None}
  BY <1>3
<1>5. Chain(V, u) \subseteq S
  <2> HIDE DEF S
  <2> QED BY <1>4, ChainLeast
<1> QED BY <1>2, <1>5

\* Threads that all wait for one another cannot be without a cycle.
LEMMA ClosedHasCycle ==
  ASSUME NEW W \in Graphs, NEW P \in SUBSET Threads, P # {}, \A u \in P : W[u] \in P
  PROVE  \E u \in P : u \in Chain(W, u)
<1>1. ASSUME NEW u \in P
      PROVE  Chain(W, u) \subseteq P /\ W[u] \in Chain(W, u)
             /\ IsFiniteSet(Chain(W, u)) /\ Cardinality(Chain(W, u)) \in Nat
  <2>1. Chain(W, u) \subseteq P
    BY ChainLeast
  <2>2. Chain(W, u) \subseteq Threads \cup {None} /\ W[u] \in Chain(W, u)
    BY ChainClosed, ThreadsFinite
  <2>3. IsFiniteSet(Chain(W, u))
    BY <2>2, ThreadsFinite, FS_Subset
  <2> QED BY <2>1, <2>2, <2>3, FS_CardinalityType
<1> DEFINE Sizes == {Cardinality(Chain(W, u)) : u \in P}
<1>2. Sizes \in SUBSET Nat /\ Sizes # {}
  BY <1>1
<1>3. PICK n \in Sizes : \A k \in Sizes : n <= k
  <2> HIDE DEF Sizes
  <2> QED BY <1>2, LeastNat
<1>4. PICK u \in P : n = Cardinality(Chain(W, u))
  BY <1>3
<1>5. W[u] \in P /\ W[u] \in Chain(W, u)
  BY <1>1
<1>6. Chain(W, W[u]) \subseteq Chain(W, u)
  BY <1>5, ChainTransitive
<1>7. /\ Cardinality(Chain(W, W[u])) <= Cardinality(Chain(W, u))
      /\ Cardinality(Chain(W, u)) = Cardinality(Chain(W, W[u])) => Chain(W, u) = Chain(W, W[u])
  BY <1>1, <1>6, FS_Subset
<1>8. Cardinality(Chain(W, u)) <= Cardinality(Chain(W, W[u]))
  BY <1>3, <1>4, <1>5
<1>9. Chain(W, u) = Chain(W, W[u])
  BY <1>1, <1>5, <1>7, <1>8
<1> QED BY <1>5, <1>9
-----------------------------------------------------------------------------
(***************************************************************************)
(* The invariant holds at first, and each step of the run loop keeps it.   *)
(***************************************************************************)
LEMMA WaitsGraph ==
  ASSUME TypeOK, ActsAreLegal
  PROVE  Waits(pending) \in Graphs
BY DEF TypeOK, ActsAreLegal, Graphs, Waits, WaitingOn, IsLock, IsJoin, Created

LEMMA WaitsGraphNext ==
  ASSUME TypeOK', ActsAreLegal'
  PROVE  Waits(pending)' \in Graphs
BY DEF TypeOK, ActsAreLegal, Graphs, Waits, WaitingOn, IsLock, IsJoin, Created

\* What the loop knows of the thread it lets perform its action.
LEMMA Chosen ==
  ASSUME IInv, NEW t \in Threads, NEW kind, Take(t, kind)
  PROVE  /\ phase = "choose" /\ ~deadlock /\ NeedPending = {}
         /\ TypeOK /\ ActsAreLegal /\ StatesFit /\ HoldersRun /\ WaitersRan
         /\ DisabledForAReason /\ CyclesReported /\ SleepersListed
         /\ pending[t] # None /\ pending[t].kind = kind
         /\ enabled[t] /\ state[t] = "ready" /\ CheckActionEnabled(pending[t])
         /\ kind # "start" => next = None
         /\ pending' = [pending EXCEPT ![t] = None]
<1>1. phase = "choose" /\ Running
  BY DEF Take, Running
<1>2. /\ TypeOK /\ ActsAreLegal /\ StatesFit /\ HoldersRun /\ WaitersRan /\ ChildFirst
      /\ DisabledForAReason /\ Settled /\ CyclesReported /\ SleepersListed
  BY <1>1 DEF IInv
<1>3. pending[t] # None /\ pending[t].kind = kind /\ pending' = [pending EXCEPT ![t] = None]
  BY DEF Take
<1>4. ~deadlock /\ NeedPending = {} /\ (enabled[t] => CheckActionEnabled(pending[t]))
  BY <1>1, <1>2 DEF Settled
<1>5. enabled[t] /\ (kind # "start" => next = None)
  BY <1>2, <1>3 DEF Take, ChildFirst
<1>6. state[t] = "ready"
  BY <1>2, <1>3, <1>5 DEF StatesFit
<1> QED BY <1>1, <1>2, <1>3, <1>4, <1>5, <1>6

\* No step that performs an action makes threads wait for each other.
LEMMA StepClosesNoCycle ==
  ASSUME TypeOK, ActsAreLegal, CyclesReported, phase = "choose", ~deadlock,
         TypeOK', ActsAreLegal', ~deadlock', NEW t \in Threads,
         pending' = [pending EXCEPT ![t] = None],
         \A m \in Mutexes : locked'[m] \in {locked[m], None, t}
  PROVE  CyclesReported'
<1> SUFFICES ASSUME NEW V, V = Waits(pending)',
                    NEW u \in Threads, InCycle(u)'
             PROVE  FALSE
  BY DEF CyclesReported
<1> DEFINE W == Waits(pending)
<1>1. W \in Graphs /\ V \in Graphs
  BY WaitsGraph, WaitsGraphNext
<1>2. V[t] = None
  BY DEF Waits, WaitingOn, IsLock, IsJoin, TypeOK
<1>3. \A v \in Threads : V[v] \in {W[v], None, t}
  BY DEF Waits, WaitingOn, IsLock, IsJoin, TypeOK, ActsAreLegal
<1>4. u \in Chain(V, u)
  BY DEF InCycle, IsWaitingOn
<1>5. u \in Chain(W, u)
  <2> HIDE DEF W
  <2> QED BY <1>1, <1>2, <1>3, <1>4, NoNewCycle
<1> QED BY <1>5 DEF CyclesReported, InCycle, IsWaitingOn

LEMMA InitInv ==
  ASSUME Init
  PROVE  IInv
<1>1. TypeOK
  <2>1. waiters \in [Conds -> Seq(Threads)]
    <3>1. <<>> \in Seq(Threads)
      OBVIOUS
    <3> QED BY <3>1 DEF Init
  <2>2. enabled \in [Threads -> BOOLEAN]
    BY DEF Init
  <2> QED BY <2>1, <2>2, MaxOpsAssumption DEF Init, TypeOK, ThreadStates
<1>2. ActsAreLegal /\ StatesFit /\ HoldersRun /\ ChildFirst /\ DisabledForAReason
  BY DEF Init, ActsAreLegal, StatesFit, HoldersRun, ChildFirst, DisabledForAReason,
         IsLock, IsJoin, Incomplete, Created
<1>3. WaitersRan /\ SleepersListed
  BY DEF Init, WaitersRan, SleepersListed, ToSet
<1>4. Settled /\ StuckNeedsSleeper
  BY DEF Init, Settled, StuckNeedsSleeper
<1>5. CyclesReported
  <2> SUFFICES ASSUME NEW t \in Threads, t \in Chain(Waits(pending), t) PROVE FALSE
    BY DEF Init, CyclesReported, InCycle, IsWaitingOn
  <2>1. Waits(pending) \in Graphs
    BY <1>1, <1>2, WaitsGraph
  <2>2. Waits(pending)[t] = None
    BY DEF Init, Waits, WaitingOn, IsLock, IsJoin
  <2> QED BY <2>1, <2>2, NoWaitNoChain
<1> QED BY <1>1, <1>2, <1>3, <1>4, <1>5 DEF IInv

\* What a thread may come up with is legal.
LEMMA NextActsLegal ==
  ASSUME TypeOK, NEW t \in Threads, NEW act \in NextActs(t)
  PROVE  /\ act \in Acts /\ act # None
         /\ act.kind \in {"lock", "trylock"} => act.obj \in Mutexes
         /\ act.kind = "join" => act.obj \in Created
         /\ act.kind = "unlock" => act.obj \in Mutexes /\ locked[act.obj] = t
         /\ act.kind = "wait" =>
              act.obj \in Conds /\ act.mutex \in Mutexes /\ locked[act.mutex] = t
         /\ act.kind \in {"notify_all", "notify_one"} => act.obj \in Conds
         /\ act.kind = "finish" => \A m \in Mutexes : locked[m] # t
         /\ state[t] = "created" => act.kind = "start"
<1> DEFINE Legal(a) ==
      /\ a \in Acts
      /\ a.kind \in {"lock", "trylock"} => a.obj \in Mutexes
      /\ a.kind = "join" => a.obj \in Created
      /\ a.kind = "unlock" => a.obj \in Mutexes /\ locked[a.obj] = t
      /\ a.kind = "wait" => a.obj \in Conds /\ a.mutex \in Mutexes /\ locked[a.mutex] = t
      /\ a.kind \in {"notify_all", "notify_one"} => a.obj \in Conds
      /\ a.kind = "finish" => \A m \in Mutexes : locked[m] # t
<1>1. ASSUME NEW a \in Unlocks(t) PROVE Legal(a)
  BY <1>1 DEF Unlocks, Held, Act, Acts, Kinds, TypeOK
<1>2. ASSUME NEW a \in Finishes(t) PROVE Legal(a)
  BY <1>2 DEF Finishes, Held, Act, Acts, Kinds, TypeOK
<1>3. ASSUME NEW a \in Free(t) PROVE Legal(a)
  <2>1. CASE a = Act("create", None)
    BY <2>1 DEF Act, Acts, Kinds
  <2>2. ASSUME NEW u \in Created, a = Act("join", u) PROVE Legal(a)
    BY <2>2 DEF Act, Acts, Kinds, Created
  <2>3. ASSUME NEW k \in {"lock", "trylock"}, NEW m \in Mutexes, a = Act(k, m) PROVE Legal(a)
    BY <2>3 DEF Act, Acts, Kinds
  <2>4. ASSUME NEW c \in Conds, NEW m \in Held(t), a = WaitAct(c, m) PROVE Legal(a)
    BY <2>4 DEF WaitAct, Acts, Kinds, Held
  <2>5. ASSUME NEW k \in {"notify_all", "notify_one"}, NEW c \in Conds, a = Act(k, c)
        PROVE  Legal(a)
    BY <2>5 DEF Act, Acts, Kinds
  <2>6. \/ a = Act("create", None)
        \/ \E u \in Created : a = Act("join", u)
        \/ \E k \in {"lock", "trylock"}, m \in Mutexes : a = Act(k, m)
        \/ \E c \in Conds, m \in Held(t) : a = WaitAct(c, m)
        \/ \E k \in {"notify_all", "notify_one"}, c \in Conds : a = Act(k, c)
    BY <1>3 DEF Free
  <2> HIDE DEF Legal
  <2> QED BY <2>1, <2>2, <2>3, <2>4, <2>5, <2>6
<1>4. CASE state[t] = "created"
  <2>1. act = Act("start", None)
    BY <1>4 DEF NextActs
  <2> QED BY <1>4, <2>1, NoneAssumption DEF Act, Acts, Kinds
<1>5. CASE state[t] # "created" /\ relock[t] # None
  <2>1. act = Act("lock", relock[t]) /\ relock[t] \in Mutexes
    BY <1>5 DEF NextActs, TypeOK
  <2> QED BY <1>5, <2>1, NoneAssumption DEF Act, Acts, Kinds
<1>6. CASE state[t] # "created" /\ relock[t] = None
  <2>1. act \in Unlocks(t) \cup Finishes(t) \cup Free(t)
    BY <1>6 DEF NextActs
  <2>2. Legal(act)
    <3> HIDE DEF Legal
    <3> QED BY <1>1, <1>2, <1>3, <2>1
  <2> QED BY <1>6, <2>2, NoneAssumption
<1> QED BY <1>4, <1>5, <1>6

LEMMA StashStep ==
  ASSUME IInv, NEW t \in Threads, Stash(t)
  PROVE  IInv'
<1>1. /\ phase = "stash" /\ phase' = "stash" /\ t \in NeedPending
      /\ state[t] \notin {"none", "completed"} /\ pending[t] = None
      /\ state' = [state EXCEPT ![t] = "ready"]
      /\ relock' = [relock EXCEPT ![t] = None]
      /\ deadlock' = (deadlock \/ IsWaitingOn(pending', t, t))
      /\ UNCHANGED <<next, enabled, locked, waiters, asleep>>
  BY DEF Stash, NeedPending, Incomplete, Created
<1>2. /\ TypeOK /\ ActsAreLegal /\ StatesFit /\ HoldersRun /\ WaitersRan /\ ChildFirst
      /\ DisabledForAReason /\ CyclesReported /\ SleepersListed
  BY <1>1 DEF IInv, Running
<1>3. PICK act \in NextActs(t) :
        /\ pending' = [pending EXCEPT ![t] = act]
        /\ fuel' = IF act \in Free(t) /\ relock[t] = None
                   THEN [fuel EXCEPT ![t] = @ - 1] ELSE fuel
  BY DEF Stash
<1>4. /\ act \in Acts /\ act # None
      /\ act.kind \in {"lock", "trylock"} => act.obj \in Mutexes
      /\ act.kind = "join" => act.obj \in Created
      /\ act.kind = "unlock" => act.obj \in Mutexes /\ locked[act.obj] = t
      /\ act.kind = "wait" =>
           act.obj \in Conds /\ act.mutex \in Mutexes /\ locked[act.mutex] = t
      /\ act.kind \in {"notify_all", "notify_one"} => act.obj \in Conds
      /\ act.kind = "finish" => \A m \in Mutexes : locked[m] # t
      /\ state[t] = "created" => act.kind = "start"
  BY <1>2, NextActsLegal
<1>5. TypeOK'
  <2>1. fuel' \in [Threads -> Nat]
    <3>1. CASE act \in Free(t) /\ relock[t] = None
      <4>1. fuel[t] # 0
        BY <3>1 DEF Free
      <4> QED BY <1>2, <1>3, <3>1, <4>1 DEF TypeOK
    <3>2. CASE ~(act \in Free(t) /\ relock[t] = None)
      BY <1>2, <1>3, <3>2 DEF TypeOK
    <3> QED BY <3>1, <3>2
  <2>2. pending' \in [Threads -> Acts \cup {None}] /\ state' \in [Threads -> ThreadStates]
        /\ relock' \in [Threads -> Mutexes \cup {None}]
    BY <1>1, <1>2, <1>3, <1>4 DEF TypeOK, ThreadStates
  <2>3. deadlock' \in BOOLEAN
    BY <1>1, <1>2 DEF TypeOK, IsWaitingOn
  <2> QED BY <1>1, <1>2, <2>1, <2>2, <2>3 DEF TypeOK
<1>6. ActsAreLegal'
  <2>1. Created \subseteq Created'
    BY <1>1, <1>2 DEF Created, TypeOK
  <2> QED BY <1>1, <1>2, <1>3, <1>4, <2>1 DEF ActsAreLegal, TypeOK, IsLock, IsJoin
<1>7. StatesFit'
  BY <1>1, <1>2, <1>3, <1>4 DEF StatesFit, TypeOK
<1>8. HoldersRun' /\ WaitersRan'
  BY <1>1, <1>2 DEF HoldersRun, WaitersRan, TypeOK, Incomplete, Created
<1>9. ChildFirst'
  BY <1>1, <1>2, <1>3, <1>4 DEF ChildFirst, TypeOK
<1>10. DisabledForAReason'
  BY <1>1, <1>2, <1>3, <1>4
  DEF DisabledForAReason, CheckActionEnabled, TypeOK, ActsAreLegal, IsLock, IsJoin,
      Incomplete, Created
<1>11. SleepersListed' /\ Settled' /\ StuckNeedsSleeper'
  BY <1>1, <1>2 DEF SleepersListed, Settled, StuckNeedsSleeper, Ended
<1>12. CyclesReported'
  <2> SUFFICES ASSUME NEW W, W = Waits(pending), NEW V, V = Waits(pending)'
               PROVE  CyclesReported'
    OBVIOUS
  <2>1. W \in Graphs /\ V \in Graphs
    BY <1>2, <1>5, <1>6, WaitsGraph, WaitsGraphNext
  <2>2. W[t] = None /\ \A u \in Threads \ {t} : V[u] = W[u]
    BY <1>1, <1>2, <1>3 DEF Waits, WaitingOn, IsLock, IsJoin, TypeOK
  <2>3. (\E u \in Threads : u \in Chain(V, u)) <=>
          (\E u \in Threads : u \in Chain(W, u)) \/ t \in Chain(V, t)
    BY <2>1, <2>2, NewWait
  <2>4. deadlock <=> \E u \in Threads : u \in Chain(W, u)
    BY <1>1, <1>2 DEF CyclesReported, InCycle, IsWaitingOn
  <2>5. V = Waits(pending')
    BY <1>1 DEF Waits, WaitingOn
  <2>6. deadlock' <=> deadlock \/ t \in Chain(V, t)
    BY <1>1, <2>5 DEF IsWaitingOn
  <2>7. \A u \in Threads : InCycle(u)' <=> u \in Chain(V, u)
    BY DEF InCycle, IsWaitingOn
  <2> QED BY <1>1, <2>3, <2>4, <2>6, <2>7 DEF CyclesReported
<1> QED BY <1>5, <1>6, <1>7, <1>8, <1>9, <1>10, <1>11, <1>12 DEF IInv

LEMMA SettleStep ==
  ASSUME IInv, Settle
  PROVE  IInv'
<1> DEFINE blocked == {t \in Threads : /\ pending[t] # None /\ enabled[t]
                                       /\ ~CheckActionEnabled(pending[t])}
<1>1. /\ phase = "stash" /\ NeedPending = {}
      /\ enabled' = [t \in Threads |-> enabled[t] /\ t \notin blocked]
      /\ state' = [t \in Threads |-> IF t \in blocked THEN "blocked" ELSE state[t]]
      /\ phase' = IF deadlock THEN "reported" ELSE "choose"
      /\ UNCHANGED <<next, pending, locked, waiters, relock, fuel, deadlock, asleep>>
  BY DEF Settle
<1>2. /\ TypeOK /\ ActsAreLegal /\ StatesFit /\ HoldersRun /\ WaitersRan /\ ChildFirst
      /\ DisabledForAReason /\ CyclesReported /\ SleepersListed
  BY <1>1 DEF IInv, Running
<1>3. \A t \in blocked : t \in Threads /\ pending[t] # None /\ enabled[t]
                         /\ ~CheckActionEnabled(pending[t]) /\ state[t] = "ready"
  BY <1>2 DEF StatesFit
<1> HIDE DEF blocked
<1>4. \A t \in Threads : \/ state'[t] = state[t]
                        \/ /\ state[t] = "ready"
                           /\ state'[t] = "blocked"
  BY <1>1, <1>2, <1>3 DEF TypeOK
<1>5. TypeOK'
  <2>1. enabled' \in [Threads -> BOOLEAN]
    BY <1>1, <1>2 DEF TypeOK
  <2>2. state' \in [Threads -> ThreadStates]
    BY <1>1, <1>2 DEF TypeOK, ThreadStates
  <2> QED BY <1>1, <1>2, <2>1, <2>2 DEF TypeOK, Ended
<1>6. Created' = Created /\ Incomplete' = Incomplete
  BY <1>4 DEF Created, Incomplete
<1>7. ActsAreLegal'
  BY <1>1, <1>2, <1>6 DEF ActsAreLegal, IsLock, IsJoin
<1>8. StatesFit'
  BY <1>1, <1>2, <1>3 DEF StatesFit, TypeOK
<1>9. HoldersRun' /\ WaitersRan'
  BY <1>1, <1>2, <1>4, <1>6 DEF HoldersRun, WaitersRan, TypeOK, ToSet
<1>10. \A t \in Threads : CheckActionEnabled(pending[t])' <=> CheckActionEnabled(pending[t])
  <2> SUFFICES ASSUME NEW t \in Threads
               PROVE  CheckActionEnabled(pending[t])' <=> CheckActionEnabled(pending[t])
    OBVIOUS
  <2>1. IsJoin(pending[t]) => pending[t].obj \in Threads
    BY <1>2 DEF ActsAreLegal, Created
  <2>2. IsJoin(pending[t]) =>
          (state'[pending[t].obj] = "completed" <=> state[pending[t].obj] = "completed")
    BY <1>4, <2>1
  <2> QED BY <1>1, <2>2 DEF CheckActionEnabled
<1>11. NeedPending' = {}
  BY <1>1, <1>6 DEF NeedPending
<1>12. \A t \in Threads : enabled'[t] => CheckActionEnabled(pending[t])
  <2> SUFFICES ASSUME NEW t \in Threads, enabled'[t] PROVE CheckActionEnabled(pending[t])
    OBVIOUS
  <2>1. enabled[t] /\ t \notin blocked
    BY <1>1
  <2>2. state[t] \in {"created", "ready"}
    BY <1>2, <2>1 DEF StatesFit
  <2>3. pending[t] # None
    BY <1>1, <2>2 DEF NeedPending, Incomplete, Created
  <2> QED BY <2>1, <2>3 DEF blocked
<1>13. ChildFirst'
  <2> SUFFICES ASSUME next # None
               PROVE  /\ enabled'[next]
                      /\ pending[next] # None /\ pending[next].kind = "start"
    BY <1>1 DEF ChildFirst
  <2>1. next \in Threads
    BY <1>2 DEF TypeOK
  <2>2. enabled[next] /\ state[next] \in {"created", "ready"}
    BY <1>2, <2>1 DEF ChildFirst, StatesFit
  <2>3. pending[next] # None
    BY <1>1, <2>1, <2>2 DEF NeedPending, Incomplete, Created
  <2>4. pending[next].kind = "start"
    BY <1>2, <2>3 DEF ChildFirst
  <2>5. next \notin blocked
    BY <2>4 DEF blocked, CheckActionEnabled, IsLock, IsJoin
  <2> QED BY <1>1, <2>1, <2>2, <2>3, <2>4, <2>5
<1>14. DisabledForAReason'
  <2> SUFFICES ASSUME NEW t \in Incomplete, ~enabled'[t]
               PROVE  t \in asleep \/ (pending[t] # None /\ ~CheckActionEnabled(pending[t]))
    BY <1>1, <1>6, <1>10 DEF DisabledForAReason, Incomplete, Created
  <2>1. t \in Threads
    BY DEF Incomplete, Created
  <2>2. ~enabled[t] \/ t \in blocked
    BY <1>1, <2>1
  <2> QED BY <1>2, <1>3, <2>2 DEF DisabledForAReason
<1>15. Settled'
  BY <1>1, <1>10, <1>11, <1>12 DEF Settled
<1>16. SleepersListed'
  BY <1>1, <1>2 DEF SleepersListed, Ended
<1>17. \A t \in Threads : InCycle(t)' <=> InCycle(t)
  BY <1>1 DEF InCycle, IsWaitingOn, Waits, WaitingOn
<1>18. CyclesReported' /\ StuckNeedsSleeper'
  BY <1>1, <1>2, <1>17 DEF CyclesReported, StuckNeedsSleeper
<1> QED BY <1>5, <1>7, <1>8, <1>9, <1>13, <1>14, <1>15, <1>16, <1>18 DEF IInv

\* When no thread can be chosen and none sleeps, those left wait for each
\* other.
LEMMA FinishStep ==
  ASSUME IInv, Finish
  PROVE  IInv'
<1>1. /\ phase = "choose" /\ \A t \in Threads : ~enabled[t]
      /\ deadlock' = \E t \in Threads : pending[t] # None
      /\ phase' = IF deadlock' THEN "reported" ELSE "complete"
      /\ UNCHANGED <<next, pending, state, enabled, locked, waiters, relock, fuel, asleep>>
  BY DEF Finish
<1>2. /\ TypeOK /\ ActsAreLegal /\ StatesFit /\ HoldersRun
      /\ DisabledForAReason /\ NeedPending = {}
  BY <1>1 DEF IInv, Running, Settled
<1>3. TypeOK' /\ ~Running'
  BY <1>1, <1>2 DEF TypeOK, Running, Ended
<1>4. StuckNeedsSleeper'
  <2> SUFFICES ASSUME NEW t \in Threads, pending[t] # None, asleep = {}
               PROVE  \E u \in Threads : InCycle(u)
    BY <1>1 DEF StuckNeedsSleeper, InCycle, IsWaitingOn, Waits, WaitingOn
  <2> DEFINE P == {u \in Threads : pending[u] # None}
             W == Waits(pending)
  <2>1. \A u \in Incomplete : u \in P
    BY <1>2 DEF NeedPending, Incomplete, Created
  <2>2. ASSUME NEW u \in P
        PROVE  W[u] \in P
    <3>1. u \in Threads /\ ~enabled[u] /\ u \in Incomplete
      BY <1>1, <1>2 DEF StatesFit, Incomplete, Created
    <3>2. ~CheckActionEnabled(pending[u])
      BY <1>2, <3>1 DEF DisabledForAReason
    <3>3. CASE IsLock(pending[u])
      <4>1. /\ locked[pending[u].obj] # None /\ pending[u].obj \in Mutexes
            /\ ~IsJoin(pending[u])
        BY <1>2, <3>1, <3>2, <3>3 DEF CheckActionEnabled, ActsAreLegal, IsLock, IsJoin
      <4>2. W[u] = locked[pending[u].obj]
        BY <3>1, <3>3, <4>1 DEF Waits, WaitingOn
      <4> QED BY <1>2, <2>1, <4>1, <4>2 DEF HoldersRun
    <3>4. CASE IsJoin(pending[u])
      <4>1. ~IsLock(pending[u])
        BY <3>4 DEF IsLock, IsJoin
      <4>2. state[pending[u].obj] # "completed" /\ pending[u].obj \in Created
        BY <1>2, <3>1, <3>2, <3>4, <4>1 DEF CheckActionEnabled, ActsAreLegal
      <4>3. W[u] = pending[u].obj
        BY <3>1, <3>4, <4>1 DEF Waits, WaitingOn
      <4> QED BY <2>1, <4>2, <4>3 DEF Incomplete
    <3> QED BY <3>2, <3>3, <3>4 DEF CheckActionEnabled
  <2>3. P \in SUBSET Threads /\ P # {}
    OBVIOUS
  <2>4. W \in Graphs
    BY <1>2, WaitsGraph
  <2>5. \E u \in P : u \in Chain(W, u)
    <3> HIDE DEF P, W
    <3> QED BY <2>2, <2>3, <2>4, ClosedHasCycle
  <2> QED BY <2>3, <2>5 DEF InCycle, IsWaitingOn
<1> QED BY <1>3, <1>4 DEF IInv

LEMMA StartOrJoinStep ==
  ASSUME IInv, NEW t \in Threads, StepStart(t) \/ StepJoin(t)
  PROVE  IInv'
<1>1. /\ phase = "choose" /\ ~deadlock
      /\ TypeOK /\ ActsAreLegal /\ StatesFit /\ HoldersRun /\ WaitersRan
      /\ DisabledForAReason /\ CyclesReported /\ SleepersListed
      /\ enabled[t] /\ state[t] = "ready"
      /\ pending' = [pending EXCEPT ![t] = None]
  BY Chosen DEF StepStart, StepJoin
<1>2. /\ phase' = "stash" /\ next' = None
      /\ UNCHANGED <<state, enabled, locked, waiters, relock, fuel, deadlock, asleep>>
  BY DEF StepStart, StepJoin, Continue
<1>3. TypeOK'
  BY <1>1, <1>2 DEF TypeOK
<1>4. ActsAreLegal'
  BY <1>1, <1>2 DEF ActsAreLegal, TypeOK, IsLock, IsJoin, Created
<1>5. StatesFit' /\ HoldersRun' /\ WaitersRan' /\ ChildFirst'
  BY <1>1, <1>2
  DEF StatesFit, HoldersRun, WaitersRan, ChildFirst, TypeOK, Incomplete, Created
<1>6. DisabledForAReason'
  BY <1>1, <1>2
  DEF DisabledForAReason, CheckActionEnabled, TypeOK, IsLock, IsJoin, Incomplete, Created
<1>7. SleepersListed' /\ Settled' /\ StuckNeedsSleeper'
  BY <1>1, <1>2 DEF SleepersListed, Settled, StuckNeedsSleeper, Ended
<1>8. CyclesReported'
  BY <1>1, <1>2, <1>3, <1>4, StepClosesNoCycle
<1> QED BY <1>3, <1>4, <1>5, <1>6, <1>7, <1>8 DEF IInv

LEMMA CreateStep ==
  ASSUME IInv, NEW t \in Threads, StepCreate(t)
  PROVE  IInv'
<1>1. /\ phase = "choose" /\ ~deadlock
      /\ TypeOK /\ ActsAreLegal /\ StatesFit /\ HoldersRun /\ WaitersRan
      /\ DisabledForAReason /\ CyclesReported /\ SleepersListed
      /\ enabled[t] /\ state[t] = "ready"
      /\ pending' = [pending EXCEPT ![t] = None]
  BY Chosen DEF StepCreate
<1>2. PICK child \in Threads \ Created :
        /\ state' = [state EXCEPT ![child] = "created"]
        /\ enabled' = [enabled EXCEPT ![child] = TRUE]
        /\ next' = child
  BY DEF StepCreate
<1>3. phase' = "stash" /\ UNCHANGED <<locked, waiters, relock, fuel, deadlock, asleep>>
  BY DEF StepCreate, Continue
<1>4. child \in Threads /\ state[child] = "none" /\ child # t /\ pending[child] = None
  BY <1>1, <1>2 DEF Created, StatesFit
<1>5. TypeOK'
  BY <1>1, <1>2, <1>3 DEF TypeOK, ThreadStates
<1>6. Created \subseteq Created' /\ Incomplete \subseteq Incomplete'
  BY <1>1, <1>2, <1>4 DEF TypeOK, Created, Incomplete
<1>7. ActsAreLegal'
  BY <1>1, <1>3, <1>6 DEF ActsAreLegal, TypeOK, IsLock, IsJoin
<1>8. StatesFit'
  BY <1>1, <1>2, <1>4 DEF StatesFit, TypeOK
<1>9. HoldersRun' /\ WaitersRan'
  BY <1>1, <1>2, <1>3, <1>4, <1>6 DEF HoldersRun, WaitersRan, TypeOK, ToSet
<1>10. ChildFirst'
  BY <1>1, <1>2, <1>3, <1>4 DEF ChildFirst, TypeOK
<1>11. DisabledForAReason'
  BY <1>1, <1>2, <1>3, <1>4
  DEF DisabledForAReason, CheckActionEnabled, TypeOK, ActsAreLegal, IsLock, IsJoin,
      Incomplete, Created
<1>12. SleepersListed' /\ Settled' /\ StuckNeedsSleeper'
  BY <1>1, <1>3 DEF SleepersListed, Settled, StuckNeedsSleeper, Ended
<1>13. CyclesReported'
  BY <1>1, <1>3, <1>5, <1>7, StepClosesNoCycle
<1> QED BY <1>5, <1>7, <1>8, <1>9, <1>10, <1>11, <1>12, <1>13 DEF IInv

LEMMA FinishedStep ==
  ASSUME IInv, NEW t \in Threads, StepFinish(t)
  PROVE  IInv'
<1>1. /\ phase = "choose" /\ ~deadlock
      /\ TypeOK /\ ActsAreLegal /\ StatesFit /\ HoldersRun /\ WaitersRan
      /\ DisabledForAReason /\ CyclesReported /\ SleepersListed
      /\ pending[t] # None /\ pending[t].kind = "finish"
      /\ enabled[t] /\ state[t] = "ready"
      /\ pending' = [pending EXCEPT ![t] = None]
  BY Chosen DEF StepFinish
<1> DEFINE J == Joiners(t)
<1>2. /\ phase' = "stash" /\ next' = None
      /\ enabled' = [u \in Threads |-> (enabled[u] \/ u \in J) /\ u # t]
      /\ state' = [u \in Threads |-> IF u = t THEN "completed"
                                     ELSE IF u \in J THEN "ready" ELSE state[u]]
      /\ asleep' = asleep \ J
      /\ UNCHANGED <<locked, waiters, relock, fuel, deadlock>>
  BY DEF StepFinish, Continue
<1>3. \A u \in J : u \in Threads /\ IsJoin(pending[u]) /\ u # t
                   /\ state[u] \notin {"none", "created", "completed"}
  BY <1>1 DEF Joiners, IsJoin, StatesFit
<1>4. \A u \in Threads : IsJoin(pending[u]) /\ pending[u].obj = t => u \in J
  BY DEF Joiners
<1>5. \A m \in Mutexes : locked[m] # t
  BY <1>1 DEF ActsAreLegal
<1> HIDE DEF J
<1>6. TypeOK'
  <2>1. state' \in [Threads -> ThreadStates]
    BY <1>1, <1>2 DEF TypeOK, ThreadStates
  <2>2. enabled' \in [Threads -> BOOLEAN]
    BY <1>1, <1>2 DEF TypeOK
  <2> QED BY <1>1, <1>2, <2>1, <2>2 DEF TypeOK
<1>7. Created' = Created /\ Incomplete' = Incomplete \ {t}
  BY <1>1, <1>2, <1>3 DEF TypeOK, Created, Incomplete
<1>8. ActsAreLegal'
  BY <1>1, <1>2, <1>7 DEF ActsAreLegal, TypeOK, IsLock, IsJoin
<1>9. StatesFit'
  BY <1>1, <1>2, <1>3 DEF StatesFit, TypeOK
<1>10. HoldersRun' /\ WaitersRan'
  BY <1>1, <1>2, <1>3, <1>5, <1>7 DEF HoldersRun, WaitersRan, TypeOK, ToSet
<1>11. ChildFirst' /\ Settled' /\ StuckNeedsSleeper'
  BY <1>2 DEF ChildFirst, Settled, StuckNeedsSleeper
<1>12. DisabledForAReason'
  <2> SUFFICES ASSUME NEW u \in Incomplete \ {t}, ~enabled'[u], u \notin asleep'
               PROVE  pending'[u] # None /\ ~CheckActionEnabled(pending[u])'
    BY <1>7 DEF DisabledForAReason
  <2>1. u \in Threads /\ u # t /\ ~enabled[u] /\ u \notin J /\ u \notin asleep
    BY <1>1, <1>2 DEF Incomplete, Created, TypeOK
  <2>2. pending'[u] = pending[u] /\ pending[u] # None /\ ~CheckActionEnabled(pending[u])
    BY <1>1, <2>1 DEF DisabledForAReason, TypeOK
  <2>3. CASE IsLock(pending[u])
    BY <1>2, <2>1, <2>2, <2>3 DEF CheckActionEnabled, IsLock, IsJoin
  <2>4. CASE IsJoin(pending[u])
    <3>1. pending[u].obj \in Threads /\ pending[u].obj # t
      BY <1>1, <1>4, <2>1, <2>4 DEF ActsAreLegal, Created
    <3>2. state'[pending[u].obj] = "completed" <=> state[pending[u].obj] = "completed"
      BY <1>2, <1>3, <3>1
    <3> QED BY <2>1, <2>2, <2>4, <3>2 DEF CheckActionEnabled, IsLock, IsJoin
  <2> QED BY <2>2, <2>3, <2>4 DEF CheckActionEnabled
<1>13. SleepersListed'
  BY <1>1, <1>2 DEF SleepersListed, Ended, ToSet
<1>14. CyclesReported'
  BY <1>1, <1>2, <1>6, <1>8, StepClosesNoCycle
<1> QED BY <1>6, <1>8, <1>9, <1>10, <1>11, <1>12, <1>13, <1>14 DEF IInv

LEMMA LockStep ==
  ASSUME IInv, NEW t \in Threads, StepLock(t) \/ StepTryLock(t)
  PROVE  IInv'
<1>1. /\ phase = "choose" /\ ~deadlock
      /\ TypeOK /\ ActsAreLegal /\ StatesFit /\ HoldersRun /\ WaitersRan
      /\ DisabledForAReason /\ CyclesReported /\ SleepersListed
      /\ pending[t] # None /\ pending[t].kind \in {"lock", "trylock"}
      /\ enabled[t] /\ state[t] = "ready" /\ CheckActionEnabled(pending[t])
      /\ pending' = [pending EXCEPT ![t] = None]
  BY Chosen DEF StepLock, StepTryLock
<1> DEFINE m == pending[t].obj
<1>2. /\ phase' = "stash" /\ next' = None
      /\ UNCHANGED <<state, enabled, waiters, relock, fuel, deadlock, asleep>>
  BY DEF StepLock, StepTryLock, Continue
<1>3. m \in Mutexes
  BY <1>1 DEF ActsAreLegal, IsLock
\* A lock is performed only when the mutex is free.
<1>4. locked' = [locked EXCEPT ![m] = IF @ = None THEN t ELSE @]
  <2>1. CASE StepLock(t)
    <3>1. locked' = [locked EXCEPT ![m] = t] /\ IsLock(pending[t])
      BY <1>1, <2>1 DEF StepLock, Take, IsLock
    <3>2. locked[m] = None
      BY <1>1, <3>1 DEF CheckActionEnabled, IsLock, IsJoin
    <3> QED BY <1>1, <1>3, <3>1, <3>2 DEF TypeOK
  <2>2. CASE StepTryLock(t)
    BY <2>2 DEF StepTryLock
  <2> QED BY <2>1, <2>2
<1> HIDE DEF m
<1>5. TypeOK'
  BY <1>1, <1>2, <1>3, <1>4 DEF TypeOK
<1>6. \A n \in Mutexes : \/ locked'[n] = locked[n]
                         \/ locked[n] = None /\ locked'[n] = t
  BY <1>1, <1>3, <1>4 DEF TypeOK
<1>7. ActsAreLegal'
  <2>1. Created' = Created
    BY <1>2 DEF Created
  <2> QED BY <1>1, <1>2, <1>6, <2>1, NoneAssumption DEF ActsAreLegal, TypeOK, IsLock, IsJoin
<1>8. StatesFit' /\ WaitersRan' /\ ChildFirst'
  BY <1>1, <1>2 DEF StatesFit, WaitersRan, ChildFirst, TypeOK
<1>9. HoldersRun'
  BY <1>1, <1>2, <1>6 DEF HoldersRun, TypeOK, Incomplete, Created
<1>10. DisabledForAReason'
  <2> SUFFICES ASSUME NEW u \in Incomplete, ~enabled[u], u \notin asleep
               PROVE  pending'[u] # None /\ ~CheckActionEnabled(pending[u])'
    BY <1>2 DEF DisabledForAReason, Incomplete, Created
  <2>1. u \in Threads /\ u # t
    BY <1>1 DEF Incomplete, Created
  <2>2. pending'[u] = pending[u] /\ pending[u] # None /\ ~CheckActionEnabled(pending[u])
    BY <1>1, <2>1 DEF DisabledForAReason, TypeOK
  <2>3. CASE IsLock(pending[u])
    BY <1>1, <1>6, <2>1, <2>2, <2>3, NoneAssumption
    DEF CheckActionEnabled, ActsAreLegal, IsLock, IsJoin
  <2>4. CASE IsJoin(pending[u])
    BY <1>2, <2>2, <2>4 DEF CheckActionEnabled, IsLock, IsJoin
  <2> QED BY <2>2, <2>3, <2>4 DEF CheckActionEnabled
<1>11. SleepersListed' /\ Settled' /\ StuckNeedsSleeper'
  BY <1>1, <1>2 DEF SleepersListed, Settled, StuckNeedsSleeper, Ended
<1>12. CyclesReported'
  BY <1>1, <1>2, <1>5, <1>6, <1>7, StepClosesNoCycle
<1> QED BY <1>5, <1>7, <1>8, <1>9, <1>10, <1>11, <1>12 DEF IInv

\* Unlocking a mutex, and the half of wait() that does: everything but who is
\* enabled and asleep afterwards.
LEMMA ReleaseLegal ==
  ASSUME TypeOK, ActsAreLegal, HoldersRun, NEW t \in Threads, NEW m \in Mutexes,
         locked[m] = t, pending' = [pending EXCEPT ![t] = None],
         locked' = [locked EXCEPT ![m] = None],
         Created' = Created, Incomplete' = Incomplete
  PROVE  ActsAreLegal' /\ HoldersRun'
<1>1. \A n \in Mutexes : locked'[n] = IF n = m THEN None ELSE locked[n]
  BY DEF TypeOK
<1>2. HoldersRun'
  BY <1>1 DEF HoldersRun
<1>3. ActsAreLegal'
  BY <1>1, NoneAssumption DEF ActsAreLegal, TypeOK, IsLock, IsJoin
<1> QED BY <1>2, <1>3

\* Whoever a release unblocks is among the threads it wakes.
LEMMA ReleaseWakes ==
  ASSUME TypeOK, ActsAreLegal, NEW t \in Threads, NEW m \in Mutexes, locked[m] = t,
         locked' = [locked EXCEPT ![m] = None],
         pending' = [pending EXCEPT ![t] = None],
         NEW u \in Threads \ {t}, u \notin LockWaiters(t),
         \A v \in Threads : state'[v] = "completed" <=> state[v] = "completed",
         pending[u] # None, ~CheckActionEnabled(pending[u])
  PROVE  pending'[u] # None /\ ~CheckActionEnabled(pending[u])'
<1>1. pending'[u] = pending[u]
  BY DEF TypeOK
<1>2. CASE IsLock(pending[u])
  <2>1. locked[pending[u].obj] # t
    BY <1>2 DEF LockWaiters
  <2>2. locked'[pending[u].obj] = locked[pending[u].obj]
    BY <1>2, <2>1 DEF ActsAreLegal, TypeOK
  <2> QED BY <1>1, <1>2, <2>2 DEF CheckActionEnabled, IsLock, IsJoin
<1>3. CASE IsJoin(pending[u])
  <2>1. pending[u].obj \in Threads
    BY <1>3 DEF ActsAreLegal, Created
  <2> QED BY <1>1, <1>3, <2>1 DEF CheckActionEnabled, IsLock, IsJoin
<1> QED BY <1>1, <1>2, <1>3 DEF CheckActionEnabled

\* The threads an unlock wakes have a lock pending.
LEMMA WokenWait ==
  ASSUME StatesFit, NEW t \in Threads, NEW u \in LockWaiters(t)
  PROVE  /\ u \in Threads /\ u # t /\ pending[u] # None /\ pending[u].kind = "lock"
         /\ state[u] \notin {"none", "created", "completed"}
BY DEF LockWaiters, StatesFit, IsLock

\* The list of waiting threads, as a set.
LEMMA ToSetAppend ==
  ASSUME NEW s \in Seq(Threads), NEW t \in Threads
  PROVE  Append(s, t) \in Seq(Threads) /\ ToSet(Append(s, t)) = ToSet(s) \cup {t}
<1>1. /\ Append(s, t) \in Seq(Threads) /\ Len(s) \in Nat
      /\ DOMAIN s = 1..Len(s) /\ DOMAIN Append(s, t) = 1..(Len(s) + 1)
      /\ \A i \in 1..Len(s) : Append(s, t)[i] = s[i]
      /\ Append(s, t)[Len(s) + 1] = t
  BY AppendProperties
<1>2. 1..(Len(s) + 1) = 1..Len(s) \cup {Len(s) + 1}
  BY <1>1
<1> QED BY <1>1, <1>2 DEF ToSet

\* RemoveAt takes away one element and keeps all others.
LEMMA ToSetRemoveAt ==
  ASSUME NEW s \in Seq(Threads), NEW i \in DOMAIN s
  PROVE  /\ RemoveAt(s, i) \in Seq(Threads)
         /\ ToSet(RemoveAt(s, i)) \subseteq ToSet(s)
         /\ ToSet(s) \ {s[i]} \subseteq ToSet(RemoveAt(s, i))
<1> DEFINE n == Len(s)
           front == SubSeq(s, 1, i - 1)
           back == SubSeq(s, i + 1, n)
<1>1. n \in Nat /\ DOMAIN s = 1..n /\ i \in 1..n
  OBVIOUS
<1>2. /\ front \in Seq(Threads) /\ Len(front) = i - 1
      /\ \A k \in 1..(i - 1) : front[k] = s[k]
  BY <1>1
<1>3. /\ back \in Seq(Threads) /\ Len(back) = n - i
      /\ \A k \in 1..(n - i) : back[k] = s[k + i]
  BY <1>1
<1> HIDE DEF n, front, back
<1>4. /\ RemoveAt(s, i) \in Seq(Threads)
      /\ Len(RemoveAt(s, i)) = n - 1
      /\ \A k \in 1..(i - 1) : RemoveAt(s, i)[k] = s[k]
      /\ \A k \in i..(n - 1) : RemoveAt(s, i)[k] = s[k + 1]
  <2>1. RemoveAt(s, i) = front \o back
    BY DEF RemoveAt, front, back, n
  <2>2. Len(front \o back) = n - 1 /\ front \o back \in Seq(Threads)
    <3>1. Len(front \o back) = Len(front) + Len(back) /\ front \o back \in Seq(Threads)
      BY <1>2, <1>3, ConcatProperties
    <3> QED BY <1>1, <1>2, <1>3, <3>1
  <2>3. \A k \in 1..(n - 1) :
          (front \o back)[k] = IF k <= i - 1 THEN front[k] ELSE back[k - (i - 1)]
    <3>1. \A k \in 1..(Len(front) + Len(back)) :
            (front \o back)[k] = IF k <= Len(front) THEN front[k] ELSE back[k - Len(front)]
      BY <1>2, <1>3, ConcatProperties
    <3>2. Len(front) + Len(back) = n - 1
      BY <1>1, <1>2, <1>3
    <3> QED BY <1>2, <3>1, <3>2
  <2>4. ASSUME NEW k \in i..(n - 1)
        PROVE  (front \o back)[k] = s[k + 1]
    <3>1. k - (i - 1) \in 1..(n - i) /\ k \in 1..(n - 1) /\ ~(k <= i - 1)
          /\ (k - (i - 1)) + i = k + 1
      BY <1>1
    <3> QED BY <1>3, <2>3, <3>1
  <2>5. ASSUME NEW k \in 1..(i - 1)
        PROVE  (front \o back)[k] = s[k]
    BY <1>1, <1>2, <2>3
  <2> QED BY <2>1, <2>2, <2>4, <2>5
<1> DEFINE r == RemoveAt(s, i)
<1> HIDE DEF r
<1>5. r \in Seq(Threads) /\ DOMAIN r = 1..(n - 1)
  BY <1>4, <1>1 DEF r
<1>6. ASSUME NEW x \in ToSet(r)
      PROVE  x \in ToSet(s)
  <2>1. PICK k \in 1..(n - 1) : x = r[k]
    BY <1>5 DEF ToSet
  <2>2. CASE k <= i - 1
    <3>1. k \in 1..(i - 1) /\ k \in 1..n
      BY <1>1, <2>2
    <3>2. r[k] = s[k]
      BY <1>4, <3>1 DEF r
    <3> QED BY <1>1, <2>1, <3>1, <3>2 DEF ToSet
  <2>3. CASE k >= i
    BY <1>1, <1>4, <2>1, <2>3 DEF ToSet, r
  <2> QED BY <1>1, <2>2, <2>3
<1>7. ASSUME NEW x \in ToSet(s), x # s[i]
      PROVE  x \in ToSet(r)
  <2>1. PICK k \in 1..n : x = s[k]
    BY <1>1 DEF ToSet
  <2>2. CASE k < i
    <3>1. k \in 1..(i - 1) /\ k \in 1..(n - 1)
      BY <1>1, <2>2
    <3>2. r[k] = s[k]
      BY <1>4, <3>1 DEF r
    <3> QED BY <1>5, <2>1, <3>1, <3>2 DEF ToSet
  <2>3. CASE k > i
    <3>1. k - 1 \in i..(n - 1) /\ (k - 1) + 1 = k /\ k - 1 \in 1..(n - 1)
      BY <1>1, <2>3
    <3>2. r[k - 1] = s[k]
      BY <1>4, <3>1 DEF r
    <3> QED BY <1>5, <2>1, <3>1, <3>2 DEF ToSet
  <2> QED BY <1>1, <1>7, <2>1, <2>2, <2>3
<1> QED BY <1>4, <1>6, <1>7 DEF r

LEMMA UnlockStep ==
  ASSUME IInv, NEW t \in Threads, StepUnlock(t)
  PROVE  IInv'
<1>1. /\ phase = "choose" /\ ~deadlock
      /\ TypeOK /\ ActsAreLegal /\ StatesFit /\ HoldersRun /\ WaitersRan
      /\ DisabledForAReason /\ CyclesReported /\ SleepersListed
      /\ pending[t] # None /\ pending[t].kind = "unlock"
      /\ enabled[t] /\ state[t] = "ready"
      /\ pending' = [pending EXCEPT ![t] = None]
  BY Chosen DEF StepUnlock
<1> DEFINE m == pending[t].obj
           L == LockWaiters(t)
<1>2. /\ phase' = "stash" /\ next' = None
      /\ enabled' = [u \in Threads |-> enabled[u] \/ u \in L]
      /\ state' = [u \in Threads |-> IF u \in L THEN "ready" ELSE state[u]]
      /\ asleep' = asleep \ L
      /\ locked' = [locked EXCEPT ![m] = None]
      /\ UNCHANGED <<waiters, relock, fuel, deadlock>>
  BY DEF StepUnlock, Continue, Wake
<1>3. m \in Mutexes /\ locked[m] = t
  BY <1>1 DEF ActsAreLegal
<1>4. \A u \in L : /\ u \in Threads /\ u # t /\ pending[u] # None /\ pending[u].kind = "lock"
                   /\ state[u] \notin {"none", "created", "completed"}
  BY <1>1, WokenWait
<1> HIDE DEF m, L
<1>5. TypeOK'
  <2>1. state' \in [Threads -> ThreadStates]
    BY <1>1, <1>2 DEF TypeOK, ThreadStates
  <2>2. enabled' \in [Threads -> BOOLEAN]
    BY <1>1, <1>2 DEF TypeOK
  <2> QED BY <1>1, <1>2, <1>3, <2>1, <2>2 DEF TypeOK
<1>6. Created' = Created /\ Incomplete' = Incomplete
  BY <1>1, <1>2, <1>4 DEF TypeOK, Created, Incomplete
<1>7. ActsAreLegal' /\ HoldersRun'
  BY <1>1, <1>2, <1>3, <1>6, ReleaseLegal
<1>8. StatesFit' /\ WaitersRan'
  BY <1>1, <1>2, <1>4 DEF StatesFit, WaitersRan, TypeOK, ToSet
<1>9. ChildFirst' /\ Settled' /\ StuckNeedsSleeper'
  BY <1>2 DEF ChildFirst, Settled, StuckNeedsSleeper
<1>10. DisabledForAReason'
  <2> SUFFICES ASSUME NEW u \in Incomplete, ~enabled'[u], u \notin asleep'
               PROVE  pending'[u] # None /\ ~CheckActionEnabled(pending[u])'
    BY <1>6 DEF DisabledForAReason
  <2>1. u \in Threads \ {t} /\ u \notin L /\ ~enabled[u] /\ u \notin asleep
    BY <1>1, <1>2 DEF Incomplete, Created, TypeOK
  <2>2. pending[u] # None /\ ~CheckActionEnabled(pending[u])
    BY <1>1, <2>1 DEF DisabledForAReason
  <2>3. \A v \in Threads : state'[v] = "completed" <=> state[v] = "completed"
    BY <1>2, <1>4
  <2> QED BY <1>1, <1>2, <1>3, <2>1, <2>2, <2>3, ReleaseWakes DEF L
<1>11. SleepersListed'
  BY <1>1, <1>2 DEF SleepersListed, Ended, ToSet
<1>12. CyclesReported'
  <2>1. \A n \in Mutexes : locked'[n] \in {locked[n], None, t}
    BY <1>1, <1>2 DEF TypeOK
  <2> QED BY <1>1, <1>2, <1>5, <1>7, <2>1, StepClosesNoCycle
<1> QED BY <1>5, <1>7, <1>8, <1>9, <1>10, <1>11, <1>12 DEF IInv

LEMMA WaitStep ==
  ASSUME IInv, NEW t \in Threads, StepWait(t)
  PROVE  IInv'
<1>1. /\ phase = "choose" /\ ~deadlock
      /\ TypeOK /\ ActsAreLegal /\ StatesFit /\ HoldersRun /\ WaitersRan
      /\ DisabledForAReason /\ CyclesReported /\ SleepersListed
      /\ pending[t] # None /\ pending[t].kind = "wait"
      /\ enabled[t] /\ state[t] = "ready"
      /\ pending' = [pending EXCEPT ![t] = None]
  BY Chosen DEF StepWait
<1> DEFINE m == pending[t].mutex
           c == pending[t].obj
           L == LockWaiters(t)
           Awake == /\ enabled' = [u \in Threads |-> enabled[u] \/ u \in L]
                    /\ state' = [u \in Threads |-> IF u \in L THEN "ready" ELSE state[u]]
                    /\ asleep' = asleep \ L
                    /\ waiters' = waiters
           Sleeps == /\ waiters' = [waiters EXCEPT ![c] = Append(@, t)]
                     /\ enabled' = [u \in Threads |-> (enabled[u] \/ u \in L) /\ u # t]
                     /\ state' = [u \in Threads |-> IF u = t THEN "blocked"
                                                    ELSE IF u \in L THEN "ready" ELSE state[u]]
                     /\ asleep' = (asleep \ L) \cup {t}
<1>2. /\ phase' = "stash" /\ next' = None
      /\ locked' = [locked EXCEPT ![m] = None]
      /\ relock' = [relock EXCEPT ![t] = m]
      /\ UNCHANGED <<fuel, deadlock>>
      /\ Awake \/ Sleeps
  BY DEF StepWait, Continue, Wake
<1>3. m \in Mutexes /\ c \in Conds /\ locked[m] = t
  BY <1>1 DEF ActsAreLegal
<1>4. \A u \in L : /\ u \in Threads /\ u # t /\ pending[u] # None /\ pending[u].kind = "lock"
                   /\ state[u] \notin {"none", "created", "completed"}
  BY <1>1, WokenWait
<1> HIDE DEF m, c, L
<1>5. /\ state' \in [Threads -> ThreadStates]
      /\ enabled' \in [Threads -> BOOLEAN]
      /\ waiters' \in [Conds -> Seq(Threads)]
      /\ \A d \in Conds : ToSet(waiters'[d]) \subseteq ToSet(waiters[d]) \cup {t}
      /\ \A d \in Conds : ToSet(waiters[d]) \subseteq ToSet(waiters'[d])
      /\ asleep' \ {t} \subseteq asleep
      /\ \A u \in Threads \ {t} :
           /\ state'[u] = IF u \in L THEN "ready" ELSE state[u]
           /\ enabled'[u] = (enabled[u] \/ u \in L)
           /\ u \in asleep' <=> u \in asleep /\ u \notin L
      /\ state'[t] \in {"ready", "blocked"}
      /\ enabled'[t] => state'[t] = "ready"
      /\ ~enabled'[t] => t \in asleep'
      /\ t \in asleep' => t \in ToSet(waiters'[c]) \/ t \in asleep
  <2>1. CASE Awake
    <3>1. state' \in [Threads -> ThreadStates]
      BY <1>1, <2>1 DEF TypeOK, ThreadStates
    <3>2. enabled' \in [Threads -> BOOLEAN]
      BY <1>1, <2>1 DEF TypeOK
    <3>3. t \notin L
      BY <1>4
    <3> QED BY <1>1, <2>1, <3>1, <3>2, <3>3 DEF TypeOK
  <2>2. CASE Sleeps
    <3>1. state' \in [Threads -> ThreadStates]
      BY <1>1, <2>2 DEF TypeOK, ThreadStates
    <3>2. enabled' \in [Threads -> BOOLEAN]
      BY <1>1, <2>2 DEF TypeOK
    <3>3. waiters[c] \in Seq(Threads)
      BY <1>1, <1>3 DEF TypeOK
    <3>4. /\ Append(waiters[c], t) \in Seq(Threads)
          /\ ToSet(Append(waiters[c], t)) = ToSet(waiters[c]) \cup {t}
      BY <3>3, ToSetAppend
    <3>5. \A d \in Conds : waiters'[d] = IF d = c THEN Append(waiters[c], t) ELSE waiters[d]
      BY <1>1, <1>3, <2>2 DEF TypeOK
    <3>6. waiters' \in [Conds -> Seq(Threads)]
      BY <1>1, <1>3, <2>2, <3>4 DEF TypeOK
    <3>7. /\ \A d \in Conds : ToSet(waiters'[d]) \subseteq ToSet(waiters[d]) \cup {t}
          /\ \A d \in Conds : ToSet(waiters[d]) \subseteq ToSet(waiters'[d])
          /\ t \in ToSet(waiters'[c])
      BY <1>3, <3>4, <3>5
    <3> QED BY <1>1, <2>2, <3>1, <3>2, <3>6, <3>7 DEF TypeOK
  <2> QED BY <1>2, <2>1, <2>2
<1> HIDE DEF Awake, Sleeps
<1>6. TypeOK'
  <2>1. asleep' \in SUBSET Threads
    BY <1>1, <1>5 DEF TypeOK
  <2>2. locked' \in [Mutexes -> Threads \cup {None}]
        /\ relock' \in [Threads -> Mutexes \cup {None}]
        /\ pending' \in [Threads -> Acts \cup {None}]
    BY <1>1, <1>2, <1>3 DEF TypeOK
  <2> QED BY <1>1, <1>2, <1>5, <2>1, <2>2 DEF TypeOK
<1>7. Created' = Created /\ Incomplete' = Incomplete
  BY <1>1, <1>4, <1>5 DEF Created, Incomplete
<1>8. ActsAreLegal' /\ HoldersRun'
  BY <1>1, <1>2, <1>3, <1>7, ReleaseLegal
<1>9. StatesFit'
  BY <1>1, <1>4, <1>5 DEF StatesFit, TypeOK
<1>10. WaitersRan'
  <2> SUFFICES ASSUME NEW d \in Conds, NEW u \in ToSet(waiters'[d])
               PROVE  state'[u] \notin {"none", "created"}
    BY DEF WaitersRan, ToSet
  <2>1. u \in Threads
    BY <1>6 DEF TypeOK, ToSet
  <2>2. CASE u = t
    BY <1>5, <2>2
  <2>3. CASE u # t
    BY <1>1, <1>5, <2>1, <2>3 DEF WaitersRan
  <2> QED BY <2>2, <2>3
<1>11. ChildFirst' /\ Settled' /\ StuckNeedsSleeper'
  BY <1>2 DEF ChildFirst, Settled, StuckNeedsSleeper
<1>12. DisabledForAReason'
  <2> SUFFICES ASSUME NEW u \in Incomplete, ~enabled'[u], u \notin asleep'
               PROVE  pending'[u] # None /\ ~CheckActionEnabled(pending[u])'
    BY <1>7 DEF DisabledForAReason
  <2>1. u \in Threads \ {t} /\ u \notin L /\ ~enabled[u] /\ u \notin asleep
    BY <1>1, <1>5 DEF Incomplete, Created, TypeOK
  <2>2. pending[u] # None /\ ~CheckActionEnabled(pending[u])
    BY <1>1, <2>1 DEF DisabledForAReason
  <2>3. \A v \in Threads : state'[v] = "completed" <=> state[v] = "completed"
    BY <1>1, <1>4, <1>5
  <2> QED BY <1>1, <1>2, <1>3, <2>1, <2>2, <2>3, ReleaseWakes DEF L
<1>13. SleepersListed'
  <2> SUFFICES ASSUME NEW u \in asleep'
               PROVE  \E d \in Conds : u \in ToSet(waiters'[d])
    BY DEF SleepersListed, ToSet
  <2>1. u \in ToSet(waiters'[c]) \/ u \in asleep
    BY <1>5
  <2>2. u \in asleep => \E d \in Conds : u \in ToSet(waiters[d])
    BY <1>1 DEF SleepersListed, Ended
  <2> QED BY <1>3, <1>5, <2>1, <2>2
<1>14. CyclesReported'
  <2>1. \A n \in Mutexes : locked'[n] \in {locked[n], None, t}
    BY <1>1, <1>2 DEF TypeOK
  <2> QED BY <1>1, <1>2, <1>6, <1>8, <2>1, StepClosesNoCycle
<1> QED BY <1>6, <1>8, <1>9, <1>10, <1>11, <1>12, <1>13, <1>14 DEF IInv

\* A notification: the threads W, out of the list of condition c, are woken,
\* and the list is left without them, or one of them has completed and the
\* execution ends.
LEMMA NotifyKeepsInv ==
  ASSUME IInv, phase = "choose",
         TypeOK, ActsAreLegal, StatesFit, HoldersRun, WaitersRan,
         DisabledForAReason, CyclesReported, SleepersListed, ~deadlock,
         NEW t \in Threads, enabled[t], state[t] = "ready",
         pending' = [pending EXCEPT ![t] = None],
         NEW c \in Conds, NEW W \in SUBSET ToSet(waiters[c]), WakeWaiters(W),
         NEW rest \in Seq(Threads), waiters' = [waiters EXCEPT ![c] = rest],
         ToSet(rest) \subseteq ToSet(waiters[c]), ToSet(waiters[c]) \ W \subseteq ToSet(rest),
         next' = None, UNCHANGED <<locked, relock, fuel, deadlock>>
  PROVE  IInv'
<1>1. W \in SUBSET Threads
  BY DEF TypeOK, ToSet
<1>2. CASE \E u \in W : state[u] = "completed"
  <2>1. phase' = "assert_failed" /\ UNCHANGED <<state, enabled, asleep>>
    BY <1>2 DEF WakeWaiters
  <2>2. TypeOK'
    BY <2>1 DEF TypeOK, Ended
  <2> QED BY <2>1, <2>2 DEF IInv, Running, StuckNeedsSleeper
<1>3. CASE \A u \in W : state[u] # "completed"
  <2>1. /\ phase' = "stash"
        /\ enabled' = [u \in Threads |-> enabled[u] \/ u \in W]
        /\ state' = [u \in Threads |-> IF u \in W THEN "ready" ELSE state[u]]
        /\ asleep' = asleep \ W
    BY <1>3 DEF WakeWaiters, Continue, Wake
  <2>2. \A u \in W : u \in Threads /\ state[u] \notin {"none", "created", "completed"}
    BY <1>1, <1>3 DEF WaitersRan
  <2>3. TypeOK'
    <3>1. state' \in [Threads -> ThreadStates]
      BY <2>1 DEF TypeOK, ThreadStates
    <3>2. enabled' \in [Threads -> BOOLEAN]
      BY <2>1 DEF TypeOK
    <3> QED BY <2>1, <3>1, <3>2 DEF TypeOK
  <2>4. Created' = Created /\ Incomplete' = Incomplete
    BY <2>1, <2>2 DEF TypeOK, Created, Incomplete
  <2>5. ActsAreLegal' /\ HoldersRun'
    BY <2>4 DEF ActsAreLegal, HoldersRun, TypeOK, IsLock, IsJoin
  <2>6. StatesFit'
    BY <2>1, <2>2 DEF StatesFit, TypeOK
  <2>7. \A d \in Conds : waiters'[d] = IF d = c THEN rest ELSE waiters[d]
    BY DEF TypeOK
  <2>8. WaitersRan'
    <3> SUFFICES ASSUME NEW d \in Conds, NEW u \in ToSet(waiters'[d])
                 PROVE  state'[u] \notin {"none", "created"}
      BY DEF WaitersRan, ToSet
    <3>1. u \in ToSet(waiters[d])
      BY <2>7
    <3>2. u \in Threads /\ state[u] \notin {"none", "created"}
      BY <3>1 DEF WaitersRan, TypeOK, ToSet
    <3> QED BY <2>1, <3>2
  <2>9. ChildFirst' /\ Settled' /\ StuckNeedsSleeper'
    BY <2>1 DEF ChildFirst, Settled, StuckNeedsSleeper
  <2>10. DisabledForAReason'
    <3> SUFFICES ASSUME NEW u \in Incomplete, ~enabled'[u], u \notin asleep'
                 PROVE  pending'[u] # None /\ ~CheckActionEnabled(pending[u])'
      BY <2>4 DEF DisabledForAReason
    <3>1. u \in Threads \ {t} /\ u \notin W /\ ~enabled[u] /\ u \notin asleep
      BY <2>1 DEF Incomplete, Created, TypeOK
    <3>2. pending'[u] = pending[u] /\ pending[u] # None /\ ~CheckActionEnabled(pending[u])
      BY <3>1 DEF DisabledForAReason, TypeOK
    <3>3. IsJoin(pending[u]) => pending[u].obj \in Threads
      BY <3>1 DEF ActsAreLegal, Created
    <3>4. IsJoin(pending[u]) =>
            (state'[pending[u].obj] = "completed" <=> state[pending[u].obj] = "completed")
      BY <2>1, <2>2, <3>3
    <3> QED BY <3>2, <3>4 DEF CheckActionEnabled
  <2>11. SleepersListed'
    <3> SUFFICES ASSUME NEW u \in asleep'
                 PROVE  \E d \in Conds : u \in ToSet(waiters'[d])
      BY DEF SleepersListed, ToSet
    <3>1. u \in asleep /\ u \notin W
      BY <2>1
    <3>2. PICK d \in Conds : u \in ToSet(waiters[d])
      BY <3>1 DEF SleepersListed, Ended
    <3> QED BY <2>7, <3>1, <3>2
  <2>12. CyclesReported'
    BY <2>3, <2>5, StepClosesNoCycle DEF TypeOK
  <2> QED BY <2>3, <2>5, <2>6, <2>8, <2>9, <2>10, <2>11, <2>12 DEF IInv
<1> QED BY <1>2, <1>3

LEMMA NotifyAllStep ==
  ASSUME IInv, NEW t \in Threads, StepNotifyAll(t)
  PROVE  IInv'
<1>1. /\ phase = "choose" /\ ~deadlock
      /\ TypeOK /\ ActsAreLegal /\ StatesFit /\ HoldersRun /\ WaitersRan
      /\ DisabledForAReason /\ CyclesReported /\ SleepersListed
      /\ pending[t] # None /\ pending[t].kind = "notify_all"
      /\ enabled[t] /\ state[t] = "ready"
      /\ pending' = [pending EXCEPT ![t] = None]
  BY Chosen DEF StepNotifyAll
<1> DEFINE c == pending[t].obj
<1>2. c \in Conds
  BY <1>1 DEF ActsAreLegal
<1>3. /\ WakeWaiters(ToSet(waiters[c]))
      /\ waiters' = [waiters EXCEPT ![c] = <<>>]
      /\ next' = None /\ UNCHANGED <<locked, relock, fuel, deadlock>>
  BY DEF StepNotifyAll
<1>4. <<>> \in Seq(Threads) /\ ToSet(<<>>) = {}
  BY DEF ToSet
<1> HIDE DEF c
<1> QED BY <1>1, <1>2, <1>3, <1>4, NotifyKeepsInv

LEMMA NotifyOneStep ==
  ASSUME IInv, NEW t \in Threads, StepNotifyOne(t)
  PROVE  IInv'
<1>1. /\ phase = "choose" /\ ~deadlock
      /\ TypeOK /\ ActsAreLegal /\ StatesFit /\ HoldersRun /\ WaitersRan
      /\ DisabledForAReason /\ CyclesReported /\ SleepersListed
      /\ pending[t] # None /\ pending[t].kind = "notify_one"
      /\ enabled[t] /\ state[t] = "ready"
      /\ pending' = [pending EXCEPT ![t] = None]
  BY Chosen DEF StepNotifyOne
<1> DEFINE c == pending[t].obj
<1>2. c \in Conds /\ waiters[c] \in Seq(Threads)
  BY <1>1 DEF ActsAreLegal, TypeOK
<1>3. /\ \/ /\ phase' = "undefined"
            /\ UNCHANGED <<state, enabled, asleep, waiters>>
         \/ \E i \in DOMAIN waiters[c] :
              /\ WakeWaiters({waiters[c][i]})
              /\ waiters' = [waiters EXCEPT ![c] = RemoveAt(@, i)]
      /\ next' = None /\ UNCHANGED <<locked, relock, fuel, deadlock>>
  BY DEF StepNotifyOne
<1> HIDE DEF c
<1>4. CASE phase' = "undefined" /\ UNCHANGED <<state, enabled, asleep, waiters>>
  <2>1. TypeOK'
    BY <1>1, <1>3, <1>4 DEF TypeOK, Ended
  <2> QED BY <1>4, <2>1 DEF IInv, Running, StuckNeedsSleeper
<1>5. ASSUME NEW i \in DOMAIN waiters[c], WakeWaiters({waiters[c][i]}),
             waiters' = [waiters EXCEPT ![c] = RemoveAt(@, i)]
      PROVE  IInv'
  <2> DEFINE rest == RemoveAt(waiters[c], i)
             W == {waiters[c][i]}
  <2>1. /\ rest \in Seq(Threads)
        /\ ToSet(rest) \subseteq ToSet(waiters[c])
        /\ ToSet(waiters[c]) \ W \subseteq ToSet(rest)
    BY <1>2, ToSetRemoveAt
  <2>2. W \in SUBSET ToSet(waiters[c])
    BY DEF ToSet
  <2>3. waiters' = [waiters EXCEPT ![c] = rest] /\ WakeWaiters(W)
    BY <1>2, <1>5
  <2> HIDE DEF rest, W
  <2> QED BY <1>1, <1>2, <1>3, <2>1, <2>2, <2>3, NotifyKeepsInv
<1> QED BY <1>3, <1>4, <1>5

LEMMA StepInv ==
  ASSUME IInv, [Next]_vars
  PROVE  IInv'
<1>1. CASE UNCHANGED vars
  <2>1. /\ UNCHANGED <<phase, next, pending, state, enabled, locked, waiters>>
        /\ UNCHANGED <<relock, fuel, deadlock, asleep>>
    BY <1>1 DEF vars
  <2>2. TypeOK' = TypeOK
    BY <2>1 DEF TypeOK
  <2>3. Waits(pending)' = Waits(pending)
    BY <2>1 DEF Waits, WaitingOn
  <2>4. /\ ActsAreLegal' = ActsAreLegal /\ StatesFit' = StatesFit
        /\ HoldersRun' = HoldersRun /\ WaitersRan' = WaitersRan
        /\ ChildFirst' = ChildFirst /\ DisabledForAReason' = DisabledForAReason
        /\ Settled' = Settled /\ SleepersListed' = SleepersListed
    BY <2>1 DEF ActsAreLegal, StatesFit, HoldersRun, WaitersRan, ChildFirst,
                DisabledForAReason, Settled, SleepersListed, NeedPending, Incomplete,
                Created, CheckActionEnabled
  <2>5. CyclesReported' = CyclesReported /\ StuckNeedsSleeper' = StuckNeedsSleeper
    BY <2>1, <2>3 DEF CyclesReported, StuckNeedsSleeper, InCycle, IsWaitingOn
  <2> QED BY <2>1, <2>2, <2>4, <2>5 DEF IInv, Running
<1>2. CASE Settle
  BY <1>2, SettleStep
<1>3. CASE Finish
  BY <1>3, FinishStep
<1>4. ASSUME NEW t \in Threads, Stash(t)
      PROVE  IInv'
  BY <1>4, StashStep
<1>5. ASSUME NEW t \in Threads, TakeStep(t)
      PROVE  IInv'
  BY <1>5, StartOrJoinStep, CreateStep, FinishedStep, LockStep, UnlockStep, WaitStep,
     NotifyAllStep, NotifyOneStep
  DEF TakeStep
<1> QED BY <1>1, <1>2, <1>3, <1>4, <1>5 DEF Next
-----------------------------------------------------------------------------
\* The inductive invariant holds in every state of every execution.
THEOREM Invariance == Spec => []IInv
<1>1. Init => IInv
  BY InitInv
<1>2. IInv /\ [Next]_vars => IInv'
  BY StepInv
<1> QED BY <1>1, <1>2, PTL DEF Spec

\* The state of the run loop, the Scheduler and the threads keeps its type.
THEOREM TypeCorrect == Spec => []TypeOK
<1>1. IInv => TypeOK
  BY DEF IInv
<1> QED BY <1>1, Invariance, PTL

\* The assertions at the head of ModelExecution::take_step (execution.cc) hold
\* whichever thread the Scheduler chooses.
THEOREM AssertsHold == Spec => []StepAsserts
<1>1. IInv => StepAsserts
  <2> SUFFICES ASSUME IInv, phase = "choose", NEW t \in Threads,
                      IF next = None THEN enabled[t] ELSE t = next
               PROVE  /\ pending[t] # None
                      /\ state[t] = "ready"
                      /\ CheckActionEnabled(pending[t])
    BY DEF StepAsserts
  <2>1. /\ TypeOK /\ StatesFit /\ ChildFirst /\ NeedPending = {}
        /\ \A u \in Threads : enabled[u] => CheckActionEnabled(pending[u])
    BY DEF IInv, Running, Settled
  <2>2. enabled[t]
    BY <2>1 DEF ChildFirst
  <2>3. pending[t] # None
    BY <2>1, <2>2 DEF StatesFit, NeedPending, Incomplete, Created
  <2> QED BY <2>1, <2>2, <2>3 DEF StatesFit
<1> QED BY <1>1, Invariance, PTL

\* No unlock, no wait() and no end of a thread leaves a thread asleep that
\* could go on (Scheduler::wake in execution.cc).
THEOREM WakeupsReachAll == Spec => []NoMissedWakeup
<1>1. IInv => NoMissedWakeup
  BY DEF IInv, Running, NoMissedWakeup, DisabledForAReason, StatesFit, Incomplete, Created
<1> QED BY <1>1, Invariance, PTL

\* Whoever sleeps in wait() is in a list that a notification looks into
\* (condvar_waiters_map in execution.cc).
THEOREM NotificationsFindSleepers == Spec => []SleepersListed
<1>1. IInv => SleepersListed
  BY DEF IInv, Running, SleepersListed, Ended, TypeOK
<1> QED BY <1>1, Invariance, PTL

\* Looking at the one thread that has just come to an action, as
\* ModelChecker::run does, finds every cycle of waiting threads when it closes,
\* and reports nothing else.
THEOREM DeadlocksReported == Spec => []CyclesReported
<1>1. IInv => CyclesReported
  BY DEF IInv, Running, CyclesReported
<1> QED BY <1>1, Invariance, PTL

\* An execution that ends with threads left over, but without a cycle of
\* waiting threads, has one that sleeps in wait() (is_deadlocked).
THEOREM StuckIsExplained == Spec => []StuckNeedsSleeper
<1>1. IInv => StuckNeedsSleeper
  BY DEF IInv
<1> QED BY <1>1, Invariance, PTL
-----------------------------------------------------------------------------
(***************************************************************************)
(* The loop of Thread::is_waiting_on follows waiting_on until it meets the *)
(* thread it looks for or nobody: on a cycle that avoids that thread it    *)
(* would never end.                                                        *)
(***************************************************************************)
\* Of the threads that have yet to come to an action, all but the one that has
\* just performed its last are new; after a deadlock, all are.
OthersAreNew ==
  phase = "stash" =>
    /\ \A t, u \in NeedPending : t # u => "created" \in {state[t], state[u]}
    /\ deadlock => \A t \in NeedPending : state[t] = "created"

\* The chain of the thread that run() looks at leads back to it or ends.
WalkEnds ==
  \A t \in Threads :
    Stash(t) => \/ IsWaitingOn(pending, t, t)'
                \/ \A u \in Threads : IsWaitingOn(pending, t, u)' => ~InCycle(u)'

LEMMA StashedChain ==
  ASSUME IInv, OthersAreNew, NEW t \in Threads, Stash(t)
  PROVE  /\ phase = "stash" /\ t \in NeedPending
         /\ state' = [state EXCEPT ![t] = "ready"]
         /\ state[t] = "created" => deadlock' = deadlock
         /\ \/ IsWaitingOn(pending, t, t)'
            \/ \A u \in Threads : IsWaitingOn(pending, t, u)' => ~InCycle(u)'
<1> SUFFICES ASSUME NEW W, W = Waits(pending), NEW V, V = Waits(pending)'
             PROVE  /\ phase = "stash" /\ t \in NeedPending
                    /\ state' = [state EXCEPT ![t] = "ready"]
                    /\ state[t] = "created" => deadlock' = deadlock
                    /\ \/ t \in Chain(V, t)
                       \/ \A u \in Threads : u \in Chain(V, t) => u \notin Chain(V, u)
  BY DEF IsWaitingOn, InCycle
<1>1. /\ phase = "stash" /\ t \in NeedPending /\ pending[t] = None
      /\ state' = [state EXCEPT ![t] = "ready"]
      /\ deadlock' = (deadlock \/ IsWaitingOn(pending', t, t))
      /\ UNCHANGED locked
  BY DEF Stash, NeedPending
<1>2. /\ TypeOK /\ ActsAreLegal /\ CyclesReported
      /\ TypeOK' /\ ActsAreLegal'
  <2>1. phase' = "stash" /\ IInv'
    BY StashStep DEF Stash
  <2> QED BY <1>1, <2>1 DEF IInv, Running
<1>3. PICK act \in NextActs(t) : pending' = [pending EXCEPT ![t] = act]
  BY DEF Stash
<1>4. W \in Graphs /\ V \in Graphs
  BY <1>2, WaitsGraph, WaitsGraphNext
<1>5. W[t] = None /\ \A u \in Threads \ {t} : V[u] = W[u]
  BY <1>1, <1>2, <1>3 DEF Waits, WaitingOn, IsLock, IsJoin, TypeOK
<1>6. V = Waits(pending')
  BY <1>1 DEF Waits, WaitingOn
<1>7. CASE state[t] = "created"
  <2>1. act.kind = "start"
    BY <1>2, <1>7, NextActsLegal
  <2>2. V[t] = None
    BY <1>2, <1>3, <2>1 DEF Waits, WaitingOn, IsLock, IsJoin, TypeOK
  <2>3. Chain(V, t) = {}
    BY <1>4, <2>2, NoWaitNoChain
  <2>4. deadlock' = deadlock
    BY <1>1, <1>2, <1>6, <2>3 DEF IsWaitingOn, TypeOK
  <2> QED BY <1>1, <2>3, <2>4
<1>8. CASE state[t] # "created"
  <2>1. ~deadlock
    BY <1>1, <1>8 DEF OthersAreNew
  <2>2. \A u \in Threads : u \notin Chain(W, u)
    BY <1>1, <1>2, <2>1 DEF CyclesReported, InCycle, IsWaitingOn
  <2>3. \A u \in Threads : u \in Chain(V, u) => t \in Chain(V, t)
    BY <1>4, <1>5, <2>2, NewWait
  <2> QED BY <1>1, <1>8, <2>3
<1> QED BY <1>7, <1>8

LEMMA OthersStayNew ==
  ASSUME IInv, OthersAreNew, [Next]_vars
  PROVE  OthersAreNew'
<1>1. CASE UNCHANGED vars
  BY <1>1 DEF vars, OthersAreNew, NeedPending, Incomplete, Created
<1>2. CASE Settle \/ Finish
  BY <1>2 DEF Settle, Finish, OthersAreNew
<1>3. ASSUME NEW t \in Threads, Stash(t)
      PROVE  OthersAreNew'
  <2>1. /\ phase = "stash" /\ t \in NeedPending
        /\ state' = [state EXCEPT ![t] = "ready"]
        /\ state[t] = "created" => deadlock' = deadlock
    BY <1>3, StashedChain
  <2>2. TypeOK
    BY DEF IInv
  <2>3. PICK act \in NextActs(t) : pending' = [pending EXCEPT ![t] = act]
    BY <1>3 DEF Stash
  <2>4. act # None
    BY <2>2, <2>3, NextActsLegal
  <2>5. NeedPending' \subseteq NeedPending \ {t}
    BY <2>1, <2>2, <2>3, <2>4 DEF NeedPending, Incomplete, Created, TypeOK
  <2>6. \A u \in NeedPending' : state'[u] = state[u]
    BY <2>1, <2>2, <2>5 DEF TypeOK, NeedPending, Incomplete, Created
  <2> QED BY <2>1, <2>5, <2>6 DEF OthersAreNew
<1>4. ASSUME NEW t \in Threads, TakeStep(t)
      PROVE  OthersAreNew'
  <2>1. \E kind : Take(t, kind)
    BY <1>4 DEF TakeStep, StepStart, StepCreate, StepJoin, StepFinish, StepLock, StepTryLock,
                StepUnlock, StepWait, StepNotifyAll, StepNotifyOne
  <2>2. /\ phase = "choose" /\ ~deadlock /\ NeedPending = {}
        /\ TypeOK /\ StatesFit /\ WaitersRan
        /\ pending' = [pending EXCEPT ![t] = None]
    BY <2>1, Chosen
  <2>3. ~deadlock'
    BY <1>4, <2>2
    DEF TakeStep, StepStart, StepCreate, StepJoin, StepFinish, StepLock, StepTryLock,
        StepUnlock, StepWait, StepNotifyAll, StepNotifyOne
  <2>4. ASSUME phase' = "stash", NEW u \in NeedPending', u # t
        PROVE  state'[u] = "created"
    <3>1. u \in Threads /\ pending[u] = None /\ state'[u] \notin {"none", "completed"}
      BY <2>2, <2>4 DEF NeedPending, Incomplete, Created, TypeOK
    <3>2. state[u] \in {"none", "completed"}
      BY <2>2, <3>1 DEF NeedPending, Incomplete, Created
    <3>3. ~IsLock(pending[u]) /\ ~IsJoin(pending[u])
      BY <3>1 DEF IsLock, IsJoin
    <3>4. ASSUME NEW W, WakeWaiters(W), \A v \in W : state[v] \notin {"none", "created"}
          PROVE  FALSE
      BY <2>4, <3>1, <3>2, <3>4 DEF WakeWaiters, Wake, Continue
    <3>5. CASE StepStart(t) \/ StepJoin(t) \/ StepLock(t) \/ StepTryLock(t)
      BY <3>1, <3>2, <3>5 DEF StepStart, StepJoin, StepLock, StepTryLock
    <3>6. CASE StepCreate(t)
      BY <2>2, <3>1, <3>2, <3>6 DEF StepCreate, TypeOK
    <3>7. CASE StepFinish(t)
      BY <2>4, <3>1, <3>2, <3>3, <3>7 DEF StepFinish, Joiners
    <3>8. CASE StepUnlock(t) \/ StepWait(t)
      BY <2>4, <3>1, <3>2, <3>3, <3>8 DEF StepUnlock, StepWait, Wake, LockWaiters
    <3>9. CASE StepNotifyAll(t)
      <4>1. pending[t].obj \in Conds
        BY <3>9 DEF StepNotifyAll, Take, IInv, Running, ActsAreLegal
      <4>2. WakeWaiters(ToSet(waiters[pending[t].obj]))
        BY <3>9 DEF StepNotifyAll
      <4> QED BY <2>2, <3>4, <4>1, <4>2 DEF WaitersRan
    <3>10. CASE StepNotifyOne(t)
      <4>1. pending[t].obj \in Conds
        BY <3>10 DEF StepNotifyOne, Take, IInv, Running, ActsAreLegal
      <4>2. PICK i \in DOMAIN waiters[pending[t].obj] : WakeWaiters({waiters[pending[t].obj][i]})
        BY <2>4, <3>10 DEF StepNotifyOne
      <4>3. waiters[pending[t].obj][i] \in ToSet(waiters[pending[t].obj])
        BY DEF ToSet
      <4> QED BY <2>2, <3>4, <4>1, <4>2, <4>3 DEF WaitersRan
    <3> QED BY <1>4, <3>5, <3>6, <3>7, <3>8, <3>9, <3>10 DEF TakeStep
  <2> QED BY <2>3, <2>4 DEF OthersAreNew
<1> QED BY <1>1, <1>2, <1>3, <1>4 DEF Next

\* Every call of is_waiting_on in ModelChecker::run returns.
THEOREM WalksEnd == Spec => [][WalkEnds]_vars
<1>1. Init => OthersAreNew
  BY DEF Init, OthersAreNew, NeedPending, Incomplete, Created
<1>2. IInv /\ OthersAreNew /\ [Next]_vars => OthersAreNew'
  BY OthersStayNew
<1>3. IInv /\ OthersAreNew => WalkEnds
  BY StashedChain DEF WalkEnds
<1> QED BY <1>1, <1>2, <1>3, Invariance, PTL DEF Spec
=============================================================================
