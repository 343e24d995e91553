# A verification of the Parallel-Processing-and-Architecture assignments

TLA+ models of the concurrent programs of this repository and of the model
checker (CDSChecker) it carries, the TLC runs that check them, and proofs of
some of their properties that TLAPS checks.

Run everything in this directory:

    tlc -config MCNonBlockingQueue.cfg MCNonBlockingQueue     # one run
    tlapm NonBlockingQueueProofs.tla                          # one proof module

## 1. Inventory

| component | state | operations | what is hard | what makes it correct |
|---|---|---|---|---|
| `assignment2/blocking_queue.hpp` | ring buffer, `head`, `tail`, atomic `size`, two mutexes, two condition variables | `add`, `remove` | producers and consumers hold *different* mutexes and share the buffer and `size`; notifications are sent without the waiter's mutex | FIFO, no slot read and written at once, wakeups lost in one place only |
| `assignment2/noblocking_queue.hpp` | slots with data and sequence number, positions `head` and `tail` | `add`, `remove` | claim by compare-exchange first, data afterwards; numbers read before the claim | FIFO, a slot has one owner, nobody spins forever |
| `assignment2/main.cpp` | `ready_count`, `start_flag`, `fatal_error`, the workers | spawn, wait for readiness, start, join, report | exceptions, a deadline, a thread that cannot be created, a queue operation that never ends | no worker outlives the locals it refers to; the call ends as far as its operations do |
| `assignment1/program2/version1.cpp` | forks, `count`, `wait_mutex` | a philosopher's round, deadlock report | the report must be neither missed nor wrong; the unlocked look at `count` | report if and only if deadlock |
| `assignment1/program2/version3.cpp`, `version4.cpp` | chopsticks, gate, `exit_flag` | gate, pick up, eat, put down, end of the dinner | two mutexes, busy waiting, a modulus that is a literal | neighbours take turns, everybody leaves |
| `assignment1/program2/version2.cpp` | chopsticks, clock | pick up, wait, give up | a deadline of one second | not modelled |
| `assignment1/program1.cpp` | `vector<bool>` | parallel sieve | tasks write bits of one word | not modelled |
| `assignment3/.../linkedlist_test` | a sorted list of marked pointers, thread handles and flags | `add`, `remove`, `contains`, two rounds of joins | traversal of nodes being removed and deleted, whose addresses are used again; the clean-up in `find` | until a node is taken for another one with its address: the list stays ordered; an insertion loses nothing, a removal only its node unless it writes a stale pointer |
| CDSChecker: run loop, `Scheduler`, `Thread` | enabled flags, thread states, pending actions | fetch a pending action, put to sleep, choose, take a step | who disables and who re-enables a thread; who is asked about a deadlock | assertions of `take_step`, no missed wakeup, deadlocks reported |
| CDSChecker: mutexes, condition variables, thread actions | lock states, waiter lists | `process_mutex`, `process_thread_action` | a thread asleep in `wait` that is woken by an unlock | waiters can be found |
| CDSChecker: `NodeStack`, exploration, restart | choices left at each node, backtrack and sleep sets, priorities | replay, diverge, backtrack, pop, restart | reductions that lose an execution | every outcome of two threads is seen, none is invented, the exploration ends; with three threads outcomes are lost |
| CDSChecker: `ModelExecution`, atomics | the trace, per-thread and per-object lists, clock vectors, pending release sequences | loads, stores, RMWs, fences, create, join | synchronization learned late, after later actions used the old clocks | what is computed is what C++11 says |
| CDSChecker: `CycleGraph` | modification-order edges, RMW links, cycle flag | `addEdge`, `addRMWEdge`, `checkReachable`, rollback | edges out of a write with an RMW chain | a cycle exactly when no modification order exists |
| CDSChecker: `ClockVector` | one clock per thread | create, merge, compare | | part of `ModelExecution` |
| CDSChecker: API layer (`impatomic.h`, `impatomic.cc`, `cmodelint.cc`) | one integer per object | every call of every atomic type | an operation is two actions with arithmetic between them; widths and signs | an atomic object of that type |
| CDSChecker: `datarace.cc` | shadow words, races kept aside | read and write checks | compact and expanded records, clocks that grow later | a race is reported if and only if there is one |
| CDSChecker: `scanalysis.cc`, `scfence/` | a finished trace, candidates, results | order a trace, find repairs, search | roll-backs in the ordering, growing candidate sets | verdicts are exact, results are sequentially consistent, no solution is missed |
| CDSChecker: promises, future values | promise nodes, eliminated threads | `add_future_value`, `resolve_promise`, `mergeNodes` | half-done merges, expiry | not modelled |
| CDSChecker: snapshots, allocator, containers, `main.cc`, tests, documents | | | | not modelled (section 7) |

How they interact.  In assignment 2, `main` pre-fills a queue and hands slices
of operations to workers that meet only in the queue and in three atomics.  In
CDSChecker the program under test runs on user-level threads.  The API layer
turns each of its atomic operations into one or two *pending actions* for
`ModelChecker`; mutex and thread operations become pending actions as well, and
plain accesses go to the race detector.  The run loop puts threads that cannot go on to
sleep in the `Scheduler`, chooses one, and `ModelExecution::take_step` performs
its action: it appends it to the trace, asks the `CycleGraph` which writes a
read may take, merges clock vectors where two actions synchronize, works off a
queue of things to look at again until nothing changes, and tells the
`NodeStack` where another choice should be explored.  At the end of an
execution the plugins look at the trace, and the `NodeStack` says which choice
to make differently in the next one.

## 2. Modules

| module | models | kind |
|---|---|---|
| `FifoQueue` | what both queues promise | abstract specification |
| `BenchWorkload`, `MCWorkload` | capacity, pre-fill and slices of `main.cpp`; sets of workloads for TLC | shared constants |
| `BlockingQueue`, `MCBlockingQueue` | `blocking_queue.hpp` | refines `FifoQueue` |
| `BlockingQueueProofs` | | proofs |
| `NonBlockingQueue`, `MCNonBlockingQueue` | `noblocking_queue.hpp` | refines `FifoQueue` |
| `NonBlockingQueueProofs` | | proofs: exclusive slots; refinement of `FifoQueue` |
| `BenchHarness`, `BenchHarnessProofs` | `run_benchmark_queue` | state machine, proofs |
| `DiningTable` | the philosophers, `wait_mutex` and `count` of `assignment1/program2` | shared constants and variables |
| `Philosophers` | `version1.cpp` | state machine |
| `GatedPhilosophers` | `version3.cpp`, `version4.cpp` | state machine |
| `MCPhilosophers` | one of the versions, chosen at the start | instance for TLC |
| `PhilosophersProofs` | | proofs about both |
| `RingArithmetic` | arithmetic modulo a ring's size, induction on sets | lemmas |
| `ThreadEngine`, `MCThreadEngine` | `model.cc` run loop, `schedule.cc`, `threads.cc`, mutex, condition and thread actions of `execution.cc` | state machine over *any* user program |
| `ThreadEngineProofs` | | proofs |
| `ProgramActions` | the actions of a small program: what is pending, what it does, what it conflicts with | pure operators |
| `Explorer` | `nodestack.cc`, the restart loop of `model.cc`, `schedule.cc`, the conflict search and sleep sets of `execution.cc` | state machine over executions |
| `AllInterleavings`, `MCExplorer` | every schedule of a program, without reduction; programs | reference, instances |
| `CycleGraph` | `cyclegraph.cc` without promises | pure operators |
| `ModelExecution` | `execution.cc`, `action.cc`, `clockvector.cc`: one execution with atomics | state machine |
| `MemoryModel` | C++11 relations, stated independently, and the properties | reference definitions |
| `MCModelExecution` | litmus programs | instances for TLC |
| `AtomicTypes` | the types and calls of `impatomic.h` and `cmodelint.cc`, with their conversions | tables and operators |
| `AtomicObject` | an atomic object of a type | abstract specification |
| `AtomicApi`, `MCAtomicApi` | calls as the actions the layer makes of them | refines `AtomicObject` |
| `DataRace` | `datarace.cc` and the clocks it reads | state machine, with happens-before from the history as the reference |
| `DataRaceProofs` | | proofs |
| `ScTraces` | traces of a litmus program, their clocks and modification order; which are sequentially consistent | reference and helpers |
| `ScOrder` | `scgen.cc`, `scanalysis.cc`: the order of one trace | recursive algorithm |
| `FenceFixes` | `scfence.cc`, `patch.cc`, `inferlist.cc`: repairs of a cyclic trace | pure operators |
| `FenceSearch`, `MCFenceSearch` | `scfence.cc`, `inferset.cc`: the search | state machine, programs |
| `LockFreeList` | `lock_free_list.h`, `main.cc` of `linkedlist_test` | state machine |
| `LockFreeListProofs` | | proofs |

State and actions follow the code.  In the queue, philosopher and list modules
an action is one access to shared state (or what a thread does while it holds a
mutex that protects everything it touches), and `pc` names the statement a
thread is about to perform.  In `ThreadEngine` an action is one iteration of
the run loop: `Stash` runs a user thread up to its next action, `Settle`
puts to sleep whoever cannot go on, `TakeStep` performs a pending action.
`Explorer` keeps the node stack from one execution to the next; its state is
rolled back where the code restores a snapshot (`NextExecution`).  In
`ModelExecution` an action is one `take_step` of an atomic operation with its
whole work queue; `ex` is the `ModelExecution` object, and an action of the
trace is named by its sequence number, which is its position in the trace.  In
`FenceSearch` an action is one exploration of the program under one inference,
with all that the plugin does at its end.

### Correspondence in `ModelExecution`

| code | model |
|---|---|
| `action_trace`, `obj_map`, `obj_thrd_map` | `ex.trace`, `ObjectList`, `ThreadList` |
| size of an `obj_thrd_map` vector | `ex.width` |
| `ModelAction::cv` | `ex.trace[a].cv` |
| `mo_graph` with start/commit/rollback | `ex.graph`; a rollback keeps the old value |
| `pending_rel_seqs` | `ex.pending_rel_seqs` |
| `work_queue` | `work` in the record that `Drain` and what it calls hand on |
| backwards scans of a list that stop at the first match | maximum of a set of positions |
| the sticky `updated` of `resolve_release_sequences` | `updated` in `ResolveRelSeqs` |

### Correspondence in `Explorer`

| code | model |
|---|---|
| `NodeStack::node_list`, `head_idx` | `nodes`, `head` |
| `Node::backtrack`, `explored_children`, `enabled_array`, `yield_data`, `fairness` | fields of a node |
| `ModelChecker::diverge`, `earliest_diverge` | `diverge`, `nextBacktrack` |
| `Scheduler::enabled`, `curr_thread_index` | `eng.en` (with the sleep set), `turn` |
| a snapshot restored | `InitialEngine` and an empty trace |
| choice of a result by `read_from`/misc. index | `IncrementMisc`: a notification, a spurious wakeup |

### Correspondence in `FenceSearch`

| code | model |
|---|---|
| `discoveredSet`, `candidates`, `results` | `found`, `stack`, `results` |
| `Inference::orders`, `initialInfer`, `leaf`, `explored`, `shouldFix` | fields of an inference |
| `cvmap`, `cyclic`, `allowNonSC`, `fastVersion` | `s.cv`, `s.cyclic`, `s.allow`, `g.slow` |
| `choices`, `endchoice`, `currchoice`, `lastchoice` | `ch` |
| the executions the engine finds under one inference | `Executions`, straight from the memory model |

## 3. Runs

| run | question | instance |
|---|---|---|
| `blocking_queue` | Does the queue behave as a FIFO queue, do the counters guarded by different locks agree, and where are wakeups lost? | 3 workers, 2 operations each, *every* workload, capacity 2, one item pre-filled |
| `nonblocking_queue` | FIFO without locks, one owner a slot, and does every balanced load finish? | 3 workers, 2 operations, every workload, capacity 2, full at first |
| `bench_harness` | Does nobody work early, is no worker left behind, does the call end if its operations do? | 3 workers, 2 operations, any operation may throw or never end, any thread creation may fail, the deadline may pass |
| `philosophers` | Version 1: is a deadlock reported exactly when there is one, and does somebody eat again and again? Versions 3 and 4: do neighbours take turns, and does the dinner end? | 5 philosophers, as in the code |
| `thread_engine` | Do the assertions of the run loop hold, is no wakeup missed, is every cycle of waiting threads reported? | any program of 3 threads, 2 mutexes, 1 condition variable, 3 free actions a thread |
| `explorer` | Does the exploration invent no outcome, end, and see every outcome of two threads? | 705 programs of two threads besides `main`, 10 others of 3 to 4 threads |
| `lost_outcomes` (violated) | Does it see every outcome? | one writer and two readers; two `try_lock`s of one mutex |
| `model_execution` | Do clocks, graph, read sets and feasibility say what C++11 says? | 34 litmus programs of 2 or 3 threads |
| `atomic_api` | Is what the layer makes of a call an atomic operation of that type? | 2 threads, any two calls, every type, words of 5 bits |
| `data_race` | Are exactly the races reported? | 3 threads, 2 bytes, accesses of 1 and 2 bytes, 5 steps, arrays of 1 entry at first |
| `fence_inference` | Are executions judged rightly, are the results right, minimal and complete, does the search progress? | 10 programs of 2 to 4 wildcards, both values of the uninitialised flag |
| `lock_free_list` | Does the list stay ordered under its own clean-up, and what may a change cost, until a node is taken for another one? | the test program with 3 values, 1 and 3 of them removed, every schedule, addresses used again |

The run that is violated checks what the model checker's own `README.md` says;
section 8 tells what it shows.

Why these bounds are enough.  A ring of two slots fills, runs empty and wraps
within two operations of a worker; three workers are the fewest with two on
one side and one on the other, and with six operations the positions pass
through three rounds, so a delayed worker meets its slot in a later round.
The philosophers are five because the code says so.  In `ThreadEngine`, with
three threads and two mutexes there are cycles of two and of three waiting
threads, chains that lead into a cycle, and waiters woken by an unlock before
their notification; `MaxOps` bounds the actions of a thread, and unlock, start
and finish are free so that every program can end.  The mutexes are symmetric.
The ten named programs of `explorer` are the smallest with each kind of conflict; every
one is explored to the end.  Its other programs are every pair of threads with two
accesses each (reads, writes and compare-exchanges on two locations), and critical
sections, nested locks, `try_lock`, wait and notify
against each other: which actions the conflict search passes over depends on the few
that precede them.  In `ModelExecution`, the litmus programs are the classical ones for
what the code computes: message passing with and without fences, store
buffering, coherence, RMW chains, release sequences of one and of two writers,
release fences before RMWs, three-thread causality, joins, and release
sequences that are settled only when the other threads have ended, after the
reader has gone on: once with relaxed and once with SC accesses after it
(`LateScWrite`).  Each is taken with every memory order that matters to it,
every schedule and every read.  In `AtomicApi` widths keep their order and signs
(`Bits`), so that every conversion that truncates in the code truncates in
the model, and each value starts at the least or greatest of its type, where
arithmetic wraps; two calls are what one split operation can be disturbed by.
In `DataRace` thread ids and clocks are too large for a short record from
`MaxThreadId` and `MaxClock` on, so that short records, full ones, those
made from a short one and arrays that are doubled all occur within five
steps.  In `FenceSearch` the programs are those whose repairs differ:
patterns a and b, chains through a third thread, fences, a fixed strong
order, a candidate file.  With three values the list is checked in every interleaving of
its eight
threads: adders meet removers and, as their handles are lost, also readers; a
deleted node's address may go to a node that is added later, while others still
have pointers to it; and a clean-up writes pointers that have grown stale, so that more
than one node changes (without `Stale` the second property fails).  From five
values on a deleted node can come back into the list; that is covered by the proof.

Deadlock is not checked in the queue runs (a load may leave a worker without a
partner), nor where something ends: an execution (`thread_engine`,
`model_execution`, `data_race`), an exploration (`explorer`, `lost_outcomes`), the calls
(`atomic_api`), the search (`fence_inference`), the test program, or the model at
an undefined access (`lock_free_list`).

### What the properties of `model_execution` compare

`MemoryModel` computes from `sequenced before`, `reads from` and the order of
the trace: what is forced into modification order by coherence, by the SC rules
of 29.3 and by the atomicity of RMWs (`Forced`, `ModificationOrder`); which
writes certainly belong to a release sequence; and what happens before
what as a least fixed point of the two.  It uses none of the lists, scans,
clocks or edges of the code.  Then, at the end of a feasible execution,
`ClocksAreHappensBefore` and `GraphIsModificationOrder` say that both agree;
`CyclesAreReal` that an execution is given up for a cycle only if nothing else
is possible; `PrunedReadsAreDoomed` and
`FeasiblePrefixGoesOn` that the set of writes a read may take is neither too
small nor a trap.  `ScReadsAreConsistent` that a feasible prefix
respects the rule for SC reads also after what was learned later, but for one
case that does go wrong (`PassedOverUnaware`, section 8): `LateScWrite` reaches it, and
without the exception the run fails.

### The references of the other runs

`Explorer` is compared with `AllInterleavings`, which computes the outcomes of
every schedule with no node stack, sleep set or backtracking.  `PairsLoseNothing` is
`EveryOutcomeIsSeen`, which the code does not keep, for programs of two threads
that do not both try one mutex (`IsPair`).
`DataRace!Before` is reachability in the history of program order and
synchronization; it uses no clock.  `FenceSearch` is compared with `IsSc`
(some interleaving explains the reads) and with the result of trying every
assignment of orders.  `AtomicObject` has one step a call.

## 4. Fairness

* `NonBlockingQueue`, `BenchHarness`, philosophers: weak
  fairness of each thread's step, since the operating system runs every
  runnable thread.
* Taking a mutex that others release again and again needs strong fairness of
  that step (philosophers of `GatedPhilosophers`): without
  it a thread may starve on a mutex, which is a question about the pthread
  implementation and not about this code.  `Philosophers` does with weak
  fairness, for the property is that *somebody* eats.
* `compare_exchange_weak` does not fail spuriously forever:
  strong fairness of the claims in `NonBlockingQueue`.
* `BlockingQueue` claims no liveness, for it has none: a lost notification
  (section 8) leaves a worker asleep, and a spurious wakeup, which would save
  it, is not promised.
* In `BenchHarness` nothing makes a queue operation end (`EndOperation` has no
  fairness): a notification may be lost, and the random operations of the
  workers may leave one with a full or an empty queue for ever, which
  is a question about the queues and the load.  `CallEnds` therefore supposes that no
  worker stays in an operation, and leaves out the case that the deadline has
  passed, in which the main thread joins workers nobody tells to stop
  (`main.cpp:135`).  The deadline need not pass and no operation need throw.
* `Explorer`: weak fairness of the whole next-state relation, for one thread
  runs the loop and nothing else stops it.
* `FenceSearch` states its progress as an action property: every step makes a
  new inference or explores one to the end, and there are finitely many.
* `ThreadEngine`, `ModelExecution`, `AtomicApi`, `DataRace` and `LockFreeList`
  state safety only: an execution has finitely many steps, and in the list a
  thread may retry for ever while others succeed.

## 5. What is proved

Proofs hold for all values of the constants; the assumptions are those
named in the modules.

* **`NonBlockingQueue`** (`NonBlockingQueueProofs`).  From `Capacity >= 2`
  (`TwoSlotsAssumption`: with one slot, "filled" and "free for the next
  round" would be the same number), for any workers and any workload:
  `TypeCorrect`, and `SlotsAreExclusive`, that two threads never
  access the data of a slot at the same time.  `SlotsExclusive` is not inductive: that
  a compare-exchange of `tail` succeeds says nothing about the slot unless the number
  read *earlier* is still there.  `IInv` adds who has claimed what
  (`OwnersInv`, `UniqueInv`), that a successful claim proves the number current
  (`ClaimsInv`: a position that still is `tail` when it is claimed has not
  been claimed by anyone, so its slot has not changed), and that the numbers in
  the slots belong to rounds that `head` and `tail` have reached (`RoundsInv`).
  `ImplementsFifo` adds that the queue is a bounded
  first-in first-out queue.  Under the mapping (`Contents`, `Taken`) `add`
  takes effect when it claims `tail` and `remove` when it claims `head`; the
  item at a position is the one its producer is still to write, or the one in the
  slot.  That needs one more invariant: consumers do not overtake a producer
  that has claimed and not published (`AheadInv`).  With it the claimed
  positions are within one round, so a write changes no other item
  (`OneRound`), and the item a consumer has claimed has been written.
* **`BlockingQueue`** (`BlockingQueueProofs`), for any workers, any capacity from
  one on and any workload: `CountersAlwaysAgree`, `SlotsAreDisjoint` and
  `ImplementsFifo`.  `head` belongs to one mutex, `tail` to the other and `size`
  to neither, so none of them is ever compared with all the others at rest:
  `CountersAgree` counts the operation in progress on each side (`Coming`,
  `Leaving`).  It is inductive with `LocksInv` (one worker a side is between
  lock and unlock), `RoomInv` (room or an item, once found, is still there when
  it is used, since the other side only makes more of it) and `ItemsInv`
  (the slots of the queue hold items).  The item enters the abstract queue in
  `Publish` and leaves it in `ReadSlot`; every other step leaves the abstract queue
  alone.  `LostFallingAsleep` (the workers are finitely many,
  `WorkersAssumption`) states the action property
  `WakeupsAreLostOnlyFallingAsleep`: items and slots are counted against the
  workers on their way to them.  A step that is not the one into
  `cond_wait` moves one worker from one of these sets to another
  (`CountMoves`), and a notification adds to them (`NotifyMoves`), so what was
  attended stays so.
* **`BenchHarness`** (`BenchHarnessProofs`), for any finite set of workers and any
  number of operations: `NobodyWorksEarly` and `NobodyOutlivesTheCall`.  The
  invariant says that `ready_count` is the number of workers that have passed
  that line, that `start_flag` means all of them have, that a worker that is
  done has done everything or has seen an error, and that nothing moves after the join.
* **`GatedPhilosophers`** (`PhilosophersProofs`), for any number of
  philosophers and any modulus that fits the table: `ChopsticksAreExclusive`
  (also where version 4 computes the second chopstick modulo five at a larger table),
  `GateKeepsOneOut` (the count is the number of philosophers past the gate, at
  most N - 1), `ChopsticksAreNotLost` (a chopstick is missing from the table
  exactly while a philosopher past the pick has it: those that wait have none, and
  so cannot wait for one another in a circle), and `NeighboursDoTakeTurns`,
  which needs the modulus to be the number of philosophers.
* **`Philosophers`** (`PhilosophersProofs`), for any number of philosophers
  from two on: `ReportsAreTrue`, `DeadlocksAreReported`, `LookIsDead`,
  `TypeCorrect`.  The invariant says who holds `wait_mutex` and the forks, that
  `count` is the number of philosophers at the counted labels, and that
  whoever has completed the count still holds `wait_mutex`.  A complete count
  is a deadlock because the set of philosophers that eat is empty: one that
  eats has his right neighbour's fork, so the neighbours of eaters would eat,
  all round the ring (`RingArithmetic!RingClosed`), including the one who has
  just compared.
* **`ThreadEngine`** (`ThreadEngineProofs`), for any finite set of threads, any
  mutexes and condition variables, and every user program that releases and waits
  with mutexes it holds and joins threads it created: all invariants of the run.  `IInv`
  says that pending actions are those a correct program can
  come to (`ActsAreLegal`), how thread states, the enabled flags and pending actions
  fit (`StatesFit`), that holders and waiters have run, that the child a create
  favours can run (`ChildFirst`), that a thread is disabled only
  while it sleeps or its action is impossible (`DisabledForAReason`), and what
  holds when the loop has settled (`Settled`).  `AssertsHold` and
  `WakeupsReachAll` follow; `NotificationsFindSleepers` and `StuckIsExplained`
  are parts of it.  `DeadlocksReported` is the deepest:
  the code asks `is_waiting_on` about the *one* thread that has just come to an action.
  That this finds every cycle needs that waiting is a partial function, that
  a thread which has come to no action is waited for by others but waits for nobody,
  and that a lock or a join that becomes impossible does so because of somebody
  who is running and therefore is on no cycle.  Chains are recursive functions, so their
  existence is a lemma by induction (`WalkExists`), and a chain is as long as
  the set of threads at most.  `WalksEnd` says more than a run can: `is_waiting_on`
  has no bound, and would run for ever into a cycle that does not lead
  back to where it started; no thread it is asked about ever waits for such a cycle.
* **`DataRace`** (`DataRaceProofs`), for any number of threads, any memory, any
  limits of the short records and any execution: `AlarmsAreReal`,
  `NoRaceIsMissed`, `OverrunsAreOfLargeIds` and `VectorsAreExact`.  The invariant has four
  parts.
  *Clocks* (`TraceOK`): every vector is closed under what its entries
  know, knows what it synchronized with, and knows nothing that program order and
  synchronization do not lead to.  Settling a release sequence late keeps this,
  although `propagate_clockvector` enlarges vectors from which others had been
  made, because it enlarges those as well.  *Accesses* (`AccessesOK`): every access
  is at the clock of an action of its thread.  *Records*
  (`DetectorOK`): what a record or a race kept aside stands for is an access that was made.
  *Coverage* (`Covered`): a record forgets accesses, and whether it
  may is decided by clocks that still grow.  So it does not do to say that what was
  forgotten comes before what is kept; that is claimed for *every* order `R` that
  the execution may still turn out to have (`MayBecome`: it extends the
  present order, and orders each race that was kept aside).  At the end no release
  sequence is open, the races kept aside have been judged by the final
  clocks, and the present order is one such `R`.
* **`LockFreeList`** (`LockFreeListProofs`), for any number of values, whichever of
  them are removed, and every schedule: `StaysOrdered` and `ChangesByOneNode`.
  Both speak of executions in which no thread has yet taken a node for another
  one that was given its address (`mistaken` is false): after that the list need not be
  ordered (section 8).  Addresses *are* used again in these
  executions, by nodes that others have pointers to; what must not have happened is an
  access through such a pointer, or a compare-exchange that cannot tell the two nodes
  apart.  So the invariant (`Invariance`: `Spec => [](~mistaken => IInv)`) speaks of
  nodes, and needs nothing of addresses.
  `ListIsOrdered` follows from three parts of the invariant.  *Pointers*
  (`NextInv`): the pointer of every node leads upwards, of deleted and unlinked nodes too.
  *Places* (`PlacesInv`): where `pre`, `cur` and `next_cur` of a thread lead at each
  line, relative to the value it looks for.  A stale pointer that a clean-up writes
  still leads further up than the node it is written into, which is
  why the wrong unlinks of `find` cannot break the order.  *Fresh nodes* (`FreshInv`):
  nobody but its adder has a pointer to a node before it is inserted, so what
  the compare-exchange of line 105 publishes is what line 104 wrote.
  `ChangesByOneNode` adds what a change of one pointer does to the nodes reached
  from `head`: `OutOfReach`, `TakenOut`, `PutIn`.  They rest on two facts about
  pointers that lead upwards: the rounds of `Reached` compute the least
  closed set (`ReachedLeast`, `ReachedClosed`), and that set is a chain
  (`NothingBetween`).  What the theorem leaves open is exactly the
  case of `Stale`: a node whose successor has changed between the load of its
  pointer and the exchange.
* **`RingArithmetic`**: modular arithmetic of rings, that a non-empty subset of a
  ring closed under successor is the ring, and induction over the naturals for
  *sets* (`NatSetInduction`), from well-founded minimal elements, since the provers
  cannot instantiate induction schemes with an operator parameter.

## 6. What is only model-checked

* Liveness, all of it.
* `Explorer`, `ScOrder` and `FenceSearch`: the properties compare what a whole run of
  a recursive algorithm computes with a recursive reference (all
  interleavings, all assignments of orders), and both are `RECURSIVE`
  operators over traces and trees, of which the provers can say nothing for all inputs.
  `ResultsAreIncomparable` is a fact about the programs of the run and not
  about the `InferenceSet` alone: `addResult` (`inferset.cc:98`) does not look for
  a weaker result, and a weakened candidate is explored without
  `hasBeenExplored` (`inferset.cc:127`).  An `InferenceSet` that is told at once
  that two wildcards need `seq_cst`, when neither needs anything, would accept
  (`acq_rel`, `acq_rel`) after (`release`, `release`).
* `ModelExecution`, `CycleGraph`, `MemoryModel`: `take_step` works off a queue
  until nothing changes, in passes over lists and edges (`RECURSIVE`); the
  properties are about feasible executions of litmus programs and do not hold
  of every program (section 8).
* `AtomicApi`: `RefinesAtomicObject` is arithmetic modulo `2^w` and with
  bitwise operators, which are finite for TLC and nonlinear for the provers.

## 7. What is not modelled, and why

* In `ModelExecution`: reads of values that will be written later (promises), the
  end-of-execution fixup of release sequences, sleep-set reads, `--maxreads`
  (off by default), uninitialized reads (the programs initialise their
  objects first) and values: an RMW always writes, a failed compare-exchange
  is a load.  Promises would need the promise nodes of `CycleGraph`,
  `mergeNodes` and thread elimination.
* In `ThreadEngine`: priorities, yields and what is kept from one execution to
  the next (all in `Explorer`), and thread contexts.
* In `Explorer`: atomics weaker than sequentially consistent.  The engine's
  choices of what a read may return are those of `ModelExecution`; the
  exploration treats them as it treats the choices that are modelled
  (notifications and spurious wakeups).  Two threads asleep on one condition
  variable crash the engine when the node has not counted them; `notify_one`
  is left to `ThreadEngine`.
* In `AtomicApi`: memory orders, which are handed on unchanged, the failure order
  of compare-exchange, which is ignored, and `is_lock_free`, which is always
  false.  `atomic_init` writes as a store does.  `fetch_add`, `fetch_sub`, `++`, `--`, `+=`
  and `-=` of `atomic<T*>` return a `void*` as a `T*` (`impatomic.h:3899-3905`), so they do not
  compile once used, and have no call.  Signed overflow, undefined in C, wraps as compiled
  code does.
* In `DataRace`: infeasible executions, in which the detector reports nothing, and
  what happens after an array of capacity 0 has been overrun.
* In `FenceSearch`: the implied modification order (an option), the time limit,
  annotations and the text of the results; repairs for data races
  (`addFixesDataRace` shadows its result variable and so always answers that it
  added nothing) and for buggy executions (`addFixesBuggyExecution`, never
  called).
* In `LockFreeList`: the destructor, which runs when the process ends.
* A hazard of `release_seq_heads` (`execution.cc:2018`): only threads for
  which the object had a list when the lists were last sized are asked,
  and disabled threads pass for threads that write no more.  The litmus
  programs create their threads before they share an object, and so do not
  show it.
* `NonBlockingQueue` with one slot, which the program never builds.  Liveness of
  `GatedPhilosophers` at a table other than five: with more philosophers version 4
  gives the last ones the wrong chopsticks (`version4.cpp:44`; what still holds
  is proved), with fewer it indexes past its vectors.
* Version 2 of the philosophers (measured time), the prime sieve (a race in the
  standard library's container).
* Positions and clocks are unbounded integers: overflow needs more operations
  than any execution has.
* Snapshots, the vendored allocator, containers, printing, option parsing,
  build files, documents.

## 8. What the models showed

The run `lost_outcomes` refutes what the repository says of its code.  Elsewhere,
where the code does less than one might expect, the properties are stated so
that they say what does hold; this is what they had to leave out.

* `blocking_queue.hpp:39`: `notify_one` under the other mutex can fall between the
  waiter's check and its sleep and is lost; the consumer sleeps with items in
  the queue.  `WakeupsAreLostOnlyFallingAsleep` says that this is the only place.
* `main.cpp:136`: when the deadline passes, workers that wait for the start are
  joined and nobody tells them to stop.
* `execution.cc:723`: an unlock wakes a thread asleep in `wait` and leaves its
  entry among the waiters; a later notification wakes a completed thread
  and fails the assertion at `threads.cc:195` (`assert_failed` in
  `ThreadEngine`).
* `execution.cc:421`: `get_last_conflict` takes the most recent conflicting action
  only, also when that one happens before the new action and cannot be
  reordered with it; the earlier ones get no backtracking point.  With
  `x = 1; y = 1` in one thread, a reader of `y`, and a reader of `y` and then `x`, the
  outcome is
  lost in which the last reads 0 and 0 and the other reader 1 (`TwoReaders`), against
  "exhaustively explores the behaviors" (`README.md:3` of the model checker).
  Of two threads nothing is lost (`PairsLoseNothing`).
* `execution.cc:167`: `should_wake_up` asks a `try_lock` that has
  no result yet, so a thread asleep before its own is not woken; of two `try_lock`s of one mutex
  an outcome is lost (`TwoTries`).  `lost_outcomes` has both programs; TLC stops at the
  second, and finds both with `-continue`.
* `execution.cc:2000`: an SC *load* can become the head of a release
  sequence, which invents synchronization.  `execution.cc:1582`: recomputing
  the edges of an earlier read uses the last SC fence of the thread at that
  moment, which may come after the read, and a consistent execution is given up.
  The litmus programs of `model_execution` avoid these two constellations.
* `execution.cc:1319`: an SC read is checked against the last SC write when the
  *read's* clock grows, not when the write's does.  When a release sequence settled late
  puts the relaxed store that was read before
  that write, the read has passed over the SC write and the execution still counts as
  feasible (`PassedOverUnaware`, in `LateScWrite`).
* `impatomic.h:200-204`: `+=` and `-=` of `atomic_address` return the old value,
  those of the integral types the new one; the types of `AtomicTypes` say which.
* `datarace.cc:92`: a record expanded from a word without a read has capacity
  0, and doubling leaves it 0: `OverrunsNeedLargeIds` says when.
* `scgen.cc:3`: with the uninitialised `allowNonSC` true, the repairs of store
  buffering are not found and the search ends without a result.
* `inferlist.cc:34`: a patch ends at a unit that is fixed, though it was found
  applicable; `scfence.cc:622`: a fence is proposed only where the list puts
  it between the two actions; `inferset.cc:152`: weakening never tries
  relaxed for acquire or release.  `EverySolutionIsCovered` names all three.
* `scanalysis.cc:384`: the older plugin leaves out the threads of the write and the
  read and so overlooks cycles, store buffering among them; it invents none.
* `lock_free_list.h:63`: `find` looks at the mark of the pointer that leads to a node,
  `remove` marks the pointer that leads out of it.  So `find` unlinks the
  neighbour of a removed node and clears the mark: values are lost, and come
  back; from five values on a *deleted* node can come back into the list, by the stale
  pointer of a remover (`Stale` in `LockFreeList`).
* `lock_free_list.h:105`: a node is deleted (lines 100, 129) while other threads have
  pointers to it, and `new` (line 92) may return its address.  With `tail -> 1`, `add(2)` stands
  before the exchange with `pre` the node of 1 and `cur` null; `remove(1)` deletes the
  node; `add(3)` gets its address and stores null in it; the exchange of `add(2)`
  succeeds on the node of 3, which is inserted: `tail -> 3 -> 2`
  (against "ordered ascending list", `lock_free_list.h:30`).  A `cur` whose address has been
  used again does the same: with `tail -> 5` and `add(4)` before the exchange, 5 is deleted and
  3 added at its address, and the exchange makes it `tail -> 4 -> 3`.  No deleted node is
  touched
  then; where one is, the model stops (`undefined`).  The properties of the list and
  its theorems say nothing from that moment on: `mistaken` in `LockFreeList`.
* `lock_free_list.h:77`: both dummy nodes hold 0, so values are inserted after the tail,
  `contains` finds nothing and `user_main` always fails (`main.cc:65`).  Removers
  take over the handles of adders, who are never joined (`main.cc:50`).

## 9. Plan

1. Promises: promise nodes and `mergeNodes` in `CycleGraph`, future values and
   thread elimination in `ModelExecution`; then the release-sequence fixup.
2. `ModelExecution` under `Explorer`: reads-from choices as choices of a node.
3. Theorems: progress of the bounded kind (what each step of a queue brings
   nearer), since liveness itself cannot be proved; `CycleGraph` without RMW edges,
   its search rewritten as a recursive function.
