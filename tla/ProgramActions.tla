--------------------------- MODULE ProgramActions ---------------------------
(***************************************************************************)
(* The user programs that Explorer runs, and what one action of a thread   *)
(* does to the engine of assignment3/model-checker: thread, mutex,         *)
(* condition-variable and seq_cst actions (execution.cc), and which pairs  *)
(* of actions are worth reordering (action.cc).                            *)
(*                                                                         *)
(* A program is a sequence of threads, a thread a sequence of operations   *)
(* [kind, loc, arg]; thread 1 is main().  All atomic operations are        *)
(* seq_cst, so that a load has one store to read from and executions       *)
(* differ in their schedule alone.                                         *)
(* notify_one is left to ThreadEngine: after a wait that woke spuriously   *)
(* there is nobody to notify, and the code follows an end iterator.        *)
(***************************************************************************)
EXTENDS Integers, Sequences, SequencesExt, FiniteSets

None == 0   \* no thread

Atomic == {"read", "write", "rmw", "cas"}

ThreadsOf(p) == 1..Len(p.threads)
LocsOf(p) == {op.loc : op \in UNION {ToSet(p.threads[t]) : t \in ThreadsOf(p)}}

(* The engine: at[t] is the operation thread t is about to perform (0 the  *)
(* thread's start, one past the last its finish, -1 before creation);      *)
(* then[t] says that it repeats: the lock that ends a wait, the yield of a *)
(* loop that waits for a value.                                            *)
NotCreated == -1

InitialEngine(p) ==
  [at |-> [t \in ThreadsOf(p) |-> IF t = 1 THEN 0 ELSE NotCreated],
   then |-> [t \in ThreadsOf(p) |-> "op"],
   owner |-> [l \in LocsOf(p) |-> None],
   waiters |-> [l \in LocsOf(p) |-> <<>>],
   mem |-> [l \in LocsOf(p) |-> 0],
   obs |-> [t \in ThreadsOf(p) |-> <<>>],
   en |-> [t \in ThreadsOf(p) |-> IF t = 1 THEN "enabled" ELSE "disabled"]]

Completed(p, e, t) == e.at[t] = Len(p.threads[t]) + 2
Alive(p, e) == {t \in ThreadsOf(p) : e.at[t] # NotCreated /\ ~Completed(p, e, t)}
CreatedIn(p, e) == {t \in ThreadsOf(p) : e.at[t] # NotCreated}

Plain(t, kind) == [tid |-> t, kind |-> kind, loc |-> "", arg |-> "", ok |-> TRUE]

\* The action a thread has stashed.
Pending(p, e, t) ==
  LET op == p.threads[t][e.at[t]]
      mine == [tid |-> t, kind |-> op.kind, loc |-> op.loc, arg |-> op.arg, ok |-> FALSE]
  IN CASE e.at[t] = 0 -> Plain(t, "start")
       [] e.at[t] = Len(p.threads[t]) + 1 -> Plain(t, "finish")
       [] e.then[t] = "yield" -> Plain(t, "yield")
       [] e.then[t] = "relock" -> [mine EXCEPT !.kind = "lock", !.loc = op.arg, !.arg = ""]
       [] OTHER -> mine

\* The thread that a create or a join is about.
ThreadOperand(act) == act.arg

PendingKind(p, e, t, kind) == t \in Alive(p, e) /\ Pending(p, e, t).kind = kind

WaitingOn(p, e, t) ==
  CASE PendingKind(p, e, t, "lock") -> e.owner[Pending(p, e, t).loc]
    [] PendingKind(p, e, t, "join") -> ThreadOperand(Pending(p, e, t))
    [] OTHER -> None

\* Follows waiting_on from t for as many threads as there are.
IsWaitingOnItself(p, e, t) ==
  LET hop[n \in ThreadsOf(p)] ==
        LET from == IF n = 1 THEN t ELSE hop[n - 1]
        IN IF from = None THEN None ELSE WaitingOn(p, e, from)
  IN \E n \in ThreadsOf(p) : hop[n] = t

CheckActionEnabled(p, e, t) ==
  LET act == Pending(p, e, t) IN
  CASE act.kind = "lock" -> e.owner[act.loc] = None
    [] act.kind = "join" -> Completed(p, e, ThreadOperand(act))
    [] act.kind = "yield" -> ~p.yieldblock
    [] OTHER -> TRUE

(* The Scheduler: what it says of each thread.                             *)

SetEnabled(e, T, status) ==
  [e EXCEPT !.en = [t \in DOMAIN @ |-> IF t \in T THEN status ELSE @[t]]]

Wake(e, T) == SetEnabled(e, T, "enabled")
Sleep(e, T) == SetEnabled(e, T, "disabled")
AddThread(e, t) == SetEnabled(e, {t}, "enabled")
RemoveThread(e, t) == SetEnabled(e, {t}, "disabled")

\* The run loop puts the threads that cannot go on to sleep.
Settled(p, e) == Sleep(e, {t \in Alive(p, e) : ~CheckActionEnabled(p, e, t)})
-----------------------------------------------------------------------------
(* What an action does.                                                    *)

Ran(e, t) == [e EXCEPT !.at[t] = @ + 1, !.then[t] = "op"]
Saw(e, t, v) == [e EXCEPT !.obs[t] = Append(@, v)]

\* Every thread whose pending lock is on a mutex of t, whichever t releases.
LockWaiters(p, e, t) ==
  {u \in Alive(p, e) \ {t} : PendingKind(p, e, u, "lock") /\ WaitingOn(p, e, u) = t}
Joiners(p, e, t) ==
  {u \in Alive(p, e) : PendingKind(p, e, u, "join") /\ WaitingOn(p, e, u) = t}

\* A load; one that waits for a value yields and loads again while it sees 0.
Load(e, act) ==
  LET v == e.mem[act.loc] IN
  IF act.arg = "until" /\ v = 0 THEN [e EXCEPT !.then[act.tid] = "yield"]
  ELSE Saw(Ran(e, act.tid), act.tid, v)

Store(e, act) == Ran([e EXCEPT !.mem[act.loc] = act.arg], act.tid)

FetchAdd(e, act) ==
  Saw(Ran([e EXCEPT !.mem[act.loc] = @ + act.arg], act.tid), act.tid, e.mem[act.loc])

CasSucceeds(e, act) == e.mem[act.loc] = act.arg[1]
CompareExchange(e, act) ==
  LET e1 == IF CasSucceeds(e, act) THEN [e EXCEPT !.mem[act.loc] = act.arg[2]] ELSE e
  IN Saw(Ran(e1, act.tid), act.tid, e.mem[act.loc])

Lock(e, act) == Ran([e EXCEPT !.owner[act.loc] = act.tid], act.tid)

\* A failed try_lock goes past the operations that need the mutex.
TryLock(e, act) ==
  IF e.owner[act.loc] = None
  THEN Saw(Ran([e EXCEPT !.owner[act.loc] = act.tid], act.tid), act.tid, 1)
  ELSE Saw([e EXCEPT !.at[act.tid] = @ + 1 + act.arg], act.tid, 0)

Unlock(p, e, act) ==
  Ran([Wake(e, LockWaiters(p, e, act.tid)) EXCEPT !.owner[act.loc] = None], act.tid)

\* misc 0: the thread sleeps until it is woken; misc 1: it wakes at once.
Wait(p, e, act, misc) ==
  LET released == [Wake(e, LockWaiters(p, e, act.tid)) EXCEPT !.owner[act.arg] = None,
                                                              !.then[act.tid] = "relock"]
  IN IF misc # 0 THEN released
     ELSE Sleep([released EXCEPT !.waiters[act.loc] = Append(@, act.tid)], {act.tid})

NotifyAll(e, act) ==
  Ran([Wake(e, ToSet(e.waiters[act.loc])) EXCEPT !.waiters[act.loc] = <<>>], act.tid)

NewThread(e, t) == [e EXCEPT !.at[t] = 0]

Create(e, act) ==
  Ran(AddThread(NewThread(e, ThreadOperand(act)), ThreadOperand(act)), act.tid)

Finish(p, e, act) ==
  Ran(RemoveThread(Wake(e, Joiners(p, e, act.tid)), act.tid), act.tid)

Yield(e, act) ==
  IF e.then[act.tid] = "yield" THEN [e EXCEPT !.then[act.tid] = "op"] ELSE Ran(e, act.tid)

\* The effect of an action, by its kind.
Perform(p, e, act, misc) ==
  CASE act.kind = "read" -> Load(e, act)
    [] act.kind = "write" -> Store(e, act)
    [] act.kind = "rmw" -> FetchAdd(e, act)
    [] act.kind = "cas" -> CompareExchange(e, act)
    [] act.kind = "lock" -> Lock(e, act)
    [] act.kind = "trylock" -> TryLock(e, act)
    [] act.kind = "unlock" -> Unlock(p, e, act)
    [] act.kind = "wait" -> Wait(p, e, act, misc)
    [] act.kind = "notify_all" -> NotifyAll(e, act)
    [] act.kind = "create" -> Create(e, act)
    [] act.kind = "finish" -> Finish(p, e, act)
    [] act.kind = "yield" -> Yield(e, act)
    [] OTHER -> Ran(e, act.tid)

\* How many values of misc an action has: the outcomes its node iterates over.
MiscMax(act) == IF act.kind = "wait" THEN 2 ELSE 0

\* A failed compare-exchange is a load.
ProcessRmw(e, act) == [act EXCEPT !.kind = IF CasSucceeds(e, act) THEN "rmw" ELSE "read"]

\* How the action looks once performed; try_lock knows whether it succeeded.
AsPerformed(e, act) ==
  CASE act.kind = "cas" -> ProcessRmw(e, act)
    [] act.kind = "trylock" -> [act EXCEPT !.ok = e.owner[act.loc] = None]
    [] OTHER -> act
-----------------------------------------------------------------------------
(* Which actions are worth reordering.                                     *)

CouldBeWrite(a) == a.kind \in {"write", "rmw", "cas"}
IsNotify(a) == a.kind = "notify_all"
IsLockLike(a) == a.kind \in {"lock", "trylock"}
Releases(a) == a.kind \in {"unlock", "wait"}
IsSuccessLock(a) == a.kind = "lock" \/ (a.kind = "trylock" /\ a.ok)
IsFailedTryLock(a) == a.kind = "trylock" /\ ~a.ok

\* A wait is on its condition variable and on its mutex.
SameVar(a, b) ==
  \/ a.loc = b.loc
  \/ a.kind = "wait" /\ b.kind = "wait" /\ a.arg = b.arg
  \/ a.kind = "wait" /\ b.kind # "wait" /\ a.arg = b.loc
  \/ b.kind = "wait" /\ a.kind # "wait" /\ b.arg = a.loc

\* Mutant: loads are never worth reordering.
CouldSynchronizeStoresOnly(a, b) ==
  /\ a.tid # b.tid /\ SameVar(a, b) /\ CouldBeWrite(a) /\ CouldBeWrite(b)

CouldSynchronizeWith(a, b) ==
  /\ a.tid # b.tid
  /\ SameVar(a, b)
  /\ \/ {a.kind, b.kind} \subseteq Atomic /\ (CouldBeWrite(a) \/ CouldBeWrite(b))
     \/ IsLockLike(a) /\ Releases(b)
     \/ a.kind = "trylock" /\ IsSuccessLock(b)
     \/ a.kind = "unlock" /\ IsLockLike(b)
     \/ IsNotify(a) /\ b.kind = "wait"
     \/ a.kind = "wait" /\ IsNotify(b)

IsConflictingLock(a, b) ==
  /\ a.tid # b.tid
  /\ \/ IsSuccessLock(b)
     \/ Releases(b) /\ a.kind = "trylock" /\ a.ok

\* obj_map: a wait is listed with its condition variable and with its mutex.
OnObject(b, loc) == b.loc = loc \/ (b.kind = "wait" /\ b.arg = loc)

ConflictsWith(a, b) ==
  /\ OnObject(b, a.loc)
  /\ CASE a.kind \in Atomic -> CouldSynchronizeWith(b, a)
       [] IsLockLike(a) -> IsConflictingLock(a, b)
       [] a.kind = "unlock" -> a.tid # b.tid /\ IsFailedTryLock(b)
       [] a.kind = "wait" -> a.tid # b.tid /\ (IsFailedTryLock(b) \/ IsNotify(b))
       [] IsNotify(a) -> a.tid # b.tid /\ b.kind = "wait"
       [] OTHER -> FALSE

\* The most recent action of a trace that the last one conflicts with, or 0.
LastConflict(trace) ==
  LET act == trace[Len(trace)]
      C == {i \in 1..(Len(trace) - 1) : ConflictsWith(act, trace[i])}
  IN IF C = {} THEN 0 ELSE CHOOSE i \in C : \A j \in C : j <= i
=============================================================================
