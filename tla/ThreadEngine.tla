---------------------------- MODULE ThreadEngine ----------------------------
(***************************************************************************)
(* One execution of a user program under the model checker in              *)
(* assignment3/model-checker: the run loop (model.cc), the enabled flags   *)
(* of the Scheduler (schedule.cc), the states of Threads (threads.cc) and  *)
(* the thread, mutex and condition-variable actions (execution.cc).        *)
(*                                                                         *)
(* A user thread runs without interruption up to its next action, which it *)
(* leaves "pending"; the run loop fetches the missing pending actions, puts*)
(* the threads that cannot go on to sleep, chooses a thread and performs   *)
(* its pending action.  Which of the enabled threads is chosen, and which  *)
(* outcome a wait or notify_one has, is what the explored executions       *)
(* differ in.  The user program is any program: a thread's next action is  *)
(* any action that a correct use of mutexes and threads allows.            *)
(***************************************************************************)
EXTENDS Integers, Sequences, SequencesExt, FiniteSets

CONSTANTS NumThreads,  \* threads a program may create, the main thread first
          Mutexes,     \* std::mutex objects
          Conds,       \* std::condition_variable objects
          MaxOps,      \* actions of a thread, not counting start, unlock, finish
          None         \* no thread, no mutex, no pending action

Threads == 1..NumThreads

ASSUME NumThreadsAssumption == NumThreads \in Nat \ {0}
ASSUME MaxOpsAssumption == MaxOps \in Nat

Act(kind, obj) == [kind |-> kind, obj |-> obj, mutex |-> None]
WaitAct(c, m) == [kind |-> "wait", obj |-> c, mutex |-> m]

Kinds == {"start", "create", "join", "finish", "lock", "trylock", "unlock",
          "wait", "notify_all", "notify_one"}
Acts == [kind : Kinds, obj : Threads \cup Mutexes \cup Conds \cup {None},
         mutex : Mutexes \cup {None}]

ASSUME NoneAssumption == None \notin Threads \cup Mutexes \cup Acts

VARIABLES phase,     \* what the run loop does next, or how the execution ended
          next,      \* the thread the last action selected, or None
          pending,   \* pending[t]: the action t is about to perform
          state,     \* state[t]: thread_state; "none" before creation
          enabled,   \* enabled[t]: the Scheduler may choose t
          locked,    \* locked[m]: the thread holding m
          waiters,   \* waiters[c]: condvar_waiters_map, oldest first
          relock,    \* relock[t]: the mutex wait() has still to take again
          fuel,      \* fuel[t]: actions t may still start
          deadlock,  \* a deadlock was reported
          asleep     \* history: threads in wait() nothing has woken since

vars == <<phase, next, pending, state, enabled, locked, waiters, relock, fuel,
          deadlock, asleep>>

Ended == {"complete", "reported", "assert_failed", "undefined"}

Created == {t \in Threads : state[t] # "none"}
Incomplete == {t \in Created : state[t] # "completed"}

IsLock(act) == act # None /\ act.kind = "lock"
IsJoin(act) == act # None /\ act.kind = "join"

Init == /\ phase = "stash"
        /\ next = None
        /\ pending = [t \in Threads |-> None]
        /\ state = [t \in Threads |-> IF t = 1 THEN "created" ELSE "none"]
        /\ enabled = [t \in Threads |-> t = 1]
        /\ locked = [m \in Mutexes |-> None]
        /\ waiters = [c \in Conds |-> <<>>]
        /\ relock = [t \in Threads |-> None]
        /\ fuel = [t \in Threads |-> MaxOps]
        /\ deadlock = FALSE
        /\ asleep = {}
-----------------------------------------------------------------------------
(* The user program.                                                       *)

Held(t) == {m \in Mutexes : locked[m] = t}

Unlocks(t) == {Act("unlock", m) : m \in Held(t)}

\* A thread may end when it holds no mutex.
Finishes(t) == IF Held(t) = {} THEN {Act("finish", None)} ELSE {}

Free(t) ==
  IF fuel[t] = 0 THEN {}
  ELSE {Act("create", None) : u \in Threads \ Created}
         \cup {Act("join", u) : u \in Created \ {t}}
         \cup {Act(k, m) : k \in {"lock", "trylock"}, m \in Mutexes}
         \cup {WaitAct(c, m) : c \in Conds, m \in Held(t)}
         \cup {Act(k, c) : k \in {"notify_all", "notify_one"}, c \in Conds}

\* The actions t may come up with when it runs next.
NextActs(t) ==
  CASE state[t] = "created" -> {Act("start", None)}
    [] state[t] # "created" /\ relock[t] # None -> {Act("lock", relock[t])}
    [] OTHER -> Unlocks(t) \cup Finishes(t) \cup Free(t)
-----------------------------------------------------------------------------
(* Who waits for whom (Thread::waiting_on, Thread::is_waiting_on).         *)

\* Mutant: joins are forgotten.
WaitingOnLocksOnly(pend, t) == IF IsLock(pend[t]) THEN locked[pend[t].obj] ELSE None

WaitingOn(pend, t) ==
  CASE IsJoin(pend[t]) -> pend[t].obj
    [] IsLock(pend[t]) -> locked[pend[t].obj]
    [] OTHER -> None

Waits(pend) == [t \in Threads |-> WaitingOn(pend, t)]

\* The threads on the chain of waiting_on that starts at t: at most all.
Chain(waits, t) ==
  LET step[n \in 0..NumThreads] ==
        IF n = 0 THEN {waits[t]}
        ELSE step[n - 1] \cup {waits[u] : u \in step[n - 1] \ {None}}
  IN step[NumThreads] \ {None}

IsWaitingOn(pend, t, u) == u \in Chain(Waits(pend), t)

CheckActionEnabled(act) ==
  CASE IsLock(act) -> locked[act.obj] = None
    [] IsJoin(act) -> state[act.obj] = "completed"
    [] OTHER -> TRUE
-----------------------------------------------------------------------------
(* The run loop.                                                           *)

NeedPending == {t \in Incomplete : pending[t] = None}

\* The lowest thread without a pending action runs up to its next one; if that
\* closes a chain of waiting threads, a deadlock is reported.
\* Mutant: only a thread that comes to a lock is checked.
StashChecksLocks(t) ==
  /\ phase = "stash"
  /\ t \in NeedPending /\ \A u \in NeedPending : t <= u
  /\ \E act \in NextActs(t) :
       /\ pending' = [pending EXCEPT ![t] = act]
       /\ fuel' = IF act \in Free(t) /\ relock[t] = None
                  THEN [fuel EXCEPT ![t] = @ - 1] ELSE fuel
  /\ state' = [state EXCEPT ![t] = "ready"]
  /\ relock' = [relock EXCEPT ![t] = None]
  /\ deadlock' = (deadlock \/ (IsLock(pending'[t]) /\ IsWaitingOn(pending', t, t)))
  /\ UNCHANGED <<phase, next, enabled, locked, waiters, asleep>>

Stash(t) ==
  /\ phase = "stash"
  /\ t \in NeedPending /\ \A u \in NeedPending : t <= u
  /\ \E act \in NextActs(t) :
       /\ pending' = [pending EXCEPT ![t] = act]
       /\ fuel' = IF act \in Free(t) /\ relock[t] = None
                  THEN [fuel EXCEPT ![t] = @ - 1] ELSE fuel
  /\ state' = [state EXCEPT ![t] = "ready"]
  /\ relock' = [relock EXCEPT ![t] = None]
  /\ deadlock' = (deadlock \/ IsWaitingOn(pending', t, t))
  /\ UNCHANGED <<phase, next, enabled, locked, waiters, asleep>>

\* Mutant: the loop that disables threads looks at locks only.
SettleLocks ==
  /\ phase = "stash" /\ NeedPending = {}
  /\ LET blocked == {t \in Threads : /\ IsLock(pending[t]) /\ enabled[t]
                                     /\ ~CheckActionEnabled(pending[t])}
     IN /\ enabled' = [t \in Threads |-> enabled[t] /\ t \notin blocked]
        /\ state' = [t \in Threads |-> IF t \in blocked THEN "blocked" ELSE state[t]]
  /\ phase' = IF deadlock THEN "reported" ELSE "choose"
  /\ UNCHANGED <<next, pending, locked, waiters, relock, fuel, deadlock, asleep>>

\* Threads whose pending action cannot be performed now are put to sleep; a
\* reported deadlock ends the execution.
Settle ==
  /\ phase = "stash" /\ NeedPending = {}
  /\ LET blocked == {t \in Threads : /\ pending[t] # None /\ enabled[t]
                                     /\ ~CheckActionEnabled(pending[t])}
     IN /\ enabled' = [t \in Threads |-> enabled[t] /\ t \notin blocked]
        /\ state' = [t \in Threads |-> IF t \in blocked THEN "blocked" ELSE state[t]]
  /\ phase' = IF deadlock THEN "reported" ELSE "choose"
  /\ UNCHANGED <<next, pending, locked, waiters, relock, fuel, deadlock, asleep>>

\* No thread to choose: the execution is over, and is_deadlocked() reports it
\* if some thread still has an action to perform.
Finish ==
  /\ phase = "choose" /\ next = None /\ \A t \in Threads : ~enabled[t]
  /\ deadlock' = \E t \in Threads : pending[t] # None
  /\ phase' = IF deadlock' THEN "reported" ELSE "complete"
  /\ UNCHANGED <<next, pending, state, enabled, locked, waiters, relock, fuel, asleep>>

\* Thread t is chosen and gives up its pending action, which is of this kind.
Take(t, kind) ==
  /\ phase = "choose"
  /\ IF next = None THEN enabled[t] ELSE t = next
  /\ pending[t] # None /\ pending[t].kind = kind
  /\ pending' = [pending EXCEPT ![t] = None]

Continue == phase' = "stash"
-----------------------------------------------------------------------------
(* take_step: what the actions do.                                         *)

\* Scheduler::wake for every thread of a set.  A completed thread cannot
\* become ready again: the assertion in Thread::set_state ends the program.
Wake(W) ==
  /\ enabled' = [t \in Threads |-> enabled[t] \/ t \in W]
  /\ state' = [t \in Threads |-> IF t \in W THEN "ready" ELSE state[t]]
  /\ asleep' = asleep \ W

StepStart(t) ==
  /\ Take(t, "start") /\ Continue
  /\ next' = None
  /\ UNCHANGED <<state, enabled, locked, waiters, relock, fuel, deadlock, asleep>>

\* The child runs first.
StepCreate(t) ==
  /\ Take(t, "create") /\ Continue
  /\ \E child \in Threads \ Created :
       /\ \A u \in Threads \ Created : child <= u
       /\ state' = [state EXCEPT ![child] = "created"]
       /\ enabled' = [enabled EXCEPT ![child] = TRUE]
       /\ next' = child
  /\ UNCHANGED <<locked, waiters, relock, fuel, deadlock, asleep>>

StepJoin(t) ==
  /\ Take(t, "join") /\ Continue
  /\ next' = None
  /\ UNCHANGED <<state, enabled, locked, waiters, relock, fuel, deadlock, asleep>>

\* The threads that would join t.
Joiners(t) == {u \in Threads : IsJoin(pending[u]) /\ pending[u].obj = t}

StepFinish(t) ==
  /\ Take(t, "finish") /\ Continue
  /\ enabled' = [u \in Threads |-> (enabled[u] \/ u \in Joiners(t)) /\ u # t]
  /\ state' = [u \in Threads |-> IF u = t THEN "completed"
                                 ELSE IF u \in Joiners(t) THEN "ready" ELSE state[u]]
  /\ asleep' = asleep \ Joiners(t)
  /\ next' = None
  /\ UNCHANGED <<locked, waiters, relock, fuel, deadlock>>

StepLock(t) ==
  /\ Take(t, "lock") /\ Continue
  /\ locked' = [locked EXCEPT ![pending[t].obj] = t]
  /\ next' = None
  /\ UNCHANGED <<state, enabled, waiters, relock, fuel, deadlock, asleep>>

StepTryLock(t) ==
  /\ Take(t, "trylock") /\ Continue
  /\ locked' = [locked EXCEPT ![pending[t].obj] = IF @ = None THEN t ELSE @]
  /\ next' = None
  /\ UNCHANGED <<state, enabled, waiters, relock, fuel, deadlock, asleep>>

\* The threads whose pending lock is on a mutex that t holds: on any of them,
\* not only the one being unlocked.
\* Mutant: only one of them.
LockWaitersFirst(t) ==
  LET all == {u \in Threads \ {t} : IsLock(pending[u]) /\ locked[pending[u].obj] = t}
  IN {u \in all : \A v \in all : u <= v}

LockWaiters(t) == {u \in Threads \ {t} : IsLock(pending[u]) /\ locked[pending[u].obj] = t}

StepUnlock(t) ==
  /\ Take(t, "unlock") /\ Continue
  /\ Wake(LockWaiters(t))
  /\ locked' = [locked EXCEPT ![pending[t].obj] = None]
  /\ next' = None
  /\ UNCHANGED <<waiters, relock, fuel, deadlock>>

\* wait() releases the mutex and, unless it wakes spuriously at once, sleeps.
\* In both cases the thread goes on to lock the mutex again.
StepWait(t) ==
  /\ Take(t, "wait") /\ Continue
  /\ locked' = [locked EXCEPT ![pending[t].mutex] = None]
  /\ relock' = [relock EXCEPT ![t] = pending[t].mutex]
  /\ \/ /\ Wake(LockWaiters(t))
        /\ UNCHANGED waiters
     \/ /\ waiters' = [waiters EXCEPT ![pending[t].obj] = Append(@, t)]
        /\ enabled' = [u \in Threads |-> (enabled[u] \/ u \in LockWaiters(t)) /\ u # t]
        /\ state' = [u \in Threads |-> IF u = t THEN "blocked"
                                       ELSE IF u \in LockWaiters(t) THEN "ready" ELSE state[u]]
        /\ asleep' = (asleep \ LockWaiters(t)) \cup {t}
  /\ next' = None
  /\ UNCHANGED <<fuel, deadlock>>

\* Waking a completed thread trips the assertion in Thread::set_state.
WakeWaiters(W) ==
  IF \E u \in W : state[u] = "completed"
  THEN phase' = "assert_failed" /\ UNCHANGED <<state, enabled, asleep>>
  ELSE Continue /\ Wake(W)

StepNotifyAll(t) ==
  /\ Take(t, "notify_all")
  /\ WakeWaiters(ToSet(waiters[pending[t].obj]))
  /\ waiters' = [waiters EXCEPT ![pending[t].obj] = <<>>]
  /\ next' = None
  /\ UNCHANGED <<locked, relock, fuel, deadlock>>

\* One waiter, each in its own execution; with no waiter, the code follows an
\* iterator that is at the end of the list.
\* Mutant: the list is cleared as after notify_all.
StepNotifyOneClears(t) ==
  /\ Take(t, "notify_one")
  /\ \E i \in DOMAIN waiters[pending[t].obj] :
       WakeWaiters({waiters[pending[t].obj][i]})
  /\ waiters' = [waiters EXCEPT ![pending[t].obj] = <<>>]
  /\ next' = None
  /\ UNCHANGED <<locked, relock, fuel, deadlock>>

StepNotifyOne(t) ==
  /\ Take(t, "notify_one")
  /\ LET c == pending[t].obj IN
     \/ /\ waiters[c] = <<>>
        /\ phase' = "undefined"
        /\ UNCHANGED <<state, enabled, asleep, waiters>>
     \/ \E i \in DOMAIN waiters[c] :
          /\ WakeWaiters({waiters[c][i]})
          /\ waiters' = [waiters EXCEPT ![c] = RemoveAt(@, i)]
  /\ next' = None
  /\ UNCHANGED <<locked, relock, fuel, deadlock>>

TakeStep(t) == \/ StepStart(t) \/ StepCreate(t) \/ StepJoin(t) \/ StepFinish(t)
               \/ StepLock(t) \/ StepTryLock(t) \/ StepUnlock(t)
               \/ StepWait(t) \/ StepNotifyAll(t) \/ StepNotifyOne(t)

Next == Settle \/ Finish \/ \E t \in Threads : Stash(t) \/ TakeStep(t)

Spec == Init /\ [][Next]_vars
-----------------------------------------------------------------------------
\* The assertions at the head of take_step hold for whichever thread may be
\* chosen: it has an action to perform, is ready, and the action can be
\* performed.
StepAsserts ==
  phase = "choose" =>
    \A t \in Threads :
      (IF next = None THEN enabled[t] ELSE t = next) =>
        /\ pending[t] # None
        /\ state[t] = "ready"
        /\ CheckActionEnabled(pending[t])

\* A thread that is not enabled cannot go on: it sleeps in wait() or its
\* action is impossible now.  No release of a mutex and no end of a thread
\* fails to wake those it unblocks.
NoMissedWakeup ==
  phase = "choose" =>
    \A t \in Threads : pending[t] # None /\ ~enabled[t] =>
      t \in asleep \/ ~CheckActionEnabled(pending[t])

\* Every thread asleep in wait() can be found by a notification.
SleepersListed ==
  phase \notin Ended =>
    \A t \in asleep : \E c \in Conds : t \in ToSet(waiters[c])

\* Threads wait for each other in a cycle exactly when a deadlock has been
\* reported: checking only the thread that has just run, at the moment it gets
\* its pending action, misses none and invents none.
InCycle(t) == IsWaitingOn(pending, t, t)
CyclesReported ==
  phase \in {"stash", "choose"} => (deadlock <=> \E t \in Threads : InCycle(t))

\* At the end of an execution without such a cycle, threads with actions left
\* are there only because one of them was never notified.
StuckNeedsSleeper ==
  phase = "reported" => asleep # {} \/ \E t \in Threads : InCycle(t)

=============================================================================
