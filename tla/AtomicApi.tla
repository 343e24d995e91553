----------------------------- MODULE AtomicApi -----------------------------
(***************************************************************************)
(* The C11 layer of assignment3/model-checker: how a call on an atomic     *)
(* type (include/impatomic.h, impatomic.cc) becomes one or two actions of  *)
(* the model checker (cmodelint.cc), and the value it answers with.        *)
(* A modification is a read (RMWR) and a write (RMW) or a close (RMWC);    *)
(* after the read the scheduler follows the same thread.  Memory orders    *)
(* are passed through and left to ModelExecution: here the last write is   *)
(* read.                                                                   *)
(***************************************************************************)
EXTENDS AtomicTypes

CONSTANTS Threads, Pending

VARIABLES of,        \* the type of the object
          call,      \* call[t]: what thread t asks of it
          word,      \* the value of the last write action
          pc,        \* pc[t]: the action thread t is at, "call", "rmw" or "done"
          old,       \* old[t]: what the RMWR of thread t read
          followed,  \* the thread that must run next, or Pending
          answer     \* answer[t]: what the call returned, or Pending

vars == <<of, call, word, pc, old, followed, answer>>

Type == Types[of].type

Init == /\ of \in DOMAIN Types
        /\ call \in [Threads -> Types[of].calls]
        /\ word \in {Widened(Type.lowest), Widened(Highest(Type))}
        /\ pc = [t \in Threads |-> "call"]
        /\ old = [t \in Threads |-> 0]
        /\ followed = Pending
        /\ answer = [t \in Threads |-> Pending]

\* Mutant: the thread of an RMWR is not followed.
MayRunAny(t) == TRUE

\* An RMW is not split.
MayRun(t) == followed \in {Pending, t}

\* The answer of a modification that read n.
Says(c, n) == IF c.says = "new" THEN Fits(Type, Applied(c.fn, n, c.arg)) ELSE n

Answered(t, r) ==
  /\ answer' = [answer EXCEPT ![t] = r]
  /\ pc' = [pc EXCEPT ![t] = "done"]
  /\ followed' = Pending

\* _ATOMIC_LOAD_
Load(t) ==
  /\ pc[t] = "call" /\ MayRun(t) /\ call[t].op = "load"
  /\ Answered(t, Fits(Type, word))
  /\ UNCHANGED <<of, call, word, old>>

\* _ATOMIC_STORE_, and the operator = that answers with its argument.
Store(t) ==
  /\ pc[t] = "call" /\ MayRun(t) /\ call[t].op = "store"
  /\ word' = Widened(call[t].arg)
  /\ Answered(t, call[t].arg)
  /\ UNCHANGED <<of, call, old>>

\* The read of _ATOMIC_MODIFY_ and _ATOMIC_CMPSWP_.
Rmwr(t) ==
  /\ pc[t] = "call" /\ MayRun(t) /\ call[t].op \in {"modify", "cas", "wait"}
  /\ old' = [old EXCEPT ![t] = Fits(Type, word)]
  /\ pc' = [pc EXCEPT ![t] = "rmw"]
  /\ followed' = t
  /\ UNCHANGED <<of, call, word, answer>>

\* The write of _ATOMIC_MODIFY_; a wait that found the flag set tries again.
Modify(t) ==
  /\ pc[t] = "rmw" /\ MayRun(t) /\ call[t].op \in {"modify", "wait"}
  /\ word' = Widened(Fits(Type, Applied(call[t].fn, old[t], call[t].arg)))
  /\ IF call[t].op = "wait" /\ old[t] # 0
     THEN /\ pc' = [pc EXCEPT ![t] = "call"]
          /\ followed' = Pending
          /\ UNCHANGED answer
     ELSE Answered(t, Says(call[t], old[t]))
  /\ UNCHANGED <<of, call, old>>

Swap(t) ==
  /\ pc[t] = "rmw" /\ MayRun(t) /\ call[t].op = "cas" /\ old[t] = call[t].exp
  /\ word' = Widened(call[t].arg)
  /\ Answered(t, [swapped |-> TRUE, exp |-> call[t].exp])
  /\ UNCHANGED <<of, call, old>>

\* The close (RMWC): what was expected becomes what was read.
DoNotSwap(t) ==
  /\ pc[t] = "rmw" /\ MayRun(t) /\ call[t].op = "cas" /\ old[t] # call[t].exp
  /\ Answered(t, [swapped |-> FALSE, exp |-> old[t]])
  /\ UNCHANGED <<of, call, word, old>>

Next == \E t \in Threads :
          Load(t) \/ Store(t) \/ Rmwr(t) \/ Modify(t) \/ Swap(t) \/ DoNotSwap(t)

Spec == Init /\ [][Next]_vars
-----------------------------------------------------------------------------
\* The two actions of a modification, the conversions of both values and the
\* arithmetic of the operators together make each call one step of an atomic
\* object of the type.
Object == INSTANCE AtomicObject WITH value <- Fits(Type, word)
RefinesAtomicObject == Object!Spec
=============================================================================
