---------------------------- MODULE AtomicObject ----------------------------
(***************************************************************************)
(* What C11 promises of an atomic object: each call takes effect in one    *)
(* step, a fetch call answers with the value it found, an assignment with  *)
(* the value it leaves, a compare-exchange tells what it found when it     *)
(* does not swap, and a flag is taken only when it is clear.               *)
(***************************************************************************)
EXTENDS AtomicTypes

CONSTANTS Threads, Pending

VARIABLES of,      \* the type of the object
          call,    \* call[t]: what thread t asks of it
          value,   \* its value
          answer   \* answer[t]: what the call returned, or Pending

vars == <<of, call, value, answer>>

Type == Types[of].type

After(c) ==
  CASE c.op = "load" -> value
    [] c.op = "cas" -> IF value = c.exp THEN Fits(Type, c.arg) ELSE value
    [] OTHER -> Fits(Type, Applied(c.fn, value, c.arg))

Answer(c) ==
  CASE c.op = "cas" -> [swapped |-> value = c.exp, exp |-> value]
    [] c.op = "store" \/ c.says = "new" -> After(c)
    [] OTHER -> value

Init == /\ of \in DOMAIN Types
        /\ call \in [Threads -> Types[of].calls]
        /\ value \in Values(Type)
        /\ answer = [t \in Threads |-> Pending]

Take(t) == /\ answer[t] = Pending
           /\ call[t].op = "wait" => value = 0
           /\ value' = After(call[t])
           /\ answer' = [answer EXCEPT ![t] = Answer(call[t])]
           /\ UNCHANGED <<of, call>>

Next == \E t \in Threads : Take(t)

Spec == Init /\ [][Next]_vars
=============================================================================
