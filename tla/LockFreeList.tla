----------------------------- MODULE LockFreeList ---------------------------
(***************************************************************************)
(* The ordered list of assignment3/model-checker/linkedlist_test under its *)
(* test program main.cc: threads that add one value each, threads that     *)
(* remove every other value, and, after the joins, threads that look for   *)
(* the values.                                                             *)
(*                                                                         *)
(* A pointer is [node, mark]; the mark of a node's next pointer says that  *)
(* the node is being removed.  A step is one access to a next pointer.     *)
(* The dummy nodes head and tail both hold T{}, below every value.         *)
(*                                                                         *)
(* The address of a deleted node may be given to a new one.  A pointer     *)
(* names the node it was made for, but to the code it is an address: an    *)
(* access reaches whatever node is there now, and compare_exchange         *)
(* compares addresses.  An access to an address that is free, or through a *)
(* pointer whose mark has not been cleared, is undefined: the model stops  *)
(* there.                                                                  *)
(***************************************************************************)
EXTENDS Integers, Sequences, FiniteSets

CONSTANTS Values,     \* the values of main.cc
          Removed     \* those it removes

ASSUME ValuesAssumption ==
  /\ Cardinality(Values) \in Nat /\ Values = 1..Cardinality(Values)
  /\ Removed \subseteq Values

VARIABLES next,       \* next[n]: the pointer in node n
          address,    \* address[n]: where node n is or was, 0 before it is made
          deleted,    \* nodes given back
          pc,         \* pc[t]: where thread t is
          pre, cur,   \* pre[t], cur[t], after[t]: pre, cur, next_cur of t
          after,
          flag,       \* flag[v]: the flag of the arguments for v
          main,       \* where user_main() is: "adding", "looking", "passed"
                      \* or "failed"
          joined,     \* the values whose threads it has joined
          undefined,  \* some access was undefined
          mistaken    \* history: some access or comparison took a node for
                      \* another one that had its address

memory == <<address, deleted>>
locals == <<pre, cur, after>>
vars == <<next, memory, pc, locals, flag, main, joined, undefined, mistaken>>

Adder(v) == <<"add", v>>
Remover(v) == <<"remove", v>>
Reader(v) == <<"contains", v>>
Changers == {Adder(v) : v \in Values} \union {Remover(v) : v \in Removed}
Threads == Changers \union {Reader(v) : v \in Values}
Arg(t) == t[2]

Ptr(n) == [node |-> n, mark |-> FALSE]
Marked(p) == [p EXCEPT !.mark = TRUE]
Unmarked(p) == [p EXCEPT !.mark = FALSE]
Null == Ptr(0)

\* Values are 1.., so the node with value v is v + 2.
HeadNode == 1
TailNode == 2
NumNodes == 2 + Cardinality(Values)
Nodes == 1..NumNodes
ValueOf(n) == IF n <= TailNode THEN 0 ELSE n - 2
NewNode(t) == Arg(t) + 2

Init ==
  /\ next = [n \in Nodes |-> IF n = HeadNode THEN Ptr(TailNode) ELSE Null]
  /\ address = [n \in Nodes |-> IF n <= TailNode THEN n ELSE 0]
  /\ deleted = {}
  /\ pc = [t \in Threads |-> CASE t[1] = "add" -> "new" [] t[1] = "remove" -> "find" [] OTHER -> "idle"]
  /\ pre = [t \in Threads |-> Null]
  /\ cur = [t \in Threads |-> Null]
  /\ after = [t \in Threads |-> Null]
  /\ flag = [v \in Values |-> FALSE]
  /\ main = "adding"
  /\ joined = {}
  /\ undefined = FALSE
  /\ mistaken = FALSE

-----------------------------------------------------------------------------
(* Memory.                                                                 *)

Live == {n \in Nodes : address[n] # 0} \ deleted

Addr(p) == IF p.node = 0 THEN 0 ELSE address[p.node]

\* The two pointers are equal to compare_exchange.
Same(p, q) == Addr(p) = Addr(q) /\ p.mark = q.mark

\* The node that an access through p reaches, 0 if there is none.
At(p) == {n \in Live : address[n] = Addr(p)}
Target(p) == IF At(p) = {} THEN 0 ELSE CHOOSE n \in At(p) : TRUE

Value(p) == ValueOf(Target(p))
Read(p) == next[Target(p)]

\* An address is called after the first node that had it.
FreeAddresses(n) == ({n} \union {address[d] : d \in deleted}) \ {address[m] : m \in Live}

-----------------------------------------------------------------------------
(* The steps of a call.  Accesses(t) has the pointers through which t      *)
(* accesses a node in its next step, and Compares(t) the pairs of pointers *)
(* that it compares there.  A marked null pointer is not null.             *)

\* The loop of contains ends.
Stops(t) == cur[t] = Null \/ cur[t].node = TailNode \/ Value(cur[t]) >= Arg(t)

Accesses(t) ==
  CASE pc[t] \in {"walk", "found"} /\ cur[t] # Null -> {Unmarked(cur[t])}
    [] pc[t] = "clean" /\ cur[t].mark -> {Unmarked(cur[t])}
    [] pc[t] \in {"mark", "delete"} -> {Unmarked(cur[t])}
    [] pc[t] \in {"help", "insert", "unlink"} -> {pre[t]}
    [] pc[t] = "look" /\ ~Stops(t) -> {cur[t]}
    [] pc[t] = "look" /\ Stops(t) /\ cur[t] # Null -> {Unmarked(cur[t])}
    [] OTHER -> {}

IsUndefined(t) == \E p \in Accesses(t) : p.mark \/ At(p) = {}

Compares(t) ==
  CASE pc[t] \in {"help", "insert", "unlink"} -> {<<Read(pre[t]), cur[t]>>}
    [] pc[t] = "mark" -> {<<Read(cur[t]), after[t]>>}
    [] OTHER -> {}

IsMistake(t) ==
  \/ \E p \in Accesses(t) : Target(p) # p.node
  \/ \E c \in Compares(t) : Same(c[1], c[2]) /\ c[1] # c[2]

Is(t, label) == pc[t] = label /\ ~IsUndefined(t)
Goto(t, label) == pc' = [pc EXCEPT ![t] = label]

\* The local variables, until the call returns or looks for its place again.
Forget(t) ==
  /\ pre' = [pre EXCEPT ![t] = Null]
  /\ cur' = [cur EXCEPT ![t] = Null]
  /\ after' = [after EXCEPT ![t] = Null]

Return(t, result) == Goto(t, IF result THEN "true" ELSE "false") /\ Forget(t)

Retry(t) == Goto(t, "find") /\ Forget(t)

GoWrong(t) ==
  /\ IsUndefined(t)
  /\ undefined' = TRUE
  /\ UNCHANGED <<next, memory, pc, locals, flag, main, joined, mistaken>>

\* compare_exchange_strong on the next pointer of the node at p.
Succeeds(p, expected) == Same(Read(p), expected)

Swaps(p, expected, desired) ==
  next' = IF Succeeds(p, expected) THEN [next EXCEPT ![Target(p)] = desired] ELSE next

(* find *)

StartFind(t) ==
  /\ Is(t, "find")
  /\ pre' = [pre EXCEPT ![t] = Ptr(HeadNode)]
  /\ cur' = [cur EXCEPT ![t] = next[HeadNode]]
  /\ Goto(t, "walk")
  /\ UNCHANGED <<next, memory, after>>

Walk(t) ==
  /\ Is(t, "walk")
  /\ IF cur[t] = Null \/ Value(cur[t]) >= Arg(t)
       THEN Goto(t, "clean") /\ UNCHANGED <<pre, cur>>
       ELSE /\ pre' = [pre EXCEPT ![t] = cur[t]]
            /\ cur' = [cur EXCEPT ![t] = Read(cur[t])]
            /\ UNCHANGED pc
  /\ UNCHANGED <<next, memory, after>>

\* The mark of cur is that of the node it was read from.
Clean(t) ==
  /\ Is(t, "clean")
  /\ IF cur[t].mark
       THEN Goto(t, "help") /\ after' = [after EXCEPT ![t] = Read(cur[t])]
       ELSE Goto(t, "found") /\ UNCHANGED after
  /\ UNCHANGED <<next, memory, pre, cur>>

Help(t) ==
  /\ Is(t, "help")
  /\ Swaps(pre[t], cur[t], after[t])
  /\ \/ /\ Succeeds(pre[t], cur[t])
        /\ Goto(t, "clean")
        /\ cur' = [cur EXCEPT ![t] = after[t]]
        /\ after' = [after EXCEPT ![t] = Null]
        /\ UNCHANGED pre
     \/ ~Succeeds(pre[t], cur[t]) /\ Retry(t)
  /\ UNCHANGED memory

Found(t) == cur[t] # Null /\ Value(cur[t]) = Arg(t)

(* add *)

\* The constructor ends; until then the address counts as free.
New(t) ==
  /\ Is(t, "new")
  /\ \E a \in FreeAddresses(NewNode(t)) : address' = [address EXCEPT ![NewNode(t)] = a]
  /\ Goto(t, "find")
  /\ UNCHANGED <<next, deleted, locals>>

Prepare(t) ==
  /\ t[1] = "add"
  /\ Is(t, "found")
  /\ IF Found(t) /\ ~cur[t].mark
       THEN /\ deleted' = deleted \union {NewNode(t)}
            /\ Return(t, FALSE)
            /\ UNCHANGED next
       ELSE /\ next' = [next EXCEPT ![NewNode(t)] = cur[t]]
            /\ Goto(t, "insert")
            /\ UNCHANGED <<deleted, locals>>
  /\ UNCHANGED address

\* Mutant: the pointer is overwritten without a comparison.
InsertBlindly(t) ==
  /\ Is(t, "insert")
  /\ next' = [next EXCEPT ![Target(pre[t])] = Ptr(NewNode(t))]
  /\ Return(t, TRUE)
  /\ UNCHANGED memory

\* Mutant: after a failure the comparison is tried again with the pointer found.
InsertAgain(t) ==
  /\ Is(t, "insert")
  /\ \/ /\ Succeeds(pre[t], cur[t])
        /\ next' = [next EXCEPT ![Target(pre[t])] = Ptr(NewNode(t))]
        /\ Return(t, TRUE)
     \/ /\ ~Succeeds(pre[t], cur[t])
        /\ cur' = [cur EXCEPT ![t] = Read(pre[t])]
        /\ next' = [next EXCEPT ![NewNode(t)] = Read(pre[t])]
        /\ UNCHANGED <<pc, pre, after>>
  /\ UNCHANGED memory

Insert(t) ==
  /\ Is(t, "insert")
  /\ Swaps(pre[t], cur[t], Ptr(NewNode(t)))
  /\ IF Succeeds(pre[t], cur[t]) THEN Return(t, TRUE) ELSE Retry(t)
  /\ UNCHANGED memory

(* remove *)

ReadNext(t) ==
  /\ t[1] = "remove"
  /\ Is(t, "found")
  /\ IF Found(t)
       THEN Goto(t, "mark") /\ after' = [after EXCEPT ![t] = Read(cur[t])] /\ UNCHANGED <<pre, cur>>
       ELSE Return(t, FALSE)
  /\ UNCHANGED <<next, memory>>

Mark(t) ==
  /\ Is(t, "mark")
  /\ Swaps(cur[t], after[t], Marked(after[t]))
  /\ IF Succeeds(cur[t], after[t]) THEN Goto(t, "unlink") /\ UNCHANGED locals ELSE Retry(t)
  /\ UNCHANGED memory

Unlink(t) ==
  /\ Is(t, "unlink")
  /\ Swaps(pre[t], cur[t], after[t])
  /\ IF Succeeds(pre[t], cur[t]) THEN Goto(t, "delete") /\ UNCHANGED locals ELSE Return(t, TRUE)
  /\ UNCHANGED memory

Delete(t) ==
  /\ Is(t, "delete")
  /\ deleted' = deleted \union {Target(cur[t])}
  /\ Return(t, TRUE)
  /\ UNCHANGED <<next, address>>

(* contains *)

Look(t) ==
  /\ Is(t, "look")
  /\ IF Stops(t)
       THEN Return(t, cur[t].node # TailNode /\ Found(t) /\ ~Read(cur[t]).mark)
       ELSE /\ cur' = [cur EXCEPT ![t] = Read(cur[t])]
            /\ UNCHANGED <<pc, pre, after>>
  /\ UNCHANGED <<next, memory>>

\* The thread sets the flag of its arguments to the result.
SetFlag(t) ==
  /\ pc[t] \in {"true", "false"}
  /\ flag' = [flag EXCEPT ![Arg(t)] = (pc[t] = "true")]
  /\ Goto(t, "done")
  /\ UNCHANGED <<next, memory, locals, mistaken>>

Call(t) ==
  /\ \/ StartFind(t) \/ Walk(t) \/ Clean(t) \/ Help(t)
     \/ New(t) \/ Prepare(t) \/ Insert(t)
     \/ ReadNext(t) \/ Mark(t) \/ Unlink(t) \/ Delete(t)
     \/ Look(t)
  /\ mistaken' = (mistaken \/ IsMistake(t))
  /\ UNCHANGED flag

Step(t) ==
  /\ Call(t) \/ SetFlag(t)
  /\ UNCHANGED <<main, joined, undefined>>

-----------------------------------------------------------------------------
(* user_main(): the handle of an adder is lost when a remover takes it.    *)

Joinable(v) ==
  IF main = "looking" THEN Reader(v)
  ELSE IF v \in Removed THEN Remover(v) ELSE Adder(v)

\* What the flag of a value must be after the join.
Expected(v) == IF main = "looking" THEN v \notin Removed ELSE TRUE

IsNext(v) == v \notin joined /\ \A u \in Values : u < v => u \in joined

Join(v) ==
  /\ main \in {"adding", "looking"}
  /\ IsNext(v)
  /\ pc[Joinable(v)] = "done"
  /\ IF flag[v] # Expected(v) THEN main' = "failed" /\ UNCHANGED joined
     ELSE /\ joined' = joined \union {v}
          /\ main' = IF main = "looking" /\ joined' = Values THEN "passed" ELSE main
  /\ UNCHANGED <<next, memory, pc, locals, flag, undefined, mistaken>>

StartReaders ==
  /\ main = "adding"
  /\ joined = Values
  /\ main' = "looking"
  /\ joined' = {}
  /\ pc' = [t \in Threads |-> IF t[1] = "contains" THEN "look" ELSE pc[t]]
  /\ cur' = [t \in Threads |-> IF t[1] = "contains" THEN Ptr(HeadNode) ELSE cur[t]]
  /\ UNCHANGED <<next, memory, pre, after, flag, undefined, mistaken>>

Running == ~undefined /\ main \in {"adding", "looking"}

Next ==
  /\ Running
  /\ \/ \E t \in Threads : Step(t) \/ GoWrong(t)
     \/ \E v \in Values : Join(v)
     \/ StartReaders

Spec == Init /\ [][Next]_vars

-----------------------------------------------------------------------------
(* Properties.                                                             *)

\* The nodes that next pointers lead to from head.
Reached(pointers) ==
  LET round[k \in 0..NumNodes] ==
        IF k = 0 THEN {HeadNode}
        ELSE {HeadNode} \union ({pointers[n].node : n \in round[k - 1]} \ {0})
  IN round[NumNodes]

InList == Reached(next)

\* Whatever adders, removers and the clean-up in find do to each other, the
\* list begins with the two dummies, goes up strictly and ends ("ordered
\* ascending list", lock_free_list.h:30), and no value is in it before its add
\* has made the exchange it returns TRUE for (line 105): as long as no thread has
\* taken a node for another one that was given its address.  (To the code the
\* list is the same one as far as its nodes are not deleted.  After that a value
\* may be followed by a smaller one.)
ListIsOrdered ==
  ~mistaken =>
    /\ next[HeadNode] = Ptr(TailNode)
    /\ \A n \in InList :
         /\ next[n].node = 0 \/ next[n].node > n
         /\ n > TailNode => pc[Adder(ValueOf(n))] \in {"true", "done"}

Inserts(t) == pc[t] = "insert" /\ pc'[t] = "true"
Removes(t) == (pc[t] = "unlink" /\ pc'[t] = "delete") \/ (pc[t] = "help" /\ pc'[t] = "clean")

\* The pointer that t is about to write was read from a node that meanwhile has
\* another successor.
Stale(t) == next[cur[t].node].node # after[t].node

\* An insertion loses nothing and brings nothing back, whatever has become of pre
\* and cur since find (lock_free_list.h:105): of two threads that want to
\* change a pointer one starts again.  A remover or a clean-up takes out exactly
\* the node it means, unless its successor has changed since it was read: only
\* then are values lost, or do nodes come back, deleted ones too.  The mark is to
\* prevent that (line 126), and it keeps everybody from the pointer but
\* the clean-up, which looks at the wrong mark (line 63).  Again, as long as no
\* thread has taken a node for another one.
ListChangesByOneNode ==
  [][~mistaken' =>
       /\ InList' # InList =>
            \E t \in Changers :
              \/ Inserts(t) /\ InList' = InList \union {NewNode(t)}
              \/ Removes(t) /\ (Stale(t) \/ InList' = InList \ {cur[t].node})
       /\ \A n \in Nodes : (next[n].mark /\ next'[n] # next[n]) =>
            \E t \in Changers : Removes(t) /\ cur[t].mark /\ pre[t].node = n]_next
=============================================================================
