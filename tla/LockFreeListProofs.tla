------------------------- MODULE LockFreeListProofs -------------------------
(***************************************************************************)
(* Proofs about the lock-free list of linkedlist_test: for any number of   *)
(* values, whichever of them are removed, the list stays an ascending one, *)
(* and changes by one node at a time but for pointers that grew stale, as  *)
(* long as no thread takes a node for another one that was given its       *)
(* address.                                                                *)
(***************************************************************************)
EXTENDS LockFreeList, RingArithmetic

Ptrs == [node : 0..NumNodes, mark : BOOLEAN]

\* The call has returned.
Over == {"true", "false", "done"}

Labels == {"new", "find", "walk", "clean", "help", "found", "insert", "mark", "unlink",
           "delete", "idle", "look"} \union Over

\* Where find has returned.
Returned == {"found", "insert", "mark", "unlink", "delete"}

\* A pointer to nothing or to a node after n.
Beyond(p, n) == p.node = 0 \/ p.node > n

Types ==
  /\ next \in [Nodes -> Ptrs]
  /\ pc \in [Threads -> Labels]
  /\ pre \in [Threads -> Ptrs]
  /\ cur \in [Threads -> Ptrs]
  /\ after \in [Threads -> Ptrs]

RolesInv ==
  \A t \in Threads :
    /\ t \in Changers => pc[t] \notin {"idle", "look"}
    /\ t \notin Changers => pc[t] \in {"idle", "look"} \union Over
    /\ pc[t] = "insert" => t[1] = "add"
    /\ pc[t] \in {"mark", "unlink", "delete"} => t[1] = "remove"

\* The first node is followed by the second, and pointers lead upwards.
NextInv ==
  /\ next[HeadNode] = Ptr(TailNode)
  /\ \A n \in Nodes : Beyond(next[n], n)

\* Thread t at label l, with pointers p, c and a: find walks past the second node,
\* and stops before and behind the place of the value it looks for.
Place(t, l, p, c, a, pointers) ==
  /\ l = "walk" =>
       /\ p.node \in 1..(NewNode(t) - 1)
       /\ Beyond(c, p.node)
       /\ p.node = HeadNode => c = Ptr(TailNode)
  /\ l \in {"clean", "help"} \union Returned =>
       /\ p.node \in TailNode..(NewNode(t) - 1)
       /\ Beyond(c, NewNode(t) - 1)
  /\ l = "help" => c.mark /\ c.node # 0 /\ Beyond(a, c.node)
  /\ l \in Returned => ~c.mark
  /\ l = "insert" => c.node # NewNode(t) /\ pointers[NewNode(t)] = c
  /\ l \in {"mark", "unlink", "delete"} => c.node = NewNode(t)
  /\ l \in {"mark", "unlink"} => Beyond(a, NewNode(t))

PlacesInv == \A t \in Changers : Place(t, pc[t], pre[t], cur[t], after[t], next)

\* A value that has not been put in the list.
Adding(v) == pc[Adder(v)] \notin {"true", "done"}

\* Nobody but its adder has heard of the node of such a value, and its pointer
\* is not marked.
FreshInv ==
  \A v \in Values : Adding(v) =>
    /\ \A n \in Nodes : next[n].node # v + 2
    /\ ~next[v + 2].mark
    /\ \A t \in Threads : v + 2 \notin {pre[t].node, cur[t].node, after[t].node}

\* The inductive invariant, as long as nobody has taken a node for another one.
IInv == Types /\ RolesInv /\ NextInv /\ PlacesInv /\ FreshInv
-----------------------------------------------------------------------------
LEMMA Numbers ==
  /\ NumNodes \in Nat /\ NumNodes >= 2
  /\ Nodes = 1..NumNodes /\ HeadNode = 1 /\ TailNode = 2
  /\ \A v \in Values : v \in Nat /\ v >= 1 /\ v + 2 \in Nodes
BY ValuesAssumption DEF NumNodes, Nodes, HeadNode, TailNode

LEMMA Roles ==
  ASSUME NEW t \in Threads
  PROVE  /\ Arg(t) \in Values /\ NewNode(t) = Arg(t) + 2
         /\ t[1] = "add" => t = Adder(Arg(t)) /\ t \in Changers
         /\ t[1] = "remove" => t = Remover(Arg(t)) /\ t \in Changers
         /\ t[1] \in {"add", "remove", "contains"}
         /\ t[1] = "contains" <=> t \notin Changers
<1>1. PICK v \in Values : t \in {Adder(v), Remover(v), Reader(v)}
  BY ValuesAssumption DEF Threads, Changers
<1>2. CASE t = Adder(v)
  <2>1. t[1] = "add" /\ t[2] = v /\ t \in Changers
    BY <1>2 DEF Adder, Changers
  <2> QED BY <1>2, <2>1 DEF Arg, NewNode
<1>3. CASE t = Remover(v)
  <2>1. t[1] = "remove" /\ t[2] = v
    BY <1>3 DEF Remover
  <2>2. t \in Changers
    BY <1>3, <2>1 DEF Threads, Remover, Reader
  <2> QED BY <1>3, <2>1, <2>2 DEF Arg, NewNode
<1>4. CASE t = Reader(v)
  <2>1. t[1] = "contains" /\ t[2] = v
    BY <1>4 DEF Reader
  <2>2. t \notin Changers
    BY <2>1 DEF Changers, Adder, Remover
  <2> QED BY <1>4, <2>1, <2>2 DEF Arg, NewNode
<1> QED BY <1>1, <1>2, <1>3, <1>4

LEMMA ThreadsAre ==
  /\ Changers \subseteq Threads
  /\ \A v \in Values : Adder(v) \in Changers /\ Arg(Adder(v)) = v /\ Adder(v)[1] = "add"
  /\ \A v \in Removed : Remover(v) \in Changers
BY DEF Changers, Threads, Adder, Arg

LEMMA InitInv ==
  ASSUME Init
  PROVE  IInv
<1> USE Numbers DEF Ptr, Null, Ptrs
<1>1. Types
  BY DEF Init, Types, Labels, Over
<1>2. RolesInv
  BY Roles DEF Init, RolesInv
<1>3. NextInv
  BY DEF Init, NextInv, Beyond
<1>4. PlacesInv
  BY ThreadsAre DEF Init, PlacesInv, Place, Returned
<1>5. FreshInv
  BY DEF Init, FreshInv
<1> QED BY <1>1, <1>2, <1>3, <1>4, <1>5 DEF IInv

\* Thread t, which is to go on, goes to l, with pointers p, c and a.
Goes(t, l, p, c, a) ==
  /\ pc[t] \notin Over
  /\ l \in Labels \ {"idle", "look"}
  /\ l = "insert" => t[1] = "add"
  /\ l \in {"mark", "unlink", "delete"} => t[1] = "remove"
  /\ pc' = [pc EXCEPT ![t] = l]
  /\ pre' = [pre EXCEPT ![t] = p]
  /\ cur' = [cur EXCEPT ![t] = c]
  /\ after' = [after EXCEPT ![t] = a]

\* What it has and writes gives away no value that is not in the list.
KeepsFresh(t, l, p, c, a) ==
  \A v \in Values : (Adding(v) /\ ~(t = Adder(v) /\ l \in {"true", "done"})) =>
    /\ v + 2 \notin {p.node, c.node, a.node}
    /\ \A n \in Nodes : next'[n].node # v + 2
    /\ ~next'[v + 2].mark
    /\ t # Adder(v) => next'[v + 2] = next[v + 2]

LEMMA OneThread ==
  ASSUME IInv, NEW t \in Changers, NEW l, NEW p \in Ptrs, NEW c \in Ptrs, NEW a \in Ptrs,
         Goes(t, l, p, c, a), KeepsFresh(t, l, p, c, a), Place(t, l, p, c, a, next'),
         next' \in [Nodes -> Ptrs], NextInv'
  PROVE  IInv'
<1> USE DEF Goes, KeepsFresh
<1>1. t \in Threads
  BY ThreadsAre
<1>2. Types'
  BY <1>1 DEF IInv, Types
<1>3. RolesInv'
  BY <1>1 DEF IInv, Types, RolesInv
<1>4. NextInv'
  OBVIOUS
<1>5. PlacesInv'
  <2> SUFFICES ASSUME NEW u \in Changers
               PROVE  Place(u, pc'[u], pre'[u], cur'[u], after'[u], next')
    BY DEF PlacesInv
  <2>1. CASE u = t
    BY <1>1, <2>1 DEF IInv, Types
  <2>2. CASE u # t
    <3>1. u \in Threads
      BY ThreadsAre
    <3>2. /\ pc'[u] = pc[u] /\ pre'[u] = pre[u] /\ cur'[u] = cur[u] /\ after'[u] = after[u]
      BY <1>1, <2>2, <3>1 DEF IInv, Types
    <3>3. Place(u, pc[u], pre[u], cur[u], after[u], next)
      BY DEF IInv, PlacesInv
    <3>4. pc[u] = "insert" => next'[NewNode(u)] = next[NewNode(u)]
      <4> SUFFICES ASSUME pc[u] = "insert" PROVE next'[NewNode(u)] = next[NewNode(u)]
        OBVIOUS
      <4>1. u[1] = "add"
        BY <3>1 DEF IInv, RolesInv
      <4>2. u = Adder(Arg(u)) /\ Arg(u) \in Values /\ NewNode(u) = Arg(u) + 2
        BY <3>1, <4>1, Roles
      <4>3. Adding(Arg(u)) /\ t # Adder(Arg(u))
        BY <2>2, <4>2 DEF Adding
      <4> QED BY <4>2, <4>3
    <3> QED BY <3>2, <3>3, <3>4 DEF Place
  <2> QED BY <2>1, <2>2
<1>6. FreshInv'
  <2> SUFFICES ASSUME NEW v \in Values, Adding(v)'
               PROVE  /\ \A n \in Nodes : next'[n].node # v + 2
                      /\ ~next'[v + 2].mark
                      /\ \A u \in Threads : v + 2 \notin {pre'[u].node, cur'[u].node, after'[u].node}
    BY DEF FreshInv
  <2>1. Adder(v) \in Threads
    BY ThreadsAre
  <2>2. Adding(v) /\ ~(t = Adder(v) /\ l \in {"true", "done"})
    BY <1>1, <2>1 DEF Adding, Over, IInv, Types
  <2>3. \A u \in Threads : v + 2 \notin {pre[u].node, cur[u].node, after[u].node}
    BY <2>2 DEF IInv, FreshInv
  <2>4. /\ \A n \in Nodes : next'[n].node # v + 2
        /\ ~next'[v + 2].mark
        /\ v + 2 \notin {p.node, c.node, a.node}
    BY <2>2
  <2>5. \A u \in Threads : v + 2 \notin {pre'[u].node, cur'[u].node, after'[u].node}
    BY <1>1, <2>3, <2>4 DEF IInv, Types
  <2> QED BY <2>4, <2>5
<1> QED BY <1>2, <1>3, <1>4, <1>5, <1>6 DEF IInv
\* A pointer that t has or can read.
Seen(t, x) ==
  \/ x \in {pre[t], cur[t], after[t]}
  \/ \E n \in Nodes : x = next[n]
  \/ x \in {Ptr(HeadNode), Null}

LEMMA SeenIsOld ==
  ASSUME IInv, NEW t \in Threads, NEW x, Seen(t, x), NEW v \in Values, Adding(v)
  PROVE  x.node # v + 2
<1>1. /\ \A n \in Nodes : next[n].node # v + 2
      /\ v + 2 \notin {pre[t].node, cur[t].node, after[t].node}
  BY DEF IInv, FreshInv
<1>2. Ptr(HeadNode).node # v + 2 /\ Null.node # v + 2
  BY Numbers DEF Ptr, Null
<1> QED BY <1>1, <1>2 DEF Seen

LEMMA NoWrite ==
  ASSUME IInv, NEW t \in Changers, NEW l, NEW p \in Ptrs, NEW c \in Ptrs, NEW a \in Ptrs,
         Goes(t, l, p, c, a), Place(t, l, p, c, a, next), next' = next,
         Seen(t, p), Seen(t, c), Seen(t, a)
  PROVE  IInv'
<1>1. t \in Threads
  BY ThreadsAre
<1>2. next' \in [Nodes -> Ptrs] /\ NextInv'
  BY DEF IInv, Types, NextInv
<1>3. KeepsFresh(t, l, p, c, a)
  <2> SUFFICES ASSUME NEW v \in Values, Adding(v)
               PROVE  /\ v + 2 \notin {p.node, c.node, a.node}
                      /\ \A n \in Nodes : next'[n].node # v + 2
                      /\ ~next'[v + 2].mark
                      /\ next'[v + 2] = next[v + 2]
    BY DEF KeepsFresh
  <2>1. (\A n \in Nodes : next[n].node # v + 2) /\ ~next[v + 2].mark
    BY DEF IInv, FreshInv
  <2>2. v + 2 \notin {p.node, c.node, a.node}
    BY <1>1, SeenIsOld
  <2> QED BY <2>1, <2>2
<1>4. Place(t, l, p, c, a, next')
  OBVIOUS
<1> QED BY <1>2, <1>3, <1>4, OneThread

LEMMA Is_ ==
  ASSUME IInv, NEW t \in Threads, NEW l, Is(t, l), l \notin {"idle", "look"} \union Over
  PROVE  /\ t \in Changers /\ pc[t] = l /\ pc[t] \notin Over
         /\ NewNode(t) \in 3..NumNodes /\ Arg(t) \in Values /\ NewNode(t) = Arg(t) + 2
         /\ pre[t] \in Ptrs /\ cur[t] \in Ptrs /\ after[t] \in Ptrs
         /\ Place(t, l, pre[t], cur[t], after[t], next)
         /\ pc' = [pc EXCEPT ![t] = l] => pc' = pc
<1>1. pc[t] = l /\ t \in Changers
  BY DEF IInv, RolesInv, Is
<1>2. Arg(t) \in Values /\ NewNode(t) = Arg(t) + 2
  BY Roles
<1>3. NewNode(t) \in 3..NumNodes
  BY <1>2, Numbers
<1>4. pre[t] \in Ptrs /\ cur[t] \in Ptrs /\ after[t] \in Ptrs
  BY DEF IInv, Types
<1>5. Place(t, l, pre[t], cur[t], after[t], next)
  BY <1>1 DEF IInv, PlacesInv
<1>6. pc' = [pc EXCEPT ![t] = l] => pc' = pc
  BY <1>1 DEF IInv, Types
<1> QED BY <1>1, <1>2, <1>3, <1>4, <1>5, <1>6

\* What thread t reads.
LEMMA Kept ==
  ASSUME IInv
  PROVE  /\ \A t \in Threads : /\ pre = [pre EXCEPT ![t] = pre[t]]
                               /\ cur = [cur EXCEPT ![t] = cur[t]]
                               /\ after = [after EXCEPT ![t] = after[t]]
                               /\ pc = [pc EXCEPT ![t] = pc[t]]
         /\ \A n \in Nodes : next[n] \in Ptrs /\ Beyond(next[n], n)
BY DEF IInv, Types, NextInv

\* A thread that makes no mistake reaches the node that the pointer names,
LEMMA Follows ==
  ASSUME NEW t, NEW l, Is(t, l), ~IsMistake(t), NEW p \in Accesses(t)
  PROVE  p.node \in Nodes /\ Target(p) = p.node /\ Read(p) = next[p.node] /\ Value(p) = ValueOf(p.node)
<1>1. Target(p) = p.node
  BY DEF IsMistake
<1>2. At(p) # {} /\ At(p) \subseteq Nodes
  BY DEF Is, IsUndefined, At, Live
<1> QED BY <1>1, <1>2 DEF Target, Read, Value

\* its mark apart,
LEMMA FollowsUnmarked ==
  ASSUME NEW t, NEW l, Is(t, l), ~IsMistake(t), NEW p \in Ptrs, Unmarked(p) \in Accesses(t)
  PROVE  p.node \in Nodes /\ Target(p) = p.node /\ Read(p) = next[p.node] /\ Value(p) = ValueOf(p.node)
<1>1. Unmarked(p).node = p.node
  BY DEF Unmarked, Ptrs
<1>2. At(Unmarked(p)) = At(p)
  BY <1>1 DEF At, Addr
<1>3. Target(Unmarked(p)) = Target(p)
  BY <1>2 DEF Target
<1>4. p.node \in Nodes /\ Target(p) = p.node
  BY <1>1, <1>3, Follows
<1> QED BY <1>4 DEF Read, Value

\* and exchanges the very pointer that it expects.
LEMMA Expects ==
  ASSUME NEW t, ~IsMistake(t), NEW p, NEW e, <<Read(p), e>> \in Compares(t)
  PROVE  Succeeds(p, e) <=> Read(p) = e
<1>1. Same(Read(p), e) => Read(p) = e
  BY DEF IsMistake
<1>2. Read(p) = e => Same(Read(p), e)
  BY DEF Same
<1> QED BY <1>1, <1>2 DEF Succeeds

LEMMA Sees ==
  ASSUME NEW t
  PROVE  /\ Seen(t, pre[t]) /\ Seen(t, cur[t]) /\ Seen(t, after[t])
         /\ Seen(t, Ptr(HeadNode)) /\ Seen(t, Null) /\ Null \in Ptrs
         /\ \A n \in Nodes : Seen(t, next[n])
BY Numbers DEF Seen, Null, Ptr, Ptrs

\* A call that returns or starts again.
LEMMA Forgets ==
  ASSUME IInv, NEW t \in Changers, pc[t] \notin Over, NEW l \in {"find"} \union Over,
         Goto(t, l), Forget(t), next' = next
  PROVE  IInv'
<1>1. Place(t, l, Null, Null, Null, next)
  BY DEF Place, Returned, Over
<1>2. Goes(t, l, Null, Null, Null)
  BY DEF Goto, Forget, Goes, Labels, Over
<1> QED BY <1>1, <1>2, Sees, NoWrite

LEMMA StartFindStep ==
  ASSUME IInv, NEW t \in Threads, StartFind(t)
  PROVE  IInv'
<1>1. Is(t, "find")
  BY DEF StartFind
<1>2. t \in Changers /\ pc[t] = "find" /\ NewNode(t) \in 3..NumNodes /\ after[t] \in Ptrs
  BY <1>1, Is_ DEF Over
<1>3. next[HeadNode] = Ptr(TailNode) /\ HeadNode \in Nodes /\ next[HeadNode] \in Ptrs
  BY Numbers, Kept DEF IInv, NextInv
<1>4. Ptr(HeadNode) \in Ptrs
  BY Numbers DEF Ptr, Ptrs
<1>5. Place(t, "walk", Ptr(HeadNode), next[HeadNode], after[t], next)
  BY <1>2, <1>3, Numbers DEF Place, Ptr, Beyond, Returned
<1>6. Goes(t, "walk", Ptr(HeadNode), next[HeadNode], after[t]) /\ next' = next
  BY <1>2, Kept DEF StartFind, Goto, Goes, Labels, Over
<1> QED BY <1>2, <1>3, <1>4, <1>5, <1>6, Sees, NoWrite

LEMMA WalkStep ==
  ASSUME IInv, NEW t \in Threads, Walk(t), ~IsMistake(t)
  PROVE  IInv'
<1>1. Is(t, "walk") /\ next' = next
  BY DEF Walk
<1>2. /\ t \in Changers /\ pc[t] = "walk"
      /\ NewNode(t) \in 3..NumNodes /\ Arg(t) \in Values /\ NewNode(t) = Arg(t) + 2
      /\ pre[t] \in Ptrs /\ cur[t] \in Ptrs /\ after[t] \in Ptrs
      /\ Place(t, "walk", pre[t], cur[t], after[t], next)
  BY <1>1, Is_ DEF Over
<1>3. cur[t] # Null => /\ cur[t].node \in Nodes /\ Read(cur[t]) = next[cur[t].node]
                       /\ Value(cur[t]) = ValueOf(cur[t].node)
  <2> SUFFICES ASSUME cur[t] # Null
               PROVE  Unmarked(cur[t]) \in Accesses(t)
    BY <1>1, <1>2, FollowsUnmarked
  <2> QED BY <1>2 DEF Accesses
<1>4. CASE cur[t] = Null \/ Value(cur[t]) >= Arg(t)
  <2>1. Place(t, "clean", pre[t], cur[t], after[t], next)
    <3>1. cur[t].node = 0 \/ cur[t].node >= NewNode(t)
      BY <1>2, <1>3, <1>4, Numbers DEF Null, Ptr, ValueOf, Ptrs
    <3>2. cur[t] # Ptr(TailNode)
      BY <1>2, <3>1, Numbers DEF Ptr
    <3> QED BY <1>2, <3>1, <3>2, Numbers DEF Place, Returned, Beyond, Ptrs
  <2>2. Goes(t, "clean", pre[t], cur[t], after[t])
    BY <1>2, <1>4, Kept DEF Walk, Goto, Goes, Labels, Over
  <2> QED BY <1>1, <1>2, <2>1, <2>2, Sees, NoWrite
<1>5. CASE ~(cur[t] = Null \/ Value(cur[t]) >= Arg(t))
  <2>1. cur[t].node \in Nodes /\ Read(cur[t]) = next[cur[t].node] /\ ~(ValueOf(cur[t].node) >= Arg(t))
    BY <1>3, <1>5
  <2>2. next[cur[t].node] \in Ptrs /\ Beyond(next[cur[t].node], cur[t].node)
    BY <2>1, Kept
  <2>3. cur[t].node < NewNode(t) /\ cur[t].node > pre[t].node /\ cur[t].node # HeadNode
    BY <1>2, <2>1, Numbers DEF ValueOf, Place, Beyond
  <2>4. Place(t, "walk", cur[t], next[cur[t].node], after[t], next)
    BY <1>2, <2>1, <2>2, <2>3, Numbers DEF Place, Returned
  <2>5. Goes(t, "walk", cur[t], next[cur[t].node], after[t])
    BY <1>2, <1>5, <2>1, Kept DEF Walk, Goes, Labels, Over
  <2> QED BY <1>1, <1>2, <2>1, <2>2, <2>4, <2>5, Sees, NoWrite
<1> QED BY <1>4, <1>5

LEMMA CleanStep ==
  ASSUME IInv, NEW t \in Threads, Clean(t), ~IsMistake(t)
  PROVE  IInv'
<1>1. Is(t, "clean") /\ next' = next
  BY DEF Clean
<1>2. /\ t \in Changers /\ pc[t] = "clean" /\ NewNode(t) \in 3..NumNodes
      /\ pre[t] \in Ptrs /\ cur[t] \in Ptrs /\ after[t] \in Ptrs
      /\ Place(t, "clean", pre[t], cur[t], after[t], next)
  BY <1>1, Is_ DEF Over
<1>3. CASE cur[t].mark
  <2>1. cur[t].node \in Nodes /\ Read(cur[t]) = next[cur[t].node]
    <3>1. Unmarked(cur[t]) \in Accesses(t)
      BY <1>2, <1>3 DEF Accesses
    <3> QED BY <1>1, <1>2, <3>1, FollowsUnmarked
  <2>2. next[cur[t].node] \in Ptrs /\ Beyond(next[cur[t].node], cur[t].node)
    BY <2>1, Kept
  <2>3. Place(t, "help", pre[t], cur[t], next[cur[t].node], next)
    BY <1>2, <1>3, <2>1, <2>2, Numbers DEF Place, Returned
  <2>4. Goes(t, "help", pre[t], cur[t], next[cur[t].node])
    BY <1>2, <1>3, <2>1, Kept DEF Clean, Goto, Goes, Labels, Over
  <2> QED BY <1>1, <1>2, <2>1, <2>2, <2>3, <2>4, Sees, NoWrite
<1>4. CASE ~cur[t].mark
  <2>1. Place(t, "found", pre[t], cur[t], after[t], next)
    BY <1>2, <1>4 DEF Place, Returned
  <2>2. Goes(t, "found", pre[t], cur[t], after[t])
    BY <1>2, <1>4, Kept DEF Clean, Goto, Goes, Labels, Over
  <2> QED BY <1>1, <1>2, <2>1, <2>2, Sees, NoWrite
<1> QED BY <1>3, <1>4

LEMMA NewStep ==
  ASSUME IInv, NEW t \in Threads, New(t)
  PROVE  IInv'
<1>1. Is(t, "new") /\ next' = next
  BY DEF New
<1>2. /\ t \in Changers /\ pc[t] = "new"
      /\ pre[t] \in Ptrs /\ cur[t] \in Ptrs /\ after[t] \in Ptrs
  BY <1>1, Is_ DEF Over
<1>3. Place(t, "find", pre[t], cur[t], after[t], next)
  BY DEF Place, Returned
<1>4. Goes(t, "find", pre[t], cur[t], after[t])
  BY <1>2, Kept DEF New, Goto, Goes, Labels, Over, locals
<1> QED BY <1>1, <1>2, <1>3, <1>4, Sees, NoWrite

LEMMA ReadNextStep ==
  ASSUME IInv, NEW t \in Threads, ReadNext(t), ~IsMistake(t)
  PROVE  IInv'
<1>1. Is(t, "found") /\ t[1] = "remove" /\ next' = next
  BY DEF ReadNext
<1>2. /\ t \in Changers /\ pc[t] = "found"
      /\ NewNode(t) \in 3..NumNodes /\ Arg(t) \in Values /\ NewNode(t) = Arg(t) + 2
      /\ pre[t] \in Ptrs /\ cur[t] \in Ptrs /\ after[t] \in Ptrs
      /\ Place(t, "found", pre[t], cur[t], after[t], next)
  BY <1>1, Is_ DEF Over
<1>3. CASE Found(t)
  <2>1. /\ cur[t].node \in Nodes /\ Read(cur[t]) = next[cur[t].node]
        /\ ValueOf(cur[t].node) = Arg(t)
    <3>1. Unmarked(cur[t]) \in Accesses(t)
      BY <1>2, <1>3 DEF Accesses, Found
    <3> QED BY <1>1, <1>2, <1>3, <3>1, FollowsUnmarked DEF Found
  <2>2. cur[t].node = NewNode(t)
    BY <1>2, <2>1, Numbers DEF ValueOf
  <2>3. next[cur[t].node] \in Ptrs /\ Beyond(next[cur[t].node], cur[t].node)
    BY <2>1, Kept
  <2>4. Place(t, "mark", pre[t], cur[t], next[cur[t].node], next)
    BY <1>2, <2>2, <2>3 DEF Place, Returned
  <2>5. Goes(t, "mark", pre[t], cur[t], next[cur[t].node])
    BY <1>1, <1>2, <1>3, <2>1, Kept DEF ReadNext, Goto, Goes, Labels, Over
  <2> QED BY <1>1, <1>2, <2>1, <2>3, <2>4, <2>5, Sees, NoWrite
<1>4. CASE ~Found(t)
  BY <1>1, <1>2, <1>4, Forgets DEF ReadNext, Return, Over
<1> QED BY <1>3, <1>4

LEMMA DeleteStep ==
  ASSUME IInv, NEW t \in Threads, Delete(t)
  PROVE  IInv'
<1>1. Is(t, "delete") /\ next' = next /\ Return(t, TRUE)
  BY DEF Delete
<1>2. t \in Changers /\ pc[t] = "delete"
  BY <1>1, Is_ DEF Over
<1> QED BY <1>1, <1>2, Forgets DEF Return, Over

\* Thread t, going to l, may store pointer x in node n.
MayStore(t, l, n, x) ==
  /\ Beyond(x, n)
  /\ \A v \in Values : (Adding(v) /\ ~(t = Adder(v) /\ l \in {"true", "done"})) =>
       x.node # v + 2 /\ (n = v + 2 => t = Adder(v) /\ ~x.mark)

LEMMA OneWrite ==
  ASSUME IInv, NEW t \in Changers, NEW l, NEW p \in Ptrs, NEW c \in Ptrs, NEW a \in Ptrs,
         Goes(t, l, p, c, a), Place(t, l, p, c, a, next'),
         Seen(t, p), Seen(t, c), Seen(t, a),
         NEW n \in Nodes \ {HeadNode}, NEW x \in Ptrs, MayStore(t, l, n, x),
         next' = [next EXCEPT ![n] = x]
  PROVE  IInv'
<1>1. t \in Threads
  BY ThreadsAre
<1>2. next' \in [Nodes -> Ptrs] /\ NextInv'
  BY Numbers DEF IInv, Types, NextInv, MayStore, Beyond
<1>3. KeepsFresh(t, l, p, c, a)
  <2> SUFFICES ASSUME NEW v \in Values, Adding(v), ~(t = Adder(v) /\ l \in {"true", "done"})
               PROVE  /\ v + 2 \notin {p.node, c.node, a.node}
                      /\ \A m \in Nodes : next'[m].node # v + 2
                      /\ ~next'[v + 2].mark
                      /\ t # Adder(v) => next'[v + 2] = next[v + 2]
    BY DEF KeepsFresh
  <2>1. (\A m \in Nodes : next[m].node # v + 2) /\ ~next[v + 2].mark
    BY DEF IInv, FreshInv
  <2>2. v + 2 \notin {p.node, c.node, a.node}
    BY <1>1, SeenIsOld
  <2>3. x.node # v + 2 /\ (n = v + 2 => t = Adder(v) /\ ~x.mark)
    BY DEF MayStore
  <2>4. \A m \in Nodes : next'[m] = IF m = n THEN x ELSE next[m]
    BY DEF IInv, Types
  <2>5. v + 2 \in Nodes
    BY Numbers
  <2> QED BY <2>1, <2>2, <2>3, <2>4, <2>5
<1> QED BY <1>2, <1>3, OneThread

\* The pointers of t do not lead to values that are not in the list.
LEMMA OwnAreOld ==
  ASSUME IInv, NEW t \in Threads, NEW v \in Values, Adding(v)
  PROVE  v + 2 \notin {pre[t].node, cur[t].node, after[t].node}
BY DEF IInv, FreshInv

LEMMA HelpStep ==
  ASSUME IInv, NEW t \in Threads, Help(t), ~IsMistake(t)
  PROVE  IInv'
<1>1. Is(t, "help")
  BY DEF Help
<1>2. /\ t \in Changers /\ pc[t] = "help" /\ NewNode(t) \in 3..NumNodes
      /\ pre[t] \in Ptrs /\ cur[t] \in Ptrs /\ after[t] \in Ptrs
      /\ Place(t, "help", pre[t], cur[t], after[t], next)
  BY <1>1, Is_ DEF Over
<1>3. pre[t].node \in Nodes \ {HeadNode}
  BY <1>2, Numbers DEF Place, Returned
<1>4. Target(pre[t]) = pre[t].node
  BY <1>1, <1>2, Follows DEF Accesses
<1>5. CASE Succeeds(pre[t], cur[t])
  <2>1. MayStore(t, "clean", pre[t].node, after[t])
    <3>1. Beyond(after[t], pre[t].node)
      BY <1>2, <1>3, Numbers DEF Place, Returned, Beyond, Ptrs
    <3> QED BY <3>1, OwnAreOld DEF MayStore
  <2>2. Place(t, "clean", pre[t], after[t], Null, next')
    BY <1>2, <1>3, Numbers DEF Place, Returned, Beyond, Ptrs
  <2>3. Goes(t, "clean", pre[t], after[t], Null) /\ next' = [next EXCEPT ![pre[t].node] = after[t]]
    BY <1>2, <1>4, <1>5, Kept DEF Help, Swaps, Goto, Goes, Labels, Over
  <2> QED BY <1>2, <1>3, <2>1, <2>2, <2>3, Sees, OneWrite
<1>6. CASE ~Succeeds(pre[t], cur[t])
  BY <1>2, <1>6, Forgets DEF Help, Swaps, Retry, Over
<1> QED BY <1>5, <1>6

LEMMA UnlinkStep ==
  ASSUME IInv, NEW t \in Threads, Unlink(t), ~IsMistake(t)
  PROVE  IInv'
<1>1. Is(t, "unlink")
  BY DEF Unlink
<1>2. /\ t \in Changers /\ pc[t] = "unlink" /\ NewNode(t) \in 3..NumNodes
      /\ pre[t] \in Ptrs /\ cur[t] \in Ptrs /\ after[t] \in Ptrs
      /\ Place(t, "unlink", pre[t], cur[t], after[t], next)
  BY <1>1, Is_ DEF Over
<1>3. pre[t].node \in Nodes \ {HeadNode} /\ t[1] = "remove"
  BY <1>2, Numbers DEF Place, Returned, IInv, RolesInv
<1>4. Target(pre[t]) = pre[t].node
  BY <1>1, <1>2, Follows DEF Accesses
<1>5. CASE Succeeds(pre[t], cur[t])
  <2>1. MayStore(t, "delete", pre[t].node, after[t])
    <3>1. Beyond(after[t], pre[t].node)
      BY <1>2, <1>3, Numbers DEF Place, Returned, Beyond, Ptrs
    <3> QED BY <3>1, OwnAreOld DEF MayStore
  <2>2. Place(t, "delete", pre[t], cur[t], after[t], next')
    BY <1>2 DEF Place, Returned
  <2>3. Goes(t, "delete", pre[t], cur[t], after[t]) /\ next' = [next EXCEPT ![pre[t].node] = after[t]]
    BY <1>2, <1>3, <1>4, <1>5, Kept DEF Unlink, Swaps, Goto, Goes, Labels, Over, locals
  <2> QED BY <1>2, <1>3, <2>1, <2>2, <2>3, Sees, OneWrite
<1>6. CASE ~Succeeds(pre[t], cur[t])
  BY <1>2, <1>6, Forgets DEF Unlink, Swaps, Return, Over
<1> QED BY <1>5, <1>6

LEMMA MarkStep ==
  ASSUME IInv, NEW t \in Threads, Mark(t), ~IsMistake(t)
  PROVE  IInv'
<1>1. Is(t, "mark")
  BY DEF Mark
<1>2. /\ t \in Changers /\ pc[t] = "mark" /\ NewNode(t) \in 3..NumNodes
      /\ pre[t] \in Ptrs /\ cur[t] \in Ptrs /\ after[t] \in Ptrs
      /\ Place(t, "mark", pre[t], cur[t], after[t], next)
  BY <1>1, Is_ DEF Over
<1>3. cur[t].node \in Nodes \ {HeadNode} /\ t[1] = "remove" /\ cur[t].node = NewNode(t)
  BY <1>2, Numbers DEF Place, Returned, IInv, RolesInv
<1>4. Target(cur[t]) = cur[t].node
  <2>1. Unmarked(cur[t]) \in Accesses(t)
    BY <1>2 DEF Accesses
  <2> QED BY <1>1, <1>2, <2>1, FollowsUnmarked
<1>5. CASE Succeeds(cur[t], after[t])
  <2>1. Marked(after[t]) \in Ptrs /\ Marked(after[t]).node = after[t].node
    BY <1>2 DEF Marked, Ptrs
  <2>2. MayStore(t, "unlink", cur[t].node, Marked(after[t]))
    <3>1. Beyond(Marked(after[t]), cur[t].node)
      BY <1>2, <1>3, <2>1 DEF Place, Beyond
    <3>2. ASSUME NEW v \in Values, Adding(v) PROVE cur[t].node # v + 2 /\ after[t].node # v + 2
      BY <3>2, OwnAreOld
    <3> QED BY <2>1, <3>1, <3>2 DEF MayStore
  <2>3. Place(t, "unlink", pre[t], cur[t], after[t], next')
    BY <1>2 DEF Place, Returned
  <2>4. Goes(t, "unlink", pre[t], cur[t], after[t])
        /\ next' = [next EXCEPT ![cur[t].node] = Marked(after[t])]
    BY <1>2, <1>3, <1>4, <1>5, Kept DEF Mark, Swaps, Goto, Goes, Labels, Over, locals
  <2> QED BY <1>2, <1>3, <2>1, <2>2, <2>3, <2>4, Sees, OneWrite
<1>6. CASE ~Succeeds(cur[t], after[t])
  BY <1>2, <1>6, Forgets DEF Mark, Swaps, Retry, Over
<1> QED BY <1>5, <1>6

LEMMA PrepareStep ==
  ASSUME IInv, NEW t \in Threads, Prepare(t)
  PROVE  IInv'
<1>1. Is(t, "found") /\ t[1] = "add"
  BY DEF Prepare
<1>2. /\ t \in Changers /\ pc[t] = "found"
      /\ NewNode(t) \in 3..NumNodes /\ Arg(t) \in Values /\ NewNode(t) = Arg(t) + 2
      /\ pre[t] \in Ptrs /\ cur[t] \in Ptrs /\ after[t] \in Ptrs
      /\ Place(t, "found", pre[t], cur[t], after[t], next)
  BY <1>1, Is_ DEF Over
<1>3. t = Adder(Arg(t)) /\ Adding(Arg(t)) /\ cur[t].node # NewNode(t) /\ ~cur[t].mark
  BY <1>1, <1>2, Roles, OwnAreOld DEF Adding, Place, Returned
<1>4. CASE Found(t) /\ ~cur[t].mark
  BY <1>2, <1>4, Forgets DEF Prepare, Return, Over
<1>5. CASE ~(Found(t) /\ ~cur[t].mark)
  <2>1. NewNode(t) \in Nodes \ {HeadNode}
    BY <1>2, Numbers
  <2>2. Beyond(cur[t], NewNode(t))
    BY <1>2, <1>3 DEF Place, Returned, Beyond, Ptrs
  <2>3. MayStore(t, "insert", NewNode(t), cur[t])
    <3>1. \A v \in Values : NewNode(t) = v + 2 => v = Arg(t)
      BY <1>2, Numbers
    <3> QED BY <1>3, <2>2, <3>1, OwnAreOld DEF MayStore
  <2>4. Goes(t, "insert", pre[t], cur[t], after[t]) /\ next' = [next EXCEPT ![NewNode(t)] = cur[t]]
    BY <1>1, <1>2, <1>5, Kept DEF Prepare, Goto, Goes, Labels, Over, locals
  <2>5. Place(t, "insert", pre[t], cur[t], after[t], next')
    <3>1. next'[NewNode(t)] = cur[t]
      BY <2>1, <2>4 DEF IInv, Types
    <3> QED BY <1>2, <1>3, <3>1 DEF Place, Returned
  <2> QED BY <1>2, <2>1, <2>3, <2>4, <2>5, Sees, OneWrite
<1> QED BY <1>4, <1>5

LEMMA InsertStep ==
  ASSUME IInv, NEW t \in Threads, Insert(t), ~IsMistake(t)
  PROVE  IInv'
<1>1. Is(t, "insert")
  BY DEF Insert
<1>2. /\ t \in Changers /\ pc[t] = "insert"
      /\ NewNode(t) \in 3..NumNodes /\ Arg(t) \in Values /\ NewNode(t) = Arg(t) + 2
      /\ pre[t] \in Ptrs /\ cur[t] \in Ptrs /\ after[t] \in Ptrs
      /\ Place(t, "insert", pre[t], cur[t], after[t], next)
  BY <1>1, Is_ DEF Over
<1>3. t[1] = "add" /\ t = Adder(Arg(t))
  BY <1>2, Roles DEF IInv, RolesInv
<1>4. pre[t].node \in Nodes \ {HeadNode} /\ pre[t].node < NewNode(t)
  BY <1>2, Numbers DEF Place, Returned
<1>5. Target(pre[t]) = pre[t].node
  BY <1>1, <1>2, Follows DEF Accesses
<1>6. CASE Succeeds(pre[t], cur[t])
  <2>1. Ptr(NewNode(t)) \in Ptrs /\ Null \in Ptrs
    BY <1>2, Numbers DEF Ptr, Ptrs, Null
  <2>2. MayStore(t, "true", pre[t].node, Ptr(NewNode(t)))
    <3>1. Beyond(Ptr(NewNode(t)), pre[t].node)
      BY <1>4 DEF Beyond, Ptr
    <3>2. \A v \in Values : t # Adder(v) => NewNode(t) # v + 2
      BY <1>2, <1>3, Numbers
    <3> QED BY <3>1, <3>2, OwnAreOld DEF MayStore, Ptr
  <2>3. Place(t, "true", Null, Null, Null, next')
    BY DEF Place, Returned
  <2>4. Goes(t, "true", Null, Null, Null)
        /\ next' = [next EXCEPT ![pre[t].node] = Ptr(NewNode(t))]
    BY <1>2, <1>5, <1>6 DEF Insert, Swaps, Return, Forget, Goto, Goes, Labels, Over
  <2> QED BY <1>2, <1>4, <2>1, <2>2, <2>3, <2>4, Sees, OneWrite
<1>7. CASE ~Succeeds(pre[t], cur[t])
  BY <1>2, <1>7, Forgets DEF Insert, Swaps, Retry, Over
<1> QED BY <1>6, <1>7

\* Steps of readers, of user_main() which starts them, and after the calls.
LEMMA Aside ==
  ASSUME IInv, next' = next,
         pc' \in [Threads -> Labels], pre' \in [Threads -> Ptrs],
         cur' \in [Threads -> Ptrs], after' \in [Threads -> Ptrs],
         \A u \in Changers :
           \/ /\ pc'[u] = pc[u] /\ pre'[u] = pre[u]
              /\ cur'[u] = cur[u] /\ after'[u] = after[u]
           \/ pc[u] \in Over /\ pc'[u] = "done",
         \A u \in Threads \ Changers : pc'[u] \in {"idle", "look"} \union Over,
         \A u \in Threads : Seen(u, pre'[u]) /\ Seen(u, cur'[u]) /\ Seen(u, after'[u])
  PROVE  IInv'
<1>1. Types' /\ NextInv'
  BY DEF IInv, Types, NextInv
<1>2. RolesInv'
  BY DEF IInv, RolesInv, Over
<1>3. PlacesInv'
  <2> SUFFICES ASSUME NEW u \in Changers
               PROVE  Place(u, pc'[u], pre'[u], cur'[u], after'[u], next)
    BY DEF PlacesInv
  <2>1. CASE pc'[u] = "done"
    BY <2>1 DEF Place, Returned
  <2>2. CASE pc'[u] # "done"
    BY <2>2 DEF IInv, PlacesInv
  <2> QED BY <2>1, <2>2
<1>4. FreshInv'
  <2> SUFFICES ASSUME NEW v \in Values, Adding(v)'
               PROVE  /\ \A n \in Nodes : next'[n].node # v + 2
                      /\ ~next'[v + 2].mark
                      /\ \A u \in Threads : v + 2 \notin {pre'[u].node, cur'[u].node, after'[u].node}
    BY DEF FreshInv
  <2>1. Adding(v)
    BY ThreadsAre DEF Adding
  <2>2. ASSUME NEW u \in Threads
        PROVE  v + 2 \notin {pre'[u].node, cur'[u].node, after'[u].node}
    BY <2>1, SeenIsOld
  <2> QED BY <2>1, <2>2 DEF IInv, FreshInv
<1> QED BY <1>1, <1>2, <1>3, <1>4 DEF IInv

LEMMA LookStep ==
  ASSUME IInv, NEW t \in Threads, Look(t), ~IsMistake(t)
  PROVE  IInv'
<1>1. pc[t] = "look" /\ t \notin Changers /\ Is(t, "look") /\ next' = next
  BY DEF Look, Is, IInv, RolesInv
<1>2. /\ pc \in [Threads -> Labels] /\ pre \in [Threads -> Ptrs]
      /\ cur \in [Threads -> Ptrs] /\ after \in [Threads -> Ptrs]
  BY DEF IInv, Types
<1>3. \A u \in Threads \ Changers : pc[u] \in {"idle", "look"} \union Over
  BY DEF IInv, RolesInv
<1>4. Null \in Ptrs
  BY Sees
<1>5. CASE Stops(t)
  <2>1. PICK r \in {"true", "false"} : pc' = [pc EXCEPT ![t] = r]
    BY <1>5 DEF Look, Return, Goto
  <2>2. /\ pre' = [pre EXCEPT ![t] = Null] /\ cur' = [cur EXCEPT ![t] = Null]
        /\ after' = [after EXCEPT ![t] = Null]
    BY <1>5 DEF Look, Return, Forget
  <2>3. /\ pc' \in [Threads -> Labels] /\ pre' \in [Threads -> Ptrs]
        /\ cur' \in [Threads -> Ptrs] /\ after' \in [Threads -> Ptrs]
    BY <1>2, <1>4, <2>1, <2>2 DEF Labels, Over
  <2>4. \A u \in Changers : /\ pc'[u] = pc[u] /\ pre'[u] = pre[u]
                             /\ cur'[u] = cur[u] /\ after'[u] = after[u]
    BY <1>1, <1>2, <2>1, <2>2, ThreadsAre
  <2>5. \A u \in Threads \ Changers : pc'[u] \in {"idle", "look"} \union Over
    BY <1>2, <1>3, <2>1 DEF Over
  <2>6. \A u \in Threads : Seen(u, pre'[u]) /\ Seen(u, cur'[u]) /\ Seen(u, after'[u])
    BY <1>2, <2>2, Sees
  <2> QED BY <1>1, <2>3, <2>4, <2>5, <2>6, Aside
<1>6. CASE ~Stops(t)
  <2>1. cur[t].node \in Nodes /\ Read(cur[t]) = next[cur[t].node]
    BY <1>1, <1>6, Follows DEF Accesses
  <2>2. next[cur[t].node] \in Ptrs
    BY <2>1, Kept
  <2>3. pc' = pc /\ pre' = pre /\ after' = after /\ cur' = [cur EXCEPT ![t] = next[cur[t].node]]
    BY <1>6, <2>1 DEF Look
  <2>4. cur' \in [Threads -> Ptrs] /\ \A u \in Threads : cur'[u] = IF u = t THEN next[cur[t].node] ELSE cur[u]
    BY <1>2, <2>2, <2>3
  <2>5. \A u \in Changers : /\ pc'[u] = pc[u] /\ pre'[u] = pre[u]
                             /\ cur'[u] = cur[u] /\ after'[u] = after[u]
    BY <1>1, <2>3, <2>4, ThreadsAre
  <2>6. \A u \in Threads : Seen(u, pre'[u]) /\ Seen(u, cur'[u]) /\ Seen(u, after'[u])
    BY <2>1, <2>3, <2>4, Sees
  <2> QED BY <1>1, <1>2, <1>3, <2>3, <2>4, <2>5, <2>6, Aside
<1> QED BY <1>5, <1>6

LEMMA SetFlagStep ==
  ASSUME IInv, NEW t \in Threads, SetFlag(t)
  PROVE  IInv'
<1>1. /\ pc[t] \in Over /\ pc' = [pc EXCEPT ![t] = "done"] /\ next' = next
      /\ pre' = pre /\ cur' = cur /\ after' = after
  BY DEF SetFlag, Goto, Over, locals
<1>2. /\ pc \in [Threads -> Labels] /\ pre \in [Threads -> Ptrs]
      /\ cur \in [Threads -> Ptrs] /\ after \in [Threads -> Ptrs]
  BY DEF IInv, Types
<1>3. pc' \in [Threads -> Labels] /\ \A u \in Threads : pc'[u] = IF u = t THEN "done" ELSE pc[u]
  BY <1>1, <1>2 DEF Labels, Over
<1>4. \A u \in Threads \ Changers : pc'[u] \in {"idle", "look"} \union Over
  BY <1>3 DEF Over, IInv, RolesInv
<1>5. \A u \in Changers : pc'[u] = pc[u] \/ (pc[u] \in Over /\ pc'[u] = "done")
  BY <1>1, <1>3, ThreadsAre
<1>6. \A u \in Threads : Seen(u, pre'[u]) /\ Seen(u, cur'[u]) /\ Seen(u, after'[u])
  BY <1>1, Sees
<1> QED BY <1>1, <1>2, <1>3, <1>4, <1>5, <1>6, Aside

LEMMA StartReadersStep ==
  ASSUME IInv, StartReaders
  PROVE  IInv'
<1>1. /\ pc \in [Threads -> Labels] /\ pre \in [Threads -> Ptrs]
      /\ cur \in [Threads -> Ptrs] /\ after \in [Threads -> Ptrs]
      /\ Ptr(HeadNode) \in Ptrs
  BY Numbers DEF IInv, Types, Ptr, Ptrs
<1>2. \A u \in Threads : /\ pc'[u] = IF u[1] = "contains" THEN "look" ELSE pc[u]
                         /\ cur'[u] = IF u[1] = "contains" THEN Ptr(HeadNode) ELSE cur[u]
  BY DEF StartReaders
<1>3. pc' \in [Threads -> Labels]
  BY <1>1 DEF StartReaders, Labels
<1>4. cur' \in [Threads -> Ptrs]
  BY <1>1 DEF StartReaders
<1>5. pre' = pre /\ after' = after /\ next' = next
  BY DEF StartReaders
<1>6. \A u \in Changers : pc'[u] = pc[u] /\ cur'[u] = cur[u]
  BY <1>2, Roles, ThreadsAre
<1>7. \A u \in Threads \ Changers : pc'[u] \in {"idle", "look"} \union Over
  BY <1>2, Roles
<1>8. \A u \in Threads : Seen(u, pre'[u]) /\ Seen(u, cur'[u]) /\ Seen(u, after'[u])
  BY <1>2, <1>5, Sees
<1> QED BY <1>1, <1>3, <1>4, <1>5, <1>6, <1>7, <1>8, Aside

\* No step but a mistaken one leads out of the invariant.
LEMMA StepInv ==
  ASSUME ~mistaken => IInv, [Next]_vars
  PROVE  (~mistaken => IInv)'
<1> SUFFICES ASSUME ~mistaken' PROVE IInv'
  OBVIOUS
<1>1. CASE mistaken' = mistaken /\ next' = next /\ pc' = pc /\ pre' = pre /\ cur' = cur /\ after' = after
  BY <1>1 DEF IInv, Types, RolesInv, NextInv, PlacesInv, FreshInv, Adding
<1>2. ASSUME NEW t \in Threads, Call(t) PROVE IInv'
  <2>1. ~mistaken /\ ~IsMistake(t)
    BY <1>2 DEF Call
  <2> QED BY <1>2, <2>1, StartFindStep, WalkStep, CleanStep, HelpStep, NewStep, PrepareStep,
             InsertStep, ReadNextStep, MarkStep, UnlinkStep, DeleteStep, LookStep DEF Call
<1>3. ASSUME NEW t \in Threads, SetFlag(t) PROVE IInv'
  <2>1. ~mistaken
    BY <1>3 DEF SetFlag
  <2> QED BY <1>3, <2>1, SetFlagStep
<1>4. CASE StartReaders
  <2>1. ~mistaken
    BY <1>4 DEF StartReaders
  <2> QED BY <1>4, <2>1, StartReadersStep
<1>5. ASSUME NEW t \in Threads, GoWrong(t) PROVE IInv'
  BY <1>1, <1>5 DEF GoWrong, locals
<1>6. ASSUME NEW v \in Values, Join(v) PROVE IInv'
  BY <1>1, <1>6 DEF Join, locals
<1>7. CASE UNCHANGED vars
  BY <1>1, <1>7 DEF vars, locals
<1> QED BY <1>2, <1>3, <1>4, <1>5, <1>6, <1>7 DEF Next, Step

\* As long as no thread has taken a node for another one that has its address,
\* every thread of the test program is where find left it, the pointers lead
\* upwards, and nobody has heard of a value before it is in the list.
THEOREM Invariance == Spec => [](~mistaken => IInv)
<1>1. Init => IInv
  BY InitInv
<1>2. (~mistaken => IInv) /\ [Next]_vars => (~mistaken => IInv)'
  BY StepInv
<1> QED BY <1>1, <1>2, PTL DEF Spec
-----------------------------------------------------------------------------
\* What Reached computes, for pointers that lead upwards: the least set with the
\* first node that its pointers do not leave.

Uphill(nx) == nx \in [Nodes -> Ptrs] /\ \A n \in Nodes : Beyond(nx[n], n)

Closed(S, nx) == HeadNode \in S /\ \A n \in S : nx[n].node # 0 => nx[n].node \in S

Follow(S, nx) == {HeadNode} \union ({nx[n].node : n \in S} \ {0})

IsRounds(r, nx, last) ==
  r = [k \in 0..last |-> IF k = 0 THEN {HeadNode} ELSE Follow(r[k - 1], nx)]

LEMMA RoundsExist ==
  ASSUME NEW nx, NEW last \in Nat
  PROVE  \E r : IsRounds(r, nx, last)
<1> DEFINE T == {n \in Nat : \E r : IsRounds(r, nx, n)}
<1>1. 0 \in T
  <2> DEFINE r == [n \in 0..0 |-> {HeadNode}]
  <2>1. IsRounds(r, nx, 0)
    BY DEF IsRounds
  <2> QED BY <2>1
<1>2. ASSUME NEW n \in Nat, n \in T
      PROVE  n + 1 \in T
  <2>1. PICK r : IsRounds(r, nx, n)
    BY <1>2
  <2> DEFINE more == [k \in 0..(n + 1) |-> IF k <= n THEN r[k] ELSE Follow(r[n], nx)]
  <2>2. ASSUME NEW k \in 0..(n + 1)
        PROVE  more[k] = IF k = 0 THEN {HeadNode} ELSE Follow(more[k - 1], nx)
    <3>1. CASE k <= n /\ k = 0
      BY <2>1, <3>1 DEF IsRounds
    <3>2. CASE k <= n /\ k # 0
      <4>1. k - 1 \in 0..n /\ k \in 0..n /\ k - 1 <= n /\ k - 1 \in 0..(n + 1)
        BY <3>2
      <4>2. r[k] = Follow(r[k - 1], nx)
        BY <2>1, <3>2, <4>1 DEF IsRounds
      <4>3. more[k] = r[k] /\ more[k - 1] = r[k - 1]
        BY <3>2, <4>1
      <4> QED BY <3>2, <4>2, <4>3
    <3>3. CASE k = n + 1
      <4>1. k # 0 /\ k - 1 = n /\ ~(k <= n) /\ n \in 0..(n + 1)
        BY <3>3
      <4>2. more[k] = Follow(r[n], nx) /\ more[n] = r[n]
        BY <4>1
      <4> QED BY <4>1, <4>2
    <3> QED BY <3>1, <3>2, <3>3
  <2>3. IsRounds(more, nx, n + 1)
    <3> HIDE DEF more
    <3>1. more = [k \in 0..(n + 1) |-> more[k]]
      BY DEF more
    <3> QED BY <2>2, <3>1 DEF IsRounds
  <2> QED BY <2>3
<1>3. Nat \subseteq T
  <2> HIDE DEF T
  <2> QED BY <1>1, <1>2, NatSetInduction
<1> QED BY <1>3

LEMMA ReachedIsLast ==
  ASSUME NEW nx
  PROVE  \E r : IsRounds(r, nx, NumNodes) /\ Reached(nx) = r[NumNodes]
<1> DEFINE f == CHOOSE r : IsRounds(r, nx, NumNodes)
<1>1. NumNodes \in Nat
  BY Numbers
<1>2. IsRounds(f, nx, NumNodes)
  BY <1>1, RoundsExist
<1>3. Reached(nx) = f[NumNodes]
  BY DEF Reached, IsRounds, Follow
<1> QED BY <1>2, <1>3

LEMMA ReachedLeast ==
  ASSUME NEW nx, NEW S, Closed(S, nx)
  PROVE  Reached(nx) \subseteq S
<1>1. PICK r : IsRounds(r, nx, NumNodes) /\ Reached(nx) = r[NumNodes]
  BY ReachedIsLast
<1>2. NumNodes \in Nat
  BY Numbers
<1> DEFINE T == {k \in Nat : k <= NumNodes => r[k] \subseteq S}
<1>3. 0 \in T
  BY <1>1, <1>2 DEF IsRounds, Closed
<1>4. ASSUME NEW k \in Nat, k \in T
      PROVE  k + 1 \in T
  <2> SUFFICES ASSUME k + 1 <= NumNodes PROVE r[k + 1] \subseteq S
    OBVIOUS
  <2>1. r[k + 1] = Follow(r[k], nx)
    <3>1. k + 1 \in 0..NumNodes /\ k + 1 # 0 /\ (k + 1) - 1 = k
      BY <1>2
    <3> QED BY <1>1, <3>1 DEF IsRounds
  <2>2. r[k] \subseteq S
    BY <1>2, <1>4
  <2> QED BY <2>1, <2>2 DEF Follow, Closed
<1>5. Nat \subseteq T
  <2> HIDE DEF T
  <2> QED BY <1>3, <1>4, NatSetInduction
<1> QED BY <1>1, <1>2, <1>5

LEMMA ReachedNodes ==
  ASSUME NEW nx \in [Nodes -> Ptrs]
  PROVE  Reached(nx) \subseteq Nodes
<1>1. Closed(Nodes, nx)
  BY Numbers DEF Closed, Ptrs
<1> QED BY <1>1, ReachedLeast

LEMMA ReachedClosed ==
  ASSUME NEW nx, Uphill(nx)
  PROVE  Closed(Reached(nx), nx)
<1>1. PICK r : IsRounds(r, nx, NumNodes) /\ Reached(nx) = r[NumNodes]
  BY ReachedIsLast
<1>2. NumNodes \in Nat /\ NumNodes >= 2 /\ Nodes = 1..NumNodes /\ HeadNode = 1
  BY Numbers
<1>3. ASSUME NEW k \in 0..NumNodes, k # 0
      PROVE  r[k] = Follow(r[k - 1], nx) /\ k - 1 \in 0..NumNodes
  <2>1. r[k] = IF k = 0 THEN {HeadNode} ELSE Follow(r[k - 1], nx)
    BY <1>1 DEF IsRounds
  <2>2. k - 1 \in 0..NumNodes
    BY <1>2, <1>3
  <2> QED BY <1>3, <2>1, <2>2
<1>4. r[0] = {HeadNode}
  BY <1>1, <1>2 DEF IsRounds
<1>5. \A k \in 0..NumNodes : r[k] \subseteq Nodes
  <2> DEFINE T == {k \in Nat : k <= NumNodes => r[k] \subseteq Nodes}
  <2>1. 0 \in T
    BY <1>2, <1>4
  <2>2. ASSUME NEW k \in Nat, k \in T
        PROVE  k + 1 \in T
    <3> SUFFICES ASSUME k + 1 <= NumNodes PROVE r[k + 1] \subseteq Nodes
      OBVIOUS
    <3>1. k + 1 \in 0..NumNodes /\ k + 1 # 0 /\ (k + 1) - 1 = k
      BY <1>2
    <3>2. r[k + 1] = Follow(r[k], nx)
      BY <1>3, <3>1
    <3>3. r[k] \subseteq Nodes
      BY <1>2, <2>2
    <3> QED BY <1>2, <3>2, <3>3 DEF Follow, Uphill, Ptrs
  <2>3. Nat \subseteq T
    <3> HIDE DEF T
    <3> QED BY <2>1, <2>2, NatSetInduction
  <2> QED BY <1>2, <2>3
<1>6. ASSUME NEW j \in 0..NumNodes, NEW n \in r[j], n # HeadNode
      PROVE  j # 0 /\ \E m \in r[j - 1] : m \in Nodes /\ n = nx[m].node /\ m < n
  <2>1. j # 0
    BY <1>4, <1>6
  <2>2. PICK m \in r[j - 1] : n = nx[m].node /\ n # 0
    <3>1. r[j] = Follow(r[j - 1], nx)
      BY <1>3, <2>1
    <3>2. n \in Follow(r[j - 1], nx) \ {HeadNode}
      BY <1>6, <3>1
    <3> QED BY <3>2 DEF Follow
  <2>3. m \in Nodes
    BY <1>3, <1>5, <2>1
  <2> QED BY <2>1, <2>2, <2>3, <1>2 DEF Uphill, Beyond, Ptrs
<1> DEFINE Low(k) == \A j \in 0..NumNodes : \A n \in r[j] : n <= k + 1 => n \in r[k]
           T == {k \in Nat : k <= NumNodes => Low(k)}
<1>7. 0 \in T
  BY <1>2, <1>4, <1>5
<1>8. ASSUME NEW k \in Nat, k \in T
      PROVE  k + 1 \in T
  <2> SUFFICES ASSUME k + 1 <= NumNodes,
                      NEW j \in 0..NumNodes, NEW n \in r[j], n <= (k + 1) + 1
               PROVE  n \in r[k + 1]
    OBVIOUS
  <2>1. k + 1 \in 0..NumNodes /\ k + 1 # 0 /\ (k + 1) - 1 = k /\ k <= NumNodes
    BY <1>2
  <2>2. r[k + 1] = Follow(r[k], nx)
    BY <1>3, <2>1
  <2>3. CASE n # HeadNode
    <3>1. j # 0
      BY <1>6, <2>3
    <3>2. PICK m \in r[j - 1] : m \in Nodes /\ n = nx[m].node /\ m < n
      BY <1>6, <2>3
    <3>3. j - 1 \in 0..NumNodes /\ n \in Nodes
      BY <1>3, <1>5, <3>1
    <3>4. m \in r[k]
      BY <1>2, <1>8, <2>1, <3>2, <3>3
    <3> QED BY <1>2, <2>2, <3>2, <3>3, <3>4 DEF Follow
  <2> QED BY <2>2, <2>3 DEF Follow
<1>9. Nat \subseteq T
  <2> HIDE DEF T
  <2> QED BY <1>7, <1>8, NatSetInduction
<1>10. HeadNode \in r[NumNodes]
  BY <1>2, <1>3 DEF Follow
<1>11. ASSUME NEW m \in r[NumNodes], nx[m].node # 0
       PROVE  nx[m].node \in r[NumNodes]
  <2>1. NumNodes \in 0..NumNodes /\ NumNodes # 0 /\ NumNodes - 1 \in Nat
        /\ NumNodes - 1 <= NumNodes /\ m \in Nodes
    BY <1>2, <1>5
  <2>2. Low(NumNodes - 1)
    BY <1>9, <2>1
  <2>3. m <= (NumNodes - 1) + 1
    BY <1>2, <2>1
  <2>4. m \in r[NumNodes - 1]
    BY <2>1, <2>2, <2>3
  <2>5. r[NumNodes] = Follow(r[NumNodes - 1], nx)
    BY <1>3, <2>1
  <2> QED BY <1>11, <2>4, <2>5 DEF Follow
<1> QED BY <1>1, <1>10, <1>11 DEF Closed

\* A node that is reached, but for the first, is reached from one before it.
LEMMA Predecessor ==
  ASSUME NEW nx, Uphill(nx), NEW n \in Reached(nx), n # HeadNode
  PROVE  \E m \in Reached(nx) : nx[m].node = n /\ m < n
<1>1. Closed(Reached(nx), nx) /\ Reached(nx) \subseteq Nodes
  BY ReachedClosed, ReachedNodes DEF Uphill
<1>2. PICK m \in Reached(nx) : nx[m].node = n
  <2> SUFFICES ASSUME \A m \in Reached(nx) : nx[m].node # n PROVE FALSE
    OBVIOUS
  <2>1. Closed(Reached(nx) \ {n}, nx)
    BY <1>1 DEF Closed
  <2> QED BY <2>1, ReachedLeast
<1>3. m < n
  BY <1>1, <1>2, Numbers DEF Uphill, Beyond
<1> QED BY <1>2, <1>3

\* The reached nodes are a chain: none lies between one and its successor.
LEMMA NothingBetween ==
  ASSUME NEW nx, Uphill(nx), NEW m \in Reached(nx), NEW x \in Reached(nx), m < x
  PROVE  nx[m].node # 0 /\ nx[m].node <= x
<1> DEFINE R == Reached(nx)
           Good(y) == \A u \in R : u < y => nx[u].node # 0 /\ nx[u].node <= y
           Bad == {y \in R : ~Good(y)}
<1>1. Closed(R, nx) /\ R \subseteq Nodes /\ R \subseteq Nat
  BY ReachedClosed, ReachedNodes, Numbers DEF Uphill
<1>2. SUFFICES ASSUME Bad # {} PROVE FALSE
  OBVIOUS
<1>3. PICK y \in Bad : \A z \in Bad : y <= z
  <2> HIDE DEF R, Good
  <2> QED BY <1>1, <1>2, LeastNat
<1>4. y # HeadNode
  BY <1>1, <1>3, Numbers
<1>5. PICK p \in R : nx[p].node = y /\ p < y
  BY <1>3, <1>4, Predecessor
<1>6. PICK u \in R : u < y /\ ~(nx[u].node # 0 /\ nx[u].node <= y)
  BY <1>3
<1>7. y \in Nat /\ p \in Nat /\ u \in Nat /\ y > 0
  BY <1>1, <1>3, <1>5, <1>6, Numbers
<1>8. Good(p) /\ Good(u)
  BY <1>1, <1>3, <1>5, <1>6, <1>7
<1>9. nx[u].node \in 0..NumNodes
  BY <1>1 DEF Uphill, Ptrs
<1>10. CASE u < p
  BY <1>5, <1>6, <1>7, <1>8, <1>9, <1>10, Numbers
<1>11. CASE u = p
  BY <1>5, <1>6, <1>7, <1>11
<1>12. CASE p < u
  BY <1>5, <1>6, <1>7, <1>8, <1>12
<1> QED BY <1>7, <1>10, <1>11, <1>12

LEMMA OnePredecessor ==
  ASSUME NEW nx, Uphill(nx), NEW m \in Reached(nx), NEW n \in Reached(nx),
         nx[m].node = nx[n].node, nx[m].node # 0
  PROVE  m = n
<1>1. m \in Nat /\ n \in Nat /\ nx[m].node \in Nat /\ nx[m].node > m /\ nx[n].node > n
  BY ReachedNodes, Numbers DEF Uphill, Ptrs, Beyond
<1>2. ~(m < n) /\ ~(n < m)
  BY <1>1, NothingBetween
<1> QED BY <1>1, <1>2

\* Pointers ny differ from nx in that node b has pointer x.
Changes(nx, ny, b, x) == Uphill(nx) /\ Uphill(ny) /\ ny = [nx EXCEPT ![b] = x]

\* What that does to the list: nothing, when the node is not
\* reached, or the pointer leads to the same node as before;
LEMMA OutOfReach ==
  ASSUME NEW nx, NEW ny, NEW b \in Nodes, NEW x, Changes(nx, ny, b, x),
         b \notin Reached(nx) \/ x.node = nx[b].node
  PROVE  Reached(ny) = Reached(nx)
<1> USE DEF Changes
<1>1. \A m \in Nodes : ny[m] = IF m = b THEN x ELSE nx[m]
  BY DEF Uphill
<1>2. /\ Closed(Reached(nx), nx) /\ Reached(nx) \subseteq Nodes
      /\ Closed(Reached(ny), ny) /\ Reached(ny) \subseteq Nodes
  BY ReachedClosed, ReachedNodes DEF Uphill
<1>3. Closed(Reached(nx), ny)
  BY <1>1, <1>2 DEF Closed
<1>4. Reached(ny) \subseteq Reached(nx)
  BY <1>3, ReachedLeast
<1>5. Closed(Reached(ny), nx)
  BY <1>1, <1>2, <1>4 DEF Closed
<1> QED BY <1>4, <1>5, ReachedLeast

\* node b itself stays;
LEMMA ChangedStays ==
  ASSUME NEW nx, NEW ny, NEW b \in Reached(nx), NEW x, Changes(nx, ny, b, x)
  PROVE  b \in Reached(ny)
<1> USE DEF Changes
<1>1. Closed(Reached(ny), ny) /\ Reached(ny) \subseteq Nodes
  BY ReachedClosed, ReachedNodes DEF Uphill
<1>2. SUFFICES ASSUME b \notin Reached(ny) PROVE FALSE
  OBVIOUS
<1>3. \A m \in Reached(ny) : ny[m] = nx[m]
  BY <1>1, <1>2 DEF Uphill
<1>4. Closed(Reached(ny), nx)
  BY <1>1, <1>3 DEF Closed
<1> QED BY <1>2, <1>4, ReachedLeast

\* the node behind b goes, when the pointer now leads to the node behind that;
LEMMA TakenOut ==
  ASSUME NEW nx, NEW ny, NEW b \in Reached(nx), NEW x, Changes(nx, ny, b, x),
         nx[b].node # 0, x.node = nx[nx[b].node].node
  PROVE  Reached(ny) = Reached(nx) \ {nx[b].node}
<1> USE DEF Changes
<1> DEFINE c == nx[b].node
<1>1. /\ Closed(Reached(nx), nx) /\ Reached(nx) \subseteq Nodes
      /\ Closed(Reached(ny), ny) /\ Reached(ny) \subseteq Nodes
  BY ReachedClosed, ReachedNodes DEF Uphill
<1>2. \A m \in Nodes : ny[m] = IF m = b THEN x ELSE nx[m]
  BY DEF Uphill
<1>3. c \in Reached(nx) /\ c > b /\ b >= HeadNode /\ c # HeadNode /\ b \in Nodes /\ c \in Nodes
  BY <1>1, Numbers DEF Closed, Uphill, Beyond
<1>4. x.node = 0 \/ x.node > c
  BY <1>3 DEF Uphill, Beyond
<1>5. Closed(Reached(nx) \ {c}, ny)
  <2>1. HeadNode \in Reached(nx) \ {c}
    BY <1>1, <1>3 DEF Closed
  <2>2. ASSUME NEW m \in Reached(nx) \ {c}, ny[m].node # 0
        PROVE  ny[m].node \in Reached(nx) \ {c}
    <3>1. CASE m = b
      <4>1. x.node \in Reached(nx)
        BY <1>1, <1>2, <1>3, <2>2, <3>1 DEF Closed
      <4>2. x.node # c
        BY <1>1, <1>3, <1>4, <4>1, Numbers
      <4> QED BY <1>2, <1>3, <3>1, <4>1, <4>2
    <3>2. CASE m # b
      <4>1. ny[m].node = nx[m].node /\ nx[m].node \in Reached(nx)
        BY <1>1, <1>2, <2>2, <3>2 DEF Closed
      <4>2. nx[m].node # c
        BY <1>3, <2>2, <3>2, OnePredecessor
      <4> QED BY <4>1, <4>2
    <3> QED BY <3>1, <3>2
  <2> QED BY <2>1, <2>2 DEF Closed
<1>6. b \in Reached(ny)
  BY ChangedStays
<1>7. Closed(Reached(ny) \union {c}, nx)
  <2>1. HeadNode \in Reached(ny)
    BY <1>1 DEF Closed
  <2>2. ASSUME NEW m \in Reached(ny) \union {c}, nx[m].node # 0
        PROVE  nx[m].node \in Reached(ny) \union {c}
    <3>1. CASE m = c
      BY <1>1, <1>2, <1>3, <1>6, <2>2, <3>1 DEF Closed
    <3>2. CASE m = b
      BY <3>2
    <3>3. CASE m \in Reached(ny) /\ m # b
      BY <1>1, <1>2, <2>2, <3>3 DEF Closed
    <3> QED BY <3>1, <3>2, <3>3
  <2> QED BY <2>1, <2>2 DEF Closed
<1>8. Reached(ny) \subseteq Reached(nx) \ {c} /\ Reached(nx) \subseteq Reached(ny) \union {c}
  BY <1>5, <1>7, ReachedLeast
<1> QED BY <1>8

\* a node that nothing leads to, and that leads where b led, comes in behind b.
NothingTo(nx, c) == \A m \in Nodes : nx[m].node # c

LEMMA PutIn ==
  ASSUME NEW nx, NEW ny, NEW b \in Reached(nx), NEW c \in Nodes \ {b, HeadNode},
         Changes(nx, ny, b, Ptr(c)), nx[c] = nx[b], NothingTo(nx, c)
  PROVE  Reached(ny) = Reached(nx) \union {c}
<1> USE DEF Changes, NothingTo
<1>1. /\ Closed(Reached(nx), nx) /\ Reached(nx) \subseteq Nodes
      /\ Closed(Reached(ny), ny) /\ Reached(ny) \subseteq Nodes
  BY ReachedClosed, ReachedNodes DEF Uphill
<1>2. (\A m \in Nodes : ny[m] = IF m = b THEN Ptr(c) ELSE nx[m]) /\ c # 0 /\ Ptr(c).node = c
  BY Numbers DEF Uphill, Ptr
<1>3. Closed(Reached(nx) \union {c}, ny)
  BY <1>1, <1>2 DEF Closed
<1>4. b \in Reached(ny)
  BY ChangedStays
<1>5. c \in Reached(ny)
  BY <1>1, <1>2, <1>4 DEF Closed
<1>6. Closed(Reached(ny) \ {c}, nx)
  <2>1. HeadNode \in Reached(ny) \ {c}
    BY <1>1 DEF Closed
  <2>2. ASSUME NEW m \in Reached(ny) \ {c}, nx[m].node # 0
        PROVE  nx[m].node \in Reached(ny) \ {c}
    <3>1. CASE m = b
      <4>1. ny[c] = nx[b]
        BY <1>2
      <4>2. nx[m].node \in Reached(ny)
        BY <1>1, <1>5, <2>2, <3>1, <4>1 DEF Closed
      <4> QED BY <1>1, <2>2, <4>2
    <3>2. CASE m # b
      <4>1. ny[m] = nx[m]
        BY <1>1, <1>2, <2>2, <3>2
      <4> QED BY <1>1, <2>2, <4>1 DEF Closed
    <3> QED BY <3>1, <3>2
  <2> QED BY <2>1, <2>2 DEF Closed
<1>7. Reached(ny) \subseteq Reached(nx) \union {c} /\ Reached(nx) \subseteq Reached(ny) \ {c}
  BY <1>3, <1>6, ReachedLeast
<1> QED BY <1>5, <1>7
-----------------------------------------------------------------------------
LEMMA InvUphill ==
  IInv => Uphill(next)
BY DEF IInv, Types, NextInv, Uphill

\* A node that no pointer leads to is not in the list.
LEMMA FreshNotReached ==
  ASSUME IInv, NEW v \in Values, Adding(v)
  PROVE  v + 2 \notin InList
<1>1. v + 2 # HeadNode
  BY Numbers
<1>2. \A n \in Nodes : next[n].node # v + 2
  BY DEF IInv, FreshInv
<1> QED BY <1>1, <1>2, InvUphill, Predecessor, ReachedNodes DEF InList, Uphill

\* As long as no thread has taken a node for another one that has its address,
\* the list is ascending, begins with the two dummies and ends, and no value is
\* in it before its add has returned TRUE, for any number of values, whichever of
\* them are removed.
THEOREM StaysOrdered == Spec => []ListIsOrdered
<1>1. ASSUME ~mistaken => IInv PROVE ListIsOrdered
  <2> SUFFICES ASSUME ~mistaken
               PROVE  /\ next[HeadNode] = Ptr(TailNode)
                      /\ \A n \in InList :
                           /\ next[n].node = 0 \/ next[n].node > n
                           /\ n > TailNode => pc[Adder(ValueOf(n))] \in {"true", "done"}
    BY DEF ListIsOrdered
  <2>0. IInv
    BY <1>1
  <2>1. InList \subseteq Nodes
    BY <2>0, InvUphill, ReachedNodes DEF InList, Uphill
  <2>2. next[HeadNode] = Ptr(TailNode)
    BY <2>0 DEF IInv, NextInv
  <2>3. ASSUME NEW n \in InList
        PROVE  next[n].node = 0 \/ next[n].node > n
    BY <2>0, <2>1 DEF IInv, NextInv, Beyond
  <2>4. ASSUME NEW n \in InList, n > TailNode
        PROVE  pc[Adder(ValueOf(n))] \in {"true", "done"}
    <3>1. ValueOf(n) \in Values /\ ValueOf(n) + 2 = n
      BY <2>1, <2>4, Numbers, ValuesAssumption DEF ValueOf, NumNodes
    <3> QED BY <2>0, <3>1, FreshNotReached DEF Adding
  <2> QED BY <2>2, <2>3, <2>4
<1> QED BY <1>1, Invariance, PTL

\* The change that ListChangesByOneNode allows.
OneNode ==
  /\ InList' # InList =>
       \E t \in Changers :
         \/ Inserts(t) /\ InList' = InList \union {NewNode(t)}
         \/ Removes(t) /\ (Stale(t) \/ InList' = InList \ {cur[t].node})
  /\ \A n \in Nodes : (next[n].mark /\ next'[n] # next[n]) =>
       \E t \in Changers : Removes(t) /\ cur[t].mark /\ pre[t].node = n

LEMMA NextUphill ==
  ASSUME IInv, IInv'
  PROVE  /\ Uphill(next) /\ Uphill(next') /\ InList' = Reached(next')
         /\ \A n, x : next' = [next EXCEPT ![n] = x] => Changes(next, next', n, x)
BY DEF IInv, Types, NextInv, Uphill, InList, Changes

\* A remover and a clean-up exchange the pointer in pre.
LEMMA UnlinkChanges ==
  ASSUME IInv, IInv', NEW t \in Changers, Removes(t),
         pre[t].node \in Nodes, cur[t].node # 0, next[pre[t].node] = cur[t],
         next' = [next EXCEPT ![pre[t].node] = after[t]]
  PROVE  OneNode
<1>1. ASSUME NEW n \in Nodes, next[n].mark, next'[n] # next[n]
      PROVE  cur[t].mark /\ pre[t].node = n
  BY <1>1 DEF IInv, Types
<1>2. ASSUME ~Stale(t), pre[t].node \in InList
      PROVE  InList' = InList \ {cur[t].node}
  <2>1. Uphill(next) /\ Uphill(next') /\ InList' = Reached(next')
    BY NextUphill
  <2>2. pre[t].node \in Reached(next) /\ InList = Reached(next)
    BY <1>2 DEF InList
  <2>3. next[pre[t].node].node # 0 /\ after[t].node = next[next[pre[t].node].node].node
    BY <1>2 DEF Stale
  <2>4. Reached(next') = Reached(next) \ {next[pre[t].node].node}
    <3>1. Changes(next, next', pre[t].node, after[t])
      BY <2>1 DEF Changes
    <3> QED BY <2>2, <2>3, <3>1, TakenOut
  <2> QED BY <2>1, <2>2, <2>4
<1>3. ASSUME pre[t].node \notin InList
      PROVE  InList' = InList
  BY <1>3, NextUphill, OutOfReach DEF InList
<1> QED BY <1>1, <1>2, <1>3 DEF OneNode

\* The mark leaves the list as it is.
LEMMA MarkChanges ==
  ASSUME IInv, IInv', NEW n \in Nodes, next' = [next EXCEPT ![n] = Marked(next[n])]
  PROVE  OneNode
<1>1. Marked(next[n]).node = next[n].node /\ (next[n].mark => Marked(next[n]) = next[n])
  BY DEF Marked, IInv, Types, Ptrs
<1>2. \A m \in Nodes : next[m].mark => next'[m] = next[m]
  BY <1>1 DEF IInv, Types
<1>3. InList' = InList
  BY <1>1, NextUphill, OutOfReach DEF InList
<1> QED BY <1>2, <1>3 DEF OneNode

\* So does the pointer of a node that nobody has heard of.
LEMMA PrepareChanges ==
  ASSUME IInv, IInv', NEW v \in Values, Adding(v), NEW x, next' = [next EXCEPT ![v + 2] = x]
  PROVE  OneNode
<1>1. v + 2 \in Nodes
  BY Numbers
<1>2. \A m \in Nodes : next[m].mark => next'[m] = next[m]
  BY DEF IInv, Types, FreshInv
<1>3. InList' = InList
  BY <1>1, NextUphill, FreshNotReached, OutOfReach DEF InList
<1> QED BY <1>2, <1>3 DEF OneNode

LEMMA InsertChanges ==
  ASSUME IInv, IInv', NEW t \in Threads, Insert(t), ~IsMistake(t), Succeeds(pre[t], cur[t])
  PROVE  OneNode
<1>1. Is(t, "insert")
  BY DEF Insert
<1>2. /\ t \in Changers /\ pc[t] = "insert"
      /\ NewNode(t) \in 3..NumNodes /\ Arg(t) \in Values /\ NewNode(t) = Arg(t) + 2
      /\ Place(t, "insert", pre[t], cur[t], after[t], next)
  BY <1>1, Is_ DEF Over
<1>3. t[1] = "add" /\ t = Adder(Arg(t)) /\ Adding(Arg(t))
  BY <1>2, Roles DEF IInv, RolesInv, Adding
<1>4. /\ pre[t].node \in Nodes /\ pre[t].node < NewNode(t) /\ NewNode(t) \in Nodes
      /\ NewNode(t) # HeadNode
  BY <1>2, Numbers DEF Place, Returned
<1>5. /\ next[pre[t].node] = cur[t]
      /\ next' = [next EXCEPT ![pre[t].node] = Ptr(NewNode(t))]
      /\ Inserts(t)
  <2>1. Target(pre[t]) = pre[t].node /\ Read(pre[t]) = next[pre[t].node]
    BY <1>1, <1>2, Follows DEF Accesses
  <2>2. Read(pre[t]) = cur[t]
    BY <1>2, Expects DEF Compares
  <2>3. pc' = [pc EXCEPT ![t] = "true"]
    BY DEF Insert, Return, Goto
  <2> QED BY <1>2, <2>1, <2>2, <2>3 DEF Insert, Swaps, Inserts, IInv, Types
<1>6. ~cur[t].mark /\ next[NewNode(t)] = cur[t]
  BY <1>2 DEF Place, Returned
<1>7. \A m \in Nodes : next[m].mark => next'[m] = next[m]
  BY <1>4, <1>5, <1>6 DEF IInv, Types
<1>8. ASSUME pre[t].node \in InList
      PROVE  InList' = InList \union {NewNode(t)}
  <2>1. NothingTo(next, NewNode(t))
    BY <1>2, <1>3 DEF IInv, FreshInv, NothingTo
  <2>2. Changes(next, next', pre[t].node, Ptr(NewNode(t)))
    BY <1>5, NextUphill
  <2>3. pre[t].node \in Reached(next) /\ NewNode(t) \in Nodes \ {pre[t].node, HeadNode}
    BY <1>2, <1>4, <1>8, Numbers DEF InList
  <2>4. next[NewNode(t)] = next[pre[t].node]
    BY <1>5, <1>6
  <2>5. Reached(next') = Reached(next) \union {NewNode(t)}
    BY <2>1, <2>2, <2>3, <2>4, PutIn
  <2> QED BY <2>5, NextUphill DEF InList
<1>9. ASSUME pre[t].node \notin InList
      PROVE  InList' = InList
  BY <1>4, <1>5, <1>9, NextUphill, OutOfReach DEF InList
<1> QED BY <1>2, <1>5, <1>7, <1>8, <1>9 DEF OneNode

\* A remover or a clean-up that succeeds has found the very pointer it expected.
LEMMA FoundExpected ==
  ASSUME IInv, NEW t \in Threads, ~IsMistake(t), NEW l \in {"help", "unlink"}, Is(t, l),
         Succeeds(pre[t], cur[t])
  PROVE  /\ t \in Changers /\ pc[t] = l /\ pre[t].node \in Nodes /\ cur[t].node # 0
         /\ next[pre[t].node] = cur[t] /\ Target(pre[t]) = pre[t].node
<1>1. t \in Changers /\ pc[t] = l /\ Place(t, l, pre[t], cur[t], after[t], next) /\ NewNode(t) \in 3..NumNodes
  BY Is_ DEF Over
<1>2. cur[t].node # 0
  BY <1>1, Numbers DEF Place
<1>3. pre[t].node \in Nodes /\ Target(pre[t]) = pre[t].node /\ Read(pre[t]) = next[pre[t].node]
  BY <1>1, Follows DEF Accesses
<1>4. Read(pre[t]) = cur[t]
  BY <1>1, Expects DEF Compares
<1> QED BY <1>1, <1>2, <1>3, <1>4

LEMMA StepChanges ==
  ASSUME IInv, IInv', NEW t \in Threads, Call(t), ~IsMistake(t)
  PROVE  OneNode \/ next' = next
<1>1. CASE Help(t) /\ Succeeds(pre[t], cur[t])
  <2>1. /\ t \in Changers /\ pc[t] = "help" /\ pre[t].node \in Nodes /\ cur[t].node # 0
        /\ next[pre[t].node] = cur[t] /\ Target(pre[t]) = pre[t].node
    BY <1>1, FoundExpected DEF Help
  <2>2. pc' = [pc EXCEPT ![t] = "clean"] /\ next' = [next EXCEPT ![pre[t].node] = after[t]]
    BY <1>1, <2>1 DEF Help, Swaps, Goto
  <2>3. Removes(t)
    BY <2>1, <2>2 DEF Removes, IInv, Types
  <2> QED BY <2>1, <2>2, <2>3, UnlinkChanges
<1>2. CASE Unlink(t) /\ Succeeds(pre[t], cur[t])
  <2>1. /\ t \in Changers /\ pc[t] = "unlink" /\ pre[t].node \in Nodes /\ cur[t].node # 0
        /\ next[pre[t].node] = cur[t] /\ Target(pre[t]) = pre[t].node
    BY <1>2, FoundExpected DEF Unlink
  <2>2. pc' = [pc EXCEPT ![t] = "delete"] /\ next' = [next EXCEPT ![pre[t].node] = after[t]]
    BY <1>2, <2>1 DEF Unlink, Swaps, Goto
  <2>3. Removes(t)
    BY <2>1, <2>2 DEF Removes, IInv, Types
  <2> QED BY <2>1, <2>2, <2>3, UnlinkChanges
<1>3. CASE Mark(t) /\ Succeeds(cur[t], after[t])
  <2>1. Is(t, "mark")
    BY <1>3 DEF Mark
  <2>2. pc[t] = "mark" /\ cur[t] \in Ptrs
    BY <2>1, Is_ DEF Over
  <2>3. cur[t].node \in Nodes /\ Target(cur[t]) = cur[t].node /\ Read(cur[t]) = next[cur[t].node]
    <3>1. Unmarked(cur[t]) \in Accesses(t)
      BY <2>2 DEF Accesses
    <3> QED BY <2>1, <2>2, <3>1, FollowsUnmarked
  <2>4. Read(cur[t]) = after[t]
    BY <1>3, <2>2, Expects DEF Compares
  <2>5. next' = [next EXCEPT ![cur[t].node] = Marked(next[cur[t].node])]
    BY <1>3, <2>3, <2>4 DEF Mark, Swaps
  <2> QED BY <2>3, <2>5, MarkChanges
<1>4. CASE Insert(t) /\ Succeeds(pre[t], cur[t])
  BY <1>4, InsertChanges
<1>5. CASE Prepare(t) /\ ~(Found(t) /\ ~cur[t].mark)
  <2>1. Is(t, "found") /\ t[1] = "add"
    BY <1>5 DEF Prepare
  <2>2. pc[t] = "found" /\ Arg(t) \in Values /\ NewNode(t) = Arg(t) + 2
    BY <2>1, Is_ DEF Over
  <2>3. Adding(Arg(t))
    BY <2>1, <2>2, Roles DEF Adding
  <2>4. next' = [next EXCEPT ![Arg(t) + 2] = cur[t]]
    BY <1>5, <2>2 DEF Prepare
  <2> QED BY <2>2, <2>3, <2>4, PrepareChanges
<1> QED BY <1>1, <1>2, <1>3, <1>4, <1>5
        DEF Call, StartFind, Walk, Clean, Help, New, Prepare, Insert, ReadNext, Mark, Unlink, Delete,
            Look, Swaps

\* As long as no thread has taken a node for another one that has its address,
\* insertions add their value and nothing else, removals and clean-ups take their
\* node and nothing else unless its successor has changed, and nobody but a
\* clean-up changes a marked pointer, for any number of values.
THEOREM ChangesByOneNode == Spec => ListChangesByOneNode
<1>1. ASSUME ~mistaken => IInv, (~mistaken => IInv)', [Next]_vars
      PROVE  [~mistaken' => OneNode]_next
  <2> SUFFICES ASSUME ~mistaken' PROVE OneNode \/ next' = next
    OBVIOUS
  <2>1. ASSUME NEW t \in Threads, Call(t) PROVE OneNode \/ next' = next
    <3>1. ~mistaken /\ ~IsMistake(t)
      BY <2>1 DEF Call
    <3> QED BY <1>1, <2>1, <3>1, StepChanges
  <2>2. ASSUME NEW t \in Threads, SetFlag(t) \/ GoWrong(t) PROVE next' = next
    BY <2>2 DEF SetFlag, GoWrong
  <2>3. ASSUME NEW v \in Values, Join(v) PROVE next' = next
    BY <2>3 DEF Join
  <2>4. CASE StartReaders
    BY <2>4 DEF StartReaders
  <2>5. CASE UNCHANGED vars
    BY <2>5 DEF vars
  <2> QED BY <1>1, <2>1, <2>2, <2>3, <2>4, <2>5 DEF Next, Step
<1>2. Spec => [][~mistaken' => OneNode]_next
  BY <1>1, Invariance, PTL DEF Spec
<1> QED BY <1>2 DEF ListChangesByOneNode, OneNode
=============================================================================
