---- MODULE CycleGraph ----
(***************************************************************************)
(* The modification-order graph of the model checker (cyclegraph.cc): the  *)
(* nodes are the atomic writes of an execution, an edge says that one      *)
(* write is modification ordered before another, and a write may have one  *)
(* RMW that reads from it and so must follow it immediately.               *)
(*                                                                         *)
(* A graph is a record: edges, a set of pairs of nodes; rmw, the set of    *)
(* pairs <<w, r>> such that r is the hasRMW of w; cyc, the hasCycles flag. *)
(* startChanges and rollbackChanges need no operator: a graph is a value,  *)
(* and the caller that rolls back keeps the old one.                       *)
(***************************************************************************)
EXTENDS Integers, FiniteSets

EmptyGraph == [edges |-> {}, rmw |-> {}, cyc |-> FALSE]

(* Every node that a path of edges leads to from a node of S, S included. *)
ReachFrom(edges, S) ==
    LET reach[T \in SUBSET (S \cup {e[2] : e \in edges})] ==
            LET next == T \cup {e[2] : e \in {d \in edges : d[1] \in T}}
            IN  IF next = T THEN T ELSE reach[next]
    IN  reach[S]

checkForCycles(g) == g.cyc

checkReachable(g, from, to) == to \in ReachFrom(g.edges, {from})

(* setRMW keeps the first RMW of a node: it is a function of the node. *)
HasRMW(g, n) == \E p \in g.rmw : p[1] = n
setRMW(g, n, r) == IF HasRMW(g, n) THEN g.rmw ELSE g.rmw \cup {<<n, r>>}
getRMW(g, n) == (CHOOSE p \in g.rmw : p[1] = n)[2]

(* The end of the RMW chain of from, or to if the chain meets it. *)
ChainEnd(g, from, to) ==
    LET walk[k \in Nat] ==
            IF k = 0 THEN from
            ELSE LET n == walk[k - 1]
                 IN  IF n = to \/ ~HasRMW(g, n) THEN n ELSE getRMW(g, n)
    IN  walk[Cardinality(g.rmw)]

\* Mutant: a write may come between a write and its RMW.
addEdgesUnchained(g, E) ==
    [g EXCEPT !.edges = @ \cup E,
              !.cyc = @ \/ \E e \in E \ g.edges : e[1] \in ReachFrom(g.edges \cup E, {e[2]})]

\* Mutant: the end of the chain gets an edge even if it is the target.
addEdgesReflexive(g, E) ==
    LET fresh == E \ g.edges
        all == g.edges \cup fresh \cup {<<ChainEnd(g, e[1], e[2]), e[2]>> : e \in fresh}
    IN  [g EXCEPT !.edges = all,
                  !.cyc = @ \/ \E e \in all \ g.edges : e[1] \in ReachFrom(all, {e[2]})]

(* The pairs of E that are no edges yet.                                   *)
newEdges(g, E) == E \ g.edges

(* addNodeEdge for every pair of E: a new edge out of a write also leaves  *)
(* the end of its RMW chain, since nothing comes between; each edge added  *)
(* is looked at for a cycle it closes.                                     *)
addEdges(g, E) ==
    LET fresh == newEdges(g, E)
        chained == {<<ChainEnd(g, e[1], e[2]), e[2]>> : e \in fresh}
        all == g.edges \cup fresh \cup {e \in chained : e[1] # e[2]}
    IN  [g EXCEPT !.edges = all,
                  !.cyc = @ \/ \E e \in all \ g.edges :
                                   e[1] \in ReachFrom(all, {e[2]})]

(* The RMW rmw reads from the write from: only one RMW can, and the edges  *)
(* that leave from now leave rmw as well (these are not looked at for a    *)
(* cycle).                                                                 *)
addRMWEdge(g, from, rmw) ==
    LET moved == {<<rmw, e[2]>> : e \in {d \in g.edges : d[1] = from /\ d[2] # rmw}}
        g1 == [edges |-> g.edges \cup moved,
               rmw   |-> setRMW(g, from, rmw),
               cyc   |-> g.cyc \/ HasRMW(g, from)]
    IN  addEdges(g1, {<<from, rmw>>})
====
