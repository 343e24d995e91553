------------------------------ MODULE FenceSearch ---------------------------
(***************************************************************************)
(* The search of the plugin AUTOMO (assignment3/model-checker/scfence) for *)
(* memory orders under which a program is sequentially consistent.         *)
(*                                                                         *)
(* The model checker explores the program under the current inference.     *)
(* Some execution that is not sequentially consistent (Analyze): the       *)
(* repairs become candidates and the exploration starts again with the     *)
(* next one.  None (Finish): the inference is a result, and weaker ones    *)
(* are tried.                                                              *)
(*                                                                         *)
(* A program of ScTraces has two more fields: wildcards, their number, and *)
(* file, the inferences of the candidate file (option file-), <<>> without *)
(* one.  Programs have no branches: inspectModelAction has given every     *)
(* wildcard an order before the first analysis.                            *)
(***************************************************************************)
EXTENDS FenceFixes

CONSTANTS Programs

VARIABLES prog,     \* the program
          traces,   \* its traces
          uninit,   \* what the uninitialized allowNonSC of SCGenerator holds
          found,    \* the inferences made so far; the first is the one the
                    \* plugin begins with and is not in discoveredSet
          stack,    \* candidates of the InferenceSet, as indices into found
          results,  \* results of the InferenceSet, likewise
          cur,      \* curInference, likewise; 0 at the end
          flagged   \* the executions under cur that the plugin calls not SC

vars == <<prog, traces, uninit, found, stack, results, cur, flagged>>

Infer(orders, initial, shouldFix) ==
  [orders |-> orders, initial |-> initial, leaf |-> TRUE, explored |-> FALSE, fix |-> shouldFix]

-----------------------------------------------------------------------------
(* The executions under given orders, and what the plugin makes of them.   *)

OrdersIn(tr, inf) == [i \in DOMAIN tr |-> IF tr[i].wc > 0 THEN inf[tr[i].wc] ELSE tr[i].mo]

\* The traces the engine finds consistent, with all that the analysis needs.
Executions(trs, inf) ==
  UNION {UNION {UNION {LET c == [tr |-> tr, ord |-> ord, hb |-> hb, mo |-> mo]
                       IN IF Consistent(tr, mo) THEN {c} ELSE {}
                       : mo \in {ModificationOrder(tr, ord, hb)}}
                : hb \in {ClockVectors(tr, ord)}}
         : <<tr, ord>> \in {<<t, OrdersIn(t, inf)>> : t \in trs}}

\* analyze: getCyclic of the generator.
Analyzed(e, allow) ==
  [e |-> e, sc |-> GetSCList(e.tr, e.hb, e.ord, allow)]

NotSC(a) == a.sc.cyclic \/ BadReads(a.e.tr, a.sc.list) # {}

Flagged(trs, inf, allow) ==
  {a \in {Analyzed(e, allow) : e \in Executions(trs, inf)} : NotSC(a)}

-----------------------------------------------------------------------------
(* The InferenceSet m == [found, stack, results].                          *)

Discovered(m) == 2..Len(m.found)

\* Mutant: nothing stronger than a discovered inference is tried.
DiscoveredWeaker(m, inf) == \E d \in Discovered(m) : NoStronger(m.found[d].orders, inf)

HasBeenDiscovered(m, inf) ==
  \E d \in Discovered(m) : LET o == m.found[d]
                           IN \/ o.orders = inf
                              \/ NoStronger(o.orders, inf) /\ o.leaf /\ o.explored

HasBeenExplored(m, inf) ==
  \E d \in Discovered(m) : m.found[d].explored /\ NoStronger(m.found[d].orders, inf)

AddInference(m, o) ==
  IF HasBeenDiscovered(m, o.orders) THEN m
  ELSE [m EXCEPT !.found = Append(@, o), !.stack = Append(@, Len(m.found) + 1)]

AddAll(m, os) == FoldLeft(LAMBDA n, o : AddInference(n, o), m, os)

AddCandidates(m, id, cands) ==
  LET inner == [m EXCEPT !.found[id].leaf = FALSE, !.stack = Append(@, id)]
  IN AddAll(inner, [k \in DOMAIN cands |-> Infer(cands[k], m.found[id].initial, TRUE)])

\* Mutant: an explored inference is not marked.
NoCommit(m, id) == m

Commit(m, id) == [m EXCEPT !.found[id].explored = TRUE]

\* Mutant: stronger results stay.
AppendResult(m, id) == [m EXCEPT !.results = Append(@, id)]

AddResult(m, id) ==
  [m EXCEPT !.results = Append(SelectSeq(@, LAMBDA r : ~NoStronger(m.found[id].orders, m.found[r].orders)), id)]

\* The orders one step weaker than mo1, down to the initial order mo2.  From
\* acquire or release there is no step to relaxed where that is initial.
Weakenings(mo1, mo2) ==
  CASE mo1 = "acq_rel" -> IF mo2 \in {"acquire", "release"} THEN <<mo2>> ELSE <<"acquire", "release">>
    [] mo1 = "seq_cst" -> IF mo2 = "acq_rel" THEN <<>> ELSE <<"acq_rel">>
    [] OTHER -> <<>>

WeakerInferences(o) ==
  LET Of(w) == [k \in DOMAIN Weakenings(o.orders[w], o.initial[w]) |->
                  Infer([o.orders EXCEPT ![w] = Weakenings(@, o.initial[w])[k]], o.initial, FALSE)]
      strengthened == SelectSeq([w \in DOMAIN o.orders |-> w], LAMBDA w : o.orders[w] # o.initial[w])
  IN FlattenSeq([k \in DOMAIN strengthened |-> Of(strengthened[k])])

\* The next inference to explore is the last of the stack; none is left when
\* the stack is empty.
RECURSIVE GetNextInference(_)
GetNextInference(m) ==
  LET id == m.stack[Len(m.stack)]
      popped == [m EXCEPT !.stack = SubSeq(@, 1, Len(@) - 1)]
  IN IF m.stack = <<>> THEN [set |-> m, next |-> 0]
     ELSE IF ~m.found[id].leaf THEN GetNextInference(Commit(popped, id))
     ELSE IF m.found[id].fix /\ HasBeenExplored(m, m.found[id].orders) THEN GetNextInference(popped)
     ELSE [set |-> popped, next |-> id]

-----------------------------------------------------------------------------
(* The search.                                                             *)

Set == [found |-> found, stack |-> stack, results |-> results]

\* setCurInference, and the exploration that begins.
Explore(next) ==
  \E n \in {next} :
    /\ found' = n.set.found
    /\ stack' = n.set.stack
    /\ results' = n.set.results
    /\ cur' = n.next
    /\ flagged' = IF n.next = 0 THEN {} ELSE Flagged(traces, n.set.found[n.next].orders, uninit)
    /\ UNCHANGED <<prog, traces, uninit>>

\* routineBacktrack(feasible), without and with a result.
Backtrack(m) == GetNextInference(Commit(m, cur))

BacktrackWithResult(m) ==
  GetNextInference(AddAll(AddResult(Commit(m, cur), cur), WeakerInferences(found[cur])))

Candidates(a, inf) ==
  PruneCandidates(inf, FixesNonSC([tr |-> a.e.tr, hb |-> a.e.hb, mo |-> a.e.mo, list |-> a.sc.list, cur |-> inf]))

\* Mutant: the inference is a result when no candidate is left to try.
AcceptedAfterFixes(m) ==
  IF Len(m.found) = Len(found) THEN BacktrackWithResult(m)
  ELSE LET n == GetNextInference(m) IN IF n.next # 0 THEN n ELSE BacktrackWithResult(n.set)

\* routineAfterAddFixes when a candidate is new, else routineBacktrack(false).
AfterFixes(m) ==
  IF Len(m.found) = Len(found) THEN Backtrack(m)
  ELSE LET n == GetNextInference(m) IN IF n.next # 0 THEN n ELSE Backtrack(n.set)

Analyze ==
  /\ cur # 0
  /\ \E a \in flagged :
       Explore(IF found[cur].fix
                 THEN AfterFixes(AddCandidates(Set, cur, Candidates(a, found[cur].orders)))
                 ELSE Backtrack(Set))

Finish ==
  /\ cur # 0
  /\ flagged = {}
  /\ Explore(BacktrackWithResult(Set))

Relaxed(p) == [w \in 1..p.wildcards |-> "relaxed"]

\* initializeByFile.
FirstSet(p) ==
  AddAll([found |-> <<Infer(Relaxed(p), Relaxed(p), TRUE)>>, stack |-> <<>>, results |-> <<>>],
         [k \in DOMAIN p.file |-> Infer(p.file[k], p.file[k], TRUE)])

First(p) ==
  IF p.file = <<>> THEN [set |-> FirstSet(p), next |-> 1] ELSE GetNextInference(FirstSet(p))

Init ==
  \E p \in Programs : \E trs \in {TracesOf(p)}, allow \in BOOLEAN, n \in {First(p)} :
    /\ prog = p
    /\ traces = trs
    /\ uninit = allow
    /\ found = n.set.found
    /\ stack = n.set.stack
    /\ results = n.set.results
    /\ cur = n.next
    /\ flagged = Flagged(trs, n.set.found[n.next].orders, allow)

Next == Analyze \/ Finish

Spec == Init /\ [][Next]_vars

-----------------------------------------------------------------------------
(* Properties.                                                             *)

IsScUnder(inf) == \A e \in Executions(traces, inf) : IsSc(e.tr)

\* The generator of scgen.cc tells exactly the executions that no interleaving
\* explains from the others, whatever allowNonSC held at first: the edges it
\* derives, the roll-backs and the second attempt neither lose nor invent a
\* cycle.  (getCyclic, and ASSERT(count == 0 || cyclic) never fails.)  The
\* older plugin SC may overlook a cycle, as it does in store buffering, but
\* invents none.
VerdictIsExact ==
  cur # 0 =>
    /\ {a.e.tr : a \in flagged} =
         {e.tr : e \in {d \in Executions(traces, found[cur].orders) : ~IsSc(d.tr)}}
    /\ \A a \in flagged : ~a.sc.failed
    /\ \A e \in Executions(traces, found[cur].orders) :
         AnalyzeSC(e.tr, e.hb, e.ord).cyclic => ~IsSc(e.tr)

\* Under every result that is printed the program is sequentially consistent
\* (printResults; weaker inferences are accepted without repairs).
ResultsAreSc == cur = 0 => \A k \in DOMAIN results : IsScUnder(found[results[k]].orders)

\* Every step of the search tells it something: it makes an inference it had
\* not made, or explores to the end one it had not.  With finitely many
\* inferences the search therefore ends (the comment of inferset.h: "insert new
\* undiscovered fixes to that set iteratively until it gets empty").
Progress(fs) == Len(fs) + Cardinality({k \in DOMAIN fs : fs[k].explored})
SearchProgresses == [][Progress(found') > Progress(found)]_vars

\* No result is stronger than another one.  addResult removes the stronger
\* results when a weaker one is found but does not look for weaker ones, and
\* getNextInference takes a weakened candidate without hasBeenExplored: that
\* none arrives after a weaker result rests on the repairs that the programs
\* get and on the order in which the stack gives them out.
ResultsAreIncomparable ==
  \A j, k \in DOMAIN results : j # k => ~NoStronger(found[results[j]].orders, found[results[k]].orders)

\* The search misses no solution: an assignment under which the program is
\* sequentially consistent is a result or stronger than a result, where a
\* result may still ask for acquire or release of a wildcard that could do
\* without (see Weakenings).  It needs three things: the uninitialized
\* allowNonSC is FALSE; no fixed order is stronger than relaxed, for an action
\* with such an order ends a patch although the patch asks nothing new of it
\* (Patch::isApplicable and InferenceList::applyPatch); and the wildcards are
\* all fences or all accesses, for imposeSC offers a fence only where the list,
\* one of many for a cyclic execution, puts it between the two actions.
Operations(p) == UNION {Range(p.threads[t]) : t \in DOMAIN p.threads}

Predictable(p) ==
  /\ \A op \in Operations(p) : op.wc = 0 => op.mo = "relaxed"
  /\ \/ \A op \in Operations(p) : op.kind = "fence" => op.wc = 0
     \/ \A op \in Operations(p) : op.wc > 0 => op.kind = "fence"

Covers(result, inf) ==
  \A w \in DOMAIN inf : AtMost(result[w], inf[w]) \/ result[w] \in {"acquire", "release"}

EverySolutionIsCovered ==
  cur = 0 /\ ~uninit /\ Predictable(prog) =>
    \A inf \in [1..prog.wildcards -> MemoryOrders] :
      (\A k \in DOMAIN results : ~Covers(found[results[k]].orders, inf)) => ~IsScUnder(inf)
=============================================================================
