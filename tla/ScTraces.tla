------------------------------ MODULE ScTraces ------------------------------
(***************************************************************************)
(* The traces that the plugins of assignment3/model-checker analyse: the   *)
(* executions that the engine finds consistent (execution.cc) for a small  *)
(* program under given memory orders.                                      *)
(*                                                                         *)
(* A program is [locs, threads]: main() stores to every location, creates  *)
(* threads 2.., performs threads[1] and joins them.  An operation is       *)
(* [kind, loc, mo, wc]: wc is the number of its wildcard, or 0 when its    *)
(* order mo is fixed.  A trace is the sequence of actions by sequence      *)
(* number; rf is the store a load reads from.  There are no branches, a    *)
(* load reads from an earlier store, and a release sequence goes on        *)
(* through read-modify-writes alone.                                       *)
(***************************************************************************)
EXTENDS Integers, Sequences, SequencesExt, FiniteSets, FiniteSetsExt

Act(t, kind, arg) == [tid |-> t, kind |-> kind, loc |-> arg, mo |-> "relaxed", wc |-> 0, rf |-> 0]

IsRead(a) == a.kind \in {"load", "rmw"}
IsWrite(a) == a.kind \in {"store", "rmw"}
IsFence(a) == a.kind = "fence"

WritesTo(tr, loc) == {i \in DOMAIN tr : IsWrite(tr[i]) /\ tr[i].loc = loc}
Reads(tr) == {i \in DOMAIN tr : IsRead(tr[i])}
Writes(tr) == {i \in DOMAIN tr : IsWrite(tr[i])}
TidsOf(tr) == {tr[i].tid : i \in DOMAIN tr}
ThreadList(tr, t) == SelectSeq([i \in DOMAIN tr |-> i], LAMBDA i : tr[i].tid = t)

-----------------------------------------------------------------------------
(* All traces of a program, consistent or not.                             *)

Prologue(p) ==
  LET Others == [i \in 1..(Len(p.threads) - 1) |-> i + 1]
  IN <<Act(1, "start", 0)>>
     \o [i \in DOMAIN p.locs |-> Act(1, "store", p.locs[i])]
     \o [i \in DOMAIN Others |-> Act(1, "create", Others[i])]
     \o [i \in DOMAIN Others |-> Act(Others[i], "start", 0)]

Epilogue(p) == [i \in 1..(Len(p.threads) - 1) |-> Act(1, "join", i + 1)]

Performed(t, op, rf) ==
  [tid |-> t, kind |-> op.kind, loc |-> op.loc, mo |-> op.mo, wc |-> op.wc, rf |-> rf]

RECURSIVE Extensions(_, _, _)
Extensions(p, tr, at) ==
  LET Ready == {t \in DOMAIN p.threads : at[t] <= Len(p.threads[t])}
      Sources(op) == IF IsRead(op) THEN WritesTo(tr, op.loc) ELSE {0}
  IN IF Ready = {} THEN {tr \o Epilogue(p)}
     ELSE UNION {UNION {Extensions(p, Append(tr, Performed(t, p.threads[t][at[t]], rf)),
                                   [at EXCEPT ![t] = @ + 1])
                        : rf \in Sources(p.threads[t][at[t]])} : t \in Ready}

TracesOf(p) == Extensions(p, Prologue(p), [t \in DOMAIN p.threads |-> 1])

-----------------------------------------------------------------------------
(* Happens-before under the orders ord[i] of the actions.                  *)

Acquires(mo) == mo \in {"acquire", "acq_rel", "seq_cst"}
Releases(mo) == mo \in {"release", "acq_rel", "seq_cst"}

MergeCv(cv1, cv2) == [t \in DOMAIN cv1 |-> IF cv1[t] > cv2[t] THEN cv1[t] ELSE cv2[t]]

PrevInThread(tr, i) ==
  LET mine == {j \in 1..(i - 1) : tr[j].tid = tr[i].tid}
  IN IF mine = {} THEN 0 ELSE Max(mine)

\* What comes before an action besides reads: its predecessor, for a start the
\* creation, 0 for none.
Predecessor(tr, i) ==
  IF tr[i].kind = "start"
    THEN LET created == {j \in DOMAIN tr : tr[j].kind = "create" /\ tr[j].loc = tr[i].tid}
         IN IF created = {} THEN 0 ELSE Max(created)
    ELSE PrevInThread(tr, i)

LastOf(tr, t) == Max({i \in DOMAIN tr : tr[i].tid = t})

\* The actions whose vectors a reader of store w acquires.
RECURSIVE ReleaseHeads(_, _, _)
ReleaseHeads(tr, ord, w) ==
  LET fences == {f \in 1..(w - 1) : tr[f].tid = tr[w].tid /\ IsFence(tr[f]) /\ Releases(ord[f])}
  IN (IF Releases(ord[w]) THEN {w} ELSE {})
     \union (IF fences = {} THEN {} ELSE {Max(fences)})
     \union (IF tr[w].kind = "rmw" THEN ReleaseHeads(tr, ord, tr[w].rf) ELSE {})

Synchronised(tr, ord, i) ==
  CASE IsRead(tr[i]) /\ Acquires(ord[i]) -> ReleaseHeads(tr, ord, tr[i].rf)
    [] IsFence(tr[i]) /\ Acquires(ord[i]) ->
         UNION {ReleaseHeads(tr, ord, tr[r].rf) : r \in {j \in Reads(tr) : j < i /\ tr[j].tid = tr[i].tid}}
    [] tr[i].kind = "join" -> {LastOf(tr, tr[i].loc)}
    [] OTHER -> {}

ClockVectors(tr, ord) ==
  LET Zero == [t \in TidsOf(tr) |-> 0]
      Pred(cvs, i) == IF Predecessor(tr, i) = 0 THEN Zero ELSE cvs[Predecessor(tr, i)]
      Mine(cvs, i) == FoldSet(LAMBDA h, cv : MergeCv(cv, cvs[h]), Pred(cvs, i), Synchronised(tr, ord, i))
  IN FoldLeft(LAMBDA cvs, i : Append(cvs, [Mine(cvs, i) EXCEPT ![tr[i].tid] = i]),
              <<>>, [i \in DOMAIN tr |-> i])

HappensBefore(tr, cvs, a, b) == a # b /\ cvs[b][tr[a].tid] >= a

-----------------------------------------------------------------------------
(* Modification order.                                                     *)

\* a comes before b in the order of the seq_cst actions, by itself or by fences.
ScBefore(tr, ord, a, b) ==
  \E x, y \in {i \in DOMAIN tr : ord[i] = "seq_cst"} :
    /\ x < y
    /\ x = a \/ (x > a /\ tr[x].tid = tr[a].tid /\ IsFence(tr[x]))
    /\ y = b \/ (y < b /\ tr[y].tid = tr[b].tid /\ IsFence(tr[y]))

Ordered(tr, ord, cvs, a, b) == HappensBefore(tr, cvs, a, b) \/ ScBefore(tr, ord, a, b)

MoEdge(tr, ord, cvs, w1, w2) ==
  LET from1 == {r \in Reads(tr) : tr[r].rf = w1}
      from2 == {r \in Reads(tr) : tr[r].rf = w2}
  IN \/ Ordered(tr, ord, cvs, w1, w2)
     \/ \E r \in from2 \ {w1} : Ordered(tr, ord, cvs, w1, r)
     \/ \E r \in from1 : r = w2 \/ HappensBefore(tr, cvs, r, w2)
     \/ \E r1 \in from1, r2 \in from2 : HappensBefore(tr, cvs, r1, r2)

Composed(edges) == edges \union {<<p[1][1], p[2][2]>> : p \in {q \in edges \X edges : q[1][2] = q[2][1]}}

\* Nothing comes between a read-modify-write and the store it reads from.
BehindRmws(tr, edges) ==
  edges \union {<<p[1], p[2][2]>> : p \in
    {q \in Reads(tr) \X edges : /\ IsWrite(tr[q[1]])
                                 /\ q[2][1] = tr[q[1]].rf
                                 /\ q[2][2] # q[1]}}

\* The stores of one location.
RECURSIVE Closed(_, _)
Closed(tr, edges) ==
  LET next == Composed(BehindRmws(tr, edges))
  IN IF next = edges THEN edges ELSE Closed(tr, next)

ModificationOrder(tr, ord, cvs) ==
  UNION {LET ws == WritesTo(tr, loc)
         IN Closed(tr, {e \in ws \X ws : e[1] # e[2] /\ MoEdge(tr, ord, cvs, e[1], e[2])})
         : loc \in {tr[w].loc : w \in Writes(tr)}}

Consistent(tr, mo) == \A w \in Writes(tr) : <<w, w>> \notin mo

-----------------------------------------------------------------------------
(* Sequential consistency by its definition: some order of all actions     *)
(* extends those of the threads, and every load reads the last store.      *)

RECURSIVE ScOrderFrom(_, _, _)
ScOrderFrom(tr, done, last) ==
  LET MayCome(i) ==
        /\ i \notin done
        /\ Predecessor(tr, i) \in done \union {0}
        /\ tr[i].kind = "join" => LastOf(tr, tr[i].loc) \in done
        /\ IsRead(tr[i]) => last[tr[i].loc] = tr[i].rf
      After(i) == IF IsWrite(tr[i]) THEN [last EXCEPT ![tr[i].loc] = i] ELSE last
  IN \/ done = DOMAIN tr
     \/ \E i \in DOMAIN tr : MayCome(i) /\ ScOrderFrom(tr, done \union {i}, After(i))

IsSc(tr) == ScOrderFrom(tr, {}, [l \in {tr[i].loc : i \in Reads(tr) \union Writes(tr)} |-> 0])
=============================================================================
