------------------------------- MODULE ScOrder ------------------------------
(***************************************************************************)
(* Is an execution sequentially consistent?  The generator of              *)
(* scfence/scgen.cc (plugin AUTOMO) and the older copy in scanalysis.cc    *)
(* (plugin SC): clock vectors are closed under the edges a sequential      *)
(* order must have, a cycle is refused and remembered, and a list of all   *)
(* actions is drawn up from the vectors.                                   *)
(*                                                                         *)
(* A job g is [tr, hb, ord, plugin, slow]: the trace, the vectors and the  *)
(* orders of the engine, who asks, and whether this is the second attempt  *)
(* (fastVersion is off), which adds the edges that are not happens-before  *)
(* one at a time.  The state s is [cv, cyclic, allow, status, changed,     *)
(* future, stopped]: the vectors (<<>> where there is none yet), the       *)
(* members cyclic and allowNonSC, what the last merge returned, and the    *)
(* local variables of computeCV and of the loop over the stores.           *)
(***************************************************************************)
EXTENDS ScTraces

Ahead(g, s, a, b) == s.cv[b] # <<>> /\ s.cv[b][g.tr[a].tid] >= a

\* a is before b already in the execution, or both are seq_cst.
Kept(g, a, b) ==
  \/ HappensBefore(g.tr, g.hb, a, b)
  \/ g.ord[a] = "seq_cst" /\ g.ord[b] = "seq_cst" /\ a < b

\* The edge from a to b.
Merge(g, s, b, a) ==
  IF s.cv[a] = <<>> THEN [s EXCEPT !.status = TRUE]
  ELSE IF Ahead(g, s, b, a) THEN [s EXCEPT !.cyclic = TRUE, !.status = FALSE]
  ELSE IF g.slow /\ ~s.allow /\ ~Kept(g, a, b) THEN [s EXCEPT !.status = FALSE]
  ELSE LET moved == MergeCv(s.cv[b], s.cv[a]) # s.cv[b]
       IN [s EXCEPT !.cv[b] = MergeCv(@, s.cv[a]), !.status = moved, !.allow = @ /\ ~(g.slow /\ moved)]

Noted(g, s, backwards) ==
  [s EXCEPT !.changed = @ \/ s.status, !.future = @ \/ (g.slow /\ s.status /\ backwards)]

\* A load r of w and another store w2 of the location.
StoreAfter(g, s, r, w, w2) ==
  IF Ahead(g, s, w, w2) /\ (r < w2 \/ ~s.future)
    THEN Noted(g, Merge(g, s, w2, r), w2 < r)
    ELSE s

StoreBefore(g, s, r, w, w2) ==
  IF ~Ahead(g, s, w2, r) THEN s
  ELSE LET t == [s EXCEPT !.stopped = g.tr[w2].tid]
       IN IF w < w2 /\ s.future THEN t
          ELSE IF s.cv[w] = <<>> THEN Noted(g, [t EXCEPT !.status = TRUE], w < w2)
          ELSE Noted(g, Merge(g, t, w, w2), w < w2)

MeetStore(g, s, r, w2) ==
  IF s.cv[w2] = <<>> \/ s.stopped = g.tr[w2].tid THEN s
  ELSE StoreBefore(g, StoreAfter(g, s, r, g.tr[r].rf, w2), r, g.tr[r].rf, w2)

\* Mutant: the threads of the load and of its store are left out.
RivalsElsewhere(g, r) ==
  LET stores == WritesTo(g.tr, g.tr[r].loc)
      others == {i \in stores : g.tr[i].tid \notin {g.tr[r].tid, g.tr[g.tr[r].rf].tid}}
  IN Reverse(SetToSortSeq(others, <))

\* The stores processRead looks at: thread by thread, the latest first.
Rivals(g, r) ==
  LET tr == g.tr
      w == tr[r].rf
      Looked(t) == g.plugin = "SC" => t \notin {tr[r].tid, tr[w].tid}
      Mine(t) == SelectSeq(ThreadList(tr, t),
                           LAMBDA i : i \in WritesTo(tr, tr[r].loc) \ {r, w})
  IN FlattenSeq([t \in 1..Max(TidsOf(tr)) |-> IF Looked(t) THEN Reverse(Mine(t)) ELSE <<>>])

\* processReadFast, processReadSlow and processRead.
ProcessRead(g, s, r) ==
  LET w == g.tr[r].rf
      read == Merge(g, s, r, w)
      late == read.status /\ r < w
      start == IF r < w /\ s.future THEN [s EXCEPT !.stopped = 0]
               ELSE [read EXCEPT !.changed = @ \/ late, !.future = g.slow /\ late, !.stopped = 0]
  IN FoldLeft(LAMBDA t, w2 : MeetStore(g, t, r, w2), start, Rivals(g, r))

-----------------------------------------------------------------------------
(* computeCV: passes over the trace until nothing changes.  Every thread   *)
(* begins with its start, so what last_act may keep from an earlier pass   *)
(* is never used.                                                          *)

FirstVector(g, i) ==
  IF g.plugin = "SC" THEN [t \in TidsOf(g.tr) |-> IF t = g.tr[i].tid THEN i ELSE 0] ELSE g.hb[i]

Visit(g, s, i) ==
  LET before == Predecessor(g.tr, i)
      made == IF s.cv[i] = <<>> THEN [s EXCEPT !.cv[i] = FirstVector(g, i)] ELSE s
      linked == IF before = 0 THEN made ELSE Merge(g, made, i, before)
  IN CASE g.tr[i].kind = "join" -> LET m == Merge(g, linked, i, LastOf(g.tr, g.tr[i].loc))
                                   IN [m EXCEPT !.changed = @ \/ m.status]
       [] IsRead(g.tr[i]) -> ProcessRead(g, linked, i)
       [] OTHER -> linked

Pass(g, s, first) ==
  FoldLeft(LAMBDA u, i : Visit(g, u, i), [s EXCEPT !.changed = first, !.future = FALSE],
           [i \in DOMAIN g.tr |-> i])

RECURSIVE Repeated(_, _)
Repeated(g, s) ==
  IF s.changed THEN Repeated(g, Pass(g, s, FALSE))
  ELSE IF g.slow /\ ~s.allow THEN Repeated(g, Pass(g, [s EXCEPT !.allow = TRUE], FALSE))
  ELSE s

ComputeCV(g, s) == Repeated(g, Pass(g, s, TRUE))

-----------------------------------------------------------------------------
(* generateSC: the list.  rest has what is left of every thread.           *)

HeadsOf(rest) == {rest[t][1] : t \in {u \in DOMAIN rest : rest[u] # <<>>}}

Free(g, heads, IsAhead(_, _)) ==
  {b \in heads : \A a \in heads \ {b} : ~IsAhead(a, b)}

FreeByVectors(g, s, heads) == Free(g, heads, LAMBDA a, b : Ahead(g, s, a, b))

GetNextActions(g, s, heads) ==
  IF FreeByVectors(g, s, heads) # {} THEN FreeByVectors(g, s, heads)
  ELSE Free(g, heads, LAMBDA a, b : HappensBefore(g.tr, g.hb, a, b))

\* ASSERT(count == 0 || cyclic) fails.
Unexpected(g, s, heads) ==
  ~s.cyclic /\ FreeByVectors(g, s, heads) = {} /\ GetNextActions(g, s, heads) # {}

\* The first store to the location of act in each other thread that is not
\* known to come after act.
StoresToOrder(g, s, rest, act) ==
  LET Stores(t) == SelectSeq(rest[t], LAMBDA i : IsWrite(g.tr[i]))
      Same(t) == {k \in DOMAIN Stores(t) : g.tr[Stores(t)[k]].loc = g.tr[act].loc}
      Open(t) == {k \in Same(t) : \A j \in 1..k : ~Ahead(g, s, act, Stores(t)[j])}
      others == SelectSeq([t \in DOMAIN rest |-> t],
                          LAMBDA t : t # g.tr[act].tid /\ Open(t) # {} /\ Min(Same(t)) \in Open(t))
  IN IF ~IsRead(g.tr[act]) /\ ~IsWrite(g.tr[act]) THEN <<>>
     ELSE [k \in DOMAIN others |-> Stores(others[k])[Min(Same(others[k]))]]

\* 0 when the choice is open.
PruneArray(g, s, rest, array) ==
  LET quiet == {a \in array : ~IsWrite(g.tr[a])}
      alone == {a \in array : StoresToOrder(g, s, rest, a) = <<>>}
  IN CASE Cardinality(array) = 1 -> CHOOSE a \in array : TRUE
       [] Cardinality(array) # 1 /\ quiet # {} -> Min(quiet)
       [] Cardinality(array) # 1 /\ quiet = {} /\ alone # {} -> Min(alone)
       [] OTHER -> 0

ByThread(g, array) ==
  SetToSortSeq(array, LAMBDA a, b : g.tr[a].tid < g.tr[b].tid)

NoVectors(g, s) == [s EXCEPT !.cv = [i \in DOMAIN g.tr |-> <<>>], !.cyclic = FALSE]
AllThreads(g) == [t \in 1..Max(TidsOf(g.tr)) |-> ThreadList(g.tr, t)]
NoChoice == [taken |-> <<>>, end |-> 0, at |-> 0, last |-> 0]

\* choices, endchoice, currchoice and lastchoice, after a choice among n.
Chosen(ch, n) ==
  LET at == ch.at + 1
      replayed == ch.at < ch.end
      k == IF replayed THEN ch.taken[at] ELSE 1
  IN [ch EXCEPT !.at = at,
                !.taken = IF replayed THEN @ ELSE Append(SubSeq(@, 1, ch.at), 1),
                !.last = IF k < n THEN at ELSE @]

NextChoice(ch) ==
  [taken |-> [SubSeq(ch.taken, 1, ch.last) EXCEPT ![ch.last] = @ + 1],
   end |-> ch.last, at |-> 0, last |-> 0]

\* What is drawn up so far: d == [s, rest, list, ch].
Begin(g, s, ch) ==
  [s |-> ComputeCV(g, NoVectors(g, s)), rest |-> AllThreads(g), list |-> <<>>, ch |-> ch]

Take(g, d, act) ==
  [d EXCEPT !.rest[g.tr[act].tid] = Tail(@), !.list = Append(@, act)]

\* updateConstraints: act is before the stores it may still order.
UpdateConstraints(g, d, act) ==
  LET stores == StoresToOrder(g, d.s, d.rest, act)
  IN IF stores = <<>> THEN d
     ELSE [d EXCEPT !.s = ComputeCV(g, FoldLeft(LAMBDA t, w : Merge(g, t, w, act), @, stores))]

RollBackIfCyclic(g, d, wasCyclic) ==
  IF ~wasCyclic /\ d.s.cyclic /\ d.ch.last # 0 THEN Begin(g, d.s, NextChoice(d.ch)) ELSE d

Choose(g, d, array, only) ==
  IF only # 0 THEN [d |-> d, act |-> only]
  ELSE LET ch == Chosen(d.ch, Cardinality(array))
       IN [d |-> [d EXCEPT !.ch = ch], act |-> ByThread(g, array)[ch.taken[ch.at]]]

Place(g, choice) ==
  RollBackIfCyclic(g, UpdateConstraints(g, Take(g, choice.d, choice.act), choice.act), choice.d.s.cyclic)

RECURSIVE DrawUp(_, _, _)
DrawUp(g, d, array) ==
  IF array = {} \/ Unexpected(g, d.s, HeadsOf(d.rest))
    THEN [list |-> d.list, cyclic |-> d.s.cyclic, failed |-> array # {}]
    ELSE LET next == Place(g, Choose(g, d, array, PruneArray(g, d.s, d.rest, array)))
         IN DrawUp(g, next, GetNextActions(g, next.s, HeadsOf(next.rest)))

GenerateSC(g, allow) ==
  LET s == [cv |-> <<>>, cyclic |-> FALSE, allow |-> allow, status |-> FALSE,
            changed |-> FALSE, future |-> FALSE, stopped |-> 0]
      d == Begin(g, s, NoChoice)
  IN DrawUp(g, d, GetNextActions(g, d.s, HeadsOf(d.rest)))

-----------------------------------------------------------------------------
(* check_rf: the loads that do not read the last store of the list.        *)

LastWrite(tr, list, k) ==
  LET before == {j \in 1..(k - 1) : IsWrite(tr[list[j]]) /\ tr[list[j]].loc = tr[list[k]].loc}
  IN IF before = {} THEN 0 ELSE list[Max(before)]

BadReads(tr, list) ==
  {k \in DOMAIN list : IsRead(tr[list[k]]) /\ LastWrite(tr, list, k) # tr[list[k]].rf}

Retried(g, fast, allow) ==
  IF fast.cyclic THEN GenerateSC([g EXCEPT !.slow = TRUE], allow) ELSE fast

\* getSCList of AUTOMO: allowNonSC is not initialized by the constructor.
GetSCList(tr, hb, ord, allow) ==
  LET g == [tr |-> tr, hb |-> hb, ord |-> ord, plugin |-> "AUTOMO", slow |-> FALSE]
  IN Retried(g, GenerateSC(g, allow), allow)

\* generateSC of the plugin SC.
AnalyzeSC(tr, hb, ord) ==
  GenerateSC([tr |-> tr, hb |-> hb, ord |-> ord, plugin |-> "SC", slow |-> FALSE], FALSE)
=============================================================================
