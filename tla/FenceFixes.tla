------------------------------ MODULE FenceFixes ----------------------------
(***************************************************************************)
(* The repairs that the plugin AUTOMO proposes for an execution that is    *)
(* not sequentially consistent (assignment3/model-checker/scfence):        *)
(* stronger orders for the wildcards, so that the execution is forbidden   *)
(* or becomes sequentially consistent.                                     *)
(*                                                                         *)
(* An inference is a function from the wildcards to memory orders, a list  *)
(* of inferences a sequence.  A patch is a pair of units <<action, order>>.*)
(* A case c is [tr, hb, mo, list, cur]: the trace with its happens-before  *)
(* vectors and modification order, the list of the generator, and the      *)
(* current inference.                                                      *)
(***************************************************************************)
EXTENDS ScOrder

MemoryOrders == {"relaxed", "acquire", "release", "acq_rel", "seq_cst"}

\* compareMemoryOrder(mo1, mo2) is 0 or -1.
AtMost(mo1, mo2) ==
  \/ mo1 = mo2
  \/ mo1 = "relaxed"
  \/ mo2 = "seq_cst"
  \/ mo1 \in {"acquire", "release"} /\ mo2 = "acq_rel"

Join(mo1, mo2) ==
  CASE AtMost(mo1, mo2) -> mo2
    [] AtMost(mo2, mo1) -> mo1
    [] OTHER -> "acq_rel"

\* compareTo gives 0 or -1.
NoStronger(inf1, inf2) == \A w \in DOMAIN inf1 : AtMost(inf1[w], inf2[w])

Wild(c, act) == c.tr[act].wc > 0

IsApplicable(c, patch) ==
  \A k \in DOMAIN patch : Wild(c, patch[k][1]) \/ AtMost(patch[k][2], c.tr[patch[k][1]].mo)

\* A unit that is not a wildcard ends the patch, those before it stand.
Patched(c, inf, patch) ==
  LET fixed == {k \in DOMAIN patch : ~Wild(c, patch[k][1])}
      units == IF fixed = {} THEN patch ELSE SubSeq(patch, 1, Min(fixed) - 1)
  IN FoldLeft(LAMBDA i, u : [i EXCEPT ![c.tr[u[1]].wc] = Join(@, u[2])], inf, units)

ApplyPatch(c, inferences, patches) ==
  LET From == IF inferences = <<>> THEN <<c.cur>> ELSE inferences
      Of(inf) == SelectSeq([j \in DOMAIN patches |-> Patched(c, inf, patches[j])], LAMBDA i : i # inf)
  IN FlattenSeq([k \in DOMAIN From |-> Of(From[k])])

Applicable(c, patches) == SelectSeq(patches, LAMBDA p : IsApplicable(c, p))

-----------------------------------------------------------------------------
(* Synchronization along the reads-from edges between two actions.         *)

\* The loads of a path lead from act1 to act2, each in the thread of the next
\* one's store.
RECURSIVE PathsThrough(_, _, _)
PathsThrough(tr, act1, path) ==
  LET w == tr[path[1]].rf
      loop == \E k \in DOMAIN path : tr[path[k]].tid = tr[w].tid /\ w >= path[k]
      earlier == Reverse(SelectSeq(ThreadList(tr, tr[w].tid), LAMBDA i : IsRead(tr[i]) /\ i <= w))
  IN IF loop THEN <<>>
     ELSE IF tr[w].tid = tr[act1].tid /\ w >= act1 THEN <<path>>
     ELSE FlattenSeq([k \in DOMAIN earlier |-> PathsThrough(tr, act1, <<earlier[k]>> \o path)])

GetRfSbPaths(tr, act1, act2) ==
  LET reads == Reverse(SelectSeq(ThreadList(tr, tr[act2].tid), LAMBDA i : IsRead(tr[i]) /\ i <= act2))
  IN FlattenSeq([k \in DOMAIN reads |-> PathsThrough(tr, act1, <<reads[k]>>)])

IsReleaseSequence(tr, path) == \A k \in 2..Len(path) : tr[path[k]].rf = path[k - 1]

FencesAfter(tr, read, bound) ==
  SelectSeq(ThreadList(tr, tr[read].tid),
            LAMBDA i : i > read /\ IsFence(tr[i]) /\ (tr[bound].tid = tr[read].tid /\ bound >= read => i < bound))

FencesBefore(tr, write, bound) ==
  Reverse(SelectSeq(ThreadList(tr, tr[write].tid),
            LAMBDA i : i < write /\ IsFence(tr[i]) /\ (tr[bound].tid = tr[write].tid /\ bound <= write => i > bound)))

FirstNonEmpty(lists) ==
  IF \A k \in DOMAIN lists : lists[k] = <<>> THEN <<>>
  ELSE lists[Min({k \in DOMAIN lists : lists[k] # <<>>})]

\* Two fences, else a fence and the load or the store, else these.
SyncPatches(c, read, write, acq, rel) ==
  LET Pairs == FlattenSeq([i \in DOMAIN rel |->
                 [j \in DOMAIN acq |-> <<<<rel[i], "release">>, <<acq[j], "acquire">>>>]])
      OnAcq == [j \in DOMAIN acq |-> <<<<acq[j], "acquire">>, <<write, "release">>>>]
      OnRel == [i \in DOMAIN rel |-> <<<<rel[i], "release">>, <<read, "acquire">>>>]
      OnActions == <<<<<<read, "acquire">>, <<write, "release">>>>>>
  IN FirstNonEmpty(<<Applicable(c, Pairs), Applicable(c, OnAcq \o OnRel), Applicable(c, OnActions)>>)

GetAcqRel(c, read, readBound, write, writeBound) ==
  SyncPatches(c, read, write, FencesAfter(c.tr, read, readBound), FencesBefore(c.tr, write, writeBound))

\* The remaining loads of a path, each with its store.
RECURSIVE SyncAlong(_, _, _, _, _)
SyncAlong(c, found, path, begin, end) ==
  LET read == path[1]
      patches == GetAcqRel(c, read, end, c.tr[read].rf, IF Len(path) > 1 THEN path[2] ELSE begin)
  IN IF path = <<>> \/ patches = <<>> THEN found
     ELSE SyncAlong(c, ApplyPatch(c, found, patches), Tail(path), begin, end)

ImposeSyncOn(c, path, begin, end) ==
  IF IsReleaseSequence(c.tr, path)
    THEN ApplyPatch(c, <<>>, GetAcqRel(c, path[Len(path)], end, c.tr[path[1]].rf, begin))
    ELSE SyncAlong(c, <<>>, path, begin, end)

ImposeSync(c, paths, begin, end) ==
  FlattenSeq([k \in DOMAIN paths |-> ImposeSyncOn(c, paths[k], begin, end)])

-----------------------------------------------------------------------------
(* seq_cst for two actions or for fences between them in the list.         *)

At(c, act) == CHOOSE k \in DOMAIN c.list : c.list[k] = act

FencesBetween(c, act1, act2) ==
  SelectSeq(SubSeq(c.list, At(c, act1) + 1, At(c, act2) - 1), LAMBDA i : IsFence(c.tr[i]) /\ Wild(c, i))

Sc(a, b) == <<<<a, "seq_cst">>, <<b, "seq_cst">>>>

\* Two fences, unless all of them are seq_cst already; else a fence and an
\* action, or both actions.
ScPatches(c, act1, act2, fences) ==
  LET n == Len(fences)
      Pairs == FlattenSeq([i \in 1..n |-> [k \in 1..(n - i) |-> Sc(fences[i], fences[i + k])]])
      Single == FlattenSeq([i \in 1..n |-> <<Sc(act1, fences[i]), Sc(act2, fences[i])>>])
      twoFences == n > 1 /\ \E i \in 1..n : c.cur[c.tr[fences[i]].wc] # "seq_cst"
  IN Pairs \o (IF twoFences THEN <<>> ELSE Applicable(c, Single \o <<Sc(act1, act2)>>))

ImposeSC(c, found, act1, act2) ==
  LET patches == ScPatches(c, act1, act2, FencesBetween(c, act1, act2))
  IN IF patches = <<>> THEN found ELSE ApplyPatch(c, found, patches)

-----------------------------------------------------------------------------
(* The two patterns.                                                       *)

\* Happens-before from act1 to act2 where some path allows it, else seq_cst.
OrderBy(c, found, act1, act2, paths) ==
  IF paths # <<>> THEN found \o ImposeSync(c, paths, act1, act2)
  ELSE ImposeSC(c, found, act1, act2)

\* Each of the pairs one after the other.
OrderAll(c, pairs) ==
  FoldLeft(LAMBDA found, p : OrderBy(c, found, p[1], p[2], GetRfSbPaths(c.tr, p[1], p[2])), <<>>, pairs)

\* The load reads an old value: write2 comes between its store and the load.
\* The pair of stores comes last, and only with seq_cst, when mo orders it.
PairsToOrder(c, write, write2, read) ==
  LET reachable == <<write, write2>> \in c.mo
      sync == HappensBefore(c.tr, c.hb, write2, read)
      again == /\ ~sync /\ reachable
               /\ ~HappensBefore(c.tr, c.hb, write, write2)
               /\ GetRfSbPaths(c.tr, write2, read) = <<>>
  IN (IF reachable THEN <<>> ELSE <<<<write, write2>>>>)
     \o (IF sync THEN <<>> ELSE <<<<write2, read>>>>)
     \o (IF again THEN <<<<write, write2>>>> ELSE <<>>)

FixesFor(c, write, write2, read) == OrderAll(c, PairsToOrder(c, write, write2, read))

GetFixesFromPatternA(c, read, write) ==
  LET write2s == SelectSeq(SubSeq(c.list, At(c, write) + 1, At(c, read) - 1),
                           LAMBDA i : IsWrite(c.tr[i]) /\ c.tr[i].loc = c.tr[write].loc)
  IN FlattenSeq([k \in DOMAIN write2s |-> FixesFor(c, write, write2s[k], read)])

\* The load reads a value that the list stores only later.
GetFixesFromPatternB(c, read, write) ==
  ImposeSync(c, GetRfSbPaths(c.tr, read, write), read, write)
  \o ImposeSync(c, GetRfSbPaths(c.tr, write, read), write, read)

\* The first bad read of the list is repaired.
FixesNonSC(c) ==
  LET read == c.list[Min(BadReads(c.tr, c.list))]
      write == c.tr[read].rf
  IN IF At(c, write) < At(c, read)
       THEN GetFixesFromPatternA(c, read, write)
       ELSE GetFixesFromPatternB(c, read, write)

\* The weakest of the candidates that are stronger than the current inference.
PruneCandidates(cur, cands) ==
  FoldLeft(LAMBDA kept, cand : Append(SelectSeq(kept, LAMBDA k : ~NoStronger(cand, k)), cand),
           <<>>, SelectSeq(cands, LAMBDA cand : cand # cur))
=============================================================================
