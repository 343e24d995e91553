---- MODULE ModelExecution ----
(***************************************************************************)
(* One execution of the program under test, as the model checker's         *)
(* ModelExecution builds it (execution.cc, action.cc, clockvector.cc): the *)
(* trace of atomic actions, the clock vector of each, the modification     *)
(* order graph, and the release sequences it could not settle yet.         *)
(*                                                                         *)
(* The schedule and the write each read takes its value from are chosen    *)
(* freely here; choosing them all in turn is the work of the NodeStack.    *)
(* Every read reads from the past: an execution that resolves a promised   *)
(* future value is not modelled, so the promise clauses of the code have   *)
(* no counterpart.  Neither do sleep sets, --maxreads (0 by default) and   *)
(* values: an RMW always writes, and a failed compare-exchange is a load.  *)
(***************************************************************************)
EXTENDS Integers, Sequences, FiniteSets, FiniteSetsExt, SequencesExt, CycleGraph

CONSTANT Programs,  \* programs: functions from thread ids 1..n to sequences of
                    \* operations; thread 1 is user_main
         Locs       \* the atomic objects

VARIABLES prog,     \* the program that runs
          pc,       \* the pending operation of each thread, 0 before it is created
          ex        \* the ModelExecution object

vars == <<prog, pc, ex>>

Tids == DOMAIN prog
AnyLoc == "any"
NoLoc == "none"

-----------------------------------------------------------------------------
(* Actions of the trace.  An action is named by its sequence number, its   *)
(* position in ex.trace; 0 stands for NULL.                                *)

is_read(a)    == a.kind \in {"load", "rmwr", "rmw"}
is_write(a)   == a.kind \in {"init", "store", "rmw"}
is_fence(a)   == a.kind = "fence"
is_acquire(a) == a.ord \in {"acquire", "acq_rel", "seq_cst"}
is_release(a) == a.ord \in {"release", "acq_rel", "seq_cst"}
is_seqcst(a)  == a.ord = "seq_cst"

Acts(e) == 1 .. Len(e.trace)
LastOf(S) == IF S = {} THEN 0 ELSE Max(S)

(* b's clock vector has reached a: a happens before b, or is b. *)
happens_before(e, a, b) == a <= e.trace[b].cv[e.trace[a].tid]

get_last_action(e, t) == LastOf({a \in Acts(e) : e.trace[a].tid = t})

(* The actions on object l, obj_map[l], and those of thread t among them,  *)
(* obj_thrd_map[l][t].                                                     *)
ObjectList(e, l) == {a \in Acts(e) : e.trace[a].loc = l}
ThreadList(e, l, t) == {a \in Acts(e) : e.trace[a].loc = l /\ e.trace[a].tid = t}

is_complete(e, t) == \E a \in Acts(e) : e.trace[a].tid = t /\ e.trace[a].kind = "finish"

Pending(t) == prog[t][pc[t]]
HasOp(t, kind) == pc[t] \in DOMAIN prog[t] /\ Pending(t).op = kind

(* check_action_enabled: a join waits for its thread; the scheduler has    *)
(* put such a thread to sleep.                                             *)
is_enabled(e, t) == ~(HasOp(t, "join") /\ ~is_complete(e, Pending(t).thr))

get_last_fence_release(e, a) ==
    LastOf({f \in 1 .. a - 1 : /\ e.trace[f].tid = e.trace[a].tid
                               /\ is_fence(e.trace[f]) /\ is_release(e.trace[f])})

get_last_seq_cst_write(e, a) ==
    LastOf({w \in 1 .. a - 1 : /\ e.trace[w].loc = e.trace[a].loc
                               /\ is_write(e.trace[w]) /\ is_seqcst(e.trace[w])})

ScFences(e, t) == {f \in Acts(e) : /\ e.trace[f].tid = t
                                   /\ is_fence(e.trace[f]) /\ is_seqcst(e.trace[f])}
get_last_seq_cst_fence(e, t) == LastOf(ScFences(e, t))
get_last_seq_cst_fence_before(e, t, f) == LastOf({g \in ScFences(e, t) : g < f})

(* add_action_to_lists of a new action, with the clock vector create_cv    *)
(* gives it: its parent's, and its own number for its own thread.  The     *)
(* object's vector of lists grows to the threads that exist at that time.  *)
NewAction(e, kind, t, l, ord, parent) ==
    LET n == Len(e.trace) + 1
        inherited == IF parent = 0 THEN [u \in Tids |-> 0] ELSE e.trace[parent].cv
        act == [kind |-> kind, tid |-> t, loc |-> l, ord |-> ord, rf |-> 0,
                cv |-> [inherited EXCEPT ![t] = n]]
        known == Cardinality({e.trace[a].tid : a \in Acts(e)} \cup {t})
    IN  [e EXCEPT !.trace = Append(@, act),
                  !.width = IF l \in Locs /\ t > @[l] THEN [@ EXCEPT ![l] = known] ELSE @]

NextAction(e, kind, t, l, ord) == NewAction(e, kind, t, l, ord, get_last_action(e, t))

-----------------------------------------------------------------------------
(* Modification order. *)

(* What a write, or a read of a write, says has been written by then. *)
WriteOf(e, a) == IF is_write(e.trace[a]) THEN a ELSE e.trace[a].rf

(* Edges into w from the last action of each thread among those, stops, at *)
(* which the scan of the thread's list ends.                               *)
EdgesInto(e, w, stops) ==
    LET last == {a \in stops : \A b \in stops : e.trace[b].tid = e.trace[a].tid => b <= a}
    IN  {<<WriteOf(e, a), w>> : a \in {b \in last : WriteOf(e, b) # w}}

(* r_modification_order: the edges that make the read r's choice of w      *)
(* coherent with what happens before r, and with SC fences (C++ 29.3,      *)
(* statements 4, 5 and 6).                                                 *)
ReadEdges(e, r, w) ==
    LET curr == e.trace[r]
        local == get_last_seq_cst_fence(e, curr.tid)
        Fenced(a) ==
            LET act == e.trace[a]
                other == IF act.tid = curr.tid THEN 0 ELSE get_last_seq_cst_fence(e, act.tid)
                before == IF local = 0 THEN 0
                          ELSE get_last_seq_cst_fence_before(e, act.tid, local)
            IN  \/ is_seqcst(curr) /\ a < other
                \/ is_seqcst(act) /\ a < local
                \/ a < before
        Stops(a) == /\ a # r
                    /\ \/ happens_before(e, a, r)
                       \/ a # w /\ is_write(e.trace[a]) /\ Fenced(a)
    IN  EdgesInto(e, w, {a \in ObjectList(e, curr.loc) : Stops(a)})

(* w_modification_order: the edges into the write w from the last SC write *)
(* (if w is SC), from what happens before w, and from writes separated     *)
(* from it by two SC fences (statement 7).  An RMW already has the edges   *)
(* of its own thread.                                                      *)
WriteEdges(e, w) ==
    LET curr == e.trace[w]
        local == get_last_seq_cst_fence(e, curr.tid)
        last_sc == IF is_seqcst(curr) THEN get_last_seq_cst_write(e, w) ELSE 0
        Fenced(a) == /\ local # 0 /\ e.trace[a].tid # curr.tid /\ is_write(e.trace[a])
                     /\ a < get_last_seq_cst_fence_before(e, e.trace[a].tid, local)
        Stops(a) == IF a = w THEN curr.kind = "rmw"
                    ELSE Fenced(a) \/ happens_before(e, a, w)
    IN  EdgesInto(e, w, {a \in ObjectList(e, curr.loc) : Stops(a)})
            \cup (IF last_sc = 0 THEN {} ELSE {<<last_sc, w>>})

AddMoEdges(e, E) == [e EXCEPT !.graph = addEdges(@, E)]
Adds(e, E) == newEdges(e.graph, E) # {}

-----------------------------------------------------------------------------
(* Release sequences. *)

(* release_seq_heads walks from rf down the RMW chain it ends, and stops   *)
(* early at an acq_rel RMW.                                                *)
ChainEnds(a) == a.kind # "rmw" \/ (is_acquire(a) /\ is_release(a))

RmwChain(e, rf) ==
    LET chain[w \in Acts(e)] ==
            IF ChainEnds(e.trace[w]) THEN {w} ELSE {w} \cup chain[e.trace[w].rf]
    IN  chain[rf]

(* A write that heads a sequence, or the release fence before it. *)
HeadAt(e, w) == IF is_release(e.trace[w]) THEN w ELSE get_last_fence_release(e, w)

(* The search for the release that w, a relaxed write, may continue: the   *)
(* last action of its thread on the object, w or earlier, whose order is a *)
(* release, unless a release fence comes after it.                         *)
LastRelease(e, w) ==
    LET found == LastOf({a \in ThreadList(e, e.trace[w].loc, e.trace[w].tid) :
                             a <= w /\ is_release(e.trace[a])})
    IN  IF found < get_last_fence_release(e, w) THEN 0 ELSE found

(* Writes of thread t, not RMWs, that nothing puts after rf. *)
LooseWrites(e, rf, t) ==
    {a \in ThreadList(e, e.trace[rf].loc, t) :
        /\ is_write(e.trace[a]) /\ e.trace[a].kind # "rmw"
        /\ ~happens_before(e, rf, a) /\ ~checkReachable(e.graph, rf, a)}

(* The actions of thread t that the scan looks at: those after the last    *)
(* one that is known to come before release.                               *)
LiveActions(e, release, rf, t, loose) ==
    LET list == ThreadList(e, e.trace[rf].loc, t)
        before == {b \in list : \/ happens_before(e, b, release)
                                \/ b \in loose /\ checkReachable(e.graph, b, release)}
    IN  {a \in list : a > LastOf(before)}

(* No write of thread t still to come, or after those of live, can come    *)
(* before rf.                                                              *)
FutureOrdered(e, rf, t, live) ==
    \/ get_last_action(e, t) # 0 /\ happens_before(e, rf, get_last_action(e, t))
    \/ ~is_enabled(e, t)
    \/ is_complete(e, t)
    \/ \E a \in live : \/ happens_before(e, rf, a)
                       \/ /\ is_write(e.trace[a]) /\ e.trace[a].kind # "rmw"
                          /\ checkReachable(e.graph, rf, a)

VerdictOf(e, release, rf, t, loose, live) ==
    IF \E a \in loose \cap live : /\ checkReachable(e.graph, release, a)
                                 /\ checkReachable(e.graph, a, rf) THEN "broken"
    ELSE IF loose \cap live # {} \/ ~FutureOrdered(e, rf, t, live) THEN "unsure"
    ELSE "kept"

(* What thread t says of the sequence that release heads and rf belongs    *)
(* to: "broken" by a plain write between the two, "unsure" when some write *)
(* of t may still come between, and "kept" otherwise.                      *)
Verdict(e, release, rf, t) ==
    LET loose == LooseWrites(e, rf, t)
    IN  VerdictOf(e, release, rf, t, loose, LiveActions(e, release, rf, t, loose))

(* The threads the object has lists for. *)
KnownThreads(e, w) == 1 .. e.width[e.trace[w].loc]

(* With certainty, the heads are complete; without, there may be more.     *)
Found(heads, complete) == [heads |-> heads, complete |-> complete]

Judged(heads, release, verdicts) ==
    IF "broken" \in verdicts THEN Found(heads, TRUE)
    ELSE IF "unsure" \in verdicts THEN Found(heads, FALSE)
    ELSE Found(heads \cup {release}, TRUE)

(* A relaxed write, end, may continue the sequence of an earlier release.  *)
Continued(e, heads, end, release) ==
    IF release = 0 THEN Found(heads, TRUE)
    ELSE Judged(heads, release, {Verdict(e, release, end, t) :
                                     t \in KnownThreads(e, end) \ {e.trace[end].tid}})

HeadsAlong(e, chain, end) ==
    LET heads == {HeadAt(e, w) : w \in chain} \ {0}
    IN  IF e.trace[end].kind = "rmw" \/ is_release(e.trace[end]) THEN Found(heads, TRUE)
        ELSE Continued(e, heads, end, LastRelease(e, end))

(* The heads of the release sequences that rf is certainly part of, and    *)
(* whether there may be more to find later.                                *)
release_seq_heads(e, rf) ==
    IF checkForCycles(e.graph) THEN Found({}, FALSE)
    ELSE LET chain == RmwChain(e, rf) IN HeadsAlong(e, chain, Min(chain))

(* b inherits the clock vectors of the actions of S; an action of S after  *)
(* b in the trace makes the execution infeasible instead.                  *)
synchronize(e, S, b) ==
    LET earlier == {a \in S : a < b}
        merged == [t \in Tids |-> Max({e.trace[a].cv[t] : a \in earlier \cup {b}})]
    IN  [e EXCEPT !.trace[b].cv = merged, !.bad_sync = @ \/ earlier # S]

(* get_release_seq_heads and the synchronization its callers do: sequences *)
(* not settled yet are kept to be looked at again.                         *)
Acquired(e, acquire, read, found) ==
    LET sequence == [acquire |-> acquire, read |-> read]
        kept == IF found.complete THEN <<>> ELSE <<sequence>>
    IN  synchronize([e EXCEPT !.pending_rel_seqs = @ \o kept], found.heads, acquire)

Acquire(e, acquire, read) ==
    Acquired(e, acquire, read, release_seq_heads(e, e.trace[read].rf))

(* Work queue entries: the release sequences of an object (or of all of    *)
(* them) to look at again, and an action whose edges to compute again.     *)
RelSeqWork(l) == [type |-> "relseq", loc |-> l, act |-> 0]
MoWork(a)     == [type |-> "mo", loc |-> NoLoc, act |-> a]

(* The work done so far: the execution, the queue, and flags and lists of  *)
(* the function at work.                                                   *)
Working(e, queue) == [ex |-> e, work |-> queue, updated |-> FALSE, left |-> <<>>]
Queue(st, entries) == [st EXCEPT !.work = @ \o entries]

\* Mutant: later actions do not learn what the acquire learned.
PropagateNothing(st, a) == Queue(st, <<RelSeqWork(AnyLoc), MoWork(a)>>)

(* propagate_clockvector: an acquire learned something, so every later     *)
(* action that it happens before learns it too, the last one first.        *)
Propagate(st, a) ==
    LET later == {b \in a + 1 .. Len(st.ex.trace) : happens_before(st.ex, a, b)}
        Learn(x, b) == Queue([x EXCEPT !.ex = synchronize(@, {a}, b)], <<MoWork(b)>>)
    IN  FoldLeft(Learn, Queue(st, <<RelSeqWork(AnyLoc), MoWork(a)>>),
                 Reverse(SetToSortSeq(later, <)))

(* A pending sequence looked at again.  Once one of them has synchronized  *)
(* anything, each later one propagates.                                    *)
Settled(st, p, found) ==
    LET news == {h \in found.heads : ~happens_before(st.ex, h, p.acquire)}
        synced == [st EXCEPT !.ex = synchronize(@, news, p.acquire),
                             !.updated = @ \/ \E h \in news : h < p.acquire,
                             !.left = IF found.complete THEN @ ELSE Append(@, p)]
    IN  IF synced.updated THEN Propagate(synced, p.acquire) ELSE synced

(* resolve_release_sequences: the pending sequences of the object in turn. *)
ResolveRelSeqs(st, l) ==
    LET Visit(x, p) ==
            IF l # AnyLoc /\ x.ex.trace[p.read].loc # l
            THEN [x EXCEPT !.left = Append(@, p)]
            ELSE Settled(x, p, release_seq_heads(x.ex, x.ex.trace[p.read].rf))
        Keep(x) == Working([x.ex EXCEPT !.pending_rel_seqs = x.left], x.work)
    IN  Keep(FoldLeft(Visit, st, st.ex.pending_rel_seqs))

AddEdges(st, E) ==
    [st EXCEPT !.ex = AddMoEdges(@, E), !.updated = @ \/ Adds(st.ex, E)]

RecheckRead(st, a) ==
    IF is_read(st.ex.trace[a]) THEN AddEdges(st, ReadEdges(st.ex, a, st.ex.trace[a].rf)) ELSE st

(* An SC read of a write that, as is known by now, happens before the last *)
(* SC write.                                                               *)
StaleScRead(e, a) ==
    LET act == e.trace[a]
        sc == get_last_seq_cst_write(e, a)
    IN  is_read(act) /\ is_seqcst(act) /\ sc # 0 /\ happens_before(e, act.rf, sc)

RecheckScRead(st, a) == [st EXCEPT !.ex.bad_sc_read = @ \/ StaleScRead(st.ex, a)]

RecheckWrite(st, a) ==
    IF is_write(st.ex.trace[a]) THEN AddEdges(st, WriteEdges(st.ex, a)) ELSE st

(* WORK_CHECK_MO_EDGES: the edges of an action whose clock has grown. *)
RecheckMoEdges(st, a) ==
    LET Requeue(x) == IF x.updated THEN Queue(x, <<RelSeqWork(x.ex.trace[a].loc)>>) ELSE x
        Done(x) == [x EXCEPT !.updated = FALSE]
    IN  Done(Requeue(RecheckWrite(RecheckScRead(RecheckRead(st, a), a), a)))

Process(st, entry) ==
    IF entry.type = "relseq" THEN ResolveRelSeqs(st, entry.loc) ELSE RecheckMoEdges(st, entry.act)

(* The loop of check_current_action over its work queue. *)
RECURSIVE Drain(_)
Drain(st) ==
    IF st.work = <<>> THEN st.ex
    ELSE Drain(Process([st EXCEPT !.work = Tail(@)], Head(st.work)))

DrainIf(update, e, l) == IF update THEN Drain(Working(e, <<RelSeqWork(l)>>)) ELSE e

-----------------------------------------------------------------------------
(* Reads and writes. *)

is_infeasible(e) == checkForCycles(e.graph) \/ e.no_valid_reads \/ e.bad_sync \/ e.bad_sc_read
isfeasibleprefix(e) == ~is_infeasible(e) /\ e.pending_rel_seqs = <<>>

\* Mutant: only the last write of a thread is seen.
VisibleWritesLast(e, r, t) ==
    LET writes == {w \in ThreadList(e, e.trace[r].loc, t) : w # r /\ is_write(e.trace[w])}
    IN  {w \in writes : w = LastOf(writes)}

(* The writes of thread t on the object that r may see: those back to the  *)
(* last one that happens before r.                                         *)
VisibleWrites(e, r, t) ==
    LET writes == {w \in ThreadList(e, e.trace[r].loc, t) : w # r /\ is_write(e.trace[w])}
        last == LastOf({w \in writes : happens_before(e, w, r)})
    IN  {w \in writes : w >= last}

\* Mutant: any SC write will do.
AllowedToScReadAny(e, r, w) == TRUE

\* Mutant: the last SC write itself is left out.
AllowedToScReadOther(e, r, w) ==
    LET last == get_last_seq_cst_write(e, r)
    IN  ~is_seqcst(e.trace[w]) /\ ~(last # 0 /\ happens_before(e, w, last))

(* An SC read reads from the last SC write, or from a write that is not SC *)
(* and does not happen before it.                                          *)
AllowedToScRead(e, r, w) ==
    LET last == get_last_seq_cst_write(e, r)
    IN  \/ w = last
        \/ ~is_seqcst(e.trace[w]) /\ ~(last # 0 /\ happens_before(e, w, last))

(* build_may_read_from *)
MayReadFrom(e, r) ==
    {w \in UNION {VisibleWrites(e, r, t) : t \in Tids} :
        /\ is_seqcst(e.trace[r]) => AllowedToScRead(e, r, w)
        /\ ~checkForCycles(AddMoEdges(e, ReadEdges(e, r, w)).graph)}

(* process_read and the work it leaves, for the write w *)
ReadFrom(e, r, w) ==
    LET edges == ReadEdges(e, r, w)
        e1 == [AddMoEdges(e, edges) EXCEPT !.trace[r].rf = w]
        e2 == IF is_acquire(e.trace[r]) THEN Acquire(e1, r, r) ELSE e1
    IN  DrainIf(Adds(e, edges), e2, e.trace[r].loc)

(* Every execution that the last action of e, a read, may lead to. *)
Reads(e) ==
    LET r == Len(e.trace)
        may == MayReadFrom(e, r)
    IN  IF may = {} THEN {[e EXCEPT !.no_valid_reads = TRUE]}
        ELSE {ReadFrom(e, r, w) : w \in may}

(* process_write *)
Written(e, w) ==
    LET edges == WriteEdges(e, w)
    IN  DrainIf(Adds(e, edges), AddMoEdges(e, edges), e.trace[w].loc)

(* process_rmw: the read that a RMW began with becomes the RMW, and then   *)
(* it is a write; nothing runs between the two halves.                     *)
CloseRmw(e) ==
    LET r == Len(e.trace)
    IN  Written([e EXCEPT !.trace[r].kind = "rmw",
                          !.graph = addRMWEdge(@, e.trace[r].rf, r)], r)

(* process_fence: an acquire fence looks at the relaxed reads of its       *)
(* thread, back to an earlier acquire fence.                               *)
Fenced(e) ==
    LET f == Len(e.trace)
        mine == {a \in 1 .. f - 1 : e.trace[a].tid = e.trace[f].tid}
        stop == LastOf({a \in mine : \/ e.trace[a].kind = "start"
                                     \/ is_fence(e.trace[a]) /\ is_acquire(e.trace[a])})
        reads == {a \in mine : a > stop /\ is_read(e.trace[a]) /\ ~is_acquire(e.trace[a])}
        Learn(st, a, found) == [st EXCEPT !.ex = Acquired(@, f, a, found),
                                          !.updated = @ \/ found.heads # {}]
        Visit(st, a) == Learn(st, a, release_seq_heads(st.ex, e.trace[a].rf))
        Settle(st) == DrainIf(st.updated, st.ex, AnyLoc)
    IN  IF is_acquire(e.trace[f])
        THEN Settle(FoldLeft(Visit, Working(e, <<>>), Reverse(SetToSortSeq(reads, <))))
        ELSE e

-----------------------------------------------------------------------------
(* One action per operation of the program under test: take_step. *)

NewExecution ==
    [trace |-> <<>>, graph |-> EmptyGraph, pending_rel_seqs |-> <<>>,
     width |-> [l \in Locs |-> 0],
     no_valid_reads |-> FALSE, bad_sync |-> FALSE, bad_sc_read |-> FALSE]

Init ==
    /\ prog \in Programs
    /\ pc = [t \in Tids |-> IF t = 1 THEN 1 ELSE 0]
    /\ ex = NewAction(NewExecution, "start", 1, NoLoc, "seq_cst", 0)

(* Thread t is at an operation of this kind; an infeasible execution takes *)
(* no more steps.                                                          *)
Takes(t, kind) == HasOp(t, kind) /\ is_enabled(ex, t) /\ ~is_infeasible(ex)
Step(t) == pc' = [pc EXCEPT ![t] = @ + 1] /\ UNCHANGED prog
Begin(t, kind) == NextAction(ex, kind, t, Pending(t).loc, Pending(t).ord)

AfterLoad(t) == Reads(Begin(t, "load"))
Load(t) ==
    /\ Takes(t, "load") /\ Step(t)
    /\ ex' \in AfterLoad(t)

Store(t) ==
    /\ Takes(t, "store") /\ Step(t)
    /\ ex' = LET e == Begin(t, "store") IN Written(e, Len(e.trace))

AtomicInit(t) ==
    /\ Takes(t, "init") /\ Step(t)
    /\ ex' = LET e == Begin(t, "init") IN Written(e, Len(e.trace))

AfterRmw(t) == {IF is_infeasible(e) THEN e ELSE CloseRmw(e) : e \in Reads(Begin(t, "rmwr"))}
Rmw(t) ==
    /\ Takes(t, "rmw") /\ Step(t)
    /\ ex' \in AfterRmw(t)

Fence(t) ==
    /\ Takes(t, "fence") /\ Step(t)
    /\ ex' = Fenced(Begin(t, "fence"))

(* The created thread starts at once, with its creation's clock vector. *)
Create(t) ==
    /\ Takes(t, "create")
    /\ pc' = [pc EXCEPT ![t] = @ + 1, ![Pending(t).thr] = 1]
    /\ ex' = LET e == Begin(t, "create")
             IN  NewAction(e, "start", Pending(t).thr, NoLoc, "seq_cst", Len(e.trace))
    /\ UNCHANGED prog

(* A join synchronizes with the last action of the thread it waits for. *)
Join(t) ==
    /\ Takes(t, "join") /\ Step(t)
    /\ ex' = LET e == Begin(t, "join")
                 last == get_last_action(e, Pending(t).thr)
             IN  DrainIf(TRUE, synchronize(e, {last}, Len(e.trace)), AnyLoc)

Finish(t) ==
    /\ pc[t] = Len(prog[t]) + 1 /\ ~is_infeasible(ex) /\ Step(t)
    /\ ex' = DrainIf(TRUE, NextAction(ex, "finish", t, NoLoc, "seq_cst"), AnyLoc)

ThreadStep(t) ==
    \/ Load(t) \/ Store(t) \/ AtomicInit(t) \/ Rmw(t)
    \/ Fence(t) \/ Create(t) \/ Join(t) \/ Finish(t)

Next == \E t \in Tids : ThreadStep(t)

Spec == Init /\ [][Next]_vars

AllFinished == \A t \in Tids : pc[t] = Len(prog[t]) + 2
====
