---- MODULE MemoryModel ----
(***************************************************************************)
(* What C++11 says of an execution, stated on the relations sequenced      *)
(* before, reads from, synchronizes with, happens before and modification  *)
(* order, and never on the lists, clock vectors and scans by which the     *)
(* model checker computes them; and what the model checker's execution is  *)
(* required to have to do with it.  The total order S of the SC actions is *)
(* the order of the trace.                                                 *)
(***************************************************************************)
EXTENDS ModelExecution

Closure(E, N) ==
    LET Through(k, F) == F \cup ({d[1] : d \in {c \in F : c[2] = k}} \X
                                 {d[2] : d \in {c \in F : c[1] = k}})
    IN  FoldSet(Through, E, N)

Writes(e) == {a \in Acts(e) : is_write(e.trace[a])}
ReadsOf(e) == {a \in Acts(e) : is_read(e.trace[a]) /\ e.trace[a].rf # 0}
SameLoc(e, a, b) == e.trace[a].loc = e.trace[b].loc
SameThread(e, a, b) == e.trace[a].tid = e.trace[b].tid

(* Sequenced before, and creation before the first action of the child and *)
(* the last action of a thread before a join with it.                      *)
Operation(e, a) ==
    prog[e.trace[a].tid][Cardinality({b \in 1 .. a - 1 : SameThread(e, a, b)})]
ProgramOrder(e, a, b) ==
    \/ SameThread(e, a, b)
    \/ e.trace[a].kind = "create" /\ b = a + 1
    \/ /\ e.trace[a].kind = "finish" /\ e.trace[b].kind = "join"
       /\ Operation(e, b).thr = e.trace[a].tid

(* Happens before, given as the set of actions before each action: the     *)
(* program order and the pairs of sw, all of which go forward in the       *)
(* trace, and what follows from them by transitivity.                      *)
HbFrom(e, sw) ==
    LET Extend(hb, b) ==
            LET direct == {a \in 1 .. b - 1 : ProgramOrder(e, a, b) \/ <<a, b>> \in sw}
            IN  Append(hb, direct \cup UNION {hb[a] : a \in direct})
    IN  FoldLeft(Extend, <<>>, [b \in Acts(e) |-> b])

(* The pairs of writes that coherence with the happens before order hb,    *)
(* and the SC operations and fences, put in modification order.            *)
Forced(e, hb) ==
    LET rd == ReadsOf(e)
        Rf(r) == e.trace[r].rf
        Sc(a) == is_seqcst(e.trace[a])
        ScFence(f) == is_fence(e.trace[f]) /\ Sc(f)
        After(a) == {f \in a + 1 .. Len(e.trace) : ScFence(f) /\ SameThread(e, a, f)}
        Before(a) == {f \in 1 .. a - 1 : ScFence(f) /\ SameThread(e, a, f)}
        (* a write is seen by what a read, or a later write, must be after *)
        Seen(a, b) ==
            \/ a \in hb[b]
            \/ Sc(a) /\ \E y \in Before(b) : a < y
            \/ \E x \in After(a), y \in Before(b) : x < y
        coww == {p \in Writes(e) \X Writes(e) :
                    \/ p[1] \in hb[p[2]]
                    \/ Sc(p[1]) /\ Sc(p[2]) /\ p[1] < p[2]
                    \/ \E x \in After(p[1]), y \in Before(p[2]) : x < y}
        cowr == {<<p[1], Rf(p[2])>> : p \in
                    {q \in Writes(e) \X rd :
                        /\ SameLoc(e, q[1], q[2]) /\ q[1] # q[2]
                        /\ \/ Seen(q[1], q[2])
                           \/ Sc(q[2]) /\ \E x \in After(q[1]) : x < q[2]}}
        corw == {<<Rf(p[1]), p[2]>> : p \in
                    {q \in rd \X Writes(e) : q[1] \in hb[q[2]] \/ q[1] = q[2]}}
        corr == {<<Rf(p[1]), Rf(p[2])>> : p \in {q \in rd \X rd : q[1] \in hb[q[2]]}}
    IN  {p \in coww \cup cowr \cup corw \cup corr : p[1] # p[2] /\ SameLoc(e, p[1], p[2])}

(* With what follows from a RMW coming right after the write it reads.     *)
Atomically(e, E) ==
    LET rmws == {r \in ReadsOf(e) : e.trace[r].kind = "rmw"}
        Rf(r) == e.trace[r].rf
        around == UNION {{<<r, d[2]>> : d \in {c \in E : c[1] = Rf(r) /\ c[2] # r}} \cup
                         {<<d[1], Rf(r)>> : d \in {c \in E : c[2] = r /\ c[1] # Rf(r)}} :
                            r \in rmws}
    IN  Closure(E \cup around, Writes(e))
RECURSIVE ModificationOrder(_, _)
ModificationOrder(e, E) ==
    LET more == Atomically(e, E)
    IN  IF more = E THEN E ELSE ModificationOrder(e, more)
MoOf(e, hb) == ModificationOrder(e, Closure(Forced(e, hb), Writes(e)))

TwoRmwsReadOneWrite(e) ==
    \E r, s \in ReadsOf(e) : /\ r # s /\ e.trace[r].rf = e.trace[s].rf
                             /\ e.trace[r].kind = "rmw" /\ e.trace[s].kind = "rmw"

(* The write z belongs to the release sequence that the write a heads,     *)
(* whatever total order extends mo.                                        *)
InReleaseSequence(e, mo, a, z) ==
    \/ a = z
    \/ /\ <<a, z>> \in mo
       /\ \A x \in Writes(e) \ {a} :
             SameLoc(e, x, a) /\ ~SameThread(e, x, a) /\ e.trace[x].kind # "rmw"
                => <<x, a>> \in mo \/ (x # z /\ <<z, x>> \in mo)

(* Release writes and fences on one side, acquire reads and fences on the  *)
(* other (C++11 29.3 and 29.8), for the given pairs of a write that heads  *)
(* a release sequence and a read of that sequence.                         *)
Synchronizing(e, pairs) ==
    LET Releases(a) == {x \in 1 .. a : /\ SameThread(e, x, a) /\ is_release(e.trace[x])
                                       /\ x = a \/ is_fence(e.trace[x])}
        Acquires(r) == {y \in r .. Len(e.trace) : /\ SameThread(e, r, y) /\ is_acquire(e.trace[y])
                                                  /\ y = r \/ is_fence(e.trace[y])}
    IN  UNION {Releases(p[1]) \X Acquires(p[2]) : p \in pairs}
SynchronizesWith(e, mo) ==
    Synchronizing(e, {q \in Writes(e) \X ReadsOf(e) :
                         SameLoc(e, q[1], q[2]) /\ InReleaseSequence(e, mo, q[1], e.trace[q[2]].rf)})

(* Happens before and modification order determine one another: the least  *)
(* happens before that the execution certainly has.                        *)
RECURSIVE GrowHb(_, _)
GrowHb(e, hb) ==
    LET more == HbFrom(e, SynchronizesWith(e, MoOf(e, hb)))
    IN  IF more = hb THEN hb ELSE GrowHb(e, more)
HappensBefore(e) == GrowHb(e, HbFrom(e, {}))

(* What the clock vectors say. *)
ClockOrder(e) ==
    FoldLeft(LAMBDA hb, b : Append(hb, {a \in 1 .. b - 1 : happens_before(e, a, b)}),
             <<>>, [b \in Acts(e) |-> b])

Irreflexive(E) == \A d \in E : d[1] # d[2]

(* An SC read sees the SC write before it in S, or a write that is not SC  *)
(* and that does not happen before that one (29.3, statement 3).           *)
ReadsScConsistently(e, hb, r) ==
    LET rf == e.trace[r].rf
        last == LastOf({w \in Writes(e) : SameLoc(e, w, r) /\ is_seqcst(e.trace[w]) /\ w < r})
    IN  is_seqcst(e.trace[r]) =>
            rf = last \/ (~is_seqcst(e.trace[rf]) /\ (last # 0 => rf \notin hb[last]))

-----------------------------------------------------------------------------
Complete == AllFinished /\ isfeasibleprefix(ex)

(* When a feasible execution ends, the clock vectors say exactly what      *)
(* happens before what: no synchronization was missed, none invented, and  *)
(* what an acquire learned late has reached every action after it.         *)
ClocksAreHappensBefore == Complete => ClockOrder(ex) = HappensBefore(ex)

(* When a feasible execution ends, its modification order graph is what    *)
(* coherence, atomicity of RMWs and the SC rules ask for: some total order *)
(* of the writes satisfies them all, no edge was forgotten, and none is    *)
(* stronger than they are.                                                 *)
GraphIsModificationOrder ==
    Complete =>
        LET forced == Forced(ex, ClockOrder(ex))
            mo == ModificationOrder(ex, Closure(forced, Writes(ex)))
            edges == Closure(ex.graph.edges, Writes(ex))
        IN  Irreflexive(mo) /\ edges \subseteq mo /\ forced \subseteq edges

(* The model checker gives an execution up for a cycle only when no        *)
(* modification order would do, or two RMWs read the same write: no        *)
(* behaviour C++11 allows is thrown away.                                  *)
CyclesAreReal ==
    ex.graph.cyc => TwoRmwsReadOneWrite(ex) \/ ~Irreflexive(MoOf(ex, ClockOrder(ex)))

(* What the SC read r reads happens before an earlier SC write, only by a  *)
(* release sequence of several writes and unknown to r: the sequence may   *)
(* have been settled after r was made.                                     *)
PassedOverUnaware(e, hb, r) ==
    LET atOnce == HbFrom(e, Synchronizing(e, {<<e.trace[s].rf, s>> : s \in ReadsOf(e)}))
    IN  \E w \in Writes(e) \ hb[r] : /\ w < r /\ SameLoc(e, w, r) /\ is_seqcst(e.trace[w])
                                     /\ e.trace[r].rf \in hb[w] \ atOnce[w]

(* In a feasible execution the SC reads respect the order of the trace,    *)
(* whatever was learned about happens before since they were made.  The    *)
(* exception is real: a read is looked at again when its own clock grows,  *)
(* not when that of an SC write does (execution.cc:1319).                  *)
ScReadsAreConsistent ==
    isfeasibleprefix(ex) =>
        \A r \in ReadsOf(ex) :
            LET hb == ClockOrder(ex)
            IN  ReadsScConsistently(ex, hb, r) \/ PassedOverUnaware(ex, hb, r)

ReadsNext(t) == Takes(t, "load") \/ Takes(t, "rmw")

(* A write that build_may_read_from leaves out could not be read: reading  *)
(* it leaves no modification order, or breaks the rule of the SC reads.    *)
PrunedReadsAreDoomed ==
    isfeasibleprefix(ex) =>
        \A t \in {u \in Tids : ReadsNext(u)} :
            LET e == Begin(t, "load")
                r == Len(e.trace)
                pruned == {w \in Writes(e) : SameLoc(e, w, r)} \ MayReadFrom(e, r)
                Reading(w) == [e EXCEPT !.trace[r].rf = w]
            IN  \A w \in pruned :
                    LET hb == ClockOrder(Reading(w))
                    IN  \/ ~Irreflexive(MoOf(Reading(w), hb))
                        \/ ~ReadsScConsistently(Reading(w), hb, r)

(* A feasible prefix is one: whichever thread reads next has a write to    *)
(* read that leaves the execution feasible ("we may find no valid          *)
(* may-read-from only if the execution is doomed").                        *)
FeasiblePrefixGoesOn ==
    isfeasibleprefix(ex) =>
        \A t \in Tids :
            /\ Takes(t, "load") => \E e \in AfterLoad(t) : ~is_infeasible(e)
            /\ Takes(t, "rmw") => \E e \in AfterRmw(t) : ~is_infeasible(e)
====
