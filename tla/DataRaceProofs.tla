--------------------------- MODULE DataRaceProofs ---------------------------
(***************************************************************************)
(* Proofs about the data race detector of the model checker: for any       *)
(* number of threads, any memory, any sizes of the records and any run, it *)
(* reports accesses that race and no others, and a record outgrows its     *)
(* arrays only after an access with an id or a clock too large for a short *)
(* record.                                                                 *)
(***************************************************************************)
EXTENDS DataRace, RingArithmetic, SequenceTheorems

-----------------------------------------------------------------------------
(***************************************************************************)
(* Clock vectors.                                                          *)
(***************************************************************************)
Actions == [tid : Threads, cv : [Threads -> Nat]]

\* Action j has heard of action i.
Knows(tr, j, i) == i <= tr[j].cv[tr[i].tid]

\* Each entry of a vector is an action of its thread, no later than the action
\* whose vector it is; and whoever knows an action knows what that one knows.
ClocksOK(tr) ==
  /\ tr \in Seq(Actions)
  /\ \A t \in Threads : \E i \in DOMAIN tr : tr[i].tid = t
  /\ \A i \in DOMAIN tr : tr[i].cv[tr[i].tid] = i
  /\ \A j \in DOMAIN tr, t \in Threads :
       tr[j].cv[t] # 0 => tr[j].cv[t] \in 1..j /\ tr[tr[j].cv[t]].tid = t
  /\ \A i, j \in DOMAIN tr :
       Knows(tr, j, i) => \A t \in Threads : tr[i].cv[t] <= tr[j].cv[t]

\* What is certain to happen before what: program order and synchronisation.
Edge(tr, sy, i, j) == (i < j /\ tr[i].tid = tr[j].tid) \/ <<i, j>> \in sy

Reaches(tr, sy, i, j) ==
  \A S \in SUBSET DOMAIN tr :
    i \in S /\ (\A k \in S, m \in DOMAIN tr : Edge(tr, sy, k, m) => m \in S) => j \in S

SyncedOK(tr, sy) ==
  \A i, j \in Int : <<i, j>> \in sy =>
    i \in DOMAIN tr /\ j \in DOMAIN tr /\ i < j /\ Knows(tr, j, i)

\* No vector claims more than program order and synchronisation give.
Justified(tr, sy) ==
  \A j \in DOMAIN tr, t \in Threads :
    tr[j].cv[t] # 0 => Reaches(tr, sy, tr[j].cv[t], j)

PendingOK(tr, pend) ==
  \A p \in pend : p.rel \in DOMAIN tr /\ p.acq \in DOMAIN tr /\ p.rel < p.acq

LEMMA MaxOfTwo ==
  ASSUME NEW m \in Nat, NEW n \in Nat
  PROVE  Max({m, n}) = IF m >= n THEN m ELSE n
<1> DEFINE top == IF m >= n THEN m ELSE n
<1>1. top \in {m, n} /\ \A y \in {m, n} : top >= y
  OBVIOUS
<1>2. \A x \in {m, n} : (\A y \in {m, n} : x >= y) => x = top
  OBVIOUS
<1> HIDE DEF top
<1>3. Max({m, n}) \in {m, n} /\ \A y \in {m, n} : Max({m, n}) >= y
  BY <1>1 DEF Max
<1>4. Max({m, n}) = top
  BY <1>2, <1>3
<1> QED BY <1>4 DEF top

LEMMA MergeIs ==
  ASSUME NEW cv1 \in [Threads -> Nat], NEW cv2 \in [Threads -> Nat]
  PROVE  /\ Merge(cv1, cv2) \in [Threads -> Nat]
         /\ \A t \in Threads :
              Merge(cv1, cv2)[t] = IF cv1[t] >= cv2[t] THEN cv1[t] ELSE cv2[t]
<1>1. \A t \in Threads : Max({cv1[t], cv2[t]}) = IF cv1[t] >= cv2[t] THEN cv1[t] ELSE cv2[t]
  BY MaxOfTwo
<1>2. \A t \in Threads : Merge(cv1, cv2)[t] = Max({cv1[t], cv2[t]})
  BY DEF Merge
<1>3. Merge(cv1, cv2) = [t \in Threads |-> Max({cv1[t], cv2[t]})]
  BY DEF Merge
<1> QED BY <1>1, <1>2, <1>3

\* The largest of a set of positions.
LEMMA LargestIs ==
  ASSUME NEW n \in Nat, NEW S \in SUBSET (1..n), S # {}
  PROVE  Max(S) \in S /\ \A i \in S : i <= Max(S)
<1> DEFINE B == {b \in Nat : \A i \in S : i <= b}
<1>1. n \in B /\ B \in SUBSET Nat
  OBVIOUS
<1>2. PICK m \in B : \A b \in B : m <= b
  <2> HIDE DEF B
  <2> QED BY <1>1, LeastNat
<1>3. m \in S
  <2> SUFFICES ASSUME m \notin S PROVE FALSE
    OBVIOUS
  <2>1. \A i \in S : i <= m /\ i # m /\ i \in Nat /\ i >= 1
    BY <1>2
  <2>2. PICK k \in S : TRUE
    OBVIOUS
  <2>3. m >= 1 /\ m \in Nat
    BY <1>2, <2>1, <2>2
  <2>4. m - 1 \in Nat /\ \A i \in S : i <= m - 1
    BY <2>1, <2>3
  <2>5. m - 1 \in B
    BY <2>4
  <2> QED BY <1>2, <2>3, <2>5
<1>4. \A i \in S : m >= i
  BY <1>2
<1>5. Max(S) \in S /\ \A i \in S : Max(S) >= i
  BY <1>3, <1>4 DEF Max
<1> QED BY <1>5

\* The last action of a thread.
LEMMA ParentIs ==
  ASSUME ClocksOK(trace), NEW t \in Threads
  PROVE  /\ get_parent_action(t) \in DOMAIN trace
         /\ trace[get_parent_action(t)].tid = t
         /\ \A i \in DOMAIN trace : trace[i].tid = t => i <= get_parent_action(t)
<1> DEFINE S == {i \in DOMAIN trace : trace[i].tid = t}
<1>1. Len(trace) \in Nat /\ DOMAIN trace = 1..Len(trace)
  BY DEF ClocksOK
<1>2. S \in SUBSET (1..Len(trace)) /\ S # {}
  BY <1>1 DEF ClocksOK
<1>3. get_parent_action(t) = Max(S)
  BY DEF get_parent_action
<1>4. Max(S) \in S /\ \A i \in S : i <= Max(S)
  <2> HIDE DEF S
  <2> QED BY <1>1, <1>2, LargestIs
<1> QED BY <1>3, <1>4

-----------------------------------------------------------------------------
(***************************************************************************)
(* What the records, the races and the accesses have to do with each       *)
(* other.  A is the set of accesses made, un the unrealized races.         *)
(***************************************************************************)
AccessesOK(tr, A) ==
  \A a \in A : /\ a = [tid |-> a.tid, at |-> a.at, write |-> a.write, byte |-> a.byte]
               /\ a.at \in DOMAIN tr /\ tr[a.at].tid = a.tid
               /\ a.tid \in Threads /\ a.write \in BOOLEAN /\ a.byte \in Bytes

\* Access x comes before access y, by program order or by the vectors.
Ordered(tr, x, y) ==
  IF x.tid = y.tid THEN x.at <= y.at ELSE tr[y.at].cv[x.tid] > x.at

\* A race kept aside stands between them.
Kept(un, x, y) ==
  \E race \in un : race.old.tid = x.tid /\ race.old.clock = x.at /\ race.newaction = y.at

\* An order R of the accesses the execution may still turn out to have: it
\* extends the present one, and every race kept aside is no race in it.
MayBecome(R, tr, un, A) ==
  /\ \A x, y \in A : (Ordered(tr, x, y) \/ Kept(un, x, y)) => <<x, y>> \in R
  /\ \A x, y, z \in A : (<<x, y>> \in R /\ <<y, z>> \in R) => <<x, z>> \in R

\* The access a record's entry stands for.
AccessBy(t, at, write, b) == [tid |-> t, at |-> at, write |-> write, byte |-> b]
AccessOf(e, b) == AccessBy(e.tid, e.clock, e.write, b)

Entries == [tid : Nat, clock : Nat, write : BOOLEAN]

RecordOK(A, b, r) ==
  /\ r.full \in BOOLEAN /\ r.capacity \in Nat
  /\ r.reads \in Seq(Entries) /\ r.write \in Entries
  /\ r = [full |-> r.full, reads |-> r.reads, write |-> r.write, capacity |-> r.capacity]
  /\ ~r.full => Len(r.reads) <= 1
  /\ \A k \in 1..Len(r.reads) : ~r.reads[k].write /\ AccessOf(r.reads[k], b) \in A
  /\ r.write.write
  /\ r.write.clock # 0 => AccessOf(r.write, b) \in A

Large(A) == \E a \in A : a.tid > MaxThreadId \/ a.at > MaxClock

CapacityOK(A, r) ==
  \/ Large(A)
  \/ Len(r.reads) <= r.capacity /\ r.capacity >= 1

\* In such an order every access comes before one the record still holds, and
\* two accesses that conflict are ordered.
Covered(R, A, b, r) ==
  /\ \A a \in A : (a.byte = b /\ a.write) =>
       r.write.clock # 0 /\ <<a, AccessOf(r.write, b)>> \in R
  /\ \A a \in A : a.byte = b /\ ~a.write =>
       \/ r.write.clock # 0 /\ <<a, AccessOf(r.write, b)>> \in R
       \/ \E k \in 1..Len(r.reads) : <<a, AccessOf(r.reads[k], b)>> \in R
  /\ \A a, c \in A : (a.byte = b /\ c.byte = b /\ (a.write \/ c.write)) =>
       <<a, c>> \in R \/ <<c, a>> \in R

\* A race is one of two accesses made, the second of which came later.
RaceOK(tr, race, A) ==
  \E a, b \in A :
    /\ a.tid = race.old.tid /\ a.at = race.old.clock /\ a.write = race.old.write
    /\ b.at = race.newaction /\ b.write = race.write
    /\ a.byte = race.byte /\ b.byte = race.byte
    /\ a.write \/ b.write
    /\ a.tid # b.tid
    /\ \A i \in DOMAIN tr : (tr[i].tid = b.tid /\ i > b.at) => i > a.at

RacesOK(tr, pend, un, as, A) ==
  /\ \A race \in un \cup as : RaceOK(tr, race, A)
  /\ \A race \in as : StillRaces(race, tr)
  /\ pend = {} => un = {}
  /\ as # {} => pend = {}

RecordsOK(sh, A) ==
  /\ sh = [b \in Bytes |-> sh[b]]
  /\ \A b \in Bytes : /\ RecordOK(A, b, sh[b])
                      /\ CapacityOK(A, sh[b])

\* The race of an access recorded and an access after action act.
RaceOf(old, act, write, byte) ==
  [old |-> old, newaction |-> act, write |-> write, byte |-> byte]

IsRaces(x) == x = [unrealized |-> x.unrealized, asserted |-> x.asserted]

DetectorOK(tr, pend, sh, un, as, A) ==
  /\ RacesOK(tr, pend, un, as, A)
  /\ RecordsOK(sh, A)
  /\ as = {} => \A R : MayBecome(R, tr, un, A) => \A b \in Bytes : Covered(R, A, b, sh[b])

\* Racing keeps the accesses of s that may race, all of them and no others.
Selected(x, s, t, cv) ==
  /\ x \in Seq(Entries)
  /\ Len(x) <= Len(s)
  /\ \A k \in 1..Len(x) : \E m \in 1..Len(s) :
       x[k] = s[m] /\ clock_may_race(cv, t, s[m].clock, s[m].tid)
  /\ \A m \in 1..Len(s) : clock_may_race(cv, t, s[m].clock, s[m].tid) =>
       \E k \in 1..Len(x) : x[k] = s[m]

\* What becomes of the races found at one byte: they are kept aside, or one of
\* them is asserted, and then the execution is a feasible prefix.
Settled(x, un, found, act, write, byte) ==
  /\ IsRaces(x)
  /\ \A race \in x.unrealized \cup x.asserted :
       \/ race \in un
       \/ \E k \in 1..Len(found) : race = RaceOf(found[k], act, write, byte)
  /\ \A race \in x.asserted : StillRaces(race, trace)
  /\ pending = {} => x.unrealized = {}
  /\ x.asserted # {} => pending = {}
  /\ x.asserted = {} =>
       /\ un \subseteq x.unrealized
       /\ \A k \in 1..Len(found) : RaceOf(found[k], act, write, byte) \in x.unrealized

AllMayRace(found, act) ==
  \A k \in 1..Len(found) :
    clock_may_race(trace[act].cv, trace[act].tid, found[k].clock, found[k].tid)

\* The record after an access.
Updated(r2, r, t, cv, write) ==
  /\ write => r2.reads = <<>> /\ r2.write = Recorded(t, cv, TRUE)
  /\ ~write => /\ r2.write = r.write
               /\ r2.reads = Append(Racing(r.reads, t, cv), Recorded(t, cv, FALSE))

\* The entries access y was compared with and may race with are kept aside.
Noted(un, s, t, cv, b, y) ==
  \A m \in 1..Len(s) : clock_may_race(cv, t, s[m].clock, s[m].tid) =>
    Kept(un, AccessOf(s[m], b), y)

LastOf(tr, t, p) ==
  /\ p \in DOMAIN tr /\ tr[p].tid = t
  /\ \A i \in DOMAIN tr : tr[i].tid = t => i <= p

\* One more action at the end of the trace: a vector cv that joins those of the
\* actions p and q, and whom it may synchronise with.
Joined(cv, t, n, cv1, cv2) ==
  \A u \in Threads : cv[u] = IF u = t THEN n ELSE IF cv1[u] >= cv2[u] THEN cv1[u] ELSE cv2[u]

Synced(sy2, sy, p, q, n) ==
  /\ sy2 = sy \/ sy2 = sy \cup {<<q, n>>}
  /\ p = q \/ <<q, n>> \in sy2

MoreToSettle(pend2, pend, tr) ==
  \A w \in pend2 : \/ w \in pend
                   \/ w.rel \in DOMAIN tr /\ w.acq = Len(tr) + 1

Extends(tr2, tr) ==
  /\ Len(tr) \in Nat /\ DOMAIN tr = 1..Len(tr)
  /\ DOMAIN tr2 = DOMAIN tr \cup {Len(tr) + 1}
  /\ \A i \in DOMAIN tr : tr2[i] = tr[i]

\* The same actions, with larger vectors.
Grown(tr2, tr) ==
  /\ DOMAIN tr2 = DOMAIN tr
  /\ \A i \in DOMAIN tr : /\ tr2[i].tid = tr[i].tid
                          /\ \A t \in Threads : tr2[i].cv[t] >= tr[i].cv[t]

\* A vector grows along happens-before, so an action that is reached is known,
\* and what is known is reached.
LEMMA ReachedIsKnown ==
  ASSUME NEW tr, NEW sy, ClocksOK(tr), SyncedOK(tr, sy),
         NEW i \in DOMAIN tr, NEW j \in DOMAIN tr, Reaches(tr, sy, i, j)
  PROVE  Knows(tr, j, i)
<1> DEFINE S == {m \in DOMAIN tr : Knows(tr, m, i)}
<1>1. Len(tr) \in Nat /\ DOMAIN tr = 1..Len(tr) /\ \A m \in DOMAIN tr : tr[m] \in Actions
  BY DEF ClocksOK
<1>2. i \in S
  BY <1>1 DEF ClocksOK, Knows
<1>3. ASSUME NEW k \in S, NEW m \in DOMAIN tr, Edge(tr, sy, k, m)
      PROVE  m \in S
  <2>1. Knows(tr, m, k)
    <3>1. CASE k < m /\ tr[k].tid = tr[m].tid
      <4>1. tr[m].cv[tr[m].tid] = m
        BY DEF ClocksOK
      <4> QED BY <1>1, <3>1, <4>1 DEF Knows
    <3>2. CASE <<k, m>> \in sy
      <4>1. k \in Int /\ m \in Int
        BY <1>1
      <4> QED BY <3>2, <4>1 DEF SyncedOK
    <3> QED BY <1>3, <3>1, <3>2 DEF Edge
  <2>2. tr[i].tid \in Threads
    BY <1>1 DEF Actions
  <2>3. tr[k].cv[tr[i].tid] <= tr[m].cv[tr[i].tid]
    BY <2>1, <2>2 DEF ClocksOK
  <2>4. k \in DOMAIN tr /\ i <= tr[k].cv[tr[i].tid]
    BY DEF Knows
  <2>5. tr[k] \in Actions /\ tr[m] \in Actions /\ i \in Nat
    BY <1>1, <2>4
  <2>6. tr[k].cv[tr[i].tid] \in Nat /\ tr[m].cv[tr[i].tid] \in Nat
    BY <2>2, <2>5 DEF Actions
  <2> QED BY <2>3, <2>4, <2>5, <2>6 DEF Knows
<1>4. S \in SUBSET DOMAIN tr
  OBVIOUS
<1>5. j \in S
  <2> HIDE DEF S
  <2> QED BY <1>2, <1>3, <1>4 DEF Reaches
<1> QED BY <1>5

LEMMA ReachesSteps ==
  ASSUME NEW tr, NEW sy, NEW i \in DOMAIN tr, NEW j \in DOMAIN tr, NEW k \in DOMAIN tr,
         Reaches(tr, sy, i, j),
         Reaches(tr, sy, j, k) \/ Edge(tr, sy, j, k) \/ j = k
  PROVE  Reaches(tr, sy, i, k)
<1> SUFFICES ASSUME NEW S \in SUBSET DOMAIN tr, i \in S,
                    \A x \in S, m \in DOMAIN tr : Edge(tr, sy, x, m) => m \in S
             PROVE  k \in S
  BY DEF Reaches
<1>1. j \in S
  BY DEF Reaches
<1>2. CASE Reaches(tr, sy, j, k)
  BY <1>1, <1>2 DEF Reaches
<1>3. CASE Edge(tr, sy, j, k)
  BY <1>1, <1>3
<1> QED BY <1>1, <1>2, <1>3

LEMMA ReachesItself ==
  ASSUME NEW tr, NEW sy, NEW i \in DOMAIN tr
  PROVE  Reaches(tr, sy, i, i)
BY DEF Reaches

LEMMA KnownIsReached ==
  ASSUME NEW tr, NEW sy, ClocksOK(tr), Justified(tr, sy),
         NEW i \in DOMAIN tr, NEW j \in DOMAIN tr, Knows(tr, j, i)
  PROVE  Reaches(tr, sy, i, j)
<1>1. Len(tr) \in Nat /\ DOMAIN tr = 1..Len(tr) /\ \A m \in DOMAIN tr : tr[m] \in Actions
  BY DEF ClocksOK
<1> DEFINE t == tr[i].tid
           k == tr[j].cv[t]
<1>2. t \in Threads /\ k \in Nat /\ i <= k /\ i \in Nat /\ i >= 1 /\ j \in Nat
  BY <1>1 DEF Actions, Knows
<1>3. k \in 1..j /\ tr[k].tid = t
  BY <1>2 DEF ClocksOK
<1>4. k \in DOMAIN tr
  BY <1>1, <1>3
<1>5. Reaches(tr, sy, k, j)
  BY <1>2 DEF Justified
<1>6. i = k \/ Edge(tr, sy, i, k)
  BY <1>2, <1>3 DEF Edge
<1> HIDE DEF t, k
<1>7. Reaches(tr, sy, i, k)
  BY <1>4, <1>6, ReachesItself, ReachesSteps
<1> QED BY <1>4, <1>5, <1>7, ReachesSteps

\* More actions and more edges reach more.
LEMMA ReachesGrows ==
  ASSUME NEW tr, NEW sy, NEW tr2, NEW sy2,
         DOMAIN tr \subseteq DOMAIN tr2, sy \subseteq sy2,
         \A m \in DOMAIN tr : tr2[m].tid = tr[m].tid,
         NEW i \in DOMAIN tr, NEW j \in DOMAIN tr, Reaches(tr, sy, i, j)
  PROVE  Reaches(tr2, sy2, i, j)
<1> SUFFICES ASSUME NEW S \in SUBSET DOMAIN tr2, i \in S,
                    \A x \in S, m \in DOMAIN tr2 : Edge(tr2, sy2, x, m) => m \in S
             PROVE  j \in S
  BY DEF Reaches
<1> DEFINE U == S \cap DOMAIN tr
<1>1. i \in U /\ U \in SUBSET DOMAIN tr
  OBVIOUS
<1>2. ASSUME NEW x \in U, NEW m \in DOMAIN tr, Edge(tr, sy, x, m) PROVE m \in U
  <2>1. Edge(tr2, sy2, x, m)
    BY <1>2 DEF Edge
  <2> QED BY <2>1
<1>3. j \in U
  <2> HIDE DEF U
  <2> QED BY <1>1, <1>2 DEF Reaches
<1> QED BY <1>3

-----------------------------------------------------------------------------
(***************************************************************************)
(* A new action keeps the clocks in order.  Its vector is that of the last *)
(* action p of its thread, enlarged by that of an action q (p itself when  *)
(* it synchronises with none).                                             *)
(***************************************************************************)
TraceOK(tr, sy, pend) ==
  /\ ClocksOK(tr)
  /\ SyncedOK(tr, sy)
  /\ Justified(tr, sy)
  /\ PendingOK(tr, pend)

LEMMA AppendClocks ==
  ASSUME NEW tr, NEW sy, NEW pend, TraceOK(tr, sy, pend),
         NEW t \in Threads, NEW p, LastOf(tr, t, p), NEW q \in DOMAIN tr,
         NEW cv \in [Threads -> Nat], Joined(cv, t, Len(tr) + 1, tr[p].cv, tr[q].cv),
         NEW tr2, tr2 = Append(tr, [tid |-> t, cv |-> cv]),
         NEW sy2, Synced(sy2, sy, p, q, Len(tr) + 1),
         NEW pend2, MoreToSettle(pend2, pend, tr)
  PROVE  TraceOK(tr2, sy2, pend2)
<1> DEFINE n == Len(tr) + 1
<1> USE DEF TraceOK, LastOf, Joined, Synced, MoreToSettle
<1>1. /\ Len(tr) \in Nat /\ DOMAIN tr = 1..Len(tr) /\ tr \in Seq(Actions)
      /\ \A m \in DOMAIN tr : tr[m] \in Actions
  BY DEF ClocksOK
<1>2. n \in Nat /\ n >= 1 /\ n \notin DOMAIN tr
  BY <1>1
<1>3. [tid |-> t, cv |-> cv] \in Actions
  BY DEF Actions
<1>4. /\ tr2 \in Seq(Actions) /\ Len(tr2) = n /\ DOMAIN tr2 = 1..n
      /\ tr2[n] = [tid |-> t, cv |-> cv]
      /\ \A m \in DOMAIN tr : tr2[m] = tr[m]
  BY <1>1, <1>3, AppendProperties
<1>5. DOMAIN tr2 = DOMAIN tr \cup {n}
  BY <1>1, <1>2, <1>4
<1>6. tr2[n].tid = t /\ tr2[n].cv = cv
  BY <1>4
<1>n. \A x : x \in sy2 => (x \in sy \/ x = <<q, n>>)
  OBVIOUS
<1>p. \A w \in pend2 : w \in pend \/ (w.rel \in DOMAIN tr /\ w.acq = n)
  OBVIOUS
<1>c. \A u \in Threads : cv[u] = IF u = t THEN n
                                 ELSE IF tr[p].cv[u] >= tr[q].cv[u] THEN tr[p].cv[u]
                                 ELSE tr[q].cv[u]
  OBVIOUS
<1>s. p = q \/ <<q, n>> \in sy2
  OBVIOUS
<1> HIDE DEF n
\* The new vector's entries are those of p or of q.
<1>7. \A i \in DOMAIN tr : tr[i].tid \in Threads /\ tr[i].cv \in [Threads -> Nat]
  BY <1>1 DEF Actions
<1>8. /\ \A u \in Threads : tr[p].cv[u] \in Nat /\ tr[q].cv[u] \in Nat /\ cv[u] \in Nat
      /\ \A u \in Threads : tr[p].cv[u] <= n - 1 /\ tr[q].cv[u] <= n - 1
  <2>1. \A i \in DOMAIN tr, u \in Threads : tr[i].cv[u] \in Nat /\ tr[i].cv[u] <= i
    <3> TAKE i \in DOMAIN tr, u \in Threads
    <3>1. tr[i].cv[u] \in Nat /\ i \in Nat
      BY <1>1, <1>7
    <3>2. tr[i].cv[u] # 0 => tr[i].cv[u] \in 1..i
      BY DEF ClocksOK
    <3> QED BY <3>1, <3>2
  <2>2. \A i \in DOMAIN tr : i \in Nat /\ i <= n - 1
    BY <1>1, <1>2 DEF n
  <2>3. \A i \in DOMAIN tr, u \in Threads : tr[i].cv[u] <= n - 1
    BY <2>1, <2>2, <1>2
  <2> QED BY <2>1, <2>3
<1>9. \A u \in Threads : /\ cv[u] >= tr[p].cv[u] /\ cv[u] >= tr[q].cv[u]
                         /\ u # t => cv[u] = tr[p].cv[u] \/ cv[u] = tr[q].cv[u]
  BY <1>2, <1>8, <1>c
\* Whoever the new action knows is known by p or by q, or is the action itself.
<1>10. \A i \in DOMAIN tr : Knows(tr2, n, i) => Knows(tr, p, i) \/ Knows(tr, q, i)
  <2> SUFFICES ASSUME NEW i \in DOMAIN tr, Knows(tr2, n, i)
               PROVE  Knows(tr, p, i) \/ Knows(tr, q, i)
    OBVIOUS
  <2>1. i <= cv[tr[i].tid] /\ tr[i].tid \in Threads
    BY <1>4, <1>6, <1>7 DEF Knows
  <2>2. CASE tr[i].tid = t
    <3>1. i <= p /\ tr[p].cv[tr[p].tid] = p
      BY <2>2 DEF ClocksOK
    <3> QED BY <2>2, <3>1 DEF Knows
  <2>3. CASE tr[i].tid # t
    BY <1>9, <2>1, <2>3 DEF Knows
  <2> QED BY <2>2, <2>3
<1>11. \A i, j \in DOMAIN tr : Knows(tr2, j, i) <=> Knows(tr, j, i)
  BY <1>4 DEF Knows
<1>12. \A j \in DOMAIN tr : ~Knows(tr2, j, n)
  <2> SUFFICES ASSUME NEW j \in DOMAIN tr, Knows(tr2, j, n) PROVE FALSE
    OBVIOUS
  <2>1. n <= tr[j].cv[t]
    BY <1>4, <1>6 DEF Knows
  <2>2. j \in Nat /\ j < n
    BY <1>1, <1>2, <1>5 DEF n
  <2>3. tr[j].cv[t] \in Nat /\ (tr[j].cv[t] # 0 => tr[j].cv[t] \in 1..j)
    BY <1>7 DEF ClocksOK
  <2> QED BY <1>2, <2>1, <2>2, <2>3
<1>13. ClocksOK(tr2)
  <2>1. \A u \in Threads : \E i \in DOMAIN tr2 : tr2[i].tid = u
    BY <1>4, <1>5 DEF ClocksOK
  <2>2. \A i \in DOMAIN tr2 : tr2[i].cv[tr2[i].tid] = i
    <3>1. cv[t] = n
      BY <1>c
    <3> QED BY <1>4, <1>5, <1>6, <3>1 DEF ClocksOK
  <2>3. \A j \in DOMAIN tr2, u \in Threads :
          tr2[j].cv[u] # 0 => tr2[j].cv[u] \in 1..j /\ tr2[tr2[j].cv[u]].tid = u
    <3> SUFFICES ASSUME NEW j \in DOMAIN tr2, NEW u \in Threads, tr2[j].cv[u] # 0
                 PROVE  tr2[j].cv[u] \in 1..j /\ tr2[tr2[j].cv[u]].tid = u
      OBVIOUS
    <3>1. \A i \in DOMAIN tr : tr[i].cv[u] # 0 =>
            tr[i].cv[u] \in 1..i /\ tr[i].cv[u] \in DOMAIN tr /\ tr[tr[i].cv[u]].tid = u
      <4> TAKE i \in DOMAIN tr
      <4> HAVE tr[i].cv[u] # 0
      <4>1. tr[i].cv[u] \in 1..i /\ tr[tr[i].cv[u]].tid = u
        BY DEF ClocksOK
      <4> QED BY <1>1, <4>1
    <3>2. CASE j \in DOMAIN tr
      BY <1>4, <3>1, <3>2
    <3>3. CASE j = n /\ u = t
      <4>1. tr2[j].cv[u] = n
        BY <1>6, <1>c, <3>3
      <4> QED BY <1>2, <1>6, <3>3, <4>1
    <3>4. CASE j = n /\ u # t
      <4>1. PICK i \in {p, q} : tr2[j].cv[u] = tr[i].cv[u]
        BY <1>6, <1>9, <3>4
      <4>2. i \in DOMAIN tr /\ i <= n /\ i \in Nat
        BY <1>1, <1>2 DEF n
      <4>3. tr[i].cv[u] \in 1..i /\ tr[i].cv[u] \in DOMAIN tr /\ tr[tr[i].cv[u]].tid = u
        BY <3>1, <4>1, <4>2
      <4> QED BY <1>2, <1>4, <3>4, <4>1, <4>2, <4>3
    <3> QED BY <1>5, <3>2, <3>3, <3>4
  <2>4. \A i, j \in DOMAIN tr2 :
          Knows(tr2, j, i) => \A u \in Threads : tr2[i].cv[u] <= tr2[j].cv[u]
    <3> SUFFICES ASSUME NEW i \in DOMAIN tr2, NEW j \in DOMAIN tr2, Knows(tr2, j, i),
                        NEW u \in Threads
                 PROVE  tr2[i].cv[u] <= tr2[j].cv[u]
      OBVIOUS
    <3>1. CASE i \in DOMAIN tr /\ j \in DOMAIN tr
      BY <1>4, <1>11, <3>1 DEF ClocksOK
    <3>2. CASE i \in DOMAIN tr /\ j = n
      <4>1. PICK k \in {p, q} : Knows(tr, k, i)
        BY <1>10, <3>2
      <4>2. tr[i].cv[u] <= tr[k].cv[u]
        BY <3>2, <4>1 DEF ClocksOK
      <4>3. tr[k].cv[u] <= cv[u] /\ tr[k].cv[u] \in Nat /\ cv[u] \in Nat /\ tr[i].cv[u] \in Nat
        BY <1>7, <1>8, <1>9, <3>2
      <4> QED BY <1>4, <1>6, <3>2, <4>2, <4>3
    <3>3. CASE i = n /\ j = n
      BY <1>6, <1>8, <3>3
    <3> QED BY <1>5, <1>12, <3>1, <3>2, <3>3
  <2> QED BY <1>4, <2>1, <2>2, <2>3, <2>4 DEF ClocksOK
<1>14. SyncedOK(tr2, sy2)
  <2> SUFFICES ASSUME NEW i \in Int, NEW j \in Int, <<i, j>> \in sy2
               PROVE  i \in DOMAIN tr2 /\ j \in DOMAIN tr2 /\ i < j /\ Knows(tr2, j, i)
    BY DEF SyncedOK
  <2>1. CASE <<i, j>> \in sy
    BY <1>5, <1>11, <2>1 DEF SyncedOK
  <2>2. CASE i = q /\ j = n
    <3>1. q <= cv[tr[q].tid]
      <4>1. tr[q].cv[tr[q].tid] = q /\ tr[q].tid \in Threads
        BY <1>7 DEF ClocksOK
      <4> QED BY <1>9, <4>1
    <3>2. Knows(tr2, j, i)
      BY <1>4, <1>6, <2>2, <3>1 DEF Knows
    <3>3. i < j
      BY <1>1, <1>2, <2>2 DEF n
    <3> QED BY <1>5, <2>2, <3>2, <3>3
  <2> QED BY <1>n, <2>1, <2>2
<1>15. Justified(tr2, sy2)
  <2>0. /\ DOMAIN tr \subseteq DOMAIN tr2 /\ sy \subseteq sy2
        /\ \A m \in DOMAIN tr : tr2[m].tid = tr[m].tid
    BY <1>4, <1>5
  <2>m. \A k, m \in DOMAIN tr : Reaches(tr, sy, k, m) => Reaches(tr2, sy2, k, m)
    <3> TAKE k, m \in DOMAIN tr
    <3> HAVE Reaches(tr, sy, k, m)
    <3> HIDE DEF TraceOK
    <3> QED BY ONLY <2>0, Reaches(tr, sy, k, m), k \in DOMAIN tr, m \in DOMAIN tr, ReachesGrows
  <2> SUFFICES ASSUME NEW j \in DOMAIN tr2, NEW u \in Threads, tr2[j].cv[u] # 0
               PROVE  Reaches(tr2, sy2, tr2[j].cv[u], j)
    BY DEF Justified
  <2>1. \A i \in DOMAIN tr : tr[i].cv[u] # 0 =>
          tr[i].cv[u] \in DOMAIN tr /\ Reaches(tr2, sy2, tr[i].cv[u], i)
    <3> TAKE i \in DOMAIN tr
    <3> HAVE tr[i].cv[u] # 0
    <3>1. tr[i].cv[u] \in DOMAIN tr
      BY <1>1 DEF ClocksOK
    <3>2. Reaches(tr, sy, tr[i].cv[u], i)
      BY DEF Justified
    <3> QED BY <2>m, <3>1, <3>2
  <2>2. CASE j \in DOMAIN tr
    BY <1>4, <2>1, <2>2
  <2>3. CASE j = n /\ u = t
    <3>1. tr2[j].cv[u] = n
      BY <1>6, <1>c, <2>3
    <3> QED BY <2>3, <3>1, ReachesItself
  <2>4. CASE j = n /\ u # t
    <3>1. PICK i \in {p, q} : tr2[j].cv[u] = tr[i].cv[u]
      BY <1>6, <1>9, <2>4
    <3>2. i \in DOMAIN tr2 /\ i \in DOMAIN tr
      BY <1>5
    <3>3. tr[i].cv[u] \in DOMAIN tr2 /\ Reaches(tr2, sy2, tr[i].cv[u], i)
      BY <2>0, <2>1, <3>1, <3>2
    <3>4. Edge(tr2, sy2, i, n)
      <4>1. p < n /\ tr2[p].tid = tr2[n].tid
        BY <1>1, <1>2, <1>4, <1>6 DEF n
      <4> QED BY <1>s, <4>1 DEF Edge
    <3> QED BY <2>4, <3>1, <3>2, <3>3, <3>4, ReachesSteps
  <2> QED BY <1>5, <2>2, <2>3, <2>4
<1>16. PendingOK(tr2, pend2)
  <2> SUFFICES ASSUME NEW w \in pend2
               PROVE  w.rel \in DOMAIN tr2 /\ w.acq \in DOMAIN tr2 /\ w.rel < w.acq
    BY DEF PendingOK
  <2>1. CASE w \in pend
    BY <1>5, <2>1 DEF PendingOK
  <2>2. CASE w.rel \in DOMAIN tr /\ w.acq = n
    <3>1. w.rel < n
      BY <1>1, <1>2, <2>2 DEF n
    <3> QED BY <1>5, <2>2, <3>1
  <2> QED BY <1>p, <2>1, <2>2
<1> QED BY <1>13, <1>14, <1>15, <1>16

(***************************************************************************)
(* So does an acquire that is found to synchronise: the vectors of the     *)
(* actions that know it grow, and those are the ones after it.             *)
(***************************************************************************)
LEMMA PropagatedClocks ==
  ASSUME NEW tr, NEW sy, NEW pend, TraceOK(tr, sy, pend),
         NEW rel \in DOMAIN tr, NEW acq \in DOMAIN tr, rel < acq,
         NEW tr2, tr2 = Propagated(tr, rel, acq),
         NEW sy2, sy2 = sy \cup {<<rel, acq>>},
         NEW pend2, pend2 \subseteq pend
  PROVE  TraceOK(tr2, sy2, pend2) /\ Grown(tr2, tr)
<1> USE DEF TraceOK, Grown
<1>1. /\ Len(tr) \in Nat /\ DOMAIN tr = 1..Len(tr) /\ tr \in Seq(Actions)
      /\ \A m \in DOMAIN tr : tr[m] \in Actions
  BY DEF ClocksOK
<1>2. \A i \in DOMAIN tr : tr[i].tid \in Threads /\ tr[i].cv \in [Threads -> Nat] /\ i \in Nat
  <2>1. \A i \in DOMAIN tr : tr[i].tid \in Threads /\ tr[i].cv \in [Threads -> Nat]
    BY <1>1 DEF Actions
  <2>2. \A i \in DOMAIN tr : i \in Nat
    BY <1>1
  <2> QED BY <2>1, <2>2
<1>3. \A i \in DOMAIN tr, u \in Threads :
        tr[i].cv[u] \in Nat /\ (tr[i].cv[u] # 0 => tr[i].cv[u] \in 1..i) /\ tr[i].cv[u] <= i
  <2> TAKE i \in DOMAIN tr, u \in Threads
  <2>1. tr[i].cv[u] \in Nat /\ i \in Nat
    BY <1>2
  <2>2. tr[i].cv[u] # 0 => tr[i].cv[u] \in 1..i
    BY DEF ClocksOK
  <2> QED BY <2>1, <2>2
<1> DEFINE cv == Merge(tr[acq].cv, tr[rel].cv)
           Aff(i) == Knows(tr, i, acq)
<1>4. /\ cv \in [Threads -> Nat]
      /\ \A t \in Threads : cv[t] = IF tr[acq].cv[t] >= tr[rel].cv[t] THEN tr[acq].cv[t]
                                    ELSE tr[rel].cv[t]
  BY <1>2, MergeIs
<1>5. \A i \in DOMAIN tr : Aff(i) => i >= acq
  <2> TAKE i \in DOMAIN tr
  <2> HAVE Aff(i)
  <2>1. acq <= tr[i].cv[tr[acq].tid] /\ tr[acq].tid \in Threads
    BY <1>2 DEF Knows
  <2>2. tr[i].cv[tr[acq].tid] <= i /\ tr[i].cv[tr[acq].tid] \in Nat
    BY <1>3, <2>1
  <2> QED BY <1>2, <2>1, <2>2
<1>6. \A i \in DOMAIN tr :
        tr2[i] = IF Aff(i) THEN [tr[i] EXCEPT !.cv = Merge(@, cv)] ELSE tr[i]
  <2> TAKE i \in DOMAIN tr
  <2>1. (i >= acq /\ tr[i].cv[tr[acq].tid] >= acq) <=> Aff(i)
    <3>1. Aff(i) <=> acq <= tr[i].cv[tr[acq].tid]
      BY DEF Knows
    <3>2. tr[i].cv[tr[acq].tid] \in Nat /\ acq \in Nat /\ i \in Nat
      BY <1>2, <1>3
    <3> HIDE DEF Aff
    <3>3. Aff(i) => i >= acq
      BY <1>5
    <3> QED BY <3>1, <3>2, <3>3
  <2>2. tr2[i] = IF i >= acq /\ tr[i].cv[tr[acq].tid] >= acq
                   THEN [tr[i] EXCEPT !.cv = Merge(@, cv)] ELSE tr[i]
    BY DEF Propagated
  <2> HIDE DEF cv, Aff
  <2> QED BY <2>1, <2>2
<1>7. DOMAIN tr2 = DOMAIN tr
  BY DEF Propagated
<1> HIDE DEF cv, Aff
<1>8. \A i \in DOMAIN tr : tr2[i] \in Actions
  <2> TAKE i \in DOMAIN tr
  <2>1. Merge(tr[i].cv, cv) \in [Threads -> Nat]
    BY <1>2, <1>4, MergeIs
  <2>2. tr[i] \in Actions
    BY <1>1
  <2>3. [tr[i] EXCEPT !.cv = Merge(@, cv)] \in Actions
    BY <2>1, <2>2 DEF Actions
  <2> QED BY <1>6, <2>2, <2>3
<1>9. tr2 \in Seq(Actions) /\ Len(tr2) = Len(tr)
  <2>1. tr2 = [i \in 1..Len(tr) |-> tr2[i]]
    BY <1>1 DEF Propagated
  <2>2. tr2 \in [1..Len(tr) -> Actions]
    BY <1>1, <1>8, <2>1
  <2> QED BY <1>1, <2>2
<1>10. \A i \in DOMAIN tr : tr2[i].tid = tr[i].tid
  <2> TAKE i \in DOMAIN tr
  <2>1. tr[i] \in Actions
    BY <1>1
  <2> QED BY <1>6, <2>1 DEF Actions
\* What the vectors become.
<1>11. \A i \in DOMAIN tr, u \in Threads :
         tr2[i].cv[u] = IF Aff(i) /\ cv[u] > tr[i].cv[u] THEN cv[u] ELSE tr[i].cv[u]
  <2> TAKE i \in DOMAIN tr, u \in Threads
  <2>1. CASE Aff(i)
    <3>1. tr[i] \in Actions
      BY <1>1
    <3>2. tr2[i].cv = Merge(tr[i].cv, cv)
      BY <1>6, <2>1, <3>1 DEF Actions
    <3>3. tr2[i].cv[u] = IF tr[i].cv[u] >= cv[u] THEN tr[i].cv[u] ELSE cv[u]
      BY <1>2, <1>4, <3>2, MergeIs
    <3>4. tr[i].cv[u] \in Nat /\ cv[u] \in Nat
      BY <1>3, <1>4
    <3> QED BY <2>1, <3>3, <3>4
  <2>2. CASE ~Aff(i)
    BY <1>6, <2>2
  <2> QED BY <2>1, <2>2
<1>12. \A i \in DOMAIN tr, u \in Threads :
         /\ tr2[i].cv[u] >= tr[i].cv[u]
         /\ tr2[i].cv[u] \in Nat
         /\ Aff(i) => tr2[i].cv[u] >= cv[u]
         /\ tr2[i].cv[u] = tr[i].cv[u] \/ (Aff(i) /\ tr2[i].cv[u] = tr[rel].cv[u])
  <2> TAKE i \in DOMAIN tr, u \in Threads
  <2>1. tr[i].cv[u] \in Nat /\ cv[u] \in Nat
    BY <1>3, <1>4
  <2>2. tr2[i].cv[u] >= tr[i].cv[u] /\ tr2[i].cv[u] \in Nat /\ (Aff(i) => tr2[i].cv[u] >= cv[u])
    BY <1>11, <2>1
  <2>3. tr2[i].cv[u] = tr[i].cv[u] \/ (Aff(i) /\ tr2[i].cv[u] = tr[rel].cv[u])
    <3>1. CASE tr2[i].cv[u] # tr[i].cv[u]
      <4>1. Aff(i) /\ tr2[i].cv[u] = cv[u] /\ cv[u] > tr[i].cv[u]
        BY <1>11, <3>1
      <4>2. tr[acq].cv[u] <= tr[i].cv[u]
        BY <4>1 DEF ClocksOK, Aff
      <4>3. tr[acq].cv[u] \in Nat /\ tr[rel].cv[u] \in Nat
        BY <1>3
      <4> QED BY <1>4, <2>1, <4>1, <4>2, <4>3
    <3> QED BY <3>1
  <2> QED BY <2>2, <2>3
<1>13. \A u \in Threads : cv[u] >= tr[rel].cv[u] /\ cv[u] >= tr[acq].cv[u]
  <2> TAKE u \in Threads
  <2>1. tr[acq].cv[u] \in Nat /\ tr[rel].cv[u] \in Nat
    BY <1>3
  <2> QED BY <1>4, <2>1
\* Whoever knows an action now knew it before, or has heard of it through rel.
<1>14. \A i, j \in DOMAIN tr :
         Knows(tr2, j, i) => Knows(tr, j, i) \/ (Aff(j) /\ Knows(tr, rel, i))
  <2> TAKE i, j \in DOMAIN tr
  <2> HAVE Knows(tr2, j, i)
  <2>1. i <= tr2[j].cv[tr[i].tid] /\ tr[i].tid \in Threads
    BY <1>2, <1>10 DEF Knows
  <2> QED BY <1>12, <2>1 DEF Knows
<1>15. \A i, j \in DOMAIN tr : Knows(tr, j, i) => Knows(tr2, j, i)
  <2> TAKE i, j \in DOMAIN tr
  <2> HAVE Knows(tr, j, i)
  <2>1. i <= tr[j].cv[tr[i].tid] /\ tr[i].tid \in Threads /\ i \in Nat
    BY <1>2 DEF Knows
  <2>2. tr2[j].cv[tr[i].tid] >= tr[j].cv[tr[i].tid] /\ tr2[j].cv[tr[i].tid] \in Nat
        /\ tr[j].cv[tr[i].tid] \in Nat
    BY <1>3, <1>12, <2>1
  <2>3. i <= tr2[j].cv[tr[i].tid]
    BY <2>1, <2>2
  <2> QED BY <1>10, <2>3 DEF Knows
\* Rel has not heard of the acquire, nor of anything after it.
<1>16. \A i \in DOMAIN tr : Aff(i) => ~Knows(tr, rel, i)
  <2> SUFFICES ASSUME NEW i \in DOMAIN tr, Aff(i), Knows(tr, rel, i) PROVE FALSE
    OBVIOUS
  <2>1. i >= acq /\ i \in Nat /\ acq \in Nat /\ rel \in Nat
    BY <1>2, <1>5
  <2>2. i <= tr[rel].cv[tr[i].tid] /\ tr[i].tid \in Threads
    BY <1>2 DEF Knows
  <2>3. tr[rel].cv[tr[i].tid] <= rel /\ tr[rel].cv[tr[i].tid] \in Nat
    BY <1>3, <2>2
  <2> QED BY <2>1, <2>2, <2>3
<1>17. ClocksOK(tr2)
  <2>1. \A u \in Threads : \E i \in DOMAIN tr2 : tr2[i].tid = u
    BY <1>7, <1>10 DEF ClocksOK
  <2>2. \A i \in DOMAIN tr2 : tr2[i].cv[tr2[i].tid] = i
    <3> SUFFICES ASSUME NEW i \in DOMAIN tr PROVE tr2[i].cv[tr[i].tid] = i
      BY <1>7, <1>10
    <3>1. tr[i].cv[tr[i].tid] = i /\ tr[i].tid \in Threads /\ i \in Nat
      BY <1>2 DEF ClocksOK
    <3>2. tr2[i].cv[tr[i].tid] = i \/ (Aff(i) /\ tr2[i].cv[tr[i].tid] = tr[rel].cv[tr[i].tid])
      BY <1>12, <3>1
    <3>3. CASE Aff(i)
      <4>1. ~(i <= tr[rel].cv[tr[i].tid])
        BY <1>16, <3>3 DEF Knows
      <4>2. tr2[i].cv[tr[i].tid] >= i /\ tr[rel].cv[tr[i].tid] \in Nat
        BY <1>3, <1>12, <3>1
      <4> QED BY <3>1, <3>2, <4>1, <4>2
    <3> QED BY <3>2, <3>3
  <2>3. \A j \in DOMAIN tr2, u \in Threads :
          tr2[j].cv[u] # 0 => tr2[j].cv[u] \in 1..j /\ tr2[tr2[j].cv[u]].tid = u
    <3> SUFFICES ASSUME NEW j \in DOMAIN tr, NEW u \in Threads, tr2[j].cv[u] # 0
                 PROVE  tr2[j].cv[u] \in 1..j /\ tr2[tr2[j].cv[u]].tid = u
      BY <1>7
    <3>1. PICK i \in DOMAIN tr : tr2[j].cv[u] = tr[i].cv[u] /\ i <= j
      <4>1. CASE tr2[j].cv[u] = tr[j].cv[u]
        BY <1>2, <4>1
      <4>2. CASE Aff(j) /\ tr2[j].cv[u] = tr[rel].cv[u]
        <5>1. rel <= j
          BY <1>2, <1>5, <4>2
        <5> QED BY <4>2, <5>1
      <4> QED BY <1>12, <4>1, <4>2
    <3>2. tr[i].cv[u] \in 1..i /\ tr[tr[i].cv[u]].tid = u
      BY <3>1 DEF ClocksOK
    <3>3. tr[i].cv[u] \in 1..j /\ tr[i].cv[u] \in DOMAIN tr
      BY <1>1, <1>2, <3>1, <3>2
    <3> QED BY <1>10, <3>1, <3>2, <3>3
  <2>4. \A i, j \in DOMAIN tr2 :
          Knows(tr2, j, i) => \A u \in Threads : tr2[i].cv[u] <= tr2[j].cv[u]
    <3> SUFFICES ASSUME NEW i \in DOMAIN tr, NEW j \in DOMAIN tr, Knows(tr2, j, i),
                        NEW u \in Threads
                 PROVE  tr2[i].cv[u] <= tr2[j].cv[u]
      BY <1>7
    <3>0. /\ tr2[i].cv[u] \in Nat /\ tr2[j].cv[u] \in Nat /\ tr[i].cv[u] \in Nat
          /\ tr[j].cv[u] \in Nat /\ cv[u] \in Nat
      BY <1>3, <1>4, <1>12
    <3>1. CASE Knows(tr, j, i)
      <4>1. tr[i].cv[u] <= tr[j].cv[u]
        BY <3>1 DEF ClocksOK
      <4>2. tr2[j].cv[u] >= tr[j].cv[u]
        BY <1>12
      <4>3. CASE Aff(i)
        <5>1. Aff(j)
          <6>1. tr[acq].tid \in Threads /\ acq \in Nat
            BY <1>2
          <6>2. tr[i].cv[tr[acq].tid] <= tr[j].cv[tr[acq].tid] /\ acq <= tr[i].cv[tr[acq].tid]
            BY <3>1, <4>3, <6>1 DEF ClocksOK, Knows, Aff
          <6>3. tr[i].cv[tr[acq].tid] \in Nat /\ tr[j].cv[tr[acq].tid] \in Nat
            BY <1>3, <6>1
          <6> QED BY <6>1, <6>2, <6>3 DEF Aff, Knows
        <5>2. tr2[j].cv[u] >= cv[u]
          BY <1>12, <5>1
        <5>3. tr2[i].cv[u] = cv[u] \/ tr2[i].cv[u] = tr[i].cv[u]
          BY <1>11
        <5> QED BY <3>0, <4>1, <4>2, <5>2, <5>3
      <4>4. CASE ~Aff(i)
        <5>1. tr2[i].cv[u] = tr[i].cv[u]
          BY <1>12, <4>4
        <5> QED BY <3>0, <4>1, <4>2, <5>1
      <4> QED BY <4>3, <4>4
    <3>2. CASE Aff(j) /\ Knows(tr, rel, i)
      <4>1. ~Aff(i)
        BY <1>16, <3>2
      <4>2. tr2[i].cv[u] = tr[i].cv[u]
        BY <1>12, <4>1
      <4>3. tr[i].cv[u] <= tr[rel].cv[u]
        BY <3>2 DEF ClocksOK
      <4>4. tr2[j].cv[u] >= cv[u] /\ cv[u] >= tr[rel].cv[u] /\ tr[rel].cv[u] \in Nat
        BY <1>3, <1>12, <1>13, <3>2
      <4> QED BY <3>0, <4>2, <4>3, <4>4
    <3> QED BY <1>14, <3>1, <3>2
  <2> QED BY <1>9, <2>1, <2>2, <2>3, <2>4 DEF ClocksOK
<1>18. SyncedOK(tr2, sy2)
  <2> SUFFICES ASSUME NEW i \in Int, NEW j \in Int, <<i, j>> \in sy2
               PROVE  i \in DOMAIN tr2 /\ j \in DOMAIN tr2 /\ i < j /\ Knows(tr2, j, i)
    BY DEF SyncedOK
  <2>1. CASE <<i, j>> \in sy
    BY <1>7, <1>15, <2>1 DEF SyncedOK
  <2>2. CASE i = rel /\ j = acq
    <3>1. rel <= tr[rel].cv[tr[rel].tid] /\ tr[rel].tid \in Threads
      BY <1>2 DEF ClocksOK
    <3>2. Aff(acq)
      BY <1>2 DEF ClocksOK, Aff, Knows
    <3>3. tr2[acq].cv[tr[rel].tid] >= cv[tr[rel].tid] /\ cv[tr[rel].tid] >= tr[rel].cv[tr[rel].tid]
      BY <1>12, <1>13, <3>1, <3>2
    <3>4. /\ tr2[acq].cv[tr[rel].tid] \in Nat /\ cv[tr[rel].tid] \in Nat
          /\ tr[rel].cv[tr[rel].tid] \in Nat /\ rel \in Nat
      BY <1>2, <1>3, <1>4, <1>12, <3>1
    <3>5. rel <= tr2[acq].cv[tr[rel].tid]
      BY <3>1, <3>3, <3>4
    <3>6. Knows(tr2, acq, rel)
      BY <1>10, <3>5 DEF Knows
    <3> QED BY <1>7, <2>2, <3>6
  <2> QED BY <2>1, <2>2
<1>19. Justified(tr2, sy2)
  <2>m. \A k, m \in DOMAIN tr : Reaches(tr, sy, k, m) => Reaches(tr2, sy2, k, m)
    <3> TAKE k, m \in DOMAIN tr
    <3> HAVE Reaches(tr, sy, k, m)
    <3>1. DOMAIN tr \subseteq DOMAIN tr2 /\ sy \subseteq sy2
      BY <1>7
    <3> QED BY ONLY <1>10, <3>1, Reaches(tr, sy, k, m), k \in DOMAIN tr, m \in DOMAIN tr, ReachesGrows
  <2>n. \A i \in DOMAIN tr, u \in Threads : tr[i].cv[u] # 0 =>
          tr[i].cv[u] \in DOMAIN tr /\ Reaches(tr2, sy2, tr[i].cv[u], i)
    <3> TAKE i \in DOMAIN tr, u \in Threads
    <3> HAVE tr[i].cv[u] # 0
    <3>1. tr[i].cv[u] \in 1..i
      BY DEF ClocksOK
    <3>2. tr[i].cv[u] \in DOMAIN tr
      BY <1>1, <3>1
    <3>3. Reaches(tr, sy, tr[i].cv[u], i)
      BY DEF Justified
    <3> QED BY <2>m, <3>2, <3>3
  <2> SUFFICES ASSUME NEW j \in DOMAIN tr, NEW u \in Threads, tr2[j].cv[u] # 0
               PROVE  Reaches(tr2, sy2, tr2[j].cv[u], j)
    BY <1>7 DEF Justified
  <2>1. CASE tr2[j].cv[u] = tr[j].cv[u]
    BY <2>n, <2>1
  <2>2. CASE Aff(j) /\ tr2[j].cv[u] = tr[rel].cv[u]
    <3>1. tr[rel].cv[u] \in DOMAIN tr /\ Reaches(tr2, sy2, tr[rel].cv[u], rel)
      BY <2>n, <2>2
    <3>2. Reaches(tr, sy, acq, j)
      BY <2>2, KnownIsReached DEF Aff
    <3>3. Reaches(tr2, sy2, acq, j)
      BY <2>m, <3>2
    <3>4. Edge(tr2, sy2, rel, acq)
      BY DEF Edge
    <3>5. Reaches(tr2, sy2, rel, j)
      <4>1. Reaches(tr2, sy2, rel, acq)
        BY <1>7, <3>4, ReachesItself, ReachesSteps
      <4> QED BY <1>7, <3>3, <4>1, ReachesSteps
    <3> DEFINE k == tr[rel].cv[u]
    <3> HIDE DEF k
    <3>6. k \in DOMAIN tr2 /\ Reaches(tr2, sy2, k, rel)
      BY <1>7, <3>1 DEF k
    <3>7. Reaches(tr2, sy2, k, j)
      BY <1>7, <3>5, <3>6, ReachesSteps
    <3> QED BY <2>2, <3>7 DEF k
  <2> QED BY <1>12, <2>1, <2>2
<1>20. PendingOK(tr2, pend2)
  BY <1>7 DEF PendingOK
<1>21. Len(tr2) = Len(tr) /\ DOMAIN tr2 = DOMAIN tr
  BY <1>7, <1>9
<1> QED BY <1>10, <1>12, <1>17, <1>18, <1>19, <1>20, <1>21

-----------------------------------------------------------------------------
(***************************************************************************)
(* The functions that go over a sequence, a trace or the bytes of an       *)
(* access exist, so the model's operators are what their equations say.    *)
(***************************************************************************)

\* Those of the first k recorded accesses that may race.
SelectionStep(s, t, cv, x, k) ==
  IF clock_may_race(cv, t, s[k].clock, s[k].tid) THEN Append(x, s[k]) ELSE x

IsSelection(f, s, t, cv, n) ==
  f = [k \in 0..n |-> IF k = 0 THEN <<>> ELSE SelectionStep(s, t, cv, f[k - 1], k)]

LEMMA SelectionExists ==
  ASSUME NEW s, NEW t, NEW cv, NEW last \in Nat
  PROVE  \E f : IsSelection(f, s, t, cv, last)
<1> DEFINE T == {n \in Nat : \E f : IsSelection(f, s, t, cv, n)}
<1>1. 0 \in T
  <2> DEFINE f == [k \in 0..0 |-> <<>>]
  <2>1. IsSelection(f, s, t, cv, 0)
    BY DEF IsSelection
  <2> QED BY <2>1
<1>2. ASSUME NEW n \in Nat, n \in T
      PROVE  n + 1 \in T
  <2>1. PICK f : IsSelection(f, s, t, cv, n)
    BY <1>2
  <2> DEFINE more == [k \in 0..(n + 1) |->
                        IF k <= n THEN f[k] ELSE SelectionStep(s, t, cv, f[n], n + 1)]
  <2>2. ASSUME NEW k \in 0..(n + 1)
        PROVE  more[k] = IF k = 0 THEN <<>> ELSE SelectionStep(s, t, cv, more[k - 1], k)
    <3>1. CASE k <= n /\ k = 0
      BY <2>1, <3>1 DEF IsSelection
    <3>2. CASE k <= n /\ k # 0
      <4>1. k - 1 \in 0..n /\ k \in 0..n /\ k - 1 <= n /\ k - 1 \in 0..(n + 1)
        BY <3>2
      <4>2. f[k] = SelectionStep(s, t, cv, f[k - 1], k)
        BY <2>1, <3>2, <4>1 DEF IsSelection
      <4>3. more[k] = f[k] /\ more[k - 1] = f[k - 1]
        BY <3>2, <4>1
      <4> HIDE DEF more
      <4> QED BY <3>2, <4>2, <4>3
    <3>3. CASE k = n + 1
      <4>1. k # 0 /\ k - 1 = n /\ ~(k <= n) /\ n \in 0..(n + 1)
        BY <3>3
      <4>2. more[k] = SelectionStep(s, t, cv, f[n], k) /\ more[n] = f[n]
        BY <3>3, <4>1
      <4> HIDE DEF more
      <4> QED BY <4>1, <4>2
    <3> QED BY <3>1, <3>2, <3>3
  <2>3. IsSelection(more, s, t, cv, n + 1)
    <3>1. more = [k \in 0..(n + 1) |-> more[k]]
      OBVIOUS
    <3> HIDE DEF more
    <3> QED BY <2>2, <3>1 DEF IsSelection
  <2> QED BY <2>3
<1>3. Nat \subseteq T
  <2> HIDE DEF T
  <2> QED BY <1>1, <1>2, NatSetInduction
<1> QED BY <1>3

LEMMA RacingIs ==
  ASSUME NEW s, NEW t, NEW cv, Len(s) \in Nat
  PROVE  \E f : IsSelection(f, s, t, cv, Len(s)) /\ Racing(s, t, cv) = f[Len(s)]
<1> DEFINE f == CHOOSE f : IsSelection(f, s, t, cv, Len(s))
<1>1. IsSelection(f, s, t, cv, Len(s))
  BY SelectionExists
<1>2. Racing(s, t, cv) = f[Len(s)]
  BY DEF Racing, IsSelection, SelectionStep
<1> QED BY <1>1, <1>2

\* The races after the first k of those found have been reported.
ReportStep(races, found, write, byte, act, tr, pend, x, k) ==
  IF x.asserted # {} THEN x
  ELSE checkDataRaces(
         [unrealized |-> x.unrealized \cup
            {RaceOf(found[k], act, write, byte)},
          asserted |-> {}],
         tr, pend)

IsReport(f, races, found, write, byte, act, tr, pend, n) ==
  f = [k \in 0..n |->
         IF k = 0 THEN races
         ELSE ReportStep(races, found, write, byte, act, tr, pend, f[k - 1], k)]

LEMMA ReportExists ==
  ASSUME NEW races, NEW found, NEW write, NEW byte, NEW act, NEW tr, NEW pend, NEW last \in Nat
  PROVE  \E f : IsReport(f, races, found, write, byte, act, tr, pend, last)
<1> DEFINE T == {n \in Nat : \E f : IsReport(f, races, found, write, byte, act, tr, pend, n)}
<1>1. 0 \in T
  <2> DEFINE f == [k \in 0..0 |-> races]
  <2>1. IsReport(f, races, found, write, byte, act, tr, pend, 0)
    BY DEF IsReport
  <2> QED BY <2>1
<1>2. ASSUME NEW n \in Nat, n \in T
      PROVE  n + 1 \in T
  <2>1. PICK f : IsReport(f, races, found, write, byte, act, tr, pend, n)
    BY <1>2
  <2> DEFINE more == [k \in 0..(n + 1) |->
                        IF k <= n THEN f[k]
                        ELSE ReportStep(races, found, write, byte, act, tr, pend, f[n], n + 1)]
  <2>2. ASSUME NEW k \in 0..(n + 1)
        PROVE  more[k] = IF k = 0 THEN races
                         ELSE ReportStep(races, found, write, byte, act, tr, pend, more[k - 1], k)
    <3>1. CASE k <= n /\ k = 0
      BY <2>1, <3>1 DEF IsReport
    <3>2. CASE k <= n /\ k # 0
      <4>1. k - 1 \in 0..n /\ k \in 0..n /\ k - 1 <= n /\ k - 1 \in 0..(n + 1)
        BY <3>2
      <4>2. f[k] = ReportStep(races, found, write, byte, act, tr, pend, f[k - 1], k)
        BY <2>1, <3>2, <4>1 DEF IsReport
      <4>3. more[k] = f[k] /\ more[k - 1] = f[k - 1]
        BY <3>2, <4>1
      <4> HIDE DEF more
      <4> QED BY <3>2, <4>2, <4>3
    <3>3. CASE k = n + 1
      <4>1. k # 0 /\ k - 1 = n /\ ~(k <= n) /\ n \in 0..(n + 1)
        BY <3>3
      <4>2. more[k] = ReportStep(races, found, write, byte, act, tr, pend, f[n], k) /\ more[n] = f[n]
        BY <3>3, <4>1
      <4> HIDE DEF more
      <4> QED BY <4>1, <4>2
    <3> QED BY <3>1, <3>2, <3>3
  <2>3. IsReport(more, races, found, write, byte, act, tr, pend, n + 1)
    <3>1. more = [k \in 0..(n + 1) |-> more[k]]
      OBVIOUS
    <3> HIDE DEF more
    <3> QED BY <2>2, <3>1 DEF IsReport
  <2> QED BY <2>3
<1>3. Nat \subseteq T
  <2> HIDE DEF T
  <2> QED BY <1>1, <1>2, NatSetInduction
<1> QED BY <1>3

LEMMA ReportedIs ==
  ASSUME NEW races, NEW found, NEW t, NEW write, NEW byte, Len(found) \in Nat
  PROVE  \E f : /\ IsReport(f, races, found, write, byte, get_parent_action(t),
                            trace, pending, Len(found))
                /\ Reported(races, found, t, write, byte) = f[Len(found)]
<1> DEFINE f == CHOOSE f : IsReport(f, races, found, write, byte, get_parent_action(t),
                                    trace, pending, Len(found))
<1>1. IsReport(f, races, found, write, byte, get_parent_action(t), trace, pending, Len(found))
  BY ReportExists
<1>2. Reported(races, found, t, write, byte) = f[Len(found)]
  BY DEF Reported, IsReport, ReportStep, RaceOf
<1> QED BY <1>1, <1>2

\* The actions up to k that action i reaches.
ClosureStep(edges, i, x, k) ==
  IF k = i \/ \E m \in x : <<m, k>> \in edges THEN x \cup {k} ELSE x

IsClosure(f, edges, i, n) ==
  f = [k \in 0..n |-> IF k = 0 THEN {} ELSE ClosureStep(edges, i, f[k - 1], k)]

LEMMA ClosureExists ==
  ASSUME NEW edges, NEW i, NEW last \in Nat
  PROVE  \E f : IsClosure(f, edges, i, last)
<1> DEFINE T == {n \in Nat : \E f : IsClosure(f, edges, i, n)}
<1>1. 0 \in T
  <2> DEFINE f == [k \in 0..0 |-> {}]
  <2>1. IsClosure(f, edges, i, 0)
    BY DEF IsClosure
  <2> QED BY <2>1
<1>2. ASSUME NEW n \in Nat, n \in T
      PROVE  n + 1 \in T
  <2>1. PICK f : IsClosure(f, edges, i, n)
    BY <1>2
  <2> DEFINE more == [k \in 0..(n + 1) |->
                        IF k <= n THEN f[k] ELSE ClosureStep(edges, i, f[n], n + 1)]
  <2>2. ASSUME NEW k \in 0..(n + 1)
        PROVE  more[k] = IF k = 0 THEN {} ELSE ClosureStep(edges, i, more[k - 1], k)
    <3>1. CASE k <= n /\ k = 0
      BY <2>1, <3>1 DEF IsClosure
    <3>2. CASE k <= n /\ k # 0
      <4>1. k - 1 \in 0..n /\ k \in 0..n /\ k - 1 <= n /\ k - 1 \in 0..(n + 1)
        BY <3>2
      <4>2. f[k] = ClosureStep(edges, i, f[k - 1], k)
        BY <2>1, <3>2, <4>1 DEF IsClosure
      <4>3. more[k] = f[k] /\ more[k - 1] = f[k - 1]
        BY <3>2, <4>1
      <4> HIDE DEF more
      <4> QED BY <3>2, <4>2, <4>3
    <3>3. CASE k = n + 1
      <4>1. k # 0 /\ k - 1 = n /\ ~(k <= n) /\ n \in 0..(n + 1)
        BY <3>3
      <4>2. more[k] = ClosureStep(edges, i, f[n], k) /\ more[n] = f[n]
        BY <3>3, <4>1
      <4> HIDE DEF more
      <4> QED BY <4>1, <4>2
    <3> QED BY <3>1, <3>2, <3>3
  <2>3. IsClosure(more, edges, i, n + 1)
    <3>1. more = [k \in 0..(n + 1) |-> more[k]]
      OBVIOUS
    <3> HIDE DEF more
    <3> QED BY <2>2, <3>1 DEF IsClosure
  <2> QED BY <2>3
<1>3. Nat \subseteq T
  <2> HIDE DEF T
  <2> QED BY <1>1, <1>2, NatSetInduction
<1> QED BY <1>3

LEMMA ReachedFromIs ==
  ASSUME NEW i, Len(trace) \in Nat
  PROVE  \E f : IsClosure(f, Edges, i, Len(trace)) /\ ReachedFrom(i) = f[Len(trace)]
<1> DEFINE f == CHOOSE f : IsClosure(f, Edges, i, Len(trace))
<1>1. IsClosure(f, Edges, i, Len(trace))
  BY ClosureExists
<1>2. ReachedFrom(i) = f[Len(trace)]
  BY DEF ReachedFrom, IsClosure, ClosureStep
<1> QED BY <1>1, <1>2

\* The records and the races after the first k bytes of an access.
CheckStep(races, t, write, first, x, k) ==
  IF x.races.asserted # {} THEN x ELSE CheckByte(x, t, write, first + k - 1)

IsCheck(f, races, t, write, first, n) ==
  f = [k \in 0..n |-> IF k = 0 THEN [shadow |-> shadow, races |-> races]
                       ELSE CheckStep(races, t, write, first, f[k - 1], k)]

LEMMA CheckExists ==
  ASSUME NEW races, NEW t, NEW write, NEW first, NEW last \in Nat
  PROVE  \E f : IsCheck(f, races, t, write, first, last)
<1> DEFINE T == {n \in Nat : \E f : IsCheck(f, races, t, write, first, n)}
<1>1. 0 \in T
  <2> DEFINE f == [k \in 0..0 |-> [shadow |-> shadow, races |-> races]]
  <2>1. IsCheck(f, races, t, write, first, 0)
    BY DEF IsCheck
  <2> QED BY <2>1
<1>2. ASSUME NEW n \in Nat, n \in T
      PROVE  n + 1 \in T
  <2>1. PICK f : IsCheck(f, races, t, write, first, n)
    BY <1>2
  <2> DEFINE more == [k \in 0..(n + 1) |->
                        IF k <= n THEN f[k] ELSE CheckStep(races, t, write, first, f[n], n + 1)]
  <2>2. ASSUME NEW k \in 0..(n + 1)
        PROVE  more[k] = IF k = 0 THEN [shadow |-> shadow, races |-> races]
                         ELSE CheckStep(races, t, write, first, more[k - 1], k)
    <3>1. CASE k <= n /\ k = 0
      BY <2>1, <3>1 DEF IsCheck
    <3>2. CASE k <= n /\ k # 0
      <4>1. k - 1 \in 0..n /\ k \in 0..n /\ k - 1 <= n /\ k - 1 \in 0..(n + 1)
        BY <3>2
      <4>2. f[k] = CheckStep(races, t, write, first, f[k - 1], k)
        BY <2>1, <3>2, <4>1 DEF IsCheck
      <4>3. more[k] = f[k] /\ more[k - 1] = f[k - 1]
        BY <3>2, <4>1
      <4> HIDE DEF more
      <4> QED BY <3>2, <4>2, <4>3
    <3>3. CASE k = n + 1
      <4>1. k # 0 /\ k - 1 = n /\ ~(k <= n) /\ n \in 0..(n + 1)
        BY <3>3
      <4>2. more[k] = CheckStep(races, t, write, first, f[n], k) /\ more[n] = f[n]
        BY <3>3, <4>1
      <4> HIDE DEF more
      <4> QED BY <4>1, <4>2
    <3> QED BY <3>1, <3>2, <3>3
  <2>3. IsCheck(more, races, t, write, first, n + 1)
    <3>1. more = [k \in 0..(n + 1) |-> more[k]]
      OBVIOUS
    <3> HIDE DEF more
    <3> QED BY <2>2, <3>1 DEF IsCheck
  <2> QED BY <2>3
<1>3. Nat \subseteq T
  <2> HIDE DEF T
  <2> QED BY <1>1, <1>2, NatSetInduction
<1> QED BY <1>3

LEMMA CheckedIs ==
  ASSUME NEW t, NEW write, NEW first, NEW width \in Nat
  PROVE  \E f : /\ IsCheck(f, [unrealized |-> unrealized, asserted |-> asserted], t, write,
                           first, width)
                /\ Checked(t, write, first, width) = f[width]
<1> DEFINE races == [unrealized |-> unrealized, asserted |-> asserted]
           f == CHOOSE f : IsCheck(f, races, t, write, first, width)
<1>1. IsCheck(f, races, t, write, first, width)
  BY CheckExists
<1>2. Checked(t, write, first, width) = f[width]
  BY DEF Checked, IsCheck, CheckStep
<1> QED BY <1>1, <1>2

LEMMA RacingHolds ==
  ASSUME NEW s \in Seq(Entries), NEW t, NEW cv
  PROVE  Selected(Racing(s, t, cv), s, t, cv)
<1> DEFINE May(m) == clock_may_race(cv, t, s[m].clock, s[m].tid)
           Good(x, n) ==
             /\ x \in Seq(Entries) /\ Len(x) <= n
             /\ \A k \in 1..Len(x) : \E m \in 1..n : x[k] = s[m] /\ May(m)
             /\ \A m \in 1..n : May(m) => \E k \in 1..Len(x) : x[k] = s[m]
<1>1. Len(s) \in Nat /\ \A m \in 1..Len(s) : s[m] \in Entries
  OBVIOUS
<1>2. PICK f : IsSelection(f, s, t, cv, Len(s)) /\ Racing(s, t, cv) = f[Len(s)]
  BY <1>1, RacingIs
<1>3. \A k \in 0..Len(s) : f[k] = IF k = 0 THEN <<>> ELSE SelectionStep(s, t, cv, f[k - 1], k)
  BY <1>1, <1>2 DEF IsSelection
<1> DEFINE T == {n \in Nat : n <= Len(s) => Good(f[n], n)}
<1>4. 0 \in T
  <2>1. f[0] = <<>>
    BY <1>1, <1>3
  <2>2. <<>> \in Seq(Entries) /\ Len(<<>>) = 0 /\ 1..0 = {}
    OBVIOUS
  <2>3. Good(f[0], 0)
    <3> HIDE DEF May
    <3> QED BY <2>1, <2>2
  <2> QED BY <2>3
<1>5. ASSUME NEW n \in Nat, n \in T
      PROVE  n + 1 \in T
  <2> SUFFICES ASSUME n + 1 <= Len(s) PROVE Good(f[n + 1], n + 1)
    <3> HIDE DEF Good
    <3> QED OBVIOUS
  <2>1. Good(f[n], n)
    <3> HIDE DEF Good
    <3> QED BY <1>1, <1>5
  <2>2. f[n + 1] = SelectionStep(s, t, cv, f[n], n + 1)
    <3>1. n + 1 \in 0..Len(s) /\ n + 1 # 0 /\ (n + 1) - 1 = n
      BY <1>1
    <3> QED BY <1>3, <3>1
  <2>3. s[n + 1] \in Entries /\ 1..(n + 1) = (1..n) \cup {n + 1}
    BY <1>1
  <2> DEFINE x == f[n]
             y == f[n + 1]
  <2>4. y = IF May(n + 1) THEN Append(x, s[n + 1]) ELSE x
    BY <2>2 DEF SelectionStep
  <2> HIDE DEF x, y, May
  <2>5. Good(x, n)
    BY <2>1 DEF x
  <2>6. CASE May(n + 1)
    <3>1. /\ y \in Seq(Entries) /\ Len(y) = Len(x) + 1 /\ Len(x) \in Nat
          /\ y[Len(x) + 1] = s[n + 1] /\ \A k \in 1..Len(x) : y[k] = x[k]
      BY <2>3, <2>4, <2>5, <2>6, AppendProperties
    <3>2. 1..Len(y) = 1..Len(x) \cup {Len(x) + 1}
      BY <3>1
    <3>3. \A k \in 1..Len(y) : \E m \in 1..(n + 1) : y[k] = s[m] /\ May(m)
      BY <2>3, <2>5, <2>6, <3>1, <3>2
    <3>4. \A m \in 1..(n + 1) : May(m) => \E k \in 1..Len(y) : y[k] = s[m]
      BY <2>3, <2>5, <3>1, <3>2
    <3>5. Len(y) <= n + 1
      BY <2>5, <3>1
    <3> QED BY <3>1, <3>3, <3>4, <3>5 DEF y
  <2>7. CASE ~May(n + 1)
    <3>1. y = x
      BY <2>4, <2>7
    <3>2. \A m \in 1..(n + 1) : May(m) => \E k \in 1..Len(y) : y[k] = s[m]
      BY <2>3, <2>5, <2>7, <3>1
    <3>3. \A k \in 1..Len(y) : \E m \in 1..(n + 1) : y[k] = s[m] /\ May(m)
      BY <2>3, <2>5, <3>1
    <3>4. y \in Seq(Entries) /\ Len(y) <= n + 1
      BY <2>5, <3>1
    <3> QED BY <3>2, <3>3, <3>4 DEF y
  <2> QED BY <2>6, <2>7
<1>6. Nat \subseteq T
  <2> HIDE DEF T
  <2> QED BY <1>4, <1>5, NatSetInduction
<1>7. Good(f[Len(s)], Len(s))
  BY <1>1, <1>6
<1> HIDE DEF May
<1>8. Selected(f[Len(s)], s, t, cv)
  BY <1>7 DEF Selected, May
<1> QED BY <1>2, <1>8

LEMMA ReportedHolds ==
  ASSUME NEW races, IsRaces(races), races.asserted = {},
         NEW un, un = races.unrealized, NEW found, NEW t, NEW write, NEW byte, Len(found) \in Nat,
         pending = {} => un = {},
         NEW act, act = get_parent_action(t),
         AllMayRace(found, act),
         NEW res,
         res = Reported(races, found, t, write, byte)
  PROVE  Settled(res, un, found, act, write, byte)
<1> DEFINE Race(k) == RaceOf(found[k], act, write, byte)
           found2 == {Race(k) : k \in 1..Len(found)}
           Good(x, n) ==
             /\ IsRaces(x)
             /\ x.unrealized \cup x.asserted \subseteq un \cup found2
             /\ \A race \in x.asserted : StillRaces(race, trace)
             /\ pending = {} => x.unrealized = {}
             /\ x.asserted # {} => pending = {}
             /\ x.asserted = {} => un \subseteq x.unrealized /\ \A k \in 1..n : Race(k) \in x.unrealized
<1>1. PICK f : /\ IsReport(f, races, found, write, byte, act, trace, pending, Len(found))
               /\ res = f[Len(found)]
  BY ReportedIs
<1>2. \A k \in 0..Len(found) :
        f[k] = IF k = 0 THEN races
               ELSE ReportStep(races, found, write, byte, act, trace, pending, f[k - 1], k)
  BY <1>1 DEF IsReport
<1> DEFINE T == {n \in Nat : n <= Len(found) => Good(f[n], n)}
<1>3. 0 \in T
  <2>1. f[0] = races
    <3>1. 0 \in 0..Len(found)
      OBVIOUS
    <3> QED BY <1>2, <3>1
  <2> QED BY <2>1
<1>4. ASSUME NEW n \in Nat, n \in T
      PROVE  n + 1 \in T
  <2> SUFFICES ASSUME n + 1 <= Len(found) PROVE Good(f[n + 1], n + 1)
    OBVIOUS
  <2> DEFINE x == f[n]
             y == f[n + 1]
  <2>1. Good(x, n)
    BY <1>4
  <2>2. y = ReportStep(races, found, write, byte, act, trace, pending, x, n + 1)
    <3>1. n + 1 \in 0..Len(found) /\ n + 1 # 0 /\ (n + 1) - 1 = n
      OBVIOUS
    <3> QED BY <1>2, <3>1
  <2>3. 1..(n + 1) = (1..n) \cup {n + 1} /\ n + 1 \in 1..Len(found)
    OBVIOUS
  <2>4. StillRaces(Race(n + 1), trace)
    BY <2>3 DEF StillRaces, RaceOf, AllMayRace
  <2>5. Race(n + 1) \in found2
    BY <2>3
  <2> DEFINE race == Race(n + 1)
  <2>6. y = IF x.asserted # {} THEN x
            ELSE checkDataRaces([unrealized |-> x.unrealized \cup {race}, asserted |-> {}],
                                trace, pending)
    BY <2>2 DEF ReportStep
  <2> HIDE DEF x, y
  <2>7. CASE x.asserted # {}
    <3>1. y = x
      BY <2>6, <2>7
    <3> QED BY <2>1, <2>7, <3>1 DEF y
  <2>8. CASE x.asserted = {} /\ pending # {}
    <3>1. y = [unrealized |-> x.unrealized \cup {race}, asserted |-> {}]
      BY <2>6, <2>8 DEF checkDataRaces, isfeasibleprefix
    <3>2. un \subseteq y.unrealized /\ \A k \in 1..n : Race(k) \in y.unrealized
      BY <2>1, <2>8, <3>1
    <3>3. \A k \in 1..(n + 1) : Race(k) \in y.unrealized
      BY <2>3, <3>1, <3>2
    <3>4. y.unrealized \cup y.asserted \subseteq un \cup found2
      BY <2>1, <2>5, <3>1
    <3> QED BY <2>8, <3>1, <3>2, <3>3, <3>4 DEF y, IsRaces
  <2>9. CASE x.asserted = {} /\ pending = {}
    <3>1. y = Judged([unrealized |-> x.unrealized \cup {race}, asserted |-> {}], trace)
      BY <2>6, <2>9 DEF checkDataRaces, isfeasibleprefix
    <3>2. x.unrealized = {}
      BY <2>1, <2>9
    <3>3. y = [unrealized |-> {}, asserted |-> {r \in {race} : StillRaces(r, trace)}]
      BY <3>1, <3>2 DEF Judged
    <3>4. y = [unrealized |-> {}, asserted |-> {race}]
      BY <2>4, <3>3
    <3> QED BY <2>4, <2>5, <2>9, <3>4 DEF y, IsRaces
  <2> QED BY <2>7, <2>8, <2>9
<1>5. Nat \subseteq T
  <2> HIDE DEF T
  <2> QED BY <1>3, <1>4, NatSetInduction
<1>6. Good(res, Len(found))
  <2>1. Len(found) \in T
    BY <1>5
  <2> HIDE DEF Good
  <2>2. Good(f[Len(found)], Len(found))
    BY <2>1
  <2> QED BY <1>1, <2>2
<1>7. /\ IsRaces(res)
      /\ \A race \in res.unrealized \cup res.asserted :
           \/ race \in un
           \/ \E k \in 1..Len(found) : race = Race(k)
      /\ \A race \in res.asserted : StillRaces(race, trace)
      /\ pending = {} => res.unrealized = {}
      /\ res.asserted # {} => pending = {}
  <2> HIDE DEF Race
  <2> QED BY <1>6
<1>8. res.asserted = {} => un \subseteq res.unrealized /\ \A k \in 1..Len(found) : Race(k) \in res.unrealized
  <2> HIDE DEF Race
  <2> QED BY <1>6
<1> QED BY <1>7, <1>8 DEF Settled

-----------------------------------------------------------------------------
(***************************************************************************)
(* One access of one byte.                                                 *)
(***************************************************************************)
LEMMA AfterHolds ==
  ASSUME NEW A, NEW b, NEW r, RecordOK(A, b, r), CapacityOK(A, r),
         NEW t \in Threads, NEW cv \in [Threads -> Nat], cv[t] # 0, NEW write \in BOOLEAN,
         NEW y, y = AccessBy(t, cv[t], write, b),
         NEW A2, A2 = A \cup {y},
         NEW r2, r2 = After(r, t, cv, write)
  PROVE  /\ RecordOK(A2, b, r2)
         /\ CapacityOK(A2, r2)
         /\ Updated(r2, r, t, cv, write)
<1> DEFINE mine == Recorded(t, cv, write)
           kept == Racing(r.reads, t, cv)
<1>1. r.reads \in Seq(Entries) /\ Len(r.reads) \in Nat /\ r.capacity \in Nat
  BY DEF RecordOK
<1>2. mine \in Entries /\ AccessOf(mine, b) = y /\ mine.write = write
  BY DataRaceAssumption DEF Recorded, Entries, AccessOf, AccessBy, Threads
<1>3. TooLarge(t, cv) => Large(A2)
  BY DEF TooLarge, Large, AccessBy
<1>4. Large(A) => Large(A2)
  BY DEF Large
<1>5. InitCapacity \in Nat /\ InitCapacity >= 1
  BY DataRaceAssumption
<1>6. CASE write
  <2>1. PICK full \in BOOLEAN, cap \in Nat :
          /\ r2 = [full |-> full, reads |-> <<>>, write |-> mine, capacity |-> cap]
          /\ Large(A2) \/ cap >= 1
    <3>1. CASE r.full
      <4>1. r2 = [full |-> TRUE, reads |-> <<>>, write |-> mine, capacity |-> r.capacity]
        BY <1>6, <3>1 DEF After, AfterWrite, Full
      <4>2. Large(A2) \/ r.capacity >= 1
        BY <1>4 DEF CapacityOK
      <4> HIDE DEF mine
      <4> QED BY <1>1, <4>1, <4>2
    <3>2. CASE ~r.full /\ TooLarge(t, cv)
      <4>1. r2 = [full |-> TRUE, reads |-> <<>>, write |-> mine,
                  capacity |-> IF r.reads = <<>> THEN 0 ELSE InitCapacity]
        BY <1>6, <3>2 DEF After, AfterWrite, Full, expandRecord
      <4>2. (IF r.reads = <<>> THEN 0 ELSE InitCapacity) \in Nat
        BY <1>5
      <4> HIDE DEF mine
      <4> QED BY <1>3, <3>2, <4>1, <4>2
    <3>3. CASE ~r.full /\ ~TooLarge(t, cv)
      <4>1. r2 = [full |-> FALSE, reads |-> <<>>, write |-> mine, capacity |-> 1]
        BY <1>6, <3>3 DEF After, AfterWrite, Short
      <4> HIDE DEF mine
      <4> WITNESS FALSE \in BOOLEAN, 1 \in Nat
      <4> QED BY <4>1
    <3> QED BY <3>1, <3>2, <3>3
  <2> HIDE DEF mine
  <2>2. <<>> \in Seq(Entries) /\ Len(<<>>) = 0
    OBVIOUS
  <2>3. r2.full = full /\ r2.reads = <<>> /\ r2.write = mine /\ r2.capacity = cap
    BY <2>1
  <2>4. r2 = [full |-> r2.full, reads |-> r2.reads, write |-> r2.write, capacity |-> r2.capacity]
    BY <2>1, <2>3
  <2>5. RecordOK(A2, b, r2)
    <3>1. \A k \in 1..Len(r2.reads) : ~r2.reads[k].write /\ AccessOf(r2.reads[k], b) \in A2
      BY <2>2, <2>3
    <3>2. r2.write.write /\ AccessOf(r2.write, b) \in A2
      BY <1>2, <1>6, <2>3
    <3>3. /\ r2.full \in BOOLEAN /\ r2.capacity \in Nat
          /\ r2.reads \in Seq(Entries) /\ r2.write \in Entries
      BY <1>2, <2>2, <2>3
    <3>4. Len(r2.reads) <= 1
      BY <2>2, <2>3
    <3> QED BY <2>4, <3>1, <3>2, <3>3, <3>4 DEF RecordOK
  <2>6. CapacityOK(A2, r2)
    BY <2>1, <2>2, <2>3 DEF CapacityOK
  <2>7. mine = Recorded(t, cv, TRUE)
    BY <1>6 DEF mine
  <2> QED BY <1>6, <2>3, <2>5, <2>6, <2>7 DEF Updated
<1>7. CASE ~write
  <2>1. /\ kept \in Seq(Entries) /\ Len(kept) \in Nat /\ Len(kept) <= Len(r.reads)
        /\ \A k \in 1..Len(kept) : \E m \in 1..Len(r.reads) : kept[k] = r.reads[m]
    <3> DEFINE s == r.reads
               x == Racing(s, t, cv)
    <3>1. s \in Seq(Entries)
      BY <1>1
    <3> HIDE DEF s
    <3>2. Selected(x, s, t, cv)
      BY <3>1, RacingHolds
    <3> HIDE DEF x
    <3>3. x \in Seq(Entries) /\ Len(x) <= Len(s)
      BY <3>2 DEF Selected
    <3>4. \A k \in 1..Len(x) : \E m \in 1..Len(s) : x[k] = s[m]
      BY <3>2 DEF Selected
    <3> QED BY <3>3, <3>4 DEF s, x
  <2> HIDE DEF mine, kept
  <2>2. /\ Append(kept, mine) \in Seq(Entries) /\ Len(Append(kept, mine)) = Len(kept) + 1
        /\ Append(kept, mine)[Len(kept) + 1] = mine
        /\ \A k \in 1..Len(kept) : Append(kept, mine)[k] = kept[k]
    BY <1>2, <2>1, AppendProperties
  <2>3. PICK full \in BOOLEAN, cap \in Nat :
          /\ r2 = [full |-> full, reads |-> Append(kept, mine), write |-> r.write, capacity |-> cap]
          /\ Large(A2) \/ (Len(kept) + 1 <= cap /\ cap >= 1)
          /\ full \/ Len(kept) = 0
    <3> DEFINE Enlarged(c) == IF Len(kept) >= c THEN 2 * c ELSE c
    <3>1. \A c \in Nat : /\ Enlarged(c) \in Nat
                         /\ (Len(kept) <= c /\ c >= 1) => Len(kept) + 1 <= Enlarged(c) /\ Enlarged(c) >= 1
      BY <2>1
    <3>2. CASE r.full
      <4>1. r2 = [full |-> TRUE, reads |-> Append(kept, mine), write |-> r.write,
                  capacity |-> Enlarged(r.capacity)]
        BY <1>7, <3>2 DEF After, AfterRead, FullAfterRead, Full, mine, kept
      <4>2. Large(A2) \/ (Len(kept) <= r.capacity /\ r.capacity >= 1)
        BY <1>1, <1>4, <2>1 DEF CapacityOK
      <4> HIDE DEF Enlarged
      <4>3. Enlarged(r.capacity) \in Nat
        BY <1>1, <3>1
      <4>4. Large(A2) \/ (Len(kept) + 1 <= Enlarged(r.capacity) /\ Enlarged(r.capacity) >= 1)
        BY <1>1, <3>1, <4>2
      <4> QED BY <4>1, <4>3, <4>4
    <3>3. CASE ~r.full /\ (TooLarge(t, cv) \/ kept # <<>>)
      <4> DEFINE c == IF r.reads = <<>> THEN 0 ELSE InitCapacity
      <4>1. r2 = [full |-> TRUE, reads |-> Append(kept, mine), write |-> r.write,
                  capacity |-> Enlarged(c)]
        BY <1>7, <3>3 DEF After, AfterRead, FullAfterRead, expandRecord, Full, mine, kept
      <4>2. c \in Nat
        BY <1>5
      <4>3. TooLarge(t, cv) \/ (Len(kept) <= c /\ c >= 1)
        <5>1. SUFFICES ASSUME kept # <<>> PROVE Len(kept) <= c /\ c >= 1
          BY <3>3
        <5>2. Len(kept) # 0
          BY <2>1, <5>1, EmptySeq
        <5>3. Len(r.reads) = 1 /\ r.reads # <<>>
          <6>1. Len(r.reads) <= 1
            BY <3>3 DEF RecordOK
          <6>2. Len(kept) \in Nat /\ Len(kept) <= Len(r.reads)
            BY <2>1
          <6>3. Len(r.reads) = 1
            <7> DEFINE m == Len(kept)
                       n == Len(r.reads)
            <7>1. m \in Nat /\ n \in Nat /\ m # 0 /\ m <= n /\ n <= 1
              BY <1>1, <5>2, <6>1, <6>2
            <7> HIDE DEF m, n
            <7>2. n = 1
              BY <7>1
            <7> QED BY <7>2 DEF n
          <6>4. r.reads = <<>> => Len(r.reads) = 0
            OBVIOUS
          <6> QED BY <6>3, <6>4
        <5> QED BY <1>5, <2>1, <5>2, <5>3
      <4> HIDE DEF c, Enlarged
      <4>4. Enlarged(c) \in Nat
        BY <3>1, <4>2
      <4>5. Large(A2) \/ (Len(kept) + 1 <= Enlarged(c) /\ Enlarged(c) >= 1)
        BY <1>3, <3>1, <4>2, <4>3
      <4> QED BY <4>1, <4>4, <4>5
    <3>4. CASE ~r.full /\ ~TooLarge(t, cv) /\ kept = <<>>
      <4>1. r2 = [full |-> FALSE, reads |-> <<mine>>, write |-> r.write, capacity |-> 1]
        BY <1>7, <3>4 DEF After, AfterRead, Short, mine, kept
      <4>2. Len(kept) = 0
        BY <3>4
      <4>3. Append(kept, mine) = <<mine>>
        BY <3>4
      <4> WITNESS FALSE \in BOOLEAN, 1 \in Nat
      <4> QED BY <4>1, <4>2, <4>3
    <3> QED BY <3>2, <3>3, <3>4
  <2>4. /\ r2.full = full /\ r2.reads = Append(kept, mine) /\ r2.write = r.write
        /\ r2.capacity = cap
    BY <2>3
  <2>5. \A k \in 1..Len(r2.reads) : ~r2.reads[k].write /\ AccessOf(r2.reads[k], b) \in A2
    <3> TAKE k \in 1..Len(r2.reads)
    <3>1. CASE k \in 1..Len(kept)
      <4>1. PICK m \in 1..Len(r.reads) : r2.reads[k] = r.reads[m]
        BY <2>1, <2>2, <2>4, <3>1
      <4> QED BY <4>1 DEF RecordOK
    <3>2. CASE k = Len(kept) + 1
      BY <1>2, <1>7, <2>2, <2>4, <3>2
    <3> QED BY <2>1, <2>2, <2>4, <3>1, <3>2
  <2>6. RecordOK(A2, b, r2)
    <3>1. /\ r2.full \in BOOLEAN /\ r2.capacity \in Nat /\ r2.reads \in Seq(Entries)
          /\ r2.write = r.write
          /\ r2 = [full |-> r2.full, reads |-> r2.reads, write |-> r2.write, capacity |-> r2.capacity]
      BY <2>2, <2>3, <2>4
    <3>2. ~r2.full => Len(r2.reads) <= 1
      BY <2>1, <2>2, <2>3, <2>4
    <3> QED BY <2>5, <3>1, <3>2 DEF RecordOK
  <2>7. CapacityOK(A2, r2)
    BY <2>2, <2>3, <2>4 DEF CapacityOK
  <2>8. mine = Recorded(t, cv, FALSE) /\ kept = Racing(r.reads, t, cv)
    BY <1>7 DEF mine, kept
  <2> QED BY <1>7, <2>4, <2>6, <2>7, <2>8 DEF Updated
<1> QED BY <1>6, <1>7

\* After an access is recorded, every access of the byte still comes before
\* one the record holds, and the conflicting ones are ordered.
LEMMA CoverHolds ==
  ASSUME NEW tr, ClocksOK(tr),
         NEW A, NEW b, NEW r, RecordOK(A, b, r),
         NEW t \in Threads, NEW p, LastOf(tr, t, p), NEW cv, cv = tr[p].cv,
         NEW write \in BOOLEAN,
         NEW y, y = AccessBy(t, p, write, b),
         NEW A2, A2 = A \cup {y}, AccessesOK(tr, A2),
         NEW un, NEW R, MayBecome(R, tr, un, A2),
         Covered(R, A, b, r),
         Noted(un, Compared(r, write), t, cv, b, y),
         NEW r2, RecordOK(A2, b, r2), Updated(r2, r, t, cv, write)
  PROVE  Covered(R, A2, b, r2)
<1>n. \A m \in 1..Len(Compared(r, write)) :
        clock_may_race(cv, t, Compared(r, write)[m].clock, Compared(r, write)[m].tid) =>
          Kept(un, AccessOf(Compared(r, write)[m], b), y)
  BY DEF Noted
<1>u. /\ write => r2.reads = <<>> /\ r2.write = Recorded(t, cv, TRUE)
      /\ ~write => /\ r2.write = r.write
                   /\ r2.reads = Append(Racing(r.reads, t, cv), Recorded(t, cv, FALSE))
  BY DEF Updated
<1>t. /\ Len(tr) \in Nat /\ DOMAIN tr = 1..Len(tr) /\ \A i \in DOMAIN tr : tr[i] \in Actions
  BY DEF ClocksOK
<1>p. p \in DOMAIN tr /\ tr[p].tid = t /\ \A i \in DOMAIN tr : tr[i].tid = t => i <= p
  BY DEF LastOf
<1>v. cv[t] = p
  BY <1>p DEF ClocksOK
<1>1. r.reads \in Seq(Entries) /\ Len(r.reads) \in Nat /\ r.write \in Entries
  BY DEF RecordOK
<1>2. \A x, z \in A2 : Ordered(tr, x, z) \/ Kept(un, x, z) => <<x, z>> \in R
  BY DEF MayBecome
<1>3. \A x, w, z \in A2 : <<x, w>> \in R /\ <<w, z>> \in R => <<x, z>> \in R
  BY DEF MayBecome
<1>4. y \in A2 /\ A \subseteq A2 /\ p \in Nat /\ p # 0
  BY <1>p, <1>t
<1>5. y.tid = t /\ y.at = p /\ y.write = write /\ y.byte = b
  BY DEF AccessBy
<1>6. <<y, y>> \in R
  <2>1. Ordered(tr, y, y)
    BY <1>4, <1>5 DEF Ordered
  <2> QED BY <1>2, <1>4, <2>1
\* An entry that is no race, or whose race is kept aside, comes before y.
<1>7. \A e \in Entries :
        /\ AccessOf(e, b) \in A
        /\ ~clock_may_race(cv, t, e.clock, e.tid) \/ Kept(un, AccessOf(e, b), y)
        => <<AccessOf(e, b), y>> \in R
  <2> SUFFICES ASSUME NEW e \in Entries, AccessOf(e, b) \in A,
                      ~clock_may_race(cv, t, e.clock, e.tid)
               PROVE  Ordered(tr, AccessOf(e, b), y)
    BY <1>2, <1>4
  <2>1. /\ AccessOf(e, b).tid = e.tid /\ AccessOf(e, b).at = e.clock
    BY DEF AccessOf, AccessBy
  <2>2. e.clock \in DOMAIN tr /\ tr[e.clock].tid = e.tid /\ e.tid \in Threads
    BY <1>4, <2>1 DEF AccessesOK
  <2>3. e.clock \in Nat /\ e.clock # 0
    BY <1>t, <2>2
  <2>4. CASE e.tid = t
    BY <1>5, <1>p, <2>1, <2>2, <2>4 DEF Ordered
  <2>5. CASE e.tid # t
    <3>1. ~(cv[e.tid] <= e.clock)
      BY <2>3, <2>5 DEF clock_may_race
    <3>2. cv[e.tid] \in Nat
      BY <1>p, <1>t, <2>2 DEF Actions
    <3>3. cv[e.tid] > e.clock
      BY <2>3, <3>1, <3>2
    <3> QED BY <1>5, <2>1, <2>5, <3>3 DEF Ordered
  <2> QED BY <2>4, <2>5
<1>8. \A a \in A : a.byte = b =>
        \/ r.write.clock # 0 /\ <<a, AccessOf(r.write, b)>> \in R
        \/ ~a.write /\ \E k \in 1..Len(r.reads) : <<a, AccessOf(r.reads[k], b)>> \in R
  BY DEF Covered
<1>9. \A a \in A : (a.byte = b /\ a.write) =>
        r.write.clock # 0 /\ <<a, AccessOf(r.write, b)>> \in R
  BY DEF Covered
<1>10. r.write.clock # 0 => AccessOf(r.write, b) \in A
  BY DEF RecordOK
<1>11. \A k \in 1..Len(r.reads) : r.reads[k] \in Entries /\ AccessOf(r.reads[k], b) \in A
  BY <1>1 DEF RecordOK
<1>12. r.write.clock # 0 => <<AccessOf(r.write, b), y>> \in R
  <2>1. \E m \in 1..Len(Compared(r, write)) : Compared(r, write)[m] = r.write
    <3>1. CASE write
      <4>1. /\ Len(Append(r.reads, r.write)) = Len(r.reads) + 1
            /\ Append(r.reads, r.write)[Len(r.reads) + 1] = r.write
        BY <1>1, AppendProperties
      <4>2. Compared(r, write) = Append(r.reads, r.write)
        BY <3>1 DEF Compared
      <4> QED BY <1>1, <4>1, <4>2
    <3>2. CASE ~write
      BY <3>2 DEF Compared
    <3> QED BY <3>1, <3>2
  <2> QED BY <1>1, <1>7, <1>10, <1>n, <2>1
<1>13. \A a \in A : a.byte = b /\ (write \/ a.write) => <<a, y>> \in R
  <2> SUFFICES ASSUME NEW a \in A, a.byte = b, write \/ a.write PROVE <<a, y>> \in R
    OBVIOUS
  <2>1. CASE r.write.clock # 0 /\ <<a, AccessOf(r.write, b)>> \in R
    BY <1>3, <1>4, <1>10, <1>12, <2>1
  <2>2. CASE write /\ \E k \in 1..Len(r.reads) : <<a, AccessOf(r.reads[k], b)>> \in R
    <3>1. PICK k \in 1..Len(r.reads) : <<a, AccessOf(r.reads[k], b)>> \in R
      BY <2>2
    <3>2. k \in 1..Len(Compared(r, write)) /\ Compared(r, write)[k] = r.reads[k]
      <4>1. /\ Len(Append(r.reads, r.write)) = Len(r.reads) + 1
            /\ Append(r.reads, r.write)[k] = r.reads[k]
        BY <1>1, AppendProperties
      <4>2. Compared(r, write) = Append(r.reads, r.write)
        BY <2>2 DEF Compared
      <4> QED BY <1>1, <4>1, <4>2
    <3>3. clock_may_race(cv, t, r.reads[k].clock, r.reads[k].tid) =>
            Kept(un, AccessOf(r.reads[k], b), y)
      BY <1>n, <3>2
    <3>4. <<AccessOf(r.reads[k], b), y>> \in R
      BY <1>7, <1>11, <3>3
    <3> QED BY <1>3, <1>4, <1>11, <3>1, <3>4
  <2> QED BY <1>8, <1>9, <2>1, <2>2
<1>14. \A a, c \in A2 : (a.byte = b /\ c.byte = b /\ (a.write \/ c.write)) =>
         <<a, c>> \in R \/ <<c, a>> \in R
  <2>1. \A a, c \in A : (a.byte = b /\ c.byte = b /\ (a.write \/ c.write)) =>
          <<a, c>> \in R \/ <<c, a>> \in R
    BY DEF Covered
  <2>2. \A a \in A : (a.byte = b /\ (a.write \/ y.write)) => <<a, y>> \in R
    BY <1>5, <1>13
  <2> QED BY <1>6, <2>1, <2>2
<1>15. CASE write
  <2>1. r2.write.clock # 0 /\ AccessOf(r2.write, b) = y
    <3>1. r2.write = [tid |-> t, clock |-> p, write |-> write]
      <4>1. write = TRUE
        BY <1>15
      <4>2. r2.write = [tid |-> t, clock |-> cv[t], write |-> TRUE]
        BY <1>15, <1>u DEF Recorded
      <4> QED BY <1>v, <4>1, <4>2
    <3> QED BY <1>4, <3>1 DEF AccessOf, AccessBy
  <2>2. \A a \in A2 : a.byte = b => <<a, AccessOf(r2.write, b)>> \in R
    BY <1>6, <1>13, <1>15, <2>1
  <2> QED BY <1>14, <2>1, <2>2 DEF Covered
<1>16. CASE ~write
  <2> DEFINE mine == Recorded(t, cv, FALSE)
             kept == Racing(r.reads, t, cv)
  <2>1. AccessOf(mine, b) = y /\ mine \in Entries
    <3>1. mine = [tid |-> t, clock |-> p, write |-> write]
      <4>1. write = FALSE
        BY <1>16
      <4>2. mine = [tid |-> t, clock |-> cv[t], write |-> FALSE]
        BY DEF Recorded
      <4> HIDE DEF mine
      <4> QED BY <1>v, <4>1, <4>2
    <3>2. t \in Nat
      BY DataRaceAssumption DEF Threads
    <3> HIDE DEF mine
    <3> QED BY <1>4, <3>1, <3>2 DEF AccessOf, AccessBy, Entries
  <2>2. /\ kept \in Seq(Entries)
        /\ \A m \in 1..Len(r.reads) : clock_may_race(cv, t, r.reads[m].clock, r.reads[m].tid) =>
             \E k \in 1..Len(kept) : kept[k] = r.reads[m]
    <3> DEFINE s == r.reads
    <3>1. s \in Seq(Entries)
      BY <1>1
    <3> HIDE DEF s
    <3>2. Selected(Racing(s, t, cv), s, t, cv)
      BY <3>1, RacingHolds
    <3> QED BY <3>2 DEF s, Selected
  <2> HIDE DEF mine, kept
  <2>3. r2.write = r.write /\ r2.reads = Append(kept, mine)
    BY <1>16, <1>u DEF mine, kept
  <2>4. /\ Len(r2.reads) = Len(kept) + 1 /\ Len(kept) \in Nat
        /\ r2.reads[Len(kept) + 1] = mine
        /\ \A k \in 1..Len(kept) : r2.reads[k] = kept[k]
    BY <2>1, <2>2, <2>3, AppendProperties
  <2>5. \E k \in 1..Len(r2.reads) : AccessOf(r2.reads[k], b) = y
    BY <2>1, <2>4
  <2>6. \A a \in A2 : (a.byte = b /\ a.write) =>
          r2.write.clock # 0 /\ <<a, AccessOf(r2.write, b)>> \in R
    BY <1>5, <1>9, <1>16, <2>3
  <2>7. \A a \in A2 : a.byte = b /\ ~a.write =>
          \/ r2.write.clock # 0 /\ <<a, AccessOf(r2.write, b)>> \in R
          \/ \E k \in 1..Len(r2.reads) : <<a, AccessOf(r2.reads[k], b)>> \in R
    <3> SUFFICES ASSUME NEW a \in A2, a.byte = b, ~a.write
                 PROVE  \/ r2.write.clock # 0 /\ <<a, AccessOf(r2.write, b)>> \in R
                        \/ \E k \in 1..Len(r2.reads) : <<a, AccessOf(r2.reads[k], b)>> \in R
      OBVIOUS
    <3>1. CASE a = y
      BY <1>6, <2>5, <3>1
    <3>2. CASE a \in A /\ r.write.clock # 0 /\ <<a, AccessOf(r.write, b)>> \in R
      BY <2>3, <3>2
    <3>3. CASE a \in A /\ \E k \in 1..Len(r.reads) : <<a, AccessOf(r.reads[k], b)>> \in R
      <4>1. PICK k \in 1..Len(r.reads) : <<a, AccessOf(r.reads[k], b)>> \in R
        BY <3>3
      <4>2. CASE clock_may_race(cv, t, r.reads[k].clock, r.reads[k].tid)
        <5>1. PICK m \in 1..Len(kept) : kept[m] = r.reads[k]
          BY <2>2, <4>2
        <5>2. m \in 1..Len(r2.reads) /\ r2.reads[m] = r.reads[k]
          BY <2>4, <5>1
        <5> QED BY <4>1, <5>2
      <4>3. CASE ~clock_may_race(cv, t, r.reads[k].clock, r.reads[k].tid)
        <5>1. <<AccessOf(r.reads[k], b), y>> \in R
          BY <1>7, <1>11, <4>3
        <5>2. <<a, y>> \in R
          BY <1>3, <1>4, <1>11, <3>3, <4>1, <5>1
        <5> QED BY <2>5, <5>2
      <4> QED BY <4>2, <4>3
    <3> QED BY <1>8, <3>1, <3>2, <3>3
  <2> QED BY <1>14, <2>6, <2>7 DEF Covered
<1> QED BY <1>15, <1>16

LEMMA RaceStays ==
  ASSUME NEW tr, NEW race, NEW A, RaceOK(tr, race, A), NEW A2, A \subseteq A2
  PROVE  RaceOK(tr, race, A2)
BY DEF RaceOK

LEMMA RecordStays ==
  ASSUME NEW A, NEW A2, A \subseteq A2, NEW b, NEW r, RecordOK(A, b, r), CapacityOK(A, r)
  PROVE  RecordOK(A2, b, r) /\ CapacityOK(A2, r)
<1>1. RecordOK(A2, b, r)
  BY DEF RecordOK
<1>2. CapacityOK(A2, r)
  BY DEF CapacityOK, Large
<1> QED BY <1>1, <1>2

LEMMA MayHaveBecome ==
  ASSUME NEW R, NEW tr, NEW un, NEW A, NEW un2, NEW A2,
         MayBecome(R, tr, un2, A2), A \subseteq A2, un \subseteq un2
  PROVE  MayBecome(R, tr, un, A)
<1>1. \A x, y : Kept(un, x, y) => Kept(un2, x, y)
  BY DEF Kept
<1> QED BY <1>1 DEF MayBecome

LEMMA CheckByteHolds ==
  ASSUME ClocksOK(trace),
         NEW t, t \in Threads, NEW write, write \in BOOLEAN, NEW b \in Bytes,
         NEW A, AccessesOK(trace, A),
         NEW d0, IsRaces(d0.races), d0.races.asserted = {},
         DetectorOK(trace, pending, d0.shadow, d0.races.unrealized, {}, A),
         NEW y, y = AccessBy(t, get_parent_action(t), write, b),
         NEW A2, A2 = A \cup {y},
         NEW d, d = CheckByte(d0, t, write, b)
  PROVE  /\ AccessesOK(trace, A2)
         /\ IsRaces(d.races)
                  /\ DetectorOK(trace, pending, d.shadow, d.races.unrealized, d.races.asserted, A2)
<1> DEFINE sh == d0.shadow
           races == d0.races
           un == races.unrealized
           p == get_parent_action(t)
           cv == trace[p].cv
           r == sh[b]
           s == Compared(r, write)
           found == Racing(s, t, cv)
           res == Reported(races, found, t, write, b)
           r2 == After(r, t, cv, write)
<1>1. /\ Len(trace) \in Nat /\ DOMAIN trace = 1..Len(trace)
      /\ \A m \in DOMAIN trace : trace[m] \in Actions
  BY DEF ClocksOK
<1>l. LastOf(trace, t, p)
  BY ParentIs DEF LastOf
<1>2. /\ p \in DOMAIN trace /\ trace[p].tid = t
      /\ \A i \in DOMAIN trace : trace[i].tid = t => i <= p
  BY <1>l DEF LastOf
<1>3. p \in Nat /\ p # 0 /\ cv \in [Threads -> Nat] /\ cv[t] = p
  <2>1. trace[p] \in Actions /\ trace[p].cv[trace[p].tid] = p
    BY <1>1, <1>2 DEF ClocksOK
  <2>2. p \in Nat /\ p # 0
    BY <1>1, <1>2
  <2> QED BY <1>2, <2>1, <2>2 DEF Actions
<1>e. IsRaces(races) /\ races.asserted = {} /\ un = races.unrealized
  OBVIOUS
<1>f. DetectorOK(trace, pending, sh, un, {}, A)
  OBVIOUS
<1>4. RecordsOK(sh, A) /\ RacesOK(trace, pending, un, {}, A)
  BY <1>f DEF DetectorOK
<1>5. RecordOK(A, b, r) /\ CapacityOK(A, r)
  BY <1>4 DEF RecordsOK
<1>6. /\ d.races = res
      /\ d.shadow = IF res.asserted # {} THEN sh ELSE [sh EXCEPT ![b] = r2]
  BY DEF CheckByte, get_cv
<1>y. y = AccessBy(t, p, write, b)
  OBVIOUS
<1>c. cv = trace[p].cv
  OBVIOUS
<1>r. r = sh[b]
  OBVIOUS
<1>p. p = get_parent_action(t)
  OBVIOUS
<1>a. A2 = A \cup {y}
  OBVIOUS
<1> HIDE DEF p, cv, r, sh, un, races
<1>7. AccessesOK(trace, A2)
  <2>1. /\ y.tid = t /\ y.at = p /\ y.write = write /\ y.byte = b
    BY <1>y DEF AccessBy
  <2>2. /\ y = [tid |-> y.tid, at |-> y.at, write |-> y.write, byte |-> y.byte]
        /\ y.at \in DOMAIN trace /\ trace[y.at].tid = y.tid
        /\ y.tid \in Threads /\ y.write \in BOOLEAN /\ y.byte \in Bytes
    BY <1>2, <1>y, <2>1 DEF AccessBy
  <2> QED BY <1>a, <2>2 DEF AccessesOK
<1>8. s \in Seq(Entries) /\ Len(s) \in Nat
      /\ \A m \in 1..Len(s) : \/ s[m] = r.write
                              \/ write /\ \E k \in 1..Len(r.reads) : s[m] = r.reads[k]
  <2>1. r.reads \in Seq(Entries) /\ Len(r.reads) \in Nat /\ r.write \in Entries
    BY <1>5 DEF RecordOK
  <2>2. CASE write
    <3>1. s = Append(r.reads, r.write)
      BY <2>2 DEF Compared
    <3>2. /\ s \in Seq(Entries) /\ Len(s) = Len(r.reads) + 1
          /\ s[Len(r.reads) + 1] = r.write /\ \A k \in 1..Len(r.reads) : s[k] = r.reads[k]
      BY <2>1, <3>1, AppendProperties
    <3> HIDE DEF s
    <3>3. s \in Seq(Entries) /\ Len(s) \in Nat
      BY <2>1, <3>2
    <3>4. \A m \in 1..Len(s) : m \in 1..Len(r.reads) \/ m = Len(r.reads) + 1
      BY <2>1, <3>2
    <3> QED BY ONLY <2>1, <2>2, <3>2, <3>3, <3>4
  <2>3. CASE ~write
    <3>1. s = <<r.write>>
      BY <2>3 DEF Compared
    <3> HIDE DEF s
    <3> QED BY <2>1, <3>1
  <2> QED BY <2>2, <2>3
<1> HIDE DEF s
<1>9. /\ found \in Seq(Entries) /\ Len(found) \in Nat
      /\ \A k \in 1..Len(found) : \E m \in 1..Len(s) :
           found[k] = s[m] /\ clock_may_race(cv, t, s[m].clock, s[m].tid)
      /\ \A m \in 1..Len(s) : clock_may_race(cv, t, s[m].clock, s[m].tid) =>
           \E k \in 1..Len(found) : found[k] = s[m]
  <2>1. Selected(found, s, t, cv)
    BY <1>8, RacingHolds
  <2> HIDE DEF found
  <2> QED BY <1>8, <2>1 DEF Selected
<1>q. res = Reported(races, found, t, write, b)
  OBVIOUS
<1> HIDE DEF found, res
<1>10. AllMayRace(found, p)
  BY <1>2, <1>9, <1>c DEF AllMayRace
<1>11. pending = {} => un = {}
  BY <1>4 DEF RacesOK
<1>12. /\ IsRaces(res)
       /\ \A race \in res.unrealized \cup res.asserted :
            \/ race \in un
            \/ \E k \in 1..Len(found) :
                 race = RaceOf(found[k], p, write, b)
       /\ \A race \in res.asserted : StillRaces(race, trace)
       /\ pending = {} => res.unrealized = {}
       /\ res.asserted # {} => pending = {}
       /\ res.asserted = {} =>
            /\ un \subseteq res.unrealized
            /\ \A k \in 1..Len(found) : RaceOf(found[k], p, write, b) \in res.unrealized
  <2>1. Settled(res, un, found, p, write, b)
    BY <1>9, <1>10, <1>11, <1>e, <1>p, <1>q, ReportedHolds
  <2> QED BY <2>1 DEF Settled
\* What is found is a race of an access recorded with this one.
<1>13. \A k \in 1..Len(found) :
         RaceOK(trace, RaceOf(found[k], p, write, b), A2)
  <2> TAKE k \in 1..Len(found)
  <2> DEFINE e == found[k]
             race == RaceOf(found[k], p, write, b)
             a == AccessOf(e, b)
  <2>1. PICK m \in 1..Len(s) : e = s[m] /\ clock_may_race(cv, t, e.clock, e.tid)
    BY <1>9
  <2>2. e.tid # t /\ e.clock # 0
    BY <2>1 DEF clock_may_race
  <2>3. a \in A /\ (e.write \/ write)
    <3>1. CASE e = r.write
      BY <1>5, <2>2, <3>1 DEF RecordOK
    <3>2. CASE write /\ \E j \in 1..Len(r.reads) : e = r.reads[j]
      BY <1>5, <3>2 DEF RecordOK
    <3> QED BY <1>8, <2>1, <3>1, <3>2
  <2>4. /\ a.tid = e.tid /\ a.at = e.clock /\ a.write = e.write /\ a.byte = b
    BY DEF AccessOf, AccessBy
  <2>5. /\ race.old = e /\ race.newaction = p /\ race.write = write /\ race.byte = b
    BY DEF RaceOf
  <2>6. y.tid = t /\ y.at = p /\ y.write = write /\ y.byte = b
    BY <1>y DEF AccessBy
  <2>7. \A i \in DOMAIN trace : ~(trace[i].tid = t /\ i > p)
    BY <1>1, <1>2, <1>3
  <2>8. a \in A2 /\ y \in A2
    BY <1>a, <2>3
  <2> HIDE DEF a, e, race
  <2>9. RaceOK(trace, race, A2)
    <3> QED BY <2>2, <2>3, <2>4, <2>5, <2>6, <2>7, <2>8 DEF RaceOK
  <2> QED BY <2>9 DEF race
<1>14. RacesOK(trace, pending, res.unrealized, res.asserted, A2)
  <2>1. \A race \in un : RaceOK(trace, race, A2)
    <3> TAKE race \in un
    <3>1. RaceOK(trace, race, A)
      BY <1>4 DEF RacesOK
    <3>2. A \subseteq A2
      BY <1>a
    <3> QED BY <3>1, <3>2, RaceStays
  <2> QED BY <1>12, <1>13, <2>1 DEF RacesOK
<1>s. r2 = After(r, t, cv, write)
  OBVIOUS
<1> HIDE DEF r2
<1>15. /\ RecordOK(A2, b, r2)
       /\ CapacityOK(A2, r2)
       /\ Updated(r2, r, t, cv, write)
  <2>1. y = AccessBy(t, cv[t], write, b) /\ cv[t] # 0
    BY <1>3, <1>y
  <2> QED BY <1>3, <1>5, <1>a, <1>s, <2>1, AfterHolds
<1>16. d.shadow = [c \in Bytes |-> IF c = b /\ res.asserted = {} THEN r2 ELSE sh[c]]
  <2>1. sh = [c \in Bytes |-> sh[c]]
    BY <1>4 DEF RecordsOK
  <2> QED BY <1>6, <2>1
<1>17. RecordsOK(d.shadow, A2)
  <2>1. \A c \in Bytes : RecordOK(A2, c, sh[c]) /\ CapacityOK(A2, sh[c])
    <3> TAKE c \in Bytes
    <3>1. RecordOK(A, c, sh[c]) /\ CapacityOK(A, sh[c])
      BY <1>4 DEF RecordsOK
    <3>2. A \subseteq A2
      BY <1>a
    <3> QED BY <3>1, <3>2, RecordStays
  <2>2. \A c \in Bytes : RecordOK(A2, c, d.shadow[c]) /\ CapacityOK(A2, d.shadow[c])
    BY <1>15, <1>16, <2>1
  <2>3. d.shadow = [c \in Bytes |-> d.shadow[c]]
    BY <1>16
  <2> QED BY <2>2, <2>3 DEF RecordsOK
<1>18. ASSUME res.asserted = {},
              NEW R, MayBecome(R, trace, res.unrealized, A2),
              NEW c \in Bytes
       PROVE  Covered(R, A2, c, d.shadow[c])
  <2>1. MayBecome(R, trace, un, A)
    <3>1. un \subseteq res.unrealized /\ A \subseteq A2
      BY <1>12, <1>18, <1>a
    <3> QED BY <1>18, <3>1, MayHaveBecome
  <2>2. Covered(R, A, c, sh[c])
    BY <1>f, <2>1 DEF DetectorOK
  <2>3. CASE c # b
    <3>1. d.shadow[c] = sh[c]
      BY <1>16, <2>3
    <3>2. y.byte # c
      BY <1>y, <2>3 DEF AccessBy
    <3> QED BY <1>a, <2>2, <3>1, <3>2 DEF Covered
  <2>4. CASE c = b
    <3>1. d.shadow[b] = r2
      BY <1>16, <1>18
    <3>2. Covered(R, A, b, r)
      BY <1>r, <2>2, <2>4
    <3>3. Noted(res.unrealized, s, t, cv, b, y)
      <4> SUFFICES ASSUME NEW m \in 1..Len(s), clock_may_race(cv, t, s[m].clock, s[m].tid)
                   PROVE  Kept(res.unrealized, AccessOf(s[m], b), y)
        BY DEF Noted
      <4>1. PICK k \in 1..Len(found) : found[k] = s[m]
        BY <1>9
      <4> DEFINE race == RaceOf(found[k], p, write, b)
      <4>2. race \in res.unrealized
        BY <1>12, <1>18
      <4>3. race.old = s[m] /\ race.newaction = p /\ y.at = p
        BY <1>y, <4>1 DEF RaceOf, AccessBy
      <4>4. AccessOf(s[m], b).tid = s[m].tid /\ AccessOf(s[m], b).at = s[m].clock
        BY DEF AccessOf, AccessBy
      <4> HIDE DEF race
      <4> QED BY <4>2, <4>3, <4>4 DEF Kept
    <3>4. Noted(res.unrealized, Compared(r, write), t, cv, b, y)
      BY <3>3 DEF s
    <3>5. Covered(R, A2, b, r2)
      BY <1>5, <1>7, <1>15, <1>18, <1>a, <1>c, <1>l, <1>y, <3>2, <3>4, CoverHolds
    <3> QED BY <2>4, <3>1, <3>5
  <2> QED BY <2>3, <2>4
<1>19. DetectorOK(trace, pending, d.shadow, res.unrealized, res.asserted, A2)
  BY <1>14, <1>17, <1>18 DEF DetectorOK
<1> QED BY <1>6, <1>7, <1>12, <1>19

-----------------------------------------------------------------------------
(***************************************************************************)
(* The bytes of an access, one after the other.                            *)
(***************************************************************************)
LEMMA RacesGrow ==
  ASSUME NEW tr, NEW pend, NEW un, NEW as, NEW A, NEW A2, A \subseteq A2,
         RacesOK(tr, pend, un, as, A)
  PROVE  RacesOK(tr, pend, un, as, A2)
<1>1. \A race \in un \cup as : RaceOK(tr, race, A)
  BY DEF RacesOK
<1>2. \A race \in un \cup as : RaceOK(tr, race, A2)
  BY <1>1, RaceStays
<1> QED BY <1>2 DEF RacesOK

LEMMA RecordsGrow ==
  ASSUME NEW sh, NEW A, NEW A2, A \subseteq A2, RecordsOK(sh, A)
  PROVE  RecordsOK(sh, A2)
<1>1. \A b \in Bytes : RecordOK(A, b, sh[b]) /\ CapacityOK(A, sh[b])
  BY DEF RecordsOK
<1>2. \A b \in Bytes : RecordOK(A2, b, sh[b]) /\ CapacityOK(A2, sh[b])
  BY <1>1, RecordStays
<1> QED BY <1>2 DEF RecordsOK

LEMMA CheckedHolds ==
  ASSUME ClocksOK(trace), AccessesOK(trace, accesses), asserted = {},
         DetectorOK(trace, pending, shadow, unrealized, asserted, accesses),
         NEW t \in Threads, NEW write \in BOOLEAN, NEW first \in Int, NEW width \in Nat,
         first..(first + width - 1) \subseteq Bytes,
         NEW A2,
         A2 = accesses \cup {AccessBy(t, get_parent_action(t), write, b) :
                               b \in first..(first + width - 1)},
         NEW d, d = Checked(t, write, first, width)
  PROVE  /\ AccessesOK(trace, A2)
         /\ DetectorOK(trace, pending, d.shadow, d.races.unrealized, d.races.asserted, A2)
<1> DEFINE p == get_parent_action(t)
           y(b) == AccessBy(t, p, write, b)
           A(n) == accesses \cup {y(b) : b \in first..(first + n - 1)}
           races == [unrealized |-> unrealized, asserted |-> asserted]
           Good(x, n) ==
             /\ IsRaces(x.races) /\ AccessesOK(trace, A(n))
             /\ DetectorOK(trace, pending, x.shadow, x.races.unrealized, x.races.asserted, A(n))
<1>1. PICK f : IsCheck(f, races, t, write, first, width) /\ d = f[width]
  BY CheckedIs
<1>2. \A k \in 0..width :
        f[k] = IF k = 0 THEN [shadow |-> shadow, races |-> races]
               ELSE CheckStep(races, t, write, first, f[k - 1], k)
  BY <1>1 DEF IsCheck
<1> DEFINE T == {n \in Nat : n <= width => Good(f[n], n)}
<1>3. 0 \in T
  <2>1. f[0] = [shadow |-> shadow, races |-> races]
    <3>1. 0 \in 0..width
      OBVIOUS
    <3> QED BY <1>2, <3>1
  <2>2. A(0) = accesses
    <3>1. first..(first + 0 - 1) = {}
      OBVIOUS
    <3> QED BY <3>1
  <2>3. /\ f[0].shadow = shadow /\ f[0].races.unrealized = unrealized
        /\ f[0].races.asserted = asserted /\ IsRaces(f[0].races)
    <3>1. races.unrealized = unrealized /\ races.asserted = asserted /\ IsRaces(races)
      BY DEF IsRaces
    <3> HIDE DEF races
    <3> QED BY <2>1, <3>1
  <2> HIDE DEF A
  <2> QED BY <2>2, <2>3
<1>4. ASSUME NEW n \in Nat, n \in T
      PROVE  n + 1 \in T
  <2> SUFFICES ASSUME n + 1 <= width PROVE Good(f[n + 1], n + 1)
    <3> HIDE DEF Good
    <3> QED OBVIOUS
  <2> DEFINE x == f[n]
             z == f[n + 1]
             b == first + n
             B == A(n)
             C == A(n + 1)
  <2>1. IsRaces(x.races) /\ AccessesOK(trace, B)
        /\ DetectorOK(trace, pending, x.shadow, x.races.unrealized, x.races.asserted, B)
    <3> HIDE DEF A
    <3> QED BY <1>4
  <2>2. z = IF x.races.asserted # {} THEN x ELSE CheckByte(x, t, write, b)
    <3>1. n + 1 \in 0..width /\ n + 1 # 0 /\ (n + 1) - 1 = n /\ first + (n + 1) - 1 = b
      OBVIOUS
    <3>2. z = CheckStep(races, t, write, first, x, n + 1)
      BY <1>2, <3>1
    <3> HIDE DEF races, b
    <3> QED BY <3>1, <3>2 DEF CheckStep
  <2>3. b \in Bytes
    <3>1. b \in first..(first + width - 1)
      OBVIOUS
    <3> QED BY <3>1
  <2>4. C = B \cup {y(b)}
    <3>1. first..(first + (n + 1) - 1) = first..(first + n - 1) \cup {b}
      OBVIOUS
    <3> HIDE DEF p, b
    <3> QED BY <3>1
  <2> HIDE DEF A, B, C, x, z, b
  <2>5. CASE x.races.asserted = {}
    <3>1. z = CheckByte(x, t, write, b)
      BY <2>2, <2>5
    <3>2. DetectorOK(trace, pending, x.shadow, x.races.unrealized, {}, B)
      BY <2>1, <2>5
    <3>3. /\ AccessesOK(trace, C) /\ IsRaces(z.races)
          /\ DetectorOK(trace, pending, z.shadow, z.races.unrealized, z.races.asserted, C)
      BY <2>1, <2>3, <2>4, <2>5, <3>1, <3>2, CheckByteHolds
    <3> QED BY <3>3 DEF z, C
  <2>6. CASE x.races.asserted # {}
    <3>1. z = x
      BY <2>2, <2>6
    <3>2. B \subseteq C
      BY <2>4
    <3>3. RacesOK(trace, pending, x.races.unrealized, x.races.asserted, C)
      BY <2>1, <3>2, RacesGrow DEF DetectorOK
    <3>4. RecordsOK(x.shadow, C)
      BY <2>1, <3>2, RecordsGrow DEF DetectorOK
    <3>5. DetectorOK(trace, pending, x.shadow, x.races.unrealized, x.races.asserted, C)
      BY <2>6, <3>3, <3>4 DEF DetectorOK
    <3>6. AccessesOK(trace, C)
      <4>1. p \in DOMAIN trace /\ trace[p].tid = t
        BY ParentIs
      <4> DEFINE a == y(b)
      <4>2. a.tid = t /\ a.at = p /\ a.write = write /\ a.byte = b
            /\ a = [tid |-> a.tid, at |-> a.at, write |-> a.write, byte |-> a.byte]
        BY DEF AccessBy
      <4>3. C = B \cup {a}
        BY <2>4
      <4> HIDE DEF a
      <4> QED BY <2>1, <2>3, <4>1, <4>2, <4>3 DEF AccessesOK
    <3> QED BY <2>1, <3>1, <3>5, <3>6 DEF z, C
  <2> QED BY <2>5, <2>6
<1>5. Nat \subseteq T
  <2> HIDE DEF T
  <2> QED BY <1>3, <1>4, NatSetInduction
<1>6. Good(f[width], width)
  <2>1. width \in T
    BY <1>5
  <2> HIDE DEF Good
  <2> QED BY <2>1
<1>7. A2 = A(width)
  OBVIOUS
<1> HIDE DEF A
<1> QED BY <1>1, <1>6, <1>7

-----------------------------------------------------------------------------
(***************************************************************************)
(* Actions and settled release sequences.                                  *)
(***************************************************************************)
\* The order of the accesses made does not depend on what comes after them.
LEMMA AppendKeeps ==
  ASSUME NEW tr, NEW tr2, Extends(tr2, tr),
         NEW pend, NEW pend2, pend \subseteq pend2,
         NEW sh, NEW un, NEW A, AccessesOK(tr, A), DetectorOK(tr, pend, sh, un, {}, A)
  PROVE  AccessesOK(tr2, A) /\ DetectorOK(tr2, pend2, sh, un, {}, A)
<1> USE DEF Extends
<1>1. AccessesOK(tr2, A)
  BY DEF AccessesOK
<1>2. RacesOK(tr2, pend2, un, {}, A)
  <2>1. \A race \in un : RaceOK(tr2, race, A)
    <3> TAKE race \in un
    <3>1. RaceOK(tr, race, A)
      BY DEF DetectorOK, RacesOK
    <3>2. PICK a, b \in A :
            /\ a.tid = race.old.tid /\ a.at = race.old.clock /\ a.write = race.old.write
            /\ b.at = race.newaction /\ b.write = race.write
            /\ a.byte = race.byte /\ b.byte = race.byte
            /\ a.write \/ b.write
            /\ a.tid # b.tid
            /\ \A i \in DOMAIN tr : (tr[i].tid = b.tid /\ i > b.at) => i > a.at
      BY <3>1 DEF RaceOK
    <3>3. a.at \in 1..Len(tr)
      BY DEF AccessesOK
    <3>4. \A i \in DOMAIN tr2 : (tr2[i].tid = b.tid /\ i > b.at) => i > a.at
      BY <3>2, <3>3
    <3> QED BY <3>2, <3>4 DEF RaceOK
  <2>2. pend2 = {} => un = {}
    BY DEF DetectorOK, RacesOK
  <2> QED BY <2>1, <2>2 DEF RacesOK
<1>3. \A x, y \in A : Ordered(tr2, x, y) <=> Ordered(tr, x, y)
  <2> TAKE x, y \in A
  <2>1. tr2[y.at] = tr[y.at]
    BY DEF AccessesOK
  <2> QED BY <2>1 DEF Ordered
<1>4. \A R : MayBecome(R, tr2, un, A) => MayBecome(R, tr, un, A)
  BY <1>3 DEF MayBecome
<1> QED BY <1>1, <1>2, <1>4 DEF DetectorOK

\* When vectors grow, what was ordered stays so; when the races kept aside are
\* judged, none of them is one or the execution ends.
LEMMA SettleKeeps ==
  ASSUME NEW tr, ClocksOK(tr), NEW tr2, ClocksOK(tr2), Grown(tr2, tr),
         NEW pend, NEW pend2,
         NEW sh, NEW un, NEW A, AccessesOK(tr, A), DetectorOK(tr, pend, sh, un, {}, A),
         NEW races, races.unrealized = un, races.asserted = {},
         NEW res, res = checkDataRaces(races, tr2, pend2)
  PROVE  AccessesOK(tr2, A) /\ DetectorOK(tr2, pend2, sh, res.unrealized, res.asserted, A)
<1> USE DEF Grown
<1>1. AccessesOK(tr2, A)
  BY DEF AccessesOK
<1>2. RacesOK(tr, pend, un, {}, A) /\ RecordsOK(sh, A)
  BY DEF DetectorOK
<1>3. \A race \in un : RaceOK(tr2, race, A)
  <2> TAKE race \in un
  <2>1. RaceOK(tr, race, A)
    BY <1>2 DEF RacesOK
  <2> QED BY <2>1 DEF RaceOK
<1>t. /\ \A i \in DOMAIN tr, t \in Threads : tr[i].cv[t] \in Nat /\ tr2[i].cv[t] \in Nat
      /\ \A i \in DOMAIN tr : i \in Nat /\ i # 0
  <2>1. \A i \in DOMAIN tr : tr[i] \in Actions /\ tr2[i] \in Actions /\ i \in Nat /\ i # 0
    BY DEF ClocksOK
  <2> QED BY <2>1 DEF Actions
<1>4. \A x, y \in A : Ordered(tr, x, y) => Ordered(tr2, x, y)
  <2> TAKE x, y \in A
  <2>1. x.tid \in Threads /\ y.at \in DOMAIN tr /\ x.at \in DOMAIN tr
    BY DEF AccessesOK
  <2>2. /\ tr2[y.at].cv[x.tid] >= tr[y.at].cv[x.tid]
        /\ tr2[y.at].cv[x.tid] \in Nat /\ tr[y.at].cv[x.tid] \in Nat /\ x.at \in Nat
    BY <1>t, <2>1
  <2> QED BY <2>2 DEF Ordered
<1>5. CASE pend2 # {}
  <2>1. res = races
    BY <1>5 DEF checkDataRaces, isfeasibleprefix
  <2>2. RacesOK(tr2, pend2, un, {}, A)
    BY <1>3, <1>5 DEF RacesOK
  <2>3. \A R : MayBecome(R, tr2, un, A) => MayBecome(R, tr, un, A)
    BY <1>4 DEF MayBecome
  <2>4. DetectorOK(tr2, pend2, sh, un, {}, A)
    BY <1>2, <2>2, <2>3 DEF DetectorOK
  <2> QED BY <1>1, <2>1, <2>4
<1>6. CASE pend2 = {}
  <2>1. res.unrealized = {} /\ res.asserted = {race \in un : StillRaces(race, tr2)}
    BY <1>6 DEF checkDataRaces, isfeasibleprefix, Judged
  <2>2. RacesOK(tr2, pend2, {}, res.asserted, A)
    BY <1>3, <1>6, <2>1 DEF RacesOK
  <2>3. ASSUME res.asserted = {}, NEW R, MayBecome(R, tr2, {}, A)
        PROVE  MayBecome(R, tr, un, A)
    <3>1. \A x, y \in A : Kept(un, x, y) => Ordered(tr2, x, y)
      <4> SUFFICES ASSUME NEW x \in A, NEW y \in A, NEW race \in un,
                          race.old.tid = x.tid, race.old.clock = x.at, race.newaction = y.at
                   PROVE  Ordered(tr2, x, y)
        BY DEF Kept
      <4>1. ~StillRaces(race, tr2)
        BY <2>1, <2>3
      <4>2. PICK a, b \in A : a.tid = race.old.tid /\ b.at = race.newaction /\ a.tid # b.tid
        BY <1>3 DEF RaceOK
      <4>3. /\ x.at \in DOMAIN tr /\ y.at \in DOMAIN tr /\ x.tid \in Threads
            /\ tr[y.at].tid = y.tid /\ tr[b.at].tid = b.tid
        BY DEF AccessesOK
      <4>4. tr2[y.at].tid = y.tid /\ y.tid # x.tid
        BY <4>2, <4>3
      <4>5. x.at \in Nat /\ x.at # 0 /\ tr2[y.at].cv[x.tid] \in Nat
        BY <1>t, <4>3
      <4>6. ~(tr2[y.at].cv[x.tid] <= x.at)
        BY <4>1, <4>4, <4>5 DEF StillRaces, clock_may_race
      <4> QED BY <4>4, <4>5, <4>6 DEF Ordered
    <3> QED BY <1>4, <2>3, <3>1 DEF MayBecome
  <2>4. res.asserted = {} => \A R : MayBecome(R, tr2, {}, A) =>
          \A b \in Bytes : Covered(R, A, b, sh[b])
    BY <2>3 DEF DetectorOK
  <2>5. DetectorOK(tr2, pend2, sh, {}, res.asserted, A)
    BY <1>2, <2>2, <2>4 DEF DetectorOK
  <2> QED BY <1>1, <2>1, <2>5
<1> QED BY <1>5, <1>6

(***************************************************************************)
(* The inductive invariant.                                                *)
(***************************************************************************)
IInv ==
  /\ TraceOK(trace, synced, pending)
  /\ AccessesOK(trace, accesses)
  /\ DetectorOK(trace, pending, shadow, unrealized, asserted, accesses)
  /\ overrun => Large(accesses)

\* The trace main() and the threads it creates start with.
LEMMA InitTrace ==
  ASSUME Init
  PROVE  TraceOK(trace, synced, pending)
<1> DEFINE n == 2 * N - 1
           own(i) == IF i <= N THEN 1 ELSE i - N + 1
<1>1. N \in Nat /\ N >= 1 /\ n \in Nat /\ Threads = 1..N
  BY DataRaceAssumption DEF Threads
<1>2. trace = [i \in 1..n |->
               IF i <= N
                 THEN [tid |-> 1, cv |-> [t \in Threads |-> IF t = 1 THEN i ELSE 0]]
                 ELSE [tid |-> i - N + 1,
                       cv |-> [t \in Threads |-> CASE t = 1 -> i - N + 1
                                                   [] t = i - N + 1 -> i
                                                   [] OTHER -> 0]]]
      /\ synced = {<<i, N + i - 1>> : i \in 2..N} /\ pending = {}
  BY DEF Init
<1>3. DOMAIN trace = 1..n
  BY <1>2
<1>4. \A i \in 1..n : own(i) \in Threads /\ trace[i].tid = own(i)
  BY <1>1, <1>2
<1>5. \A i \in 1..n, t \in Threads :
        trace[i].cv[t] = IF t = own(i) THEN i
                         ELSE IF t = 1 THEN i - N + 1
                         ELSE 0
  <2> TAKE i \in 1..n, t \in Threads
  <2>1. CASE i <= N
    <3>1. trace[i].cv = [u \in Threads |-> IF u = 1 THEN i ELSE 0]
      BY <1>2, <2>1
    <3> QED BY <2>1, <3>1
  <2>2. CASE ~(i <= N)
    <3>1. trace[i].cv = [u \in Threads |-> CASE u = 1 -> i - N + 1
                                             [] u = i - N + 1 -> i
                                             [] OTHER -> 0]
      BY <1>2, <2>2
    <3>2. i - N + 1 # 1 /\ i \in Nat
      BY <1>1, <2>2
    <3>3. CASE t = 1
      BY <2>2, <3>1, <3>2, <3>3
    <3>4. CASE t = i - N + 1
      BY <2>2, <3>1, <3>2, <3>4
    <3>5. CASE t # 1 /\ t # i - N + 1
      BY <2>2, <3>1, <3>5
    <3> QED BY <3>3, <3>4, <3>5
  <2> QED BY <2>1, <2>2
<1>6. \A i \in 1..n : trace[i] \in Actions
  <2> TAKE i \in 1..n
  <2>1. \A t \in Threads : trace[i].cv[t] \in Nat
    BY <1>1, <1>4, <1>5
  <2>2. trace[i] = [tid |-> trace[i].tid, cv |-> trace[i].cv]
    BY <1>2
  <2>3. trace[i].cv = [t \in Threads |-> trace[i].cv[t]]
    BY <1>2
  <2>4. trace[i].cv \in [Threads -> Nat]
    BY <2>1, <2>3
  <2>5. trace[i].tid \in Threads
    BY <1>4
  <2> QED BY <2>2, <2>4, <2>5 DEF Actions
<1>7. trace \in Seq(Actions) /\ Len(trace) = n
  <2>1. trace = [i \in 1..n |-> trace[i]]
    BY <1>2
  <2>2. trace \in [1..n -> Actions]
    BY <1>6, <2>1
  <2> QED BY <1>1, <2>2
<1>8. ClocksOK(trace)
  <2>1. \A t \in Threads : \E i \in DOMAIN trace : trace[i].tid = t
    <3> TAKE t \in Threads
    <3>1. CASE t = 1
      <4>1. 1 \in 1..n /\ trace[1].tid = 1
        BY <1>1, <1>4
      <4> QED BY <1>3, <3>1, <4>1
    <3>2. CASE t # 1
      <4>1. t + N - 1 \in 1..n /\ own(t + N - 1) = t
        BY <1>1, <3>2
      <4> QED BY <1>3, <1>4, <4>1
    <3> QED BY <3>1, <3>2
  <2>2. \A i \in DOMAIN trace : trace[i].cv[trace[i].tid] = i
    BY <1>3, <1>4, <1>5
  <2>3. \A j \in DOMAIN trace, t \in Threads :
          trace[j].cv[t] # 0 => trace[j].cv[t] \in 1..j /\ trace[trace[j].cv[t]].tid = t
    <3> SUFFICES ASSUME NEW j \in 1..n, NEW t \in Threads, trace[j].cv[t] # 0
                 PROVE  trace[j].cv[t] \in 1..j /\ trace[trace[j].cv[t]].tid = t
      BY <1>3
    <3>1. CASE t = own(j)
      BY <1>1, <1>4, <1>5, <3>1
    <3>2. CASE t = 1 /\ t # own(j)
      <4>1. ~(j <= N) /\ trace[j].cv[t] = j - N + 1
        BY <1>5, <3>2
      <4>2. j - N + 1 \in 1..j /\ j - N + 1 \in 1..n /\ j - N + 1 <= N
        BY <1>1, <4>1
      <4> QED BY <1>4, <3>2, <4>1, <4>2
    <3> QED BY <1>5, <3>1, <3>2
  <2>4. \A i, j \in DOMAIN trace :
          Knows(trace, j, i) => \A t \in Threads : trace[i].cv[t] <= trace[j].cv[t]
    <3> SUFFICES ASSUME NEW i \in 1..n, NEW j \in 1..n, i <= trace[j].cv[own(i)],
                        NEW t \in Threads
                 PROVE  trace[i].cv[t] <= trace[j].cv[t]
      BY <1>3, <1>4 DEF Knows
    <3>1. CASE own(i) = own(j)
      <4>1. i <= j
        BY <1>4, <1>5, <3>1
      <4> QED BY <1>1, <1>4, <1>5, <3>1, <4>1
    <3>2. CASE own(i) # own(j)
      <4>1. own(i) = 1 /\ ~(j <= N) /\ i <= j - N + 1
        BY <1>1, <1>4, <1>5, <3>2
      <4>2. i <= N
        BY <1>1, <4>1
      <4>3. trace[i].cv[t] = IF t = 1 THEN i ELSE 0
        BY <1>2, <4>2, <1>5, <1>1
      <4>4. trace[j].cv[t] \in Nat /\ trace[j].cv[1] = j - N + 1
        BY <1>1, <1>4, <1>5, <4>1
      <4> QED BY <4>1, <4>3, <4>4
    <3> QED BY <3>1, <3>2
  <2> QED BY <1>7, <2>1, <2>2, <2>3, <2>4 DEF ClocksOK
<1>9. SyncedOK(trace, synced)
  <2> SUFFICES ASSUME NEW i \in Int, NEW j \in Int, <<i, j>> \in synced
               PROVE  i \in DOMAIN trace /\ j \in DOMAIN trace /\ i < j /\ Knows(trace, j, i)
    BY DEF SyncedOK
  <2>1. i \in 2..N /\ j = N + i - 1
    BY <1>2
  <2>2. i \in 1..n /\ j \in 1..n /\ i < j /\ ~(j <= N) /\ own(i) = 1 /\ own(j) # 1
    BY <1>1, <2>1
  <2>3. trace[j].cv[1] = i /\ trace[i].tid = 1
    BY <1>1, <1>4, <1>5, <2>1, <2>2
  <2> QED BY <1>3, <2>2, <2>3 DEF Knows
<1>10. Justified(trace, synced)
  <2> SUFFICES ASSUME NEW j \in 1..n, NEW t \in Threads, trace[j].cv[t] # 0
               PROVE  Reaches(trace, synced, trace[j].cv[t], j)
    BY <1>3 DEF Justified
  <2>1. CASE t = own(j)
    <3>1. trace[j].cv[t] = j
      BY <1>5, <2>1
    <3> QED BY <1>3, <3>1, ReachesItself
  <2>2. CASE t = 1 /\ t # own(j)
    <3>1. ~(j <= N) /\ trace[j].cv[t] = j - N + 1
      BY <1>5, <2>2
    <3> DEFINE k == j - N + 1
    <3>2. k \in 2..N /\ j = N + k - 1 /\ k \in DOMAIN trace
      BY <1>1, <1>3, <3>1
    <3>3. Edge(trace, synced, k, j)
      <4> HIDE DEF k
      <4>1. <<k, j>> \in synced
        BY <1>2, <3>2
      <4> QED BY <4>1 DEF Edge
    <3> HIDE DEF k
    <3>4. Reaches(trace, synced, k, j)
      <4>1. Reaches(trace, synced, k, k)
        BY <3>2, ReachesItself
      <4>2. j \in DOMAIN trace
        BY <1>3
      <4> QED BY <3>2, <3>3, <4>1, <4>2, ReachesSteps
    <3> QED BY <3>1, <3>4 DEF k
  <2> QED BY <1>5, <2>1, <2>2
<1>11. PendingOK(trace, pending)
  BY <1>2 DEF PendingOK
<1> QED BY <1>8, <1>9, <1>10, <1>11 DEF TraceOK

LEMMA InitDetector ==
  ASSUME Init
  PROVE  /\ AccessesOK(trace, accesses)
         /\ DetectorOK(trace, pending, shadow, unrealized, asserted, accesses)
<1>1. accesses = {} /\ unrealized = {} /\ asserted = {} /\ pending = {}
  BY DEF Init
<1>2. shadow = [b \in Bytes |-> Untouched]
  BY DEF Init
<1>3. Untouched = [full |-> FALSE, reads |-> <<>>, write |-> NoAccess, capacity |-> 1]
  BY DEF Untouched, Short
<1>4. /\ NoAccess \in Entries /\ NoAccess.write /\ NoAccess.clock = 0
  BY DEF NoAccess, Entries
<1>5. <<>> \in Seq(Entries) /\ Len(<<>>) = 0
  OBVIOUS
<1> DEFINE r == Untouched
<1>6. ~r.full /\ r.reads = <<>> /\ r.write = NoAccess /\ r.capacity = 1
      /\ r = [full |-> r.full, reads |-> r.reads, write |-> r.write, capacity |-> r.capacity]
      /\ r.full \in BOOLEAN
  BY <1>3
<1> HIDE DEF r
<1>7. \A b : RecordOK({}, b, r)
  BY <1>4, <1>5, <1>6 DEF RecordOK
<1>8. CapacityOK({}, r)
  BY <1>5, <1>6 DEF CapacityOK
<1>9. RecordsOK(shadow, accesses)
  BY <1>1, <1>2, <1>7, <1>8 DEF RecordsOK, r
<1>10. RacesOK(trace, pending, unrealized, asserted, accesses)
  BY <1>1 DEF RacesOK
<1>11. \A R, b, x : Covered(R, accesses, b, x)
  BY <1>1 DEF Covered
<1>12. AccessesOK(trace, accesses)
  BY <1>1 DEF AccessesOK
<1> QED BY <1>9, <1>10, <1>11, <1>12 DEF DetectorOK

\* A new action, whatever it synchronises with.
LEMMA ActionKeeps ==
  ASSUME IInv, asserted = {}, NEW t \in Threads, NEW q \in DOMAIN trace,
         NEW base \in [Threads -> Nat],
         \A u \in Threads : base[u] = IF get_cv(t)[u] >= trace[q].cv[u] THEN get_cv(t)[u]
                                      ELSE trace[q].cv[u],
         NEW tr2,
         tr2 = Append(trace, [tid |-> t, cv |-> [base EXCEPT ![t] = Len(trace) + 1]]),
         NEW sy2, sy2 = synced \/ sy2 = synced \cup {<<q, Len(trace) + 1>>},
         q = get_parent_action(t) \/ <<q, Len(trace) + 1>> \in sy2,
         NEW pend2, pending \subseteq pend2,
         \A w \in pend2 : \/ w \in pending
                          \/ w.rel \in DOMAIN trace /\ w.acq = Len(trace) + 1
  PROVE  /\ TraceOK(tr2, sy2, pend2)
         /\ AccessesOK(tr2, accesses)
         /\ DetectorOK(tr2, pend2, shadow, unrealized, asserted, accesses)
<1> DEFINE p == get_parent_action(t)
           n == Len(trace) + 1
           cv == [base EXCEPT ![t] = n]
<1>1. ClocksOK(trace) /\ TraceOK(trace, synced, pending)
  BY DEF IInv, TraceOK
<1>2. p \in DOMAIN trace /\ trace[p].tid = t /\ \A i \in DOMAIN trace : trace[i].tid = t => i <= p
  BY <1>1, ParentIs
<1>3. Len(trace) \in Nat /\ DOMAIN trace = 1..Len(trace) /\ trace \in Seq(Actions)
  BY <1>1 DEF ClocksOK
<1>4. n \in Nat
  BY <1>3
<1>5. cv \in [Threads -> Nat] /\ cv[t] = n /\ \A u \in Threads : u # t => cv[u] = base[u]
  <2> HIDE DEF n
  <2> QED BY <1>4
<1>6. get_cv(t) = trace[p].cv
  BY DEF get_cv
<1>7. tr2 = Append(trace, [tid |-> t, cv |-> cv])
  OBVIOUS
<1> HIDE DEF p, cv
<1>8. Joined(cv, t, Len(trace) + 1, trace[p].cv, trace[q].cv)
  BY <1>5, <1>6 DEF Joined
<1>9. /\ Synced(sy2, synced, p, q, Len(trace) + 1)
      /\ MoreToSettle(pend2, pending, trace)
      /\ LastOf(trace, t, p)
  BY <1>2 DEF p, Synced, MoreToSettle, LastOf
<1>s. cv \in [Threads -> Nat]
  BY <1>5
<1>10. TraceOK(tr2, sy2, pend2)
  BY ONLY <1>1, <1>7, <1>8, <1>9, <1>s, t \in Threads, q \in DOMAIN trace, AppendClocks
<1>11. Extends(tr2, trace)
  <2>1. [tid |-> t, cv |-> cv] \in Actions
    BY <1>5 DEF Actions
  <2>2. /\ Len(tr2) = Len(trace) + 1 /\ tr2 \in Seq(Actions)
        /\ \A i \in 1..Len(trace) : tr2[i] = trace[i]
    BY <1>3, <1>7, <2>1, AppendProperties
  <2>3. DOMAIN tr2 = 1..(Len(trace) + 1)
    BY <1>3, <2>2
  <2> QED BY <1>3, <2>2, <2>3 DEF Extends
<1>12. /\ AccessesOK(trace, accesses)
       /\ DetectorOK(trace, pending, shadow, unrealized, {}, accesses)
  BY DEF IInv
<1>13. AccessesOK(tr2, accesses) /\ DetectorOK(tr2, pend2, shadow, unrealized, {}, accesses)
  BY <1>11, <1>12, AppendKeeps
<1> QED BY <1>10, <1>13

LEMMA ReleaseStep ==
  ASSUME IInv, NEW t \in Threads, Release(t)
  PROVE  IInv'
<1> DEFINE p == get_parent_action(t)
<1>1. ClocksOK(trace) /\ p \in DOMAIN trace /\ trace[p] \in Actions
  <2>1. ClocksOK(trace)
    BY DEF IInv, TraceOK
  <2> QED BY <2>1, ParentIs DEF ClocksOK
<1>2. /\ asserted = {}
      /\ trace' = Append(trace, [tid |-> t, cv |-> [get_cv(t) EXCEPT ![t] = Len(trace) + 1]])
  BY DEF Release, MayGoOn, Running, NewAction
<1>3. /\ synced' = synced /\ pending' = pending /\ shadow' = shadow /\ unrealized' = unrealized
      /\ asserted' = asserted /\ accesses' = accesses /\ overrun' = overrun
  BY DEF Release, detector, history
<1>4. get_cv(t) \in [Threads -> Nat] /\ get_cv(t) = trace[p].cv
  BY <1>1 DEF Actions, get_cv
<1>5. \A u \in Threads : get_cv(t)[u] = IF get_cv(t)[u] >= trace[p].cv[u] THEN get_cv(t)[u]
                                        ELSE trace[p].cv[u]
  BY <1>4
<1>6. \A w \in pending : w \in pending \/ (w.rel \in DOMAIN trace /\ w.acq = Len(trace) + 1)
  OBVIOUS
<1>7. ASSUME NEW tr2, tr2 = trace'
      PROVE  /\ TraceOK(tr2, synced, pending)
             /\ AccessesOK(tr2, accesses)
             /\ DetectorOK(tr2, pending, shadow, unrealized, asserted, accesses)
  <2> HIDE DEF p
  <2>1. p = get_parent_action(t)
    BY DEF p
  <2> QED BY <1>1, <1>2, <1>4, <1>5, <1>6, <1>7, <2>1, ActionKeeps
<1>8. /\ TraceOK(trace', synced, pending)
      /\ AccessesOK(trace', accesses)
      /\ DetectorOK(trace', pending, shadow, unrealized, asserted, accesses)
  BY <1>7
<1> QED BY <1>3, <1>8 DEF IInv

LEMMA AcquireStep ==
  ASSUME IInv, NEW t \in Threads, NEW rel \in DOMAIN trace, Acquire(t, rel)
  PROVE  IInv'
<1> DEFINE p == get_parent_action(t)
           base == Merge(get_cv(t), trace[rel].cv)
<1>1. /\ ClocksOK(trace) /\ p \in DOMAIN trace /\ trace[p] \in Actions /\ trace[rel] \in Actions
  <2>1. ClocksOK(trace)
    BY DEF IInv, TraceOK
  <2> QED BY <2>1, ParentIs DEF ClocksOK
<1>2. /\ asserted = {}
      /\ trace' = Append(trace, [tid |-> t, cv |-> [base EXCEPT ![t] = Len(trace) + 1]])
  BY DEF Acquire, MayGoOn, Running, NewAction
<1>3. /\ synced' = synced \cup {<<rel, Len(trace) + 1>>} /\ pending' = pending
      /\ shadow' = shadow /\ unrealized' = unrealized
      /\ asserted' = asserted /\ accesses' = accesses /\ overrun' = overrun
  BY DEF Acquire, detector
<1>4. get_cv(t) \in [Threads -> Nat] /\ trace[rel].cv \in [Threads -> Nat]
  BY <1>1 DEF Actions, get_cv
<1>5. /\ base \in [Threads -> Nat]
      /\ \A u \in Threads : base[u] = IF get_cv(t)[u] >= trace[rel].cv[u] THEN get_cv(t)[u]
                                       ELSE trace[rel].cv[u]
  BY <1>4, MergeIs
<1> HIDE DEF base
<1>6. \A w \in pending : w \in pending \/ (w.rel \in DOMAIN trace /\ w.acq = Len(trace) + 1)
  OBVIOUS
<1>7. ASSUME NEW tr2, tr2 = trace', NEW sy2, sy2 = synced'
      PROVE  /\ TraceOK(tr2, sy2, pending)
             /\ AccessesOK(tr2, accesses)
             /\ DetectorOK(tr2, pending, shadow, unrealized, asserted, accesses)
  <2>1. sy2 = synced \cup {<<rel, Len(trace) + 1>>} /\ <<rel, Len(trace) + 1>> \in sy2
    BY <1>3, <1>7
  <2> QED BY <1>2, <1>5, <1>6, <1>7, <2>1, ActionKeeps
<1>8. /\ TraceOK(trace', synced', pending)
      /\ AccessesOK(trace', accesses)
      /\ DetectorOK(trace', pending, shadow, unrealized, asserted, accesses)
  BY <1>7
<1> QED BY <1>3, <1>8 DEF IInv

LEMMA AcquireLazilyStep ==
  ASSUME IInv, NEW t \in Threads, NEW rel \in DOMAIN trace, AcquireLazily(t, rel)
  PROVE  IInv'
<1> DEFINE p == get_parent_action(t)
<1>1. ClocksOK(trace) /\ p \in DOMAIN trace /\ trace[p] \in Actions
  <2>1. ClocksOK(trace)
    BY DEF IInv, TraceOK
  <2> QED BY <2>1, ParentIs DEF ClocksOK
<1>2. /\ asserted = {}
      /\ trace' = Append(trace, [tid |-> t, cv |-> [get_cv(t) EXCEPT ![t] = Len(trace) + 1]])
  BY DEF AcquireLazily, MayGoOn, Running, NewAction
<1>3. /\ synced' = synced /\ pending' = pending \cup {[rel |-> rel, acq |-> Len(trace) + 1]}
      /\ shadow' = shadow /\ unrealized' = unrealized
      /\ asserted' = asserted /\ accesses' = accesses /\ overrun' = overrun
  BY DEF AcquireLazily, detector, history
<1>4. get_cv(t) \in [Threads -> Nat] /\ get_cv(t) = trace[p].cv
  BY <1>1 DEF Actions, get_cv
<1>5. \A u \in Threads : get_cv(t)[u] = IF get_cv(t)[u] >= trace[p].cv[u] THEN get_cv(t)[u]
                                        ELSE trace[p].cv[u]
  BY <1>4
<1>6. /\ pending \subseteq pending'
      /\ \A w \in pending' : w \in pending \/ (w.rel \in DOMAIN trace /\ w.acq = Len(trace) + 1)
  BY <1>3
<1>7. ASSUME NEW tr2, tr2 = trace', NEW pend2, pend2 = pending'
      PROVE  /\ TraceOK(tr2, synced, pend2)
             /\ AccessesOK(tr2, accesses)
             /\ DetectorOK(tr2, pend2, shadow, unrealized, asserted, accesses)
  <2> HIDE DEF p
  <2>1. p = get_parent_action(t)
    BY DEF p
  <2> QED BY <1>1, <1>2, <1>4, <1>5, <1>6, <1>7, <2>1, ActionKeeps
<1>8. /\ TraceOK(trace', synced, pending')
      /\ AccessesOK(trace', accesses)
      /\ DetectorOK(trace', pending', shadow, unrealized, asserted, accesses)
  BY <1>7
<1> QED BY <1>3, <1>8 DEF IInv

LEMMA SettleStep ==
  ASSUME IInv, NEW w \in pending, NEW holds \in BOOLEAN, Settle(w, holds)
  PROVE  IInv'
<1> DEFINE races == [unrealized |-> unrealized, asserted |-> asserted]
           res == checkDataRaces(races, trace', pending')
<1>1. /\ asserted = {} /\ pending' = pending \ {w}
      /\ trace' = IF holds THEN Propagated(trace, w.rel, w.acq) ELSE trace
      /\ synced' = IF holds THEN synced \cup {<<w.rel, w.acq>>} ELSE synced
      /\ unrealized' = res.unrealized /\ asserted' = res.asserted
      /\ shadow' = shadow /\ accesses' = accesses /\ overrun' = overrun
  BY DEF Settle, Running
<1>2. TraceOK(trace, synced, pending) /\ ClocksOK(trace)
  BY DEF IInv, TraceOK
<1>3. w.rel \in DOMAIN trace /\ w.acq \in DOMAIN trace /\ w.rel < w.acq
  BY <1>2 DEF TraceOK, PendingOK
<1>4. ASSUME NEW tr2, tr2 = trace', NEW sy2, sy2 = synced', NEW pend2, pend2 = pending'
      PROVE  /\ TraceOK(tr2, sy2, pend2)
             /\ Grown(tr2, trace)
  <2>0. pend2 \subseteq pending
    BY <1>1, <1>4
  <2>1. CASE holds
    <3>1. tr2 = Propagated(trace, w.rel, w.acq) /\ sy2 = synced \cup {<<w.rel, w.acq>>}
      BY <1>1, <1>4, <2>1
    <3> QED BY <1>2, <1>3, <2>0, <3>1, PropagatedClocks
  <2>2. CASE ~holds
    <3>1. tr2 = trace /\ sy2 = synced
      BY <1>1, <1>4, <2>2
    <3>2. PendingOK(trace, pend2)
      BY <1>2, <2>0 DEF TraceOK, PendingOK
    <3>3. \A i \in DOMAIN trace, t \in Threads : trace[i].cv[t] \in Nat
      <4>1. \A i \in DOMAIN trace : trace[i] \in Actions
        BY <1>2 DEF ClocksOK
      <4> QED BY <4>1 DEF Actions
    <3>4. \A i \in DOMAIN trace, t \in Threads : trace[i].cv[t] >= trace[i].cv[t]
      BY <3>3
    <3> QED BY <1>2, <3>1, <3>2, <3>4 DEF TraceOK, Grown
  <2> QED BY <2>1, <2>2
<1>5. ASSUME NEW tr2, tr2 = trace', NEW sy2, sy2 = synced', NEW pend2, pend2 = pending',
             NEW r2, r2 = checkDataRaces(races, tr2, pend2)
      PROVE  /\ AccessesOK(tr2, accesses)
             /\ DetectorOK(tr2, pend2, shadow, r2.unrealized, r2.asserted, accesses)
  <2>1. ClocksOK(tr2) /\ Grown(tr2, trace)
    BY <1>4, <1>5 DEF TraceOK
  <2>2. AccessesOK(trace, accesses) /\ DetectorOK(trace, pending, shadow, unrealized, {}, accesses)
    BY <1>1 DEF IInv
  <2>3. races.unrealized = unrealized /\ races.asserted = {}
    BY <1>1
  <2> HIDE DEF races
  <2> QED BY <1>2, <1>5, <2>1, <2>2, <2>3, SettleKeeps
<1> HIDE DEF races
<1>6. TraceOK(trace', synced', pending')
  BY <1>4
<1>7. /\ AccessesOK(trace', accesses)
      /\ DetectorOK(trace', pending', shadow, res.unrealized, res.asserted, accesses)
  BY <1>5
<1> QED BY <1>1, <1>6, <1>7 DEF IInv

LEMMA AccessStep ==
  ASSUME IInv, NEW t \in Threads, NEW write \in BOOLEAN, NEW first \in Bytes,
         NEW width \in Widths, Access(t, write, first, width)
  PROVE  IInv'
<1> DEFINE A2 == accesses \cup {AccessBy(t, get_parent_action(t), write, b) :
                                 b \in first..(first + width - 1)}
           d == Checked(t, write, first, width)
<1>1. /\ asserted = {} /\ first..(first + width - 1) \subseteq Bytes
      /\ shadow' = d.shadow /\ unrealized' = d.races.unrealized /\ asserted' = d.races.asserted
      /\ overrun' = \E b \in Bytes : Len(d.shadow[b].reads) > d.shadow[b].capacity
      /\ trace' = trace /\ pending' = pending /\ synced' = synced
  BY DEF Access, MayGoOn, Running, engine
<1>2. accesses' = A2
  BY DEF Access, AccessBy
<1>3. first \in Int /\ width \in Nat
  BY DataRaceAssumption
<1>4. TraceOK(trace, synced, pending) /\ ClocksOK(trace)
  BY DEF IInv, TraceOK
<1>5. /\ AccessesOK(trace, accesses)
      /\ DetectorOK(trace, pending, shadow, unrealized, asserted, accesses)
  BY DEF IInv
<1>6. A2 = accesses \cup {AccessBy(t, get_parent_action(t), write, b) :
                           b \in first..(first + width - 1)}
  OBVIOUS
<1> HIDE DEF A2, d
<1>7. /\ AccessesOK(trace, A2)
      /\ DetectorOK(trace, pending, d.shadow, d.races.unrealized, d.races.asserted, A2)
  BY <1>1, <1>3, <1>4, <1>5, <1>6, CheckedHolds DEF d
<1>8. overrun' => Large(A2)
  <2> SUFFICES ASSUME NEW b \in Bytes, Len(d.shadow[b].reads) > d.shadow[b].capacity
               PROVE  Large(A2)
    BY <1>1
  <2>1. CapacityOK(A2, d.shadow[b]) /\ RecordOK(A2, b, d.shadow[b])
    BY <1>7 DEF DetectorOK, RecordsOK
  <2>2. Len(d.shadow[b].reads) \in Nat /\ d.shadow[b].capacity \in Nat
    BY <2>1 DEF RecordOK
  <2> QED BY <2>1, <2>2 DEF CapacityOK
<1> QED BY <1>1, <1>2, <1>4, <1>7, <1>8 DEF IInv

LEMMA NextKeeps == IInv /\ [Next]_vars => IInv'
<1> SUFFICES ASSUME IInv, [Next]_vars PROVE IInv'
  OBVIOUS
<1>1. ASSUME NEW t \in Threads, Release(t) PROVE IInv'
  BY <1>1, ReleaseStep
<1>2. ASSUME NEW t \in Threads, NEW rel \in DOMAIN trace, Acquire(t, rel) PROVE IInv'
  BY <1>2, AcquireStep
<1>3. ASSUME NEW t \in Threads, NEW rel \in DOMAIN trace, AcquireLazily(t, rel) PROVE IInv'
  BY <1>3, AcquireLazilyStep
<1>4. ASSUME NEW p \in pending, NEW holds \in BOOLEAN, Settle(p, holds) PROVE IInv'
  BY <1>4, SettleStep
<1>5. ASSUME NEW t \in Threads, NEW write \in BOOLEAN, NEW first \in Bytes,
             NEW width \in Widths, Access(t, write, first, width)
      PROVE  IInv'
  BY <1>5, AccessStep
<1>6. CASE UNCHANGED vars
  BY <1>6 DEF IInv, vars, engine, detector, history
<1> QED BY <1>1, <1>2, <1>3, <1>4, <1>5, <1>6 DEF Next

\* The invariant holds in every state of every run.
THEOREM Invariance == Spec => []IInv
<1>1. Init => IInv
  <2> SUFFICES ASSUME Init PROVE IInv
    OBVIOUS
  <2>1. TraceOK(trace, synced, pending)
    BY InitTrace
  <2>2. /\ AccessesOK(trace, accesses)
        /\ DetectorOK(trace, pending, shadow, unrealized, asserted, accesses)
    BY InitDetector
  <2>3. ~overrun
    BY DEF Init
  <2> QED BY <2>1, <2>2, <2>3 DEF IInv
<1> QED BY <1>1, NextKeeps, PTL DEF Spec

-----------------------------------------------------------------------------
(***************************************************************************)
(* Happens-before, as the history gives it, and the vectors.               *)
(***************************************************************************)
\* What is reached was reached by a last step.
LEMMA LastStep ==
  ASSUME NEW tr, NEW sy, NEW i \in DOMAIN tr, NEW j \in DOMAIN tr, i # j, Reaches(tr, sy, i, j)
  PROVE  \E m \in DOMAIN tr : Reaches(tr, sy, i, m) /\ Edge(tr, sy, m, j)
<1> DEFINE S == {m \in DOMAIN tr : m # j /\ Reaches(tr, sy, i, m)}
<1>1. S \in SUBSET DOMAIN tr /\ j \notin S
  OBVIOUS
<1>2. i \in S
  BY ReachesItself
<1>3. PICK k \in S, m \in DOMAIN tr : Edge(tr, sy, k, m) /\ m \notin S
  <2> HIDE DEF S
  <2> QED BY <1>1, <1>2 DEF Reaches
<1>4. Reaches(tr, sy, i, m)
  BY <1>3, ReachesSteps
<1> QED BY <1>3, <1>4

LEMMA EdgesAre ==
  ASSUME TraceOK(trace, synced, pending), pending = {}
  PROVE  \A i, j \in DOMAIN trace : <<i, j>> \in Edges <=> Edge(trace, synced, i, j)
<1>1. Len(trace) \in Nat /\ DOMAIN trace = 1..Len(trace)
  BY DEF TraceOK, ClocksOK
<1> TAKE i \in DOMAIN trace, j \in DOMAIN trace
<1>2. <<i, j>> \in (1..Len(trace)) \X (1..Len(trace)) /\ <<i, j>>[1] = i /\ <<i, j>>[2] = j
  BY <1>1
<1> QED BY <1>2 DEF Edges, Edge

\* Edges go forward.
LEMMA EdgesGoForward ==
  ASSUME TraceOK(trace, synced, pending)
  PROVE  \A i, j \in DOMAIN trace : Edge(trace, synced, i, j) => i < j
<1>1. \A i \in DOMAIN trace : i \in Int
  BY DEF TraceOK, ClocksOK
<1> QED BY <1>1 DEF Edge, TraceOK, SyncedOK

\* One pass over the trace finds all that is reached.
LEMMA ReachedFromHolds ==
  ASSUME TraceOK(trace, synced, pending), pending = {}, NEW i \in DOMAIN trace
  PROVE  \A j \in DOMAIN trace : j \in ReachedFrom(i) <=> Knows(trace, j, i)
<1> DEFINE n == Len(trace)
           R(j) == Reaches(trace, synced, i, j)
<1>1. n \in Nat /\ DOMAIN trace = 1..n
  BY DEF TraceOK, ClocksOK
<1>2. PICK f : IsClosure(f, Edges, i, n) /\ ReachedFrom(i) = f[n]
  BY <1>1, ReachedFromIs
<1> DEFINE T == {k \in Nat : k <= n => f[k] = {j \in 1..k : R(j)}}
<1>3. 0 \in T
  <2>1. f[0] = {}
    BY <1>1, <1>2 DEF IsClosure
  <2> QED BY <2>1
<1>4. ASSUME NEW k \in Nat, k \in T
      PROVE  k + 1 \in T
  <2> SUFFICES ASSUME k + 1 <= n PROVE f[k + 1] = {j \in 1..(k + 1) : R(j)}
    OBVIOUS
  <2>1. k + 1 \in 1..n /\ k + 1 \in DOMAIN trace /\ k <= n /\ 1..k \subseteq DOMAIN trace
    BY <1>1
  <2>2. f[k] = {j \in 1..k : R(j)}
    BY <1>4, <2>1
  <2>3. f[k + 1] = ClosureStep(Edges, i, f[k], k + 1)
    <3>1. k + 1 \in 0..n /\ k + 1 # 0 /\ (k + 1) - 1 = k
      BY <2>1, <1>1
    <3> QED BY <1>2, <3>1 DEF IsClosure
  <2>4. R(k + 1) <=> (k + 1 = i \/ \E m \in f[k] : <<m, k + 1>> \in Edges)
    <3>1. ASSUME k + 1 # i, R(k + 1)
          PROVE  \E m \in f[k] : <<m, k + 1>> \in Edges
      <4>1. PICK m \in DOMAIN trace : R(m) /\ Edge(trace, synced, m, k + 1)
        BY <2>1, <3>1, LastStep
      <4>2. m < k + 1
        BY <2>1, <4>1, EdgesGoForward
      <4>3. m \in f[k]
        BY <1>1, <2>2, <4>1, <4>2
      <4> QED BY <2>1, <4>1, <4>3, EdgesAre
    <3>2. ASSUME NEW m \in f[k], <<m, k + 1>> \in Edges
          PROVE  R(k + 1)
      <4>1. m \in DOMAIN trace /\ R(m)
        BY <2>1, <2>2
      <4>2. Edge(trace, synced, m, k + 1)
        BY <2>1, <3>2, <4>1, EdgesAre
      <4> QED BY <2>1, <4>1, <4>2, ReachesSteps
    <3>3. k + 1 = i => R(k + 1)
      BY ReachesItself
    <3> HIDE DEF R
    <3> QED BY <3>1, <3>2, <3>3
  <2>5. {j \in 1..(k + 1) : R(j)} = IF R(k + 1) THEN f[k] \cup {k + 1} ELSE f[k]
    <3> HIDE DEF R
    <3>1. \A j : j \in 1..(k + 1) <=> j \in 1..k \/ j = k + 1
      OBVIOUS
    <3> QED BY <2>2, <3>1
  <2> HIDE DEF R
  <2> QED BY <2>3, <2>4, <2>5 DEF ClosureStep
<1>5. Nat \subseteq T
  <2> HIDE DEF T
  <2> QED BY <1>3, <1>4, NatSetInduction
<1>6. ReachedFrom(i) = {j \in 1..n : R(j)}
  BY <1>1, <1>2, <1>5
<1>7. \A j \in DOMAIN trace : R(j) <=> Knows(trace, j, i)
  BY ReachedIsKnown, KnownIsReached DEF TraceOK
<1> HIDE DEF R
<1> QED BY <1>1, <1>6, <1>7

\* Before can be read off the vector of the later access.
LEMMA BeforeIs ==
  ASSUME TraceOK(trace, synced, pending), pending = {}, AccessesOK(trace, accesses),
         NEW a \in accesses, NEW b \in accesses
  PROVE  Before(a, b) <=> (a.tid = b.tid \/ trace[b.at].cv[a.tid] > a.at)
<1>1. Len(trace) \in Nat /\ DOMAIN trace = 1..Len(trace)
      /\ \A i \in DOMAIN trace : trace[i] \in Actions
  BY DEF TraceOK, ClocksOK
<1>2. /\ a.at \in DOMAIN trace /\ a.tid \in Threads /\ trace[a.at].tid = a.tid
      /\ b.at \in DOMAIN trace /\ b.tid \in Threads /\ trace[b.at].tid = b.tid
  BY DEF AccessesOK
<1>3. trace[b.at].cv[a.tid] \in Nat /\ a.at \in Nat /\ a.at >= 1
  BY <1>1, <1>2 DEF Actions
<1>4. ASSUME NEW i \in (a.at + 1)..Len(trace), trace[i].tid = a.tid, b.at \in ReachedFrom(i)
      PROVE  trace[b.at].cv[a.tid] > a.at
  <2>1. i \in DOMAIN trace /\ i > a.at
    BY <1>1, <1>3
  <2>2. Knows(trace, b.at, i)
    BY <1>2, <1>4, <2>1, ReachedFromHolds
  <2> QED BY <1>3, <1>4, <2>1, <2>2 DEF Knows
<1>5. ASSUME trace[b.at].cv[a.tid] > a.at
      PROVE  \E i \in (a.at + 1)..Len(trace) : trace[i].tid = a.tid /\ b.at \in ReachedFrom(i)
  <2> DEFINE k == trace[b.at].cv[a.tid]
  <2>1. k # 0 /\ k \in Nat /\ k > a.at
    BY <1>3, <1>5
  <2>2. k \in 1..b.at /\ trace[k].tid = a.tid
    BY <1>2, <2>1 DEF TraceOK, ClocksOK
  <2>3. k \in DOMAIN trace /\ k \in (a.at + 1)..Len(trace)
    BY <1>1, <1>2, <1>3, <2>1, <2>2
  <2>4. Knows(trace, b.at, k)
    BY <2>1, <2>2 DEF Knows
  <2>5. b.at \in ReachedFrom(k)
    BY <1>2, <2>3, <2>4, ReachedFromHolds
  <2> QED BY <2>2, <2>3, <2>5
<1> QED BY <1>4, <1>5 DEF Before

\* The order the vectors give is transitive.
LEMMA OrderedIsTransitive ==
  ASSUME ClocksOK(trace), AccessesOK(trace, accesses),
         NEW x \in accesses, NEW y \in accesses, NEW z \in accesses,
         Ordered(trace, x, y), Ordered(trace, y, z)
  PROVE  Ordered(trace, x, z)
<1>1. /\ x.at \in DOMAIN trace /\ y.at \in DOMAIN trace /\ z.at \in DOMAIN trace
      /\ x.tid \in Threads /\ y.tid \in Threads /\ z.tid \in Threads
      /\ trace[x.at].tid = x.tid /\ trace[y.at].tid = y.tid /\ trace[z.at].tid = z.tid
  BY DEF AccessesOK
<1>2. \A i \in DOMAIN trace : i \in Nat /\ trace[i] \in Actions
  BY DEF ClocksOK
<1>3. \A i \in DOMAIN trace, t \in Threads : trace[i].cv[t] \in Nat
  BY <1>2 DEF Actions
<1>4. Knows(trace, z.at, y.at)
  <2>1. CASE y.tid = z.tid
    <3>1. y.at <= z.at /\ trace[z.at].cv[z.tid] = z.at
      BY <1>1, <2>1 DEF Ordered, ClocksOK
    <3> QED BY <1>1, <2>1, <3>1 DEF Knows
  <2>2. CASE y.tid # z.tid
    <3>1. trace[z.at].cv[y.tid] > y.at /\ trace[z.at].cv[y.tid] \in Nat /\ y.at \in Nat
      BY <1>1, <1>2, <1>3, <2>2 DEF Ordered
    <3> QED BY <1>1, <3>1 DEF Knows
  <2> QED BY <2>1, <2>2
<1>5. trace[y.at].cv[x.tid] <= trace[z.at].cv[x.tid]
  BY <1>1, <1>4 DEF ClocksOK
<1>6. /\ trace[y.at].cv[x.tid] \in Nat /\ trace[z.at].cv[x.tid] \in Nat
      /\ trace[z.at].cv[y.tid] \in Nat
      /\ x.at \in Nat /\ y.at \in Nat /\ z.at \in Nat
  BY <1>1, <1>2, <1>3
<1>7. trace[z.at].cv[z.tid] = z.at /\ trace[y.at].cv[y.tid] = y.at
  BY <1>1 DEF ClocksOK
<1>8. CASE x.tid = y.tid
  BY <1>6, <1>8 DEF Ordered
<1>9. CASE x.tid # y.tid
  <2>1. trace[z.at].cv[x.tid] > x.at
    BY <1>5, <1>6, <1>9 DEF Ordered
  <2> QED BY <1>6, <1>7, <2>1 DEF Ordered
<1> QED BY <1>8, <1>9

-----------------------------------------------------------------------------
(***************************************************************************)
(* The theorems.                                                           *)
(***************************************************************************)
LEMMA AssertedRaces ==
  ASSUME IInv, NEW race \in asserted
  PROVE  \E a, b \in accesses :
           /\ a.tid = race.old.tid /\ a.at = race.old.clock /\ a.write = race.old.write
           /\ b.at = race.newaction /\ b.write = race.write
           /\ a.byte = race.byte /\ InRace(a, b)
<1>1. TraceOK(trace, synced, pending) /\ AccessesOK(trace, accesses) /\ ClocksOK(trace)
  BY DEF IInv, TraceOK
<1>2. RaceOK(trace, race, accesses) /\ StillRaces(race, trace) /\ pending = {}
  BY DEF IInv, DetectorOK, RacesOK
<1>3. PICK a, b \in accesses :
        /\ a.tid = race.old.tid /\ a.at = race.old.clock /\ a.write = race.old.write
        /\ b.at = race.newaction /\ b.write = race.write
        /\ a.byte = race.byte /\ b.byte = race.byte
        /\ a.write \/ b.write
        /\ a.tid # b.tid
        /\ \A i \in DOMAIN trace : (trace[i].tid = b.tid /\ i > b.at) => i > a.at
  BY <1>2 DEF RaceOK
<1>4. /\ a.at \in DOMAIN trace /\ a.tid \in Threads /\ trace[a.at].tid = a.tid
      /\ b.at \in DOMAIN trace /\ b.tid \in Threads /\ trace[b.at].tid = b.tid
  BY <1>1 DEF AccessesOK
<1>5. Len(trace) \in Nat /\ DOMAIN trace = 1..Len(trace)
      /\ \A i \in DOMAIN trace : trace[i] \in Actions
  BY <1>1 DEF ClocksOK
<1>6. /\ trace[b.at].cv[a.tid] \in Nat /\ trace[a.at].cv[b.tid] \in Nat
      /\ a.at \in Nat /\ b.at \in Nat
  BY <1>4, <1>5 DEF Actions
<1>7. ~Before(a, b)
  <2>1. trace[b.at].cv[a.tid] <= a.at
    BY <1>2, <1>3 DEF StillRaces, clock_may_race
  <2>2. ~(trace[b.at].cv[a.tid] > a.at)
    BY <1>6, <2>1
  <2> QED BY <1>1, <1>2, <1>3, <2>2, BeforeIs
<1>8. ~Before(b, a)
  <2> SUFFICES ASSUME trace[a.at].cv[b.tid] > b.at PROVE FALSE
    BY <1>1, <1>2, <1>3, BeforeIs
  <2> DEFINE k == trace[a.at].cv[b.tid]
  <2>1. k # 0 /\ k \in Nat /\ k > b.at
    BY <1>6
  <2>2. k \in 1..a.at /\ trace[k].tid = b.tid
    BY <1>1, <1>4, <2>1 DEF ClocksOK
  <2>3. k \in DOMAIN trace /\ k <= a.at
    BY <1>4, <1>5, <1>6, <2>2
  <2>4. k > a.at
    BY <1>3, <2>1, <2>2, <2>3
  <2> HIDE DEF k
  <2> QED BY <1>6, <2>1, <2>3, <2>4
<1> QED BY <1>3, <1>7, <1>8 DEF InRace

\* The order of the accesses made, as a set of pairs.
OrderOf(tr, A) == {e \in A \X A : Ordered(tr, e[1], e[2])}

LEMMA OrderedIsOrderOf ==
  ASSUME NEW tr, NEW A, NEW x \in A, NEW y \in A
  PROVE  <<x, y>> \in OrderOf(tr, A) <=> Ordered(tr, x, y)
<1>1. <<x, y>> \in A \X A /\ <<x, y>>[1] = x /\ <<x, y>>[2] = y
  OBVIOUS
<1> QED BY <1>1 DEF OrderOf

LEMMA ConflictsAreOrdered ==
  ASSUME IInv, Running, pending = {}, NEW a \in accesses, NEW b \in accesses
  PROVE  ~InRace(a, b)
<1>1. TraceOK(trace, synced, pending) /\ AccessesOK(trace, accesses) /\ ClocksOK(trace)
  BY DEF IInv, TraceOK
<1>2. unrealized = {} /\ asserted = {}
  BY DEF IInv, DetectorOK, RacesOK, Running
<1> DEFINE R == OrderOf(trace, accesses)
<1>3. \A x, y \in accesses : <<x, y>> \in R <=> Ordered(trace, x, y)
  BY OrderedIsOrderOf
<1> HIDE DEF R
<1>4. MayBecome(R, trace, unrealized, accesses)
  <2>1. \A x, y \in accesses : (Ordered(trace, x, y) \/ Kept(unrealized, x, y)) => <<x, y>> \in R
    BY <1>2, <1>3 DEF Kept
  <2>2. \A x, y, z \in accesses : (<<x, y>> \in R /\ <<y, z>> \in R) => <<x, z>> \in R
    BY <1>1, <1>3, OrderedIsTransitive
  <2> QED BY <2>1, <2>2 DEF MayBecome
<1>5. \A c \in Bytes : Covered(R, accesses, c, shadow[c])
  BY <1>2, <1>4 DEF IInv, DetectorOK
<1>6. ASSUME a.byte = b.byte, a.write \/ b.write
      PROVE  Before(a, b) \/ Before(b, a)
  <2>1. a.byte \in Bytes
    BY <1>1 DEF AccessesOK
  <2>2. <<a, b>> \in R \/ <<b, a>> \in R
    BY <1>5, <1>6, <2>1 DEF Covered
  <2>3. Ordered(trace, a, b) \/ Ordered(trace, b, a)
    BY <1>3, <2>2
  <2>4. \/ a.tid = b.tid
        \/ trace[b.at].cv[a.tid] > a.at
        \/ trace[a.at].cv[b.tid] > b.at
    BY <2>3 DEF Ordered
  <2> QED BY <1>1, <2>4, BeforeIs
<1> QED BY <1>6 DEF InRace

\* Clock vectors are happens-before: with no release sequence left to settle, the
\* actions a vector knows are those that program order and synchronisation lead
\* from, though propagate_clockvector has added to vectors that others had
\* already been made from.
VectorsAreHappensBefore ==
  pending = {} =>
    \A i, j \in DOMAIN trace : Knows(trace, j, i) <=> j \in ReachedFrom(i)

\* ClockVector::merge and propagate_clockvector keep vectors exact.
THEOREM VectorsAreExact == Spec => []VectorsAreHappensBefore
<1>1. IInv => VectorsAreHappensBefore
  BY ReachedFromHolds DEF IInv, VectorsAreHappensBefore
<1> QED BY <1>1, Invariance, PTL

\* reportDataRace raises no false alarm: a race that is asserted is one of two
\* accesses of the execution, one of them a write, that neither program order
\* nor synchronisation orders.
THEOREM AlarmsAreReal == Spec => []RacesAreReal
<1>1. IInv => RacesAreReal
  BY AssertedRaces DEF RacesAreReal
<1> QED BY <1>1, Invariance, PTL

\* fullRaceCheckRead, fullRaceCheckWrite and the checks of short records
\* miss nothing: in a feasible prefix that reported no race there is none.
THEOREM NoRaceIsMissed == Spec => []RacesAreFound
<1>1. IInv => RacesAreFound
  BY ConflictsAreOrdered DEF RacesAreFound, isfeasibleprefix
<1> QED BY <1>1, Invariance, PTL

\* fullRaceCheckRead writes past the arrays of a record only after an access
\* with a thread id or a clock too large for a short record.
THEOREM OverrunsAreOfLargeIds == Spec => []OverrunsNeedLargeIds
<1>1. IInv => OverrunsNeedLargeIds
  BY DEF IInv, Large, OverrunsNeedLargeIds
<1> QED BY <1>1, Invariance, PTL

=============================================================================
