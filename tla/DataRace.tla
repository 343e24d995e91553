------------------------------ MODULE DataRace ------------------------------
(***************************************************************************)
(* The data race detector of assignment3/model-checker: datarace.cc,       *)
(* datarace.h, and the calls of librace.cc that lead to it.                *)
(*                                                                         *)
(* Every byte of memory has a shadow word.  A short record packs the last  *)
(* write and one read; a full record keeps one read per thread that still  *)
(* matters.  A non-atomic access is compared, by the clock vector of the   *)
(* last action of its thread, with the accesses recorded.                  *)
(*                                                                         *)
(* The clocks belong to the engine: a release or an acquire is an action,  *)
(* and an acquire whose release sequence is not settled yet may be found   *)
(* to synchronise long after other actions and accesses, whose vectors     *)
(* then grow.  Until then the trace is no feasible prefix, and a race is   *)
(* kept aside.                                                             *)
(***************************************************************************)
EXTENDS Integers, Sequences, FiniteSets, FiniteSetsExt

CONSTANTS
  N,             \* threads 1..N; thread 1 is main() and creates the others
  Bytes,         \* addresses, consecutive integers
  Widths,        \* bytes in an access: {1, 2, 4, 8} in the code
  MaxThreadId,   \* MAXTHREADID: the last thread id a short record holds
  MaxClock,      \* MAXWRITEVECTOR: the last clock a short record holds
  InitCapacity,  \* INITCAPACITY
  MaxSteps       \* bound on the actions and the accesses together

ASSUME DataRaceAssumption ==
  /\ N \in Nat \ {0} /\ Bytes \subseteq Int /\ Widths \subseteq Nat \ {0}
  /\ MaxThreadId \in Nat /\ MaxClock \in Nat
  /\ InitCapacity \in Nat \ {0}
  /\ MaxSteps \in Nat

VARIABLES
  trace,     \* the actions, by sequence number: [tid, cv]
  pending,   \* acquires that may still synchronise: [rel, acq]
  shadow,    \* per byte, its record
  unrealized,\* unrealizedraces
  asserted,  \* races stored as bugs of the execution; the first one ends it
  overrun,   \* a full record was written past the end of its arrays
  synced,    \* history: pairs <<release, acquire>> that synchronise
  accesses,  \* history: the accesses made, [tid, at, write, byte]
  made       \* their number, for the bound

engine == <<trace, pending>>
detector == <<shadow, unrealized, asserted, overrun>>
history == <<synced, accesses, made>>
vars == <<engine, detector, history>>

Threads == 1..N

-----------------------------------------------------------------------------
(* Clocks.                                                                 *)

\* The last action of a thread; its own entry in its vector is its number.
get_parent_action(t) == Max({i \in DOMAIN trace : trace[i].tid = t})
get_cv(t) == trace[get_parent_action(t)].cv

Merge(cv1, cv2) == [t \in Threads |-> Max({cv1[t], cv2[t]})]

\* propagate_clockvector: every action from the acquire on that comes after
\* it in happens-before.
Propagated(tr, rel, acq) ==
  LET cv == Merge(tr[acq].cv, tr[rel].cv)
  IN [i \in DOMAIN tr |->
       IF i >= acq /\ tr[i].cv[tr[acq].tid] >= acq
         THEN [tr[i] EXCEPT !.cv = Merge(@, cv)]
         ELSE tr[i]]

\* Mutant: equal clocks count as ordered.
clock_may_raceStrictly(cv1, tid1, clock2, tid2) ==
  /\ tid1 # tid2
  /\ clock2 # 0
  /\ cv1[tid2] < clock2

\* The access comes after the action whose clock it carries, so equal clocks race.
clock_may_race(cv1, tid1, clock2, tid2) ==
  /\ tid1 # tid2
  /\ clock2 # 0
  /\ cv1[tid2] <= clock2

-----------------------------------------------------------------------------
(* Records: the accesses recorded, [tid, clock, write]; reads is a         *)
(* sequence, and a short record has at most one.  The untouched shadow     *)
(* word 0 decodes like an empty short record.                              *)

NoAccess == [tid |-> 0, clock |-> 0, write |-> TRUE]
Recorded(t, cv, write) == [tid |-> t, clock |-> cv[t], write |-> write]

Short(reads, write) == [full |-> FALSE, reads |-> reads, write |-> write, capacity |-> 1]
Untouched == Short(<<>>, NoAccess)

Full(reads, write, capacity) ==
  [full |-> TRUE, reads |-> reads, write |-> write, capacity |-> capacity]

expandRecord(r) == Full(r.reads, r.write, IF r.reads = <<>> THEN 0 ELSE InitCapacity)

\* A thread id or a clock that does not fit a short record.
TooLarge(t, cv) == t > MaxThreadId \/ cv[t] > MaxClock

\* Those of a sequence of recorded accesses that thread t may race with.
Racing(s, t, cv) ==
  LET racing[k \in 0..Len(s)] ==
        IF k = 0 THEN <<>>
        ELSE IF clock_may_race(cv, t, s[k].clock, s[k].tid) THEN Append(racing[k - 1], s[k])
        ELSE racing[k - 1]
  IN racing[Len(s)]

\* What an access is compared with, in the order of the checks.
Compared(r, write) == IF write THEN Append(r.reads, r.write) ELSE <<r.write>>

AfterWrite(r, t, cv) ==
  LET mine == Recorded(t, cv, TRUE)
  IN IF r.full THEN Full(<<>>, mine, r.capacity)
     ELSE IF TooLarge(t, cv) THEN Full(<<>>, mine, expandRecord(r).capacity)
     ELSE Short(<<>>, mine)

\* Mutant: the record grows one read too late.
FullAfterReadLate(r, t, cv) ==
  LET kept == Racing(r.reads, t, cv)
  IN Full(Append(kept, Recorded(t, cv, FALSE)), r.write,
          IF Len(kept) > r.capacity THEN 2 * r.capacity ELSE r.capacity)

\* A full record drops the reads this one subsumes and doubles its capacity
\* when the others fill it.
FullAfterRead(r, t, cv) ==
  LET kept == Racing(r.reads, t, cv)
  IN Full(Append(kept, Recorded(t, cv, FALSE)), r.write,
          IF Len(kept) >= r.capacity THEN 2 * r.capacity ELSE r.capacity)

AfterRead(r, t, cv) ==
  IF r.full THEN FullAfterRead(r, t, cv)
  ELSE IF TooLarge(t, cv) \/ Racing(r.reads, t, cv) # <<>>
    THEN FullAfterRead(expandRecord(r), t, cv)
  ELSE Short(<<Recorded(t, cv, FALSE)>>, r.write)

After(r, t, cv, write) == IF write THEN AfterWrite(r, t, cv) ELSE AfterRead(r, t, cv)

-----------------------------------------------------------------------------
(* Reports.  A race keeps the clock of the first access and the action     *)
(* before the second, whose vector may grow.                               *)

\* isfeasibleprefix, as far as races are concerned: nothing left to settle.
isfeasibleprefix(pend) == pend = {}

StillRaces(race, tr) ==
  LET act == tr[race.newaction]
  IN clock_may_race(act.cv, act.tid, race.old.clock, race.old.tid)

Judged(races, tr) ==
  [unrealized |-> {},
   asserted |-> races.asserted \cup {race \in races.unrealized : StillRaces(race, tr)}]

\* Mutant: the list is judged whatever is pending.
checkDataRacesEarly(races, tr, pend) == Judged(races, tr)

\* checkDataRaces: the list of races = [unrealized, asserted] is judged and
\* cleared in a feasible prefix only.
checkDataRaces(races, tr, pend) ==
  IF isfeasibleprefix(pend) THEN Judged(races, tr) ELSE races

\* reportDataRace, once for every race found; the first realised one switches
\* to the model checker and the thread never comes back.
Reported(races, found, t, write, byte) ==
  LET Race(old) == [old |-> old, newaction |-> get_parent_action(t), write |-> write, byte |-> byte]
      after[k \in 0..Len(found)] ==
        IF k = 0 THEN races
        ELSE IF after[k - 1].asserted # {} THEN after[k - 1]
        ELSE checkDataRaces([unrealized |-> after[k - 1].unrealized \cup {Race(found[k])},
                             asserted |-> {}],
                            trace, pending)
  IN after[Len(found)]

\* raceCheckWrite or raceCheckRead of one byte; d = [shadow, races].
CheckByte(d, t, write, byte) ==
  LET r == d.shadow[byte]
      cv == get_cv(t)
      races == Reported(d.races, Racing(Compared(r, write), t, cv), t, write, byte)
  IN [shadow |-> IF races.asserted # {} THEN d.shadow
                 ELSE [d.shadow EXCEPT ![byte] = After(r, t, cv, write)],
      races  |-> races]

-----------------------------------------------------------------------------
Init ==
  \* main has created threads 2..N by its actions 2..N, and each has started
  /\ trace = [i \in 1..(2 * N - 1) |->
               IF i <= N
                 THEN [tid |-> 1, cv |-> [t \in Threads |-> IF t = 1 THEN i ELSE 0]]
                 ELSE [tid |-> i - N + 1,
                       cv |-> [t \in Threads |-> CASE t = 1 -> i - N + 1
                                                   [] t = i - N + 1 -> i
                                                   [] OTHER -> 0]]]
  /\ synced = {<<i, N + i - 1>> : i \in 2..N}
  /\ pending = {}
  /\ shadow = [b \in Bytes |-> Untouched]
  /\ unrealized = {}
  /\ asserted = {}
  /\ overrun = FALSE
  /\ accesses = {}
  /\ made = 0

Running == asserted = {} /\ ~overrun
MayGoOn == Running /\ Len(trace) + made < 2 * N - 1 + MaxSteps

NewAction(t, cv) ==
  trace' = Append(trace, [tid |-> t, cv |-> [cv EXCEPT ![t] = Len(trace) + 1]])

\* An action that others may synchronise with: an unlock or a release store.
Release(t) ==
  /\ MayGoOn
  /\ NewAction(t, get_cv(t))
  /\ UNCHANGED <<pending, detector, history>>

\* An action of another thread that synchronises with it at once: a lock, or an
\* acquire load of the release store itself.
Acquire(t, rel) ==
  /\ MayGoOn
  /\ trace[rel].tid # t /\ rel > 2 * N - 1
  /\ NewAction(t, Merge(get_cv(t), trace[rel].cv))
  /\ synced' = synced \union {<<rel, Len(trace) + 1>>}
  /\ UNCHANGED <<pending, detector, accesses, made>>

\* An acquire load whose release sequence cannot be judged yet.
AcquireLazily(t, rel) ==
  /\ MayGoOn
  /\ trace[rel].tid # t /\ rel > 2 * N - 1
  /\ NewAction(t, get_cv(t))
  /\ pending' = pending \union {[rel |-> rel, acq |-> Len(trace) + 1]}
  /\ UNCHANGED <<detector, history>>

\* resolve_release_sequences: the sequence holds, and the vectors from the acquire
\* on grow, or it is broken; then the races kept aside are looked at.
Settle(p, holds) ==
  /\ Running
  /\ pending' = pending \ {p}
  /\ trace' = IF holds THEN Propagated(trace, p.rel, p.acq) ELSE trace
  /\ synced' = IF holds THEN synced \union {<<p.rel, p.acq>>} ELSE synced
  /\ \E races \in {checkDataRaces([unrealized |-> unrealized, asserted |-> asserted],
                                trace', pending')} :
       unrealized' = races.unrealized /\ asserted' = races.asserted
  /\ UNCHANGED <<shadow, overrun, accesses, made>>

\* load_8..load_64 and store_8..store_64: the bytes from first on, in turn.
Checked(t, write, first, width) ==
  LET d[i \in 0..width] ==
        IF i = 0 THEN [shadow |-> shadow,
                       races |-> [unrealized |-> unrealized, asserted |-> asserted]]
        ELSE IF d[i - 1].races.asserted # {} THEN d[i - 1]
        ELSE CheckByte(d[i - 1], t, write, first + i - 1)
  IN d[width]

Access(t, write, first, width) ==
  /\ MayGoOn
  /\ made' = made + 1
  /\ first..(first + width - 1) \subseteq Bytes
  /\ \E d \in {Checked(t, write, first, width)} :
       /\ shadow' = d.shadow
       /\ unrealized' = d.races.unrealized
       /\ asserted' = d.races.asserted
       /\ overrun' = \E b \in Bytes : Len(d.shadow[b].reads) > d.shadow[b].capacity
  /\ accesses' = accesses \cup
       {[tid |-> t, at |-> get_parent_action(t), write |-> write, byte |-> b] :
          b \in first..(first + width - 1)}
  /\ UNCHANGED <<engine, synced>>

Next ==
  \/ \E t \in Threads : Release(t)
  \/ \E t \in Threads, rel \in DOMAIN trace : Acquire(t, rel)
  \/ \E t \in Threads, rel \in DOMAIN trace : AcquireLazily(t, rel)
  \/ \E p \in pending, holds \in BOOLEAN : Settle(p, holds)
  \/ \E t \in Threads, write \in BOOLEAN, first \in Bytes, width \in Widths :
       Access(t, write, first, width)

Spec == Init /\ [][Next]_vars

-----------------------------------------------------------------------------
(* Happens-before, from the history alone.                                 *)

\* Program order and synchronisation, what may still synchronise included: a
\* race must not depend on it.
Edges == {e \in (1..Len(trace)) \X (1..Len(trace)) :
            \/ e[1] < e[2] /\ trace[e[1]].tid = trace[e[2]].tid
            \/ e \in synced
            \/ [rel |-> e[1], acq |-> e[2]] \in pending}

\* The actions reached from action i.  Edges go forward in the trace, so one
\* pass over it closes them.
ReachedFrom(i) ==
  LET reached[j \in 0..Len(trace)] ==
        IF j = 0 THEN {}
        ELSE IF j = i \/ \E k \in reached[j - 1] : <<k, j>> \in Edges THEN reached[j - 1] \cup {j}
        ELSE reached[j - 1]
  IN reached[Len(trace)]

\* Access a comes before access b when some action of a's thread after a does.
Before(a, b) ==
  IF a.tid = b.tid THEN TRUE
  ELSE \E i \in (a.at + 1)..Len(trace) : trace[i].tid = a.tid /\ b.at \in ReachedFrom(i)

InRace(a, b) ==
  /\ a.byte = b.byte
  /\ a.write \/ b.write
  /\ ~Before(a, b) /\ ~Before(b, a)

\* No false alarm (datarace.cc:106-148): a race that is asserted is one of two
\* accesses of this execution, one of them a write, that nothing orders or may
\* yet order, also when it was kept aside while a release sequence was open.
RacesAreReal ==
  \A race \in asserted : \E a, b \in accesses :
    /\ a.tid = race.old.tid /\ a.at = race.old.clock /\ a.write = race.old.write
    /\ b.at = race.newaction /\ b.write = race.write
    /\ a.byte = race.byte /\ InRace(a, b)

\* No race is missed: in a feasible prefix without a report, no two accesses
\* race, though a record forgets the reads a write or a later read covers, and
\* clocks have grown since they were compared (datarace.cc:175-358).
RacesAreFound ==
  Running /\ isfeasibleprefix(pending) => \A a, b \in accesses : ~InRace(a, b)

\* A full record outgrows its arrays only when it was made from a word without
\* a read, for a thread id or a clock too large for a short one: the doubling
\* (datarace.cc:288) starts from 0 there.
OverrunsNeedLargeIds ==
  overrun => \E a \in accesses : a.tid > MaxThreadId \/ a.at > MaxClock
=============================================================================
