----------------------------- MODULE MCExplorer -----------------------------
(***************************************************************************)
(* Programs for Explorer.  main() creates the other threads, runs its own  *)
(* part and joins them.                                                    *)
(***************************************************************************)
EXTENDS Explorer, AllInterleavings

Op(kind, loc, arg) == [kind |-> kind, loc |-> loc, arg |-> arg]
Read(x) == Op("read", x, "")
Until(x) == Op("read", x, "until")
Write(x, v) == Op("write", x, v)
Add(x, v) == Op("rmw", x, v)
Cas(x, a, b) == Op("cas", x, <<a, b>>)
LockOf(m) == Op("lock", m, "")
TryLockOf(m, skip) == Op("trylock", m, skip)
UnlockOf(m) == Op("unlock", m, "")
WaitOn(c, m) == Op("wait", c, m)
NotifyAllOf(c) == Op("notify_all", c, "")
CreateT(t) == Op("create", "", t)
JoinT(t) == Op("join", "", t)
\* main() with n - 1 other threads: creates them, runs own, joins them.
Main(own, n) == [t \in 1..(n - 1) |-> CreateT(t + 1)] \o own \o [t \in 1..(n - 1) |-> JoinT(t + 1)]

Of(main, others) ==
  [threads |-> <<Main(main, Len(others) + 1)>> \o others,
   fairwindow |-> 0, enabledcount |-> 1, yieldon |-> FALSE, yieldblock |-> FALSE, bound |-> 60]

Critical(m, body) == <<LockOf(m)>> \o body \o <<UnlockOf(m)>>
Probe(m, body) == <<TryLockOf(m, Len(body) + 1)>> \o body \o <<UnlockOf(m)>>

Spin == Of(<<>>, <<<<Until("x")>>, <<Write("x", 1)>>>>)

Explorable ==
  [StoreBuffer |-> Of(<<>>, <<<<Write("x", 1), Read("y")>>, <<Write("y", 1), Read("x")>>>>),
   Counters |-> Of(<<>>, <<<<Add("x", 1), Read("y")>>, <<Add("x", 1), Write("y", 1)>>>>),
   Swaps |-> Of(<<>>, <<<<Cas("x", 0, 1), Read("x")>>, <<Cas("x", 0, 2)>>, <<Cas("x", 1, 3)>>>>),
   Locked |-> Of(<<>>, <<Critical("m", <<Add("x", 1)>>), Critical("m", <<Read("x")>>),
                         Critical("n", <<Write("x", 5)>>)>>),
   CrossedLocks |-> Of(<<>>, <<Critical("m", Critical("n", <<>>)), Critical("n", Critical("m", <<>>))>>),
   OneTry |-> Of(<<>>, <<Critical("m", <<Add("x", 1)>>), Probe("m", <<Read("x")>>)>>),
   Signal |-> Of(<<>>, <<Critical("m", <<WaitOn("c", "m"), Read("x")>>),
                         Critical("m", <<Write("x", 1), NotifyAllOf("c")>>)>>),
   SpinYields |-> [Spin EXCEPT !.yieldon = TRUE],
   SpinWindow |-> [Spin EXCEPT !.fairwindow = 6, !.enabledcount = 2],
   SpinBlocks |-> [Spin EXCEPT !.yieldblock = TRUE]]

\* Any two accesses of a thread against any two of another one, and critical
\* sections against each other; each program is named by what the threads do.
Atomics(v) == {Read("x"), Write("x", v), Cas("x", 0, v), Read("y"), Write("y", v)}
Bodies(v) == Atomics(v) \X Atomics(v)

Sections ==
  {Critical("m", <<Read("x")>>), Critical("m", <<Add("x", 1)>>), Critical("n", <<Write("x", 2)>>),
   Critical("m", Critical("n", <<>>)), Critical("n", Critical("m", <<>>)),
   Critical("m", <<Write("x", 1), NotifyAllOf("c")>>),
   Probe("m", <<Read("x")>>), Probe("m", <<Write("x", 3)>>)}

Waiter == Critical("m", <<WaitOn("c", "m"), Read("x")>>)

Pairs == (Bodies(1) \X Bodies(2)) \cup (Sections \X Sections)
           \cup ({Waiter} \X Sections) \cup (Sections \X {Waiter})
Named == {<<s>> : s \in DOMAIN Explorable}

Programs == [n \in Pairs \cup Named |-> IF n \in Named THEN Explorable[n[1]] ELSE Of(<<>>, n)]
ProgramEnds == [n \in DOMAIN Programs |-> Ends(Programs[n])]

\* A write that two reads conflict with, one of which comes before it anyway; and
\* two threads that try one mutex.
Lossy ==
  [TwoReaders |-> Of(<<>>, <<<<Write("x", 1), Write("y", 1)>>, <<Read("y")>>, <<Read("y"), Read("x")>>>>),
   TwoTries |-> Of(<<>>, <<Probe("m", <<>>), Probe("m", <<>>)>>)]
LossyEnds == [n \in DOMAIN Lossy |-> Ends(Lossy[n])]
=============================================================================
