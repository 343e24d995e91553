-------------------------- MODULE AllInterleavings --------------------------
(***************************************************************************)
(* The reference for Explorer: how a program can end when any thread that  *)
(* is enabled may take the next step, whatever the executions share.       *)
(***************************************************************************)
EXTENDS ProgramActions

Enabled(p, e) == {t \in ThreadsOf(p) : e.en[t] = "enabled"}

InDeadlock(p, e) ==
  \/ \E t \in Alive(p, e) : IsWaitingOnItself(p, e, t)
  \/ Enabled(p, e) = {} /\ Alive(p, e) # {}

After(p, e, t, misc) == Settled(p, Perform(p, e, Pending(p, e, t), misc))

Steps(p, e) ==
  IF InDeadlock(p, e) THEN {}
  ELSE UNION {{After(p, e, t, misc) : misc \in 0..(MiscMax(Pending(p, e, t)) - 1)}
                \cup (IF MiscMax(Pending(p, e, t)) = 0 THEN {After(p, e, t, 0)} ELSE {})
              : t \in Enabled(p, e)}

RECURSIVE Reach(_, _, _)
Reach(p, known, frontier) ==
  IF frontier = {} THEN known
  ELSE LET new == UNION {Steps(p, e) : e \in frontier} \ known
       IN Reach(p, known \cup new, new)

Ends(p) ==
  LET e0 == InitialEngine(p)
      final == {e \in Reach(p, {e0}, {e0}) : Steps(p, e) = {}}
  IN {[deadlock |-> TRUE, obs |-> <<>>] : e \in {e \in final : InDeadlock(p, e)}}
       \cup {[deadlock |-> FALSE, obs |-> e.obs] : e \in {e \in final : ~InDeadlock(p, e)}}
=============================================================================
