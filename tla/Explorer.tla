------------------------------ MODULE Explorer ------------------------------
(***************************************************************************)
(* How assignment3/model-checker explores the executions of a program: the *)
(* NodeStack with its backtracking points (nodestack.cc), the sleep set    *)
(* and the round-robin choice of the Scheduler (schedule.cc), the search   *)
(* for conflicting actions (execution.cc) and the loop that replays,       *)
(* diverges and restarts (model.cc).                                       *)
(*                                                                         *)
(* An execution is a sequence of actions; nodes[i] belongs to action i and *)
(* holds the choices after it.  The node stack survives an execution, the  *)
(* engine, the scheduler and the trace are rolled back to the start.       *)
(***************************************************************************)
EXTENDS ProgramActions

CONSTANTS Program,  \* Program[n]: a program with its parameters
          Outcomes  \* Outcomes[n]: how an execution of Program[n] may end

Names == DOMAIN Program

VARIABLES name,      \* the program under test
          phase,     \* what the run loop does next
          eng,       \* the engine (ProgramActions)
          trace,     \* the actions performed, oldest first
          nodes,     \* NodeStack::node_list
          head,      \* NodeStack::head_idx, counted from 1
          diverge,   \* the action at which this execution leaves the last one, or 0
          nextBacktrack, \* the latest action with something left to explore, or 0
          turn,      \* Scheduler::curr_thread_index
          chosen,    \* the thread to step, or None
          seen       \* how the executions so far ended

vars == <<name, phase, eng, trace, nodes, head, diverge, nextBacktrack, turn, chosen, seen>>

prog == Program[name]
Threads == ThreadsOf(prog)

NoYields == [u \in Threads |-> [v \in Threads |-> {"S", "D"}]]
NoTurns == [t \in Threads |-> [enabled |-> 0, turns |-> 0, priority |-> FALSE]]

Init == /\ name \in Names
        /\ phase = "choose"
        /\ eng = InitialEngine(prog)
        /\ trace = <<>>
        /\ nodes = <<>>
        /\ head = 0
        /\ diverge = 0
        /\ nextBacktrack = 0
        /\ turn = 0
        /\ chosen = 1
        /\ seen = {}
-----------------------------------------------------------------------------
(* Nodes.                                                                  *)

EnabledIn(node, t) == node.enabled[t] # "disabled"

HasPriorityOver(node, t, u) == "P" \in node.yield[t][u]

\* Fairness within a window of fairwindow actions: a thread that was enabled
\* often and never ran gets priority.  parent is the node before the new one,
\* oldest the node that leaves the window.
FairnessOf(t, act, h, prev) ==
  LET inWindow == h > 0 /\ EnabledIn(prev[h], t)
      left == h - prog.fairwindow
      leaves == h > prog.fairwindow + 1 /\ prog.fairwindow # 0
      was == IF h = 0 THEN NoTurns[t] ELSE prev[h].fair[t]
      enabled == was.enabled + (IF inWindow THEN 1 ELSE 0)
                   - (IF leaves /\ EnabledIn(prev[left - 1], t) THEN 1 ELSE 0)
      turns == was.turns + (IF t = act.tid THEN 1 ELSE 0)
                   - (IF leaves /\ prev[left].tid = t THEN 1 ELSE 0)
  IN [enabled |-> enabled, turns |-> turns,
      priority |-> \/ was.priority /\ t # act.tid
                   \/ leaves /\ enabled >= prog.enabledcount /\ turns = 0]

NewNode(act, h, prev) ==
  [tid |-> act.tid,
   explored |-> {}, backtrack |-> {},
   enabled |-> [t \in Threads |-> "disabled"],
   misc |-> 0, miscmax |-> MiscMax(act),
   fair |-> IF prog.fairwindow = 0 THEN NoTurns
            ELSE [t \in Threads |-> FairnessOf(t, act, h, prev)],
   yield |-> NoYields]

ExploreChild(node, t) ==
  [node EXCEPT !.enabled = eng.en, !.explored = @ \cup {t}, !.backtrack = @ \ {t}]

\* The stack after act: it grows unless the execution replays the last one.
ExploreAction(act) ==
  IF head < Len(nodes) THEN nodes
  ELSE LET prev == IF head = 0 THEN nodes
                   ELSE [nodes EXCEPT ![head] = ExploreChild(@, act.tid)]
       IN Append(prev, NewNode(act, head, prev))

\* Yield fairness: after yielding to v, u waits until v had its turn.
YieldAfter(act, e, above, u, v) ==
  LET kept == above.yield[u][v]
      disabled == e.en[v] = "disabled"
      y1 == IF ~disabled THEN kept
            ELSE (kept \ {"E"}) \cup (IF u = act.tid /\ EnabledIn(above, v) THEN {"D"} ELSE {})
      y2 == IF v = act.tid THEN (y1 \ {"P"}) \cup {"S"} ELSE y1
  IN IF u = act.tid /\ act.kind = "yield"
     THEN (IF "P" \in y2 \/ (y2 \cap {"E", "D"} # {} /\ "S" \notin y2) THEN {"P"} ELSE {})
            \cup (IF disabled THEN {} ELSE {"E"})
     ELSE y2

UpdateYield(act, e, stack) ==
  IF ~prog.yieldon \/ head = 0 THEN stack
  ELSE [stack EXCEPT ![head + 1].yield =
          [u \in Threads |-> [v \in Threads |->
             IF {u, v} \subseteq CreatedIn(prog, e) THEN YieldAfter(act, e, stack[head], u, v)
             ELSE {"S", "D"}]]]

ClearBacktracking(node) == [node EXCEPT !.explored = {}, !.backtrack = {}]

\* Keeps n nodes, counted from the current one; what the last of them had set
\* for exploration goes too.
PopRestOfStack(stack, n) ==
  [SubSeq(stack, 1, head + n - 1) EXCEPT ![head + n - 1] = ClearBacktracking(@)]

IncrementMisc(node) == [node EXCEPT !.misc = @ + 1]

MiscEmpty(node) == node.misc + 1 >= node.miscmax
-----------------------------------------------------------------------------
(* Backtracking points.                                                    *)

AllowedByFairness(node, t) ==
  /\ prog.fairwindow = 0 \/ node.fair[t].priority
       \/ \A u \in Threads : ~(EnabledIn(node, u) /\ node.fair[u].priority)
  /\ ~prog.yieldon
       \/ \A u \in Threads : ~(EnabledIn(node, u) /\ HasPriorityOver(node, t, u))

\* The threads to try instead of the action after this node, when act should
\* have come first: its own thread if that could run, else any.
Alternatives(node, act) ==
  {t \in IF node.enabled[act.tid] = "enabled" THEN {act.tid} ELSE Threads :
     /\ node.enabled[t] = "enabled"
     /\ t \notin node.explored
     /\ AllowedByFairness(node, t)}

SetBacktrack(node, T) == [node EXCEPT !.backtrack = @ \cup T]

\* Node of the action before the last conflict; Alternatives are marked there.
SetBacktracking(stack, conflict, T) ==
  IF T = {} THEN stack ELSE [stack EXCEPT ![conflict - 1] = SetBacktrack(@, T)]

GetNextBacktrack(node) == CHOOSE t \in node.backtrack : \A u \in node.backtrack : t <= u

Later(next, i) == IF i > next THEN i ELSE next

\* check_curr_backtracking and set_latest_backtrack: where to diverge next.
LatestBacktrack(stack, conflict, T) ==
  LET here == (head > 0 /\ stack[head].backtrack # {}) \/ ~MiscEmpty(stack[head + 1])
      marked == IF T # {} THEN Later(nextBacktrack, conflict) ELSE nextBacktrack
  IN IF here THEN Later(marked, head + 1) ELSE marked
-----------------------------------------------------------------------------
(* Choosing the next thread.                                               *)

\* Threads in the order in which round robin tries them, given 0..k of them.
RoundRobin ==
  LET n == Cardinality(CreatedIn(prog, eng)) + 1
  IN [i \in 1..n |-> (turn + i) % n]

MayBeScheduled(t) ==
  /\ t # None
  /\ eng.en[t] = "enabled"
  /\ prog.yieldon => \A u \in Threads : eng.en[u] # "disabled" => ~HasPriorityOver(nodes[head], t, u)
  /\ \/ prog.fairwindow = 0 \/ nodes[head].fair[t].priority
     \/ \A u \in Threads : ~(nodes[head].fair[u].priority /\ eng.en[u] # "disabled")

\* Beyond the last execution: the Scheduler chooses.
SelectNextThread ==
  /\ phase = "choose" /\ chosen = None /\ diverge = 0
  /\ \E i \in DOMAIN RoundRobin :
       /\ MayBeScheduled(RoundRobin[i])
       /\ \A j \in 1..(i - 1) : ~MayBeScheduled(RoundRobin[j])
       /\ chosen' = RoundRobin[i]
       /\ turn' = RoundRobin[i]
  /\ phase' = "step"
  /\ UNCHANGED <<name, eng, trace, nodes, head, diverge, nextBacktrack, seen>>

\* Nobody can be chosen.
EndOfExecution ==
  /\ phase = "choose" /\ chosen = None /\ diverge = 0
  /\ \A i \in DOMAIN RoundRobin : ~MayBeScheduled(RoundRobin[i])
  /\ phase' = "finish"
  /\ UNCHANGED <<name, eng, trace, nodes, head, diverge, nextBacktrack, turn, chosen, seen>>

\* The child of a create runs next, whatever the node stack says.
FollowSelected ==
  /\ phase = "choose" /\ chosen # None
  /\ phase' = "step"
  /\ UNCHANGED <<name, eng, trace, nodes, head, diverge, nextBacktrack, turn, chosen, seen>>

Replay ==
  /\ phase = "choose" /\ chosen = None /\ diverge # 0 /\ head + 1 # diverge
  /\ chosen' = nodes[head + 1].tid
  /\ phase' = "step"
  /\ UNCHANGED <<name, eng, trace, nodes, head, diverge, nextBacktrack, turn, seen>>

\* Who slept at a node sleeps again.
UpdateSleepSet(node) ==
  [t \in Threads |-> IF node.enabled[t] = "sleep" THEN "sleep" ELSE eng.en[t]]

\* Mutant: the thread explored before stays awake.
AddSleepNot(en, t) == en

RemoveSleep(e, T) == SetEnabled(e, T, "enabled")

AddSleep(en, t) == [en EXCEPT ![t] = "sleep"]

AtDivergence == phase = "choose" /\ chosen = None /\ diverge # 0 /\ head + 1 = diverge

\* The same thread again, its action with the next outcome.
DivergeBehavior ==
  /\ AtDivergence
  /\ ~MiscEmpty(nodes[diverge])
  /\ eng' = [eng EXCEPT !.en = UpdateSleepSet(nodes[head])]
  /\ nodes' = PopRestOfStack([nodes EXCEPT ![diverge] = IncrementMisc(@)], 2)
  /\ chosen' = nodes[diverge].tid
  /\ turn' = chosen'
  /\ diverge' = 0
  /\ phase' = "step"
  /\ UNCHANGED <<name, trace, head, nextBacktrack, seen>>

\* Another thread; the one explored before goes to sleep.
DivergeThread ==
  /\ AtDivergence
  /\ MiscEmpty(nodes[diverge])
  /\ eng' = [eng EXCEPT !.en = AddSleep(UpdateSleepSet(nodes[head]), nodes[diverge].tid)]
  /\ chosen' = GetNextBacktrack(nodes[head])
  /\ nodes' = PopRestOfStack(nodes, 1)
  /\ turn' = chosen'
  /\ diverge' = 0
  /\ phase' = "step"
  /\ UNCHANGED <<name, trace, head, nextBacktrack, seen>>
-----------------------------------------------------------------------------
(* Taking a step.                                                          *)

\* A sleeping thread wakes when an action is performed that its own pending
\* one may have to be reordered with.  A try_lock that is being performed does
\* not know its result yet.
WakeUpSleeping(act) ==
  RemoveSleep(eng, {t \in Threads : /\ eng.en[t] = "sleep"
                                    /\ CouldSynchronizeWith(Pending(prog, eng, t), act)})

\* The engine and the stack after act, and the backtracking point it asks for:
\* an earlier action it conflicts with, and the threads to try there.
Stepped(act, e, stack, done) ==
  /\ trace' = Append(trace, done)
  /\ \E after \in {Perform(prog, e, act, stack[head + 1].misc)} :
       IF Len(trace) + 1 > prog.bound
       THEN eng' = after /\ phase' = "finish"
       ELSE /\ eng' = Settled(prog, after)
            /\ phase' = IF IsWaitingOnItself(prog, after, chosen) THEN "finish" ELSE "choose"
  /\ \E conflict \in {LastConflict(Append(trace, done))} :
       \E T \in {IF conflict <= 1 THEN {} ELSE Alternatives(stack[conflict - 1], done)} :
         /\ nodes' = SetBacktracking(stack, conflict, T)
         /\ nextBacktrack' = LatestBacktrack(stack, conflict, T)

TakeStep ==
  /\ phase = "step"
  /\ \E act \in {Pending(prog, eng, chosen)} :
     \E done \in {AsPerformed(eng, act)} :
     \E e \in {WakeUpSleeping(IF act.kind = "cas" THEN done ELSE act)} :
       /\ \E stack \in {UpdateYield(act, e, ExploreAction(act))} : Stepped(act, e, stack, done)
       /\ chosen' = IF act.kind = "create" THEN act.arg ELSE None
  /\ head' = head + 1
  /\ UNCHANGED <<name, diverge, turn, seen>>
-----------------------------------------------------------------------------
(* The end of an execution.                                                *)

Deadlocked(p, e) ==
  \/ \E t \in Alive(p, e) : IsWaitingOnItself(p, e, t)
  \/ (\A t \in ThreadsOf(p) : e.en[t] = "disabled") /\ Alive(p, e) # {}

\* An outcome: what the threads observed, or a deadlock.
OutcomeOf(p, e) == IF Deadlocked(p, e) THEN [deadlock |-> TRUE, obs |-> <<>>]
                   ELSE [deadlock |-> FALSE, obs |-> e.obs]

\* Mutant: redundant executions are reported too.
IsReportedAlways == TRUE

\* Is there anything to report?  An execution that sleeping threads or the
\* bound have cut short is redundant.
IsReported ==
  \/ \E t \in Alive(prog, eng) : IsWaitingOnItself(prog, eng, t)
  \/ /\ \A t \in Threads : eng.en[t] = "disabled"
     /\ prog.yieldblock => \A t \in Threads : ~PendingKind(prog, eng, t, "yield")

RecordStats ==
  IF IsReported
  THEN seen' = seen \cup {OutcomeOf(prog, eng)}
  ELSE UNCHANGED seen

\* The next execution diverges at the latest action with something left.
NextExecution ==
  /\ phase = "finish" /\ nextBacktrack # 0
  /\ RecordStats
  /\ diverge' = nextBacktrack
  /\ phase' = "choose"
  /\ eng' = InitialEngine(prog)
  /\ trace' = <<>>
  /\ head' = 0
  /\ nextBacktrack' = 0
  /\ turn' = 0
  /\ chosen' = 1
  /\ UNCHANGED <<name, nodes>>

Complete ==
  /\ phase = "finish" /\ nextBacktrack = 0
  /\ RecordStats
  /\ phase' = "complete"
  /\ UNCHANGED <<name, eng, trace, nodes, head, diverge, nextBacktrack, turn, chosen>>

Next == \/ SelectNextThread \/ EndOfExecution \/ FollowSelected \/ Replay
        \/ DivergeBehavior \/ DivergeThread \/ TakeStep
        \/ NextExecution \/ Complete

\* One thread runs the loop; it never stops while it can go on.
Spec == Init /\ [][Next]_vars /\ WF_vars(Next)
-----------------------------------------------------------------------------
\* Fairness, yields and the bound prune executions on purpose; the properties
\* about what is lost ask about programs explored without them.
Exhaustive(n) ==
  Program[n].fairwindow = 0 /\ ~Program[n].yieldon /\ ~Program[n].yieldblock

\* "exhaustively explores the behaviors" (README.md:4): when the exploration
\* is over, every way the program can end has been seen.
EveryOutcomeIsSeen ==
  phase = "complete" /\ Exhaustive(name) => Outcomes[name] \subseteq seen

\* Two threads besides main(), which only creates and joins them, and no mutex
\* that both of them try.
IsPair(p) ==
  /\ Len(p.threads) = 3
  /\ \A i \in DOMAIN p.threads[1] : p.threads[1][i].kind \in {"create", "join"}
  /\ \A i \in DOMAIN p.threads[2], j \in DOMAIN p.threads[3] :
       LET a == p.threads[2][i]
           b == p.threads[3][j]
       IN ~(a.kind = "trylock" /\ b.kind = "trylock" /\ a.loc = b.loc)

\* What holds of that: sleep sets, the one backtracking point that an action
\* asks for and the points that pop_restofstack forgets lose no outcome of two
\* threads.  The most recent action of the other thread that an action
\* conflicts with (get_last_conflict, execution.cc:401) is then the one to try to
\* reorder it with: if it cannot be, neither can those before it.
PairsLoseNothing ==
  phase = "complete" /\ Exhaustive(name) /\ IsPair(Program[name]) => Outcomes[name] \subseteq seen

\* Nothing is reported that no schedule of the program produces.
OnlyRealOutcomes == phase = "complete" => seen \subseteq Outcomes[name]

\* The exploration ends, for programs that wait in a loop under yield
\* fairness as well.
ExplorationEnds == <>(phase = "complete")
=============================================================================
