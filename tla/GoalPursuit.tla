---------------------------- MODULE GoalPursuit ----------------------------
(***************************************************************************)
(* A goal from A2A SendMessage to its end: daemon/a2a (create, cancel),    *)
(* agents/workflows/dispatcher.py (a polling loop), and the pursue_goal    *)
(* and run_subagent workflows of agents/workflows/goal.py, over the goal,  *)
(* task and run rows.                                                      *)
(*                                                                         *)
(* DBOS is external.  What goal.py relies on: a workflow id starts at most *)
(* once; the result of a finished step is recorded, and a restarted worker *)
(* runs every pending workflow again from the top, replaying recorded      *)
(* steps; a cancelled workflow is stopped when it begins its next step or  *)
(* waits for a child, never inside a step; the queue bounds how many       *)
(* children run.  parent and child are its durable rows, at and sub the    *)
(* threads of the worker process, lost when it dies.                       *)
(***************************************************************************)
EXTENDS Naturals, FiniteSets

CONSTANTS Goal, Task,
          Concurrency,   \* AMH_SUBAGENT_CONCURRENCY
          MaxCrashes     \* bound on worker crashes

ASSUME GoalPursuitAssumption ==
  /\ Concurrency \in Nat \ {0}
  /\ MaxCrashes \in Nat
  /\ "none" \notin Goal

VARIABLES goal,     \* goal.status
          task,     \* task rows: the goal each belongs to and its status
          runs,     \* run rows of each task still 'running'
          parent,   \* pursue_goal: its DBOS status and the recorded result of decompose_goal
          child,    \* run_subagent: its DBOS status and whether do_subagent_work is recorded
          at,       \* where the thread of each pursue_goal is, and the tasks its step made
          sub,      \* where the thread of each run_subagent is
          loop,     \* the dispatcher's pass: what it listed and is working through
          worker,   \* "up" or "down"
          crashes

rows == <<goal, task, runs>>
dbos == <<parent, child>>
threads == <<at, sub, loop>>
process == <<worker, crashes>>
vars == <<rows, dbos, threads, process>>

Workflow == {"none", "pending", "success", "error", "cancelled"}
NoTask == [goal |-> "none", status |-> "absent"]
Off == [pc |-> "off", made |-> {}]

TypeOK ==
  /\ goal \in [Goal -> {"absent", "open", "done", "canceled"}]
  /\ task \in [Task -> {NoTask} \cup
                       [goal : Goal, status : {"open", "active", "done", "failed"}]]
  /\ runs \in [Task -> Nat]
  /\ parent \in [Goal -> [status : Workflow, tasks : SUBSET Task]]
  /\ child \in [Task -> [status : Workflow \cup {"enqueued"},
                         work : {"none", "ok", "raised"}]]
  /\ at \in [Goal -> [pc : {"off", "decompose", "fan", "synthesize", "written"},
                      made : SUBSET Task]]
  /\ sub \in [Task -> {"off", "work", "end"}]
  /\ loop \in [phase : {"idle", "start", "cancel"}, list : SUBSET Goal]
  /\ worker \in {"up", "down"}
  /\ crashes \in 0..MaxCrashes

Init ==
  /\ goal = [g \in Goal |-> "absent"]
  /\ task = [t \in Task |-> NoTask]
  /\ runs = [t \in Task |-> 0]
  /\ parent = [g \in Goal |-> [status |-> "none", tasks |-> {}]]
  /\ child = [t \in Task |-> [status |-> "none", work |-> "none"]]
  /\ at = [g \in Goal |-> Off]
  /\ sub = [t \in Task |-> "off"]
  /\ loop = [phase |-> "idle", list |-> {}]
  /\ worker = "up"
  /\ crashes = 0

Running(t) == child[t].status = "pending"

----------------------------------------------------------------------------
(* daemon/a2a *)
CreateTaskFromMessage(g) ==
  /\ goal[g] = "absent"
  /\ goal' = [goal EXCEPT ![g] = "open"]
  /\ UNCHANGED <<task, runs, dbos, threads, process>>

\* A message that continues a task, or has no text part, is refused.
HandleSendMessage(g, continues, text) == ~continues /\ text /\ CreateTaskFromMessage(g)

isTerminal(status) == status \in {"done", "failed", "canceled"}

\* One transaction under the row's lock.
CancelTask(g) ==
  /\ goal[g] # "absent" /\ ~isTerminal(goal[g])
  /\ goal' = [goal EXCEPT ![g] = "canceled"]
  /\ UNCHANGED <<task, runs, dbos, threads, process>>

\* POST /tasks/{id}:cancel; no other custom method is known.
HandleTasksPost(g, method) == method = "cancel" /\ CancelTask(g)

\* What clients read of a goal.
goalStateToTaskState(status) ==
  CASE status = "active"   -> "WORKING"
    [] status = "done"     -> "COMPLETED"
    [] status = "failed"   -> "FAILED"
    [] status = "canceled" -> "CANCELED"
    [] OTHER               -> "SUBMITTED"

GetTask(g) == IF goal[g] = "absent" THEN "not found" ELSE goalStateToTaskState(goal[g])

----------------------------------------------------------------------------
(* dispatcher.py: list the open goals and start each; list the canceled      *)
(* ones and cancel each; sleep.                                              *)
\* Mutant of ClaimAndDispatch: it lists the goals that are 'active'.
ClaimActive ==
  /\ worker = "up"
  /\ loop.phase = "idle"
  /\ loop' = [phase |-> "start", list |-> {g \in Goal : goal[g] = "active"}]
  /\ UNCHANGED <<rows, dbos, at, sub, process>>

ClaimAndDispatch ==
  /\ worker = "up"
  /\ loop.phase = "idle"
  /\ loop' = [phase |-> "start", list |-> {g \in Goal : goal[g] = "open"}]
  /\ UNCHANGED <<rows, dbos, at, sub, process>>

StartWorkflow(g) ==
  /\ loop.phase = "start" /\ g \in loop.list
  /\ loop' = [loop EXCEPT !.list = @ \ {g}]
  /\ parent' = IF parent[g].status = "none" THEN [parent EXCEPT ![g].status = "pending"] ELSE parent
  /\ UNCHANGED <<rows, child, at, sub, process>>

CancelInterruptedGoals ==
  /\ loop = [phase |-> "start", list |-> {}]
  /\ loop' = [phase |-> "cancel", list |-> {g \in Goal : goal[g] = "canceled"}]
  /\ UNCHANGED <<rows, dbos, at, sub, process>>

\* Mutant of CancelWorkflow: cancel_workflow without cancel_children.
CancelParentOnly(g) ==
  /\ loop.phase = "cancel" /\ g \in loop.list
  /\ loop' = [loop EXCEPT !.list = @ \ {g}]
  /\ parent' = IF parent[g].status = "pending"
               THEN [parent EXCEPT ![g].status = "cancelled"] ELSE parent
  /\ UNCHANGED <<rows, child, at, sub, process>>

\* cancel_children: every child of the workflow that has not ended.
CancelWorkflow(g) ==
  /\ loop.phase = "cancel" /\ g \in loop.list
  /\ loop' = [loop EXCEPT !.list = @ \ {g}]
  /\ parent' = IF parent[g].status = "pending"
               THEN [parent EXCEPT ![g].status = "cancelled"] ELSE parent
  /\ child' = [t \in Task |->
       IF t \in parent[g].tasks /\ child[t].status \in {"enqueued", "pending"}
       THEN [child[t] EXCEPT !.status = "cancelled"] ELSE child[t]]
  /\ UNCHANGED <<rows, at, sub, process>>

Sleep ==
  /\ loop = [phase |-> "cancel", list |-> {}]
  /\ loop' = [phase |-> "idle", list |-> {}]
  /\ UNCHANGED <<rows, dbos, at, sub, process>>

----------------------------------------------------------------------------
(* pursue_goal *)

\* Mutant of PursueGoal: decompose_goal is not a step, so a replay runs it again.
PursueAnew(g) ==
  /\ worker = "up"
  /\ parent[g].status = "pending" /\ at[g].pc = "off"
  /\ at' = [at EXCEPT ![g].pc = "decompose"]
  /\ UNCHANGED <<rows, dbos, sub, loop, process>>

\* A thread takes up a pending workflow, for the first time or after a restart;
\* a recorded decompose_goal is replayed.
PursueGoal(g) ==
  /\ worker = "up"
  /\ parent[g].status = "pending" /\ at[g].pc = "off"
  /\ at' = [at EXCEPT ![g].pc = IF parent[g].tasks = {} THEN "decompose" ELSE "fan"]
  /\ UNCHANGED <<rows, dbos, sub, loop, process>>

\* decompose_goal: one transaction for each task the model named ...
DecomposeTask(g, t) ==
  /\ at[g].pc = "decompose"
  /\ task[t] = NoTask
  /\ task' = [task EXCEPT ![t] = [goal |-> g, status |-> "open"]]
  /\ at' = [at EXCEPT ![g].made = @ \cup {t}]
  /\ UNCHANGED <<goal, runs, dbos, sub, loop, process>>

\* ... and the step's result is recorded.
Decomposed(g) ==
  /\ at[g].pc = "decompose" /\ at[g].made # {}
  /\ parent' = [parent EXCEPT ![g].tasks = at[g].made]
  /\ at' = [at EXCEPT ![g] = [pc |-> "fan", made |-> {}]]
  /\ UNCHANGED <<rows, child, sub, loop, process>>

\* The workflow raises; a cancelled one is left cancelled.
Raise(g) ==
  /\ parent' = IF parent[g].status = "pending"
               THEN [parent EXCEPT ![g].status = "error"] ELSE parent
  /\ at' = [at EXCEPT ![g] = Off]

\* No model provider, or not the JSON it asked for: before any task is made.
DecomposeRaises(g) ==
  /\ at[g].pc = "decompose" /\ at[g].made = {}
  /\ Raise(g)
  /\ UNCHANGED <<rows, child, sub, loop, process>>

StartSubagent(g, t) ==
  /\ at[g].pc = "fan"
  /\ t \in parent[g].tasks /\ child[t].status = "none"
  /\ child' = [child EXCEPT ![t].status = "enqueued"]
  /\ UNCHANGED <<rows, parent, threads, process>>

\* h.get_result() raises for a child that failed, or because this workflow is cancelled.
GatherRaises(g) ==
  /\ at[g].pc = "fan"
  /\ \/ parent[g].status = "cancelled"
     \/ \E t \in parent[g].tasks : child[t].status \in {"error", "cancelled"}
  /\ Raise(g)
  /\ UNCHANGED <<rows, child, sub, loop, process>>

\* Mutant of Gathered: a child that raised counts as one that returned.
GatheredExceptions(g) ==
  /\ at[g].pc = "fan"
  /\ parent[g].status = "pending"
  /\ \A t \in parent[g].tasks : child[t].status \in {"success", "error"}
  /\ at' = [at EXCEPT ![g].pc = "synthesize"]
  /\ UNCHANGED <<rows, dbos, sub, loop, process>>

\* Every child returned: the synthesize step begins ...
Gathered(g) ==
  /\ at[g].pc = "fan"
  /\ parent[g].status = "pending"
  /\ \A t \in parent[g].tasks : child[t].status = "success"
  /\ at' = [at EXCEPT ![g].pc = "synthesize"]
  /\ UNCHANGED <<rows, dbos, sub, loop, process>>

\* ... and writes set_goal_status(goal_id, "done"), whatever the row says.
Synthesize(g) ==
  /\ at[g].pc = "synthesize"
  /\ goal' = [goal EXCEPT ![g] = "done"]
  /\ at' = [at EXCEPT ![g].pc = "written"]
  /\ UNCHANGED <<task, runs, dbos, sub, loop, process>>

Return(g) ==
  /\ at[g].pc = "written"
  /\ parent' = IF parent[g].status = "pending"
               THEN [parent EXCEPT ![g].status = "success"] ELSE parent
  /\ at' = [at EXCEPT ![g] = Off]
  /\ UNCHANGED <<rows, child, sub, loop, process>>

----------------------------------------------------------------------------
(* run_subagent *)

Dequeue(t) ==
  /\ worker = "up"
  /\ child[t].status = "enqueued"
  /\ Cardinality({u \in Task : Running(u)}) < Concurrency
  /\ child' = [child EXCEPT ![t].status = "pending"]
  /\ UNCHANGED <<rows, parent, threads, process>>

\* create_run and 'active' are not steps: a replay makes another run row.
RunSubagent(t) ==
  /\ worker = "up"
  /\ Running(t) /\ sub[t] = "off"
  /\ runs' = [runs EXCEPT ![t] = @ + 1]
  /\ task' = [task EXCEPT ![t].status = "active"]
  /\ sub' = [sub EXCEPT ![t] = "work"]
  /\ UNCHANGED <<goal, dbos, at, loop, process>>

\* do_subagent_work, which a replay takes from its record.
DoSubagentWork(t, result) ==
  /\ sub[t] = "work"
  /\ child[t].work \in {"none", result}
  /\ child' = [child EXCEPT ![t].work = result]
  /\ task' = [task EXCEPT ![t].status = IF result = "ok" THEN "done" ELSE "failed"]
  /\ sub' = [sub EXCEPT ![t] = "end"]
  /\ UNCHANGED <<goal, runs, parent, at, loop, process>>

\* The step refuses to begin: the workflow was cancelled.
SubagentCancelled(t) ==
  /\ sub[t] = "work"
  /\ child[t].status = "cancelled"
  /\ task' = [task EXCEPT ![t].status = "failed"]
  /\ sub' = [sub EXCEPT ![t] = "end"]
  /\ UNCHANGED <<goal, runs, dbos, at, loop, process>>

\* end_run, and the workflow returns or re-raises.
EndRun(t) ==
  /\ sub[t] = "end"
  /\ runs' = [runs EXCEPT ![t] = @ - 1]
  /\ child' = IF Running(t)
              THEN [child EXCEPT ![t].status =
                      IF child[t].work = "ok" THEN "success" ELSE "error"]
              ELSE child
  /\ sub' = [sub EXCEPT ![t] = "off"]
  /\ UNCHANGED <<goal, task, parent, at, loop, process>>

----------------------------------------------------------------------------
(* The worker process, restarted by daemon/cognition's supervisor.           *)
Crash ==
  /\ worker = "up" /\ crashes < MaxCrashes
  /\ worker' = "down"
  /\ crashes' = crashes + 1
  /\ at' = [g \in Goal |-> Off]
  /\ sub' = [t \in Task |-> "off"]
  /\ loop' = [phase |-> "idle", list |-> {}]
  /\ UNCHANGED <<rows, dbos>>

Restart ==
  /\ worker = "down"
  /\ worker' = "up"
  /\ UNCHANGED <<rows, dbos, threads, crashes>>

----------------------------------------------------------------------------
Client ==
  \E g \in Goal :
    \/ \E continues, text \in BOOLEAN : HandleSendMessage(g, continues, text)
    \/ \E method \in {"cancel", "other"} : HandleTasksPost(g, method)

Dispatcher ==
  \/ ClaimAndDispatch \/ CancelInterruptedGoals \/ Sleep
  \/ \E g \in Goal : StartWorkflow(g) \/ CancelWorkflow(g)

Pursuit(g) ==
  \/ PursueGoal(g) \/ Decomposed(g) \/ DecomposeRaises(g)
  \/ \E t \in Task : DecomposeTask(g, t) \/ StartSubagent(g, t)
  \/ GatherRaises(g) \/ Gathered(g) \/ Synthesize(g) \/ Return(g)

Subagent(t) ==
  \/ Dequeue(t) \/ RunSubagent(t) \/ EndRun(t) \/ SubagentCancelled(t)
  \/ \E result \in {"ok", "raised"} : DoSubagentWork(t, result)

Next ==
  \/ Client \/ Dispatcher \/ Crash \/ Restart
  \/ \E g \in Goal : Pursuit(g)
  \/ \E t \in Task : Subagent(t)

Spec == Init /\ [][Next]_vars

\* The dispatcher polls for ever and the supervisor restarts the worker.  Nothing is
\* assumed of clients or models: a step of a workflow may never end.
FairSpec == Spec /\ WF_vars(Dispatcher) /\ WF_vars(Restart)

----------------------------------------------------------------------------
(* Properties *)

\* A goal is 'done' only when every task of its recorded decomposition is, whichever
\* crash, replay or cancellation came in between.
DoneMeansDone ==
  \A g \in Goal : goal[g] = "done" =>
    /\ parent[g].tasks # {}
    /\ \A t \in parent[g].tasks : task[t] = [goal |-> g, status |-> "done"]

\* Restarting resumes where it left off: a subagent that finished is not run again,
\* and a goal once decomposed is not decomposed anew.
FinishedStays ==
  [][/\ \A t \in Task : child[t].status = "success" => task'[t] = task[t] /\ runs'[t] <= runs[t]
     /\ \A g \in Goal : parent[g].tasks # {} =>
          /\ parent'[g].tasks = parent[g].tasks
          /\ \A t \in Task : task[t] = NoTask => task'[t].goal # g]_vars

\* cancel_interrupted_goals_once makes a cancellation real: in the end neither the
\* workflow of a canceled goal nor any child of it is left to run, whatever was
\* stale when the goal was listed and however much was enqueued since.
CancelStops ==
  \A g \in Goal : <>[](goal[g] = "canceled" =>
    /\ parent[g].status # "pending"
    /\ \A t \in parent[g].tasks : child[t].status \notin {"enqueued", "pending"})

\* Every open goal is dispatched or canceled: the dispatcher's reads claim nothing,
\* so a crash between listing and starting loses nothing.
EveryGoalDispatched ==
  \A g \in Goal : (goal[g] = "open") ~> (parent[g].status # "none" \/ goal[g] = "canceled")

\* migrations/0003_a2a.sql: 'canceled' is a real, distinct terminal state.  A client
\* that has read it reads nothing else afterwards.
CanceledFinal ==
  [][\A g \in Goal : GetTask(g) = "CANCELED" => GetTask(g)' = "CANCELED"]_vars
=============================================================================
