------------------------- MODULE GoalPursuitProofs -------------------------
(***************************************************************************)
(* Proofs about GoalPursuit, for every set of goals and tasks, every bound *)
(* of the queue and any number of worker crashes.                          *)
(***************************************************************************)
EXTENDS GoalPursuit, TLAPS

\* A task belongs to the goal whose decomposition made it, recorded or not.
Belongs ==
  /\ \A g \in Goal : \A t \in parent[g].tasks \cup at[g].made : task[t].goal = g
  /\ \A t \in Task : child[t].status # "none" => task[t] # NoTask

\* Where a pursue_goal thread can be: it decomposes only while nothing is recorded.
Threads ==
  \A g \in Goal :
    /\ at[g].pc = "decompose" => parent[g].tasks = {}
    /\ at[g].pc \in {"fan", "synthesize", "written"} => parent[g].tasks # {}
    /\ at[g].pc # "decompose" => at[g].made = {}

\* A run_subagent thread runs a workflow that has not ended, has a run row of its own,
\* and once its work is recorded has written the task accordingly.
Subagents ==
  \A t \in Task :
    /\ sub[t] # "off" => child[t].status \in {"pending", "cancelled"} /\ runs[t] >= 1
    /\ sub[t] = "end" /\ child[t].status = "pending" =>
         child[t].work # "none" /\ (child[t].work = "ok" => task[t].status = "done")
    /\ child[t].status = "success" => task[t].status = "done"

\* The fan-out of a goal is over, and every child returned.
Finished(g) == parent[g].tasks # {} /\ \A t \in parent[g].tasks : child[t].status = "success"

Synthesized ==
  \A g \in Goal : at[g].pc = "synthesize" \/ goal[g] = "done" => Finished(g)

IInv == TypeOK /\ Belongs /\ Threads /\ Subagents /\ Synthesized

----------------------------------------------------------------------------
TaskRow == [goal : Goal, status : {"open", "active", "done", "failed"}]
ParentRow == [status : Workflow, tasks : SUBSET Task]
ChildRow == [status : Workflow \cup {"enqueued"}, work : {"none", "ok", "raised"}]
AtRow == [pc : {"off", "decompose", "fan", "synthesize", "written"}, made : SUBSET Task]
GoalStatus == {"absent", "open", "done", "canceled"}
LoopRow == [phase : {"idle", "start", "cancel"}, list : SUBSET Goal]

\* TypeOK, in the names used below.
LEMMA Shapes ==
  TypeOK <=>
    /\ goal \in [Goal -> GoalStatus]
    /\ task \in [Task -> {NoTask} \cup TaskRow]
    /\ runs \in [Task -> Nat]
    /\ parent \in [Goal -> ParentRow]
    /\ child \in [Task -> ChildRow]
    /\ at \in [Goal -> AtRow]
    /\ sub \in [Task -> {"off", "work", "end"}]
    /\ loop \in LoopRow
    /\ worker \in {"up", "down"}
    /\ crashes \in 0..MaxCrashes
  BY DEF TypeOK, TaskRow, ParentRow, ChildRow, AtRow, GoalStatus, LoopRow

\* The same of the next state.
LEMMA ShapesNext ==
  TypeOK' <=>
    /\ goal' \in [Goal -> GoalStatus]
    /\ task' \in [Task -> {NoTask} \cup TaskRow]
    /\ runs' \in [Task -> Nat]
    /\ parent' \in [Goal -> ParentRow]
    /\ child' \in [Task -> ChildRow]
    /\ at' \in [Goal -> AtRow]
    /\ sub' \in [Task -> {"off", "work", "end"}]
    /\ loop' \in LoopRow
    /\ worker' \in {"up", "down"}
    /\ crashes' \in 0..MaxCrashes
  BY DEF TypeOK, TaskRow, ParentRow, ChildRow, AtRow, GoalStatus, LoopRow

\* A task that is there has a status; an absent one has none.
LEMMA TaskThere ==
  ASSUME TypeOK, NEW t \in Task
  PROVE  /\ task[t] # NoTask <=> task[t] \in TaskRow
         /\ task[t].goal \in Goal => task[t] # NoTask
  BY Shapes, GoalPursuitAssumption DEF TaskRow, NoTask

LEMMA TaskStatus ==
  ASSUME TypeOK, NEW t \in Task, task[t] # NoTask,
         NEW s \in {"open", "active", "done", "failed"}, task' = [task EXCEPT ![t].status = s]
  PROVE  /\ task'[t].status = s /\ task'[t].goal = task[t].goal /\ task'[t] # NoTask
         /\ \A u \in Task \ {t} : task'[u] = task[u]
         /\ task' \in [Task -> {NoTask} \cup TaskRow]
<1> DEFINE r == [task[t] EXCEPT !.status = s]
<1>1. r \in TaskRow /\ r.status = s /\ r.goal = task[t].goal /\ r # NoTask
  BY TaskThere DEF TaskRow, NoTask
<1>2. task' = [task EXCEPT ![t] = r] /\ task \in [Task -> {NoTask} \cup TaskRow]
  BY Shapes
<1> HIDE DEF r
<1>3. QED
  BY <1>1, <1>2

LEMMA ChildSet ==
  ASSUME TypeOK, NEW t \in Task, NEW r \in ChildRow, child' = [child EXCEPT ![t] = r]
  PROVE  /\ child'[t] = r
         /\ \A u \in Task \ {t} : child'[u] = child[u]
         /\ child' \in [Task -> ChildRow]
  BY Shapes

LEMMA AtSet ==
  ASSUME TypeOK, NEW g \in Goal, NEW r \in AtRow, at' = [at EXCEPT ![g] = r]
  PROVE  /\ at'[g] = r
         /\ \A h \in Goal \ {g} : at'[h] = at[h]
         /\ at' \in [Goal -> AtRow]
  BY Shapes

\* The status of a pursue_goal workflow is not its recorded result.
LEMMA ParentStatus ==
  ASSUME TypeOK, NEW g \in Goal, NEW s \in Workflow,
         parent' = parent \/ parent' = [parent EXCEPT ![g].status = s]
  PROVE  /\ parent' \in [Goal -> ParentRow]
         /\ \A h \in Goal : parent'[h].tasks = parent[h].tasks
<1>1. CASE parent' = parent
  BY <1>1, Shapes
<1>2. CASE parent' = [parent EXCEPT ![g].status = s]
  <2> DEFINE r == [parent[g] EXCEPT !.status = s]
  <2>1. r \in ParentRow /\ r.tasks = parent[g].tasks
    BY Shapes DEF ParentRow
  <2>2. parent' = [parent EXCEPT ![g] = r] /\ parent \in [Goal -> ParentRow]
    BY <1>2, Shapes
  <2> HIDE DEF r
  <2>3. QED
    BY <2>1, <2>2
<1>3. QED
  BY <1>1, <1>2

----------------------------------------------------------------------------
\* Steps of clients, of the dispatcher's reads and of a start: nothing that a task, a
\* child or a thread is depends on them.
LEMMA PaperStep ==
  ASSUME IInv, UNCHANGED <<task, runs, child, at, sub>>,
         goal' \in [Goal -> GoalStatus], \A g \in Goal : goal'[g] = "done" => goal[g] = "done",
         parent' \in [Goal -> ParentRow], \A g \in Goal : parent'[g].tasks = parent[g].tasks,
         loop' \in LoopRow, worker' \in {"up", "down"}, crashes' \in 0..MaxCrashes
  PROVE  IInv'
<1> USE DEF IInv
<1>1. TypeOK'
  BY Shapes, ShapesNext
<1>2. Belongs' /\ Threads' /\ Subagents'
  BY DEF Belongs, Threads, Subagents
<1>3. Synthesized'
  BY DEF Synthesized, Finished
<1>4. QED
  BY <1>1, <1>2, <1>3

\* A pursue_goal thread moves on.
LEMMA ThreadStep ==
  ASSUME IInv, NEW g \in Goal, NEW r \in AtRow, at' = [at EXCEPT ![g] = r],
         UNCHANGED <<task, runs, child, sub, loop, process>>,
         r.made = {},
         r.pc = "decompose" => parent[g].tasks = {},
         r.pc \in {"fan", "synthesize", "written"} => parent[g].tasks # {},
         r.pc = "synthesize" => Finished(g),
         goal' \in [Goal -> GoalStatus],
         \A h \in Goal : goal'[h] = "done" => goal[h] = "done" \/ (h = g /\ Finished(g)),
         parent' \in [Goal -> ParentRow], \A h \in Goal : parent'[h].tasks = parent[h].tasks
  PROVE  IInv'
<1> USE DEF IInv
<1>1. /\ at'[g] = r /\ \A h \in Goal \ {g} : at'[h] = at[h]
      /\ at' \in [Goal -> AtRow]
  BY AtSet
<1>2. TypeOK'
  BY <1>1, Shapes, ShapesNext DEF process
<1>3. Belongs'
  BY <1>1 DEF Belongs
<1>4. Threads'
  BY <1>1 DEF Threads
<1>5. Subagents'
  BY DEF Subagents
<1>6. \A h \in Goal : Finished(h)' <=> Finished(h)
  BY DEF Finished
<1>7. Synthesized'
  BY <1>1, <1>6 DEF Synthesized
<1>8. QED
  BY <1>2, <1>3, <1>4, <1>5, <1>7

LEMMA ClientStep ==
  ASSUME IInv, Client
  PROVE  IInv'
<1>1. /\ goal' \in [Goal -> GoalStatus] /\ \A g \in Goal : goal'[g] = "done" => goal[g] = "done"
      /\ UNCHANGED <<task, runs, parent, child, at, sub, loop, worker, crashes>>
  BY Shapes DEF IInv, Client, HandleSendMessage, CreateTaskFromMessage, HandleTasksPost, CancelTask,
     dbos, threads, process, GoalStatus
<1>2. QED
  BY <1>1, Shapes, PaperStep DEF IInv

LEMMA ReadStep ==
  ASSUME IInv,
         ClaimAndDispatch \/ CancelInterruptedGoals \/ Sleep \/ Restart \/ UNCHANGED vars
  PROVE  IInv'
<1>1. loop \in LoopRow /\ worker \in {"up", "down"}
  BY Shapes DEF IInv
<1>2. loop' \in LoopRow /\ worker' \in {"up", "down"}
  BY <1>1 DEF ClaimAndDispatch, CancelInterruptedGoals, Sleep, Restart, vars, threads, process,
     LoopRow
<1>3. UNCHANGED <<goal, task, runs, parent, child, at, sub, crashes>>
  BY DEF ClaimAndDispatch, CancelInterruptedGoals, Sleep, Restart, vars, rows, dbos, threads, process
<1>4. QED
  BY <1>2, <1>3, Shapes, PaperStep DEF IInv

LEMMA StartStep ==
  ASSUME IInv, NEW g \in Goal, StartWorkflow(g)
  PROVE  IInv'
<1>1. loop \in LoopRow
  BY Shapes DEF IInv
<1>2. loop' \in LoopRow
  BY <1>1 DEF StartWorkflow, LoopRow
<1>3. parent' = parent \/ parent' = [parent EXCEPT ![g].status = "pending"]
  BY DEF StartWorkflow
<1>4. /\ parent' \in [Goal -> ParentRow]
      /\ \A h \in Goal : parent'[h].tasks = parent[h].tasks
  BY <1>3, ParentStatus DEF IInv, Workflow
<1>5. UNCHANGED <<goal, task, runs, child, at, sub, worker, crashes>>
  BY DEF StartWorkflow, rows, process
<1>6. QED
  BY <1>2, <1>4, <1>5, Shapes, PaperStep DEF IInv


----------------------------------------------------------------------------
\* A child that has not ended is enqueued, taken from the queue or cancelled.
LEMMA QueueStep ==
  ASSUME IInv, UNCHANGED <<goal, task, runs, at, sub, process>>,
         loop' \in LoopRow,
         parent' \in [Goal -> ParentRow], \A g \in Goal : parent'[g].tasks = parent[g].tasks,
         child' \in [Task -> ChildRow],
         \A t \in Task : child'[t] # child[t] =>
           /\ task[t] # NoTask
           /\ child[t].status \in {"none", "enqueued", "pending"}
           /\ child'[t].status \in {"enqueued", "pending", "cancelled"}
           /\ child[t].status = "pending" => child'[t].status = "cancelled"
  PROVE  IInv'
<1> USE DEF IInv
<1>1. TypeOK'
  BY Shapes, ShapesNext DEF process
<1>2. Belongs'
  BY DEF Belongs
<1>3. Threads'
  BY DEF Threads
<1>4. Subagents'
  <2> SUFFICES ASSUME NEW t \in Task
               PROVE  /\ sub[t] # "off" => child'[t].status \in {"pending", "cancelled"}
                                           /\ runs[t] >= 1
                      /\ sub[t] = "end" /\ child'[t].status = "pending" =>
                           child'[t].work # "none"
                           /\ (child'[t].work = "ok" => task[t].status = "done")
                      /\ child'[t].status = "success" => task[t].status = "done"
    BY DEF Subagents
  <2>1. CASE child'[t] = child[t]
    BY <2>1 DEF Subagents
  <2>2. CASE child'[t] # child[t]
    BY <2>2 DEF Subagents
  <2>3. QED
    BY <2>1, <2>2
<1>5. \A t \in Task : child[t].status = "success" => child'[t].status = "success"
  OBVIOUS
<1>6. \A g \in Goal : parent[g].tasks \subseteq Task
  BY Shapes DEF ParentRow
<1>7. Synthesized'
  BY <1>5, <1>6 DEF Synthesized, Finished
<1>8. QED
  BY <1>1, <1>2, <1>3, <1>4, <1>7

LEMMA CancelStep ==
  ASSUME IInv, NEW g \in Goal, CancelWorkflow(g)
  PROVE  IInv'
<1>1. loop \in LoopRow /\ child \in [Task -> ChildRow]
  BY Shapes DEF IInv
<1>2. loop' \in LoopRow
  BY <1>1 DEF CancelWorkflow, LoopRow
<1>3. parent' = parent \/ parent' = [parent EXCEPT ![g].status = "cancelled"]
  BY DEF CancelWorkflow
<1>4. /\ parent' \in [Goal -> ParentRow]
      /\ \A h \in Goal : parent'[h].tasks = parent[h].tasks
  BY <1>3, ParentStatus DEF IInv, Workflow
<1>5. \A t \in Task : child'[t] # child[t] =>
        /\ child[t].status \in {"enqueued", "pending"}
        /\ child'[t] = [child[t] EXCEPT !.status = "cancelled"]
  BY DEF CancelWorkflow
<1>6. \A t \in Task : [child[t] EXCEPT !.status = "cancelled"] \in ChildRow
                      /\ [child[t] EXCEPT !.status = "cancelled"].status = "cancelled"
  BY <1>1 DEF ChildRow, Workflow
<1>7. child' \in [Task -> ChildRow]
  BY <1>1, <1>6 DEF CancelWorkflow
<1>8. \A t \in Task : child[t].status # "none" => task[t] # NoTask
  BY DEF IInv, Belongs
<1>9. UNCHANGED <<goal, task, runs, at, sub, process>>
  BY DEF CancelWorkflow, rows
<1>10. QED
  BY <1>2, <1>4, <1>5, <1>6, <1>7, <1>8, <1>9, QueueStep

LEMMA StartChild ==
  ASSUME IInv, NEW g \in Goal, NEW t \in Task, StartSubagent(g, t)
  PROVE  IInv'
<1> DEFINE r == [child[t] EXCEPT !.status = "enqueued"]
<1>1. child \in [Task -> ChildRow] /\ loop \in LoopRow /\ parent \in [Goal -> ParentRow]
  BY Shapes DEF IInv
<1>2. r \in ChildRow /\ r.status = "enqueued"
  BY <1>1 DEF ChildRow
<1>3. child' = [child EXCEPT ![t] = r]
  BY <1>1 DEF StartSubagent
<1>4. task[t] # NoTask
  <2>1. t \in parent[g].tasks
    BY DEF StartSubagent
  <2>2. task[t].goal = g
    BY <2>1 DEF IInv, Belongs
  <2>3. QED
    BY <2>2, TaskThere DEF IInv
<1>5. child[t].status = "none"
  BY DEF StartSubagent
<1>6. UNCHANGED <<goal, task, runs, parent, at, sub, loop, process>>
  BY DEF StartSubagent, rows, threads
<1> HIDE DEF r
<1>7. /\ child'[t] = r /\ \A u \in Task \ {t} : child'[u] = child[u]
      /\ child' \in [Task -> ChildRow]
  BY <1>2, <1>3, ChildSet DEF IInv
<1>8. QED
  BY <1>1, <1>2, <1>4, <1>5, <1>6, <1>7, QueueStep

LEMMA DequeueStep ==
  ASSUME IInv, NEW t \in Task, Dequeue(t)
  PROVE  IInv'
<1> DEFINE r == [child[t] EXCEPT !.status = "pending"]
<1>1. child \in [Task -> ChildRow] /\ loop \in LoopRow /\ parent \in [Goal -> ParentRow]
  BY Shapes DEF IInv
<1>2. r \in ChildRow /\ r.status = "pending"
  BY <1>1 DEF ChildRow, Workflow
<1>3. child' = [child EXCEPT ![t] = r]
  BY <1>1 DEF Dequeue
<1>4. child[t].status = "enqueued"
  BY DEF Dequeue
<1>5. task[t] # NoTask
  BY <1>4 DEF IInv, Belongs
<1>6. UNCHANGED <<goal, task, runs, parent, at, sub, loop, process>>
  BY DEF Dequeue, rows, threads
<1> HIDE DEF r
<1>7. /\ child'[t] = r /\ \A u \in Task \ {t} : child'[u] = child[u]
      /\ child' \in [Task -> ChildRow]
  BY <1>2, <1>3, ChildSet DEF IInv
<1>8. QED
  BY <1>1, <1>2, <1>4, <1>5, <1>6, <1>7, QueueStep

----------------------------------------------------------------------------
(* The steps of pursue_goal.                                               *)
LEMMA OffRow == Off \in AtRow /\ Off.made = {} /\ Off.pc = "off"
  BY DEF Off, AtRow

LEMMA AtField ==
  ASSUME TypeOK, NEW g \in Goal,
         NEW p \in {"off", "decompose", "fan", "synthesize", "written"}
  PROVE  /\ [at[g] EXCEPT !.pc = p] \in AtRow
         /\ [at[g] EXCEPT !.pc = p].pc = p
         /\ [at[g] EXCEPT !.pc = p].made = at[g].made
         /\ [at EXCEPT ![g].pc = p] = [at EXCEPT ![g] = [at[g] EXCEPT !.pc = p]]
<1>1. at \in [Goal -> AtRow]
  BY Shapes
<1>2. QED
  BY <1>1 DEF AtRow

LEMMA PursueStep ==
  ASSUME IInv, NEW g \in Goal, PursueGoal(g)
  PROVE  IInv'
<1> DEFINE p == IF parent[g].tasks = {} THEN "decompose" ELSE "fan"
           r == [at[g] EXCEPT !.pc = p]
<1>1. /\ at' = [at EXCEPT ![g].pc = p] /\ at[g].pc = "off"
      /\ UNCHANGED <<goal, task, runs, parent, child, sub, loop, process>>
  BY DEF PursueGoal, rows, dbos
<1>2. at[g].made = {}
  BY <1>1 DEF IInv, Threads
<1>3. p \in {"off", "decompose", "fan", "synthesize", "written"}
  OBVIOUS
<1>4. /\ p = "decompose" => parent[g].tasks = {}
      /\ p \in {"fan", "synthesize", "written"} => parent[g].tasks # {}
      /\ p # "synthesize"
  OBVIOUS
<1> HIDE DEF p
<1>5. r \in AtRow /\ r.pc = p /\ r.made = {} /\ at' = [at EXCEPT ![g] = r]
  BY <1>1, <1>2, <1>3, AtField DEF IInv
<1> HIDE DEF r
<1>6. goal \in [Goal -> GoalStatus] /\ parent \in [Goal -> ParentRow]
  BY Shapes DEF IInv
<1>7. QED
  BY <1>1, <1>4, <1>5, <1>6, ThreadStep

LEMMA GatheredStep ==
  ASSUME IInv, NEW g \in Goal, Gathered(g)
  PROVE  IInv'
<1> DEFINE r == [at[g] EXCEPT !.pc = "synthesize"]
<1>1. /\ at' = [at EXCEPT ![g].pc = "synthesize"] /\ at[g].pc = "fan"
      /\ UNCHANGED <<goal, task, runs, parent, child, sub, loop, process>>
  BY DEF Gathered, rows, dbos
<1>2. at[g].made = {} /\ parent[g].tasks # {}
  BY <1>1 DEF IInv, Threads
<1>3. Finished(g)
  BY <1>2 DEF Gathered, Finished
<1>4. r \in AtRow /\ r.pc = "synthesize" /\ r.made = {} /\ at' = [at EXCEPT ![g] = r]
  BY <1>1, <1>2, AtField DEF IInv
<1> HIDE DEF r
<1>5. goal \in [Goal -> GoalStatus] /\ parent \in [Goal -> ParentRow]
  BY Shapes DEF IInv
<1>6. QED
  BY <1>1, <1>2, <1>3, <1>4, <1>5, ThreadStep

LEMMA SynthesizeStep ==
  ASSUME IInv, NEW g \in Goal, Synthesize(g)
  PROVE  IInv'
<1> DEFINE r == [at[g] EXCEPT !.pc = "written"]
<1>1. /\ at' = [at EXCEPT ![g].pc = "written"] /\ at[g].pc = "synthesize"
      /\ goal' = [goal EXCEPT ![g] = "done"]
      /\ UNCHANGED <<task, runs, parent, child, sub, loop, process>>
  BY DEF Synthesize, dbos
<1>2. at[g].made = {} /\ parent[g].tasks # {} /\ Finished(g)
  BY <1>1 DEF IInv, Threads, Synthesized
<1>3. r \in AtRow /\ r.pc = "written" /\ r.made = {} /\ at' = [at EXCEPT ![g] = r]
  BY <1>1, <1>2, AtField DEF IInv
<1> HIDE DEF r
<1>4. goal \in [Goal -> GoalStatus] /\ parent \in [Goal -> ParentRow]
  BY Shapes DEF IInv
<1>5. /\ goal' \in [Goal -> GoalStatus]
      /\ \A h \in Goal : goal'[h] = "done" => goal[h] = "done" \/ (h = g /\ Finished(g))
  BY <1>1, <1>2, <1>4 DEF GoalStatus
<1>6. QED
  BY <1>1, <1>2, <1>3, <1>4, <1>5, ThreadStep

\* The workflow returns or raises: its thread is gone, its result is what it was.
LEMMA EndStep ==
  ASSUME IInv, NEW g \in Goal, Return(g) \/ GatherRaises(g) \/ DecomposeRaises(g)
  PROVE  IInv'
<1>1. /\ at' = [at EXCEPT ![g] = Off]
      /\ UNCHANGED <<goal, task, runs, child, sub, loop, process>>
  BY DEF Return, GatherRaises, DecomposeRaises, Raise, rows
<1>2. \E s \in {"error", "success"} :
         parent' = parent \/ parent' = [parent EXCEPT ![g].status = s]
  BY DEF Return, GatherRaises, DecomposeRaises, Raise
<1>3. /\ parent' \in [Goal -> ParentRow]
      /\ \A h \in Goal : parent'[h].tasks = parent[h].tasks
  BY <1>2, ParentStatus DEF IInv, Workflow
<1>4. goal \in [Goal -> GoalStatus]
  BY Shapes DEF IInv
<1>5. QED
  BY <1>1, <1>3, <1>4, OffRow, ThreadStep


\* decompose_goal makes a task: nobody's before, this goal's from now on.
LEMMA DecomposeTaskStep ==
  ASSUME IInv, NEW g \in Goal, NEW t \in Task, DecomposeTask(g, t)
  PROVE  IInv'
<1> USE DEF IInv
<1> DEFINE r == [at[g] EXCEPT !.made = @ \cup {t}]
           n == [goal |-> g, status |-> "open"]
<1>1. /\ at[g].pc = "decompose" /\ task[t] = NoTask
      /\ UNCHANGED <<goal, runs, parent, child, sub, loop, process>>
  BY DEF DecomposeTask, dbos
<1>2. /\ at \in [Goal -> AtRow] /\ task \in [Task -> {NoTask} \cup TaskRow]
  BY Shapes
<1>3. /\ r \in AtRow /\ r.pc = "decompose" /\ r.made = at[g].made \cup {t}
      /\ at' = [at EXCEPT ![g] = r]
  BY <1>1, <1>2 DEF DecomposeTask, AtRow
<1>4. n \in TaskRow /\ n # NoTask /\ n.goal = g /\ n.status = "open"
      /\ task' = [task EXCEPT ![t] = n]
  BY <1>1 DEF DecomposeTask, TaskRow, NoTask
<1> HIDE DEF r, n
<1>5. /\ at'[g] = r /\ \A h \in Goal \ {g} : at'[h] = at[h]
      /\ at' \in [Goal -> AtRow]
  BY <1>3, AtSet
<1>6. /\ task'[t] = n /\ \A u \in Task \ {t} : task'[u] = task[u]
      /\ task' \in [Task -> {NoTask} \cup TaskRow]
  BY <1>2, <1>4
<1>7. /\ child[t].status = "none"
      /\ \A h \in Goal : t \notin parent[h].tasks /\ t \notin at[h].made
  <2>1. task[t] = NoTask /\ ~(task[t].goal \in Goal)
    BY <1>1, TaskThere
  <2>2. QED
    BY <2>1 DEF Belongs
<1>8. TypeOK'
  BY <1>1, <1>5, <1>6, Shapes, ShapesNext DEF process
<1>9. \A h \in Goal : parent[h].tasks \subseteq Task /\ at[h].made \subseteq Task
  BY <1>2, Shapes DEF ParentRow, AtRow
<1>10. Belongs'
  <2>1. \A h \in Goal : \A u \in parent[h].tasks \cup at'[h].made : task'[u].goal = h
    <3> SUFFICES ASSUME NEW h \in Goal, NEW u \in parent[h].tasks \cup at'[h].made
                 PROVE  task'[u].goal = h
      OBVIOUS
    <3>1. CASE u = t
      <4>1. h = g
        BY <3>1, <1>5, <1>7
      <4>2. QED
        BY <3>1, <4>1, <1>4, <1>6
    <3>2. CASE u # t
      <4>1. u \in parent[h].tasks \cup at[h].made
        BY <3>2, <1>3, <1>5
      <4>2. task'[u] = task[u]
        BY <3>2, <4>1, <1>6, <1>9
      <4>3. QED
        BY <4>1, <4>2 DEF Belongs
    <3>3. QED
      BY <3>1, <3>2
  <2>2. \A u \in Task : child[u].status # "none" => task'[u] # NoTask
    BY <1>4, <1>6 DEF Belongs
  <2>3. QED
    BY <1>1, <2>1, <2>2 DEF Belongs
<1>11. Threads'
  BY <1>1, <1>3, <1>5 DEF Threads
<1>12. Subagents'
  <2>1. sub[t] = "off" /\ child[t].status = "none"
    BY <1>7 DEF Subagents
  <2>2. QED
    BY <1>1, <1>6, <2>1 DEF Subagents
<1>13. Synthesized'
  BY <1>1, <1>3, <1>5 DEF Synthesized, Finished
<1>14. QED
  BY <1>8, <1>10, <1>11, <1>12, <1>13

\* The step's result is recorded: the tasks it made.
LEMMA DecomposedStep ==
  ASSUME IInv, NEW g \in Goal, Decomposed(g)
  PROVE  IInv'
<1> USE DEF IInv
<1> DEFINE r == [pc |-> "fan", made |-> {}]
           p == [parent[g] EXCEPT !.tasks = at[g].made]
<1>1. /\ at[g].pc = "decompose" /\ at[g].made # {}
      /\ UNCHANGED <<goal, task, runs, child, sub, loop, process>>
  BY DEF Decomposed, rows
<1>2. at \in [Goal -> AtRow] /\ parent \in [Goal -> ParentRow]
  BY Shapes
<1>3. r \in AtRow /\ r.pc = "fan" /\ r.made = {} /\ at' = [at EXCEPT ![g] = r]
  BY DEF Decomposed, AtRow
<1>4. p \in ParentRow /\ p.tasks = at[g].made /\ parent' = [parent EXCEPT ![g] = p]
  BY <1>2 DEF Decomposed, AtRow, ParentRow
<1> HIDE DEF r, p
<1>5. /\ at'[g] = r /\ \A h \in Goal \ {g} : at'[h] = at[h]
      /\ at' \in [Goal -> AtRow]
  BY <1>3, AtSet
<1>6. /\ parent'[g] = p /\ \A h \in Goal \ {g} : parent'[h] = parent[h]
      /\ parent' \in [Goal -> ParentRow]
  BY <1>2, <1>4
<1>7. TypeOK'
  BY <1>1, <1>5, <1>6, Shapes, ShapesNext DEF process
<1>8. Belongs'
  <2> SUFFICES ASSUME NEW h \in Goal, NEW u \in parent'[h].tasks \cup at'[h].made
               PROVE  task[u].goal = h
    BY <1>1 DEF Belongs
  <2>1. u \in parent[h].tasks \cup at[h].made
    BY <1>3, <1>4, <1>5, <1>6
  <2>2. QED
    BY <2>1 DEF Belongs
<1>9. Threads'
  BY <1>1, <1>3, <1>4, <1>5, <1>6 DEF Threads
<1>10. Subagents'
  BY <1>1 DEF Subagents
<1>11. goal[g] # "done"
  BY <1>1 DEF Synthesized, Finished, Threads
<1>12. Synthesized'
  BY <1>1, <1>3, <1>5, <1>6, <1>11 DEF Synthesized, Finished
<1>13. QED
  BY <1>7, <1>8, <1>9, <1>10, <1>12

LEMMA PursuitStep ==
  ASSUME IInv, NEW g \in Goal, Pursuit(g)
  PROVE  IInv'
<1>1. CASE \E t \in Task : DecomposeTask(g, t) \/ StartSubagent(g, t)
  BY <1>1, DecomposeTaskStep, StartChild
<1>2. QED
  BY <1>1, PursueStep, DecomposedStep, GatheredStep, SynthesizeStep, EndStep DEF Pursuit

----------------------------------------------------------------------------
\* A thread of run_subagent moves on: it concerns its own task only, and a child that
\* returned is done.
LEMMA SubagentThread ==
  ASSUME IInv, NEW t \in Task, UNCHANGED <<goal, parent, at, loop, process>>,
         task' \in [Task -> {NoTask} \cup TaskRow], runs' \in [Task -> Nat],
         child' \in [Task -> ChildRow], sub' \in [Task -> {"off", "work", "end"}],
         \A u \in Task \ {t} : /\ task'[u] = task[u] /\ runs'[u] = runs[u]
                               /\ child'[u] = child[u] /\ sub'[u] = sub[u],
         task'[t].goal = task[t].goal, task'[t] # NoTask,
         child[t].status # "success",
         sub'[t] # "off" => child'[t].status \in {"pending", "cancelled"} /\ runs'[t] >= 1,
         sub'[t] = "end" /\ child'[t].status = "pending" =>
           child'[t].work # "none" /\ (child'[t].work = "ok" => task'[t].status = "done"),
         child'[t].status = "success" => task'[t].status = "done"
  PROVE  IInv'
<1> USE DEF IInv
<1>1. TypeOK'
  BY Shapes, ShapesNext DEF process
<1>2. \A g \in Goal : parent[g].tasks \subseteq Task /\ at[g].made \subseteq Task
  BY Shapes DEF ParentRow, AtRow
<1>3. \A u \in Task : task'[u].goal = task[u].goal /\ (task[u] # NoTask => task'[u] # NoTask)
  OBVIOUS
<1>4. Belongs'
  <2>1. \A u \in Task : child'[u].status # "none" => task'[u] # NoTask
    BY DEF Belongs
  <2>2. \A g \in Goal : \A u \in parent[g].tasks \cup at[g].made : task'[u].goal = g
    BY <1>2, <1>3 DEF Belongs
  <2>3. QED
    BY <2>1, <2>2 DEF Belongs
<1>5. Threads'
  BY DEF Threads
<1>6. Subagents'
  <2> SUFFICES ASSUME NEW u \in Task
               PROVE  /\ sub'[u] # "off" => child'[u].status \in {"pending", "cancelled"}
                                            /\ runs'[u] >= 1
                      /\ sub'[u] = "end" /\ child'[u].status = "pending" =>
                           child'[u].work # "none"
                           /\ (child'[u].work = "ok" => task'[u].status = "done")
                      /\ child'[u].status = "success" => task'[u].status = "done"
    BY DEF Subagents
  <2>1. CASE u = t
    BY <2>1
  <2>2. CASE u # t
    BY <2>2 DEF Subagents
  <2>3. QED
    BY <2>1, <2>2
<1>7. \A u \in Task : child[u].status = "success" => child'[u].status = "success"
  OBVIOUS
<1>8. Synthesized'
  BY <1>2, <1>7 DEF Synthesized, Finished
<1>9. QED
  BY <1>1, <1>4, <1>5, <1>6, <1>8

LEMMA RunStep ==
  ASSUME IInv, NEW t \in Task, RunSubagent(t)
  PROVE  IInv'
<1>1. /\ child[t].status = "pending" /\ task' = [task EXCEPT ![t].status = "active"]
      /\ UNCHANGED <<goal, parent, child, at, loop, process>>
  BY DEF RunSubagent, Running, dbos
<1>2. task[t] # NoTask
  BY <1>1 DEF IInv, Belongs
<1>3. /\ task'[t].status = "active" /\ task'[t].goal = task[t].goal /\ task'[t] # NoTask
      /\ \A u \in Task \ {t} : task'[u] = task[u]
      /\ task' \in [Task -> {NoTask} \cup TaskRow]
  BY <1>1, <1>2, TaskStatus DEF IInv
<1>4. /\ runs \in [Task -> Nat] /\ sub \in [Task -> {"off", "work", "end"}]
      /\ child \in [Task -> ChildRow]
  BY Shapes DEF IInv
<1>5. /\ runs'[t] = runs[t] + 1 /\ \A u \in Task \ {t} : runs'[u] = runs[u]
      /\ runs' \in [Task -> Nat]
  BY <1>4 DEF RunSubagent
<1>6. /\ sub'[t] = "work" /\ \A u \in Task \ {t} : sub'[u] = sub[u]
      /\ sub' \in [Task -> {"off", "work", "end"}]
  BY <1>4 DEF RunSubagent
<1>7. runs'[t] >= 1
  BY <1>4, <1>5
<1>8. QED
  BY <1>1, <1>3, <1>4, <1>5, <1>6, <1>7, SubagentThread

LEMMA WorkStep ==
  ASSUME IInv, NEW t \in Task, NEW result \in {"ok", "raised"}, DoSubagentWork(t, result)
  PROVE  IInv'
<1> DEFINE s == IF result = "ok" THEN "done" ELSE "failed"
           r == [child[t] EXCEPT !.work = result]
<1>1. /\ sub[t] = "work" /\ task' = [task EXCEPT ![t].status = s]
      /\ UNCHANGED <<goal, runs, parent, at, loop, process>>
  BY DEF DoSubagentWork
<1>2. child[t].status \in {"pending", "cancelled"} /\ runs[t] >= 1
  BY <1>1 DEF IInv, Subagents
<1>3. task[t] # NoTask
  BY <1>2 DEF IInv, Belongs
<1>4. s \in {"open", "active", "done", "failed"} /\ (result = "ok" => s = "done")
  OBVIOUS
<1> HIDE DEF s
<1>5. /\ task'[t].status = s /\ task'[t].goal = task[t].goal /\ task'[t] # NoTask
      /\ \A u \in Task \ {t} : task'[u] = task[u]
      /\ task' \in [Task -> {NoTask} \cup TaskRow]
  BY <1>1, <1>3, <1>4, TaskStatus DEF IInv
<1>6. /\ runs \in [Task -> Nat] /\ sub \in [Task -> {"off", "work", "end"}]
      /\ child \in [Task -> ChildRow]
  BY Shapes DEF IInv
<1>7. /\ r \in ChildRow /\ r.work = result /\ r.status = child[t].status
      /\ child' = [child EXCEPT ![t] = r]
  BY <1>6 DEF DoSubagentWork, ChildRow
<1> HIDE DEF r
<1>8. /\ child'[t] = r /\ \A u \in Task \ {t} : child'[u] = child[u]
      /\ child' \in [Task -> ChildRow]
  BY <1>7, ChildSet DEF IInv
<1>9. /\ sub'[t] = "end" /\ \A u \in Task \ {t} : sub'[u] = sub[u]
      /\ sub' \in [Task -> {"off", "work", "end"}]
  BY <1>6 DEF DoSubagentWork
<1>10. QED
  BY <1>1, <1>2, <1>4, <1>5, <1>6, <1>7, <1>8, <1>9, SubagentThread

LEMMA CancelledStep ==
  ASSUME IInv, NEW t \in Task, SubagentCancelled(t)
  PROVE  IInv'
<1>1. /\ sub[t] = "work" /\ task' = [task EXCEPT ![t].status = "failed"]
      /\ child[t].status = "cancelled"
      /\ UNCHANGED <<goal, runs, parent, child, at, loop, process>>
  BY DEF SubagentCancelled, dbos
<1>2. runs[t] >= 1 /\ task[t] # NoTask
  BY <1>1 DEF IInv, Subagents, Belongs
<1>3. /\ task'[t].status = "failed" /\ task'[t].goal = task[t].goal /\ task'[t] # NoTask
      /\ \A u \in Task \ {t} : task'[u] = task[u]
      /\ task' \in [Task -> {NoTask} \cup TaskRow]
  BY <1>1, <1>2, TaskStatus DEF IInv
<1>4. /\ runs \in [Task -> Nat] /\ sub \in [Task -> {"off", "work", "end"}]
      /\ child \in [Task -> ChildRow]
  BY Shapes DEF IInv
<1>5. /\ sub'[t] = "end" /\ \A u \in Task \ {t} : sub'[u] = sub[u]
      /\ sub' \in [Task -> {"off", "work", "end"}]
  BY <1>4 DEF SubagentCancelled
<1>6. QED
  BY <1>1, <1>2, <1>3, <1>4, <1>5, SubagentThread

\* What end_run and the end of the workflow leave.
LEMMA EndRunEffect ==
  ASSUME IInv, NEW t \in Task, EndRun(t)
  PROVE  /\ UNCHANGED <<goal, task, parent, at, loop, process>>
         /\ sub[t] = "end" /\ child[t].status \in {"pending", "cancelled"} /\ task[t] # NoTask
         /\ runs'[t] = runs[t] - 1 /\ \A u \in Task \ {t} : runs'[u] = runs[u]
         /\ runs' \in [Task -> Nat]
         /\ sub'[t] = "off" /\ \A u \in Task \ {t} : sub'[u] = sub[u]
         /\ sub' \in [Task -> {"off", "work", "end"}]
         /\ child'[t].status = "success" => task[t].status = "done"
         /\ \A u \in Task \ {t} : child'[u] = child[u]
         /\ child' \in [Task -> ChildRow]
<1>1. sub[t] = "end" /\ UNCHANGED <<goal, task, parent, at, loop, process>>
  BY DEF EndRun
<1>2. child[t].status \in {"pending", "cancelled"} /\ runs[t] >= 1
  BY <1>1 DEF IInv, Subagents
<1>3. /\ runs \in [Task -> Nat] /\ sub \in [Task -> {"off", "work", "end"}]
      /\ child \in [Task -> ChildRow]
  BY Shapes DEF IInv
<1>4. /\ runs'[t] = runs[t] - 1 /\ \A u \in Task \ {t} : runs'[u] = runs[u]
  BY <1>3 DEF EndRun
<1>5. runs[t] - 1 \in Nat
  BY <1>2, <1>3
<1>6. runs' \in [Task -> Nat]
  BY <1>3, <1>5 DEF EndRun
<1>7. /\ sub'[t] = "off" /\ \A u \in Task \ {t} : sub'[u] = sub[u]
      /\ sub' \in [Task -> {"off", "work", "end"}]
  BY <1>3 DEF EndRun
<1>8. task[t] # NoTask
  BY <1>2 DEF IInv, Belongs
<1>9. /\ child'[t].status = "success" => task[t].status = "done"
      /\ \A u \in Task \ {t} : child'[u] = child[u]
      /\ child' \in [Task -> ChildRow]
  <2>1. CASE child[t].status # "pending"
    BY <1>2, <1>3, <2>1 DEF EndRun, Running
  <2>2. CASE child[t].status = "pending"
    <3> DEFINE s == IF child[t].work = "ok" THEN "success" ELSE "error"
               r == [child[t] EXCEPT !.status = s]
    <3>1. s \in Workflow /\ (s = "success" => task[t].status = "done")
      BY <1>1, <2>2 DEF IInv, Subagents, Workflow
    <3>2. child' = [child EXCEPT ![t].status = s]
      BY <2>2 DEF EndRun, Running
    <3> HIDE DEF s
    <3>3. r \in ChildRow /\ r.status = s /\ child' = [child EXCEPT ![t] = r]
      BY <1>3, <3>1, <3>2 DEF ChildRow
    <3> HIDE DEF r
    <3>4. QED
      BY <3>1, <3>3, ChildSet DEF IInv
  <2>3. QED
    BY <2>1, <2>2
<1>10. QED
  BY <1>1, <1>2, <1>4, <1>6, <1>7, <1>8, <1>9

LEMMA EndRunStep ==
  ASSUME IInv, NEW t \in Task, EndRun(t)
  PROVE  IInv'
<1>1. task \in [Task -> {NoTask} \cup TaskRow]
  BY Shapes DEF IInv
<1>2. QED
  BY <1>1, EndRunEffect, SubagentThread

LEMMA SubagentStep ==
  ASSUME IInv, NEW t \in Task, Subagent(t)
  PROVE  IInv'
  BY DequeueStep, RunStep, WorkStep, CancelledStep, EndRunStep DEF Subagent

----------------------------------------------------------------------------
\* The worker dies: its threads are gone, the durable rows are what they were.
LEMMA CrashStep ==
  ASSUME IInv, Crash
  PROVE  IInv'
<1> USE DEF IInv
<1>1. /\ UNCHANGED <<goal, task, runs, parent, child>>
      /\ \A g \in Goal : at'[g] = Off
      /\ \A t \in Task : sub'[t] = "off"
  BY DEF Crash, rows, dbos
<1>2. at' \in [Goal -> AtRow] /\ sub' \in [Task -> {"off", "work", "end"}] /\ loop' \in LoopRow
  BY OffRow DEF Crash, LoopRow
<1>3. worker' \in {"up", "down"}
  BY DEF Crash
<1>4. crashes' \in 0..MaxCrashes
  BY GoalPursuitAssumption, Shapes DEF Crash
<1>5. TypeOK'
  BY <1>1, <1>2, <1>3, <1>4, Shapes, ShapesNext
<1>6. Belongs'
  BY <1>1, OffRow DEF Belongs
<1>7. Threads'
  BY <1>1, OffRow DEF Threads
<1>8. Subagents'
  BY <1>1 DEF Subagents
<1>9. Synthesized'
  BY <1>1, OffRow DEF Synthesized, Finished
<1>10. QED
  BY <1>5, <1>6, <1>7, <1>8, <1>9

LEMMA InvInit == Init => IInv
<1> SUFFICES ASSUME Init PROVE IInv
  OBVIOUS
<1> USE DEF Init
<1>1. TypeOK
  <2>1. 0 \in 0..MaxCrashes
    BY GoalPursuitAssumption
  <2>2. Off \in AtRow
    BY OffRow
  <2>3. QED
    BY <2>1, <2>2, Shapes DEF GoalStatus, ParentRow, ChildRow, LoopRow, Workflow
<1>2. Belongs /\ Threads
  BY DEF Belongs, Threads, Off
<1>3. Subagents
  BY DEF Subagents
<1>4. Synthesized
  BY DEF Synthesized, Off
<1>5. QED
  BY <1>1, <1>2, <1>3, <1>4 DEF IInv

LEMMA InvStep == IInv /\ [Next]_vars => IInv'
<1> SUFFICES ASSUME IInv, [Next]_vars PROVE IInv'
  OBVIOUS
<1>1. CASE Client
  BY <1>1, ClientStep
<1>2. CASE Dispatcher
  BY <1>2, ReadStep, StartStep, CancelStep DEF Dispatcher
<1>3. CASE \E g \in Goal : Pursuit(g)
  BY <1>3, PursuitStep
<1>4. CASE \E t \in Task : Subagent(t)
  BY <1>4, SubagentStep
<1>5. QED
  BY <1>1, <1>2, <1>3, <1>4, CrashStep, ReadStep DEF Next


\* The inductive invariant holds in every state.
THEOREM Invariant == Spec => []IInv
<1>1. Init => IInv
  BY InvInit
<1>2. IInv /\ [Next]_vars => IInv'
  BY InvStep
<1>3. QED
  BY <1>1, <1>2, PTL DEF Spec

\* Rows, workflows and threads have their types.
THEOREM TypeCorrect == Spec => []TypeOK
<1>1. IInv => TypeOK
  BY DEF IInv
<1>2. QED
  BY <1>1, Invariant, PTL

\* However the worker crashes and whatever is cancelled meanwhile, a goal is 'done' only
\* when every task of its recorded decomposition is: synthesize is reached only with every
\* child returned, and a child that returned is never run again.
THEOREM DoneIsDone == Spec => []DoneMeansDone
<1>1. ASSUME IInv PROVE DoneMeansDone
  <2> SUFFICES ASSUME NEW g \in Goal, goal[g] = "done"
               PROVE  /\ parent[g].tasks # {}
                      /\ \A t \in parent[g].tasks : task[t] = [goal |-> g, status |-> "done"]
    BY DEF DoneMeansDone
  <2>1. Finished(g)
    BY <1>1 DEF IInv, Synthesized
  <2>2. parent[g].tasks \subseteq Task
    BY <1>1, Shapes DEF IInv, ParentRow
  <2>3. ASSUME NEW t \in parent[g].tasks
        PROVE  task[t] = [goal |-> g, status |-> "done"]
    <3>1. t \in Task /\ child[t].status = "success"
      BY <2>1, <2>2, <2>3 DEF Finished
    <3>2. task[t].status = "done" /\ task[t].goal = g
      BY <1>1, <2>3, <3>1 DEF IInv, Subagents, Belongs
    <3>3. task[t] \in TaskRow
      BY <1>1, <3>1, <3>2, TaskThere DEF IInv
    <3>4. QED
      BY <3>2, <3>3 DEF TaskRow
  <2>4. QED
    BY <2>1, <2>3 DEF Finished
<1>2. IInv => DoneMeansDone
  BY <1>1
<1>3. QED
  BY <1>2, Invariant, PTL

\* What changes a task or its run rows: its decomposition, while it is absent, or its
\* subagent, while that has not ended.
LEMMA TaskChange ==
  ASSUME [Next]_vars
  PROVE  \/ UNCHANGED <<task, runs>>
         \/ \E g \in Goal, t \in Task : DecomposeTask(g, t)
         \/ \E t \in Task : RunSubagent(t)
         \/ \E t \in Task, result \in {"ok", "raised"} : DoSubagentWork(t, result)
         \/ \E t \in Task : SubagentCancelled(t)
         \/ \E t \in Task : EndRun(t)
<1>1. CASE Client
  BY <1>1 DEF Client, HandleSendMessage, CreateTaskFromMessage, HandleTasksPost, CancelTask
<1>2. CASE Dispatcher
  BY <1>2 DEF Dispatcher, ClaimAndDispatch, CancelInterruptedGoals, Sleep, StartWorkflow,
     CancelWorkflow, rows
<1>3. CASE Crash \/ Restart \/ UNCHANGED vars
  BY <1>3 DEF Crash, Restart, vars, rows
<1>4. ASSUME NEW g \in Goal, Pursuit(g)
      PROVE  UNCHANGED <<task, runs>> \/ \E t \in Task : DecomposeTask(g, t)
  BY <1>4 DEF Pursuit, PursueGoal, Decomposed, DecomposeRaises, StartSubagent, GatherRaises,
     Gathered, Synthesize, Return, rows
<1>5. ASSUME NEW t \in Task, Subagent(t)
      PROVE  \/ UNCHANGED <<task, runs>>
             \/ RunSubagent(t) \/ SubagentCancelled(t) \/ EndRun(t)
             \/ \E result \in {"ok", "raised"} : DoSubagentWork(t, result)
  BY <1>5 DEF Subagent, Dequeue, rows
<1>6. QED
  BY <1>1, <1>2, <1>3, <1>4, <1>5 DEF Next

\* The recorded result of a pursue_goal is written by Decomposed only.
LEMMA ResultChange ==
  ASSUME TypeOK, [Next]_vars
  PROVE  \/ \A g \in Goal : parent'[g].tasks = parent[g].tasks
         \/ \E g \in Goal : Decomposed(g)
<1>1. CASE UNCHANGED parent
  BY <1>1
<1>2. CASE Client
  BY <1>1, <1>2
     DEF Client, HandleSendMessage, CreateTaskFromMessage, HandleTasksPost, CancelTask, dbos
<1>3. ASSUME NEW g \in Goal, StartWorkflow(g) \/ CancelWorkflow(g)
      PROVE  \A h \in Goal : parent'[h].tasks = parent[h].tasks
  <2>1. \E s \in Workflow : parent' = parent \/ parent' = [parent EXCEPT ![g].status = s]
    BY <1>3 DEF StartWorkflow, CancelWorkflow, Workflow
  <2>2. QED
    BY <2>1, ParentStatus
<1>4. CASE ClaimAndDispatch \/ CancelInterruptedGoals \/ Sleep \/ Crash \/ Restart
  BY <1>1, <1>4 DEF ClaimAndDispatch, CancelInterruptedGoals, Sleep, Crash, Restart, dbos
<1>5. ASSUME NEW g \in Goal, Pursuit(g)
      PROVE  Decomposed(g) \/ \A h \in Goal : parent'[h].tasks = parent[h].tasks
  <2>1. CASE DecomposeRaises(g) \/ GatherRaises(g) \/ Return(g)
    <3>1. \E s \in Workflow : parent' = parent \/ parent' = [parent EXCEPT ![g].status = s]
      BY <2>1 DEF DecomposeRaises, GatherRaises, Return, Raise, Workflow
    <3>2. QED
      BY <3>1, ParentStatus
  <2>2. QED
    BY <1>5, <2>1
       DEF Pursuit, PursueGoal, DecomposeTask, StartSubagent, Gathered, Synthesize, dbos
<1>6. CASE \E t \in Task : Subagent(t)
  BY <1>1, <1>6
     DEF Subagent, Dequeue, RunSubagent, EndRun, SubagentCancelled, DoSubagentWork, dbos
<1>7. CASE UNCHANGED vars
  BY <1>1, <1>7 DEF vars, dbos
<1>8. QED
  BY <1>2, <1>3, <1>4, <1>5, <1>6, <1>7 DEF Next, Dispatcher

\* A subagent that finished is not run again: it is off, and every step on its task needs
\* a thread or a child still pending.
LEMMA ReturnedStays ==
  ASSUME IInv, [Next]_vars, NEW t \in Task, child[t].status = "success"
  PROVE  task'[t] = task[t] /\ runs'[t] <= runs[t]
<1>1. sub[t] = "off" /\ task[t] # NoTask
  BY DEF IInv, Subagents, Belongs
<1>2. task \in [Task -> {NoTask} \cup TaskRow] /\ runs \in [Task -> Nat]
  BY Shapes DEF IInv
<1>3. ASSUME task'[t] = task[t], runs'[t] = runs[t]
      PROVE  task'[t] = task[t] /\ runs'[t] <= runs[t]
  BY <1>2, <1>3
<1>4. CASE UNCHANGED <<task, runs>>
  BY <1>3, <1>4
<1>5. CASE \E g \in Goal, u \in Task : DecomposeTask(g, u)
  BY <1>1, <1>2, <1>3, <1>5 DEF DecomposeTask
<1>6. CASE \E u \in Task : RunSubagent(u)
  BY <1>1, <1>2, <1>3, <1>6 DEF RunSubagent, Running
<1>7. CASE \E u \in Task, result \in {"ok", "raised"} : DoSubagentWork(u, result)
  BY <1>1, <1>2, <1>3, <1>7 DEF DoSubagentWork
<1>8. CASE \E u \in Task : SubagentCancelled(u)
  BY <1>1, <1>2, <1>3, <1>8 DEF SubagentCancelled
<1>9. CASE \E u \in Task : EndRun(u)
  BY <1>1, <1>2, <1>3, <1>9 DEF EndRun
<1>10. QED
  BY <1>4, <1>5, <1>6, <1>7, <1>8, <1>9, TaskChange

\* A goal once decomposed is not decomposed anew: its result is not written again, and
\* no task is made for it.
LEMMA DecomposedOnce ==
  ASSUME IInv, [Next]_vars, NEW g \in Goal, parent[g].tasks # {}
  PROVE  /\ parent'[g].tasks = parent[g].tasks
         /\ \A t \in Task : task[t] = NoTask => task'[t].goal # g
<1>1. at[g].pc # "decompose"
  BY DEF IInv, Threads
<1>2. task \in [Task -> {NoTask} \cup TaskRow] /\ parent \in [Goal -> ParentRow]
  BY Shapes DEF IInv
<1>3. parent'[g].tasks = parent[g].tasks
  <2>1. CASE \E h \in Goal : Decomposed(h)
    BY <1>1, <1>2, <2>1 DEF Decomposed
  <2>2. QED
    BY <2>1, ResultChange DEF IInv
<1>4. ASSUME NEW t \in Task, task[t] = NoTask
      PROVE  task'[t].goal # g
  <2>1. child[t].status = "none"
    BY <1>4 DEF IInv, Belongs
  <2>2. sub[t] = "off"
    BY <2>1 DEF IInv, Subagents
  <2>3. ASSUME task'[t] = task[t]
        PROVE  task'[t].goal # g
    BY <1>4, <2>3, GoalPursuitAssumption DEF NoTask
  <2>4. CASE \E h \in Goal, u \in Task : DecomposeTask(h, u)
    <3>1. PICK h \in Goal, u \in Task : DecomposeTask(h, u)
      BY <2>4
    <3>2. CASE u = t
      BY <1>1, <1>2, <3>1, <3>2 DEF DecomposeTask
    <3>3. CASE u # t
      BY <1>2, <2>3, <3>1, <3>3 DEF DecomposeTask
    <3>4. QED
      BY <3>2, <3>3
  <2>5. CASE UNCHANGED <<task, runs>>
    BY <2>3, <2>5
  <2>6. CASE \E u \in Task : RunSubagent(u)
    BY <1>2, <2>1, <2>3, <2>6 DEF RunSubagent, Running
  <2>7. CASE \E u \in Task, result \in {"ok", "raised"} : DoSubagentWork(u, result)
    BY <1>2, <2>2, <2>3, <2>7 DEF DoSubagentWork
  <2>8. CASE \E u \in Task : SubagentCancelled(u)
    BY <1>2, <2>2, <2>3, <2>8 DEF SubagentCancelled
  <2>9. CASE \E u \in Task : EndRun(u)
    BY <2>3, <2>9 DEF EndRun
  <2>10. QED
    BY <2>4, <2>5, <2>6, <2>7, <2>8, <2>9, TaskChange
<1>5. QED
  BY <1>3, <1>4

\* Restarting resumes where it left off, whatever the crash interrupted.
THEOREM FinishedIsKept == Spec => FinishedStays
<1>1. IInv /\ [Next]_vars =>
        [/\ \A t \in Task : child[t].status = "success" =>
              task'[t] = task[t] /\ runs'[t] <= runs[t]
         /\ \A g \in Goal : parent[g].tasks # {} =>
              /\ parent'[g].tasks = parent[g].tasks
              /\ \A t \in Task : task[t] = NoTask => task'[t].goal # g]_vars
  BY ReturnedStays, DecomposedOnce
<1>2. QED
  BY <1>1, Invariant, PTL DEF Spec, FinishedStays
=============================================================================
