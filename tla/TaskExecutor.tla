---------------------------- MODULE TaskExecutor ----------------------------
(***************************************************************************)
(* roboweave_runtime/task_executor.py and its behaviour-tree nodes         *)
(* (bt_nodes/skill_action.py) on top of the SkillOrchestrator, as          *)
(* runtime_node.py wires them.                                             *)
(*                                                                         *)
(* A plan is taken in the order build_behaviour_tree gives its nodes: a    *)
(* task id and a sequence of skill names, Condition standing for a node    *)
(* without a skill.  Dispatch number d builds tree d; its node k runs, if  *)
(* ever, as invocation <<d, k>> under the id <<task, k>>, as the code's    *)
(* f"{plan.task_id}_{node_id}".                                            *)
(***************************************************************************)
EXTENDS SkillOrchestrator, Naturals, Sequences

CONSTANTS
  TaskIds,
  Plans,            \* the valid plans a client may dispatch
  Condition,        \* a node without a skill: the check passes
  MaxDispatches,    \* bound: dispatch_plan calls in a behaviour
  MaxNodes,         \* bound: nodes of a plan
  Controllable,     \* task ids somebody may pause, resume or cancel
  NoTaskId, NoPlan

Dispatches == 1..MaxDispatches

ASSUME ExecutorAssumption ==
  /\ Invocations = Dispatches \X (1..MaxNodes)
  /\ Holders = TaskIds \X (1..MaxNodes)
  /\ \A p \in Plans : /\ p.task \in TaskIds
                      /\ p.nodes \in Seq(Skills \cup {Condition})
                      /\ Len(p.nodes) <= MaxNodes
  /\ Condition \notin Skills
  /\ NoTaskId \notin TaskIds
  /\ NoPlan \notin Plans
  /\ MaxDispatches \in Nat /\ MaxNodes \in Nat
  /\ "success" \in SkillStatuses

VARIABLES
  plan,         \* the plan of each dispatch made so far
  activeTree,   \* _active_tree: the dispatch whose tree is ticked, 0 for None
  cursor,       \* _current_index of that tree's sequence node, from 1
  activeTask,   \* _active_task_id
  paused,       \* _paused
  taskStatus,   \* _task_status
  published     \* the last TaskStatus sent for each task id

executorVars == <<plan, activeTree, cursor, activeTask, paused, taskStatus, published>>
allVars == <<orchestratorVars, executorVars>>

TaskStatuses == {"pending", "running", "paused", "succeeded", "failed", "cancelled"}

Dispatched == {d \in Dispatches : plan[d] # NoPlan}

SkillNodes(d) == {k \in 1..Len(plan[d].nodes) : plan[d].nodes[k] # Condition}

Succeeded(d, k) == phase[<<d, k>>] = "done" /\ result[<<d, k>>] = "success"

\* _notify_task_status(): silent when there is no active task id.
Publish(task, status) ==
  published' = IF task = NoTaskId THEN published
               ELSE [published EXCEPT ![task] = status]

-----------------------------------------------------------------------------
(* Requests *)

\* dispatch_plan(): a plan that does not validate changes nothing.  A valid one
\* replaces whatever was active; skills already running are left running.
Dispatch(d, p) ==
  /\ d \notin Dispatched /\ \A e \in Dispatches : e < d => e \in Dispatched
  /\ UniqueIds => \A e \in Dispatched : plan[e].task # p.task
  /\ \A k \in 1..Len(p.nodes) : p.nodes[k] \in registry \cup {Condition}
  /\ plan' = [plan EXCEPT ![d] = p]
  /\ activeTree' = d
  /\ cursor' = 1
  /\ activeTask' = p.task
  /\ paused' = FALSE
  /\ taskStatus' = "running"
  /\ Publish(p.task, "running")
  /\ UNCHANGED orchestratorVars

PauseTask(t) ==
  /\ activeTask = t
  /\ paused' = TRUE
  /\ taskStatus' = "paused"
  /\ Publish(t, "paused")
  /\ UNCHANGED <<orchestratorVars, plan, activeTree, cursor, activeTask>>

\* Mutant: a status nobody documented.
ResumeTaskUnlisted(t) ==
  /\ activeTask = t
  /\ paused' = FALSE
  /\ taskStatus' = "resumed"
  /\ Publish(t, "resumed")
  /\ UNCHANGED <<orchestratorVars, plan, activeTree, cursor, activeTask>>

ResumeTask(t) ==
  /\ activeTask = t
  /\ paused' = FALSE
  /\ taskStatus' = "running"
  /\ Publish(t, "running")
  /\ UNCHANGED <<orchestratorVars, plan, activeTree, cursor, activeTask>>

\* Mutant: the locks of the node under way are freed on the spot.
CancelTaskFreeing(t) ==
  /\ activeTask = t
  /\ taskStatus' = "cancelled"
  /\ activeTree' = 0
  /\ activeTask' = NoTaskId
  /\ paused' = FALSE
  /\ Release(<<t, 1>>)
  /\ UNCHANGED <<registry, taskVars, running, plan, cursor, published>>

\* cancel(): the id is cleared before the status goes out.
CancelTask(t) ==
  /\ activeTask = t
  /\ taskStatus' = "cancelled"
  /\ activeTree' = 0
  /\ activeTask' = NoTaskId
  /\ paused' = FALSE
  /\ Publish(activeTask', "cancelled")
  /\ UNCHANGED <<orchestratorVars, plan, cursor>>

-----------------------------------------------------------------------------
(* Ticks *)

Length == Len(plan[activeTree].nodes)

\* Mutant: whatever the skill returned, the sequence goes on.
PassedIgnoringStatus(k) ==
  /\ k \in 1..Length
  /\ k \in SkillNodes(activeTree) => phase[<<activeTree, k>>] = "done"

\* The child's tick() is SUCCESS: a passed condition, or a result with status
\* success (skill_status_to_bt).
Passed(k) ==
  /\ k \in 1..Length
  /\ k \in SkillNodes(activeTree) => Succeeded(activeTree, k)

\* _SequenceNode.tick() goes on to the first child that has not passed.
Reaches(k) == ~ Passed(k) /\ \A j \in cursor..(k - 1) : Passed(j)

\* SkillActionNode.tick() of a child not started: create_task, and RUNNING.
TickStarts(k) ==
  /\ k <= Length
  /\ CreateTask(<<activeTree, k>>,
                [id |-> <<activeTask, k>>, skill |-> plan[activeTree].nodes[k]])
  /\ UNCHANGED <<lockVars, registry, skillTask, outcome, expired, result, running,
                 activeTree, taskStatus, published>>

\* The child's asyncio task is not done: RUNNING.
TickWaits(k) ==
  /\ k <= Length
  /\ phase[<<activeTree, k>>] \in {"created", "waiting"}
  /\ UNCHANGED <<orchestratorVars, activeTree, taskStatus, published>>

\* The tree has ended: its status goes out and it is dropped.
EndTree(status) ==
  /\ taskStatus' = status
  /\ Publish(activeTask, status)
  /\ activeTree' = 0
  /\ UNCHANGED orchestratorVars

\* Mutant: a failed child is reported as still running.
TickFailsQuietly(k) ==
  /\ k <= Length
  /\ phase[<<activeTree, k>>] = "done"
  /\ UNCHANGED <<orchestratorVars, activeTree, taskStatus, published>>

TickFails(k) ==
  /\ k <= Length
  /\ phase[<<activeTree, k>>] = "done"
  /\ EndTree("failed")

\* Mutant: the last child is not waited for.
TickSucceedsEarly(k) == k >= Length /\ EndTree("succeeded")

TickSucceeds(k) == k > Length /\ EndTree("succeeded")

Tick ==
  /\ activeTree # 0
  /\ ~ paused
  /\ \E k \in cursor..(Length + 1) :
       /\ Reaches(k)
       /\ TickStarts(k) \/ TickWaits(k) \/ TickFails(k) \/ TickSucceeds(k)
       /\ cursor' = k
  /\ UNCHANGED <<plan, activeTask, paused>>

-----------------------------------------------------------------------------

ExecutorInit ==
  /\ OrchestratorInit
  /\ plan = [d \in Dispatches |-> NoPlan]
  /\ activeTree = 0
  /\ cursor = 1
  /\ activeTask = NoTaskId
  /\ paused = FALSE
  /\ taskStatus = "pending"
  /\ published = [t \in TaskIds |-> "pending"]

Requests ==
  \/ \E d \in Dispatches, p \in Plans : Dispatch(d, p)
  \/ \E t \in Controllable : PauseTask(t) \/ ResumeTask(t) \/ CancelTask(t)

\* The asyncio loop and the skills it runs; skills may be registered any time.
Orchestration ==
  /\ \/ \E s \in Skills : RegisterSkill(s)
     \/ \E i \in Invocations : LoopStep(i) \/ FinishSkill(i)
  /\ UNCHANGED executorVars

ExecutorNext == Requests \/ Tick \/ Orchestration

ExecutorSpec == ExecutorInit /\ [][ExecutorNext]_allVars

\* The host calls tick() at tick_hz (rclpy.spin, a timer); nothing is assumed of
\* the asyncio loop, which no host in the repository runs.
TickFairness == WF_allVars(Tick)

ExecutorFairSpec == ExecutorSpec /\ TickFairness

-----------------------------------------------------------------------------
(* Properties *)

ExecutorTypeOK ==
  /\ OrchestratorTypeOK
  /\ plan \in [Dispatches -> Plans \cup {NoPlan}]
  /\ activeTree \in {0} \cup Dispatches
  /\ cursor \in 1..(MaxNodes + 1)
  /\ activeTask \in TaskIds \cup {NoTaskId}
  /\ paused \in BOOLEAN
  /\ taskStatus \in TaskStatuses
  /\ published \in [TaskIds -> TaskStatuses]

\* A plan's skills run in plan order: a node is started only when every skill
\* before it has returned success, through pauses, resumes and results that
\* arrive between ticks (_SequenceNode.tick, SkillActionNode.tick).
SkillsRunInPlanOrder ==
  \A d \in Dispatched : \A k \in SkillNodes(d) :
    phase[<<d, k>>] # "absent" => \A j \in SkillNodes(d) : j < k => Succeeded(d, j)

\* "succeeded" is published for a task only when every skill of a plan
\* dispatched for it has returned success (tick, _notify_task_status).
SuccessIsEarned ==
  \A t \in TaskIds : published[t] = "succeeded" =>
    \E d \in Dispatched : plan[d].task = t /\ \A k \in SkillNodes(d) : Succeeded(d, k)

\* The variables have their types, the skills of a plan hold their resources as
\* long as they execute, and no success is published that was not earned,
\* whichever plans were dispatched, paused, cancelled or replaced under the task
\* id (tick, dispatch_plan, pause, resume, cancel).
ExecutorStateOK == ExecutorTypeOK /\ HeldWhileExecuting /\ SuccessIsEarned

\* The skills a dispatched plan starts are calls of the orchestrator like any
\* other; with every task dispatched once they carry ids of their own
\* (build_behaviour_tree's skill_call_id, execute_skill).
ImplementsOrchestrator == OrchestratorSpec

\* A plan whose calls return, with whatever result, ends, unless it is paused,
\* cancelled or replaced: no tick waits for anything else, whichever nodes fail,
\* have no skill or returned between ticks (tick, SkillActionNode.tick).  That
\* the calls return takes a running asyncio loop (EveryCallReturns).
PlanEnds ==
  \A d \in Dispatches :
    (\A k \in 1 .. MaxNodes : phase[<<d, k>>] = "created" ~> phase[<<d, k>>] = "done")
      => (activeTree = d ~> (activeTree # d \/ paused))

=============================================================================
