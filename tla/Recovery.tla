------------------------------- MODULE Recovery -------------------------------
(***************************************************************************)
(* A task on its way: a plan comes from the cloud agent, or from another   *)
(* client, and the executor validates it; then one skill of the tree is    *)
(* followed, in RecoveryNodes (bt_nodes/recovery_node.py) one inside the   *)
(* other, ticked until the tree has ended.  The skill uses the services of *)
(* the perception and planning nodes; a failure goes by its code to the    *)
(* monitor and to the cloud's advisor.                                     *)
(*                                                                         *)
(* The skill and the recovery functions come from outside the repository:  *)
(* a skill works through the services to pick something up, or tracks an   *)
(* object, or does something else and fails with whatever code.            *)
(***************************************************************************)
EXTENDS ErrorCodes, PerceptionNode, PlanningNode, PlanGraphs

CONSTANTS
  MaxRetries, \* _max_retries of each recovery node, the outermost first
  Kinds,      \* the skills: "pick", "track", "other"
  Faults,     \* the codes of the skill "other"
  Skills,     \* the names a node may have
  Templates,  \* task_templates a cloud agent may be configured with
  Graphs,     \* the plans other clients may dispatch
  Registry,   \* the skills the orchestrator knows
  None

Levels == 1 .. Len(MaxRetries)

ASSUME RecoveryAssumption ==
  /\ MaxRetries \in Seq(Nat)
  /\ Kinds \subseteq {"pick", "track", "other"}

ASSUME PlanAssumption ==
  /\ Templates \subseteq Seq([skill : Skills, deps : Seq(Skills)])
  /\ Graphs \subseteq Seq([id : Nat, skill : Skills, deps : Seq(Nat)])

VARIABLES
  phase,     \* "asked", "planned", "dispatched", and then "ticked"
  template,  \* the cloud's template that fits the instruction, or None
  plan,      \* the plan sent to the executor
  order,     \* the order of its nodes in the tree
  kind,      \* the skill in the tree
  leaf,      \* _task and _result of its SkillActionNode
  stage,     \* how far the running skill is, 0 before its first step
  retries,   \* _retry_count of each recovery node
  over,      \* how the tree ended, or "no"
  attempts,  \* history: tasks created
  abandoned  \* history: a running task was dropped

planVars == <<phase, template, plan, order>>
treeVars == <<kind, leaf, stage, retries, over, attempts, abandoned>>
vars == <<planVars, treeVars, trackerVars>>

Fresh == [task |-> "none", code |-> ""]
Ended == {"ok", "failed", "raised"}

-----------------------------------------------------------------------------
(* The plan                                                                *)

\* The client of the cloud has its answer, or is gone before it comes.
Submit ==
  \E instruction \in BOOLEAN, matching \in SUBSET {1} :
    LET answer == SubmitTask(instruction, <<template>>, matching)
    IN  /\ phase = "asked"
        /\ phase' = "planned"
        /\ plan' = answer.plan
        /\ over' = IF answer.type = "PLAN" THEN over ELSE "REFUSED"
        /\ UNCHANGED <<template, order, kind, leaf, stage, retries, attempts, abandoned,
                       trackerVars>>

\* dispatch_plan(): a valid plan becomes the tree.
Dispatch ==
  /\ phase = "planned" /\ over = "no"
  /\ phase' = "dispatched"
  /\ IF Validated(plan, Registry)
       THEN order' = Sorted(plan) /\ UNCHANGED over
       ELSE over' = "INVALID" /\ UNCHANGED order
  /\ UNCHANGED <<template, plan, kind, leaf, stage, retries, attempts, abandoned,
                 trackerVars>>

-----------------------------------------------------------------------------
(* The skill, external.                                                    *)

\* What the service of each stage may answer.
Answers ==
  << {DetectObjects(given, outcome) : given \in BOOLEAN, outcome \in Perception.detector},
     {SegmentObject(given, outcome) : given \in BOOLEAN, outcome \in Perception.segmentor},
     {BuildPointCloud(given, outcome) :
        given \in BOOLEAN, outcome \in Perception.point_cloud_builder},
     {EstimatePose(given, outcome) : given \in BOOLEAN, outcome \in Perception.pose_estimator},
     {PlanGrasp(given, outcome) : given \in BOOLEAN, outcome \in Planning.grasp_planner},
     {CheckReachability(outcome) : outcome \in Planning.ik_solver},
     {CheckCollision(outcome) : outcome \in Planning.collision_checker},
     {PlanMotion(joints, hasPose, outcome) :
        joints \in {NoJoints, <<1>>}, hasPose \in BOOLEAN, outcome \in Planning.motion_planner} >>

\* What the skill says of an answer without content.
EmptyCode ==
  <<"PER_NO_OBJECT_FOUND", "PER_MASK_TOO_SMALL", "", "", "",
    "GRP_ALL_GRASPS_UNREACHABLE", "GRP_ALL_GRASPS_COLLIDE", "">>

Return(task, code) == leaf' = [task |-> task, code |-> code] /\ UNCHANGED stage

Pick ==
  /\ kind = "pick"
  /\ \E answer \in Answers[stage + 1] :
       IF answer.code # "" THEN Return("failed", answer.code)
       ELSE IF answer.content = "nothing" THEN Return("failed", EmptyCode[stage + 1])
       ELSE IF stage + 1 = Len(Answers) THEN Return("ok", "")
       ELSE stage' = stage + 1 /\ UNCHANGED leaf
  /\ UNCHANGED trackerVars

Track ==
  /\ kind = "track"
  /\ \/ stage = 0 /\ StartTracking /\ stage' = 1 /\ UNCHANGED leaf
     \/ stage = 1 /\ session = "completed" /\ Return("ok", "") /\ UNCHANGED trackerVars
     \/ stage = 1 /\ session = "cancelled" /\ Return("failed", "CANCELLED") /\ UNCHANGED trackerVars
     \/ stage = 1 /\ session = "lost" /\ Return("failed", "PER_TRACKING_LOST") /\ UNCHANGED trackerVars

Other ==
  /\ kind = "other"
  /\ Return("ok", "") \/ Return("raised", "") \/ \E code \in Faults : Return("failed", code)
  /\ UNCHANGED trackerVars

\* The tracker's loop is a step of the thread it runs in.
TrackOn ==
  /\ leaf.task = "running" /\ kind = "track" /\ stage = 1
  /\ TrackerStep
  /\ UNCHANGED <<planVars, treeVars>>

Run ==
  /\ leaf.task = "running"
  /\ Pick \/ Track \/ Other
  /\ UNCHANGED <<planVars, kind, retries, over, attempts, abandoned>>

\* Requests to the tracker come once there is a tree that tracks.
Request ==
  /\ phase = "ticked" /\ kind = "track"
  /\ TrackerRequest
  /\ UNCHANGED <<planVars, treeVars>>

\* What a recovery function may do, external: it is not told of the failure.
RecoveryFn == {"yes", "no", "raises"}

-----------------------------------------------------------------------------
(* Ticks: each node's tick() yields a status and leaves the tree below it  *)
(* as it is in "leaf" and "retries".                                       *)

\* SkillActionNode.tick().
\* Slip: a task that is not done counts as failed.
TickLeafImpatiently ==
  [status |-> IF leaf.task = "ok" THEN "SUCCESS"
              ELSE IF leaf.task = "none" THEN "RUNNING" ELSE "FAILURE",
   leaf |-> IF leaf.task = "none" THEN [Fresh EXCEPT !.task = "running"] ELSE leaf,
   retries |-> retries]

\* Slip: a task that raised is taken for one that still runs.
TickLeafDeaf ==
  [status |-> IF leaf.task = "ok" THEN "SUCCESS"
              ELSE IF leaf.task = "failed" THEN "FAILURE" ELSE "RUNNING",
   leaf |-> IF leaf.task = "none" THEN [Fresh EXCEPT !.task = "running"] ELSE leaf,
   retries |-> retries]

TickLeaf ==
  [status |-> IF leaf.task = "ok" THEN "SUCCESS"
              ELSE IF leaf.task \in Ended THEN "FAILURE" ELSE "RUNNING",
   leaf |-> IF leaf.task = "none" THEN [Fresh EXCEPT !.task = "running"] ELSE leaf,
   retries |-> retries]

\* The recovery node at this level has recovered: its child is reset.
\* Slip: the attempt is not counted.
RecoveredUncounted(level, child) ==
  [status |-> "RUNNING", leaf |-> Fresh,
   retries |-> [l \in Levels |-> IF l > level THEN 0 ELSE child.retries[l]]]

Recovered(level, child) ==
  [status |-> "RUNNING", leaf |-> Fresh,
   retries |-> [l \in Levels |-> IF l > level THEN 0
                                 ELSE IF l = level THEN child.retries[l] + 1
                                 ELSE child.retries[l]]]

\* Slip: one retry too many.
MayRetryOnceMore(level, child) ==
  child.status = "FAILURE" /\ child.retries[level] <= MaxRetries[level]

MayRetry(level, child) ==
  child.status = "FAILURE" /\ child.retries[level] < MaxRetries[level]

\* RecoveryNode.tick(), after the tick of its child.
TickNode(level, child, recovery) ==
  IF ~ MayRetry(level, child) \/ recovery = "no" THEN child
  ELSE IF recovery = "raises" THEN [child EXCEPT !.status = "RAISED"]
  ELSE Recovered(level, child)

\* The executor's tick(): the root's, through all levels.  The plan is not
\* looked at again.
Tick ==
  /\ over = "no" /\ phase \in {"dispatched", "ticked"}
  /\ phase' = "ticked" /\ template' = None /\ plan' = <<>> /\ order' = <<>>
  /\ \E recovery \in [Levels -> RecoveryFn] :
       LET root == FoldRight(LAMBDA level, child : TickNode(level, child, recovery[level]),
                             [l \in Levels |-> l], TickLeaf)
       IN  /\ leaf' = root.leaf
           /\ retries' = root.retries
           /\ over' = IF root.status = "RUNNING" THEN "no" ELSE root.status
  /\ stage' = IF leaf' = Fresh THEN 0 ELSE stage
  /\ attempts' = IF leaf.task = "none" THEN attempts + 1 ELSE attempts
  /\ abandoned' = (abandoned \/ (leaf.task = "running" /\ leaf'.task # "running"))
  /\ UNCHANGED <<kind, trackerVars>>

-----------------------------------------------------------------------------

RecoveryInit ==
  /\ TrackerInit
  /\ \/ phase = "asked" /\ template \in Templates /\ plan = <<>>
     \/ phase = "planned" /\ template = None /\ plan \in Graphs
  /\ order = <<>>
  /\ kind \in Kinds
  /\ leaf = Fresh
  /\ stage = 0
  /\ retries = [l \in Levels |-> 0]
  /\ over = "no"
  /\ attempts = 0
  /\ abandoned = FALSE

RecoveryNext == Submit \/ Dispatch \/ Tick \/ Run \/ TrackOn \/ Request

RecoverySpec == RecoveryInit /\ [][RecoveryNext]_vars

\* The executor's timer, the thread of a tracker's loop, and that of a cancel()
\* that has begun go on.  Nothing is assumed of the skill's task.
RecoveryFairness ==
  /\ WF_vars(Tick)
  /\ WF_vars(TrackOn)
  /\ WF_vars(CancelReturns /\ UNCHANGED <<planVars, treeVars>>)

RecoveryFairSpec == RecoverySpec /\ RecoveryFairness

-----------------------------------------------------------------------------
(* Properties *)

MaxAttempts == FoldFunction(LAMBDA m, n : (m + 1) * n, 1, MaxRetries)

RecoveryTypeOK ==
  /\ kind \in Kinds
  /\ leaf.task \in Ended \cup {"none", "running"}
  /\ stage \in 0 .. Len(Answers) - 1
  /\ retries \in [Levels -> Nat] /\ \A l \in Levels : retries[l] <= MaxRetries[l]
  /\ over \in {"no", "REFUSED", "INVALID", "SUCCESS", "FAILURE", "RAISED"}
  /\ running \in BOOLEAN /\ cancelled \in BOOLEAN /\ calling \in BOOLEAN
  /\ misses \in 0 .. MaxMissedFrames

\* The tree has each node of its plan once and after the nodes it depends on,
\* however often it names them; a node of the cloud's plan comes after the last
\* node before it with each skill its template names (decompose,
\* build_behaviour_tree).
TreeKeepsDependencies ==
  phase = "dispatched" /\ over = "no" =>
    LET Before(i, j) == \E m, n \in DOMAIN order : m < n /\ order[m] = i /\ order[n] = j
    IN  /\ Len(order) = Len(plan) /\ ToSet(order) = DOMAIN plan
        /\ \A i, j \in DOMAIN plan : plan[i].id \in ToSet(plan[j].deps) => Before(i, j)
        /\ template # None =>
             \A j \in DOMAIN template : \A i \in 1 .. j - 1 :
               template[i].skill \in ToSet(template[j].deps) /\ template[j].skill # template[i].skill
                 /\ (\A k \in i + 1 .. j - 1 : template[k].skill # template[i].skill)
               => Before(i, j)

\* A plan is refused exactly when two of its nodes share an id, when it has a
\* cycle, a skill nobody registered, or a dependency on a node it does not have;
\* of the cloud's plans only those in which a node names its own skill have a
\* cycle, none repeats an id and none has a dependency it lacks
\* (validate_plan_graph, decompose).
RefusalIsEarned ==
  phase = "dispatched" =>
    LET unknown == \E i \in DOMAIN plan : plan[i].skill \notin Registry \cup {""}
        missing == \E i \in DOMAIN plan : ~ ToSet(plan[i].deps) \subseteq Ids(plan)
        alone == \E i \in DOMAIN plan :
                   template # None /\ template[i].skill \in ToSet(template[i].deps)
    IN  /\ over = "INVALID" <=> unknown \/ missing \/ Repeated(plan) \/ Cyclic(plan)
        /\ template # None => ~ missing /\ ~ Repeated(plan) /\ (Cyclic(plan) <=> alone)

\* What the cloud sends is what the robot carries out: a plan is refused for a
\* reason, or becomes a tree that keeps all its dependencies (decompose,
\* validate_plan_graph, build_behaviour_tree).
PlansAreKept == TreeKeepsDependencies /\ RefusalIsEarned

\* However the recoveries of nested nodes follow one another, the skill is
\* attempted no more often than their limits allow together: an outer recovery
\* gives the inner nodes their retries back (tick, reset).
AttemptsAreBounded == attempts <= MaxAttempts

\* A recovery resets its child only when the child's task has ended: no skill
\* is left running beside the next attempt (SkillActionNode.reset drops it).
NoSkillIsAbandoned == ~ abandoned

\* The variables have their types, and attempts at a skill follow one another,
\* in bounded number, whatever the recovery functions say and however often.
RecoveryStateOK == RecoveryTypeOK /\ AttemptsAreBounded /\ NoSkillIsAbandoned

\* The robot and the cloud say the same of a failure: what the monitor
\* recovers with is what its chain and the advisor begin with, and what it
\* escalates the advisor escalates, cancellations and OK aside (request_recovery,
\* build_recovery_chain, advise).
AdviceAgrees ==
  leaf.task = "failed" =>
    LET action == RequestRecovery(leaf.code)
        advice == Advice(leaf.code)
    IN  /\ action = Unrouted <=> ~ Known(leaf.code)
        /\ action # Unrouted /\ action.priority = 0 =>
             advice[1] = action.name /\ RecoveryChain(leaf.code, advice)[1] = action
        /\ action.priority = 99 /\ leaf.code \notin {"OK", "CANCELLED"} =>
             \E step \in ToSet(advice) : step \in {"escalate_to_cloud", "ask_user_clarification"}

\* A tree whose attempts end has an end of its own: failures, raising tasks and
\* recoveries do not follow one another for ever, nor leave a tick nothing to do.
\* That an attempt ends takes a skill that returns and a loop that runs it, which
\* are its premise (tick).
TreeEnds ==
  (leaf.task = "running" ~> leaf.task # "running") => (phase = "ticked" ~> over # "no")

=============================================================================
