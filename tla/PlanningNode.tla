----------------------------- MODULE PlanningNode -----------------------------
(***************************************************************************)
(* The services of the planning node (planning_node.py) over its backends. *)
(* Answers are those of PerceptionNode: content, or a failure code.        *)
(* Of a backend's answer only the class is kept: it raises, finds nothing  *)
(* (no candidate, no joint solution, a collision) or is good.              *)
(***************************************************************************)
EXTENDS MotionPlanner, Backends

PlanningOutcomes == {"raises", "nothing", "good"}

\* _load_backends()
Planning ==
  [grasp_planner |-> BackendOutcomes("mock", PlanningOutcomes),
   ik_solver |-> BackendOutcomes("mock", PlanningOutcomes),
   collision_checker |-> BackendOutcomes("mock", PlanningOutcomes),
   motion_planner |-> BackendOutcomes("simple", PlanningOutcomes)]

Planned(content) == [code |-> "", content |-> content]
Unplanned(code) == [code |-> code, content |-> "none"]

\* No cloud in the request is an empty cloud: no candidate.
PlanGrasp(given, outcome) ==
  IF outcome = "raises" THEN Unplanned("GRP_PLANNING_FAILED")
  ELSE IF ~ given \/ outcome = "nothing" THEN Unplanned("GRP_NO_GRASP_FOUND")
  ELSE Planned(outcome)

\* Unreachable and colliding are answers, not failures.
CheckReachability(outcome) ==
  IF outcome = "raises" THEN Unplanned("IK_SOLVER_FAILED") ELSE Planned(outcome)

CheckCollision(outcome) ==
  IF outcome = "raises" THEN Unplanned("COL_CHECK_FAILED") ELSE Planned(outcome)

\* The planner's own failure code, or MOT_PLANNING_FAILED when it raises.  No
\* collision is looked for on the way.
PlanMotion(joints, hasPose, outcome) ==
  LET solution == IF outcome = "nothing" THEN NoJoints ELSE <<0>>
      goal == ResolveGoal(joints, hasPose, solution)
  IN  IF outcome = "raises" THEN Unplanned("MOT_PLANNING_FAILED")
      ELSE IF goal.code # "" THEN Unplanned(goal.code)
      ELSE Planned("good")

=============================================================================
