------------------------------ MODULE ErrorCodes ------------------------------
(***************************************************************************)
(* The error codes of roboweave_interfaces/errors.py and what is made of   *)
(* one: ExecutionMonitor (execution_monitor.py) on the robot,              *)
(* RecoveryAdvisor (recovery_advisor.py) in the cloud.                     *)
(*                                                                         *)
(* The codes are the fields of Specs: the enumeration and the table list   *)
(* the same ones.  Of an ErrorCodeSpec module, severity and safety_related *)
(* are left out: nothing reads them but messages.                          *)
(***************************************************************************)
EXTENDS Naturals, SequencesExt

-----------------------------------------------------------------------------
(* ERROR_CODE_SPECS                                                        *)

\* The usual entry: worth a retry, once the policy has been carried out.
Retry(policy) == [recoverable |-> TRUE, retryable |-> TRUE, policy |-> policy,
                  cloud |-> FALSE, user |-> FALSE]

Recover(policy) == [Retry(policy) EXCEPT !.retryable = FALSE]

Fatal == [Recover("") EXCEPT !.recoverable = FALSE]

ToCloud(spec) == [spec EXCEPT !.cloud = TRUE]
ToUser(spec) == [spec EXCEPT !.user = TRUE]

GeneralSpecs ==
  [OK |-> Recover(""), UNKNOWN |-> ToCloud(Fatal), CANCELLED |-> Recover(""),
   TIMEOUT |-> Retry("retry_with_backoff"), INVALID_INPUT |-> ToUser(Fatal),
   SERVICE_UNAVAILABLE |-> ToCloud(Retry("retry_with_backoff"))]

PerceptionSpecs ==
  [PER_DETECTION_FAILED |-> Retry("reobserve_from_new_view"),
   PER_NO_OBJECT_FOUND |-> Retry("reobserve_from_new_view"),
   PER_AMBIGUOUS_TARGET |-> ToUser(Recover("disambiguate_with_user")),
   PER_SEGMENTATION_FAILED |-> Retry("reobserve_from_new_view"),
   PER_MASK_TOO_SMALL |-> Retry("move_closer"),
   PER_POINT_CLOUD_EMPTY |-> Retry("reobserve_from_new_view"),
   PER_POSE_ESTIMATION_FAILED |-> Retry("reobserve_from_new_view"),
   PER_TRACKING_LOST |-> Retry("redetect_object"),
   PER_MODEL_LOAD_FAILED |-> ToCloud(Fatal)]

GraspSpecs ==
  [GRP_NO_GRASP_FOUND |-> Retry("reobserve_from_new_view"),
   GRP_ALL_GRASPS_COLLIDE |-> Retry("clear_obstacles"),
   GRP_ALL_GRASPS_UNREACHABLE |-> Retry("reposition_base"),
   GRP_CONSTRAINT_UNSATISFIABLE |-> ToUser(Recover("relax_constraints"))]

KinematicsSpecs ==
  [IK_NO_SOLUTION |-> Retry("try_alternative_pose"), IK_JOINT_LIMIT |-> Retry("try_alternative_pose"),
   IK_SINGULARITY |-> Retry("perturb_goal"), IK_COLLISION |-> Retry("try_alternative_pose")]

MotionSpecs ==
  [MOT_PLANNING_FAILED |-> Retry("replan_with_relaxed_constraints"),
   MOT_PLANNING_TIMEOUT |-> Retry("retry_with_longer_timeout"),
   MOT_COLLISION_DETECTED |-> Retry("replan_avoiding_collision"),
   MOT_INVALID_START_STATE |-> Recover("update_robot_state"),
   MOT_INVALID_GOAL |-> ToUser(Recover("request_new_goal"))]

ControlSpecs ==
  [CTL_TRACKING_ERROR |-> Retry("reduce_speed"), CTL_FORCE_EXCEEDED |-> Recover("stop_and_retract"),
   CTL_GRIPPER_FAILED |-> Retry("retry_gripper"), CTL_GRASP_SLIP |-> Retry("regrasp"),
   CTL_DRIVER_ERROR |-> ToCloud(Fatal)]

VLASpecs ==
  [VLA_PREDICTION_FAILED |-> Retry("retry_prediction"),
   VLA_ACTION_DRIFT |-> Retry("reset_to_checkpoint"),
   VLA_CONFIDENCE_LOW |-> ToUser(Retry("request_user_guidance")),
   VLA_SAFETY_VIOLATION |-> Recover("stop_and_replan"),
   VLA_TASK_INCOMPLETE |-> Retry("continue_or_replan"), VLA_MODEL_LOAD_FAILED |-> ToCloud(Fatal)]

SafetySpecs ==
  [SAF_EMERGENCY_STOP |-> ToUser(Fatal), SAF_COLLISION_RISK |-> Recover("stop_and_replan"),
   SAF_FORCE_LIMIT |-> Recover("stop_and_retract"), SAF_SPEED_LIMIT |-> Recover("reduce_speed"),
   SAF_WORKSPACE_VIOLATION |-> Recover("return_to_workspace"),
   SAF_HUMAN_PROXIMITY |-> Recover("slow_and_wait")]

CommunicationSpecs ==
  [COM_CLOUD_DISCONNECTED |-> ToCloud(Retry("operate_autonomously")),
   COM_SERVICE_TIMEOUT |-> Retry("retry_with_backoff"), COM_INVALID_RESPONSE |-> Retry("retry_request")]

TaskSpecs ==
  [TSK_INSTRUCTION_UNCLEAR |-> ToUser(Recover("ask_user_clarification")),
   TSK_PLAN_INVALID |-> ToCloud(Recover("replan")),
   TSK_SKILL_NOT_FOUND |-> ToCloud(Fatal),
   TSK_PRECONDITION_FAILED |-> Retry("satisfy_precondition"),
   TSK_POSTCONDITION_FAILED |-> Retry("retry_skill"),
   TSK_MAX_RETRY_EXCEEDED |-> ToUser(ToCloud([Fatal EXCEPT !.policy = "escalate"]))]

Parts == {GeneralSpecs, PerceptionSpecs, GraspSpecs, KinematicsSpecs, MotionSpecs,
          ControlSpecs, VLASpecs, SafetySpecs, CommunicationSpecs, TaskSpecs}

Specs == [code \in UNION {DOMAIN part : part \in Parts} |->
            (CHOOSE part \in Parts : code \in DOMAIN part)[code]]

\* ErrorCode(failure_code), then the table: _lookup_spec of the monitor.
Known(code) == code \in DOMAIN Specs

-----------------------------------------------------------------------------
(* ExecutionMonitor                                                        *)

\* publish_event(): the recovery_candidates of an event with this failure code.
Candidates(code) ==
  IF Known(code) /\ Specs[code].policy # "" THEN <<Specs[code].policy>> ELSE <<>>

Action(spec, priority) ==
  [name |-> spec.policy, cloud |-> spec.cloud, user |-> spec.user, priority |-> priority]

Unrouted == [name |-> "", cloud |-> FALSE, user |-> FALSE, priority |-> 0]

Escalation(spec) ==
  [name |-> IF spec.policy = "" THEN "escalate" ELSE spec.policy,
   cloud |-> TRUE, user |-> TRUE, priority |-> 99]

\* request_recovery(): Unrouted stands for (False, None).
RequestRecovery(code) ==
  IF ~ Known(code) THEN Unrouted
  ELSE IF Specs[code].recoverable /\ Specs[code].policy # "" THEN Action(Specs[code], 0)
  ELSE Escalation(Specs[code])

\* build_recovery_chain(): the priorities are ascending as they are given.
RecoveryChain(code, candidates) ==
  (IF Candidates(code) = <<>> THEN <<>> ELSE <<Action(Specs[code], 0)>>)
    \o [i \in 1 .. Len(candidates) |-> [Unrouted EXCEPT !.name = candidates[i], !.priority = i]]

-----------------------------------------------------------------------------
(* RecoveryAdvisor.advise(): the actions, none for a code it does not know *)

\* Slip: a retry is advised before the policy that makes it worthwhile.
AdviceRetryFirst(code) ==
  IF ~ Known(code) THEN <<>>
  ELSE LET spec == Specs[code]
           If(flag, action) == IF flag THEN <<action>> ELSE <<>>
       IN  If(spec.retryable, "retry") \o Candidates(code)
             \o If(spec.cloud, "escalate_to_cloud") \o If(spec.user, "ask_user_clarification")

Advice(code) ==
  IF ~ Known(code) THEN <<>>
  ELSE LET spec == Specs[code]
           If(flag, action) == IF flag THEN <<action>> ELSE <<>>
       IN  Candidates(code) \o If(spec.retryable, "retry")
             \o If(spec.cloud, "escalate_to_cloud") \o If(spec.user, "ask_user_clarification")

=============================================================================
