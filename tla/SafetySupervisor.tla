-------------------------- MODULE SafetySupervisor --------------------------
(***************************************************************************)
(* roboweave_safety/safety_supervisor_node.py: one process, in which the   *)
(* robot-state subscription, the watchdog timer, the control service and   *)
(* the filter service share one SafetyGuard.  rclpy.spin runs the          *)
(* callbacks one at a time, so each is one action.  The status timer only  *)
(* reads what is modelled here.                                            *)
(*                                                                         *)
(* A RobotStateMsg is the set of arms it lists.  Their readings never      *)
(* reach the SafetyMonitor (see Converts), and neither do the limits that  *)
(* set_speed_limit, set_force_limit and set_workspace give it: those three *)
(* requests change nothing the process ever looks at, and are left out.    *)
(***************************************************************************)
EXTENDS VLASafetyFilter

CONSTANTS
  Arms,
  WatchdogTimeout,      \* watchdog_timeout_sec, in periods of the clock
  MaxSilence            \* bound: the age of the last message stops counting here

\* The event of _watchdog_check().
TimeoutEvent == [type |-> "robot_state_timeout", level |-> "warning"]

ASSUME SupervisorAssumption ==
  /\ "robot_state_timeout" \in ViolationTypes
  /\ {TimeoutEvent} \in Batches
  /\ WatchdogTimeout \in Nat /\ MaxSilence \in Nat
  /\ WatchdogTimeout < MaxSilence

VARIABLE
  silence      \* time since _last_robot_state_time

supervisorVars == <<level, eStopActive, eStopLatched, activeViolations,
                    commanded, reply, silence>>

-----------------------------------------------------------------------------
\* ArmState.msg has a geometry_msgs/Pose, whose position is no sequence:
\* list(arm_msg.eef_pose.position) raises for the first arm, and only a message
\* without arms gets to the checks, which find nothing in it.
Converts(arms) == arms = {}

\* _robot_state_callback(): the watchdog's clock restarts whatever comes of the
\* message; a failed conversion is logged and forgotten.
RobotState(arms) ==
  /\ silence' = 0
  /\ IF Converts(arms) /\ "robot_state_timeout" \in activeViolations
     THEN ClearViolations
     ELSE UNCHANGED guardVars
  /\ UNCHANGED <<commanded, reply>>

\* Mutated _watchdog_check(): only looks while the level is normal.
WatchdogCheckWhenNormal ==
  /\ silence > WatchdogTimeout
  /\ level = "normal"
  /\ "robot_state_timeout" \notin activeViolations
  /\ ProcessViolations({TimeoutEvent})
  /\ UNCHANGED <<commanded, reply, silence>>

\* _watchdog_check()
WatchdogCheck ==
  /\ silence > WatchdogTimeout
  /\ "robot_state_timeout" \notin activeViolations
  /\ ProcessViolations({TimeoutEvent})
  /\ UNCHANGED <<commanded, reply, silence>>

\* _safety_control_callback(): emergency_stop, release_stop, enter_safe_mode
SafetyControl ==
  /\ \/ EmergencyStop
     \/ \E operator \in Operators \cup {BlankOperator} : ReleaseStop(operator)
     \/ EnterSafeMode
  /\ UNCHANGED <<commanded, reply, silence>>

\* _filter_vla_callback()
FilterRequest == FilterVLA /\ UNCHANGED silence

\* Time passes without a message.
Elapse ==
  /\ silence < MaxSilence
  /\ silence' = silence + 1
  /\ UNCHANGED <<guardVars, commanded, reply>>

SupervisorInit == FilterInit /\ silence = 0

\* What the process does by itself.
NodeNext ==
  \/ \E arms \in SUBSET Arms : RobotState(arms)
  \/ WatchdogCheck
  \/ SafetyControl
  \/ FilterRequest
  \/ Elapse

\* With code that holds the same guard and filter and calls their methods: the
\* classes are plain Python, made to be used without the node.
SupervisorNext == NodeNext \/ (FilterNext /\ UNCHANGED silence)

NodeSpec == SupervisorInit /\ [][NodeNext]_supervisorVars

SupervisorSpec == SupervisorInit /\ [][SupervisorNext]_supervisorVars

\* The watchdog timer of the node fires again and again under rclpy.spin.
TimerFairness == WF_supervisorVars(WatchdogCheck)

SupervisorFairSpec == SupervisorSpec /\ TimerFairness

-----------------------------------------------------------------------------
\* Every variable has its type.
SupervisorTypeOK == FilterTypeOK /\ silence \in 0..MaxSilence

\* A robot that has gone silent for good is listed as such, or stopped, again
\* and again: releases, safe-mode requests and recoveries by whoever holds the
\* guard do not make the watchdog forget.
SilenceIsReported ==
  <>[](silence > WatchdogTimeout)
    => []<>("robot_state_timeout" \in activeViolations \/ eStopLatched)

\* What the comment over the recovery says: a robot state (nothing else
\* restarts the watchdog's clock) clears the timeout violation, and no other
\* entry of the list.  The code clears them all, and steps the level down.
OnlyTimeoutIsCleared ==
  [][silence' < silence
       => activeViolations \ {"robot_state_timeout"} \subseteq activeViolations']_supervisorVars
=============================================================================
