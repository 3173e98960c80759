------------------------------- MODULE Control -------------------------------
(***************************************************************************)
(* The control package on one driver: TrajectoryExecutor.execute           *)
(* (trajectory_executor.py), GripperController.execute                     *)
(* (gripper_controller.py) and the life of the driver in ControlNode       *)
(* (control_node.py).                                                      *)
(*                                                                         *)
(* Both execute() methods step the driver themselves, so every loop moves  *)
(* every arm and gripper.  Several calls may be in progress, each in a     *)
(* thread of its own; one call of the driver is one step here.  The busy   *)
(* flag is tested in one step and set in another: two calls that pass the  *)
(* test together race for the arm.  A trajectory may come from the planner *)
(* (MotionPlanner), asked for the position the arm then has.  Forces,      *)
(* efforts and velocities are not kept: no movement depends on them.       *)
(***************************************************************************)
EXTENDS SimDriver, MotionPlanner

CONSTANTS
  Loops,           \* calls of TrajectoryExecutor.execute
  Commands,        \* calls of GripperController.execute
  Goals,           \* trajectory goals: [arm, points, scaling]
  PlannedLoops,    \* bound: the calls that may come by way of the planner
  PlannedGoals,    \* goals by way of the planner: [arm, joints, plan, scaling]
  Widths,          \* gripper requests: [gripper, width]
  DefaultVelocityScaling,
  ErrorThreshold,  \* tracking_error_threshold
  Settle,          \* the 0.5 s at the last point, in control periods
  MaxCalls,        \* bound: calls in progress at once
  Timeout          \* timeout_sec of a gripper command, in control periods

Points == [positions : Seq(Int), time : Int]

ASSUME ControlAssumption ==
  /\ \A goal \in Goals : goal.points \in Seq(Points) /\ goal.scaling \in Int
  /\ \A goal \in PlannedGoals :
       /\ goal.joints \in Seq(Int) \ {NoJoints}
       /\ goal.plan \in Int /\ goal.scaling \in Int
  /\ \A request \in Widths : request.width \in Int
  /\ DefaultVelocityScaling \in Int /\ Timeout \in Int
  /\ ErrorThreshold \in Nat /\ Settle \in Nat
  /\ Loops \cap Commands = {}

VARIABLES
  busy,      \* _active_arms
  loop,      \* each trajectory loop, or idle
  command,   \* each gripper command, or idle
  arrived,   \* history: where a success left the arm, until the next command
  stopped,   \* history: arms and grippers not commanded since an emergency stop
  disturbed, \* history: loops and commands whose target somebody else changed
  raced      \* history: loops that passed the busy test next to another one

driver == <<armState, gripperState>>
vars == <<armState, gripperState, busy, loop, command,
          arrived, stopped, disturbed, raced>>

Idle == [phase |-> "idle"]
Anywhere == <<>>
Running(l) == loop[l].phase # "idle"
Marked(l) == loop[l].phase \in {"empty", "command", "step", "measure"}
Executing(c) == command[c].phase = "step"

MayStart ==
  Cardinality({l \in Loops : Running(l)}) + Cardinality({c \in Commands : Executing(c)}) < MaxCalls

\* _load_and_start() has found a configuration and connected the driver.
Init ==
  /\ DriverInit
  /\ busy = [a \in Arms |-> FALSE]
  /\ loop = [l \in Loops |-> Idle]
  /\ command = [c \in Commands |-> Idle]
  /\ arrived = [a \in Arms |-> Anywhere]
  /\ stopped = {}
  /\ disturbed = {}
  /\ raced = {}

-----------------------------------------------------------------------------
\* ControlNode.shutdown(): calls that are still in progress go on.
Shutdown ==
  /\ Connected
  /\ Disconnect
  /\ UNCHANGED <<busy, loop, command, arrived, stopped, disturbed, raced>>

-----------------------------------------------------------------------------
(* TrajectoryExecutor.execute                                              *)

VelocityScaling(asked) ==
  Clamped(IF asked <= 0 THEN DefaultVelocityScaling ELSE asked, 0, FullScaling)

\* An emergency stop changes the targets of everybody else.
Others(l) == {k \in Loops \ {l} : Running(k) /\ loop[k].clean}
             \cup {c \in Commands : Executing(c)}

\* Every return and every exception passes the finally clause.
\* Slip: the flag is cleared on the way of a return only.
FinishReturning(l, raised) ==
  /\ busy' = IF raised THEN busy ELSE [busy EXCEPT ![loop[l].arm] = FALSE]
  /\ loop' = [loop EXCEPT ![l] = Idle]
  /\ raced' = raced \ {l}

Finish(l, raised) ==
  /\ busy' = [busy EXCEPT ![loop[l].arm] = FALSE]
  /\ loop' = [loop EXCEPT ![l] = Idle]
  /\ raced' = raced \ {l}

\* Whether a planned trajectory starts where the arm rests, is carried out at
\* no less than the planner's velocity, stays inside the limits, and has a
\* last segment that takes no longer than the time at the last point.  Times
\* are whole control periods here, and the code's are not: what rounding takes
\* from a segment is nothing, or no more than the threshold allows.
Clean(goal) ==
  LET st == armState[goal.arm]
      limits == JointLimits[goal.arm]
      velocity == MaxVelocity[goal.arm] * VelocityScaling(goal.scaling)
      planned == MaxJointVelocity * PlanScaling(goal.plan)
      distance == Displacement(st.current, goal.joints)
  IN  /\ st.target = st.current
      /\ planned <= velocity
      /\ planned <= ErrorThreshold \/ distance % ((NumPoints - 1) * planned) = 0
      /\ distance <= (NumPoints - 1) * velocity * Settle
      /\ \A j \in DOMAIN goal.joints : limits.lower <= goal.joints[j]
                                       /\ goal.joints[j] <= limits.upper

\* Slip: the test is forgotten.
AdmittedAlways(arm) == arm \in Arms

\* A call for an unknown arm (CTL_INVALID_ARM) or for a busy one
\* (CTL_ARM_BUSY) returns at once.
Admitted(arm) == arm \in Arms /\ ~ busy[arm]

\* The loops a call meets on its arm when it has passed the test: those that
\* have passed it too and not set the flag yet, and those left of such a race,
\* whose flag another one of them may have cleared.
Rivals(l, arm) ==
  {k \in Loops \ {l} : /\ Running(k) /\ loop[k].arm = arm
                       /\ ~ Marked(k) \/ k \in raced}

\* The call, up to the test.
Execute(l, arm, points, scaling, clean) ==
  /\ ~ Running(l) /\ MayStart
  /\ Admitted(arm)
  /\ loop' = [loop EXCEPT ![l] =
                [phase |-> "admitted", arm |-> arm, points |-> points,
                 scaling |-> VelocityScaling(scaling), idx |-> 1, left |-> 0,
                 clean |-> clean]]
  /\ raced' = IF Rivals(l, arm) = {} THEN raced ELSE raced \cup Rivals(l, arm) \cup {l}
  /\ UNCHANGED <<driver, busy, command, arrived, stopped, disturbed>>

ExecuteGoal(l) ==
  \E goal \in Goals : Execute(l, goal.arm, goal.points, goal.scaling, FALSE)

\* The planner is asked for a trajectory from where the arm is.
ExecutePlan(l) ==
  /\ l \in PlannedLoops
  /\ Connected
  /\ \E goal \in PlannedGoals :
       Execute(l, goal.arm,
               Interpolate(armState[goal.arm].current, goal.joints, goal.plan),
               goal.scaling, Clean(goal))

\* The flag is set, whatever it has become since the test.
MarkBusy(l) ==
  /\ loop[l].phase = "admitted"
  /\ busy' = [busy EXCEPT ![loop[l].arm] = TRUE]
  /\ loop' = [loop EXCEPT ![l].phase = IF loop[l].points = <<>> THEN "empty" ELSE "command"]
  /\ UNCHANGED <<driver, command, arrived, stopped, disturbed, raced>>

\* No points: success.
ReturnEmpty(l) ==
  /\ loop[l].phase = "empty"
  /\ Finish(l, FALSE)
  /\ disturbed' = disturbed \ {l}
  /\ UNCHANGED <<driver, command, arrived, stopped>>

\* cancel_check answers True: an emergency stop for one loop is one for every
\* arm and gripper.
CancelTrajectory(l) ==
  /\ loop[l].phase = "command"
  /\ EmergencyStop
  /\ Finish(l, FALSE)
  /\ stopped' = stopped \cup DOMAIN armState \cup DOMAIN gripperState
  /\ disturbed' = (disturbed \cup Others(l)) \ {l}
  /\ UNCHANGED <<command, arrived>>

Raise(l) ==
  /\ Finish(l, TRUE)
  /\ disturbed' = disturbed \ {l}
  /\ UNCHANGED <<command, arrived, stopped>>

\* How long the point is held.
Segment(points, k) ==
  IF k < Len(points) THEN points[k + 1].time - points[k].time ELSE Settle

\* One turn of the loop, up to the first step of the driver; cancel_check may
\* answer either way.
CommandPoint(l) ==
  LET me == loop[l]
      held == Segment(me.points, me.idx)
  IN
  /\ me.phase = "command"
  /\ IF me.arm \notin DOMAIN armState THEN Raise(l) /\ UNCHANGED driver
     ELSE /\ SetJointPositions(me.arm, me.points[me.idx].positions, me.scaling)
          /\ loop' = [loop EXCEPT ![l].left = held,
                                  ![l].phase = IF held > 0 THEN "step" ELSE "measure"]
          /\ arrived' = [arrived EXCEPT ![me.arm] = Anywhere]
          /\ stopped' = stopped \ {me.arm}
          /\ UNCHANGED <<busy, command, disturbed, raced>>

StepDriver(l) ==
  /\ loop[l].phase = "step"
  /\ Step
  /\ IF StepRaises THEN Raise(l)
     ELSE /\ loop' = [loop EXCEPT ![l].left = @ - 1,
                                  ![l].phase = IF loop[l].left = 1 THEN "measure" ELSE @]
          /\ UNCHANGED <<busy, command, arrived, stopped, disturbed, raced>>

\* Slip: the sign is kept, so that an arm that lags behind is on its track.
TrackingErrorSigned(arm, positions) ==
  Max({armState[arm].current[j] - positions[j] : j \in DOMAIN positions})

TrackingError(arm, positions) ==
  Max({Abs(armState[arm].current[j] - positions[j]) : j \in DOMAIN positions})

\* The arm is gone, the point has a joint too many, or it has none.
MeasureRaises(arm, positions) ==
  \/ arm \notin DOMAIN armState
  \/ positions = <<>>
  \/ Len(positions) > Len(armState[arm].current)

\* The rest of the turn.
MeasurePoint(l) ==
  LET me == loop[l]
      positions == me.points[me.idx].positions
  IN
  /\ me.phase = "measure"
  /\ UNCHANGED driver
  /\ IF MeasureRaises(me.arm, positions) THEN Raise(l)
     ELSE IF TrackingError(me.arm, positions) > ErrorThreshold
       THEN /\ Finish(l, FALSE)
            /\ disturbed' = disturbed \ {l}
            /\ UNCHANGED <<command, arrived, stopped>>
     ELSE IF me.idx < Len(me.points)
       THEN /\ loop' = [loop EXCEPT ![l].idx = @ + 1, ![l].phase = "command"]
            /\ UNCHANGED <<busy, command, arrived, stopped, disturbed, raced>>
     ELSE /\ Finish(l, FALSE)
          /\ arrived' = IF l \in raced THEN arrived
                        ELSE [arrived EXCEPT ![me.arm] = positions]
          /\ disturbed' = disturbed \ {l}
          /\ UNCHANGED <<command, stopped>>

TrajectoryStep(l) ==
  \/ MarkBusy(l) \/ ReturnEmpty(l) \/ CancelTrajectory(l)
  \/ CommandPoint(l) \/ StepDriver(l) \/ MeasurePoint(l)

-----------------------------------------------------------------------------
(* GripperController.execute                                               *)

\* The response is returned and not kept.
Respond(c) ==
  /\ command' = [command EXCEPT ![c] = Idle]
  /\ disturbed' = disturbed \ {c}

\* CTL_GRIPPER_FAILED for a gripper or an action nobody knows, or the width
\* is commanded.
GripperExecute(c) ==
  \E request \in Widths :
    /\ ~ Executing(c) /\ MayStart
    /\ request.gripper \in DOMAIN gripperState
    /\ SetGripperWidth(request.gripper, request.width)
    /\ command' = [command EXCEPT ![c] = [phase |-> "step", gripper |-> request.gripper,
                                          width |-> request.width, elapsed |-> 0]]
    /\ stopped' = stopped \ {request.gripper}
    /\ disturbed' = disturbed
         \cup {k \in Commands : Executing(k) /\ command[k].gripper = request.gripper}
    /\ UNCHANGED <<busy, loop, arrived, raced>>

\* Slips: a width out of reach is waited for without end; the time is looked
\* at one step ahead.
WaitsForEver(c, elapsed) == gripperState'[command[c].gripper].current # command[c].width

WaitsShort(c, elapsed) ==
  /\ elapsed + 1 < Timeout
  /\ gripperState'[command[c].gripper].current # command[c].width

Waits(c, elapsed) ==
  /\ elapsed < Timeout
  /\ gripperState'[command[c].gripper].current # command[c].width

\* One turn of the wait, and the response after the last: success, whatever
\* the width.
GripperStep(c) ==
  LET me == command[c] IN
  /\ Executing(c)
  /\ Step
  /\ IF ~ StepRaises /\ me.gripper \in DOMAIN gripperState /\ Waits(c, me.elapsed + 1)
       THEN /\ command' = [command EXCEPT ![c].elapsed = AtMost(@ + 1, Timeout)]
            /\ UNCHANGED disturbed
       ELSE Respond(c)
  /\ UNCHANGED <<busy, loop, arrived, stopped, raced>>

-----------------------------------------------------------------------------
Next ==
  \/ Shutdown
  \/ \E l \in Loops : ExecuteGoal(l) \/ ExecutePlan(l) \/ TrajectoryStep(l)
  \/ \E c \in Commands : GripperExecute(c) \/ GripperStep(c)

Spec == Init /\ [][Next]_vars

\* execute() runs in a thread of its own until it returns.
FairSpec ==
  /\ Spec
  /\ \A l \in Loops : WF_vars(TrajectoryStep(l))
  /\ \A c \in Commands : WF_vars(GripperStep(c))

-----------------------------------------------------------------------------
ArmStates == [current : Seq(Int), target : Seq(Int), scaling : 0 .. FullScaling]

ControlTypeOK ==
  /\ DOMAIN armState \in {{}, Arms}
  /\ \A a \in DOMAIN armState : armState[a] \in ArmStates
  /\ DOMAIN gripperState = IF Connected THEN Grippers ELSE {}
  /\ \A g \in DOMAIN gripperState :
       gripperState[g] \in [current : 0 .. MaxWidth, target : 0 .. MaxWidth]
  /\ busy \in [Arms -> BOOLEAN]

\* No joint ever leaves its limits, whatever positions are commanded, by
\* whichever loop the driver is stepped (set_joint_positions clamps, step and
\* emergency_stop keep between current and target).
ArmsStayInLimits ==
  \A a \in DOMAIN armState :
    /\ Len(armState[a].current) = NumJoints[a]
    /\ \A s \in {armState[a].current, armState[a].target} : \A j \in DOMAIN s :
         JointLimits[a].lower <= s[j] /\ s[j] <= JointLimits[a].upper

\* An arm is busy only while a call that has marked it is under way, whichever
\* way the others ended: off their track, or by an exception another arm's
\* target caused (the finally clause).  And a call has its arm to itself, busy
\* as soon as it has marked it, unless another passed the test between its
\* test and its mark, or while the arm was still in use after such a race: the
\* flag keeps everybody else out.
BusyKeepsOthersOut ==
  /\ \A a \in Arms : busy[a] => \E l \in Loops : Marked(l) /\ loop[l].arm = a
  /\ \A l \in Loops : Running(l) /\ l \notin raced =>
       /\ busy[loop[l].arm] <=> Marked(l)
       /\ \A k \in Loops : Running(k) /\ loop[k].arm = loop[l].arm => k = l

\* After an emergency stop an arm or a gripper stays where it is until it is
\* commanded itself, however often other loops step the driver.
StoppedStays ==
  [][ /\ \A a \in stopped \cap stopped' \cap DOMAIN armState :
           a \in DOMAIN armState' => armState'[a].current = armState[a].current
      /\ \A g \in stopped \cap stopped' \cap DOMAIN gripperState :
           g \in DOMAIN gripperState' => gripperState'[g].current = gripperState[g].current ]_vars

\* Where a trajectory ended in success the arm stays, within the threshold,
\* until its next command: later steps and emergency stops of other loops do
\* not take it away.  A loop that raced for the arm may leave it on its way to
\* another loop's target.
SuccessIsKept ==
  \A a \in DOMAIN armState : \A j \in DOMAIN arrived[a] :
    Abs(armState[a].current[j] - arrived[a][j]) <= ErrorThreshold

\* The variables of the package have their types, and no later step or stop takes
\* away what a trajectory has reached (execute, step, emergency_stop).
ControlStateOK == ControlTypeOK /\ SuccessIsKept

\* A trajectory the planner made for an arm at rest, carried out at no less
\* than the planner's velocity, not stopped for another loop and not racing
\* with one for the arm, never fails the tracking check, as long as its last segment fits into the 0.5 s at the
\* last point: the executor holds point k for the time up to point k + 1, so
\* that every segment but the last has the time the planner gave it.
PlannedMotionTracks ==
  \A l \in Loops :
    /\ loop[l].phase = "measure" /\ loop[l].clean /\ l \notin disturbed \cup raced
    /\ loop[l].arm \in DOMAIN armState
    => TrackingError(loop[l].arm, loop[l].points[loop[l].idx].positions) <= ErrorThreshold

\* A gripper command reports success whatever the width.  When it ends, the
\* width is the one asked for unless that is out of range, the time given is
\* too short, an exception ended the wait, or somebody else stopped or
\* commanded the gripper.
GripperReachesWidth ==
  [][ \A c \in Commands :
        /\ Executing(c) /\ ~ Executing(c)' /\ ~ StepRaises
        /\ c \notin disturbed /\ MaxWidth <= Timeout
        /\ command[c].gripper \in DOMAIN gripperState /\ command[c].width \in 0 .. MaxWidth
        => gripperState'[command[c].gripper].current = command[c].width ]_vars

\* Every trajectory loop and every gripper command ends: again and again none is
\* under way in its thread (execute of both).
LoopsEnd ==
  /\ \A l \in Loops : []<> ~ Running(l)
  /\ \A c \in Commands : []<> ~ Executing(c)

=============================================================================
