---------------------------- MODULE MotionPlanner ----------------------------
(***************************************************************************)
(* SimpleMotionPlanner (simple_motion_planner.py): a joint-space goal, or  *)
(* the joint solution of a pose, is reached along NumPoints points spaced  *)
(* evenly in position and in time.                                         *)
(*                                                                         *)
(* Joint positions are integers, so are times (in control periods) and     *)
(* scalings (in parts of FullScaling).                                     *)
(***************************************************************************)
EXTENDS Integers, Sequences, FiniteSetsExt

CONSTANTS
  NumPoints,        \* _num_points
  MaxJointVelocity, \* _max_joint_velocity * dt, per part of a scaling
  DefaultScaling    \* the scaling used when none or a negative one is asked for

ASSUME PlannerAssumption ==
  /\ NumPoints \in Nat /\ NumPoints > 1
  /\ MaxJointVelocity \in Nat \ {0}
  /\ DefaultScaling \in Nat \ {0}

Abs(x) == IF x < 0 THEN - x ELSE x
Shorter(s, g) == IF Len(s) < Len(g) THEN Len(s) ELSE Len(g)

\* A request names joints, a pose or neither (an empty joint list counts as
\* none), and a pose has a joint solution or not.
NoJoints == <<>>

\* The goal resolution of plan(): the joints asked for come first, in every
\* planning mode.
ResolveGoal(joints, hasPose, solution) ==
  IF joints # NoJoints THEN [code |-> "", joints |-> joints]
  ELSE IF ~ hasPose THEN [code |-> "MOT_NO_GOAL", joints |-> NoJoints]
  ELSE IF solution = NoJoints THEN [code |-> "IK_NO_SOLUTION", joints |-> NoJoints]
  ELSE [code |-> "", joints |-> solution]

\* The time between two points: the largest displacement at the planner's
\* velocity. zip() drops the joints one of the two lists does not have.
PlanScaling(scaling) == IF scaling <= 0 THEN DefaultScaling ELSE scaling

Displacement(start, goal) ==
  Max({0} \cup {Abs(goal[j] - start[j]) : j \in 1 .. Shorter(start, goal)})

\* Slip: the time of one segment is taken for that of the whole motion.
PointTimeShort(i, disp, scaling) ==
  (i * disp) \div (NumPoints * (NumPoints - 1) * MaxJointVelocity * PlanScaling(scaling))

PointTime(i, disp, scaling) ==
  (i * disp) \div ((NumPoints - 1) * MaxJointVelocity * PlanScaling(scaling))

\* _interpolate()
Interpolate(start, goal, scaling) ==
  [k \in 1 .. NumPoints |->
     [positions |-> [j \in 1 .. Shorter(start, goal) |->
                       start[j] + ((k - 1) * (goal[j] - start[j])) \div (NumPoints - 1)],
      time |-> PointTime(k - 1, Displacement(start, goal), scaling)]]

=============================================================================
