------------------------------ MODULE SimDriver ------------------------------
(***************************************************************************)
(* SimDriver (sim_driver.py): every arm and gripper moves towards its      *)
(* target whenever anybody steps the driver; an emergency stop makes every *)
(* target the current position.  A method that raises is an operator of    *)
(* its own: Python keeps what it had done by then.                         *)
(***************************************************************************)
EXTENDS Integers, Sequences

CONSTANTS
  ArmOrder,     \* the arm ids in the order of the configuration
  NumJoints,    \* num_joints of each arm
  JointLimits,  \* [lower, upper] of the joints of each arm
  MaxVelocity,  \* max_joint_velocities * dt, per part of a scaling
  FullScaling,  \* velocity scaling 1.0, in parts
  Grippers,     \* gripper ids
  MaxWidth      \* max_width, in steps of gripper_speed * dt; min_width is 0

Arms == {ArmOrder[k] : k \in DOMAIN ArmOrder}

ASSUME DriverAssumption ==
  /\ NumJoints \in [Arms -> Nat \ {0}]
  /\ JointLimits \in [Arms -> [lower : Int, upper : Int]]
  /\ \A a \in Arms : JointLimits[a].lower <= 0 /\ 0 <= JointLimits[a].upper
  /\ MaxVelocity \in [Arms -> Nat \ {0}]
  /\ FullScaling \in Nat \ {0}
  /\ MaxWidth \in Nat

VARIABLES
  armState,    \* _arm_states: current, target and scaling of each arm
  gripperState \* _gripper_states: current and target width of each gripper

Connected == DOMAIN armState = Arms

AtLeast(x, lo) == IF x < lo THEN lo ELSE x
AtMost(x, hi) == IF x > hi THEN hi ELSE x
Clamped(x, lo, hi) == AtLeast(AtMost(x, hi), lo)

\* connect(): arms at zero, grippers open.
DriverInit ==
  /\ armState = [a \in Arms |-> [current |-> [j \in 1 .. NumJoints[a] |-> 0],
                                 target |-> [j \in 1 .. NumJoints[a] |-> 0],
                                 scaling |-> FullScaling]]
  /\ gripperState = [g \in Grippers |-> [current |-> MaxWidth, target |-> MaxWidth]]

Disconnect ==
  /\ armState' = [a \in {} |-> armState[a]]
  /\ gripperState' = [g \in {} |-> gripperState[g]]

\* set_joint_positions(): as many targets as positions are given.
\* Slip: the positions are stored as they come.
TargetUnclamped(a, positions) == positions

Target(a, positions) ==
  [j \in DOMAIN positions |->
     Clamped(positions[j], JointLimits[a].lower, JointLimits[a].upper)]

SetJointPositions(a, positions, scaling) ==
  /\ armState' = [armState EXCEPT ![a].target = Target(a, positions),
                                  ![a].scaling = Clamped(scaling, 0, FullScaling)]
  /\ UNCHANGED gripperState

\* Slip: the width is stored as it comes.
SetGripperWidthUnclamped(g, width) ==
  /\ gripperState' = [gripperState EXCEPT ![g].target = width]
  /\ UNCHANGED armState

SetGripperWidth(g, width) ==
  /\ gripperState' = [gripperState EXCEPT ![g].target = Clamped(width, 0, MaxWidth)]
  /\ UNCHANGED armState

\* Slip: the grippers are forgotten.
EmergencyStopArms ==
  /\ armState' = [a \in DOMAIN armState |->
                    [armState[a] EXCEPT !.target = armState[a].current]]
  /\ UNCHANGED gripperState

EmergencyStop ==
  /\ armState' = [a \in DOMAIN armState |->
                    [armState[a] EXCEPT !.target = armState[a].current]]
  /\ gripperState' = [g \in DOMAIN gripperState |->
                        [gripperState[g] EXCEPT !.target = gripperState[g].current]]

-----------------------------------------------------------------------------
(* step(): every arm, in the order of the configuration, then the          *)
(* grippers.                                                               *)

Toward(x, goal, most) == x + Clamped(goal - x, - most, most)

Advanced(a) ==
  LET st == armState[a]
  IN  [st EXCEPT !.current =
         [j \in DOMAIN st.current |->
            IF j \in DOMAIN st.target
              THEN Toward(st.current[j], st.target[j], MaxVelocity[a] * st.scaling)
              ELSE st.current[j]]]

\* A target with fewer joints than the arm: the index raises, when the joints
\* before it and the arms before this one have moved.
TargetTooShort(a) == Len(armState[a].target) < Len(armState[a].current)

StepRaises == \E a \in DOMAIN armState : TargetTooShort(a)

Reached(k) ==
  \A i \in DOMAIN ArmOrder : i < k /\ ArmOrder[i] \in DOMAIN armState
                             => ~ TargetTooShort(ArmOrder[i])

Step ==
  /\ armState' = [a \in DOMAIN armState |->
                    IF \E k \in DOMAIN ArmOrder : ArmOrder[k] = a /\ Reached(k)
                      THEN Advanced(a) ELSE armState[a]]
  /\ gripperState' = IF StepRaises THEN gripperState
                     ELSE [g \in DOMAIN gripperState |->
                             [gripperState[g] EXCEPT
                                !.current = Toward(@, gripperState[g].target, 1)]]

=============================================================================
