----------------------------- MODULE MCControl ------------------------------
(* Two arms with one joint each, one gripper, two trajectory loops and one  *)
(* gripper command.  The right arm moves in steps wider than the threshold,  *)
(* the left one may be within it and still on its way.                      *)
EXTENDS Control, TLC

CONSTANTS left, right, gripper, l1, l2, c1

MCArmOrder == <<left, right>>
MCNumJoints == [a \in {left, right} |-> 1]
MCJointLimits == (left :> [lower |-> 0, upper |-> 2]) @@ (right :> [lower |-> 0, upper |-> 4])
MCMaxVelocity == (left :> 1) @@ (right :> 2)

At(x, t) == [positions |-> <<x>>, time |-> t]

\* A point that takes longer than the 0.5 s; one beyond the limits and a later
\* point without joints, out of order in time; and no points at all.
MCGoals ==
  {[arm |-> left, points |-> <<At(2, 0)>>, scaling |-> 0],
   [arm |-> right, points |-> <<At(5, 1), [positions |-> <<>>, time |-> 0]>>, scaling |-> 1],
   [arm |-> left, points |-> <<>>, scaling |-> 1]}

\* With the planner's default scaling, and more than the full velocity asked
\* for when it is carried out.
MCPlannedGoals == {[arm |-> right, joints |-> <<4>>, plan |-> 0, scaling |-> 3]}

MCWidths ==
  {[gripper |-> gripper, width |-> 0], [gripper |-> gripper, width |-> 3]}
=============================================================================
