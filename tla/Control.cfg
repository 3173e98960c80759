SPECIFICATION FairSpec
CONSTANTS
  left = left
  right = right
  gripper = gripper
  l1 = l1
  l2 = l2
  c1 = c1
  ArmOrder <- MCArmOrder
  NumJoints <- MCNumJoints
  JointLimits <- MCJointLimits
  MaxVelocity <- MCMaxVelocity
  FullScaling = 1
  Grippers = {gripper}
  MaxWidth = 2
  NumPoints = 3
  MaxJointVelocity = 2
  DefaultScaling = 1
  Loops = {l1, l2}
  Commands = {c1}
  PlannedLoops = {l1}
  Goals <- MCGoals
  PlannedGoals <- MCPlannedGoals
  Widths <- MCWidths
  DefaultVelocityScaling = 1
  ErrorThreshold = 1
  Settle = 1
  Timeout = 2
  MaxCalls = 2
INVARIANTS
  ControlStateOK
  ArmsStayInLimits
  BusyKeepsOthersOut
  PlannedMotionTracks
PROPERTIES
  GripperReachesWidth
  StoppedStays
  LoopsEnd
CHECK_DEADLOCK FALSE
