SPECIFICATION RecoveryFairSpec
CONSTANTS
  MaxMissedFrames = 2
  NumPoints = 2
  MaxJointVelocity = 1
  DefaultScaling = 1
  MaxRetries <- MCMaxRetries
  Kinds = {"pick", "track", "other"}
  Faults <- MCFaults
  reach = reach
  grasp = grasp
  fold = fold
  None = None
  Registered = {"mock", "simple"}
  Configured = "learned"
  Skills = {reach, grasp, fold, ""}
  Templates <- MCTemplates
  Graphs <- MCGraphs
  Registry = {reach, grasp}
INVARIANTS
  SessionEndIsEarned
  PlansAreKept
  RecoveryStateOK
  AdviceAgrees
PROPERTIES
  TreeEnds
  RequestsAreHonoured
CHECK_DEADLOCK FALSE
