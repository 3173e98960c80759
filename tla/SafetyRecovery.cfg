SPECIFICATION NodeSpec
CONSTANTS
  ViolationTypes = {"velocity_exceeded", "robot_state_timeout"}
  Operators = {"alice"}
  BlankOperator = BlankOperator
  Batches <- SmallBatches
  WorkspaceIds = {"default", "tabletop", "unknown"}
  KnownWorkspaces <- MCWorkspaces
  DefaultWorkspace <- MCDefault
  VLAActions <- RelativeActions
  MaxSteps = {1, 2}
  Poses <- MCPoses
  NoPose = NoPose
  Reach = 3
  Arms = {left, right}
  WatchdogTimeout = 1
  MaxSilence = 2
PROPERTY OnlyTimeoutIsCleared
