SPECIFICATION ExecutorFairSpec
CONSTANTS
  TaskIds = {"t1", "t2", "t3"}
  Plans <- ThreePlans
  MaxDispatches = 2
  MaxNodes = 2
  Controllable = {"t1", "t2", "t3"}
  UniqueIds = TRUE
  Cancellable = {}
  Condition = Condition
  NoTaskId = NoTaskId
  NoPlan = NoPlan
  Holders <- MCHolders
  Invocations <- MCInvocations
  Resources = {"arm"}
  Skills = {"place", "reach"}
  Required <- MCRequired
  Exclusive <- MCExclusive
  SkillStatuses = {"success", "failed"}
  NoHolder = NoHolder
  NoCall = NoCall
  NoTask = NoTask
CHECK_DEADLOCK FALSE
INVARIANTS
  ExecutorStateOK
  MutualExclusion
  SkillsRunInPlanOrder
PROPERTIES
  ImplementsOrchestrator
  PlanEnds
