SPECIFICATION OrchestratorFairSpec
CONSTANTS
  Holders = {c1, c2}
  Resources = {"arm", "camera"}
  NoHolder = NoHolder
  Invocations = {i1, i2}
  Skills = {"reach", "place", "look"}
  Required <- MCRequired
  Exclusive <- MCExclusive
  SkillStatuses = {"success", "failed"}
  UniqueIds = FALSE
  Cancellable = {c1, c2}
  NoCall = NoCall
  NoTask = NoTask
CHECK_DEADLOCK FALSE
INVARIANTS
  LocksHaveOwners
PROPERTIES
  ImplementsLockTable
  EveryCallReturns
