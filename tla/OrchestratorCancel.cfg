SPECIFICATION OrchestratorSpec
CONSTANTS
  Holders = {c1, c2, c3}
  Resources = {"arm", "camera"}
  NoHolder = NoHolder
  Invocations = {i1, i2, i3}
  Skills = {"place", "look"}
  Required <- MCRequired
  Exclusive <- MCExclusive
  SkillStatuses = {"success", "failed"}
  UniqueIds = TRUE
  Cancellable = {c1, c2, c3}
  NoCall = NoCall
  NoTask = NoTask
SYMMETRY Symmetry
CHECK_DEADLOCK FALSE
INVARIANTS
  ExclusiveUntilCancelled
  CancelReachesSkill
