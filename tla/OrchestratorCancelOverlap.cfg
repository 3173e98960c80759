SPECIFICATION OrchestratorSpec
CONSTANTS
  Holders = {c1, c2}
  Resources = {"arm", "camera"}
  NoHolder = NoHolder
  Invocations = {i1, i2}
  Skills = {"reach", "place"}
  Required <- MCRequired
  Exclusive <- MCExclusive
  SkillStatuses = {"success", "failed"}
  UniqueIds = TRUE
  Cancellable = {c1, c2}
  NoCall = NoCall
  NoTask = NoTask
CHECK_DEADLOCK FALSE
INVARIANT MutualExclusion
