SPECIFICATION FairSpec
CONSTANTS
  a = a
  b = b
  Ids = {a, b}
  Ttls = {1}
  Robots = {unknown, seen}
  UnknownRobot = unknown
  Payloads <- MCPayloads
  Refreshes <- MCRefreshes
  Readers = {r}
  MaxObjects = 2
  MaxAge = 2
  NotGiven = NotGiven
CHECK_DEADLOCK FALSE
INVARIANTS
  WorldStateOK
PROPERTIES
  ExpiryIsEarned
  RemovalIsFinal
  SilentObjectsAreGivenUp
