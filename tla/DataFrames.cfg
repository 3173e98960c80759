SPECIFICATION Spec
CONSTANTS
  None = None
  Calls = {k1}
  MaxEpisodes = 1
  LastEpisode = 3
  MaxLogs = 1
  MaxBuffer = 2
  MaxFrames = 1
INVARIANTS
  FramesAreKept
CHECK_DEADLOCK FALSE
