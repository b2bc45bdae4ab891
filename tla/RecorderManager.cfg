SPECIFICATION FairSpec
CONSTANTS
  StreamOrder <- MCStreamOrder
  Configs <- MCConfigs
  NoSpec = NoSpec
  NoConfig = NoConfig
  Tasks = {cycle, t1, t2}
  Cycle = cycle
  Slots = 3
  MaxCalls = 3
  MaxFlips = 1
  AllowPause = TRUE
  AllowStopAll = TRUE
INVARIANTS
  OneProcess
  NothingUntracked
  NothingForgotten
PROPERTIES
  NeighbourKeepsRecording
  EventuallyRecording
CHECK_DEADLOCK FALSE
