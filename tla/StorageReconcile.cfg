SPECIFICATION FairSpec
CONSTANTS
  share = share
  disk = disk
  p1 = p1
  p2 = p2
  Nowhere = Nowhere
  NoMount = NoMount
  Mount = nas
  Cycle = Cycle
  Locations <- MCLocations
  Shared <- MCShared
  Panel <- MCPanel
  AUTO_RECONNECT_MAX_SKIP_CYCLES = 2
  MaxCalls = 2
  MaxFaults = 2
INVARIANTS
  ReadyRecords
PROPERTIES
  RecordsAgain
  GoneIsReported
