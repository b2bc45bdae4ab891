SPECIFICATION FairSpec
CONSTANTS
  p1 = p1
  p2 = p2
  p3 = p3
  s1 = s1
  s2 = s2
  NoProc = NoProc
  Pids <- MCPids
  Stoppers <- MCStoppers
  INITIAL_BACKOFF_SECONDS = 1
  MAX_BACKOFF_SECONDS = 60
INVARIANTS
  OneWriter
  StoppedIsDead
PROPERTIES
  GapsEnd
  StopsReturn
  ImplementsRecordedStream
