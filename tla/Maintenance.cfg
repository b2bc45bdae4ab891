SPECIFICATION FairSpec
CONSTANTS
  main = main
  sub = sub
  Streams <- MCStreams
  THUMBNAIL_BATCH_FACTOR = 1
  MaxSegments = 3
  MaxDay = 1
  MaxFaults = 2
INVARIANTS
  FactsSettle
PROPERTIES
  NeverDeletesWhatIsWritten
  ForgetsOnlyWhatIsGone
  IndexConverges
CHECK_DEADLOCK FALSE
