SPECIFICATION FairSpec
CONSTANTS
  Streams = {1, 2}
  ClockBack = 4
  Hour = 3
  Layout <- MCLayout
  Ranges <- MCRanges
  MAX_EXPORT_SECONDS = 4
  MaxGap = 1
  MaxKilled = 1
  MaxDeletes = 1
INVARIANTS
  DeliversTheRange
  TornTailsAreCut
  ClockIsTrue
  TimelineIsTrue
  NothingLeft
PROPERTIES
  EveryExportEnds
CHECK_DEADLOCK FALSE
