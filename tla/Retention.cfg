SPECIFICATION Spec
CONSTANTS
  Streams = {"s1", "s3"}
  Cameras = {"c1", "c2"}
  Camera <- MCCamera
  Sizes <- MCSizes
  PreviewSize = 1
  Volume = 12
  MINIMUM_HEADROOM_BYTES = 1
  HEADROOM_INTERVALS = 2
  Policies <- MCPolicies
  OtherData = {0, 2}
  Archives <- MCArchives
  MaxTime = 7
  MaxPreviews = 2
  MaxChanges = 1
INVARIANTS
  NeverFull
PROPERTIES
  SettlesAtOnce
  NothingNeedless
CHECK_DEADLOCK FALSE
