SPECIFICATION LibrarySpec
CONSTANTS
  front = front
  anna = anna
  photo = photo
  t1 = t1
  t2 = t2
  Cameras <- MCCameras
  People <- MCPeople
  Pictures <- MCPictures
  Tasks <- MCTasks
  Absent = Absent
  REFERENCE_ORPHAN_GRACE_SECONDS = 1
  MaxTime = 2
  MaxCalls = 4
  MaxRestarts = 1
SYMMETRY Symmetry
INVARIANTS
  EntitiesFollow
PROPERTY
  PicturesKept
CHECK_DEADLOCK FALSE
