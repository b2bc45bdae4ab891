SPECIFICATION Spec
CONSTANTS
  front = front
  yard = yard
  Cameras <- MCCameras
  MaxStarts = 3
SYMMETRY Symmetry
INVARIANT
  OffScreenHoldsNothing
CHECK_DEADLOCK FALSE
