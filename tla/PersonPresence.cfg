SPECIFICATION Spec
CONSTANTS
  anna = anna
  ben = ben
  cora = cora
  Persons <- MCPersons
  Configs <- MCConfigs
  MaxTime = 4
  MaxSaves = 2
SYMMETRY Symmetry
INVARIANTS
  PresenceEnds
  TimersFollow
PROPERTY
  NeverEarly
CHECK_DEADLOCK FALSE
