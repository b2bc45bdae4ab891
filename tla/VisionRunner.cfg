SPECIFICATION Spec
CONSTANTS
  t1 = t1
  t2 = t2
  Tasks <- MCTasks
  HISTORY_LENGTH = 2
  daily_budget = 2
  cooldown_seconds = 1
  DayLength = 1
  MaxTime = 1
  MaxRuns = 3
  MaxSaves = 2
  MaxGens = 2
SYMMETRY Symmetry
INVARIANTS
  WithinBudget
  PicturesMatch
  TriggersFollow
PROPERTY
  NewestAnswerStays
CHECK_DEADLOCK FALSE
