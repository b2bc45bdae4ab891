SPECIFICATION Spec
CONSTANTS
  t1 = t1
  t2 = t2
  Tasks <- MCTasks
  HISTORY_LENGTH = 2
  daily_budget = 2
  cooldown_seconds = 2
  DayLength = 2
  MaxTime = 2
  MaxRuns = 3
  MaxSaves = 2
  MaxGens = 2
SYMMETRY Symmetry
INVARIANT
  CountsTheDay
CHECK_DEADLOCK FALSE
