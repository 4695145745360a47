CONSTANTS
  Initiators = {a, b}
  Overlapping = FALSE
  MinInterval = 1
  MaxRuns = 2
  Period = 3
  MaxTime = 6
  MaxId = 4
SPECIFICATION Spec
CHECK_DEADLOCK FALSE
INVARIANTS OwnIntervalEnforced OwnBudgetEnforced HistoryComplete
