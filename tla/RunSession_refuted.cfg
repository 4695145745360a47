CONSTANTS
  Initiators = {a, b}
  Overlapping = TRUE
  MinInterval = 2
  MaxRuns = 2
  Period = 6
  MaxTime = 4
  MaxId = 2
SPECIFICATION Spec
\* Each statement is refuted: keep one of them at a time to see its counterexample.
INVARIANTS IntervalBetweenRuns OneRunAtATime
CHECK_DEADLOCK FALSE
