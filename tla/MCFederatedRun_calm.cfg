CONSTANTS
  N = 1
  Faults <- UntimedFaults
SPECIFICATION FairSpec
PROPERTY CalmRunCompletes
CHECK_DEADLOCK FALSE
