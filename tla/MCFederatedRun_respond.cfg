CONSTANTS
  N = 2
  Faults <- NoFaults
SPECIFICATION Spec
INVARIANT ReturnsOnceAllResponded
CHECK_DEADLOCK FALSE
