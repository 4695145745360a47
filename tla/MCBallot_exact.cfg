CONSTANTS
  Counts <- UpToTen
  Thresholds <- ExactThresholds
SPECIFICATION Spec
INVARIANTS RejectedIffHopeless
PROPERTIES VerdictIsFinal
CHECK_DEADLOCK FALSE
