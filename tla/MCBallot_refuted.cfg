CONSTANTS
  Counts <- UpToTen
  Thresholds <- ShortThresholds
SPECIFICATION Spec
INVARIANT RejectedMeansImpossible
CHECK_DEADLOCK FALSE
