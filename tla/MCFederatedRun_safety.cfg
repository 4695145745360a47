CONSTANTS
  N = 2
  Faults <- AllFaults
SPECIFICATION FairSpec
INVARIANTS ResultIncludesEveryone ResultAgreement
PROPERTIES AbortedRunNeverDistributes RunSettles ImplementsAbstractRun
CHECK_DEADLOCK FALSE
