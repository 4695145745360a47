CONSTANTS
  N = 3
  Faults <- LinkFaults
SPECIFICATION Spec
\* Each statement is refuted: keep one of them at a time to see its counterexample.
INVARIANT MidRunDisconnectAborts
PROPERTY AbortNotifiesAllPeers
CHECK_DEADLOCK FALSE
