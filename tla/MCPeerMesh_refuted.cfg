CONSTANTS
  n1 = n1
  n2 = n2
  NoSocket = NoSocket
  Stale = Stale
  NoAttempt = NoAttempt
  Nodes = {n1, n2}
  Instances = {i1}
  Sockets = {k1, k2, k3}
  Attempts = {a1, a2}
  MaxTimers = 2
SPECIFICATION MeshSpec
SYMMETRY IdSymmetry
CONSTRAINTS FewTimers OneObserver FewSockets OneNodeCutOff
\* Each statement is refuted: keep one of them at a time to see its counterexample.
INVARIANTS OpenNodeIsRoutable OpenPeerIsListed AnswerIsOwn
PROPERTY DisconnectIsFinal
CHECK_DEADLOCK FALSE
