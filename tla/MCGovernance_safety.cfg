CONSTANTS
  n1 = n1
  n2 = n2
  n3 = n3
  n4 = n4
  Nodes <- ThreeNodes
  Creator = n1
  MinActiveMembers = 2
  ExpulsionThreshold <- ThreeQuarters
  DissolutionThreshold <- Unanimity
  MaxEntries = 3
  MaxExpulsions = 1
  MayDissolve = TRUE
SPECIFICATION Spec
SYMMETRY Symmetry
INVARIANTS MarkedMembersReAcknowledge CapableWhenActive
PROPERTIES EndingsAreFinal
CHECK_DEADLOCK FALSE
