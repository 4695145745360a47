CONSTANTS
  n1 = n1
  n2 = n2
  n3 = n3
  n4 = n4
  Nodes <- FourNodes
  Creator = n1
  MinActiveMembers = 2
  ExpulsionThreshold <- ThreeQuarters
  DissolutionThreshold <- Unanimity
  MaxEntries = 4
  MaxExpulsions = 0
  MayDissolve = FALSE
  Schedule <- DefaultSchedule
  MaxApplications = 4
SPECIFICATION ASpec
SYMMETRY Symmetry
\* Each statement is refuted: keep one of them at a time to see its counterexample.
INVARIANTS NewRequestRulesAnew RejectedMeansImpossible MemberOnce AllVotesInDecides
PROPERTY AcceptedStaysAccepted
CHECK_DEADLOCK FALSE
