CONSTANTS
  n1 = n1
  n2 = n2
  n3 = n3
  n4 = n4
  Nodes <- ThreeNodes
  Creator = n1
  MinActiveMembers = 2
  ExpulsionThreshold <- ThreeQuarters
  DissolutionThreshold <- Unanimity
  MaxEntries = 3
  MaxExpulsions = 0
  MayDissolve = FALSE
  Schedule <- DefaultSchedule
  MaxApplications = 2
SPECIFICATION ASpec
SYMMETRY Symmetry
CONSTRAINTS OneApplicant ActivatedNetwork VotersAreListed OneWayToFail
INVARIANTS FullVoteDecides OverdueIsUnsettled
CHECK_DEADLOCK FALSE
