CONSTANTS
  n1 = n1
  n2 = n2
  n3 = n3
  n4 = n4
  Nodes <- ThreeNodes
  Creator = n1
  MinActiveMembers = 2
  ExpulsionThreshold <- ThreeQuarters
  DissolutionThreshold <- Unanimity
  MaxEntries = 4
  MaxExpulsions = 1
  MayDissolve = TRUE
SPECIFICATION Spec
\* Each statement is refuted: keep one of them at a time to see its counterexample.
INVARIANTS ActiveMembersMayPropose TargetVoteDoesNotCount DissolutionIsUnanimous
PROPERTIES StatusFollowsMap EveryoneReAcknowledges DepartedRecordIsKept
CHECK_DEADLOCK FALSE
