CONSTANTS
  Nodes = {n1}
  Instances = {i1}
  Lease = 2
  MaxDelay = 2
  MaxCrashes = 0
SPECIFICATION Spec
PROPERTY OnlyExpiredLeasesAreSwept
