CONSTANTS
  Nodes = {n1}
  Instances = {i1, i2}
  Lease = 2
  MaxDelay = 2
  MaxCrashes = 0
SPECIFICATION Spec
PROPERTY SweptLeasesAreSkipped
