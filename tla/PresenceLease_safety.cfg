CONSTANTS
  Nodes = {n1}
  Instances = {i1, i2}
  Lease = 2
  MaxDelay = 2
  MaxCrashes = 1
SPECIFICATION FairSpec
INVARIANTS SilentNodeIsOffline LeasedNodeIsLogged
PROPERTIES ExpiredLeaseIsSwept
