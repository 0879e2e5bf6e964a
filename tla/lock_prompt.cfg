SPECIFICATION PromptSpec
CONSTANTS
  c1 = c1
  c2 = c2
  o1 = o1
  o2 = o2
  t1 = t1
  s1 = s1
  s2 = s2
  s3 = s3
  None = None
  Op <- MCOps
  Target <- MCTargets
  Client <- MCClients2
  Secret <- MCSecrets3
  Request <- MCOneKey
  MaxLease = 2
  WaitingTimeout = 1
SYMMETRY MCSymmetry2
INVARIANTS PromptInv LeaseExclusion RunningLeaseIsStored
PROPERTIES OnlyOwnerReleases OnlyOwnerExtends KeepsPromise
