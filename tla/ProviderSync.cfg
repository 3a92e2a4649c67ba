SPECIFICATION Spec
CONSTANTS
  p = p
  q = q
  c = c
  g1 = g1
  g2 = g2
  x1 = x1
  x2 = x2
  y = y
  own = own
  v1 = v1
  None = None
  Apps <- MCApps
  Groups <- MCGroups
  Addresses <- MCAddresses
  EnvVars <- MCVars
  VarOf <- MCVarOf
  SpecsOf <- MCSpecs
  MaxChanges = 2
  MaxBreaks = 1
INVARIANTS TypeOK AppsFollowCluster RegistryFollowsApps EnvFollowsRegistry InstalledAreServed
PROPERTY CatchesUp
