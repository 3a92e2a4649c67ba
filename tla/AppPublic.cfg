SPECIFICATION Spec
CONSTANTS
  a1 = a1
  a2 = a2
  r1 = r1
  r2 = r2
  r3 = r3
  h1 = h1
  h2 = h2
  h3 = h3
  None = None
  Apps <- TwoApps
  Reqs <- TwoReqs
  Recs <- TwoAppRecs
  Hosts <- SharedHosts
  Entrances <- SharedEntrances
  AppHost <- SharedAppHost
  Kinds = {"uninstall", "publish", "unpublish"}
  Serial = TRUE
  MaxCrashes = 1
  ClusterFaults = {"helm"}
  SaveFaults = {}
  Outcomes = {"ok", "refused"}
INVARIANTS PublishedFollowsToggle NilMeansPublished
PROPERTIES SharedHostStays DomainSpec
SYMMETRY ReqSymmetry
