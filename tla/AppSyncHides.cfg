SPECIFICATION Spec
CONSTANTS
  a1 = a1
  a2 = a2
  r1 = r1
  r2 = r2
  r3 = r3
  h1 = h1
  h2 = h2
  h3 = h3
  None = None
  Apps <- OneApp
  Reqs <- TwoReqs
  Recs <- TwoRecs
  Hosts <- MCHosts
  Entrances <- NoEntrances
  AppHost <- MCAppHost
  Kinds = {"install"}
  Serial = TRUE
  MaxCrashes = 0
  ClusterFaults = {}
  SaveFaults = {}
  Outcomes = {"ok"}
INVARIANT GoneMeansInstalledBefore
