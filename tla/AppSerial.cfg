SPECIFICATION Spec
CONSTANTS
  a1 = a1
  a2 = a2
  r1 = r1
  r2 = r2
  r3 = r3
  h1 = h1
  h2 = h2
  h3 = h3
  None = None
  Apps <- OneApp
  Reqs <- ThreeReqs
  Recs <- ThreeRecs
  Hosts <- MCHosts
  Entrances <- NoEntrances
  AppHost <- MCAppHost
  Kinds = {"install", "uninstall", "wipe", "suspend", "resume"}
  Serial = TRUE
  MaxCrashes = 1
  ClusterFaults = {"helm", "scale", "stateful"}
  SaveFaults = {}
  Outcomes = {"ok"}
INVARIANTS NoUntrackedRelease StoppedIsScaledDown DeployedIsRegistered
SYMMETRY ReqSymmetry
