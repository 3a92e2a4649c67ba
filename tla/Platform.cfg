SPECIFICATION PlatformSpec
CONSTANTS
  None = None
  Users = {u}
  Sessions = {s1, s2}
  Secrets = {t1, t2}
  Calls = {k1, k2}
  Peers = {p1, p2}
  Originals = {"link"}
  Torn = Torn
  Wanted <- SomeConfigs
  TunnelFaults = {"down", "script", "conf", "up", "boot", "clean", "dns", "files", "markers",
                  "snapshot", "resolver", "redirect", "egress"}
  MaxOutages = 1
  MaxFailures = 1
  Domains = {d}
  Changes = {c1, c2}
  MaxRequests = 2
  MaxSlips = 1
  Requests = {r1, r2}
  MaxUserWrites = 3
  MaxSetupFails = 1
  HasGPU = TRUE
  MaxGenerated = 2
  MaxSetbacks = 2
  MaxLostSaves = 1
  Paths = {a1, a2, a3}
  Files = {f1, f2, f3}
  Contents = {x1, x2}
  Large = {x2}
  Limit = 1
  Handlers = {hd1, hd2}
  Uploads = {u1}
  Chunks = {h1, h2}
  Size = 2
  MaxJobs = 2
  MaxBroken = 1
  OllamaModels = {q}
  VLLMModels = {m1, m2}
  ModelOps = {o1, o2}
  NumFiles = 1
  MaxStarted = 3
  MaxMishaps = 1
  MountNames = {n1, n2}
  Shares = {e1, e2}
  MaxMountFaults = 3
  Entries = {i1}
  Readers = {g1, g2}
  MaxVersions = 2
  Restarters = {b1, b2}
  Lists = {l1}
  MaxUpgrades = 1
  MaxRefusals = 1
  SSHRequests = {j1, j2}
  Ports = {22, 1023, 1024}
  MaxSSHFaults = 1
  SecretKeys = {y1, y2}
  SecretValues = {v1, v2}
  StoreCalls = {w1, w2}
  MaxGatewayStarts = 2
  MaxMisreads = 1
  Blockables = {z1, z2}
  Addresses = {ip}
  Togglers = {tg1, tg2}
  Rounds = 2
  MaxToggles = 2
  MaxPodMoves = 2
  MaxNetFaults = 1
  DbApps = {da}
  Roles = {ro1, ro2}
  Brought <- OneChart
  Installs = {in1, in2}
  MaxPasswords = 3
  MaxDbFaults = 1
INVARIANTS InstallIsSound HostAgrees FilesSurvive ModelsAgree SharesAreSafe CatalogIsFresh RestartsSettle SecretsAreFound BlocksHold DatabaseOpens
PROPERTIES SwitchSettles SessionsAreSound NeverReopened
CHECK_DEADLOCK FALSE
