SPECIFICATION TSpec
CONSTANTS
  m = m
  w = w
  root = root
  km = km
  kw = kw
  Clusters <- TwoClusters
  MgmtCluster = m
  Kustomizations <- ThreeKustomizations
  Root = root
  ClustersOf <- OneEach
  Profile = "aws"
  RunOptions <- KeepKind
  Hazards <- Tolerated
  MaxFaults = 2
  Exports <- Always
  FirstDay = 21242
  LastDay = 21243
  Ttl = 1
  NoTags = NoTags
  EnvRunId = EnvRunId
INVARIANTS
  OneOwner
  SeededBeforeFlux
  NothingOrphaned
  TravelInv
  OneIdentity
  NothingUntagged
PROPERTIES
  QuietDuringMove
  KindGoesLast
\* A finished run stops; the operator need not start another.
CHECK_DEADLOCK FALSE
