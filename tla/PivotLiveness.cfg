SPECIFICATION TFairSpec
CONSTANTS
  m = m
  w = w
  root = root
  km = km
  kw = kw
  Clusters <- TwoClusters
  MgmtCluster = m
  Kustomizations <- ThreeKustomizations
  Root = root
  ClustersOf <- OneEach
  Profile = "aws"
  RunOptions <- OnlyNormal
  Hazards <- NoHazard
  MaxFaults = 2
  Exports <- Never
  FirstDay = 21242
  LastDay = 21243
  Ttl = 1
  NoTags = NoTags
  EnvRunId = EnvRunId
INVARIANTS
  TagsDated
PROPERTIES
  PivotCompletes
  KeyRestored
  RunsEnd
  TagsSettle
\* A finished run stops; the operator need not start another.
CHECK_DEADLOCK FALSE
