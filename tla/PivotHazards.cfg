SPECIFICATION CSpec
CONSTANTS
  m = m
  w = w
  root = root
  km = km
  kw = kw
  Clusters <- TwoClusters
  MgmtCluster = m
  Kustomizations <- ThreeKustomizations
  Root = root
  ClustersOf <- OneEach
  Profile = "local-host"
  RunOptions <- MayRecreate
  Hazards <- AllHazards
  MaxFaults = 1
INVARIANTS
  AmbientReachesKind
PROPERTIES
  RecreateForCause
\* A finished run stops; the operator need not start another.
CHECK_DEADLOCK FALSE
