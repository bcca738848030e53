SPECIFICATION FairSpec
CONSTANTS
  m = m
  w = w
  root = root
  km = km
  kw = kw
  Clusters <- TwoClusters
  MgmtCluster = m
  Kustomizations <- ThreeKustomizations
  Root = root
  ClustersOf <- OneEach
  Profile = "aws"
  RunOptions <- OnlyNormal
  Hazards <- LateFailure
  MaxFaults = 1
PROPERTIES
  PivotCompletes
\* A finished run stops; the operator need not start another.
CHECK_DEADLOCK FALSE
