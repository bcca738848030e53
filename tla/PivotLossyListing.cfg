SPECIFICATION Spec
CONSTANTS
  m = m
  w = w
  root = root
  km = km
  kw = kw
  Clusters <- TwoClusters
  MgmtCluster = m
  Kustomizations <- ThreeKustomizations
  Root = root
  ClustersOf <- OneEach
  Profile = "aws"
  RunOptions <- OnlyNormal
  Hazards <- LossyListing
  MaxFaults = 0
PROPERTIES
  QuietDuringMove
\* A finished run stops; the operator need not start another.
CHECK_DEADLOCK FALSE
