SPECIFICATION QSpec
CONSTANTS
  m = m
  w = w
  root = root
  km = km
  kw = kw
  Clusters <- TwoClusters
  MgmtCluster = m
  Kustomizations <- ThreeKustomizations
  Root = root
  ClustersOf <- OneEach
  Profile = "aws"
  RunOptions <- AnyRun
  Hazards <- LateFaults
  MaxFaults = 2
  EipsPerCluster = 3
  Limit = 8
  Others <- JustEnough
INVARIANTS
  UnpausedBeforeFlux
  NeverShort
PROPERTIES
  ImplementsHandoff
  RerunFits
\* A finished run stops; the operator need not start another.
CHECK_DEADLOCK FALSE
