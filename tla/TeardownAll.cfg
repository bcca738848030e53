SPECIFICATION Spec
CONSTANTS
  m = m
  w = w
  Clusters <- TwoClusters
  MgmtCluster = m
  Placements <- Settled
  RunOptions <- AllRuns
  Hazards <- Tolerated
  MaxFaults = 2
INVARIANTS
  TypeOK
  HonestExit
PROPERTIES
  HostGuarded
  ImplementsDisposal
  WorkloadSweepUnopposed
\* A finished run stops; the operator need not start another.
CHECK_DEADLOCK FALSE
