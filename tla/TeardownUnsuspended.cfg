SPECIFICATION Spec
CONSTANTS
  m = m
  w = w
  Clusters <- TwoClusters
  MgmtCluster = m
  Placements <- Before
  RunOptions <- LocalRun
  Hazards <- NoHazard
  MaxFaults = 0
PROPERTIES
  HostGuarded
\* A finished run stops; the operator need not start another.
CHECK_DEADLOCK FALSE
