SPECIFICATION Spec
CONSTANTS
  m = m
  w = w
  Clusters <- TwoClusters
  MgmtCluster = m
  Placements <- Handed
  RunOptions <- AwsRun
  Hazards <- NoHazard
  MaxFaults = 0
PROPERTIES
  HostGuarded
\* A finished run stops; the operator need not start another.
CHECK_DEADLOCK FALSE
