SPECIFICATION FairSpec
CONSTANTS
  m = m
  w = w
  Clusters <- TwoClusters
  MgmtCluster = m
  Placements <- After
  RunOptions <- PlainRuns
  Hazards <- NoHazard
  MaxFaults = 2
INVARIANTS
  NothingLeft
PROPERTIES
  TeardownSucceeds
  RunEnds
\* A finished run stops; the operator need not start another.
CHECK_DEADLOCK FALSE
