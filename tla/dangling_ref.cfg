SPECIFICATION FairSpec
CONSTANTS
  k1 = k1
  k2 = k2
  x1 = x1
  x2 = x2
  None = None
  AgentClusters = {k1}
  Names = {x1, x2}
  NameOf <- OwnClusterNames
  Environment = {"apiError", "resync"}
  MaxFaults = 1
PROPERTIES ClusterBecomesReady
CHECK_DEADLOCK FALSE
