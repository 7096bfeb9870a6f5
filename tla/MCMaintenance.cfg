CONSTANTS
  Node = {1, 2, 3}
  Hash = {1, 2}
  Free <- MCFree
  Replicas = {1, 2}
  Limit = 1
  MaxBroken = 1
  Troubles = 2
SPECIFICATION FairSpec
INVARIANT MaintenanceTypeOK
PROPERTIES
  Converges
  ComesToRest
  
