\* The reply of a pruning delete is lost.
CONSTANTS
  n1 = n1
  n2 = n2
  n3 = n3
  h1 = h1
  h2 = h2
  nm1 = nm1
  u1 = u1
  u2 = u2
  u3 = u3
  d1 = d1
  sched = sched
  Node = {n1, n2}
  Hash = {h1}
  Name = {nm1}
  FileId = {u1}
  Upload = {u1}
  Deleter = {}
  Replicas = {0, 1, 2}
  DefaultReplicas = 2
  MaxVersion = 3
  Requests <- RequestsPair
  Aging = {}
  Retirable = {}
  Updates <- LowerFirst
  LostReplies = TRUE
  Crashes = FALSE
SPECIFICATION Spec
PROPERTIES
  PruneLeavesCopy
