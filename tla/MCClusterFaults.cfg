\* Crashes, lost replies, nodes removed and wiped, missed heartbeats.
CONSTANTS
  n1 = n1
  n2 = n2
  n3 = n3
  h1 = h1
  h2 = h2
  nm1 = nm1
  u1 = u1
  u2 = u2
  u3 = u3
  d1 = d1
  sched = sched
  Node = {n1, n2}
  Hash = {h1}
  Name = {nm1}
  FileId = {u1}
  Upload = {u1}
  Deleter = {d1}
  Replicas = {0, 1, 2}
  DefaultReplicas = 2
  MaxVersion = 3
  Requests <- RequestsAny
  Aging = {n1, n2}
  Retirable = {n1}
  Updates <- LowerFirst
  LostReplies = TRUE
  Crashes = TRUE
SPECIFICATION Spec
INVARIANTS
  ClusterTypeOK
  LocationsBacked
  LossOnlyIfExcused
PROPERTY CatSpec
