\* Three uploads of one name with retention, one node.
CONSTANTS
  n1 = n1
  n2 = n2
  n3 = n3
  h1 = h1
  h2 = h2
  nm1 = nm1
  u1 = u1
  u2 = u2
  u3 = u3
  d1 = d1
  sched = sched
  Node = {n1}
  Hash = {h1}
  Name = {nm1}
  FileId = {u1, u2, u3}
  Upload = {u1, u2, u3}
  Deleter = {}
  Replicas = {0, 1, 2}
  DefaultReplicas = 2
  MaxVersion = 3
  Requests <- RequestsVersions
  Aging = {}
  Retirable = {}
  Updates = {}
  LostReplies = FALSE
  Crashes = FALSE
SPECIFICATION Spec
SYMMETRY UploadSymmetry
PROPERTIES
  RetentionKeepsNewest

