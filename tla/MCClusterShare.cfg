\* Two uploads of the same chunk, a deletion and the scheduler; no faults.
CONSTANTS
  n1 = n1
  n2 = n2
  n3 = n3
  h1 = h1
  h2 = h2
  nm1 = nm1
  u1 = u1
  u2 = u2
  u3 = u3
  d1 = d1
  sched = sched
  Node = {n1, n2}
  Hash = {h1}
  Name = {nm1}
  FileId = {u1, u2}
  Upload = {u1, u2}
  Deleter = {d1}
  Replicas = {0, 1, 2}
  DefaultReplicas = 2
  MaxVersion = 3
  Requests <- RequestsShared
  Aging = {}
  Retirable = {}
  Updates = {}
  LostReplies = FALSE
  Crashes = FALSE
SPECIFICATION Spec
SYMMETRY UploadNodeSymmetry
PROPERTIES
  FullyCopiedAtCommit
  PruneKeepsDesired
  DeletesOnlyUnowned
