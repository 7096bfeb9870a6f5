\* The metadata tables alone: every interleaving of the statements.
CONSTANTS
  n1 = n1
  n2 = n2
  h1 = h1
  h2 = h2
  nm1 = nm1
  f1 = f1
  f2 = f2
  f3 = f3
  Node <- MCNode
  Hash <- MCHash
  Name <- MCName
  FileId <- MCFileId
  Replicas <- MCReplicas
  DefaultReplicas = 2
  MaxVersion = 4
SPECIFICATION CatSpec
SYMMETRY MCSymmetry
INVARIANTS
  TypeOK
  LocationsRegistered
  VersionsDistinct
