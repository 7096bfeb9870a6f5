\* The methods of State over one connection.
CONSTANTS
  p1 = p1
  p2 = p2
  f1 = f1
  f2 = f2
  h1 = h1
  h2 = h2
  n1 = n1
  nm1 = nm1
  Node = {n1}
  Hash = {h1, h2}
  Name = {nm1}
  FileId = {f1, f2}
  Replicas = {0, 1}
  DefaultReplicas = 2
  MaxVersion = 2
  Goroutine = {p1, p2}
  Calls <- MCCalls
  Contents <- MCContents
  Pairs <- MCPairs
  Keeps = {0, 1}
  MaxSeries = 1
  Nobody = Nobody
SPECIFICATION FairSpec
INVARIANTS
  TransactionsTypeOK
  
PROPERTIES
  ImplementsCatalog
  GarbageExact
  CallsReturn
