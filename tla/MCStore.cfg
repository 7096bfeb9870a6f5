\* Room for one chunk, with a key and without, restarts at any point.
CONSTANTS
  p1 = p1
  p2 = p2
  h1 = h1
  h2 = h2
  h3 = h3
  Op = {p1, p2}
  Hash = {h1, h2, h3}
  Blocks = 2
  Overhead = 1
  Capacity = 2
  Keys = {TRUE, FALSE}
  Restarts = TRUE
  MaxSealed = 3
SPECIFICATION StoreSpec
SYMMETRY StoreSymmetry
INVARIANTS
  StoreTypeOK
  PublishedWhole
  
  OverrunBounded
PROPERTIES
  AckedStored
