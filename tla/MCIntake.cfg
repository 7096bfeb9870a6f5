CONSTANTS
  Byte = {0, 1, 2}
  Gear <- MCGear
  Width = 5
  Target = 1
  Smallest = 2
  DefaultTarget = 4
  Node = {1, 2}
  Requests <- MCRequests
  Foreign <- MCForeign
  Insertions <- MCInsertions
  Capacities <- MCCapacities
  Overhead <- MCOverhead
SPECIFICATION FairSpec
INVARIANTS
  IntakeTypeOK
  LandmarksAreCuts
  InsertionShiftsNothing
  ManifestIsBody
  

  
CHECK_DEADLOCK FALSE
