CONSTANTS
  RootName = 6
  Numbered <- MCNumbered
  Jobs <- MCJobs
  Places <- MCPlaces
  Contents <- MCContents
SPECIFICATION Spec
INVARIANTS
  ArchiveTypeOK
  IgnoredStaysOut
  OnlyTheLastIsShort
  UntouchedComesBack
  BreaksForCause
CHECK_DEADLOCK FALSE
