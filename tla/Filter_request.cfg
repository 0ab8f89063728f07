\* A filter with functions for the request only.
SPECIFICATION Spec
CONSTANTS
  Implemented <- RequestOnly
  MaxData = 3
  MaxResumes = 2
  MayDecline = TRUE
INVARIANTS
  NeverAborts
  
  NothingLost
  EndIsLast
  SnapshotIsExact
PROPERTY ResumesOnlyStopped
CHECK_DEADLOCK FALSE
