\* Functions for both paths, without asynchronous resumption.
SPECIFICATION Spec
CONSTANTS
  Implemented <- BothPaths
  MaxData = 1
  MaxResumes = 0
  MayDecline = FALSE
INVARIANT NeverAborts
CHECK_DEADLOCK FALSE
