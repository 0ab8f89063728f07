\* Blocks of one or two headers, and two requests.
SPECIFICATION FairSpec
CONSTANTS
  Keys <- TwoKeys
  Values <- TwoValues
  MaxPairs = 2
  Requests <- TwoRequests
  MaxData = 1
  MaxCancels = 1
  EmptyTrailers = FALSE
INVARIANTS
  RefLivesAsLongAsTheStream
  AppHearsWhatWasEmitted
  HeadersSurviveTheBridge
PROPERTY EndIsHeard
CHECK_DEADLOCK FALSE
