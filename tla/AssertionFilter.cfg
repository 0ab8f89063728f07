\* Rules about a request, about a response that may end before its request
\* does, and about both.
SPECIFICATION Spec
CONSTANTS
  Configs <- SmallConfigs
  BodyLimit = 2
  MaxData = 3
INVARIANTS
  RepliesIffUnsatisfied
  RepliesOnlyWhenLost
CHECK_DEADLOCK FALSE
