\* A serial dispatch queue, and an application without onTrailers.
SPECIFICATION FairSpec
CONSTANTS
  Serial = TRUE
  Handlers <- SomeHandlers
  MaxData = 2
  MaxCancels = 2
INVARIANTS
  ContextOutlivesCallbacks
  AppHearsInOrder
  PayloadsReleased
PROPERTY StreamIsFreed
CHECK_DEADLOCK FALSE
