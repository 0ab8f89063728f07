\* Both platforms, every set of interfaces, a data frame on each path.
SPECIFICATION Spec
CONSTANTS
  Platforms = {"ios", "jvm"}
  MaxData = 1
  Texts = {"ascii", "utf8"}
INVARIANTS
  MemoryIsBalanced
  FramesSurviveTheBridge
CHECK_DEADLOCK FALSE
