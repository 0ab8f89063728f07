\* Both platforms' monitors, two engines, three events of the network.
SPECIFICATION FairSpec
CONSTANTS
  t1 = t1
  t2 = t2
  Threads = {t1, t2}
  Platforms = {"android", "ios"}
  Networks = {"none", "wifi", "mobile", "other"}
  MaxChanges = 3
  MaxPosted = 1
INVARIANTS
  TypeOK
  OneMonitor
  QuietPreferenceIsCurrent
PROPERTY StreamsFollowTheNetwork
CHECK_DEADLOCK FALSE
