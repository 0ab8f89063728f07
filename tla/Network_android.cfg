\* The Android monitor alone.
SPECIFICATION Spec
CONSTANTS
  t1 = t1
  Threads = {t1}
  Platforms = {"android"}
  Networks = {"none", "wifi", "mobile"}
  MaxChanges = 1
  MaxPosted = 1
INVARIANT PreferenceNamesTheNetwork
CHECK_DEADLOCK FALSE
