\* Three threads; construction may fail, callbacks call the API and the
\* condition variable may wake up on its own.
SPECIFICATION FairSpec
CONSTANTS
  t1 = t1
  t2 = t2
  t3 = t3
  m = m
  Threads = {t1, t2, t3}
  Main = m
  MaxCalls = 4
  ConfigMayFail = TRUE
  MainCallsApi = TRUE
  SpuriousWakeups = TRUE
INVARIANTS
  TypeOK
  RecordUseIsSafe
  CallsPinEngine
  DtorFindsMainCommon
PROPERTY ShutdownEnds
CHECK_DEADLOCK FALSE
