\* One stream, two threads: every interleaving of its callers with the main
\* thread, under fairness of the library's own threads.
SPECIFICATION FairSpec
CONSTANTS
  t1 = t1
  t2 = t2
  Threads = {t1, t2}
  MaxStreams = 1
  MaxFrames = 2
  MaxCancels = 2
  AttemptCounts = {3}
  FilterMayStrip = FALSE
INVARIANTS
  TypeOK
  AtMostOneTerminal
  MapMirrorsHcm
  DirectStreamOutlivesCalls
  DecodedInOrder
  ErrorReportFaithful
PROPERTIES
  ImplementsContract
  ImplementsPostQueue
  CancelDelivers
  FramesDelivered
  ClosedStreamsAreFreed
CHECK_DEADLOCK FALSE
