SPECIFICATION FairSpec
CONSTANTS
  MaxVersion = 2
  QueueCap = 1
  MaxTime = 1
  Faults = TRUE
PROPERTIES EventuallyPublished ShutdownEnds
