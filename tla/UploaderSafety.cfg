\* Two or three versions let a Put be overtaken by newer writes; a queue of
\* two overflows; two instants tell an old synchronisation from a new one.
SPECIFICATION Spec
CONSTANTS
  MaxVersion = 3
  QueueCap = 2
  MaxTime = 2
  Faults = TRUE
INVARIANTS TypeOK QuiescentPublished
PROPERTIES ShutdownFlushPublishes SyncMeansPublished PublishesIssued IsWorker
