SPECIFICATION HistorySpec
CONSTANTS
  MaxVersion = 2
  QueueCap = 2
  MaxTime = 1
  Faults = FALSE
PROPERTIES NextBootUploads
