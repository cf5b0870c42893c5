SPECIFICATION FairSpec
CONSTANTS
  MaxVersion = 2
  EmptyVersions = {}
  BadVersions = {}
  MaxTime = 1
  Env = {"tamper"}
PROPERTIES CorruptionIsReconciled
