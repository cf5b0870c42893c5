SPECIFICATION FairSpec
CONSTANTS
  MaxVersion = 3
  EmptyVersions = {2}
  BadVersions = {3}
  MaxTime = 2
  Env = {"fault", "delete", "restore", "rollback", "tamper"}
PROPERTIES EventuallyServed StopEnds
