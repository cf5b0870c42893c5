SPECIFICATION HistorySpec
CONSTANTS
  MaxVersion = 4
  EmptyVersions = {2}
  BadVersions = {3}
  MaxTime = 2
  Env = {"fault", "delete", "restore", "rollback", "tamper"}
INVARIANTS TypeOK SkipIsSound
PROPERTIES SyncMeansCurrent IsWorker IsGateway
