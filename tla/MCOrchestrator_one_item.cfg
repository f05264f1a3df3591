SPECIFICATION FairSpec
CONSTANTS
  N = 1
  Procs = {p1}
  Modes = {"manual", "api"}
  MaxAttempts = 4
  MaxDisturbances = 2
  MaxArtifacts = 99
INVARIANT TypeOK
INVARIANT LineageIsClosed
INVARIANT LatestRecordExplainsOutput
PROPERTY HistoryIsAppendOnly
PROPERTY EndsInBundle
CHECK_DEADLOCK FALSE
