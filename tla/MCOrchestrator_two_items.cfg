SPECIFICATION Spec
CONSTANTS
  N = 2
  Procs = {p1}
  Modes = {"api"}
  MaxAttempts = 4
  MaxDisturbances = 2
  MaxArtifacts = 99
INVARIANT BundleIsSound
INVARIANT LatestRecordExplainsOutput
PROPERTY ImplementsPipeline
CHECK_DEADLOCK FALSE
