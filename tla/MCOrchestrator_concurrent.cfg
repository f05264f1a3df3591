SPECIFICATION Spec
CONSTANTS
  N = 1
  Procs = {p1, p2}
  Modes = {"manual", "api"}
  MaxAttempts = 3
  MaxDisturbances = 1
  MaxArtifacts = 7
SYMMETRY ProcSymmetry
CONSTRAINT FewArtifacts
INVARIANT AuditPasses
INVARIANT LatestRecordExplainsOutput
INVARIANT WaitingIsAnswerable
CHECK_DEADLOCK FALSE
