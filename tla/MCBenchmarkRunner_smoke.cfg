SPECIFICATION Spec
CONSTANTS
  Cases <- ReleaseSmoke
  K = 2
  MaxRetries = 1
  MaxBenchmarks = 2
  MaxDisturbances = 3
INVARIANTS
  TypeOK
  ReportIsTrue
  GateIsEarned
  AccountsBalance
PROPERTIES
  BenchmarkEnds
CHECK_DEADLOCK FALSE
