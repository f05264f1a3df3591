SPECIFICATION Spec
CONSTANTS
  Families = {f1}
  Supported = {f1}
  Modes = {"api"}
  MaxStageAttempts = 2
  MaxDisturbances = 1
INVARIANT BlockedIsNotBundled
