SPECIFICATION FairSpec
CONSTANTS
  Families = {f1, f2}
  Supported = {f1, f2}
  Modes = {"manual", "api"}
  MaxStageAttempts = 2
  MaxDisturbances = 3
INVARIANT AttemptsAreLogged
INVARIANT GivesUpOnlyWhenSpent
INVARIANT BundleMatchesState
INVARIANT BlueprintFitsFamily
INVARIANT WaitingHasPacket
PROPERTY ImplementsPipeline
PROPERTY EndsInBundle
